----------------------------- MODULE SoakReport -----------------------------
(***************************************************************************)
(* build_soak_report and compute_verdict: what the report written at the   *)
(* end of a session says of it.  A report is the record of what the        *)
(* session's summary and counters hold when it ends:                       *)
(*   mode, placement   the settings of the session                         *)
(*   clean, aborts     session_ended_cleanly and abort_reasons             *)
(*   count             the counters, by name                               *)
(*   uncleared         the startup block is still set                      *)
(*   stale, tripped    the feed and the breaker as last seen by the health *)
(* Figures no verdict depends on are left out, and so are two that stay 0: *)
(* signal_rejected, as no meta gate is installed, and, in a session that   *)
(* ends cleanly, the decision failures.                                    *)
(***************************************************************************)
EXTENDS Integers

Counters ==
    {"candidates", "regime_rejected", "sizing_rejected",
     "model_filter_reached", "model_allowed", "model_blocked",
     "existing_position", "other_guard_block",
     "intents", "submissions", "acks", "filled",
     "entry_fill", "pe_submitted", "pe_ack", "pe_failed", "pe_skipped",
     "mismatch_cycles", "orphan_blocked", "orphan_cleared",
     "startup_blocked"}

NoCounts == [c \in Counters |-> 0]

AtLeastZero(n) == IF n > 0 THEN n ELSE 0

\* filled_entries_without_exit_ack
UnackedFills(r) ==
    AtLeastZero(r.count.entry_fill - r.count.pe_ack - r.count.pe_failed - r.count.pe_skipped)

SizingPassed(r) ==
    AtLeastZero(AtLeastZero(r.count.candidates - r.count.regime_rejected)
                - r.count.sizing_rejected)

ModelEvaluations(r) == r.count.model_allowed + r.count.model_blocked

RepeatedMismatch(r) == "repeated_reconcile_mismatch" \in r.aborts

\* paper_stale_feed_recovered_session: the one abort that is forgiven.
StaleFeedRecovered(r) ==
    /\ r.mode = "paper"
    /\ r.clean
    /\ r.aborts = {"stale_feed"}
    /\ r.count.mismatch_cycles = 0
    /\ r.count.pe_failed = 0
    /\ UnackedFills(r) = 0
    /\ ~r.uncleared
    /\ ~r.tripped
    /\ ~r.stale

\* missing_ack_hard_failure
ExitMissing(r) ==
    r.count.entry_fill > r.count.pe_submitted + r.count.pe_failed + r.count.pe_skipped

\* Mutant of Unanswered: the intents of the strategy, which no exit is among.
UnansweredIntents(r) == r.count.intents > r.count.acks

\* submitted_gt_ack, entries and exits together
Unanswered(r) == r.count.submissions > r.count.acks

\* The first test of the FAIL conditions.
Aborted(r) == ~r.clean \/ (r.aborts # {} /\ ~StaleFeedRecovered(r))

OperationallyClean(r) ==
    /\ ~Aborted(r)
    /\ ~RepeatedMismatch(r)
    /\ r.count.mismatch_cycles = 0
    /\ r.count.pe_failed = 0
    /\ UnackedFills(r) = 0
    /\ ~ExitMissing(r)

\* The model allowed candidates and nothing was submitted, for one of the two
\* reasons that are taken for an explanation.
HeldPositionOnly(r) ==
    /\ r.count.existing_position > 0
    /\ r.count.other_guard_block = 0
    /\ OperationallyClean(r)

PaperSizingOnly(r) ==
    /\ r.mode = "paper"
    /\ ~r.placement
    /\ r.count.sizing_rejected > 0
    /\ SizingPassed(r) = 0
    /\ OperationallyClean(r)

NothingSubmitted(r) ==
    /\ r.count.model_filter_reached > 0
    /\ r.count.submissions = 0
    /\ r.count.model_allowed > 0

When(condition, reason) == IF condition THEN {reason} ELSE {}

Failures(r) ==
    When(Aborted(r), "session_aborted")
    \union When(ExitMissing(r), "fills_without_protective_exit_ack")
    \union When(r.count.pe_failed > 0, "protective_exit_failures_present")
    \union When(RepeatedMismatch(r), "repeated_reconcile_mismatch_abort")
    \union When(NothingSubmitted(r) /\ ~HeldPositionOnly(r) /\ ~PaperSizingOnly(r),
                "model_allowed_but_no_submissions_unexplained")
    \union When(Unanswered(r), "submitted_gt_ack")
    \union When(r.count.entry_fill > r.count.filled, "entry_fill_inconsistent")

Warnings(r) ==
    When(~Aborted(r) /\ StaleFeedRecovered(r), "stale_feed_recovered")
    \union When(NothingSubmitted(r) /\ (HeldPositionOnly(r) \/ PaperSizingOnly(r)),
                "model_allowed_explained")
    \union When(ModelEvaluations(r) = 0, "no_model_evaluations")
    \union When(r.count.candidates = 0, "no_candidates_seen")
    \union When(/\ r.count.candidates > 0
                /\ r.count.intents = 0
                /\ r.count.model_blocked >= r.count.candidates, "all_candidates_blocked")
    \union When(r.count.submissions = 0 /\ Failures(r) = {}, "no_submissions")
    \union When(r.count.orphan_blocked > 0, "orphan_position_block_triggered")
    \union When(r.count.startup_blocked > 0, "startup_state_block_triggered")
    \union When(r.count.mismatch_cycles > 0, "reconcile_mismatches_present")

Verdict(r) ==
    IF Failures(r) # {} THEN "FAIL"
    ELSE IF Warnings(r) # {} THEN "PASS_WITH_WARNINGS" ELSE "PASS"

=============================================================================
