----------------------------- MODULE Promotion ------------------------------
(***************************************************************************)
(* promotion_readiness: the reports of several sessions are summed up and  *)
(* judged together.  A report carries its own verdict and its length; the  *)
(* sums no verdict depends on are left out.                                *)
(***************************************************************************)
EXTENDS SoakReport, Sequences, SequencesExt, FiniteSets

CONSTANTS
    MinSessions,     \* minimum_passing_sessions
    MinDuration,     \* minimum_total_duration_seconds
    MinFills,        \* minimum_total_fills
    MinEvaluations   \* minimum_model_evaluations

ASSUME ThresholdsAssumption ==
    {MinSessions, MinDuration, MinFills, MinEvaluations} \subseteq Nat

\* The sums of aggregate_soak_reports, those a verdict depends on.
Sums(reports) ==
    LET total(figures) == FoldSeq(+, 0, figures)
        sessions == DOMAIN reports
    IN  [pass        |-> Cardinality({i \in sessions : reports[i].verdict # "FAIL"}),
         duration    |-> total([i \in sessions |-> reports[i].duration]),
         fills       |-> total([i \in sessions |-> reports[i].count.entry_fill]),
         failures    |-> total([i \in sessions |-> reports[i].count.pe_failed]),
         evaluations |-> total([i \in sessions |-> ModelEvaluations(reports[i])])]

\* Mutant of AbortBlamed: any abort reason counts, a recovered one too.
AbortBlamedAnyReason(r) == ~r.clean \/ r.aborts # {}

AbortBlamed(r) == ~r.clean \/ (r.aborts # {} /\ ~StaleFeedRecovered(r))

OrphanUnresolved(r) == r.count.orphan_blocked > 0 /\ r.count.orphan_cleared = 0

Failed(r) == r.verdict = "FAIL"

AllPaper(reports) ==
    reports # <<>> /\ \A i \in DOMAIN reports : reports[i].mode = "paper"

\* reason_attribution: which session is to blame for which reason.
Attribution(reports) ==
    [any_fail          |-> {i \in DOMAIN reports : Failed(reports[i])},
     exit_missing      |-> {i \in DOMAIN reports : ExitMissing(reports[i])},
     session_aborted   |-> {i \in DOMAIN reports : AbortBlamed(reports[i])},
     reconcile_abort   |-> {i \in DOMAIN reports : RepeatedMismatch(reports[i])},
     startup_not_clear |-> {i \in DOMAIN reports : reports[i].uncleared}]

\* The hard reasons of compute_promotion_verdict.
NotReadyReasons(reports) ==
    LET blame == Attribution(reports)
    IN  When(blame.any_fail # {}, "any_fail_soak_report")
        \union When(Sums(reports).failures > 0,
                    "protective_exit_placement_failed_count_gt_zero")
        \union When(blame.exit_missing # {}, "fills_without_protective_exit_ack")
        \union When(blame.session_aborted # {}, "session_aborted")
        \union When(blame.reconcile_abort # {}, "repeated_reconcile_mismatch_abort_present")
        \union When(blame.startup_not_clear # {}, "unresolved_startup_state")
        \union When(\E i \in DOMAIN reports : OrphanUnresolved(reports[i]),
                    "unresolved_orphan_block")
        \union When(reports = <<>>, "no_valid_soak_reports")

\* Not enough has been seen.  Paper sessions trade nothing and need no fills.
CoverageReasons(reports) ==
    LET sums == Sums(reports)
        trades == ~AllPaper(reports)
    IN  When(sums.pass < MinSessions, "passing_sessions")
        \union When(sums.duration < MinDuration, "total_duration")
        \union When(trades /\ sums.fills < MinFills, "total_fills")
        \union When(trades /\ sums.evaluations < MinEvaluations, "total_model_evaluations")

PromotionVerdict(reports) ==
    IF NotReadyReasons(reports) # {} THEN "NOT_READY"
    ELSE IF CoverageReasons(reports) # {} THEN "CONTINUE_DEMO_SOAK"
    ELSE "READY_FOR_PAPER"

=============================================================================
