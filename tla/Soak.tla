-------------------------------- MODULE Soak --------------------------------
(***************************************************************************)
(* Soak sessions one after another: what a session counts while it trades, *)
(* the report written when it ends, and the promotion verdict over the     *)
(* reports so far.                                                         *)
(*                                                                         *)
(* A session is abstracted to the places where a counter moves and to the  *)
(* suspension points between two of them, where the end of the session may *)
(* cut a task off.  Why an order fills, a cycle mismatches or a feed goes  *)
(* stale is left to the modules of those parts.                            *)
(***************************************************************************)
EXTENDS Promotion, Reconciler, FiniteSets

CONSTANTS
    Entries,        \* entry orders, of all the sessions together
    Durations,      \* how long a session may last
    \* Bounds that keep the model finite:
    MaxReports,     \* sessions that leave a report
    MaxIncidents    \* what happens to the sessions, all of them together

VARIABLES
    session,    \* what the session under way would report
    up,         \* it is running
    answers,    \* tasks that await the answer to an order they placed
    fate,       \* fate[e]: how far the entry order e and its exit have come
    blocks,     \* the session's reconcile block state
    reports,    \* the reports written so far, each with how it really was
    incidents   \* candidates, dirty starts, cycles, stale feeds, failures, lost reports

vars == <<session, up, answers, fate, blocks, reports, incidents>>

Fresh(mode) ==
    [mode |-> mode, placement |-> mode = "demo", clean |-> TRUE, aborts |-> {},
     count |-> NoCounts, stale |-> FALSE, tripped |-> FALSE]

Init ==
    /\ session = Fresh("demo")
    /\ up = FALSE
    /\ answers = {}
    /\ fate = [e \in Entries |-> "unused"]
    /\ blocks = NoBlocks
    /\ reports = <<>>
    /\ incidents = 0

\* The counters of a session after those in names have gone up.
Counting(s, names) ==
    [s EXCEPT !.count = [c \in Counters |-> @[c] + IF c \in names THEN 1 ELSE 0]]

Count(names) == session' = Counting(session, names)

Incident ==
    /\ incidents < MaxIncidents
    /\ incidents' = incidents + 1

-----------------------------------------------------------------------------
(***************************************************************************)
(* The start and the end of a session.                                     *)
(***************************************************************************)

\* _startup may find the exchange dirty and then starts blocked.
SessionStart(mode, dirty) ==
    /\ ~up
    /\ Len(reports) < MaxReports
    /\ IF dirty THEN Incident ELSE UNCHANGED incidents
    /\ up' = TRUE
    /\ session' = Counting(Fresh(mode), IF dirty THEN {"startup_blocked"} ELSE {})
    /\ blocks' = [NoBlocks EXCEPT !.startup = dirty]
    /\ UNCHANGED <<answers, fate, reports>>

\* _build_session_summary, after the tasks have been cancelled, wherever they are.
Summary(s) ==
    [mode |-> s.mode, placement |-> s.placement, clean |-> s.clean, aborts |-> s.aborts,
     count |-> s.count, uncleared |-> blocks.startup, stale |-> s.stale, tripped |-> s.tripped]

\* An order that nothing in the session has accounted for: an entry was refused,
\* its fill was seen and its exit is neither counted as submitted nor skipped
\* (the handler was cut off, or no exit could be built), or an order, entry or
\* exit, still awaits its answer.
LooseEnds ==
    \/ \E e \in Entries : fate[e] \in {"filled", "failed", "refused", "exit_placed"}
    \/ answers # {}

\* build_soak_report, and for the properties how the session really was.
Report(s, duration) ==
    [mode |-> s.mode, placement |-> s.placement, clean |-> s.clean, aborts |-> s.aborts,
     count |-> s.count, uncleared |-> blocks.startup, stale |-> s.stale, tripped |-> s.tripped,
     verdict |-> Verdict(Summary(s)), duration |-> duration,
     loose_ends |-> LooseEnds, blocks |-> blocks]

\* What the process held is gone.
Gone ==
    /\ up' = FALSE
    /\ session' = Fresh("demo")
    /\ blocks' = NoBlocks
    /\ answers' = {}
    /\ fate' = [e \in Entries |-> IF fate[e] = "unused" THEN "unused" ELSE "past"]

SessionEnds(duration) ==
    /\ up
    /\ reports' = Append(reports, Report(session, duration))
    /\ Gone
    /\ UNCHANGED incidents

\* The supervisor finds a failed task, or the startup failed: the session ends,
\* and not cleanly.
TaskFails(duration) ==
    LET failed == [session EXCEPT !.clean = FALSE, !.aborts = @ \union {"task_failed"}]
    IN  /\ up
        /\ Incident
        /\ reports' = Append(reports, Report(failed, duration))
        /\ Gone

\* The process is killed, a step of the shutdown raises before the report, or
\* the file cannot be written: the session leaves no report, and the promotion
\* does not hear of it.
LeavesNoReport ==
    /\ up
    /\ Incident
    /\ Gone
    /\ UNCHANGED reports

-----------------------------------------------------------------------------
(***************************************************************************)
(* The decision loop.                                                      *)
(***************************************************************************)

Blocked == blocks.startup \/ blocks.orphan

\* How the model filter, in its hard_block mode, and the guards may end a sized
\* and approved candidate.
Allowed == {"model_filter_reached", "model_allowed"}

FilteredOut ==
    {{"model_filter_reached", "model_blocked"}}
    \union (IF Blocked THEN {Allowed}
            ELSE {Allowed \union {g} : g \in {"existing_position", "other_guard_block"}})
    \union (IF Blocked \/ session.placement THEN {} ELSE {Allowed \union {"intents"}})

\* A paper session asks the model even after sizing has rejected.
SizedOut ==
    IF session.mode # "paper" THEN {{"sizing_rejected"}}
    ELSE {{"sizing_rejected", "model_filter_reached", m} : m \in {"model_allowed", "model_blocked"}}

\* How the loop may be done with a candidate without placing an order.  The risk
\* engine, which rejects whatever comes while the breaker is tripped, leaves no
\* counter that matters here.
NoEntry ==
    {{"regime_rejected"}, {}} \union SizedOut \union (IF session.tripped THEN {} ELSE FilteredOut)

\* The loop is at one candidate at a time, up to the answer to its order.
LoopFree == "decision" \notin answers /\ \A e \in Entries : fate[e] # "registered"

CandidateDropped(how) ==
    /\ up
    /\ LoopFree
    /\ Incident
    /\ Count({"candidates"} \union how)
    /\ UNCHANGED <<up, answers, fate, blocks, reports>>

\* The candidate has passed every stage; its intent is on its way to the ledger.
EntryRegistered(e) ==
    /\ up
    /\ LoopFree
    /\ session.placement
    /\ ~session.tripped
    /\ ~Blocked
    /\ fate[e] = "unused"
    /\ Incident
    /\ Count(Allowed \union {"candidates", "intents"})
    /\ fate' = [fate EXCEPT ![e] = "registered"]
    /\ UNCHANGED <<up, answers, blocks, reports>>

\* Neither a block nor a trip of the breaker is looked at again.
EntryPlaced(e) ==
    /\ up
    /\ fate[e] = "registered"
    /\ Count({"submissions"})
    /\ fate' = [fate EXCEPT ![e] = "placed"]
    /\ answers' = answers \union {"decision"}
    /\ UNCHANGED <<up, blocks, reports, incidents>>

\* An order is acknowledged, refused, or accepted with its answer lost.
Answers == {"acked", "refused", "lost"}

\* _submit_intent swallows a failure: the loop goes on, an ack short.
EntryAnswered(answer) ==
    /\ up
    /\ "decision" \in answers
    /\ answers' = answers \ {"decision"}
    /\ Count(When(answer = "acked", "acks"))
    /\ fate' = IF answer # "refused" THEN fate
               ELSE [e \in Entries |-> IF fate[e] = "placed" THEN "refused" ELSE fate[e]]
    /\ UNCHANGED <<up, blocks, reports, incidents>>

-----------------------------------------------------------------------------
(***************************************************************************)
(* The private event handler.  It is at one event at a time; the protective *)
(* exit is part of the event of the fill.                                  *)
(***************************************************************************)
HandlerFree == \A e \in Entries : fate[e] \notin {"filled", "counted", "exit_placed"}

\* The handler goes on with the entry order e, whose fate was from.
HandlerStep(e, from, to, counters) ==
    /\ up
    /\ fate[e] = from
    /\ fate' = [fate EXCEPT ![e] = to]
    /\ Count(counters)
    /\ UNCHANGED <<up, blocks, reports, incidents>>

\* The fill is counted; it may come before the answer to the order.
EntryFilled(e) ==
    /\ HandlerFree
    /\ HandlerStep(e, "placed", "filled", {"filled", "entry_fill"})
    /\ UNCHANGED answers

ExitSkipped(e) == HandlerStep(e, "filled", "skipped", {"pe_skipped"}) /\ UNCHANGED answers

\* build_protective_limit_exit returned None.
ExitNotBuilt(e) == HandlerStep(e, "filled", "failed", {"pe_failed"}) /\ UNCHANGED answers

\* The exit counts as submitted before the ledger write that precedes its
\* submission, where the handler may still be cut off.
ExitCounted(e) == HandlerStep(e, "filled", "counted", {"pe_submitted"}) /\ UNCHANGED answers

ExitPlaced(e) ==
    /\ HandlerStep(e, "counted", "exit_placed", {"submissions"})
    /\ answers' = answers \union {"exit"}

\* A failure is swallowed by _submit_intent here too: pe_failed stays.  What is
\* taken for the ack of an exit is its order id, which the stream may tell as well.
ExitAnswered(e, answer) ==
    /\ \E known \in IF answer = "lost" THEN BOOLEAN ELSE {answer = "acked"} :
          HandlerStep(e, "exit_placed", IF answer = "refused" THEN "refused" ELSE "covered",
                      When(answer = "acked", "acks") \union When(known, "pe_ack"))
    /\ answers' = answers \ {"exit"}

ExitFilled(e) ==
    /\ HandlerFree
    /\ HandlerStep(e, "covered", "closed", {"filled"})
    /\ UNCHANGED answers

-----------------------------------------------------------------------------
(***************************************************************************)
(* The reconcile cycle and the watchdog.                                   *)
(***************************************************************************)

\* The counters of the blocks that have been raised or cleared.
BlockCounters(old, new) ==
    When(~old.startup /\ new.startup, "startup_blocked")
    \union When(~old.orphan /\ new.orphan, "orphan_blocked")
    \union When(old.orphan /\ ~new.orphan, "orphan_cleared")

ReconcileCycle(new, mismatch) ==
    LET counted == Counting(session, BlockCounters(blocks, new)
                                     \union When(mismatch, "mismatch_cycles"))
    IN  /\ up
        /\ Incident
        /\ blocks' = new
        /\ session' = [counted EXCEPT !.aborts = @ \union
                          When(mismatch /\ new.mismatches = MaxMismatches,
                               "repeated_reconcile_mismatch")]
        /\ UNCHANGED <<up, answers, fate, reports>>

ReconcileOk == ReconcileCycle(NoBlocks, FALSE)

\* Stray orders were taken over; only if all are reduce-only the startup block goes.
ReconcileSynced ==
    \E strays \in {{"entry"}, {"exit"}} :
        ReconcileCycle(AfterSync(blocks, strays, {"exit"}), FALSE)

ReconcileMismatch ==
    \E orphans \in {{}, {"symbol"}} : ReconcileCycle(AfterMismatch(blocks, orphans), TRUE)

FeedStale ==
    /\ up
    /\ Incident
    /\ session' = [session EXCEPT
                      !.stale = TRUE, !.tripped = TRUE, !.aborts = @ \union {"stale_feed"}]
    /\ UNCHANGED <<up, answers, fate, blocks, reports>>

\* A later watchdog cycle: the feed is back, the breaker cooled down or not yet.
FeedBack(cooled) ==
    /\ up
    /\ session.stale \/ session.tripped
    /\ session' = [session EXCEPT !.stale = FALSE, !.tripped = ~cooled /\ @]
    /\ session' # session
    /\ UNCHANGED <<up, answers, fate, blocks, reports, incidents>>

-----------------------------------------------------------------------------
SessionStep ==
    \/ \E mode \in {"demo", "paper"}, dirty \in BOOLEAN : SessionStart(mode, dirty)
    \/ \E d \in Durations : SessionEnds(d)
    \/ \E d \in Durations : TaskFails(d)
    \/ LeavesNoReport

DecisionStep ==
    \/ \E how \in NoEntry : CandidateDropped(how)
    \/ \E e \in Entries : EntryRegistered(e) \/ EntryPlaced(e)
    \/ \E answer \in Answers : EntryAnswered(answer)

ExitStep ==
    \E e \in Entries :
        \/ EntryFilled(e) \/ ExitSkipped(e) \/ ExitNotBuilt(e) \/ ExitCounted(e)
        \/ ExitPlaced(e) \/ ExitFilled(e)
        \/ \E answer \in Answers : ExitAnswered(e, answer)

WatchStep ==
    \/ ReconcileOk \/ ReconcileSynced \/ ReconcileMismatch
    \/ FeedStale
    \/ \E cooled \in BOOLEAN : FeedBack(cooled)

Next == SessionStep \/ DecisionStep \/ ExitStep \/ WatchStep

Spec == Init /\ [][Next]_vars

-----------------------------------------------------------------------------
(***************************************************************************)
(* Properties.                                                             *)
(***************************************************************************)

\* compute_verdict compares sums over the session, yet a report that does not
\* FAIL accounts for every order on its own: none was refused, every fill seen
\* came to the point where its exit is counted as submitted or skipped, and no
\* order, entry or exit, was cut off before the answer to it.
PassAccountsForFills ==
    \A i \in DOMAIN reports : reports[i].verdict # "FAIL" => ~reports[i].loose_ends

\* unresolved_orphan_block looks at totals and misses an orphan block that is
\* raised again after one was cleared.  It takes no harm: a verdict of READY
\* is never reached with a session that ended under either block, as a startup
\* block stands whenever an orphan block does.
ReadyEndsUnblocked ==
    (\E i \in DOMAIN reports : reports[i].blocks.startup \/ reports[i].blocks.orphan)
        => PromotionVerdict(reports) # "READY_FOR_PAPER"

\* The two modules that judge a session agree: whom the promotion blames for
\* an abort, for repeated mismatches or for an exit that is missing, a report of
\* its own declared a FAIL.  (Exits that failed it blames on no session: it only
\* adds them up.)
BlamedSessionsFailed ==
    LET blame == Attribution(reports)
    IN  blame.exit_missing \union blame.session_aborted \union blame.reconcile_abort
            \subseteq blame.any_fail

=============================================================================
