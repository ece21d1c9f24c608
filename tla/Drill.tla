------------------------------- MODULE Drill --------------------------------
(***************************************************************************)
(* The demo drill: one order, placed once in a session to see the life of  *)
(* an order, and the DrillOutcome the session summary reports, against the *)
(* private stream and the reconcile cycle, which both write the order the  *)
(* store holds.  The drill asks neither the breaker nor the entry guard    *)
(* nor the block flags.                                                    *)
(*                                                                         *)
(* A price is a multiple of Tick, so that the offset of 2 bps is an        *)
(* integer.  The ledger writes are not taken as suspension points: what is *)
(* on both sides of one concerns the drill only.                           *)
(***************************************************************************)
EXTENDS OrderManager, Ladder, Sequences

CONSTANTS
    TheDrill,       \* its order link id; Links = {TheDrill}
    Settings,       \* settings a session can have: see Setting
    Prices,         \* prices of the symbol, in Ticks
    NoPrice,
    Timeout, PollEvery, FallbackAt  \* 25, 2 and 5 seconds

Tick == 5000

\* min_qty 0: the symbol has no spec.  held is the position of the last
\* snapshot, signed.
Setting == [demo : BOOLEAN, dry_run : BOOLEAN, configured : BOOLEAN,
            mode : {"post_only", "reduce_only"}, side : {"Buy", "Sell"},
            qty : Nat, min_qty : Nat, max_notional : Nat, held : Int]

ASSUME DrillAssumption ==
    /\ Links = {TheDrill}
    /\ Settings \subseteq Setting
    /\ Prices \subseteq Nat \ {0} /\ NoPrice \notin Nat
    /\ Timeout \in Nat /\ PollEvery \in Nat \ {0} /\ FallbackAt \in Nat

VARIABLES
    setting, \* the settings of this session
    at,      \* where _demo_drill_cycle is; "failed": ended, its order not acknowledged
    waited,  \* seconds, in _wait_for_drill_reference_price
    asked,   \* rest_fallback_attempted
    price,   \* what the public stream has shown last
    outcome, \* _drill_outcome
    local,   \* the OrderManager's store
    stop,    \* _stop_event
    placed,  \* the order on the exchange; NoOrder when there is none
    status,  \* its status there, "Absent" before it is accepted
    stream,  \* order updates of the private stream on their way
    rec,     \* the reconcile cycle: the status the exchange listed the order with
    unseen   \* history: a terminal status did not come as a transition

vars == <<setting, at, waited, asked, price, outcome, local, stop,
          placed, status, stream, rec, unseen>>

exchVars == <<placed, status, stream>>

NoOrder == [side |-> "Buy", qty |-> 0, price |-> NoPrice, reduce_only |-> FALSE]

Reason == {"none", "drill_refused_mode_not_demo", "drill_refused_dry_run",
           "drill_refused_symbol_not_configured", "drill_refused_qty_invalid",
           "drill_refused_qty_below_min", "drill_refused_notional_exceeds_cap",
           "drill_refused_no_position", "drill_refused_market_data_timeout",
           "order_submit_failed"}

Outcome == [attempted : BOOLEAN, aborted : BOOLEAN, completed : BOOLEAN,
            ack_received : BOOLEAN, refused_reason : Reason,
            final_status : OpenStatus \union TerminalStatus \union {"none"}]

Untried == [attempted |-> FALSE, aborted |-> FALSE, completed |-> FALSE,
            ack_received |-> FALSE, refused_reason |-> "none", final_status |-> "none"]

TypeOK ==
    /\ setting \in Settings
    /\ at \in {"asleep", "wait", "asking", "priced", "submit", "failed", "done"}
    /\ waited \in 0 .. Timeout + PollEvery
    /\ asked \in BOOLEAN /\ stop \in BOOLEAN /\ unseen \in BOOLEAN
    /\ price \in Prices \union {NoPrice}
    /\ outcome \in Outcome
    /\ local \in Store
    /\ placed.qty \in Nat
    /\ status \in OpenStatus \union TerminalStatus \union {"Absent"}
    /\ stream \in Seq(OpenStatus \union TerminalStatus)
    /\ rec \in {"idle", "missing"} \union OpenStatus

Init ==
    /\ setting \in Settings
    /\ at = "asleep"
    /\ waited = 0
    /\ asked = FALSE
    /\ price = NoPrice
    /\ outcome = Untried
    /\ local = EmptyStore
    /\ stop = FALSE
    /\ placed = NoOrder
    /\ status = "Absent"
    /\ stream = <<>>
    /\ rec = "idle"
    /\ unseen = FALSE

-----------------------------------------------------------------------------
(***************************************************************************)
(* Waiting for a price.                                                    *)
(***************************************************************************)

Refused(reason) ==
    [outcome EXCEPT !.attempted = TRUE, !.aborted = TRUE, !.refused_reason = reason]

Abort(reason) == at' = "done" /\ outcome' = Refused(reason)

\* After its 15 seconds.  A post-only order needs a reference price.
Begin ==
    /\ at = "asleep"
    /\ at' = IF stop \/ ~setting.demo THEN "done"
             ELSE IF setting.mode = "post_only" THEN "wait" ELSE "priced"
    /\ UNCHANGED <<setting, waited, asked, price, outcome, local, stop, exchVars, rec, unseen>>

PriceSeen ==
    /\ price' \in Prices \ {price}
    /\ at \in {"asleep", "wait", "asking"}
    /\ UNCHANGED <<setting, at, waited, asked, outcome, local, stop, exchVars, rec, unseen>>

\* Mutant of Slept: the time a query has taken is not counted.
SleptUnlessAsked == IF asked THEN waited ELSE waited + PollEvery

Slept == waited + PollEvery

\* One round of the loop, up to its sleep or its REST call.
Poll ==
    /\ at = "wait"
    /\ waited < Timeout
    /\ CASE stop -> Abort("drill_refused_market_data_timeout") /\ UNCHANGED <<waited, asked>>
         [] ~stop /\ price # NoPrice -> at' = "priced" /\ UNCHANGED <<outcome, waited, asked>>
         [] ~stop /\ price = NoPrice /\ ~asked /\ Timeout - waited <= FallbackAt ->
                at' = "asking" /\ asked' = TRUE /\ UNCHANGED <<outcome, waited>>
         [] OTHER -> waited' = Slept /\ UNCHANGED <<at, outcome, asked>>
    /\ UNCHANGED <<setting, price, local, stop, exchVars, rec, unseen>>

\* get_ticker answers with a price, or fails with a BybitRestError; a price that
\* the stream brings meanwhile is what counts in the next round.  A transport
\* error is not caught: the task ends and the outcome says nothing of it.
RestAnswers ==
    /\ at = "asking"
    /\ \/ at' = "priced" /\ price' \in Prices /\ UNCHANGED waited
       \/ at' = "wait" /\ waited' = Slept /\ UNCHANGED price
       \/ at' = "done" /\ UNCHANGED <<waited, price>>
    /\ UNCHANGED <<setting, asked, outcome, local, stop, exchVars, rec, unseen>>

WaitedInVain ==
    /\ at = "wait"
    /\ waited >= Timeout
    /\ Abort("drill_refused_market_data_timeout")
    /\ UNCHANGED <<setting, waited, asked, price, local, stop, exchVars, rec, unseen>>

-----------------------------------------------------------------------------
(***************************************************************************)
(* Validation and submission.                                              *)
(***************************************************************************)

PostOnly == setting.mode = "post_only"

\* Mutant of ValidateDrill: an order below the minimum is tried all the same
\* and the cap is asked of the quantity alone.
ValidateQuantity ==
    FirstFailing(
        << Check("drill_refused_dry_run", setting.dry_run),
           Check("drill_refused_symbol_not_configured", ~setting.configured),
           Check("drill_refused_notional_exceeds_cap",
                 PostOnly /\ setting.qty * Tick > setting.max_notional) >>,
        "none")

\* validate_drill; without a reference price the cap is not asked.
ValidateDrill ==
    FirstFailing(
        << Check("drill_refused_mode_not_demo", ~setting.demo),
           Check("drill_refused_dry_run", setting.dry_run),
           Check("drill_refused_symbol_not_configured", ~setting.configured),
           Check("drill_refused_qty_invalid", setting.qty = 0),
           Check("drill_refused_qty_below_min", setting.qty < setting.min_qty),
           Check("drill_refused_notional_exceeds_cap",
                 PostOnly /\ setting.qty * price * Tick > setting.max_notional) >>,
        "none")

\* 2 bps away from the market, on the passive side.
OffsetPrice ==
    LET offset == (2 * price * Tick) \div 10000
    IN  IF setting.side = "Buy" THEN price * Tick - offset ELSE price * Tick + offset

\* build_drill_intent: a reduce-only order closes what the snapshot holds.
DrillOrder ==
    IF PostOnly
    THEN [side |-> setting.side, qty |-> setting.qty, price |-> OffsetPrice,
          reduce_only |-> FALSE]
    ELSE [side |-> IF setting.held > 0 THEN "Sell" ELSE "Buy", qty |-> setting.qty,
          price |-> NoPrice, reduce_only |-> TRUE]

\* From the validation to the REST call of _submit_intent.
Submit ==
    LET reason == IF ValidateDrill # "none" THEN ValidateDrill
                  ELSE IF ~PostOnly /\ setting.held = 0 THEN "drill_refused_no_position"
                  ELSE "none"
    IN
    /\ at = "priced"
    /\ IF reason # "none"
       THEN Abort(reason) /\ UNCHANGED local
       ELSE /\ at' = "submit"
            /\ outcome' = [outcome EXCEPT !.attempted = TRUE]
            /\ local' = RegisterIntent(local, TheDrill, "strategy")
    /\ UNCHANGED <<setting, waited, asked, price, stop, exchVars, rec, unseen>>

\* The exchange answered, at once or after the order has moved on.
Acknowledged ==
    /\ at = "submit"
    /\ status # "Absent"
    /\ at' = "done"
    /\ outcome' = [outcome EXCEPT !.ack_received = TRUE]
    /\ UNCHANGED <<setting, waited, asked, price, local, stop, exchVars, rec, unseen>>

\* A refusal, or no usable answer to an order that may have arrived.  What is a
\* BybitRestError aborts the drill; a transport error ends its task as it is.
SubmitFails ==
    /\ at = "submit"
    /\ at' = "failed"
    /\ outcome' \in {outcome, Refused("order_submit_failed")}
    /\ UNCHANGED <<setting, waited, asked, price, local, stop, exchVars, rec, unseen>>

-----------------------------------------------------------------------------
(***************************************************************************)
(* The exchange (external).                                                *)
(***************************************************************************)

Exchange(next) ==
    /\ status' = next
    /\ stream' = Append(stream, next)
    /\ UNCHANGED <<setting, at, waited, asked, price, outcome, local, stop, rec, unseen>>

\* A request without an answer may still arrive.
Sent == at \in {"submit", "failed"}

Accepts == Sent /\ status = "Absent" /\ placed' = DrillOrder /\ Exchange("New")

\* A post-only order that would trade at once is cancelled, a reduce-only one
\* that finds nothing to reduce rejected.
Moves ==
    /\ status \in OpenStatus
    /\ \E next \in (TerminalStatus \union {"PartiallyFilled"}) \ {status} : Exchange(next)
    /\ UNCHANGED placed

\* The private stream breaks; what was on its way is not sent again.
StreamBreaks ==
    /\ stream # <<>>
    /\ stream' = <<>>
    /\ unseen' = (unseen \/ \E i \in DOMAIN stream : stream[i] \in TerminalStatus)
    /\ UNCHANGED <<setting, at, waited, asked, price, outcome, local, stop, placed, status, rec>>

-----------------------------------------------------------------------------
(***************************************************************************)
(* The private handler and the reconcile cycle.                            *)
(***************************************************************************)

\* Mutant of PrevStatus: read once the update is applied.
PrevStatusAfter(next) == next

PrevStatus(next) == local[TheDrill].status

\* _on_private_events for an update of the drill's order.
HandleUpdate ==
    /\ stream # <<>>
    /\ LET next == Head(stream)
           transition == PrevStatus(next) # "Absent" /\ PrevStatus(next) # next
       IN
       /\ stream' = Tail(stream)
       /\ local' = ApplyOrderUpdate(local, TheDrill, next, 0)
       /\ outcome' = [outcome EXCEPT
                        !.final_status = next,
                        !.completed = @ \/ (transition /\ next \in TerminalStatus)]
    /\ UNCHANGED <<setting, at, waited, asked, price, stop, placed, status, rec, unseen>>

\* reconcile_orders has taken the local open orders and reads the exchange's.
ReconcileReads ==
    /\ rec = "idle"
    /\ TheDrill \in OpenOrders(local) \/ status \in OpenStatus
    /\ rec' = IF status \in OpenStatus THEN status ELSE "missing"
    /\ UNCHANGED <<setting, at, waited, asked, price, outcome, local, stop, exchVars, unseen>>

\* A listed order is overwritten, one that is missing closed if still open;
\* the store has the terminal status then before the stream brings it.
ReconcileWrites ==
    /\ rec # "idle"
    /\ rec' = "idle"
    /\ local' = IF rec = "missing" THEN MarkClosedMissing(local, {TheDrill})
                ELSE UpsertSnapshot(local, {TheDrill},
                         [l \in Links |-> [status |-> rec, cum |-> 0]])
    /\ unseen' = (unseen \/ (rec = "missing" /\ local' # local))
    /\ UNCHANGED <<setting, at, waited, asked, price, outcome, stop, exchVars>>

Stop ==
    /\ ~stop
    /\ stop' = TRUE
    /\ UNCHANGED <<setting, at, waited, asked, price, outcome, local, exchVars, rec, unseen>>

-----------------------------------------------------------------------------
Waiting == Begin \/ Poll \/ RestAnswers \/ WaitedInVain

Submission == Submit \/ Acknowledged \/ SubmitFails

World == PriceSeen \/ Accepts \/ Moves \/ StreamBreaks \/ Stop

Runtime == HandleUpdate \/ ReconcileReads \/ ReconcileWrites

Next == Waiting \/ Submission \/ World \/ Runtime

Spec == Init /\ [][Next]_vars

\* The drill's task runs, and a REST call comes back with or without an answer.
FairSpec == Spec /\ WF_vars(Waiting) /\ WF_vars(Submission)

-----------------------------------------------------------------------------
(***************************************************************************)
(* Properties.                                                             *)
(***************************************************************************)

\* The order the drill places stays within its cap, but for the 2 bps by
\* which a sell is priced above the reference the cap was asked of; one
\* without a price can only reduce what is held.
CapHolds ==
    placed.qty > 0 =>
        IF placed.reduce_only
        THEN placed.side = (IF setting.held > 0 THEN "Sell" ELSE "Buy") /\ setting.held # 0
        ELSE placed.qty * placed.price * 10000 <= setting.max_notional * 10002

\* A completed drill is over on the exchange, and one that is over there and
\* whose updates have been handled is completed, unless the stream lost the
\* update or the reconcile cycle wrote the store before it came.
CompletedWhenOver ==
    /\ outcome.completed => status \in TerminalStatus
    /\ status \in TerminalStatus /\ stream = <<>> /\ ~unseen => outcome.completed

\* The drill comes to an end in every session: no price, no answer and no
\* fallback keeps it waiting.
DrillConcludes == <>(at \in {"done", "failed"})

=============================================================================
