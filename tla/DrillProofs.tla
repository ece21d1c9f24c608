----------------------------- MODULE DrillProofs -----------------------------
(***************************************************************************)
(* Theorems about Drill, for any settings, prices and times.               *)
(***************************************************************************)
EXTENDS Drill, SequenceTheorems, WellFoundedInduction, TLAPS

-----------------------------------------------------------------------------
(***************************************************************************)
(* The inductive invariant.                                                *)
(***************************************************************************)

\* What is sent, or may still arrive, has passed the validation,
SentValidated == Sent => ValidateDrill = "none" /\ (PostOnly \/ setting.held # 0)

\* at a price that does not change under it,
SentPriced == (Sent \/ at = "priced") /\ PostOnly => price \in Prices

\* and is known to the store before any update can come.
SentRegistered == Sent \/ status # "Absent" => Tracked(local, TheDrill)

AskedInTime == at = "asking" => waited < Timeout

\* The stream ends with what the order is now; nothing comes after its end.
StreamCurrent ==
    /\ stream # <<>> => stream[Len(stream)] = status
    /\ \A i \in DOMAIN stream : stream[i] \in TerminalStatus => i = Len(stream)

\* The store holds the order's end only after its update was handled, or else
\* the reconcile cycle wrote it.
EndTold ==
    local[TheDrill].status \in TerminalStatus =>
        unseen \/ (stream = <<>> /\ outcome.completed)

IInv == /\ TypeOK
        /\ SentValidated /\ SentPriced /\ SentRegistered /\ AskedInTime
        /\ StreamCurrent /\ EndTold
        /\ CapHolds /\ CompletedWhenOver

-----------------------------------------------------------------------------
(***************************************************************************)
(* Chains of early returns.                                                *)
(***************************************************************************)

\* A set of numbers that is not empty has a least one.
LEMMA LeastOf ==
    ASSUME NEW F \in SUBSET Nat, F # {} PROVE \E m \in F : \A j \in F : m <= j
  <1>1. PICK m \in F : \A j \in F : ~(<<j, m>> \in OpToRel(<, Nat))
    BY NatLessThanWellFounded, WFMin
  <1>2. \A j \in F : ~(j < m)
    BY <1>1 DEF OpToRel
  <1> QED BY <1>2

\* The answer of a chain is that of the chain passed or the reason of a check
\* that fails.
LEMMA FirstAnswers ==
    ASSUME NEW checks, NEW passed, DOMAIN checks \subseteq Nat
    PROVE  \/ FirstFailing(checks, passed) = passed /\ \A i \in DOMAIN checks : ~checks[i].fails
           \/ \E i \in DOMAIN checks : checks[i].fails /\ FirstFailing(checks, passed) = checks[i].reason
  <1> DEFINE failing == {i \in DOMAIN checks : checks[i].fails}
             first == CHOOSE i \in failing : \A j \in failing : i <= j
  <1>1. FirstFailing(checks, passed) = IF failing = {} THEN passed ELSE checks[first].reason
    BY DEF FirstFailing
  <1>2. CASE failing = {}
    BY <1>1, <1>2
  <1>3. CASE failing # {}
    <2>1. \E m \in failing : \A j \in failing : m <= j
      BY <1>3, LeastOf
    <2>2. first \in failing
      BY <2>1
    <2> QED BY <1>1, <1>3, <2>2
  <1> QED BY <1>2, <1>3

\* What the validation answers, and what an order that it lets through can be
\* sure of.
LEMMA DrillChecked ==
    /\ ValidateDrill \in Reason
    /\ ValidateDrill = "none" =>
          ~(PostOnly /\ setting.qty * price * Tick > setting.max_notional)
  <1> DEFINE checks ==
        << Check("drill_refused_mode_not_demo", ~setting.demo),
           Check("drill_refused_dry_run", setting.dry_run),
           Check("drill_refused_symbol_not_configured", ~setting.configured),
           Check("drill_refused_qty_invalid", setting.qty = 0),
           Check("drill_refused_qty_below_min", setting.qty < setting.min_qty),
           Check("drill_refused_notional_exceeds_cap",
                 PostOnly /\ setting.qty * price * Tick > setting.max_notional) >>
  <1>1. ValidateDrill = FirstFailing(checks, "none")
    BY DEF ValidateDrill
  <1>2. DOMAIN checks = {1, 2, 3, 4, 5, 6}
    OBVIOUS
  <1>3. /\ checks[1].reason = "drill_refused_mode_not_demo"
        /\ checks[2].reason = "drill_refused_dry_run"
        /\ checks[3].reason = "drill_refused_symbol_not_configured"
        /\ checks[4].reason = "drill_refused_qty_invalid"
        /\ checks[5].reason = "drill_refused_qty_below_min"
        /\ checks[6].reason = "drill_refused_notional_exceeds_cap"
    BY DEF Check
  <1>4. checks[6].fails = (PostOnly /\ setting.qty * price * Tick > setting.max_notional)
    BY DEF Check
  <1> HIDE DEF checks
  <1>5. \A i \in DOMAIN checks : checks[i].reason # "none"
    BY <1>2, <1>3
  <1>6. \A i \in DOMAIN checks : checks[i].reason \in Reason
    BY <1>2, <1>3 DEF Reason
  <1>7. "none" \in Reason
    BY DEF Reason
  <1>8. ValidateDrill = "none" \/ \E i \in DOMAIN checks : ValidateDrill = checks[i].reason
    BY <1>1, <1>2, FirstAnswers
  <1>9. ValidateDrill \in Reason
    BY <1>6, <1>7, <1>8
  <1>10. ValidateDrill = "none" => ~checks[6].fails
    BY <1>1, <1>2, <1>5, FirstAnswers
  <1> QED BY <1>4, <1>9, <1>10

\* The order that goes out keeps to the cap.
LEMMA OrderWithinCap ==
    ASSUME TypeOK, SentValidated, SentPriced, Sent, placed' = DrillOrder, setting' = setting
    PROVE  CapHolds' /\ placed'.qty \in Nat
  <1>1. setting \in Setting
    BY DrillAssumption DEF TypeOK
  <1>2. setting.qty \in Nat /\ setting.max_notional \in Nat /\ DrillOrder.qty = setting.qty
    BY <1>1 DEF Setting, DrillOrder
  <1>3. CASE PostOnly
    <2>1. price \in Nat \ {0} /\ setting.qty * price * Tick <= setting.max_notional
      <3>1. price \in Nat \ {0}
        BY <1>3, DrillAssumption DEF SentPriced
      <3>2. ~(setting.qty * price * Tick > setting.max_notional)
        BY <1>3, DrillChecked DEF SentValidated
      <3>3. setting.qty * price * Tick \in Nat
        BY <1>2, <3>1 DEF Tick
      <3> QED BY <1>2, <3>1, <3>2, <3>3
    <2>2. OffsetPrice \in Nat /\ OffsetPrice <= 5001 * price
      <3>1. (2 * price * Tick) \div 10000 = price
        BY <2>1, Z3 DEF Tick
      <3> QED BY <2>1, <3>1 DEF OffsetPrice, Tick
    <2>3. PICK n \in Nat : n = setting.qty * price
      BY <1>2, <2>1
    <2>4. 5000 * n <= setting.max_notional
      BY <1>2, <2>1, <2>3 DEF Tick
    <2>5. setting.qty * OffsetPrice <= setting.qty * (5001 * price)
      BY <1>2, <2>1, <2>2, Z3
    <2>6. setting.qty * (5001 * price) = 5001 * n
      BY <1>2, <2>1, <2>3, Z3
    <2>7. setting.qty * OffsetPrice \in Nat
      BY <1>2, <2>2
    <2>8. setting.qty * OffsetPrice * 10000 <= setting.max_notional * 10002
      BY <1>2, <2>3, <2>4, <2>5, <2>6, <2>7
    <2>9. DrillOrder.price = OffsetPrice /\ DrillOrder.reduce_only = FALSE
      BY <1>3 DEF DrillOrder
    <2> QED BY <1>2, <2>8, <2>9 DEF CapHolds
  <1>4. CASE ~PostOnly
    BY <1>2, <1>4 DEF SentValidated, DrillOrder, CapHolds
  <1> QED BY <1>3, <1>4

-----------------------------------------------------------------------------
(***************************************************************************)
(* What a step leaves alone.                                               *)
(***************************************************************************)

\* The validation looks at the settings and the price only.
LEMMA SameValidation ==
    ASSUME setting' = setting, price' = price
    PROVE  ValidateDrill' = ValidateDrill /\ PostOnly' = PostOnly
  BY DEF ValidateDrill, PostOnly

\* A step of the drill's own task, which reads neither store nor stream.
LEMMA Untouched ==
    ASSUME IInv, setting' = setting, local' = local, placed' = placed, status' = status,
           stream' = stream, unseen' = unseen, outcome'.completed = outcome.completed
    PROVE  StreamCurrent' /\ EndTold' /\ CapHolds' /\ CompletedWhenOver'
  BY DEF IInv, StreamCurrent, EndTold, CapHolds, CompletedWhenOver

\* A step that leaves the drill's task where it is.
LEMMA TaskStays ==
    ASSUME IInv, setting' = setting, at' = at, waited' = waited,
           price' = price, Tracked(local, TheDrill) => Tracked(local', TheDrill)
    PROVE  /\ Sent' = Sent
           /\ SentValidated' /\ SentPriced' /\ AskedInTime'
           /\ status' = status => SentRegistered'
  <1>1. Sent' = Sent /\ PostOnly' = PostOnly /\ ValidateDrill' = ValidateDrill
    BY SameValidation DEF Sent
  <1>2. SentValidated'
    BY <1>1 DEF IInv, SentValidated
  <1>3. SentPriced'
    BY <1>1 DEF IInv, SentPriced
  <1>4. AskedInTime'
    BY DEF IInv, AskedInTime
  <1>5. status' = status => SentRegistered'
    BY <1>1 DEF IInv, SentRegistered, Tracked
  <1> QED BY <1>1, <1>2, <1>3, <1>4, <1>5

\* The store holds the drill's order and no other.
LEMMA StoreType ==
    ASSUME TypeOK
    PROVE  /\ TheDrill \in Links /\ \A l \in Links : l = TheDrill
           /\ local \in [Links -> ManagedOrder] /\ local[TheDrill] \in ManagedOrder
           /\ 0 \in 0 .. Lot
  BY DrillAssumption, LotAssumption DEF TypeOK, Store

\* A refusal is an outcome.
LEMMA RefusedType ==
    ASSUME TypeOK, NEW reason \in Reason, Abort(reason)
    PROVE  /\ outcome' \in Outcome /\ outcome'.completed = outcome.completed
           /\ at' = "done"
  BY DEF Abort, Refused, TypeOK, Outcome

-----------------------------------------------------------------------------
(***************************************************************************)
(* Waiting for a price.                                                    *)
(***************************************************************************)

\* The drill starts, or is refused without a price.
LEMMA BeginKeeps == ASSUME IInv, Begin PROVE IInv'
  <1>1. /\ TypeOK /\ setting' = setting /\ local' = local /\ outcome' = outcome
        /\ price' = price /\ waited' = waited /\ unseen' = unseen
        /\ placed' = placed /\ status' = status /\ stream' = stream
        /\ at' \in {"done", "wait", "priced"} /\ at = "asleep"
        /\ at' = "priced" => ~PostOnly
    BY DEF IInv, Begin, exchVars, PostOnly
  <1>2. ~Sent /\ ~Sent' /\ PostOnly' = PostOnly
    BY <1>1 DEF IInv, Sent, PostOnly
  <1>3. TypeOK'
    BY <1>1 DEF Begin, TypeOK
  <1>4. SentValidated' /\ SentPriced' /\ SentRegistered' /\ AskedInTime'
    BY <1>1, <1>2
       DEF IInv, SentValidated, SentPriced, SentRegistered, AskedInTime, Tracked
  <1> QED BY <1>1, <1>3, <1>4, Untouched DEF IInv

\* A price comes by the public stream.
LEMMA PriceSeenKeeps == ASSUME IInv, PriceSeen PROVE IInv'
  <1>1. /\ TypeOK /\ setting' = setting /\ local' = local /\ outcome' = outcome
        /\ at' = at /\ waited' = waited /\ unseen' = unseen
        /\ placed' = placed /\ status' = status /\ stream' = stream
        /\ at \in {"asleep", "wait", "asking"}
    BY DEF IInv, PriceSeen, exchVars
  <1>2. ~Sent /\ ~Sent'
    BY <1>1 DEF Sent
  <1>3. TypeOK'
    BY <1>1 DEF PriceSeen, TypeOK
  <1>4. SentValidated' /\ SentPriced' /\ SentRegistered' /\ AskedInTime'
    BY <1>1, <1>2
       DEF IInv, SentValidated, SentPriced, SentRegistered, AskedInTime, Tracked
  <1> QED BY <1>1, <1>3, <1>4, Untouched DEF IInv

\* A turn of the wait for a price.
LEMMA PollKeeps == ASSUME IInv, Poll PROVE IInv'
  <1>1. /\ TypeOK /\ setting' = setting /\ local' = local /\ price' = price
        /\ unseen' = unseen /\ placed' = placed /\ status' = status /\ stream' = stream
        /\ stop' = stop /\ rec' = rec /\ at = "wait" /\ waited < Timeout
    BY DEF IInv, Poll, exchVars
  <1>2. \/ /\ Abort("drill_refused_market_data_timeout")
           /\ waited' = waited /\ asked' = asked
        \/ /\ price # NoPrice /\ at' = "priced"
           /\ outcome' = outcome /\ waited' = waited /\ asked' = asked
        \/ at' = "asking" /\ asked' = TRUE /\ outcome' = outcome /\ waited' = waited
        \/ waited' = waited + PollEvery /\ at' = at /\ outcome' = outcome /\ asked' = asked
    BY DEF Poll, Slept
  <1>3. /\ outcome' \in Outcome /\ outcome'.completed = outcome.completed
        /\ at' \in {"done", "priced", "asking", "wait"}
    <2>1. "drill_refused_market_data_timeout" \in Reason
      BY DEF Reason
    <2>2. outcome \in Outcome
      BY <1>1 DEF TypeOK
    <2> QED BY <1>1, <1>2, <2>1, <2>2, RefusedType
  <1>4. ~Sent /\ ~Sent' /\ PostOnly' = PostOnly
    BY <1>1, <1>3 DEF IInv, Sent, PostOnly
  <1>5. waited' \in 0 .. Timeout + PollEvery /\ asked' \in BOOLEAN
    <2>1. waited' \in {waited, waited + PollEvery} /\ asked' \in {asked, TRUE}
      BY <1>2
    <2>2. waited' \in 0 .. Timeout + PollEvery
      BY <1>1, <2>1, DrillAssumption DEF TypeOK
    <2>3. asked' \in BOOLEAN
      BY <1>1, <2>1 DEF TypeOK
    <2> QED BY <2>2, <2>3
  <1>6. TypeOK'
    BY <1>1, <1>3, <1>5 DEF TypeOK
  <1>7. SentPriced'
    BY <1>1, <1>2, <1>4 DEF TypeOK, SentPriced, Abort
  <1>8. AskedInTime'
    BY <1>1, <1>2 DEF AskedInTime, Abort
  <1>9. SentValidated' /\ SentRegistered'
    BY <1>1, <1>3, <1>4 DEF IInv, SentValidated, SentRegistered, Tracked
  <1> QED BY <1>1, <1>3, <1>6, <1>7, <1>8, <1>9, Untouched DEF IInv

\* The ticker of the REST fallback, or none.
LEMMA RestKeeps == ASSUME IInv, RestAnswers PROVE IInv'
  <1>1. /\ TypeOK /\ setting' = setting /\ local' = local /\ outcome' = outcome
        /\ unseen' = unseen /\ placed' = placed /\ status' = status /\ stream' = stream
        /\ asked' = asked /\ stop' = stop /\ rec' = rec /\ at = "asking" /\ waited < Timeout
        /\ \/ at' = "priced" /\ price' \in Prices /\ waited' = waited
           \/ at' = "done" /\ waited' = waited /\ price' = price
           \/ at' = "wait" /\ waited' = waited + PollEvery /\ price' = price
    BY DEF IInv, RestAnswers, Slept, exchVars, AskedInTime
  <1>2. ~Sent /\ ~Sent'
    BY <1>1 DEF Sent
  <1>3. waited' \in 0 .. Timeout + PollEvery
    BY <1>1, DrillAssumption DEF TypeOK
  <1>4. TypeOK'
    BY <1>1, <1>3 DEF TypeOK
  <1>5. SentValidated' /\ SentPriced' /\ SentRegistered' /\ AskedInTime'
    BY <1>1, <1>2
       DEF IInv, SentValidated, SentPriced, SentRegistered, AskedInTime, Tracked
  <1> QED BY <1>1, <1>4, <1>5, Untouched DEF IInv

\* The wait is over without a price.
LEMMA VainKeeps == ASSUME IInv, WaitedInVain PROVE IInv'
  <1>1. /\ TypeOK /\ setting' = setting /\ local' = local /\ price' = price
        /\ waited' = waited /\ asked' = asked /\ stop' = stop /\ rec' = rec
        /\ unseen' = unseen /\ placed' = placed /\ status' = status /\ stream' = stream
        /\ at = "wait" /\ Abort("drill_refused_market_data_timeout")
    BY DEF IInv, WaitedInVain, exchVars
  <1>2. outcome' \in Outcome /\ outcome'.completed = outcome.completed /\ at' = "done"
    <2>1. "drill_refused_market_data_timeout" \in Reason
      BY DEF Reason
    <2> QED BY <1>1, <2>1, RefusedType
  <1>3. ~Sent /\ ~Sent'
    BY <1>1, <1>2 DEF Sent
  <1>4. TypeOK'
    BY <1>1, <1>2 DEF TypeOK
  <1>5. SentValidated' /\ SentPriced' /\ SentRegistered' /\ AskedInTime'
    BY <1>1, <1>2, <1>3
       DEF IInv, SentValidated, SentPriced, SentRegistered, AskedInTime, Tracked
  <1> QED BY <1>1, <1>2, <1>4, <1>5, Untouched DEF IInv

-----------------------------------------------------------------------------
(***************************************************************************)
(* The submission.                                                         *)
(***************************************************************************)

\* The drill is validated and its order goes out, or it is refused.
LEMMA SubmitKeeps == ASSUME IInv, Submit PROVE IInv'
  <1>1. /\ TypeOK /\ setting' = setting /\ price' = price
        /\ waited' = waited /\ asked' = asked /\ stop' = stop /\ rec' = rec
        /\ unseen' = unseen /\ placed' = placed /\ status' = status /\ stream' = stream
        /\ at = "priced"
    BY DEF IInv, Submit, exchVars
  <1>2. ~Sent
    BY <1>1 DEF Sent
  <1>3. CASE /\ ValidateDrill = "none" /\ (PostOnly \/ setting.held # 0)
             /\ at' = "submit" /\ outcome' = [outcome EXCEPT !.attempted = TRUE]
             /\ local' = RegisterIntent(local, TheDrill, "strategy")
    <2>1. outcome' \in Outcome /\ outcome'.completed = outcome.completed
      BY <1>1, <1>3 DEF TypeOK, Outcome
    <2>2. /\ local' \in Store /\ Tracked(local', TheDrill)
          /\ local'[TheDrill].status \in TerminalStatus => local'[TheDrill] = local[TheDrill]
      <3>1. CASE Tracked(local, TheDrill)
        BY <1>1, <1>3, <3>1 DEF RegisterIntent, TypeOK
      <3>2. CASE ~Tracked(local, TheDrill)
        <4> DEFINE new == [status |-> "New", filled |-> 0, origin |-> "strategy"]
        <4>1. local' = [local EXCEPT ![TheDrill] = new]
          BY <1>3, <3>2 DEF RegisterIntent
        <4>2. new \in ManagedOrder
          BY <1>1, StoreType DEF ManagedOrder, OpenStatus, Origins
        <4>3. local'[TheDrill].status = "New"
          BY <1>1, <4>1, StoreType
        <4> QED BY <1>1, <4>1, <4>2, <4>3, StoreType DEF Store, Tracked, TerminalStatus
      <3> QED BY <3>1, <3>2
    <2>3. TypeOK'
      BY <1>1, <1>3, <2>1, <2>2 DEF TypeOK
    <2>4. SentValidated' /\ SentPriced' /\ SentRegistered' /\ AskedInTime'
      <3>1. PostOnly' = PostOnly /\ ValidateDrill' = ValidateDrill
        BY <1>1, SameValidation
      <3>2. PostOnly => price \in Prices
        BY <1>1 DEF IInv, SentPriced
      <3>3. SentValidated'
        BY <1>1, <1>3, <3>1 DEF SentValidated
      <3>4. SentPriced'
        BY <1>1, <3>1, <3>2 DEF SentPriced
      <3>5. SentRegistered'
        BY <2>2 DEF SentRegistered, Tracked
      <3> QED BY <1>3, <3>3, <3>4, <3>5 DEF AskedInTime
    <2>5. StreamCurrent' /\ CapHolds' /\ CompletedWhenOver'
      BY <1>1, <2>1 DEF IInv, StreamCurrent, CapHolds, CompletedWhenOver
    <2>6. EndTold'
      BY <1>1, <2>1, <2>2 DEF IInv, EndTold
    <2> QED BY <2>3, <2>4, <2>5, <2>6 DEF IInv
  <1>4. ASSUME NEW reason \in Reason, Abort(reason), local' = local
        PROVE  IInv'
    <2>1. /\ outcome' \in Outcome /\ outcome'.completed = outcome.completed /\ at' = "done"
      BY <1>1, <1>4, RefusedType
    <2>2. ~Sent'
      BY <1>4, <2>1 DEF Sent
    <2>3. TypeOK'
      BY <1>1, <1>4, <2>1 DEF TypeOK
    <2>4. SentValidated' /\ SentPriced' /\ SentRegistered' /\ AskedInTime'
      BY <1>1, <1>4, <2>1, <2>2
         DEF IInv, SentValidated, SentPriced, SentRegistered, AskedInTime, Tracked
    <2> QED BY <1>1, <1>4, <2>1, <2>3, <2>4, Untouched DEF IInv
  <1>5. "drill_refused_no_position" \in Reason
    BY DEF Reason
  <1>6. CASE ValidateDrill # "none"
    <2>1. Abort(ValidateDrill) /\ local' = local
      BY <1>6 DEF Submit
    <2> QED BY <1>4, <2>1, DrillChecked
  <1>7. CASE ValidateDrill = "none" /\ ~PostOnly /\ setting.held = 0
    <2>1. Abort("drill_refused_no_position") /\ local' = local
      BY <1>7 DEF Submit
    <2> QED BY <1>4, <1>5, <2>1
  <1>8. CASE ValidateDrill = "none" /\ (PostOnly \/ setting.held # 0)
    BY <1>3, <1>8 DEF Submit
  <1> QED BY <1>6, <1>7, <1>8

\* The exchange has answered.
LEMMA AcknowledgedKeeps == ASSUME IInv, Acknowledged PROVE IInv'
  <1>1. /\ TypeOK /\ setting' = setting /\ local' = local /\ price' = price
        /\ waited' = waited /\ asked' = asked /\ stop' = stop /\ rec' = rec
        /\ unseen' = unseen /\ placed' = placed /\ status' = status /\ stream' = stream
        /\ at = "submit" /\ at' = "done"
        /\ outcome' = [outcome EXCEPT !.ack_received = TRUE]
    BY DEF IInv, Acknowledged, exchVars
  <1>2. outcome' \in Outcome /\ outcome'.completed = outcome.completed
    BY <1>1 DEF TypeOK, Outcome
  <1>3. ~Sent'
    BY <1>1, <1>2 DEF Sent
  <1>4. TypeOK'
    BY <1>1, <1>2 DEF TypeOK
  <1>5. SentValidated' /\ SentPriced' /\ SentRegistered' /\ AskedInTime'
    BY <1>1, <1>2, <1>3
       DEF IInv, SentValidated, SentPriced, SentRegistered, AskedInTime, Tracked
  <1> QED BY <1>1, <1>2, <1>4, <1>5, Untouched DEF IInv

\* The request is refused or its answer is lost.
LEMMA FailsKeeps == ASSUME IInv, SubmitFails PROVE IInv'
  <1>1. /\ TypeOK /\ setting' = setting /\ local' = local /\ price' = price
        /\ waited' = waited /\ asked' = asked /\ stop' = stop /\ rec' = rec
        /\ unseen' = unseen /\ placed' = placed /\ status' = status /\ stream' = stream
        /\ at = "submit" /\ at' = "failed"
        /\ outcome' = outcome \/ outcome' = Refused("order_submit_failed")
    BY DEF IInv, SubmitFails, exchVars
  <1>2. outcome' \in Outcome /\ outcome'.completed = outcome.completed
    BY <1>1 DEF TypeOK, Refused, Outcome, Reason
  <1>3. Sent /\ Sent' /\ PostOnly' = PostOnly /\ ValidateDrill' = ValidateDrill
    BY <1>1, SameValidation DEF Sent
  <1>4. TypeOK'
    BY <1>1, <1>2 DEF TypeOK
  <1>5. SentValidated' /\ SentPriced'
    BY <1>1, <1>3 DEF IInv, SentValidated, SentPriced
  <1>6. SentRegistered' /\ AskedInTime'
    BY <1>1, <1>2, <1>3 DEF IInv, SentRegistered, AskedInTime, Tracked
  <1> QED BY <1>1, <1>2, <1>4, <1>5, <1>6, Untouched DEF IInv

-----------------------------------------------------------------------------
(***************************************************************************)
(* The exchange.                                                           *)
(***************************************************************************)

\* The order is in a new state and tells so; it was not over before.
LEMMA ExchangeKeeps ==
    ASSUME IInv, NEW next \in OpenStatus \union TerminalStatus, Exchange(next),
           status \notin TerminalStatus, Tracked(local, TheDrill),
           CapHolds', placed'.qty \in Nat
    PROVE  IInv'
  <1>1. /\ TypeOK /\ setting' = setting /\ local' = local /\ price' = price /\ at' = at
        /\ waited' = waited /\ asked' = asked /\ stop' = stop /\ rec' = rec
        /\ unseen' = unseen /\ outcome' = outcome
        /\ status' = next /\ stream' = Append(stream, next)
    BY DEF IInv, Exchange
  <1>2. stream \in Seq(OpenStatus \union TerminalStatus)
    BY <1>1 DEF TypeOK
  <1>3. /\ stream' \in Seq(OpenStatus \union TerminalStatus)
        /\ Len(stream) \in Nat /\ Len(stream') = Len(stream) + 1 /\ stream' # <<>>
        /\ stream'[Len(stream) + 1] = next
        /\ \A i \in 1 .. Len(stream) : stream'[i] = stream[i]
    BY <1>1, <1>2, AppendProperties
  <1>4. TypeOK'
    BY <1>1, <1>3 DEF TypeOK
  <1>5. SentValidated' /\ SentPriced' /\ AskedInTime'
    BY <1>1, TaskStays
  <1>6. SentRegistered'
    BY <1>1 DEF SentRegistered
  <1>7. StreamCurrent'
    <2>1. ASSUME NEW i \in 1 .. Len(stream) PROVE stream[i] \notin TerminalStatus
      <3>1. i \in DOMAIN stream /\ stream # <<>>
        BY <1>2
      <3> QED BY <1>2, <3>1 DEF IInv, StreamCurrent
    <2>2. DOMAIN stream' = 1 .. Len(stream) + 1
      BY <1>3
    <2>3. ASSUME NEW i \in DOMAIN stream', stream'[i] \in TerminalStatus
          PROVE  i = Len(stream')
      BY <1>3, <2>1, <2>2, <2>3
    <2> QED BY <1>1, <1>3, <2>3 DEF StreamCurrent
  <1>8. ~outcome.completed
    BY DEF IInv, CompletedWhenOver
  <1>9. EndTold' /\ CompletedWhenOver'
    BY <1>1, <1>3, <1>8 DEF IInv, EndTold, CompletedWhenOver
  <1> QED BY <1>4, <1>5, <1>6, <1>7, <1>9 DEF IInv

\* The exchange takes the order.
LEMMA AcceptsKeeps == ASSUME IInv, Accepts PROVE IInv'
  <1>1. /\ Sent /\ status = "Absent" /\ placed' = DrillOrder /\ Exchange("New")
        /\ setting' = setting
    BY DEF Accepts, Exchange
  <1>2. CapHolds' /\ placed'.qty \in Nat
    BY <1>1, OrderWithinCap DEF IInv
  <1>3. Tracked(local, TheDrill)
    BY <1>1 DEF IInv, SentRegistered
  <1>4. "New" \in OpenStatus /\ status \notin TerminalStatus
    BY <1>1 DEF OpenStatus, TerminalStatus
  <1> QED BY <1>1, <1>2, <1>3, <1>4, ExchangeKeeps

\* The order fills, is cancelled or rejected.
LEMMA MovesKeeps == ASSUME IInv, Moves PROVE IInv'
  <1>1. PICK next \in TerminalStatus \union {"PartiallyFilled"} : Exchange(next)
    BY DEF Moves
  <1>2. status \in OpenStatus /\ placed' = placed /\ setting' = setting
    BY <1>1 DEF Moves, Exchange
  <1>3. status \notin TerminalStatus /\ status # "Absent"
        /\ next \in OpenStatus \union TerminalStatus
    BY <1>2 DEF OpenStatus, TerminalStatus
  <1>4. CapHolds' /\ placed'.qty \in Nat
    BY <1>2 DEF IInv, TypeOK, CapHolds
  <1>5. Tracked(local, TheDrill)
    BY <1>3 DEF IInv, SentRegistered
  <1> QED BY <1>1, <1>3, <1>4, <1>5, ExchangeKeeps

\* The private stream loses what was on its way.
LEMMA BreaksKeeps == ASSUME IInv, StreamBreaks PROVE IInv'
  <1>1. /\ TypeOK /\ setting' = setting /\ local' = local /\ price' = price /\ at' = at
        /\ waited' = waited /\ asked' = asked /\ stop' = stop /\ rec' = rec
        /\ outcome' = outcome /\ placed' = placed /\ status' = status
        /\ stream # <<>> /\ stream' = <<>>
        /\ unseen' = (unseen \/ \E i \in DOMAIN stream : stream[i] \in TerminalStatus)
    BY DEF IInv, StreamBreaks
  <1>2. unseen' \in BOOLEAN /\ (unseen => unseen')
    BY <1>1 DEF TypeOK
  <1>3. TypeOK'
    <2>1. <<>> \in Seq(OpenStatus \union TerminalStatus)
      OBVIOUS
    <2> QED BY <1>1, <1>2, <2>1 DEF TypeOK
  <1>4. SentValidated' /\ SentPriced' /\ AskedInTime' /\ SentRegistered'
    BY <1>1, TaskStays
  <1>5. StreamCurrent' /\ EndTold' /\ CapHolds'
    BY <1>1, <1>2 DEF IInv, StreamCurrent, EndTold, CapHolds
  <1>6. CompletedWhenOver'
    <2>1. status \in TerminalStatus => unseen'
      <3>1. stream \in Seq(OpenStatus \union TerminalStatus)
        BY <1>1 DEF TypeOK
      <3>2. Len(stream) \in DOMAIN stream /\ stream[Len(stream)] = status
        BY <1>1, <3>1 DEF IInv, StreamCurrent
      <3> QED BY <1>1, <3>2
    <2> QED BY <1>1, <2>1 DEF IInv, CompletedWhenOver
  <1> QED BY <1>3, <1>4, <1>5, <1>6 DEF IInv

-----------------------------------------------------------------------------
(***************************************************************************)
(* The private handler and the reconcile cycle.                            *)
(***************************************************************************)

\* The head of the stream, and what is left behind it.
LEMMA StreamHead ==
    ASSUME TypeOK, StreamCurrent, stream # <<>>
    PROVE  /\ Head(stream) \in OpenStatus \union TerminalStatus
           /\ Tail(stream) \in Seq(OpenStatus \union TerminalStatus)
           /\ Head(stream) \in TerminalStatus => Tail(stream) = <<>> /\ Head(stream) = status
           /\ Tail(stream) = <<>> => Head(stream) = status
           /\ Tail(stream) # <<>> => Tail(stream)[Len(Tail(stream))] = status
           /\ \A i \in DOMAIN Tail(stream) :
                 Tail(stream)[i] \in TerminalStatus => i = Len(Tail(stream))
  <1>1. stream \in Seq(OpenStatus \union TerminalStatus)
    BY DEF TypeOK
  <1>2. /\ Head(stream) \in OpenStatus \union TerminalStatus /\ Head(stream) = stream[1]
        /\ Tail(stream) \in Seq(OpenStatus \union TerminalStatus)
        /\ Len(stream) \in Nat \ {0} /\ DOMAIN stream = 1 .. Len(stream)
        /\ Len(Tail(stream)) = Len(stream) - 1
        /\ DOMAIN Tail(stream) = 1 .. Len(stream) - 1
        /\ \A i \in 1 .. Len(stream) - 1 : Tail(stream)[i] = stream[i + 1]
    BY <1>1
  <1>3. stream[Len(stream)] = status
    BY DEF StreamCurrent
  <1>4. \A i \in 1 .. Len(stream) : stream[i] \in TerminalStatus => i = Len(stream)
    BY <1>2 DEF StreamCurrent
  <1>5. Tail(stream) = <<>> <=> Len(stream) = 1
    BY <1>2
  <1>6. Head(stream) \in TerminalStatus => Len(stream) = 1
    <2>1. 1 \in 1 .. Len(stream) /\ Head(stream) = stream[1]
      BY <1>2
    <2>2. stream[1] \in TerminalStatus => 1 = Len(stream)
      BY <1>4, <2>1
    <2> QED BY <2>1, <2>2
  <1>7. ASSUME NEW i \in 1 .. Len(stream) - 1, Tail(stream)[i] \in TerminalStatus
        PROVE  i = Len(stream) - 1
    <2>1. i + 1 \in 1 .. Len(stream) /\ stream[i + 1] \in TerminalStatus
      BY <1>2, <1>7
    <2>2. i + 1 = Len(stream) /\ i \in Int /\ Len(stream) \in Int
      BY <1>4, <2>1
    <2> QED BY <2>2
  <1>8. Tail(stream) # <<>> => Tail(stream)[Len(Tail(stream))] = status
    <2>1. Tail(stream) # <<>> => Len(stream) - 1 \in 1 .. Len(stream) - 1
      BY <1>2, <1>5
    <2> QED BY <1>2, <1>3, <2>1
  <1> QED BY <1>2, <1>3, <1>5, <1>6, <1>7, <1>8

\* An update is handled.
LEMMA UpdateKeeps == ASSUME IInv, HandleUpdate PROVE IInv'
  <1>1. PICK next : next = Head(stream)
    OBVIOUS
  <1>2. PICK prev : prev = local[TheDrill].status
    OBVIOUS
  <1>3. /\ TypeOK /\ setting' = setting /\ price' = price /\ at' = at
        /\ waited' = waited /\ asked' = asked /\ stop' = stop /\ rec' = rec
        /\ placed' = placed /\ status' = status /\ unseen' = unseen
        /\ stream # <<>> /\ stream' = Tail(stream)
        /\ local' = ApplyOrderUpdate(local, TheDrill, next, 0)
        /\ outcome' = [outcome EXCEPT
              !.final_status = next,
              !.completed = @ \/ ((prev # "Absent" /\ prev # next) /\ next \in TerminalStatus)]
    BY <1>1, <1>2 DEF IInv, HandleUpdate, PrevStatus
  <1>4. /\ next \in OpenStatus \union TerminalStatus
        /\ stream' \in Seq(OpenStatus \union TerminalStatus)
        /\ next \in TerminalStatus => stream' = <<>> /\ next = status
        /\ stream' = <<>> => next = status
        /\ stream' # <<>> => stream'[Len(stream')] = status
        /\ \A i \in DOMAIN stream' : stream'[i] \in TerminalStatus => i = Len(stream')
    BY <1>1, <1>3, StreamHead DEF IInv
  <1>5. Tracked(local, TheDrill) /\ prev # "Absent"
    <2>1. stream \in Seq(OpenStatus \union TerminalStatus)
      BY <1>3 DEF TypeOK
    <2>2. status \in OpenStatus \union TerminalStatus
      BY <1>3, <2>1 DEF IInv, StreamCurrent
    <2>3. status # "Absent"
      BY <2>2 DEF OpenStatus, TerminalStatus
    <2> QED BY <1>2, <2>3 DEF IInv, SentRegistered, Tracked
  <1>6. local' \in Store /\ local'[TheDrill].status = next
    <2> DEFINE new == [local[TheDrill] EXCEPT !.status = next, !.filled = 0]
    <2>1. local' = [local EXCEPT ![TheDrill] = new]
      BY <1>3, <1>5 DEF ApplyOrderUpdate
    <2>2. new \in ManagedOrder /\ new.status = next
      BY <1>3, <1>4, StoreType DEF ManagedOrder
    <2> QED BY <1>3, <2>1, <2>2, StoreType DEF Store
  <1>7. outcome' \in Outcome
    BY <1>3, <1>4 DEF TypeOK, Outcome
  <1>8. outcome'.completed <=> outcome.completed \/ (prev # next /\ next \in TerminalStatus)
    BY <1>3, <1>5 DEF TypeOK, Outcome
  <1>9. TypeOK'
    BY <1>3, <1>4, <1>6, <1>7 DEF TypeOK
  <1>10. SentValidated' /\ SentPriced' /\ AskedInTime' /\ SentRegistered'
    <2>1. Tracked(local', TheDrill)
      BY <1>4, <1>6 DEF Tracked, OpenStatus, TerminalStatus
    <2> QED BY <1>3, <1>7, <2>1, TaskStays
  <1>11. StreamCurrent' /\ CapHolds'
    BY <1>3, <1>4 DEF IInv, StreamCurrent, CapHolds
  <1>12. prev \in TerminalStatus => unseen
    BY <1>2, <1>3 DEF IInv, EndTold
  <1>13. EndTold'
    BY <1>3, <1>4, <1>6, <1>8, <1>12 DEF EndTold
  <1>14. CompletedWhenOver'
    BY <1>3, <1>4, <1>8, <1>12 DEF IInv, CompletedWhenOver
  <1> QED BY <1>9, <1>10, <1>11, <1>13, <1>14 DEF IInv

\* The reconcile cycle reads the open orders of the exchange.
LEMMA ReadsKeeps == ASSUME IInv, ReconcileReads PROVE IInv'
  <1>1. /\ TypeOK /\ setting' = setting /\ local' = local /\ price' = price /\ at' = at
        /\ waited' = waited /\ asked' = asked /\ stop' = stop /\ unseen' = unseen
        /\ outcome' = outcome /\ placed' = placed /\ status' = status /\ stream' = stream
        /\ rec' \in OpenStatus \union {"missing"}
    BY DEF IInv, ReconcileReads, exchVars
  <1>2. TypeOK'
    BY <1>1 DEF TypeOK
  <1>3. SentValidated' /\ SentPriced' /\ AskedInTime' /\ SentRegistered'
    BY <1>1, TaskStays
  <1> QED BY <1>1, <1>2, <1>3, Untouched DEF IInv

\* The reconcile cycle writes what it has read.
LEMMA WritesKeeps == ASSUME IInv, ReconcileWrites PROVE IInv'
  <1>1. /\ TypeOK /\ setting' = setting /\ price' = price /\ at' = at
        /\ waited' = waited /\ asked' = asked /\ stop' = stop /\ outcome' = outcome
        /\ placed' = placed /\ status' = status /\ stream' = stream
        /\ rec # "idle" /\ rec' = "idle"
        /\ local' = IF rec = "missing" THEN MarkClosedMissing(local, {TheDrill})
                    ELSE UpsertSnapshot(local, {TheDrill},
                             [l \in Links |-> [status |-> rec, cum |-> 0]])
        /\ unseen' = (unseen \/ (rec = "missing" /\ local' # local))
    BY DEF IInv, ReconcileWrites, exchVars
  <1>2. /\ local' \in Store
        /\ Tracked(local, TheDrill) => Tracked(local', TheDrill)
        /\ local'[TheDrill].status \in TerminalStatus =>
              local'[TheDrill] = local[TheDrill] \/ (rec = "missing" /\ local' # local)
    <2>1. CASE rec = "missing" /\ TheDrill \in OpenOrders(local)
      <3> DEFINE new == [local[TheDrill] EXCEPT !.status = "Cancelled"]
      <3>1. local' = [l \in Links |-> new]
        <4>1. \A l \in Links : l \in ClosedMissing(local, {TheDrill}) /\ l = TheDrill
          BY <1>1, <2>1, StoreType DEF ClosedMissing
        <4> QED BY <1>1, <2>1, <4>1 DEF MarkClosedMissing
      <3>2. new \in ManagedOrder /\ new.status = "Cancelled"
        BY <1>1, StoreType DEF ManagedOrder, TerminalStatus
      <3>3. local'[TheDrill].status = "Cancelled"
        BY <1>1, <3>1, <3>2, StoreType
      <3>4. local[TheDrill].status # "Cancelled"
        BY <2>1 DEF OpenOrders, OpenStatus
      <3>5. local' # local
        BY <3>3, <3>4
      <3> QED BY <2>1, <3>1, <3>2, <3>3, <3>5 DEF Store, Tracked
    <2>2. CASE rec = "missing" /\ TheDrill \notin OpenOrders(local)
      <3>1. \A l \in Links : l \notin ClosedMissing(local, {TheDrill})
        BY <1>1, <2>2, StoreType DEF ClosedMissing
      <3>2. local' = [l \in Links |-> local[l]]
        BY <1>1, <2>2, <3>1 DEF MarkClosedMissing
      <3>3. local' = local
        BY <1>1, <3>2, StoreType
      <3> QED BY <1>1, <3>3 DEF TypeOK
    <2>3. CASE rec # "missing"
      <3>1. rec \in OpenStatus
        BY <1>1, <2>3 DEF TypeOK
      <3> DEFINE new == [status |-> rec, filled |-> 0,
                         origin |-> IF Tracked(local, TheDrill) THEN local[TheDrill].origin
                                    ELSE "snapshot"]
      <3>2. local' = [l \in Links |-> new]
        <4>1. local' = UpsertSnapshot(local, {TheDrill},
                           [l \in Links |-> [status |-> rec, cum |-> 0]])
          BY <1>1, <2>3
        <4>2. \A l \in Links : l \in {TheDrill} /\ l = TheDrill
          BY <1>1, StoreType
        <4> QED BY <4>1, <4>2 DEF UpsertSnapshot
      <3>3. new \in ManagedOrder /\ new.status = rec
        BY <1>1, <3>1, StoreType DEF ManagedOrder, Origins
      <3>4. local'[TheDrill].status = rec
        BY <1>1, <3>2, <3>3, StoreType
      <3> QED BY <3>1, <3>2, <3>3, <3>4 DEF Store, Tracked, OpenStatus, TerminalStatus
    <2> QED BY <2>1, <2>2, <2>3
  <1>3. unseen' \in BOOLEAN /\ (unseen => unseen')
        /\ (rec = "missing" /\ local' # local => unseen')
    BY <1>1 DEF TypeOK
  <1>4. TypeOK'
    BY <1>1, <1>2, <1>3 DEF TypeOK
  <1>5. SentValidated' /\ SentPriced' /\ AskedInTime' /\ SentRegistered'
    BY <1>1, <1>2, TaskStays
  <1>6. StreamCurrent' /\ CapHolds'
    BY <1>1 DEF IInv, StreamCurrent, CapHolds
  <1>7. EndTold' /\ CompletedWhenOver'
    BY <1>1, <1>2, <1>3 DEF IInv, EndTold, CompletedWhenOver
  <1> QED BY <1>4, <1>5, <1>6, <1>7 DEF IInv

\* A stop of the runtime.
LEMMA StopKeeps == ASSUME IInv, Stop PROVE IInv'
  <1>1. /\ TypeOK /\ setting' = setting /\ local' = local /\ price' = price /\ at' = at
        /\ waited' = waited /\ asked' = asked /\ stop' = TRUE /\ unseen' = unseen
        /\ outcome' = outcome /\ placed' = placed /\ status' = status /\ stream' = stream
        /\ rec' = rec
    BY DEF IInv, Stop, exchVars
  <1>2. TypeOK'
    BY <1>1 DEF TypeOK
  <1>3. SentValidated' /\ SentPriced' /\ AskedInTime' /\ SentRegistered'
    BY <1>1, TaskStays
  <1> QED BY <1>1, <1>2, <1>3, Untouched DEF IInv

-----------------------------------------------------------------------------
(***************************************************************************)
(* The invariant holds.                                                    *)
(***************************************************************************)

\* Before anything is placed nothing can go wrong.
LEMMA InitInv == ASSUME Init PROVE IInv
  <1>1. TypeOK
    <2>1. <<>> \in Seq(OpenStatus \union TerminalStatus) /\ stream = <<>>
      BY DEF Init
    <2>2. outcome \in Outcome
      BY DEF Init, Untried, Outcome, Reason
    <2>3. local \in Store
      <3>1. AbsentOrder \in ManagedOrder
        BY LotAssumption DEF AbsentOrder, ManagedOrder, Origins
      <3> QED BY <3>1 DEF Init, EmptyStore, Store
    <2>4. waited \in 0 .. Timeout + PollEvery
      BY DrillAssumption DEF Init
    <2>5. placed.qty \in Nat
      BY DEF Init, NoOrder
    <2> QED BY <2>1, <2>2, <2>3, <2>4, <2>5 DEF Init, TypeOK
  <1>2. ~Sent /\ ~(at = "priced") /\ status = "Absent"
    BY DEF Init, Sent, Untried
  <1>3. SentValidated /\ SentPriced /\ SentRegistered /\ AskedInTime
    BY <1>2 DEF Init, Untried, SentValidated, SentPriced, SentRegistered, AskedInTime
  <1>4. StreamCurrent
    BY DEF Init, StreamCurrent
  <1>5. EndTold
    <2>1. local[TheDrill].status = "Absent"
      BY DrillAssumption DEF Init, EmptyStore, AbsentOrder
    <2> QED BY <2>1 DEF EndTold, TerminalStatus
  <1>6. CapHolds /\ CompletedWhenOver
    BY DEF Init, NoOrder, Untried, CapHolds, CompletedWhenOver, TerminalStatus
  <1> QED BY <1>1, <1>3, <1>4, <1>5, <1>6 DEF IInv

\* Every step keeps the invariant.
LEMMA StepInv == ASSUME IInv, [Next]_vars PROVE IInv'
  <1>1. CASE Waiting
    BY <1>1, BeginKeeps, PollKeeps, RestKeeps, VainKeeps DEF Waiting
  <1>2. CASE Submission
    BY <1>2, SubmitKeeps, AcknowledgedKeeps, FailsKeeps DEF Submission
  <1>3. CASE World
    BY <1>3, PriceSeenKeeps, AcceptsKeeps, MovesKeeps, BreaksKeeps, StopKeeps DEF World
  <1>4. CASE Runtime
    BY <1>4, UpdateKeeps, ReadsKeeps, WritesKeeps DEF Runtime
  <1>5. CASE UNCHANGED vars
    <2>1. /\ setting' = setting /\ local' = local /\ price' = price /\ at' = at
          /\ waited' = waited /\ asked' = asked /\ stop' = stop /\ unseen' = unseen
          /\ outcome' = outcome /\ placed' = placed /\ status' = status /\ stream' = stream
          /\ rec' = rec
      BY <1>5 DEF vars
    <2>2. TypeOK'
      BY <2>1 DEF IInv, TypeOK
    <2>3. SentValidated' /\ SentPriced' /\ AskedInTime' /\ SentRegistered'
      BY <2>1, TaskStays
    <2> QED BY <2>1, <2>2, <2>3, Untouched DEF IInv
  <1> QED BY <1>1, <1>2, <1>3, <1>4, <1>5 DEF Next

\* The invariant, for any settings, prices and times.
THEOREM Invariance == Spec => []IInv
  <1>1. Init => IInv
    BY InitInv
  <1>2. IInv /\ [Next]_vars => IInv'
    BY StepInv
  <1> QED BY <1>1, <1>2, PTL DEF Spec

\* The variables of _demo_drill_cycle, DrillOutcome and the store are well
\* formed; the wait for a price never overruns by more than one poll.
THEOREM TypeCorrect == Spec => []TypeOK
  <1>1. IInv => TypeOK
    BY DEF IInv
  <1> QED BY <1>1, Invariance, PTL

\* Whatever price moves under it, and though a request without an answer may
\* arrive at any time, the order that validate_drill let through is within its
\* cap when it is placed, and a reduce-only one reduces.
THEOREM CapAlwaysHolds == Spec => []CapHolds
  <1>1. IInv => CapHolds
    BY DEF IInv
  <1> QED BY <1>1, Invariance, PTL

\* DrillOutcome.completed is set only for an order that is over, and for every
\* one whose updates came and were not overtaken by the reconcile cycle.
THEOREM CompletedAsItIs == Spec => []CompletedWhenOver
  <1>1. IInv => CompletedWhenOver
    BY DEF IInv
  <1> QED BY <1>1, Invariance, PTL

=============================================================================
