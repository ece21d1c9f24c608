-------------------------- MODULE OrderFlowProofs ---------------------------
(***************************************************************************)
(* Theorems about OrderFlow, for every value of its constants.             *)
(***************************************************************************)
EXTENDS MCOrderFlow, BlockHistory, TLAPS

-----------------------------------------------------------------------------
(***************************************************************************)
(* The inductive invariant.                                                *)
(***************************************************************************)

Used(l) == intent[l].kind # "unused"

\* Whatever names an order names one whose intent was built.
Intended ==
    /\ \A l \in Links :
        /\ Used(l) => intent[l].qty > 0
        /\ exch[l].status # "None" => Used(l)
        /\ Tracked(local, l) => Used(l)
    /\ \A t \in Submitters : call[t] # NoCall => Used(call[t].link)

\* What the exchange has executed of an order fits the order and its status.
FillsBounded ==
    \A l \in Links :
        /\ exch[l].cum <= intent[l].qty
        /\ exch[l].status = "None" => exch[l].cum = 0
        /\ exch[l].status \in OpenStatus => exch[l].cum < intent[l].qty
        /\ exch[l].status = "Filled" => exch[l].cum = intent[l].qty
        /\ exch[l].status = "PartiallyFilled" => exch[l].cum > 0

\* What is in flight towards the local store is true of the exchange.
TrueOf(l, status) ==
    /\ status \in {"Filled", "Rejected"} => exch[l].status = status
    /\ status = "PartiallyFilled" => exch[l].cum > 0

StreamTrue == \A i \in 1 .. Len(stream) : TrueOf(stream[i].link, stream[i].status)

SnapshotTrue ==
    \A l \in Links :
        /\ rec.snapshot[l].status \in OpenStatus \union {"None"}
        /\ rec.snapshot[l].status # "None" => exch[l].status # "None"
        /\ rec.snapshot[l].cum <= exch[l].cum
        /\ TrueOf(l, rec.snapshot[l].status)

LocalTrue ==
    \A l \in Links :
        /\ local[l].filled <= intent[l].qty
        /\ TrueOf(l, local[l].status)

\* An entry the handler is about to protect is filled, recorded in
\* _seen_filled, and has no exit yet if it is one the handler would protect.
HandlerTrue ==
    handler.step = "fill" =>
        LET e == handler.entry
        IN  /\ intent[e].kind = "entry"
            /\ exch[e].status = "Filled"
            /\ e \in seenFilled
            /\ local[e].origin = "strategy" =>
                 \A x \in ReduceOnly : intent[x].parent # e

\* An entry with an exit that could be given a second one is in _seen_filled.
ExitsSeen ==
    \A x \in ReduceOnly :
        /\ intent[x].parent \in Links
        /\ local[intent[x].parent].origin = "strategy" => intent[x].parent \in seenFilled

IInv ==
    /\ TypeOK
    /\ Intended
    /\ FillsBounded
    /\ StreamTrue
    /\ SnapshotTrue
    /\ LocalTrue
    /\ HandlerTrue
    /\ ExitsSeen
    /\ ExitCoversFill
    /\ OneExitPerFill

-----------------------------------------------------------------------------
(***************************************************************************)
(* Lemmas about the operators.                                             *)
(***************************************************************************)

USE DEF Submitters

\* Every method of the OrderManager returns a well-formed store.
LEMMA StoreTypes ==
    /\ EmptyStore \in Store
    /\ \A store \in Store, l \in Links, o \in Origins : RegisterIntent(store, l, o) \in Store
    /\ \A store \in Store, l \in Links, st \in Statuses, q \in 0 .. Lot :
          ApplyOrderUpdate(store, l, st, q) \in Store
    /\ \A store \in Store, m \in SUBSET Links : MarkClosedMissing(store, m) \in Store
    /\ \A store \in Store, listed \in SUBSET Links, remote \in [Links -> ExchOrder] :
          (\A l \in listed : remote[l].status # "None") => UpsertSnapshot(store, listed, remote) \in Store
  <1> USE LotAssumption DEF Store, ManagedOrder, Origins, OpenStatus, TerminalStatus, Statuses
  <1>1. EmptyStore \in Store
    BY DEF EmptyStore, AbsentOrder
  <1>2. \A store \in Store, l \in Links, o \in Origins : RegisterIntent(store, l, o) \in Store
    BY DEF RegisterIntent
  <1>3. \A store \in Store, l \in Links, st \in Statuses, q \in 0 .. Lot :
          ApplyOrderUpdate(store, l, st, q) \in Store
    <2> SUFFICES ASSUME NEW store \in Store, NEW l \in Links, NEW st \in Statuses,
                        NEW q \in 0 .. Lot
                 PROVE  ApplyOrderUpdate(store, l, st, q) \in Store
      OBVIOUS
    <2>1. [store[l] EXCEPT !.status = st, !.filled = q] \in ManagedOrder
      OBVIOUS
    <2> QED BY <2>1 DEF ApplyOrderUpdate
  <1>4. \A store \in Store, m \in SUBSET Links : MarkClosedMissing(store, m) \in Store
    BY DEF MarkClosedMissing
  <1>5. \A store \in Store, listed \in SUBSET Links, remote \in [Links -> ExchOrder] :
          (\A l \in listed : remote[l].status # "None") => UpsertSnapshot(store, listed, remote) \in Store
    BY DEF UpsertSnapshot, ExchOrder, Tracked
  <1> QED BY <1>1, <1>2, <1>3, <1>4, <1>5

\* Every branch of _reconcile_cycle leaves a well-formed block state.
LEMMA BlocksTypes ==
    /\ NoBlocks \in BlockState
    /\ \A b \in BlockState : \A missing, closed, strays, orphans, reduceOnly :
          BlocksAfter(b, missing, closed, strays, orphans, reduceOnly) \in BlockState
  BY MaxMismatchesAssumption DEF BlockState, NoBlocks, BlocksAfter, AfterSync, AfterMismatch,
     NextMismatch, RecoveredByClosing, RecoveredBySync

\* The id generate_order_link_id returns was never used before.
LEMMA Fresh ==
    ASSUME NEW ids \in SUBSET Links, HasUnused(ids)
    PROVE  NextUnused(ids) \in ids /\ ~Used(NextUnused(ids))
  BY DEF HasUnused, NextUnused, Used

\* Counting what was spent of a bound keeps the record's type.
LEMMA SpentTypes ==
    ASSUME NEW sp \in Spent
    PROVE  /\ [sp EXCEPT !.drops = @ + 1] \in Spent
           /\ [sp EXCEPT !.redelivered = @ + 1] \in Spent
           /\ [sp EXCEPT !.crashes = @ + 1] \in Spent
           /\ [sp EXCEPT !.refreshes = @ + 1] \in Spent
           /\ [sp EXCEPT !.redelivered = @] \in Spent
  BY DEF Spent

\* A request that is built, answered or sent again is a Call.
LEMMA CallTypes ==
    ASSUME NEW c \in [Submitters -> Call], NEW t \in Submitters, c[t].answer # "none"
    PROVE  /\ c[t].link \in Links
           /\ \A a \in {"sent", "accepted", "refused", "failed"} :
                 [c EXCEPT ![t].answer = a] \in [Submitters -> Call]
           /\ c[t].attempt < MaxAttempts =>
                 [c EXCEPT ![t] = [link |-> @.link, answer |-> "sent", attempt |-> @.attempt + 1]]
                    \in [Submitters -> Call]
  <1>1. c[t] \in Request
    BY DEF Call, NoCall
  <1>2. ASSUME NEW a \in {"sent", "accepted", "refused", "failed"}
        PROVE  [c EXCEPT ![t].answer = a] \in [Submitters -> Call]
    <2>1. [c[t] EXCEPT !.answer = a] \in Request
      BY <1>1 DEF Request
    <2> QED BY <2>1 DEF Call
  <1>3. ASSUME c[t].attempt < MaxAttempts
        PROVE  [c EXCEPT ![t] = [link |-> @.link, answer |-> "sent", attempt |-> @.attempt + 1]]
                  \in [Submitters -> Call]
    <2>1. c[t].attempt + 1 \in 1 .. MaxAttempts
      BY <1>1, <1>3, BoundsAssumption DEF Request
    <2>2. [link |-> c[t].link, answer |-> "sent", attempt |-> c[t].attempt + 1] \in Request
      BY <1>1, <2>1 DEF Request
    <2> QED BY <2>2 DEF Call
  <1> QED BY <1>1, <1>2, <1>3 DEF Request

\* The resting reconcile cycle is well formed.
LEMMA NotReconcilingType == NotReconciling \in Reconcile
  <1>1. NoSnapshot \in [Links -> ExchOrder]
    BY LotAssumption DEF NoSnapshot, ExchOrder, NoExchOrder
  <1> QED BY <1>1 DEF Reconcile, NotReconciling

\* The resting and the starting portfolio refresh are well formed.
LEMMA RefreshTypes == NotRefreshing \in Refresh /\ RefreshStarted \in Refresh
  <1>1. NotRefreshing \in Refresh
    BY DEF Refresh, NotRefreshing
  <1> QED BY <1>1 DEF Refresh, RefreshStarted

-----------------------------------------------------------------------------
(***************************************************************************)
(* Type correctness.                                                       *)
(***************************************************************************)

\* The variables have their types when the process starts.
LEMMA TypeInit == Init => TypeOK
  <1> SUFFICES ASSUME Init PROVE TypeOK
    OBVIOUS
  <1> USE LinksAssumption, BoundsAssumption, LotAssumption
  <1>1. /\ exch \in [Links -> ExchOrder] /\ position \in [Symbols -> Nat]
        /\ portfolio \in [Symbols -> Nat]
    BY DEF Init, ExchOrder, NoExchOrder
  <1>2. stream \in Seq(Event) /\ seenFilled \in SUBSET Links
    BY DEF Init
  <1>3. phase \in {"down", "refresh", "inspect", "running"} /\ dirty \in BOOLEAN
        /\ todo \in SUBSET (Symbols \X {"position", "orders"})
    BY DEF Init
  <1>4. local \in Store /\ blocks \in BlockState
    BY StoreTypes, BlocksTypes DEF Init
  <1>5. refresh \in Refresh
    BY RefreshTypes DEF Init
  <1>6. handler \in Handler /\ call \in [Submitters -> Call]
    BY DEF Init, Handler, Idle, Call, NoCall
  <1>7. rec \in Reconcile
    BY DEF Init, Reconcile, NotReconciling, NoSnapshot, ExchOrder, NoExchOrder
  <1>8. intent \in [Links -> Intent]
    BY DEF Init, Intent, Unused
  <1>9. spent \in Spent
    BY DEF Init, Spent
  <1> QED BY <1>1, <1>2, <1>3, <1>4, <1>5, <1>6, <1>7, <1>8, <1>9 DEF TypeOK

\* A published event is one of Event, and StreamDrop and friends leave less.
LEMMA PublishType ==
    ASSUME TypeOK, NEW l \in Links, NEW status \in Statuses, Publish(l, status)
    PROVE  stream' \in Seq(Event)
  <1>1. [link |-> l, status |-> status] \in Event /\ stream \in Seq(Event)
    BY DEF TypeOK, Event
  <1> QED BY <1>1 DEF Publish

\* Every step keeps the variables' types.
LEMMA TypeStep ==
    ASSUME TypeOK, Intended, FillsBounded, HandlerTrue, [Next]_vars
    PROVE  TypeOK'
  <1> USE LinksAssumption, BoundsAssumption, LotAssumption
          DEF exchVars, startVars, Statuses, OpenStatus, TerminalStatus
  <1>1. ASSUME NEW l \in Links, ExchangeFill(l) PROVE TypeOK'
    <2> USE <1>1 DEF ExchangeFill
    <2>1. exch' \in [Links -> ExchOrder]
      BY DEF TypeOK, ExchOrder, ExchangeOpen, FillsBounded, Intent
    <2>2. position' \in [Symbols -> Nat]
      <3>1. CASE intent[l].symbol \in Symbols
        BY <3>1 DEF TypeOK, ReduceOnly
      <3>2. CASE intent[l].symbol \notin Symbols
        BY <3>2 DEF TypeOK
      <3> QED BY <3>1, <3>2
    <2>3. stream' \in Seq(Event)
      BY PublishType
    <2> QED BY <2>1, <2>2, <2>3 DEF TypeOK
  <1>2. ASSUME NEW l \in Links, NEW status \in {"Cancelled", "Rejected"}, ExchangeEnd(l, status)
        PROVE  TypeOK'
    <2> USE <1>2 DEF ExchangeEnd
    <2>1. exch' \in [Links -> ExchOrder]
      <3>1. exch[l] \in ExchOrder
        BY DEF TypeOK
      <3>2. [exch[l] EXCEPT !.status = status] \in ExchOrder
        BY <3>1 DEF ExchOrder
      <3> QED BY <3>2 DEF TypeOK
    <2>2. stream' \in Seq(Event)
      BY PublishType
    <2> QED BY <2>1, <2>2 DEF TypeOK
  <1>3. ASSUME NEW s \in Symbols, ManualClose(s) PROVE TypeOK'
    BY <1>3 DEF ManualClose, TypeOK
  <1>4. CASE StreamDrop
    <2>1. stream' \in Seq(Event)
      BY <1>4 DEF StreamDrop
    <2>2. spent' \in Spent
      BY <1>4, SpentTypes DEF StreamDrop, TypeOK
    <2> QED BY <1>4, <2>1, <2>2 DEF StreamDrop, TypeOK
  <1>5. CASE Boot
    BY <1>5, RefreshTypes DEF Boot, TypeOK
  <1>6. ASSUME NEW s \in Symbols, InspectPosition(s) \/ InspectOrders(s) PROVE TypeOK'
    BY <1>6 DEF InspectPosition, InspectOrders, TypeOK
  <1>7. CASE InspectDone
    BY <1>7 DEF InspectDone, TypeOK, BlockState
  <1>8. CASE InspectFails
    BY <1>8 DEF InspectFails, TypeOK
  <1>9. CASE Crash
    <2> USE <1>9 DEF Crash
    <2>1. refresh' \in Refresh
      BY RefreshTypes
    <2>2. handler' \in Handler /\ call' \in [Submitters -> Call]
      BY DEF Handler, Call
    <2>3. rec' \in Reconcile
      BY NotReconcilingType
    <2>4. spent' \in Spent
      BY SpentTypes DEF TypeOK
    <2>5. portfolio' \in [Symbols -> Nat] /\ stream' \in Seq(Event)
      OBVIOUS
    <2>6. local' \in Store /\ blocks' \in BlockState
      BY StoreTypes, BlocksTypes
    <2> QED BY <2>1, <2>2, <2>3, <2>4, <2>5, <2>6 DEF TypeOK
  <1>10. CASE RefreshStart
    BY <1>10, RefreshTypes, SpentTypes DEF RefreshStart, TypeOK
  <1>11. ASSUME NEW s \in Symbols, RefreshFetch(s) PROVE TypeOK'
    BY <1>11 DEF RefreshFetch, TypeOK, Refresh
  <1>12. CASE RefreshApply \/ RefreshFails
    <2>1. phase' \in {"down", "refresh", "inspect", "running"} /\ dirty' \in BOOLEAN
          /\ todo' \in SUBSET (Symbols \X {"position", "orders"})
      BY <1>12 DEF RefreshApply, RefreshFails, AfterRefresh, TypeOK
    <2>2. portfolio' \in [Symbols -> Nat] /\ refresh' \in Refresh
      BY <1>12, RefreshTypes DEF RefreshApply, RefreshFails, TypeOK, Refresh
    <2> QED BY <1>12, <2>1, <2>2 DEF RefreshApply, RefreshFails, TypeOK
  <1>13. ASSUME NEW s \in Symbols, RegisterEntry(s) PROVE TypeOK'
    <2> USE <1>13 DEF RegisterEntry
    <2>1. NextUnused(EntryLinks) \in Links
      BY Fresh
    <2>2. intent' \in [Links -> Intent]
      BY <2>1 DEF TypeOK, Intent
    <2>3. local' \in Store
      BY <2>1, StoreTypes DEF TypeOK, Origins
    <2>4. call' \in [Submitters -> Call]
      <3>1. [link |-> NextUnused(EntryLinks), answer |-> "sent", attempt |-> 1] \in Call
        BY <2>1 DEF Call, Request
      <3> QED BY <3>1 DEF TypeOK
    <2> QED BY <2>2, <2>3, <2>4 DEF TypeOK
  <1>14. ASSUME NEW t \in Submitters, ExchangeAccept(t) PROVE TypeOK'
    <2> USE <1>14 DEF ExchangeAccept
    <2>1. call[t].link \in Links
      BY CallTypes DEF TypeOK
    <2>2. exch' \in [Links -> ExchOrder]
      BY <2>1 DEF TypeOK, ExchOrder
    <2>3. stream' \in Seq(Event)
      BY <2>1, PublishType
    <2>4. call' \in [Submitters -> Call]
      BY CallTypes DEF TypeOK
    <2> QED BY <2>2, <2>3, <2>4 DEF TypeOK
  <1>15. ASSUME NEW t \in Submitters, ExchangeRefuse(t) PROVE TypeOK'
    BY <1>15, CallTypes DEF ExchangeRefuse, TypeOK
  <1>16. ASSUME NEW t \in Submitters, SubmitReturns(t) PROVE TypeOK'
    BY <1>16, CallTypes DEF SubmitReturns, TypeOK, Call
  <1>17. ASSUME NEW t \in Submitters, SubmitRetries(t) PROVE TypeOK'
    BY <1>17, CallTypes DEF SubmitRetries, TypeOK
  <1>18. ASSUME NEW t \in Submitters, SubmitFails(t) PROVE TypeOK'
    <2>1. call' \in [Submitters -> Call]
      <3>1. [call EXCEPT ![t] = NoCall] \in [Submitters -> Call]
        BY DEF TypeOK, Call
      <3>2. [call EXCEPT ![t].answer = "failed"] \in [Submitters -> Call]
        BY <1>18, CallTypes DEF SubmitFails, TypeOK
      <3> QED BY <1>18, <3>1, <3>2 DEF SubmitFails
    <2>2. stream' \in Seq(Event)
      <3>1. stream' = stream \/ stream' = <<>>
        BY <1>18 DEF SubmitFails
      <3>2. stream \in Seq(Event) /\ <<>> \in Seq(Event)
        BY DEF TypeOK
      <3> QED BY <3>1, <3>2
    <2> QED BY <1>18, <2>1, <2>2 DEF SubmitFails, TypeOK
  <1>19. ASSUME NEW again \in BOOLEAN, HandleUpdate(again) PROVE TypeOK'
    <2> USE <1>19 DEF HandleUpdate
    <2> DEFINE l == Head(stream).link
               status == Head(stream).status
    <2>1. l \in Links /\ status \in Statuses
      <3>1. stream \in Seq(Event) /\ stream # <<>>
        BY DEF TypeOK
      <3>2. Head(stream) \in Event
        BY <3>1
      <3> QED BY <3>2 DEF Event
    <2>2. stream' \in Seq(Event)
      BY DEF TypeOK
    <2>3. local' \in Store
      BY <2>1, StoreTypes DEF TypeOK, Intent
    <2>4. handler' \in Handler
      BY <2>1 DEF Handler
    <2>5. seenFilled' \in SUBSET Links /\ spent' \in Spent
      BY <2>1, SpentTypes DEF TypeOK
    <2> QED BY <2>2, <2>3, <2>4, <2>5 DEF TypeOK
  <1>20. CASE PlaceExit
    <2> USE <1>20 DEF PlaceExit
    <2> DEFINE e == handler.entry
               x == NextUnused(ExitLinks)
    <2>1. x \in Links /\ e \in Links
      BY Fresh DEF TypeOK, Handler, Idle
    <2>2. ExitQty(e) \in 0 .. Lot
      BY <2>1 DEF ExitQty, TypeOK, Store, ManagedOrder, Intent
    <2>3. intent' \in [Links -> Intent]
      BY <2>1, <2>2 DEF TypeOK, Intent
    <2>4. local' \in Store
      BY <2>1, StoreTypes DEF TypeOK, Origins
    <2>5. call' \in [Submitters -> Call]
      <3>1. [link |-> x, answer |-> "sent", attempt |-> 1] \in Call
        BY <2>1 DEF Call, Request
      <3> QED BY <3>1 DEF TypeOK
    <2>6. handler' \in Handler
      BY DEF Handler
    <2> QED BY <2>3, <2>4, <2>5, <2>6 DEF TypeOK
  <1>21. CASE SkipExit
    BY <1>21 DEF SkipExit, TypeOK, Handler
  <1>22. CASE ReconcileStart
    <2>1. rec' \in Reconcile
      BY <1>22, NotReconcilingType DEF ReconcileStart, Reconcile, OpenOrders
    <2> QED BY <1>22, <2>1 DEF ReconcileStart, TypeOK
  <1>23. ASSUME NEW s \in Symbols, FetchOrders(s) PROVE TypeOK'
    BY <1>23 DEF FetchOrders, TypeOK, Reconcile
  <1>24. CASE ApplyOrders
    <2> USE <1>24 DEF ApplyOrders
    <2>1. local' \in Store
      BY StoreTypes DEF TypeOK, Reconcile
    <2>2. rec' \in Reconcile
      BY NotReconcilingType DEF TypeOK, Reconcile
    <2> QED BY <2>1, <2>2 DEF TypeOK
  <1>25. ASSUME NEW s \in Symbols, FetchPosition(s) \/ FetchExits(s) PROVE TypeOK'
    <2>1. rec' \in Reconcile
      <3>1. ASSUME FetchPosition(s) PROVE rec' \in Reconcile
        BY <3>1 DEF FetchPosition, TypeOK, Reconcile
      <3>2. ASSUME FetchExits(s) PROVE rec' \in Reconcile
        BY <3>2 DEF FetchExits, TypeOK, Reconcile
      <3> QED BY <1>25, <3>1, <3>2
    <2> QED BY <1>25, <2>1 DEF FetchPosition, FetchExits, TypeOK
  <1>26. CASE ReconcileFinish
    <2> USE <1>26 DEF ReconcileFinish
    <2>1. local' \in Store /\ blocks' \in BlockState
      BY StoreTypes, BlocksTypes DEF TypeOK, Reconcile
    <2>2. rec' \in Reconcile
      BY NotReconcilingType
    <2> QED BY <2>1, <2>2 DEF TypeOK
  <1>27. CASE ReconcileFails
    BY <1>27, NotReconcilingType DEF ReconcileFails, TypeOK
  <1>28. CASE UNCHANGED vars
    BY <1>28 DEF vars, TypeOK
  <1> QED
    BY <1>1, <1>2, <1>3, <1>4, <1>5, <1>6, <1>7, <1>8, <1>9, <1>10, <1>11, <1>12, <1>13,
       <1>14, <1>15, <1>16, <1>17, <1>18, <1>19, <1>20, <1>21, <1>22, <1>23, <1>24, <1>25,
       <1>26, <1>27, <1>28
       DEF Next, ExchangeStep, StartupStep, RefreshStep, SubmitStep, SubmitEnds, HandlerStep,
           ReconcileStep


-----------------------------------------------------------------------------
(***************************************************************************)
(* Which actions write which variable.                                     *)
(***************************************************************************)

\* Which actions write each part of the state, the others leaving it alone.
LEMMA Writers ==
    ASSUME [Next]_vars
    PROVE  /\ \/ exch' = exch
              \/ \E l \in Links : ExchangeFill(l)
              \/ \E l \in Links, status \in {"Cancelled", "Rejected"} : ExchangeEnd(l, status)
              \/ \E t \in Submitters : ExchangeAccept(t)
           /\ \/ intent' = intent
              \/ \E s \in Symbols : RegisterEntry(s)
              \/ PlaceExit
           /\ \/ local' = local
              \/ local' = EmptyStore
              \/ \E s \in Symbols : RegisterEntry(s)
              \/ \E again \in BOOLEAN : HandleUpdate(again)
              \/ PlaceExit
              \/ ApplyOrders
              \/ ReconcileFinish
           /\ \/ stream' = stream
              \/ stream' = <<>>
              \/ \E l \in Links : ExchangeFill(l)
              \/ \E l \in Links, status \in {"Cancelled", "Rejected"} : ExchangeEnd(l, status)
              \/ \E t \in Submitters : ExchangeAccept(t)
              \/ \E again \in BOOLEAN : HandleUpdate(again)
           /\ \/ handler' = handler /\ seenFilled' = seenFilled
              \/ handler' = Idle /\ (seenFilled' = seenFilled \/ local' = EmptyStore)
              \/ \E again \in BOOLEAN : HandleUpdate(again)
           /\ \/ call' = call
              \/ call' = [t \in Submitters |-> NoCall]
              \/ \E s \in Symbols : RegisterEntry(s)
              \/ PlaceExit
              \/ \E t \in Submitters : ExchangeAccept(t) \/ ExchangeRefuse(t) \/ SubmitEnds(t)
  <1> USE DEF exchVars, startVars
  <1>1. CASE ExchangeStep
    BY <1>1 DEF ExchangeStep, ExchangeFill, ExchangeEnd, ManualClose
  <1>2. CASE StreamDrop
    BY <1>2 DEF StreamDrop
  <1>3. CASE StartupStep
    BY <1>3 DEF StartupStep, Boot, InspectPosition, InspectOrders, InspectDone, InspectFails
  <1>4. CASE Crash
    BY <1>4 DEF Crash
  <1>5. CASE RefreshStep
    BY <1>5 DEF RefreshStep, RefreshStart, RefreshFetch, RefreshApply, RefreshFails
  <1>6. CASE \E s \in Symbols : RegisterEntry(s)
    BY <1>6 DEF RegisterEntry
  <1>7. CASE SubmitStep
    BY <1>7 DEF SubmitStep, SubmitEnds, ExchangeAccept, ExchangeRefuse, SubmitReturns,
                SubmitRetries, SubmitFails
  <1>8. CASE HandlerStep
    BY <1>8 DEF HandlerStep, HandleUpdate, PlaceExit, SkipExit
  <1>9. CASE ReconcileStep
    BY <1>9 DEF ReconcileStep, ReconcileStart, FetchOrders, FetchPosition, FetchExits,
                ApplyOrders, ReconcileFinish, ReconcileFails
  <1>10. CASE UNCHANGED vars
    BY <1>10 DEF vars
  <1> QED BY <1>1, <1>2, <1>3, <1>4, <1>5, <1>6, <1>7, <1>8, <1>9, <1>10 DEF Next

\* Which actions write the snapshot of a reconcile cycle.
LEMMA SnapshotWriters ==
    ASSUME TypeOK, [Next]_vars
    PROVE  \/ rec'.snapshot \in {rec.snapshot, NoSnapshot}
           \/ \E s \in Symbols : FetchOrders(s)
  <1> USE DEF TypeOK, Reconcile, NotReconciling
  <1>1. CASE UNCHANGED rec
    BY <1>1
  <1>2. CASE rec' = NotReconciling
    BY <1>2
  <1>3. CASE ReconcileStart \/ ApplyOrders
    BY <1>3 DEF ReconcileStart, ApplyOrders
  <1>4. ASSUME NEW s \in Symbols, FetchPosition(s) \/ FetchExits(s)
        PROVE  rec'.snapshot = rec.snapshot
    BY <1>4 DEF FetchPosition, FetchExits
  <1>5. \/ UNCHANGED rec \/ rec' = NotReconciling \/ ReconcileStart \/ ApplyOrders
        \/ \E s \in Symbols : FetchOrders(s) \/ FetchPosition(s) \/ FetchExits(s)
    BY DEF Next, vars, ExchangeStep, ExchangeFill, ExchangeEnd, ManualClose, StreamDrop,
           StartupStep, Boot, InspectPosition, InspectOrders, InspectDone, InspectFails, Crash,
           RefreshStep, RefreshStart, RefreshFetch, RefreshApply, RefreshFails, RegisterEntry,
           SubmitStep, SubmitEnds, ExchangeAccept, ExchangeRefuse, SubmitReturns, SubmitRetries,
           SubmitFails, HandlerStep, HandleUpdate, PlaceExit, SkipExit, ReconcileStep,
           ReconcileFinish, ReconcileFails
  <1> QED BY <1>1, <1>2, <1>3, <1>4, <1>5

-----------------------------------------------------------------------------
(***************************************************************************)
(* What no step undoes: an intent once built, a fill, the end of an order. *)
(***************************************************************************)

\* What is true of an order on the exchange stays so: a terminal status is
\* final, a cumulative fill never shrinks, an intent once built never changes.
LEMMA Stable ==
    ASSUME TypeOK, Intended, FillsBounded, [Next]_vars
    PROVE  \A l \in Links :
              /\ Used(l) => intent'[l] = intent[l]
              /\ exch[l].status # "None" => exch'[l].status # "None"
              /\ exch[l].status \in TerminalStatus => exch'[l] = exch[l]
              /\ exch[l].cum <= exch'[l].cum
  <1>1. \A l \in Links : Used(l) => intent'[l] = intent[l]
    <2>1. CASE intent' = intent
      BY <2>1
    <2>2. ASSUME NEW s \in Symbols, RegisterEntry(s)
          PROVE  \A l \in Links : Used(l) => intent'[l] = intent[l]
      BY <2>2, Fresh, LinksAssumption DEF RegisterEntry, TypeOK
    <2>3. CASE PlaceExit
      BY <2>3, Fresh, LinksAssumption DEF PlaceExit, TypeOK
    <2> QED BY <2>1, <2>2, <2>3, Writers
  <1>2. \A l \in Links :
            /\ exch[l].status # "None" => exch'[l].status # "None"
            /\ exch[l].status \in TerminalStatus => exch'[l] = exch[l]
            /\ exch[l].cum <= exch'[l].cum
    <2> USE LotAssumption DEF TypeOK, ExchOrder, OpenStatus, TerminalStatus, ExchangeOpen
    <2>1. CASE exch' = exch
      BY <2>1
    <2>2. ASSUME NEW k \in Links, ExchangeFill(k), NEW l \in Links
          PROVE  /\ exch[l].status # "None" => exch'[l].status # "None"
                 /\ exch[l].status \in TerminalStatus => exch'[l] = exch[l]
                 /\ exch[l].cum <= exch'[l].cum
      BY <2>2 DEF ExchangeFill
    <2>3. ASSUME NEW k \in Links, NEW st \in {"Cancelled", "Rejected"}, ExchangeEnd(k, st),
                 NEW l \in Links
          PROVE  /\ exch[l].status # "None" => exch'[l].status # "None"
                 /\ exch[l].status \in TerminalStatus => exch'[l] = exch[l]
                 /\ exch[l].cum <= exch'[l].cum
      BY <2>3 DEF ExchangeEnd
    <2>4. ASSUME NEW t \in Submitters, ExchangeAccept(t), NEW l \in Links
          PROVE  /\ exch[l].status # "None" => exch'[l].status # "None"
                 /\ exch[l].status \in TerminalStatus => exch'[l] = exch[l]
                 /\ exch[l].cum <= exch'[l].cum
      BY <2>4 DEF ExchangeAccept, FillsBounded
    <2> QED BY <2>1, <2>2, <2>3, <2>4, Writers
  <1> QED BY <1>1, <1>2

\* TrueOf in the next state, of a status of this one.
TrueAfter(l, status) ==
    /\ status \in {"Filled", "Rejected"} => exch'[l].status = status
    /\ status = "PartiallyFilled" => exch'[l].cum > 0

\* A report about an order that was true stays true.
LEMMA TrueStays ==
    ASSUME TypeOK, TypeOK', Intended, FillsBounded, [Next]_vars,
           NEW l \in Links, NEW status, TrueOf(l, status)
    PROVE  TrueAfter(l, status)
  BY Stable, LotAssumption DEF TrueOf, TrueAfter, TypeOK, ExchOrder, TerminalStatus

-----------------------------------------------------------------------------
(***************************************************************************)
(* The parts of the invariant, one lemma each.                             *)
(***************************************************************************)

\* The entry and the id PlaceExit works with.
LEMMA PlaceExitFacts ==
    ASSUME TypeOK, Intended, LocalTrue, HandlerTrue, PlaceExit
    PROVE  /\ NextUnused(ExitLinks) \in Links /\ ~Used(NextUnused(ExitLinks))
           /\ handler.entry \in Links /\ intent[handler.entry].kind = "entry"
           /\ ExitQty(handler.entry) \in 1 .. intent[handler.entry].qty
  <1>1. NextUnused(ExitLinks) \in Links /\ ~Used(NextUnused(ExitLinks))
    BY Fresh, LinksAssumption DEF PlaceExit
  <1>2. handler.entry \in Links /\ intent[handler.entry].kind = "entry"
    BY DEF PlaceExit, TypeOK, Handler, Idle, HandlerTrue
  <1>3. ExitQty(handler.entry) \in 1 .. intent[handler.entry].qty
    <2>1. /\ local[handler.entry].filled \in 0 .. Lot /\ intent[handler.entry].qty \in 0 .. Lot
          /\ intent[handler.entry].qty > 0
          /\ local[handler.entry].filled <= intent[handler.entry].qty
      BY <1>2 DEF TypeOK, Store, ManagedOrder, Intent, Intended, Used, LocalTrue
    <2> QED BY <2>1, LotAssumption DEF ExitQty
  <1> QED BY <1>1, <1>2, <1>3

\* The id RegisterEntry works with.
LEMMA RegisterEntryFacts ==
    ASSUME NEW s \in Symbols, RegisterEntry(s)
    PROVE  NextUnused(EntryLinks) \in Links /\ ~Used(NextUnused(EntryLinks))
  BY Fresh, LinksAssumption DEF RegisterEntry

\* The event HandleUpdate applies.
LEMMA HandleUpdateFacts ==
    ASSUME TypeOK, StreamTrue, NEW again \in BOOLEAN, HandleUpdate(again)
    PROVE  /\ Head(stream).link \in Links /\ Head(stream).status \in Statuses
           /\ TrueOf(Head(stream).link, Head(stream).status)
  <1>1. stream \in Seq(Event) /\ stream # <<>>
    BY DEF TypeOK, HandleUpdate
  <1>2. Head(stream) \in Event /\ Head(stream) = stream[1] /\ 1 \in 1 .. Len(stream)
    BY <1>1
  <1> QED BY <1>2 DEF Event, StreamTrue

\* Intents stay well formed: an order on the exchange has one, kinds match ids.
LEMMA IntendedStep ==
    ASSUME TypeOK, TypeOK', Intended, FillsBounded, SnapshotTrue, LocalTrue, HandlerTrue,
           [Next]_vars
    PROVE  Intended'
  <1>1. \A l \in Links : Used(l) => Used(l)'
    BY Stable DEF Used
  <1>2. ASSUME NEW l \in Links, Used(l)' PROVE intent'[l].qty > 0
    <2>1. CASE intent' = intent
      BY <1>2, <2>1 DEF Used, Intended
    <2>2. ASSUME NEW s \in Symbols, RegisterEntry(s) PROVE intent'[l].qty > 0
      BY <1>2, <2>2, RegisterEntryFacts, LotAssumption DEF RegisterEntry, Used, Intended, TypeOK
    <2>3. CASE PlaceExit
      BY <1>2, <2>3, PlaceExitFacts DEF PlaceExit, Used, Intended, TypeOK, Intent
    <2> QED BY <2>1, <2>2, <2>3, Writers
  <1>3. ASSUME NEW l \in Links, exch'[l].status # "None" PROVE Used(l)'
    <2>1. CASE exch[l].status # "None"
      BY <2>1, <1>1 DEF Intended
    <2>2. ASSUME NEW t \in Submitters, ExchangeAccept(t), exch[l].status = "None"
          PROVE  Used(l)
      BY <2>2, <1>3 DEF ExchangeAccept, TypeOK, Intended, NoCall
    <2>3. ASSUME exch[l].status = "None", NEW k \in Links, ExchangeFill(k) PROVE FALSE
      BY <2>3, <1>3 DEF ExchangeFill, ExchangeOpen, OpenStatus, TypeOK
    <2>4. ASSUME exch[l].status = "None", NEW k \in Links,
                 NEW st \in {"Cancelled", "Rejected"}, ExchangeEnd(k, st)
          PROVE  FALSE
      BY <2>4, <1>3 DEF ExchangeEnd, ExchangeOpen, OpenStatus, TypeOK
    <2> QED BY <2>1, <2>2, <2>3, <2>4, <1>1, <1>3, Writers
  <1>4. ASSUME NEW l \in Links, Tracked(local, l)' PROVE Used(l)'
    <2>1. CASE Tracked(local, l)
      BY <2>1, <1>1 DEF Intended
    <2> SUFFICES ASSUME ~Tracked(local, l) PROVE Used(l)'
      BY <2>1
    <2>2. CASE local' = local \/ local' = EmptyStore
      BY <2>2, <1>4 DEF Tracked, EmptyStore, AbsentOrder
    <2>3. ASSUME NEW s \in Symbols, RegisterEntry(s) PROVE Used(l)'
      BY <2>3, <1>4, RegisterEntryFacts DEF RegisterEntry, RegisterIntent, Tracked, Used, TypeOK, Store
    <2>4. ASSUME NEW again \in BOOLEAN, HandleUpdate(again) PROVE FALSE
      BY <2>4, <1>4 DEF HandleUpdate, ApplyOrderUpdate, Tracked, TypeOK, Store
    <2>5. CASE PlaceExit
      BY <2>5, <1>4, PlaceExitFacts DEF PlaceExit, RegisterIntent, Tracked, Used, TypeOK, Store
    <2>6. CASE ApplyOrders
      BY <2>6, <1>4, <1>1 DEF ApplyOrders, UpsertSnapshot, Tracked, SnapshotTrue, Intended
    <2>7. CASE ReconcileFinish
      BY <2>7, <1>4 DEF ReconcileFinish, MarkClosedMissing, ClosedMissing, OpenOrders, OpenStatus, Tracked
    <2> QED BY <2>2, <2>3, <2>4, <2>5, <2>6, <2>7, Writers
  <1>5. ASSUME NEW t \in Submitters, call'[t] # NoCall PROVE Used(call[t].link)'
    <2>1. CASE call' = call \/ call' = [u \in Submitters |-> NoCall]
      BY <2>1, <1>1, <1>5 DEF Intended, TypeOK, Call, Request
    <2>2. ASSUME NEW s \in Symbols, RegisterEntry(s) PROVE Used(call[t].link)'
      BY <2>2, <1>1, <1>5, RegisterEntryFacts DEF RegisterEntry, TypeOK, Call, Request, Intended, Used
    <2>3. CASE PlaceExit
      BY <2>3, <1>1, <1>5, PlaceExitFacts DEF PlaceExit, TypeOK, Call, Request, Intended, Used
    <2>4. ASSUME NEW u \in Submitters,
                 ExchangeAccept(u) \/ ExchangeRefuse(u) \/ SubmitEnds(u)
          PROVE  Used(call[t].link)'
      <3>1. call[t] # NoCall /\ call'[t].link = call[t].link
        BY <2>4, <1>5 DEF ExchangeAccept, ExchangeRefuse, SubmitEnds, SubmitReturns, SubmitRetries,
                         SubmitFails, TypeOK, Call, Request, NoCall
      <3> QED BY <3>1, <1>1 DEF Intended, TypeOK, Call, Request
    <2> QED BY <2>1, <2>2, <2>3, <2>4, Writers
  <1> QED BY <1>2, <1>3, <1>4, <1>5 DEF Intended

\* The exchange never fills an order beyond its quantity.
LEMMA FillsStep ==
    ASSUME TypeOK, TypeOK', Intended, FillsBounded, LocalTrue, HandlerTrue, [Next]_vars
    PROVE  FillsBounded'
  <1> USE LotAssumption DEF TypeOK, ExchOrder, Intent, OpenStatus
  <1> SUFFICES ASSUME NEW l \in Links
               PROVE  /\ exch'[l].cum <= intent'[l].qty
                      /\ exch'[l].status = "None" => exch'[l].cum = 0
                      /\ exch'[l].status \in OpenStatus => exch'[l].cum < intent'[l].qty
                      /\ exch'[l].status = "Filled" => exch'[l].cum = intent'[l].qty
                      /\ exch'[l].status = "PartiallyFilled" => exch'[l].cum > 0
    BY DEF FillsBounded
  <1>1. CASE exch'[l] = exch[l]
    <2>1. CASE Used(l)
      BY <1>1, <2>1, Stable DEF FillsBounded
    <2>2. CASE ~Used(l)
      BY <1>1, <2>2 DEF FillsBounded, Intended
    <2> QED BY <2>1, <2>2
  <1> SUFFICES ASSUME exch'[l] # exch[l]
               PROVE  /\ intent'[l].qty = intent[l].qty
                      /\ exch'[l].cum <= intent[l].qty
                      /\ exch'[l].status = "None" => exch'[l].cum = 0
                      /\ exch'[l].status \in OpenStatus => exch'[l].cum < intent[l].qty
                      /\ exch'[l].status = "Filled" => exch'[l].cum = intent[l].qty
                      /\ exch'[l].status = "PartiallyFilled" => exch'[l].cum > 0
    BY <1>1
  <1>2. ASSUME NEW k \in Links, ExchangeFill(k) PROVE k = l
    BY <1>2 DEF ExchangeFill
  <1>3. CASE ExchangeFill(l)
    BY <1>3 DEF ExchangeFill, ExchangeOpen, FillsBounded
  <1>4. ASSUME NEW k \in Links, NEW st \in {"Cancelled", "Rejected"}, ExchangeEnd(k, st)
        PROVE  /\ intent' = intent /\ exch'[l].status = st /\ exch'[l].cum = exch[l].cum
    BY <1>4 DEF ExchangeEnd
  <1>5. ASSUME NEW t \in Submitters, ExchangeAccept(t)
        PROVE  /\ intent' = intent /\ exch'[l] = [status |-> "New", cum |-> 0] /\ intent[l].qty > 0
    BY <1>5 DEF ExchangeAccept, Intended, NoCall
  <1>6. CASE \E k \in Links, st \in {"Cancelled", "Rejected"} : ExchangeEnd(k, st)
    BY <1>4, <1>6 DEF FillsBounded
  <1>7. CASE \E t \in Submitters : ExchangeAccept(t)
    BY <1>5, <1>7
  <1> QED BY <1>2, <1>3, <1>6, <1>7, Writers

\* Every event of the private stream stays true while it waits.
LEMMA StreamStep ==
    ASSUME TypeOK, TypeOK', Intended, FillsBounded, StreamTrue, [Next]_vars
    PROVE  StreamTrue'
  <1>1. ASSUME NEW j \in 1 .. Len(stream)
        PROVE  TrueAfter(stream[j].link, stream[j].status)
    <2>1. stream[j] \in Event
      BY DEF TypeOK
    <2>2. TrueOf(stream[j].link, stream[j].status)
      BY DEF StreamTrue
    <2> QED BY <2>1, <2>2, TrueStays DEF Event
  <1>2. ASSUME NEW i \in 1 .. Len(stream')
        PROVE  TrueAfter(stream'[i].link, stream'[i].status)
    <2>1. CASE stream' = stream \/ stream' = <<>>
      BY <2>1, <1>1, <1>2
    <2>2. ASSUME NEW l \in Links, NEW status \in Statuses, Publish(l, status), TrueAfter(l, status)
          PROVE  TrueAfter(stream'[i].link, stream'[i].status)
      <3>1. CASE stream' = stream
        BY <3>1, <1>1, <1>2
      <3>2. CASE stream' = Append(stream, [link |-> l, status |-> status])
        <4>1. \/ i \in 1 .. Len(stream) /\ stream'[i] = stream[i]
              \/ stream'[i] = [link |-> l, status |-> status]
          BY <3>2, <1>2 DEF TypeOK
        <4> QED BY <4>1, <1>1, <2>2
      <3> QED BY <2>2, <3>1, <3>2 DEF Publish
    <2>3. ASSUME NEW l \in Links, ExchangeFill(l)
          PROVE  TrueAfter(stream'[i].link, stream'[i].status)
      <3> DEFINE next == exch'[l].status
      <3>1. next \in {"Filled", "PartiallyFilled"} /\ exch'[l].cum > 0 /\ Publish(l, next)
        BY <2>3, LotAssumption DEF ExchangeFill, TypeOK, ExchOrder
      <3>2. TrueAfter(l, next)
        BY <3>1 DEF TrueAfter
      <3> HIDE DEF next
      <3> QED BY <3>1, <3>2, <2>2 DEF Statuses, OpenStatus, TerminalStatus
    <2>4. ASSUME NEW l \in Links, NEW st \in {"Cancelled", "Rejected"}, ExchangeEnd(l, st)
          PROVE  TrueAfter(stream'[i].link, stream'[i].status)
      <3>1. exch'[l].status = st /\ Publish(l, st)
        BY <2>4 DEF ExchangeEnd, TypeOK, ExchOrder
      <3>2. TrueAfter(l, st)
        BY <3>1 DEF TrueAfter
      <3> QED BY <3>1, <3>2, <2>2 DEF Statuses, TerminalStatus
    <2>5. ASSUME NEW t \in Submitters, ExchangeAccept(t)
          PROVE  TrueAfter(stream'[i].link, stream'[i].status)
      <3>1. call[t].link \in Links /\ Publish(call[t].link, "New")
        BY <2>5, CallTypes DEF ExchangeAccept, TypeOK
      <3>2. TrueAfter(call[t].link, "New")
        BY DEF TrueAfter
      <3> QED BY <3>1, <3>2, <2>2 DEF Statuses, OpenStatus
    <2>6. ASSUME NEW again \in BOOLEAN, HandleUpdate(again)
          PROVE  TrueAfter(stream'[i].link, stream'[i].status)
      <3>1. stream \in Seq(Event) /\ stream # <<>> /\ stream' \in {stream, Tail(stream)}
        BY <2>6 DEF HandleUpdate, TypeOK
      <3>2. CASE stream' = Tail(stream)
        <4>1. i + 1 \in 1 .. Len(stream) /\ stream'[i] = stream[i + 1]
          BY <3>1, <3>2, <1>2
        <4> QED BY <4>1, <1>1
      <3> QED BY <3>1, <3>2, <2>1
    <2> QED BY <2>1, <2>3, <2>4, <2>5, <2>6, Writers
  <1> QED BY <1>2 DEF StreamTrue, TrueOf, TrueAfter

\* Every order of a reconcile snapshot stays true while the cycle reads on.
LEMMA SnapshotStep ==
    ASSUME TypeOK, TypeOK', Intended, FillsBounded, FillsBounded', SnapshotTrue, [Next]_vars
    PROVE  SnapshotTrue'
  <1> USE DEF OpenStatus
  <1> SUFFICES ASSUME NEW l \in Links
               PROVE  /\ rec'.snapshot[l].status \in OpenStatus \union {"None"}
                      /\ rec'.snapshot[l].status # "None" => exch'[l].status # "None"
                      /\ rec'.snapshot[l].cum <= exch'[l].cum
                      /\ TrueAfter(l, rec'.snapshot[l].status)
    BY DEF SnapshotTrue, TrueOf, TrueAfter
  <1>1. exch[l] \in ExchOrder /\ exch'[l] \in ExchOrder /\ rec.snapshot[l] \in ExchOrder
    BY DEF TypeOK, Reconcile
  <1>2. CASE rec'.snapshot[l] = rec.snapshot[l]
    BY <1>1, <1>2, Stable, TrueStays, LotAssumption DEF SnapshotTrue, ExchOrder
  <1>3. CASE rec'.snapshot[l] = NoExchOrder
    BY <1>1, <1>3, LotAssumption DEF NoExchOrder, TrueAfter, ExchOrder
  <1>4. CASE rec'.snapshot[l] = exch[l] /\ l \in ExchangeOpen
    <2>1. TrueOf(l, exch[l].status)
      BY <1>4 DEF ExchangeOpen, FillsBounded, TrueOf
    <2> QED BY <1>1, <1>4, <2>1, Stable, TrueStays, LotAssumption DEF ExchangeOpen, ExchOrder
  <1>5. ASSUME NEW s \in Symbols, FetchOrders(s)
        PROVE  \/ rec'.snapshot[l] = rec.snapshot[l]
               \/ rec'.snapshot[l] = exch[l] /\ l \in ExchangeOpen
    BY <1>5 DEF FetchOrders, TypeOK, Reconcile
  <1> QED BY <1>2, <1>3, <1>4, <1>5, SnapshotWriters DEF NoSnapshot

\* The OrderManager is never told, and never claims, what did not happen.
LEMMA LocalStep ==
    ASSUME TypeOK, TypeOK', Intended, FillsBounded, FillsBounded', StreamTrue, SnapshotTrue,
           LocalTrue, HandlerTrue, [Next]_vars
    PROVE  LocalTrue'
  <1> USE DEF OpenStatus
  <1> SUFFICES ASSUME NEW l \in Links
               PROVE  local'[l].filled <= intent'[l].qty /\ TrueAfter(l, local'[l].status)
    BY DEF LocalTrue, TrueOf, TrueAfter
  <1>1. /\ local[l] \in ManagedOrder /\ local'[l] \in ManagedOrder
        /\ intent[l].qty \in 0 .. Lot /\ intent'[l].qty \in 0 .. Lot
    BY DEF TypeOK, Store, Intent
  <1>2. Used(l) \/ (~Tracked(local, l) /\ exch[l].status = "None")
    BY DEF Intended
  <1>3. Used(l) => intent'[l] = intent[l]
    BY Stable
  <1>4. TrueAfter(l, local[l].status)
    BY TrueStays DEF LocalTrue
  <1>5. CASE local'[l] = local[l]
    <2>1. CASE Used(l)
      BY <1>3, <1>4, <1>5, <2>1 DEF LocalTrue
    <2>2. CASE ~Used(l)
      <3>1. local'[l].filled <= intent'[l].qty
        <4>1. CASE intent' = intent
          BY <1>5, <4>1 DEF LocalTrue
        <4>2. ASSUME NEW s \in Symbols, RegisterEntry(s) PROVE local'[l].filled <= intent'[l].qty
          BY <1>1, <1>5, <4>2, <2>2, <1>2, RegisterEntryFacts, LotAssumption
             DEF RegisterEntry, RegisterIntent, LocalTrue, TypeOK, Store, Tracked, ManagedOrder
        <4>3. CASE PlaceExit
          BY <1>1, <1>5, <4>3, <2>2, <1>2, PlaceExitFacts, LotAssumption
             DEF PlaceExit, RegisterIntent, LocalTrue, TypeOK, Store, Tracked, ManagedOrder
        <4> QED BY <4>1, <4>2, <4>3, Writers
      <3> QED BY <3>1, <1>4, <1>5
    <2> QED BY <2>1, <2>2
  <1> SUFFICES ASSUME local'[l] # local[l]
               PROVE  local'[l].filled <= intent'[l].qty /\ TrueAfter(l, local'[l].status)
    BY <1>5
  <1>6. CASE local'[l].filled = 0 /\ local'[l].status \in {"Absent", "New"}
    BY <1>1, <1>6, LotAssumption DEF TrueAfter
  <1>7. ASSUME NEW s \in Symbols, RegisterEntry(s)
        PROVE  local'[l].filled = 0 /\ local'[l].status \in {"Absent", "New"}
    BY <1>7, RegisterEntryFacts DEF RegisterEntry, RegisterIntent, TypeOK, Store
  <1>8. CASE PlaceExit
    <2>1. local'[l].filled = 0 /\ local'[l].status \in {"Absent", "New"}
      BY <1>8, PlaceExitFacts DEF PlaceExit, RegisterIntent, TypeOK, Store
    <2> QED BY <2>1, <1>6
  <1>9. ASSUME NEW again \in BOOLEAN, HandleUpdate(again)
        PROVE  local'[l].filled <= intent'[l].qty /\ TrueAfter(l, local'[l].status)
    <2>1. /\ l = Head(stream).link /\ local'[l].status = Head(stream).status
          /\ local'[l].filled = intent[l].qty /\ intent' = intent
      BY <1>9 DEF HandleUpdate, ApplyOrderUpdate, TypeOK, Store, ManagedOrder
    <2> QED BY <2>1, <1>1, <1>9, HandleUpdateFacts, TrueStays
  <1>10. CASE ApplyOrders
    <2>1. /\ local'[l].status = rec.snapshot[l].status /\ local'[l].filled = rec.snapshot[l].cum
          /\ rec.snapshot[l].status # "None" /\ intent' = intent
      BY <1>10 DEF ApplyOrders, UpsertSnapshot
    <2>2. rec.snapshot[l].cum <= exch[l].cum /\ TrueOf(l, rec.snapshot[l].status)
      BY DEF SnapshotTrue
    <2>3. rec.snapshot[l].cum <= intent[l].qty
      BY <2>2, <1>1, LotAssumption DEF FillsBounded, TypeOK, ExchOrder, Reconcile
    <2> QED BY <2>1, <2>2, <2>3, TrueStays
  <1>11. CASE ReconcileFinish
    <2>1. /\ local'[l].status = "Cancelled" /\ local'[l].filled = local[l].filled
          /\ intent' = intent
      BY <1>1, <1>11 DEF ReconcileFinish, MarkClosedMissing, ManagedOrder
    <2> QED BY <2>1 DEF LocalTrue, TrueAfter
  <1>12. CASE local' = local \/ local' = EmptyStore
    BY <1>12, <1>6 DEF EmptyStore, AbsentOrder
  <1> QED BY <1>6, <1>7, <1>8, <1>9, <1>10, <1>11, <1>12, Writers

\* A step that is no placement builds no exit.
LEMMA NewExits ==
    ASSUME TypeOK, Intended, [Next]_vars, ~PlaceExit
    PROVE  /\ ReduceOnly' = ReduceOnly
           /\ \A x \in ReduceOnly : intent'[x] = intent[x]
  <1>1. CASE intent' = intent
    BY <1>1 DEF ReduceOnly
  <1>2. ASSUME NEW s \in Symbols, RegisterEntry(s)
        PROVE  /\ ReduceOnly' = ReduceOnly
               /\ \A x \in ReduceOnly : intent'[x] = intent[x]
    BY <1>2, RegisterEntryFacts DEF RegisterEntry, ReduceOnly, Used, TypeOK
  <1> QED BY <1>1, <1>2, Writers

\* A placement builds one exit, for the entry of the handler.
LEMMA PlacedExit ==
    ASSUME TypeOK, Intended, LocalTrue, HandlerTrue, PlaceExit
    PROVE  LET x == NextUnused(ExitLinks)
               e == handler.entry
           IN  /\ ReduceOnly' = ReduceOnly \union {x} /\ x \notin ReduceOnly
               /\ intent'[x] = [kind |-> "exit", symbol |-> intent[e].symbol,
                                qty |-> ExitQty(e), parent |-> e]
               /\ \A l \in Links \ {x} : intent'[l] = intent[l]
               /\ e # x
  BY PlaceExitFacts DEF PlaceExit, ReduceOnly, Used, TypeOK

\* Only a new id becomes an order of the strategy.
LEMMA OriginStays ==
    ASSUME TypeOK, Intended, LocalTrue, HandlerTrue, [Next]_vars, NEW l \in Links, Used(l),
           local'[l].origin = "strategy"
    PROVE  local[l].origin = "strategy"
  <1> USE DEF TypeOK, Store, ManagedOrder
  <1>1. CASE local' = local \/ local' = EmptyStore
    BY <1>1 DEF EmptyStore, AbsentOrder
  <1>2. ASSUME NEW s \in Symbols, RegisterEntry(s) PROVE local'[l] = local[l]
    BY <1>2, RegisterEntryFacts DEF RegisterEntry, RegisterIntent
  <1>3. CASE PlaceExit
    BY <1>3, PlaceExitFacts DEF PlaceExit, RegisterIntent
  <1>4. ASSUME NEW again \in BOOLEAN, HandleUpdate(again)
        PROVE  local'[l].origin = local[l].origin
    BY <1>4 DEF HandleUpdate, ApplyOrderUpdate
  <1>5. CASE ApplyOrders
    BY <1>5 DEF ApplyOrders, UpsertSnapshot
  <1>6. CASE ReconcileFinish
    BY <1>6 DEF ReconcileFinish, MarkClosedMissing
  <1> QED BY <1>1, <1>2, <1>3, <1>4, <1>5, <1>6, Writers

\* A fill the handler is working on stays a complete fill.
LEMMA HandlerStays ==
    ASSUME TypeOK, TypeOK', Intended, FillsBounded, StreamTrue, LocalTrue, HandlerTrue,
           ExitsSeen, [Next]_vars
    PROVE  HandlerTrue'
  <1> SUFFICES ASSUME handler'.step = "fill"
               PROVE  /\ intent'[handler'.entry].kind = "entry"
                      /\ exch'[handler'.entry].status = "Filled"
                      /\ handler'.entry \in seenFilled'
                      /\ local'[handler'.entry].origin = "strategy" =>
                           \A x \in ReduceOnly' : intent'[x].parent # handler'.entry
    BY DEF HandlerTrue
  <1>1. CASE handler' = handler /\ seenFilled' = seenFilled
    <2> DEFINE e == handler.entry
    <2>1. ~PlaceExit
      BY <1>1 DEF PlaceExit, Idle
    <2>2. e \in Links /\ intent[e].kind = "entry" /\ exch[e].status = "Filled" /\ e \in seenFilled
      BY <1>1 DEF HandlerTrue, TypeOK, Handler, Idle
    <2>3. intent'[e] = intent[e] /\ exch'[e] = exch[e]
      BY <2>2, Stable DEF Used, TerminalStatus
    <2>4. local'[e].origin = "strategy" => \A x \in ReduceOnly : intent[x].parent # e
      BY <1>1, <2>2, OriginStays DEF HandlerTrue, Used
    <2> QED BY <1>1, <2>1, <2>2, <2>3, <2>4, NewExits
  <1>2. ASSUME NEW again \in BOOLEAN, HandleUpdate(again)
        PROVE  /\ intent'[handler'.entry].kind = "entry"
               /\ exch'[handler'.entry].status = "Filled"
               /\ handler'.entry \in seenFilled'
               /\ local'[handler'.entry].origin = "strategy" =>
                    \A x \in ReduceOnly' : intent'[x].parent # handler'.entry
    <2> DEFINE e == Head(stream).link
    <2>1. /\ handler'.entry = e /\ NewFill(e, Head(stream).status) /\ e \notin ReduceOnly
          /\ seenFilled' = seenFilled \union {e} /\ intent' = intent /\ exch' = exch
      BY <1>2 DEF HandleUpdate, Idle, exchVars
    <2>2. e \in Links /\ TrueOf(e, "Filled")
      BY <1>2, <2>1, HandleUpdateFacts DEF NewFill
    <2>3. intent[e].kind = "entry" /\ Used(e)
      BY <2>1, <2>2 DEF NewFill, Intended, Used, ReduceOnly, TypeOK, Intent
    <2>4. local[e].origin = "strategy" => \A x \in ReduceOnly : intent[x].parent # e
      BY <2>1 DEF NewFill, ExitsSeen
    <2>5. local'[e].origin = "strategy" => local[e].origin = "strategy"
      BY <2>2, <2>3, OriginStays
    <2> QED BY <2>1, <2>2, <2>3, <2>4, <2>5 DEF TrueOf, ReduceOnly
  <1> QED BY <1>1, <1>2, Writers DEF Idle

\* A step keeps the relation of exits to fills and to _seen_filled.
LEMMA ExitsStep ==
    ASSUME TypeOK, TypeOK', Intended, FillsBounded, LocalTrue, HandlerTrue, ExitsSeen,
           ExitCoversFill, OneExitPerFill, [Next]_vars
    PROVE  ExitsSeen' /\ ExitCoversFill' /\ OneExitPerFill'
  <1> USE DEF ReduceOnly
  <1>1. ASSUME NEW x \in ReduceOnly
        PROVE  LET e == intent[x].parent
               IN  /\ e \in Links
                   /\ intent'[x] = intent[x] /\ intent'[e] = intent[e]
                   /\ exch'[e].status = "Filled" /\ intent[x].qty <= exch'[e].cum
                   /\ intent[x].symbol = intent[e].symbol
                   /\ local'[e].origin = "strategy" => e \in seenFilled'
    <2> DEFINE e == intent[x].parent
    <2>1. x \in Links /\ Used(x) /\ e \in Links
      BY DEF ExitsSeen, Used
    <2>2. /\ exch[e].status = "Filled" /\ intent[x].qty <= exch[e].cum
          /\ intent[x].symbol = intent[e].symbol
      BY DEF ExitCoversFill
    <2>3. Used(e)
      BY <2>1, <2>2 DEF Intended
    <2>4. intent'[x] = intent[x] /\ intent'[e] = intent[e] /\ exch'[e] = exch[e]
      BY <2>1, <2>2, <2>3, Stable DEF TerminalStatus
    <2>5. seenFilled \subseteq seenFilled' \/ local' = EmptyStore
      BY Writers DEF HandleUpdate
    <2>6. local'[e].origin = "strategy" => e \in seenFilled'
      BY <2>1, <2>3, <2>5, OriginStays DEF ExitsSeen, EmptyStore, AbsentOrder
    <2> QED BY <2>1, <2>2, <2>4, <2>6
  <1>2. CASE ~PlaceExit
    <2>1. ReduceOnly' = ReduceOnly
      BY <1>2, NewExits
    <2>2. ExitsSeen' /\ ExitCoversFill'
      BY <1>1, <2>1 DEF ExitsSeen, ExitCoversFill
    <2>3. OneExitPerFill'
      BY <1>1, <2>1 DEF OneExitPerFill
    <2> QED BY <2>2, <2>3
  <1>3. CASE PlaceExit
    <2> DEFINE x == NextUnused(ExitLinks)
               e == handler.entry
    <2>1. /\ ReduceOnly' = ReduceOnly \union {x} /\ x \notin ReduceOnly
          /\ intent'[x].parent = e /\ intent'[x].qty = ExitQty(e)
          /\ intent'[x].symbol = intent[e].symbol /\ intent'[e] = intent[e]
      BY <1>3, PlacedExit, PlaceExitFacts
    <2>2. /\ e \in Links /\ exch[e].status = "Filled" /\ e \in seenFilled
          /\ \A y \in ReduceOnly : intent[y].parent # e
      BY <1>3, PlaceExitFacts DEF PlaceExit, HandlerTrue
    <2>3. exch' = exch /\ seenFilled' = seenFilled
      BY <1>3 DEF PlaceExit, exchVars
    <2>4. ExitQty(e) <= exch[e].cum
      <3>1. exch[e].cum = intent[e].qty /\ exch[e].cum \in 0 .. Lot
        BY <2>2 DEF FillsBounded, TypeOK, ExchOrder
      <3>2. ExitQty(e) \in 1 .. intent[e].qty
        BY <1>3, PlaceExitFacts
      <3> QED BY <3>1, <3>2, LotAssumption
    <2>5. ExitsSeen'
      BY <1>1, <2>1, <2>2, <2>3 DEF ExitsSeen
    <2>6. ExitCoversFill'
      BY <1>1, <2>1, <2>2, <2>3, <2>4 DEF ExitCoversFill
    <2>7. OneExitPerFill'
      BY <1>1, <2>1, <2>2 DEF OneExitPerFill
    <2> QED BY <2>5, <2>6, <2>7
  <1> QED BY <1>2, <1>3

-----------------------------------------------------------------------------
(***************************************************************************)
(* The theorems.                                                           *)
(***************************************************************************)

\* The inductive invariant holds at the start.
LEMMA InitInvariant == Init => IInv
  <1> SUFFICES ASSUME Init PROVE IInv
    OBVIOUS
  <1>1. TypeOK
    BY TypeInit
  <1>2. Intended /\ FillsBounded /\ LocalTrue
    BY LotAssumption DEF Init, Intended, FillsBounded, LocalTrue, TrueOf, Tracked, Used, Unused,
       NoExchOrder, EmptyStore, AbsentOrder, OpenStatus, NoCall
  <1>3. StreamTrue /\ HandlerTrue
    BY DEF Init, StreamTrue, HandlerTrue, Idle
  <1>4. SnapshotTrue
    <2> SUFFICES ASSUME NEW l \in Links
                 PROVE  /\ rec.snapshot[l].status = "None"
                        /\ rec.snapshot[l].cum <= exch[l].cum
                        /\ TrueOf(l, rec.snapshot[l].status)
      BY DEF SnapshotTrue
    <2>1. rec.snapshot = NoSnapshot
      BY DEF Init, NotReconciling
    <2>2. rec.snapshot[l] = NoExchOrder /\ exch[l] = NoExchOrder
      BY <2>1 DEF Init, NoSnapshot
    <2>3. rec.snapshot[l].status = "None" /\ rec.snapshot[l].cum = 0 /\ exch[l].cum = 0
      BY <2>2 DEF NoExchOrder
    <2> QED BY <2>3 DEF TrueOf
  <1>5. ReduceOnly = {}
    BY DEF Init, ReduceOnly, Unused
  <1> QED
    BY <1>1, <1>2, <1>3, <1>4, <1>5 DEF IInv, ExitsSeen, ExitCoversFill, OneExitPerFill

\* The inductive invariant survives every step.
LEMMA NextInvariant == IInv /\ [Next]_vars => IInv'
  <1> SUFFICES ASSUME IInv, [Next]_vars PROVE IInv'
    OBVIOUS
  <1> USE DEF IInv
  <1>1. TypeOK'
    BY TypeStep
  <1>2. Intended'
    BY <1>1, IntendedStep
  <1>3. FillsBounded'
    BY <1>1, FillsStep
  <1>4. StreamTrue'
    BY <1>1, StreamStep
  <1>5. SnapshotTrue'
    BY <1>1, <1>3, SnapshotStep
  <1>6. LocalTrue'
    BY <1>1, <1>3, LocalStep
  <1>7. HandlerTrue'
    BY <1>1, HandlerStays
  <1>8. ExitsSeen' /\ ExitCoversFill' /\ OneExitPerFill'
    BY <1>1, ExitsStep
  <1> QED BY <1>1, <1>2, <1>3, <1>4, <1>5, <1>6, <1>7, <1>8

\* The inductive invariant always holds.
LEMMA Invariance == Spec => []IInv
  BY InitInvariant, NextInvariant, PTL DEF Spec

\* Every variable keeps its type: the model's bookkeeping of the runtime's
\* objects (OrderManager, block flags, requests, snapshots) is well formed.
THEOREM TypeCorrect == Spec => []TypeOK
  BY Invariance, PTL DEF IInv

\* No entry is ever given two protective exits, with any number of entries,
\* symbols, redeliveries, connection losses and restarts (_seen_filled).
THEOREM OneExit == Spec => []OneExitPerFill
  BY Invariance, PTL DEF IInv

\* Every protective exit belongs to a completely filled entry, in its symbol,
\* and asks for no more than was filled (_place_protective_exit_after_fill).
THEOREM ExitsCover == Spec => []ExitCoversFill
  BY Invariance, PTL DEF IInv

\* A fill or rejection the OrderManager reports has happened on the exchange.
THEOREM NeverAhead == Spec => []LocalNeverAhead
  <1>1. IInv => LocalNeverAhead
    BY DEF IInv, LocalTrue, TrueOf, LocalNeverAhead
  <1> QED BY <1>1, Invariance, PTL

\* The block flags of _reconcile_cycle are consistent after every step.
THEOREM BlockFlags == Spec => []BlocksConsistent
  <1>1. Init => BlocksConsistent
    BY DEF Init, NoBlocks, BlocksConsistent
  <1>2. TypeOK /\ BlocksConsistent /\ [Next]_vars => BlocksConsistent'
    <2> SUFFICES ASSUME TypeOK, BlocksConsistent, [Next]_vars PROVE BlocksConsistent'
      OBVIOUS
    <2>1. CASE blocks' = blocks \/ blocks' = NoBlocks
      BY <2>1 DEF BlocksConsistent, NoBlocks
    <2>2. CASE InspectDone
      BY <2>2 DEF InspectDone, TypeOK, BlockState, BlocksConsistent
    <2>3. CASE ReconcileFinish
      <3>1. PICK missing, closed, strays, orphans :
                blocks' = BlocksAfter(blocks, missing, closed, strays, orphans, ReduceOnly)
        BY <2>3 DEF ReconcileFinish
      <3> QED
        BY <3>1, MaxMismatchesAssumption
           DEF BlocksAfter, AfterSync, AfterMismatch, NextMismatch, NoBlocks, TypeOK, BlockState,
               BlocksConsistent
    <2>4. blocks' = blocks \/ blocks' = NoBlocks \/ InspectDone \/ ReconcileFinish
      BY DEF Next, vars, ExchangeStep, ExchangeFill, ExchangeEnd, ManualClose, StreamDrop,
           StartupStep, Boot, InspectPosition, InspectOrders, InspectFails, Crash,
           RefreshStep, RefreshStart, RefreshFetch, RefreshApply, RefreshFails, RegisterEntry,
           SubmitStep, SubmitEnds, ExchangeAccept, ExchangeRefuse, SubmitReturns, SubmitRetries,
           SubmitFails, HandlerStep, HandleUpdate, PlaceExit, SkipExit, ReconcileStep,
           ReconcileStart, FetchOrders, ApplyOrders, FetchPosition, FetchExits, ReconcileFails
    <2> QED BY <2>1, <2>2, <2>3, <2>4
  <1> QED BY <1>1, <1>2, TypeCorrect, PTL DEF Spec

-----------------------------------------------------------------------------
(***************************************************************************)
(* The order flow implements ExitDuty: each step is a step of it, or leaves *)
(* every duty alone.                                                       *)
(***************************************************************************)

\* The ids of the decision loop and of the handler are not mixed up, and an
\* id without an intent names no parent.
IdsApart ==
    \A l \in Links :
        /\ intent[l].kind = "unused" => intent[l].parent = NoLink
        /\ intent[l].kind = "entry" => l \in EntryLinks
        /\ intent[l].kind = "exit" => l \in ExitLinks

\* IdsApart is inductive, given the types.
LEMMA IdsApartStep == ASSUME TypeOK, IdsApart, [Next]_vars PROVE IdsApart'
  <1>1. CASE intent' = intent
    BY <1>1 DEF IdsApart
  <1>2. ASSUME NEW s \in Symbols, RegisterEntry(s) PROVE IdsApart'
    <2>1. NextUnused(EntryLinks) \in EntryLinks
      BY <1>2, Fresh, LinksAssumption DEF RegisterEntry
    <2> QED BY <1>2, <2>1, LinksAssumption DEF RegisterEntry, IdsApart, TypeOK
  <1>3. CASE PlaceExit
    <2>1. NextUnused(ExitLinks) \in ExitLinks
      BY <1>3, Fresh, LinksAssumption DEF PlaceExit
    <2> QED BY <1>3, <2>1, LinksAssumption DEF PlaceExit, IdsApart, TypeOK
  <1> QED BY <1>1, <1>2, <1>3, Writers

\* The ids stay apart.
LEMMA IdsApartAlways == Spec => []IdsApart
  <1>1. Init => IdsApart
    BY LinksAssumption DEF Init, IdsApart, Unused
  <1> QED BY <1>1, IdsApartStep, TypeCorrect, PTL DEF Spec

-----------------------------------------------------------------------------

\* The duty depends on these variables only.
LEMMA DutyFrame ==
    ASSUME UNCHANGED <<exch, stream, seenFilled, handler, intent>>, NEW e \in EntryLinks
    PROVE  DutyTo(e)' = DutyTo(e)
  BY DEF DutyTo, Protected, Announced, ReduceOnly

\* A step that changes a duty of one entry is a step of ExitDuty.
SameDuties(others) == \A e \in others : DutyTo(e)' = DutyTo(e)

SameExits == \A x \in ExitLinks : intent'[x].parent = intent[x].parent

\* No duty changes: a stutter.
LEMMA MapsToNothing ==
    ASSUME SameDuties(EntryLinks), SameExits
    PROVE  UNCHANGED Duty!vars
  BY DEF SameDuties, SameExits, Duty!vars

\* Some duties are lost.
LEMMA MapsToLost ==
    ASSUME SameExits,
           \A e \in EntryLinks : \/ DutyTo(e)' = DutyTo(e)
                                 \/ DutyTo(e) \in {"announced", "due"} /\ DutyTo(e)' = "lost"
    PROVE  [Duty!Next]_(Duty!vars)
  <1> DEFINE es == {e \in EntryLinks : DutyTo(e)' # DutyTo(e)}
             duty == [e \in EntryLinks |-> DutyTo(e)]
  <1>1. \A e \in es : duty[e] \in {"announced", "due"}
    OBVIOUS
  <1>2. duty' = [e \in EntryLinks |-> IF e \in es THEN "lost" ELSE duty[e]]
    OBVIOUS
  <1>3. Duty!Lost(es)
    BY <1>1, <1>2 DEF Duty!Lost, SameExits
  <1> QED BY <1>3 DEF Duty!Next

\* A fill makes one duty.
LEMMA MapsToFilled ==
    ASSUME NEW e \in EntryLinks, SameExits, SameDuties(EntryLinks \ {e}),
           DutyTo(e) = "none", DutyTo(e)' \in {"announced", "lost"}
    PROVE  Duty!Next
  <1>1. CASE DutyTo(e)' = "announced"
    <2>1. Duty!Filled(e, TRUE)
      BY <1>1 DEF Duty!Filled, SameExits, SameDuties
    <2> QED BY <2>1 DEF Duty!Next
  <1>2. CASE DutyTo(e)' = "lost"
    <2>1. Duty!Filled(e, FALSE)
      BY <1>2 DEF Duty!Filled, SameExits, SameDuties
    <2> QED BY <2>1 DEF Duty!Next
  <1> QED BY <1>1, <1>2

\* The handler takes a duty up.
LEMMA MapsToTakenUp ==
    ASSUME NEW e \in EntryLinks, SameExits, SameDuties(EntryLinks \ {e}),
           DutyTo(e) = "announced", DutyTo(e)' = "due"
    PROVE  Duty!Next
  <1>1. Duty!TakenUp(e)
    BY DEF Duty!TakenUp, SameExits, SameDuties
  <1> QED BY <1>1 DEF Duty!Next

\* An exit meets a duty.
LEMMA MapsToMet ==
    ASSUME NEW e \in EntryLinks, NEW x \in ExitLinks,
           \A y \in ExitLinks \ {x} : intent'[y].parent = intent[y].parent,
           intent[x].parent = NoLink, intent'[x].parent = e,
           SameDuties(EntryLinks \ {e}), DutyTo(e) = "due", DutyTo(e)' = "met"
    PROVE  Duty!Next
  <1>1. Duty!Met(e, x)
    BY DEF Duty!Met, SameDuties
  <1> QED BY <1>1 DEF Duty!Next

\* A step that leaves the orders and intents alone and makes nothing of the
\* stream at most loses duties: StreamDrop, SubmitFails and Crash.
LEMMA LosingMaps ==
    ASSUME exch' = exch, intent' = intent, stream' = <<>>,
           handler' = handler \/ handler' = Idle
    PROVE  [Duty!Next]_(Duty!vars)
  <1>1. SameExits
    BY DEF SameExits
  <1>2. ASSUME NEW e \in EntryLinks
        PROVE  \/ DutyTo(e)' = DutyTo(e)
               \/ DutyTo(e) \in {"announced", "due"} /\ DutyTo(e)' = "lost"
    <2>1. ~Announced(e)'
      BY DEF Announced
    <2>2. ReduceOnly' = ReduceOnly
      BY DEF ReduceOnly
    <2> QED BY <2>1, <2>2 DEF DutyTo, Protected, Idle
  <1> QED BY <1>1, <1>2, MapsToLost

\* What Publish makes of an event: others are as announced as before.
LEMMA PublishAnnounces ==
    ASSUME TypeOK, NEW l \in Links, NEW status \in Statuses, Publish(l, status),
           seenFilled' = seenFilled, NEW e \in EntryLinks, e # l \/ status # "Filled"
    PROVE  Announced(e)' = Announced(e)
  <1>1. CASE stream' = stream
    BY <1>1 DEF Announced
  <1>2. CASE stream' = Append(stream, [link |-> l, status |-> status])
    <2> DEFINE event == [link |-> e, status |-> "Filled"]
    <2>1. stream \in Seq(Event) /\ [link |-> l, status |-> status] \in Event
      BY DEF TypeOK, Event
    <2>2. [link |-> l, status |-> status] # event
      OBVIOUS
    <2>3. \A i \in DOMAIN stream : i \in DOMAIN stream' /\ stream'[i] = stream[i]
      BY <1>2, <2>1
    <2>4. \A i \in DOMAIN stream' :
              i \in DOMAIN stream \/ stream'[i] = [link |-> l, status |-> status]
      BY <1>2, <2>1
    <2>5. (\E i \in DOMAIN stream' : stream'[i] = event)
             <=> (\E i \in DOMAIN stream : stream[i] = event)
      BY <2>2, <2>3, <2>4
    <2> QED BY <2>5 DEF Announced
  <1> QED BY <1>1, <1>2 DEF Publish

\* A fill on the exchange is the first step of a duty, if it is the last fill
\* of an entry.
LEMMA ExchangeFillMaps ==
    ASSUME IInv, IdsApart, NEW l \in Links, ExchangeFill(l)
    PROVE  [Duty!Next]_(Duty!vars)
  <1> DEFINE next == exch'[l].status
  <1>1. /\ intent' = intent /\ seenFilled' = seenFilled /\ handler' = handler
        /\ ReduceOnly' = ReduceOnly
        /\ SameExits
    BY DEF ExchangeFill, ReduceOnly, SameExits
  <1>2. /\ next \in {"Filled", "PartiallyFilled"}
        /\ Publish(l, next)
        /\ \A k \in Links \ {l} : exch'[k] = exch[k]
        /\ exch[l].status \in OpenStatus
    BY DEF ExchangeFill, IInv, TypeOK, ExchangeOpen
  <1>3. exch[l].status # "Filled"
    BY <1>2 DEF OpenStatus
  <1>4. \A e \in EntryLinks \ {l} : DutyTo(e)' = DutyTo(e)
    BY <1>1, <1>2, PublishAnnounces, LinksAssumption
       DEF DutyTo, Protected, IInv, Statuses, OpenStatus, TerminalStatus
  <1>5. CASE l \notin EntryLinks
    <2>1. SameDuties(EntryLinks)
      BY <1>4, <1>5 DEF SameDuties
    <2> QED BY <1>1, <2>1, MapsToNothing
  <1>6. CASE l \in EntryLinks /\ Protected(l)
    <2>1. DutyTo(l) = "met" /\ DutyTo(l)' = "met"
      BY <1>1, <1>6 DEF DutyTo, Protected
    <2>2. SameDuties(EntryLinks)
      BY <1>4, <2>1 DEF SameDuties
    <2> QED BY <1>1, <2>2, MapsToNothing
  <1>7. CASE l \in EntryLinks /\ ~Protected(l)
    <2>1. DutyTo(l) = "none"
      BY <1>3, <1>7 DEF DutyTo, Protected
    <2>2. handler # [step |-> "fill", entry |-> l]
      BY <1>3 DEF IInv, HandlerTrue
    <2>3. CASE next = "PartiallyFilled"
      <3>1. DutyTo(l)' = "none"
        BY <1>1, <1>7, <2>3 DEF DutyTo, Protected
      <3>2. SameDuties(EntryLinks)
        BY <1>4, <2>1, <3>1 DEF SameDuties
      <3> QED BY <1>1, <3>2, MapsToNothing
    <2>4. CASE next = "Filled"
      <3>1. DutyTo(l)' \in {"announced", "lost"}
        BY <1>1, <1>7, <2>2, <2>4 DEF DutyTo, Protected
      <3> QED BY <1>1, <1>4, <1>7, <2>1, <3>1, MapsToFilled DEF SameDuties
    <2> QED BY <1>2, <2>3, <2>4
  <1> QED BY <1>5, <1>6, <1>7

\* Any other event of the exchange says nothing of a fill.
LEMMA OtherEventsMap ==
    ASSUME TypeOK, NEW l \in Links, NEW status \in Statuses, Publish(l, status),
           status # "Filled", exch'[l].status # "Filled", exch[l].status # "Filled",
           \A k \in Links \ {l} : exch'[k] = exch[k],
           UNCHANGED <<intent, seenFilled, handler>>
    PROVE  UNCHANGED Duty!vars
  <1>1. SameExits /\ ReduceOnly' = ReduceOnly
    BY DEF SameExits, ReduceOnly
  <1>2. ASSUME NEW e \in EntryLinks PROVE DutyTo(e)' = DutyTo(e)
    <2>1. Announced(e)' = Announced(e)
      BY PublishAnnounces
    <2>2. exch'[e].status = "Filled" <=> exch[e].status = "Filled"
      BY LinksAssumption
    <2> QED BY <1>1, <2>1, <2>2 DEF DutyTo, Protected
  <1> QED BY <1>1, <1>2, MapsToNothing DEF SameDuties

\* Building an entry owes nothing yet.
LEMMA RegisterEntryMaps ==
    ASSUME IInv, NEW s \in Symbols, RegisterEntry(s)
    PROVE  UNCHANGED Duty!vars
  <1> DEFINE l == NextUnused(EntryLinks)
  <1>1. l \in EntryLinks /\ l \in Links /\ ~Used(l)
    BY Fresh, LinksAssumption DEF RegisterEntry
  <1>2. /\ \A k \in Links \ {l} : intent'[k] = intent[k]
        /\ intent'[l].kind = "entry"
        /\ UNCHANGED <<exch, stream, seenFilled, handler>>
    BY <1>1 DEF RegisterEntry, IInv, TypeOK, exchVars
  <1>3. ReduceOnly' = ReduceOnly /\ l \notin ReduceOnly
    BY <1>1, <1>2 DEF ReduceOnly, Used
  <1>4. SameExits
    BY <1>1, <1>2, LinksAssumption DEF SameExits
  <1>5. \A x \in ReduceOnly : intent'[x] = intent[x]
    BY <1>2, <1>3 DEF ReduceOnly
  <1>6. SameDuties(EntryLinks)
    BY <1>2, <1>3, <1>5 DEF SameDuties, DutyTo, Protected, Announced
  <1> QED BY <1>4, <1>6, MapsToNothing

\* The stream without its head announces what it announced before, but for
\* the head.
LEMMA HandlingAnnounces ==
    ASSUME TypeOK, stream # <<>>, stream' \in {stream, Tail(stream)}, NEW e \in EntryLinks
    PROVE  LET event == [link |-> e, status |-> "Filled"]
           IN  /\ (\E i \in DOMAIN stream' : stream'[i] = event)
                     => \E i \in DOMAIN stream : stream[i] = event
               /\ (Head(stream).link # e \/ Head(stream).status # "Filled")
                     /\ (\E i \in DOMAIN stream : stream[i] = event)
                     => \E i \in DOMAIN stream' : stream'[i] = event
  <1> DEFINE event == [link |-> e, status |-> "Filled"]
  <1>1. stream \in Seq(Event)
    BY DEF TypeOK
  <1>2. CASE stream' = stream
    BY <1>2
  <1>3. CASE stream' = Tail(stream)
    <2>1. \A i \in DOMAIN stream' : i + 1 \in DOMAIN stream /\ stream'[i] = stream[i + 1]
      BY <1>1, <1>3
    <2>2. \A i \in DOMAIN stream : i # 1 => i - 1 \in DOMAIN stream' /\ stream'[i - 1] = stream[i]
      BY <1>1, <1>3
    <2>3. Head(stream) = stream[1]
      BY <1>1
    <2>4. (Head(stream).link # e \/ Head(stream).status # "Filled") => stream[1] # event
      BY <2>3
    <2> QED BY <2>1, <2>2, <2>4
  <1> QED BY <1>2, <1>3

\* Handling an event takes a duty up, or loses it with its last announcement.
LEMMA HandleUpdateMaps ==
    ASSUME IInv, IdsApart, NEW again \in BOOLEAN, HandleUpdate(again)
    PROVE  [Duty!Next]_(Duty!vars)
  <1> PICK l \in Links, status \in Statuses :
          l = Head(stream).link /\ status = Head(stream).status
    BY HandleUpdateFacts DEF IInv
  <1>1. /\ UNCHANGED <<exch, intent>>
        /\ handler = Idle
        /\ stream # <<>>
        /\ stream' \in {stream, Tail(stream)}
        /\ ReduceOnly' = ReduceOnly
        /\ SameExits
    BY DEF HandleUpdate, HandlerFree, exchVars, ReduceOnly, SameExits
  <1>2. /\ l \in Links
        /\ status = "Filled" => exch[l].status = "Filled"
        /\ stream \in Seq(Event)
    BY HandleUpdateFacts DEF IInv, TrueOf, TypeOK
  <1>3. \A e : handler # [step |-> "fill", entry |-> e]
    BY <1>1 DEF Idle
  <1>4. CASE NewFill(l, status)
    <2>1. /\ status = "Filled" /\ l \notin seenFilled
          /\ seenFilled' = seenFilled \union {l}
          /\ handler' = IF l \notin ReduceOnly THEN [step |-> "fill", entry |-> l] ELSE Idle
      BY <1>4 DEF HandleUpdate, NewFill
    <2>2. \A e \in EntryLinks \ {l} : Announced(e)' = Announced(e)
      BY <1>1, <2>1, HandlingAnnounces DEF Announced, IInv
    <2>3. \A e \in EntryLinks \ {l} : handler' # [step |-> "fill", entry |-> e]
      BY <2>1 DEF Idle
    <2>4. SameDuties(EntryLinks \ {l})
      BY <1>1, <1>3, <2>2, <2>3 DEF SameDuties, DutyTo, Protected
    <2>5. CASE l \notin EntryLinks
      <3>1. SameDuties(EntryLinks)
        BY <2>4, <2>5 DEF SameDuties
      <3> QED BY <1>1, <3>1, MapsToNothing
    <2>6. CASE l \in EntryLinks /\ Protected(l)
      <3>1. DutyTo(l)' = DutyTo(l)
        BY <1>1, <2>6 DEF DutyTo, Protected
      <3>2. SameDuties(EntryLinks)
        BY <2>4, <3>1 DEF SameDuties
      <3> QED BY <1>1, <3>2, MapsToNothing
    <2>7. CASE l \in EntryLinks /\ ~Protected(l)
      <3>1. Announced(l)
        <4>1. 1 \in DOMAIN stream /\ stream[1] = Head(stream) /\ stream[1] \in Event
          BY <1>1, <1>2
        <4>2. stream[1] = [link |-> l, status |-> "Filled"]
          BY <2>1, <4>1 DEF Event
        <4> QED BY <2>1, <4>1, <4>2 DEF Announced
      <3>2. l \notin ReduceOnly
        BY <2>7, LinksAssumption DEF ReduceOnly, IdsApart
      <3>3. DutyTo(l) = "announced"
        BY <1>2, <1>3, <2>1, <2>7, <3>1 DEF DutyTo
      <3>4. DutyTo(l)' = "due"
        BY <1>1, <1>2, <2>1, <2>7, <3>2 DEF DutyTo, Protected
      <3> QED BY <1>1, <2>4, <2>7, <3>3, <3>4, MapsToTakenUp
    <2> QED BY <2>5, <2>6, <2>7
  <1>5. CASE ~NewFill(l, status)
    <2>1. seenFilled' = seenFilled /\ handler' = Idle
      BY <1>5 DEF HandleUpdate
    <2>2. \A e \in EntryLinks : Announced(e)' => Announced(e)
      BY <1>1, <2>1, HandlingAnnounces DEF Announced, IInv
    <2>3. \A e \in EntryLinks : handler' # [step |-> "fill", entry |-> e]
      BY <2>1 DEF Idle
    <2>4. \A e \in EntryLinks : \/ DutyTo(e)' = DutyTo(e)
                                \/ DutyTo(e) = "announced" /\ DutyTo(e)' = "lost"
      BY <1>1, <1>3, <2>2, <2>3 DEF DutyTo, Protected
    <2> QED BY <1>1, <2>4, MapsToLost
  <1> QED BY <1>4, <1>5

\* Placing the exit meets the duty.
LEMMA PlaceExitMaps ==
    ASSUME IInv, IdsApart, PlaceExit
    PROVE  Duty!Next
  <1> PICK e \in EntryLinks, x \in ExitLinks : e = handler.entry /\ x = NextUnused(ExitLinks)
    BY PlaceExitFacts, Fresh, LinksAssumption DEF PlaceExit, IInv, IdsApart
  <1>1. /\ ReduceOnly' = ReduceOnly \union {x} /\ x \notin ReduceOnly
        /\ intent'[x].parent = e
        /\ \A l \in Links \ {x} : intent'[l] = intent[l]
    BY PlacedExit DEF IInv
  <1>2. x \in ExitLinks /\ x \in Links /\ intent[x].parent = NoLink
    BY Fresh, LinksAssumption DEF PlaceExit, IdsApart, Used
  <1>3. e \in EntryLinks /\ e \in Links
    BY PlaceExitFacts DEF IInv, IdsApart
  <1>4. handler = [step |-> "fill", entry |-> e]
    BY DEF PlaceExit, IInv, TypeOK, Handler, Idle
  <1>5. /\ UNCHANGED <<exch, stream, seenFilled>>
        /\ handler' = Idle
    BY DEF PlaceExit, exchVars
  <1>6. exch[e].status = "Filled" /\ ~Protected(e)
    BY DEF PlaceExit, IInv, HandlerTrue, Protected
  <1>7. Protected(e)' /\ \A k \in EntryLinks \ {e} : Protected(k)' = Protected(k)
    <2>1. \A y \in ReduceOnly : intent'[y] = intent[y]
      BY <1>1 DEF ReduceOnly
    <2> QED BY <1>1, <2>1 DEF Protected
  <1>8. DutyTo(e) = "due" /\ DutyTo(e)' = "met"
    BY <1>4, <1>6, <1>7 DEF DutyTo
  <1>9. ASSUME NEW k \in EntryLinks \ {e} PROVE DutyTo(k)' = DutyTo(k)
    <2>1. Announced(k)' = Announced(k)
      BY <1>5 DEF Announced
    <2>2. /\ handler # [step |-> "fill", entry |-> k]
          /\ handler' # [step |-> "fill", entry |-> k]
      BY <1>4, <1>5 DEF Idle
    <2> QED BY <1>5, <1>7, <2>1, <2>2 DEF DutyTo
  <1>10. \A y \in ExitLinks \ {x} : intent'[y].parent = intent[y].parent
    BY <1>1, LinksAssumption
  <1> QED BY <1>1, <1>2, <1>3, <1>8, <1>9, <1>10, MapsToMet DEF SameDuties

\* Skipping the exit loses the duty: the event is in _seen_filled.
LEMMA SkipExitMaps ==
    ASSUME IInv, SkipExit
    PROVE  [Duty!Next]_(Duty!vars)
  <1> PICK e : e = handler.entry
    OBVIOUS
  <1>1. /\ UNCHANGED <<exch, stream, seenFilled, intent>>
        /\ handler' = Idle
        /\ ReduceOnly' = ReduceOnly
        /\ SameExits
    BY DEF SkipExit, exchVars, ReduceOnly, SameExits
  <1>2. handler = [step |-> "fill", entry |-> e] /\ e \in seenFilled
    BY DEF SkipExit, IInv, TypeOK, Handler, Idle, HandlerTrue
  <1>3. \A k \in EntryLinks : Announced(k)' = Announced(k) /\ ~Announced(e)
    BY <1>1, <1>2 DEF Announced
  <1>4. \A k \in EntryLinks : handler' # [step |-> "fill", entry |-> k]
    BY <1>1 DEF Idle
  <1>5. \A k \in EntryLinks : handler = [step |-> "fill", entry |-> k] => k = e
    BY <1>2
  <1>6. \A k \in EntryLinks : Protected(k)' = Protected(k)
    BY <1>1 DEF Protected
  <1>7. ASSUME NEW k \in EntryLinks
        PROVE  \/ DutyTo(k)' = DutyTo(k)
               \/ DutyTo(k) = "due" /\ DutyTo(k)' = "lost"
    BY <1>1, <1>3, <1>4, <1>5, <1>6 DEF DutyTo
  <1> QED BY <1>1, <1>7, MapsToLost

\* Every step of the order flow is a step of ExitDuty or leaves it alone.
LEMMA StepMaps == ASSUME IInv, IdsApart, [Next]_vars PROVE [Duty!Next]_(Duty!vars)
  <1>1. CASE UNCHANGED <<exch, stream, seenFilled, handler, intent>>
    <2>1. SameExits /\ SameDuties(EntryLinks)
      BY <1>1, DutyFrame DEF SameExits, SameDuties
    <2> QED BY <2>1, MapsToNothing
  <1>2. ASSUME NEW l \in Links, ExchangeFill(l) PROVE [Duty!Next]_(Duty!vars)
    BY <1>2, ExchangeFillMaps
  <1>3. ASSUME NEW l \in Links, NEW status \in {"Cancelled", "Rejected"}, ExchangeEnd(l, status)
        PROVE  [Duty!Next]_(Duty!vars)
    <2>1. /\ exch'[l].status = status /\ exch[l].status # "Filled"
          /\ \A k \in Links \ {l} : exch'[k] = exch[k]
          /\ Publish(l, status) /\ status \in Statuses
          /\ UNCHANGED <<intent, seenFilled, handler>>
      BY <1>3 DEF ExchangeEnd, ExchangeOpen, OpenStatus, TerminalStatus, Statuses, IInv, TypeOK
    <2> QED BY <2>1, OtherEventsMap DEF IInv
  <1>4. ASSUME NEW t \in Submitters, ExchangeAccept(t) PROVE [Duty!Next]_(Duty!vars)
    <2> DEFINE l == call[t].link
    <2>1. l \in Links
      BY <1>4 DEF ExchangeAccept, IInv, TypeOK, Call, NoCall, Request
    <2>2. /\ exch'[l].status = "New" /\ exch[l].status # "Filled"
          /\ \A k \in Links \ {l} : exch'[k] = exch[k]
          /\ Publish(l, "New") /\ "New" \in Statuses
          /\ UNCHANGED <<intent, seenFilled, handler>>
      BY <1>4, <2>1 DEF ExchangeAccept, OpenStatus, Statuses, IInv, TypeOK
    <2> QED BY <2>1, <2>2, OtherEventsMap DEF IInv
  <1>5. ASSUME NEW s \in Symbols, RegisterEntry(s) PROVE [Duty!Next]_(Duty!vars)
    BY <1>5, RegisterEntryMaps
  <1>6. ASSUME NEW again \in BOOLEAN, HandleUpdate(again) PROVE [Duty!Next]_(Duty!vars)
    BY <1>6, HandleUpdateMaps
  <1>7. CASE PlaceExit
    BY <1>7, PlaceExitMaps
  <1>8. CASE SkipExit
    BY <1>8, SkipExitMaps
  <1>9. CASE \/ StreamDrop \/ Crash
             \/ \E t \in Submitters : SubmitFails(t) /\ stream' = <<>>
    BY <1>9, LosingMaps DEF StreamDrop, Crash, SubmitFails, exchVars
  <1>10. \/ UNCHANGED <<exch, stream, seenFilled, handler, intent>>
         \/ \E l \in Links : ExchangeFill(l)
         \/ \E l \in Links, status \in {"Cancelled", "Rejected"} : ExchangeEnd(l, status)
         \/ \E t \in Submitters : ExchangeAccept(t)
         \/ \E s \in Symbols : RegisterEntry(s)
         \/ \E again \in BOOLEAN : HandleUpdate(again)
         \/ PlaceExit \/ SkipExit \/ StreamDrop \/ Crash
         \/ \E t \in Submitters : SubmitFails(t) /\ stream' = <<>>
    BY DEF Next, vars, exchVars, ExchangeStep, ManualClose,
           StartupStep, Boot, InspectPosition, InspectOrders, InspectDone, InspectFails,
           RefreshStep, RefreshStart, RefreshFetch, RefreshApply, RefreshFails,
           SubmitStep, SubmitEnds, ExchangeRefuse, SubmitReturns, SubmitRetries,
           SubmitFails, HandlerStep, ReconcileStep,
           ReconcileStart, FetchOrders, ApplyOrders, FetchPosition, FetchExits,
           ReconcileFinish, ReconcileFails
  <1> QED BY <1>1, <1>2, <1>3, <1>4, <1>5, <1>6, <1>7, <1>8, <1>9, <1>10

\* The order flow implements ExitDuty, but for the promise that every duty is
\* discharged: whatever is lost, delivered twice, resurrected by a stale
\* snapshot or restarted, a fill is taken up at most once
\* (_strategy_order_outcomes._seen_filled) and then gets its one exit, or is
\* given up for good.
THEOREM Refinement == Spec => Duty!SafeSpec
  <1>1. Init => Duty!Init
    BY LinksAssumption
       DEF Init, Duty!Init, DutyTo, Protected, ReduceOnly, Unused, NoExchOrder
  <1>2. IInv /\ IdsApart /\ [Next]_vars => [Duty!Next]_(Duty!vars)
    BY StepMaps
  <1> QED BY <1>1, <1>2, Invariance, IdsApartAlways, PTL DEF Spec, Duty!SafeSpec

-----------------------------------------------------------------------------
(***************************************************************************)
(* Blocks are lifted only by a cycle that has seen every symbol safe.      *)
(***************************************************************************)

\* What a cycle that reads positions has learnt: a symbol read flat, or read
\* to be covered, has been safe since the cycle started.
SeenSafe ==
    /\ safe \subseteq Symbols
    /\ rec.step = "positions" =>
        /\ rec.todo \subseteq rec.todoExits
        /\ \A s \in Symbols \ rec.todo : s \in rec.held \/ s \in safe
        /\ rec.covered \subseteq safe

\* Which actions write the reconcile cycle and the blocks.
LEMMA CycleWriters ==
    ASSUME TypeOK, [Next]_vars
    PROVE  /\ \/ rec' = rec
              \/ rec'.step # "positions"
              \/ ApplyOrders
              \/ \E s \in Symbols : FetchPosition(s) \/ FetchExits(s)
           /\ \/ blocks' = blocks
              \/ blocks' = [blocks EXCEPT !.startup = @ \/ dirty]
              \/ ~Running'
              \/ ReconcileFinish
  <1> USE DEF exchVars, startVars
  <1>1. CASE ExchangeStep \/ StreamDrop
    BY <1>1 DEF ExchangeStep, ExchangeFill, ExchangeEnd, ManualClose, StreamDrop
  <1>2. CASE StartupStep
    BY <1>2 DEF StartupStep, Boot, InspectPosition, InspectOrders, InspectDone, InspectFails
  <1>3. CASE Crash
    BY <1>3 DEF Crash, NotReconciling, Running
  <1>4. CASE RefreshStep
    BY <1>4 DEF RefreshStep, RefreshStart, RefreshFetch, RefreshApply, RefreshFails
  <1>5. CASE \E s \in Symbols : RegisterEntry(s)
    BY <1>5 DEF RegisterEntry
  <1>6. CASE SubmitStep
    BY <1>6 DEF SubmitStep, SubmitEnds, ExchangeAccept, ExchangeRefuse, SubmitReturns,
                SubmitRetries, SubmitFails
  <1>7. CASE HandlerStep
    BY <1>7 DEF HandlerStep, HandleUpdate, PlaceExit, SkipExit
  <1>8. CASE ReconcileStep
    <2>1. CASE ReconcileStart
      BY <2>1 DEF ReconcileStart, NotReconciling
    <2>2. ASSUME NEW s \in Symbols, FetchOrders(s)
          PROVE  rec'.step # "positions" /\ blocks' = blocks
      BY <2>2 DEF FetchOrders, TypeOK, Reconcile
    <2>3. CASE ApplyOrders \/ \E s \in Symbols : FetchPosition(s) \/ FetchExits(s)
      BY <2>3 DEF ApplyOrders, FetchPosition, FetchExits
    <2>4. CASE ReconcileFinish
      BY <2>4 DEF ReconcileFinish, NotReconciling
    <2>5. CASE ReconcileFails
      BY <2>5 DEF ReconcileFails, NotReconciling
    <2> QED BY <1>8, <2>1, <2>2, <2>3, <2>4, <2>5 DEF ReconcileStep
  <1>9. CASE UNCHANGED vars
    BY <1>9 DEF vars
  <1> QED BY <1>1, <1>2, <1>3, <1>4, <1>5, <1>6, <1>7, <1>8, <1>9 DEF Next

\* SeenSafe is inductive, given the types.
LEMMA SeenSafeStep ==
    ASSUME TypeOK, SeenSafe, [HistoryNext]_<<vars, safe>>
    PROVE  SeenSafe'
  <1>1. CASE UNCHANGED <<vars, safe>>
    BY <1>1 DEF vars, SeenSafe
  <1>2. CASE HistoryNext
    <2>1. [Next]_vars
      BY <1>2 DEF HistoryNext
    <2> safe' \subseteq Symbols
      BY <1>2 DEF HistoryNext, SafeNow, SeenSafe
    <2>2. rec.step = "positions" /\ rec'.step = "positions" => safe \subseteq safe'
      BY <1>2 DEF HistoryNext
    <2>3. rec'.step = "positions" => SafeNow' \subseteq safe'
      BY <1>2 DEF HistoryNext
    <2>4. CASE rec' = rec
      BY <2>2, <2>4 DEF SeenSafe
    <2>5. CASE rec'.step # "positions"
      BY <2>5 DEF SeenSafe
    <2>6. CASE ApplyOrders
      BY <2>6 DEF SeenSafe, ApplyOrders, NotReconciling
    <2>7. ASSUME NEW s \in Symbols, FetchPosition(s) PROVE SeenSafe'
      <3>1. /\ rec.step = "positions" /\ rec'.step = "positions"
            /\ rec'.todo = rec.todo \ {s}
            /\ rec'.held = IF position[s] > 0 THEN rec.held \union {s} ELSE rec.held
            /\ rec'.todoExits = rec.todoExits
            /\ rec'.covered = rec.covered
            /\ s \in rec.todo
        BY <2>7 DEF FetchPosition, TypeOK, Reconcile
      <3>2. position[s] = 0 \/ s \in rec'.held
        BY <2>7, <3>1 DEF TypeOK
      <3>3. position' = position
        BY <2>7 DEF FetchPosition, exchVars
      <3>4. s \in rec'.held \/ s \in safe'
        BY <2>3, <3>1, <3>2, <3>3 DEF SafeNow, Unprotected
      <3> QED BY <2>2, <3>1, <3>4 DEF SeenSafe
    <2>8. ASSUME NEW s \in Symbols, FetchExits(s) PROVE SeenSafe'
      <3>1. /\ rec.step = "positions" /\ rec'.step = "positions"
            /\ rec'.todo = rec.todo /\ rec'.held = rec.held
            /\ rec'.todoExits = rec.todoExits \ {s} /\ s \notin rec.todo
            /\ rec'.covered = IF ExchangeOpen \intersect LinksOf(s) \intersect ReduceOnly # {}
                              THEN rec.covered \union {s} ELSE rec.covered
        BY <2>8 DEF FetchExits, TypeOK, Reconcile
      <3>2. UNCHANGED <<exch, position, intent>>
        BY <2>8 DEF FetchExits, exchVars
      <3>3. s \notin rec'.covered \/ s \in rec.covered \/ s \in SafeNow'
        <4>1. ExchangeOpen' = ExchangeOpen /\ LinksOf(s)' = LinksOf(s) /\ ReduceOnly' = ReduceOnly
          BY <3>2 DEF ExchangeOpen, LinksOf, ReduceOnly
        <4> QED BY <3>1, <4>1 DEF SafeNow, Unprotected
      <3> QED BY <2>2, <2>3, <3>1, <3>3 DEF SeenSafe
    <2> QED BY <2>1, <2>4, <2>5, <2>6, <2>7, <2>8, CycleWriters
  <1> QED BY <1>1, <1>2

\* A cycle that lifts a block has no orphan.
LEMMA LiftingLeavesNoOrphan ==
    ASSUME NEW b \in BlockState, NEW missing, NEW closed, NEW strays, NEW orphans, NEW ids,
           LET after == BlocksAfter(b, missing, closed, strays, orphans, ids)
           IN  (b.startup /\ ~after.startup) \/ (b.orphan /\ ~after.orphan)
    PROVE  orphans = {}
  BY DEF BlocksAfter, RecoveredByClosing, RecoveredBySync, AfterMismatch, BlockState

\* A step that lifts a block ends a cycle that has seen every symbol safe.
LEMMA LiftingStep ==
    ASSUME TypeOK, SeenSafe, [HistoryNext]_<<vars, safe>>, LiftsBlock
    PROVE  safe = Symbols
  <1>1. [Next]_vars
    BY DEF HistoryNext, vars
  <1>2. blocks \in BlockState /\ dirty \in BOOLEAN
    BY DEF TypeOK
  <1>3. ReconcileFinish
    BY <1>1, <1>2, CycleWriters DEF LiftsBlock, BlockState
  <1> DEFINE localExits == {s \in Symbols :
                               OpenOrders(local) \intersect LinksOf(s) \intersect ReduceOnly # {}}
  <1>4. Orphaned(rec.held, localExits, rec.covered) = {}
    BY <1>2, <1>3, LiftingLeavesNoOrphan DEF ReconcileFinish, LiftsBlock
  <1>5. rec.held \subseteq rec.covered
    BY <1>4 DEF Orphaned
  <1>6. rec.step = "positions" /\ rec.todoExits = {}
    BY <1>3 DEF ReconcileFinish
  <1> QED BY <1>5, <1>6 DEF SeenSafe

\* A block goes only in a cycle during which every symbol was, at some instant
\* since it began to read positions, flat or covered by a reduce-only order on
\* the exchange (_reconcile_cycle, which reads position after position and order list after
\* order list while the exchange goes on).
THEOREM BlockLifting == HistorySpec => BlockLiftedOnlyWhenSafe
  <1>1. HistoryInit => Init /\ SeenSafe
    BY DEF HistoryInit, Init, SeenSafe, NotReconciling
  <1>2. [HistoryNext]_<<vars, safe>> => [Next]_vars
    BY DEF HistoryNext, vars
  <1>3. HistorySpec => Spec
    BY <1>1, <1>2, PTL DEF HistorySpec, Spec
  <1>4. HistorySpec => []TypeOK
    BY <1>3, TypeCorrect, PTL
  <1>5. TypeOK /\ SeenSafe /\ [HistoryNext]_<<vars, safe>> => SeenSafe'
    BY SeenSafeStep
  <1>6. TypeOK /\ SeenSafe /\ [HistoryNext]_<<vars, safe>> => [LiftsBlock => safe = Symbols]_<<vars, safe>>
    BY LiftingStep
  <1> QED BY <1>1, <1>4, <1>5, <1>6, PTL DEF HistorySpec, BlockLiftedOnlyWhenSafe

=============================================================================
