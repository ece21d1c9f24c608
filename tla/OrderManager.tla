---------------------------- MODULE OrderManager ----------------------------
(***************************************************************************)
(* The in-memory order store of src/src/trading/execution/order_manager.py *)
(* as operators on a store value.  A store maps every client order link id *)
(* to a ManagedOrder; status "Absent" stands for an id the dictionary      *)
(* _by_link_id does not hold.  Each operator is one method: every method   *)
(* holds the asyncio lock and awaits nothing inside it, so it is atomic.   *)
(*                                                                         *)
(* symbol, qty and reduce_only of an order never change after the intent   *)
(* is built (nothing in the program amends an order), so they live in the  *)
(* intent, not here.  The second index, _by_order_id, always leads to the  *)
(* order its link id leads to and is left out with order_id.               *)
(***************************************************************************)
EXTENDS Integers

CONSTANTS
    Links,   \* client order link ids
    Lot      \* quantity of an entry order, in units of one fill

ASSUME LotAssumption == Lot \in Nat \ {0}

\* OrderStatus values in which the program counts an order as open.
OpenStatus == {"New", "PartiallyFilled"}

TerminalStatus == {"Filled", "Cancelled", "Rejected"}

\* Where the metadata of a ManagedOrder comes from: "strategy" orders carry
\* signal_action, "snapshot" ones only {"source": "reconciler_snapshot"}.
Origins == {"none", "strategy", "exit", "snapshot"}

ManagedOrder == [status : OpenStatus \union TerminalStatus \union {"Absent"},
                 filled : 0 .. Lot,
                 origin : Origins]

Store == [Links -> ManagedOrder]

AbsentOrder == [status |-> "Absent", filled |-> 0, origin |-> "none"]

EmptyStore == [l \in Links |-> AbsentOrder]

Tracked(store, l) == store[l].status # "Absent"

\* get_open_orders
OpenOrders(store) == {l \in Links : store[l].status \in OpenStatus}

\* register_intent: an id that is known keeps the order it has.
RegisterIntent(store, l, origin) ==
    IF Tracked(store, l)
    THEN store
    ELSE [store EXCEPT ![l] = [status |-> "New", filled |-> 0, origin |-> origin]]

\* Mutant of ApplyOrderUpdate: adds the event's quantity to what was filled.
ApplyOrderUpdateAdding(store, l, status, qty) ==
    IF Tracked(store, l)
    THEN [store EXCEPT ![l].status = status, ![l].filled = @ + qty]
    ELSE store

\* apply_order_update, called with filled_qty = the event's order quantity.
ApplyOrderUpdate(store, l, status, qty) ==
    IF Tracked(store, l)
    THEN [store EXCEPT ![l] = [@ EXCEPT !.status = status, !.filled = qty]]
    ELSE store

\* Mutant of ClosedMissing: reports the orders but closes none.
ClosedMissingNone(store, missing) == {}

\* The orders of missing that mark_closed_missing_on_exchange closes: those
\* that are still open when it is called (it returns True for them).
ClosedMissing(store, missing) == missing \intersect OpenOrders(store)

\* Mutant of MarkClosedMissing: takes an order that is gone for a filled one.
MarkClosedMissingFilled(store, missing) ==
    [l \in Links |->
        IF l \in ClosedMissing(store, missing)
        THEN [store[l] EXCEPT !.status = "Filled"]
        ELSE store[l]]

\* mark_closed_missing_on_exchange, for every order of missing.
MarkClosedMissing(store, missing) ==
    [l \in Links |->
        IF l \in ClosedMissing(store, missing)
        THEN [store[l] EXCEPT !.status = "Cancelled"]
        ELSE store[l]]

\* Mutant of UpsertSnapshot: refreshes tracked orders and skips the others.
UpsertTrackedOnly(store, listed, remote) ==
    [l \in Links |->
        IF l \in listed /\ Tracked(store, l)
        THEN [store[l] EXCEPT !.status = remote[l].status, !.filled = remote[l].cum]
        ELSE store[l]]

\* upsert_from_exchange_snapshot, for every order the snapshot lists: the
\* local status and filled quantity are overwritten unconditionally, the
\* metadata of a tracked order is kept.
UpsertSnapshot(store, listed, remote) ==
    [l \in Links |->
        IF l \in listed
        THEN [status |-> remote[l].status,
              filled |-> remote[l].cum,
              origin |-> IF Tracked(store, l) THEN store[l].origin ELSE "snapshot"]
        ELSE store[l]]

=============================================================================
