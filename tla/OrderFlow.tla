------------------------------ MODULE OrderFlow -----------------------------
(***************************************************************************)
(* The order flow of the live runtime: the decision loop, the private      *)
(* websocket handler with its protective exits, the portfolio refresh, the *)
(* reconcile cycle and the startup inspection, running as asyncio tasks    *)
(* against an exchange that fills, cancels and rejects orders on its own.  *)
(*                                                                         *)
(* A step runs from one suspension point of a task to the next.  A task    *)
(* suspends at every REST call and, when a Postgres DSN is configured, at  *)
(* every ledger write.  The handler is cut at both; the writes inside a    *)
(* reconcile cycle and between registering and submitting an order are not *)
(* taken as suspension points, as without Postgres they are not.           *)
(*                                                                         *)
(* The code asks for the symbols in the order of its settings; here they   *)
(* are asked for in any order, which allows more behaviours, not fewer.    *)
(***************************************************************************)
EXTENDS OrderManager, Reconciler, Sequences, FiniteSets

CONSTANTS
    Symbols,        \* settings.trading.symbols
    EntryLinks,     \* link ids available to the decision loop
    ExitLinks,      \* link ids available to protective exits
    NoLink,
    AllowAdds,      \* settings.runtime.allow_position_adds
    MaxEntries,     \* settings.runtime.max_concurrent_entries_per_symbol
    \* Bounds that keep the model finite:
    MaxAttempts,    \* HTTP exchanges of one place_order call
    MaxQueue,       \* undelivered events of the private stream
    MaxDrops,       \* connection losses of the private stream, stops among them
    MaxRedelivered, \* events the exchange delivers twice
    MaxCrashes,     \* stops of the process
    MaxRefreshes    \* portfolio refreshes after the one of _startup

ASSUME LinksAssumption ==
    /\ Links = EntryLinks \union ExitLinks
    /\ EntryLinks \intersect ExitLinks = {}
    /\ NoLink \notin Links

ASSUME SettingsAssumption ==
    /\ AllowAdds \in BOOLEAN
    /\ MaxEntries \in Nat \ {0}

ASSUME BoundsAssumption ==
    /\ MaxAttempts \in Nat \ {0}
    /\ MaxQueue \in Nat
    /\ MaxDrops \in Nat
    /\ MaxRedelivered \in Nat
    /\ MaxCrashes \in Nat
    /\ MaxRefreshes \in Nat

VARIABLES
    (* The exchange. *)
    exch,       \* exch[l]: status and cumulative fill of order l
    position,   \* position[s]: size of the position in s
    stream,     \* events of the private stream not yet handled
    (* The runtime's memory, lost when the process stops. *)
    phase,      \* "down", "refresh", "inspect" (both in _startup), "running"
    todo,       \* what the startup step at hand still has to read
    dirty,      \* startup inspection: dirty exchange state was seen
    local,      \* the OrderManager's store
    portfolio,  \* portfolio[s]: position size of the last snapshot
    refresh,    \* the portfolio refresh under way
    blocks,     \* the reconcile block state
    seenFilled, \* _strategy_order_outcomes._seen_filled
    handler,    \* the private event handler
    call,       \* call[t]: place_order request of task t under way
    rec,        \* the reconcile cycle under way
    (* History and bounds. *)
    intent,     \* intent[l]: the OrderIntent built with id l, kept after a stop
    spent       \* how much of each bound is spent, by kind

exchVars == <<exch, position>>
startVars == <<phase, todo, dirty>>
vars == <<exch, position, stream, phase, todo, dirty, local, portfolio,
          refresh, blocks, seenFilled, handler, call, rec, intent, spent>>

-----------------------------------------------------------------------------
(***************************************************************************)
(* State.                                                                  *)
(***************************************************************************)

Submitters == {"decision", "exit"}   \* the tasks that call _submit_intent

Statuses == OpenStatus \union TerminalStatus

ExchOrder == [status : Statuses \union {"None"}, cum : 0 .. Lot]

NoExchOrder == [status |-> "None", cum |-> 0]

\* parent is history: the entry whose fill a protective exit was built for.
Intent == [kind : {"unused", "entry", "exit"},
           symbol : Symbols \union {"none"},
           qty : 0 .. Lot,
           parent : Links \union {NoLink}]

Unused == [kind |-> "unused", symbol |-> "none", qty |-> 0, parent |-> NoLink]

Event == [link : Links, status : Statuses]

Idle == [step |-> "idle", entry |-> NoLink]

\* step "fill": _place_protective_exit_after_fill is due for entry.
Handler == {Idle} \union [step : {"fill"}, entry : Links]

NoCall == [link |-> NoLink, answer |-> "none", attempt |-> 0]

\* answer: what the server has done with the current attempt; "failed" once
\* a transport error has ended the calling task.
Request == [link : Links,
            answer : {"sent", "accepted", "refused", "failed"},
            attempt : 1 .. MaxAttempts]

Call == {NoCall} \union Request

\* held, covered: symbols whose fetched position is non-flat, respectively
\* that have a reduce-only order on the exchange.
Reconcile == [step : {"idle", "orders", "positions"},
              todo : SUBSET Symbols,
              todoExits : SUBSET Symbols,
              localOpen : SUBSET Links,
              snapshot : [Links -> ExchOrder],
              missing : SUBSET Links,
              strays : SUBSET Links,
              held : SUBSET Symbols,
              covered : SUBSET Symbols]

NoSnapshot == [l \in Links |-> NoExchOrder]

NotReconciling ==
    [step |-> "idle", todo |-> {}, todoExits |-> {}, localOpen |-> {},
     snapshot |-> NoSnapshot, missing |-> {}, strays |-> {},
     held |-> {}, covered |-> {}]

\* fetched[s]: position size read so far.
Refresh == [todo : SUBSET Symbols, fetched : [Symbols -> Nat], busy : BOOLEAN]

NotRefreshing == [todo |-> {}, fetched |-> [s \in Symbols |-> 0], busy |-> FALSE]

RefreshStarted == [NotRefreshing EXCEPT !.todo = Symbols, !.busy = TRUE]

Spent == [drops : Nat, redelivered : Nat, crashes : Nat, refreshes : Nat]

TypeOK ==
    /\ exch \in [Links -> ExchOrder]
    /\ position \in [Symbols -> Nat]
    /\ stream \in Seq(Event)
    /\ phase \in {"down", "refresh", "inspect", "running"}
    /\ todo \in SUBSET (Symbols \X {"position", "orders"})
    /\ dirty \in BOOLEAN
    /\ local \in Store
    /\ portfolio \in [Symbols -> Nat]
    /\ refresh \in Refresh
    /\ blocks \in BlockState
    /\ seenFilled \in SUBSET Links
    /\ handler \in Handler
    /\ call \in [Submitters -> Call]
    /\ rec \in Reconcile
    /\ intent \in [Links -> Intent]
    /\ spent \in Spent

\* The process starts against a clean exchange; what an earlier session left
\* behind is what is there when it boots after a stop.
Init ==
    /\ exch = [l \in Links |-> NoExchOrder]
    /\ position = [s \in Symbols |-> 0]
    /\ stream = <<>>
    /\ phase = "refresh"
    /\ todo = {}
    /\ dirty = FALSE
    /\ local = EmptyStore
    /\ portfolio = [s \in Symbols |-> 0]
    /\ refresh = RefreshStarted
    /\ blocks = NoBlocks
    /\ seenFilled = {}
    /\ handler = Idle
    /\ call = [t \in Submitters |-> NoCall]
    /\ rec = NotReconciling
    /\ intent = [l \in Links |-> Unused]
    /\ spent = [drops |-> 0, redelivered |-> 0, crashes |-> 0, refreshes |-> 0]

Running == phase = "running"

ReduceOnly == {l \in Links : intent[l].kind = "exit"}

LinksOf(s) == {l \in Links : intent[l].symbol = s}

ExchangeOpen == {l \in Links : exch[l].status \in OpenStatus}

-----------------------------------------------------------------------------
(***************************************************************************)
(* The exchange (external): what src assumes of Bybit's matching engine    *)
(* and private order stream.                                               *)
(***************************************************************************)

\* An order event reaches the stream only while the runtime is connected;
\* the other ones are lost, no snapshot is pushed on reconnect.
Publish(l, status) ==
    /\ Len(stream) < MaxQueue
    /\ stream' = IF Running
                 THEN Append(stream, [link |-> l, status |-> status])
                 ELSE stream

\* One unit of order l trades.  A reduce-only order only reduces.
ExchangeFill(l) ==
    LET s    == intent[l].symbol
        cum  == exch[l].cum + 1
        next == IF cum = intent[l].qty THEN "Filled" ELSE "PartiallyFilled"
    IN  /\ l \in ExchangeOpen
        /\ l \in ReduceOnly => position[s] > 0
        /\ exch' = [exch EXCEPT ![l] = [status |-> next, cum |-> cum]]
        /\ position' = [position EXCEPT ![s] =
                            IF l \in ReduceOnly THEN @ - 1 ELSE @ + 1]
        /\ Publish(l, next)
        /\ UNCHANGED <<startVars, local, portfolio, refresh, blocks,
                       seenFilled, handler, call, rec, intent, spent>>

\* The exchange or its operator ends an open order: cancel, post-only reject.
ExchangeEnd(l, status) ==
    /\ l \in ExchangeOpen
    /\ status = "Rejected" => exch[l].status = "New"
    /\ exch' = [exch EXCEPT ![l].status = status]
    /\ Publish(l, status)
    /\ UNCHANGED <<position, startVars, local, portfolio, refresh, blocks,
                   seenFilled, handler, call, rec, intent, spent>>

\* The operator flattens a position by hand.
ManualClose(s) ==
    /\ position[s] > 0
    /\ position' = [position EXCEPT ![s] = 0]
    /\ UNCHANGED <<exch, stream, startVars, local, portfolio, refresh, blocks,
                   seenFilled, handler, call, rec, intent, spent>>

\* The stream loses its connection: what was not handled is gone.
StreamDrop ==
    /\ Running
    /\ stream # <<>>
    /\ spent.drops + spent.crashes < MaxDrops
    /\ stream' = <<>>
    /\ spent' = [spent EXCEPT !.drops = @ + 1]
    /\ UNCHANGED <<exchVars, startVars, local, portfolio, refresh, blocks,
                   seenFilled, handler, call, rec, intent>>

-----------------------------------------------------------------------------
(***************************************************************************)
(* _startup: portfolio refresh, then inspection, then the tasks start.     *)
(***************************************************************************)

Boot ==
    /\ phase = "down"
    /\ phase' = "refresh"
    /\ refresh' = RefreshStarted
    /\ UNCHANGED <<exchVars, stream, todo, dirty, local, portfolio, blocks,
                   seenFilled, handler, call, rec, intent, spent>>

\* The awaits of _startup are sequential: the inspection follows the refresh,
\* whether or not the refresh succeeded.
AfterRefresh ==
    IF phase = "refresh"
    THEN /\ phase' = "inspect"
         /\ todo' = Symbols \X {"position", "orders"}
         /\ dirty' = FALSE
    ELSE UNCHANGED startVars

\* _inspect_startup_exchange_state reads the position of s, then its orders.
InspectPosition(s) ==
    /\ phase = "inspect"
    /\ <<s, "position">> \in todo
    /\ todo' = todo \ {<<s, "position">>}
    /\ dirty' = (dirty \/ position[s] > 0)
    /\ UNCHANGED <<exchVars, stream, phase, local, portfolio, refresh, blocks,
                   seenFilled, handler, call, rec, intent, spent>>

InspectOrders(s) ==
    /\ phase = "inspect"
    /\ <<s, "position">> \notin todo
    /\ <<s, "orders">> \in todo
    /\ todo' = todo \ {<<s, "orders">>}
    /\ dirty' = (dirty \/ (ExchangeOpen \intersect LinksOf(s)) \ ReduceOnly # {})
    /\ UNCHANGED <<exchVars, stream, phase, local, portfolio, refresh, blocks,
                   seenFilled, handler, call, rec, intent, spent>>

\* All symbols were read: block when dirty, then start the tasks.
InspectDone ==
    /\ phase = "inspect"
    /\ todo = {}
    /\ phase' = "running"
    /\ blocks' = [blocks EXCEPT !.startup = @ \/ dirty]
    /\ dirty' = FALSE
    /\ UNCHANGED <<exchVars, stream, todo, local, portfolio, refresh,
                   seenFilled, handler, call, rec, intent, spent>>

\* A BybitRestError abandons the inspection and startup goes on unblocked.
InspectFails ==
    /\ phase = "inspect"
    /\ todo # {}
    /\ phase' = "running"
    /\ todo' = {}
    /\ dirty' = FALSE
    /\ UNCHANGED <<exchVars, stream, local, portfolio, refresh, blocks,
                   seenFilled, handler, call, rec, intent, spent>>

\* The process stops: a task failed and the supervisor shut the runtime down,
\* or it was killed.  Orders stay on the exchange; no state is restored.
Crash ==
    /\ phase # "down"
    /\ spent.crashes < MaxCrashes
    /\ spent' = [spent EXCEPT !.crashes = @ + 1]
    /\ phase' = "down"
    /\ todo' = {}
    /\ dirty' = FALSE
    /\ stream' = <<>>
    /\ local' = EmptyStore
    /\ portfolio' = [s \in Symbols |-> 0]
    /\ refresh' = NotRefreshing
    /\ blocks' = NoBlocks
    /\ seenFilled' = {}
    /\ handler' = Idle
    /\ call' = [t \in Submitters |-> NoCall]
    /\ rec' = NotReconciling
    /\ UNCHANGED <<exchVars, intent>>

-----------------------------------------------------------------------------
(***************************************************************************)
(* _refresh_portfolio_snapshot.                                            *)
(***************************************************************************)

RefreshStart ==
    /\ Running
    /\ ~refresh.busy
    /\ spent.refreshes < MaxRefreshes
    /\ spent' = [spent EXCEPT !.refreshes = @ + 1]
    /\ refresh' = RefreshStarted
    /\ UNCHANGED <<exchVars, stream, startVars, local, portfolio, blocks,
                   seenFilled, handler, call, rec, intent>>

RefreshFetch(s) ==
    /\ refresh.busy
    /\ s \in refresh.todo
    /\ refresh' = [refresh EXCEPT !.todo = @ \ {s}, !.fetched[s] = position[s]]
    /\ UNCHANGED <<exchVars, stream, startVars, local, portfolio, blocks,
                   seenFilled, handler, call, rec, intent, spent>>

\* The whole PortfolioState is replaced by what was fetched.
RefreshApply ==
    /\ refresh.busy
    /\ refresh.todo = {}
    /\ portfolio' = refresh.fetched
    /\ refresh' = NotRefreshing
    /\ AfterRefresh
    /\ UNCHANGED <<exchVars, stream, local, blocks, seenFilled, handler, call,
                   rec, intent, spent>>

\* A BybitRestError keeps the previous PortfolioState.
RefreshFails ==
    /\ refresh.busy
    /\ refresh' = NotRefreshing
    /\ AfterRefresh
    /\ UNCHANGED <<exchVars, stream, local, portfolio, blocks, seenFilled,
                   handler, call, rec, intent, spent>>

-----------------------------------------------------------------------------
(***************************************************************************)
(* Building and submitting orders.                                         *)
(***************************************************************************)

HasUnused(ids) == \E l \in ids : intent[l].kind = "unused"

\* generate_order_link_id never returns an id twice.
NextUnused(ids) == CHOOSE l \in ids : intent[l].kind = "unused"

\* _should_block_new_entry, negated: it knows the position of the last
\* portfolio snapshot and the orders of the local store.
EntryGuard(s) ==
    LET working == (OpenOrders(local) \intersect LinksOf(s)) \ ReduceOnly
    IN  IF AllowAdds
        THEN Cardinality(working) < MaxEntries
        ELSE portfolio[s] = 0 /\ working = {}

\* _decision_loop for an approved signal on s: both blocks, the guard, then
\* the intent is built and registered, with no suspension in between.  The
\* signal, sizing, risk and model filter stages may refuse any signal.
RegisterEntry(s) ==
    LET l == NextUnused(EntryLinks)
    IN  /\ Running
        /\ call["decision"] = NoCall
        /\ HasUnused(EntryLinks)
        /\ ~blocks.startup
        /\ ~blocks.orphan
        /\ EntryGuard(s)
        /\ intent' = [intent EXCEPT ![l] =
                        [kind |-> "entry", symbol |-> s, qty |-> Lot, parent |-> NoLink]]
        /\ local' = RegisterIntent(local, l, "strategy")
        /\ call' = [call EXCEPT !["decision"] =
                        [link |-> l, answer |-> "sent", attempt |-> 1]]
        /\ UNCHANGED <<exchVars, stream, startVars, portfolio, refresh, blocks,
                       seenFilled, handler, rec, spent>>

\* The exchange (external) takes a new order.
ExchangeAccept(t) ==
    LET l == call[t].link
    IN  /\ call[t].answer = "sent"
        /\ exch[l].status = "None"
        /\ exch' = [exch EXCEPT ![l] = [status |-> "New", cum |-> 0]]
        /\ Publish(l, "New")
        /\ call' = [call EXCEPT ![t].answer = "accepted"]
        /\ UNCHANGED <<position, startVars, local, portfolio, refresh, blocks,
                       seenFilled, handler, rec, intent, spent>>

\* The exchange (external) answers with a ret_code # 0: margin, price band,
\* or an order link id it already knows.
ExchangeRefuse(t) ==
    /\ call[t].answer = "sent"
    /\ call' = [call EXCEPT ![t].answer = "refused"]
    /\ UNCHANGED <<exchVars, stream, startVars, local, portfolio, refresh, blocks,
                   seenFilled, handler, rec, intent, spent>>

\* _submit_intent returns: acknowledged (only the order_id is recorded), or
\* with a BybitRestError, which leaves the order as it is.  The latter is a
\* refusal, an answer that is a 4xx or unreadable, or a retry that ends early
\* because all requests share one retry state (module RestRetry).
SubmitReturns(t) ==
    /\ call[t].answer \in {"sent", "accepted", "refused"}
    /\ call' = [call EXCEPT ![t] = NoCall]
    /\ UNCHANGED <<exchVars, stream, startVars, local, portfolio, refresh, blocks,
                   seenFilled, handler, rec, intent, spent>>

\* A timeout, a 5xx or an unreadable answer: the same request is sent again.
SubmitRetries(t) ==
    /\ call[t].answer \in {"sent", "accepted", "refused"}
    /\ call[t].attempt < MaxAttempts
    /\ call' = [call EXCEPT ![t] =
                    [link |-> @.link, answer |-> "sent", attempt |-> @.attempt + 1]]
    /\ UNCHANGED <<exchVars, stream, startVars, local, portfolio, refresh, blocks,
                   seenFilled, handler, rec, intent, spent>>

\* The call ends in a transport error, which _submit_intent does not catch.
\* In the decision loop it ends the task (the supervisor then stops the
\* runtime); in the handler it ends the reader and with it the connection.
SubmitFails(t) ==
    /\ call[t].answer \in {"sent", "accepted", "refused"}
    /\ IF t = "decision"
       THEN /\ call' = [call EXCEPT ![t].answer = "failed"]
            /\ UNCHANGED stream
       ELSE /\ call' = [call EXCEPT ![t] = NoCall]
            /\ stream' = <<>>
    /\ UNCHANGED <<exchVars, startVars, local, portfolio, refresh, blocks,
                   seenFilled, handler, rec, intent, spent>>

-----------------------------------------------------------------------------
(***************************************************************************)
(* _on_private_events: order updates, one at a time, inside the reader.    *)
(***************************************************************************)

HandlerFree == Running /\ handler = Idle /\ call["exit"] = NoCall

\* Mutant of NewFill: forgets _seen_filled.
NewFillRepeated(l, status) ==
    Tracked(local, l) /\ local[l].status # status /\ status = "Filled"

\* Mutant of NewFill: acts on the first partial fill.
NewFillPartial(l, status) ==
    /\ Tracked(local, l) /\ local[l].status # status /\ l \notin seenFilled
    /\ status \in {"PartiallyFilled", "Filled"}

\* Mutant of NewFill: takes the end of a cancelled order for a fill.
NewFillTerminal(l, status) ==
    /\ Tracked(local, l) /\ local[l].status # status /\ l \notin seenFilled
    /\ status \in {"Cancelled", "Filled"}

\* The update moves a tracked order to Filled for the first time.
NewFill(l, status) ==
    /\ Tracked(local, l)
    /\ local[l].status # status
    /\ status = "Filled"
    /\ l \notin seenFilled

\* again: the exchange delivers the event a second time later on.
HandleUpdate(again) ==
    LET l      == Head(stream).link
        status == Head(stream).status
    IN  /\ HandlerFree
        /\ stream # <<>>
        /\ again => spent.redelivered < MaxRedelivered
        /\ spent' = [spent EXCEPT !.redelivered = IF again THEN @ + 1 ELSE @]
        /\ stream' = IF again THEN stream ELSE Tail(stream)
        /\ local' = ApplyOrderUpdate(local, l, status, intent[l].qty)
        /\ seenFilled' = IF NewFill(l, status) THEN seenFilled \union {l} ELSE seenFilled
        /\ handler' = IF NewFill(l, status) /\ l \notin ReduceOnly
                      THEN [step |-> "fill", entry |-> l]
                      ELSE Idle
        /\ UNCHANGED <<exchVars, startVars, portfolio, refresh, blocks, call,
                       rec, intent>>

\* prev.filled_qty if it is positive, else the quantity of the event.
ExitQty(e) == IF local[e].filled > 0 THEN local[e].filled ELSE intent[e].qty

\* _place_protective_exit_after_fill up to its REST call.
PlaceExit ==
    LET e == handler.entry
        x == NextUnused(ExitLinks)
    IN  /\ Running
        /\ handler.step = "fill"
        /\ local[e].origin = "strategy"
        /\ HasUnused(ExitLinks)
        /\ intent' = [intent EXCEPT ![x] =
                        [kind |-> "exit", symbol |-> intent[e].symbol,
                         qty |-> ExitQty(e), parent |-> e]]
        /\ local' = RegisterIntent(local, x, "exit")
        /\ call' = [call EXCEPT !["exit"] =
                        [link |-> x, answer |-> "sent", attempt |-> 1]]
        /\ handler' = Idle
        /\ UNCHANGED <<exchVars, stream, startVars, portfolio, refresh, blocks,
                       seenFilled, rec, spent>>

\* Its early returns: no signal_action in the metadata, or an event without
\* average price.  Nothing places the exit later.
SkipExit ==
    /\ Running
    /\ handler.step = "fill"
    /\ handler' = Idle
    /\ UNCHANGED <<exchVars, stream, startVars, local, portfolio, refresh, blocks,
                   seenFilled, call, rec, intent, spent>>

-----------------------------------------------------------------------------
(***************************************************************************)
(* _reconcile_cycle.                                                       *)
(***************************************************************************)

\* reconcile_orders reads the local store before it asks the exchange.
ReconcileStart ==
    /\ Running
    /\ rec.step = "idle"
    /\ rec' = [NotReconciling EXCEPT !.step = "orders",
                                     !.todo = Symbols,
                                     !.localOpen = OpenOrders(local)]
    /\ UNCHANGED <<exchVars, stream, startVars, local, portfolio, refresh, blocks,
                   seenFilled, handler, call, intent, spent>>

FetchOrders(s) ==
    /\ rec.step = "orders"
    /\ s \in rec.todo
    /\ rec' = [rec EXCEPT !.todo = @ \ {s},
                          !.snapshot = [l \in Links |->
                              IF l \in ExchangeOpen \intersect LinksOf(s)
                              THEN exch[l] ELSE @[l]]]
    /\ UNCHANGED <<exchVars, stream, startVars, local, portfolio, refresh, blocks,
                   seenFilled, handler, call, intent, spent>>

\* The last answer is in: issues are computed against the old local snapshot
\* and every order the exchange listed is upserted.
ApplyOrders ==
    LET listed == {l \in Links : rec.snapshot[l].status # "None"}
    IN  /\ rec.step = "orders"
        /\ rec.todo = {}
        /\ local' = UpsertSnapshot(local, listed, rec.snapshot)
        /\ rec' = [NotReconciling EXCEPT !.step = "positions",
                                         !.todo = Symbols,
                                         !.todoExits = Symbols,
                                         !.missing = rec.localOpen \ listed,
                                         !.strays = listed \ rec.localOpen]
        /\ UNCHANGED <<exchVars, stream, startVars, portfolio, refresh, blocks,
                       seenFilled, handler, call, intent, spent>>

\* reconcile_positions: position of s, then its open orders.
FetchPosition(s) ==
    /\ rec.step = "positions"
    /\ s \in rec.todo
    /\ rec' = [rec EXCEPT !.todo = @ \ {s},
                          !.held = IF position[s] > 0 THEN @ \union {s} ELSE @]
    /\ UNCHANGED <<exchVars, stream, startVars, local, portfolio, refresh, blocks,
                   seenFilled, handler, call, intent, spent>>

FetchExits(s) ==
    /\ rec.step = "positions"
    /\ s \in rec.todoExits \ rec.todo
    /\ rec' = [rec EXCEPT !.todoExits = @ \ {s},
                          !.covered = IF ExchangeOpen \intersect LinksOf(s) \intersect ReduceOnly # {}
                                      THEN @ \union {s} ELSE @]
    /\ UNCHANGED <<exchVars, stream, startVars, local, portfolio, refresh, blocks,
                   seenFilled, handler, call, intent, spent>>

\* The local exits are read, then the orders missing on the exchange are
\* closed, then one branch decides the blocks.
ReconcileFinish ==
    LET localExits == {s \in Symbols :
                          OpenOrders(local) \intersect LinksOf(s) \intersect ReduceOnly # {}}
        orphans    == Orphaned(rec.held, localExits, rec.covered)
        closed     == ClosedMissing(local, rec.missing)
    IN  /\ rec.step = "positions"
        /\ rec.todoExits = {}
        /\ local' = MarkClosedMissing(local, rec.missing)
        /\ blocks' = BlocksAfter(blocks, rec.missing, closed, rec.strays, orphans,
                                 ReduceOnly)
        /\ rec' = NotReconciling
        /\ UNCHANGED <<exchVars, stream, startVars, portfolio, refresh,
                       seenFilled, handler, call, intent, spent>>

\* A BybitRestError abandons the cycle; upserts already made stay.
ReconcileFails ==
    /\ rec.step # "idle"
    /\ rec' = NotReconciling
    /\ UNCHANGED <<exchVars, stream, startVars, local, portfolio, refresh, blocks,
                   seenFilled, handler, call, intent, spent>>

-----------------------------------------------------------------------------
ExchangeStep ==
    \/ \E l \in Links : ExchangeFill(l)
    \/ \E l \in Links, status \in {"Cancelled", "Rejected"} : ExchangeEnd(l, status)
    \/ \E s \in Symbols : ManualClose(s)

StartupStep ==
    \/ Boot
    \/ \E s \in Symbols : InspectPosition(s) \/ InspectOrders(s)
    \/ InspectDone
    \/ InspectFails

RefreshStep ==
    \/ RefreshStart
    \/ \E s \in Symbols : RefreshFetch(s)
    \/ RefreshApply
    \/ RefreshFails

\* What brings the current request to an answer.
SubmitEnds(t) == SubmitReturns(t) \/ SubmitRetries(t) \/ SubmitFails(t)

SubmitStep ==
    \E t \in Submitters : ExchangeAccept(t) \/ ExchangeRefuse(t) \/ SubmitEnds(t)

HandlerStep == (\E again \in BOOLEAN : HandleUpdate(again)) \/ PlaceExit \/ SkipExit

ReconcileStep ==
    \/ ReconcileStart
    \/ \E s \in Symbols : FetchOrders(s) \/ FetchPosition(s) \/ FetchExits(s)
    \/ ApplyOrders
    \/ ReconcileFinish
    \/ ReconcileFails

Next ==
    \/ ExchangeStep
    \/ StreamDrop
    \/ StartupStep
    \/ Crash
    \/ RefreshStep
    \/ \E s \in Symbols : RegisterEntry(s)
    \/ SubmitStep
    \/ HandlerStep
    \/ ReconcileStep

Spec == Init /\ [][Next]_vars

-----------------------------------------------------------------------------
(***************************************************************************)
(* Safety.                                                                 *)
(***************************************************************************)

\* An entry fill gets at most one protective exit, whatever is redelivered,
\* resurrected by a stale snapshot, lost or restarted (_seen_filled and the
\* metadata test of _place_protective_exit_after_fill).
OneExitPerFill ==
    \A x, y \in ReduceOnly : intent[x].parent = intent[y].parent => x = y

\* A protective exit is only ever built for an entry that is completely
\* filled on the exchange, and for no more than was filled.
ExitCoversFill ==
    \A x \in ReduceOnly :
        LET e == intent[x].parent
        IN  /\ exch[e].status = "Filled"
            /\ intent[x].qty <= exch[e].cum
            /\ intent[x].symbol = intent[e].symbol

\* The local store may lag behind the exchange but never runs ahead of it: a
\* fill or a rejection it reports did happen.  (A local "Cancelled" may be the
\* reconciler's own verdict.)
LocalNeverAhead ==
    \A l \in Links :
        /\ local[l].status \in {"Filled", "Rejected"} => exch[l].status = local[l].status
        /\ local[l].status = "PartiallyFilled" => exch[l].cum > 0

\* The flags _reconcile_cycle maintains in four branches stay consistent: an
\* orphan block comes with a mismatch count, which comes with a startup block.
\* So clearing the startup block can never leave an orphan block behind.
BlocksConsistent ==
    /\ blocks.orphan => blocks.mismatches > 0
    /\ blocks.mismatches > 0 => blocks.startup

-----------------------------------------------------------------------------
(***************************************************************************)
(* Liveness.                                                               *)
(***************************************************************************)

\* The event loop serves every task that can go on (weak fairness).  A REST
\* read may fail any number of times, but a cycle that is tried again and
\* again gets through eventually (strong fairness on the steps of a cycle).
\* The exchange, the connection, the operator and the signals owe nothing, and
\* nobody has to start the process again: the systemd units do after a crash,
\* but a task failure ends it with exit status 0.
Fairness ==
    /\ WF_vars(RefreshApply \/ RefreshFails)
    /\ WF_vars(InspectDone)
    /\ \A s \in Symbols :
        /\ WF_vars(RefreshFetch(s))
        /\ WF_vars(InspectPosition(s))
        /\ WF_vars(InspectOrders(s))
        /\ SF_vars(FetchOrders(s))
        /\ SF_vars(FetchPosition(s))
        /\ SF_vars(FetchExits(s))
    /\ \A t \in Submitters : WF_vars(SubmitEnds(t))
    /\ WF_vars(HandleUpdate(FALSE))
    /\ WF_vars(PlaceExit \/ SkipExit)
    /\ WF_vars(ReconcileStart)
    /\ SF_vars(ApplyOrders)
    /\ SF_vars(ReconcileFinish)

FairSpec == Spec /\ Fairness

\* No reduce-only order covers the position the exchange holds in s.
Unprotected(s) ==
    position[s] > 0 /\ ExchangeOpen \intersect LinksOf(s) \intersect ReduceOnly = {}

\* A position that stays without a protective exit is noticed and blocks new
\* entries (orphan_position_blocked), whichever of the ways to lose the exit
\* led there: a lost Filled event, a refused or failed placement, a skipped
\* plan, a restart, a cancelled exit.  It is owed by a runtime that stays up.
UnprotectedGetsBlocked ==
    \A s \in Symbols :
        Unprotected(s) ~> (blocks.orphan \/ ~Unprotected(s) \/ phase = "down")

\* Once the exchange stops changing, the local store of a runtime that stays up
\* ends with exactly the orders that are open there, whatever was lost before
\* (reconcile_orders and mark_closed_missing_on_exchange together).
StoreConverges == <>[](phase = "down" \/ OpenOrders(local) = ExchangeOpen)

\* No block outlives its reason: when every position is eventually flat or
\* protected for good, the blocks go and stay away (no cycle of upserts and
\* closures keeps raising them).
BlocksLifted ==
    <>[](\A s \in Symbols : ~Unprotected(s)) => <>[](blocks = NoBlocks)

=============================================================================
