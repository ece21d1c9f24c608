# A formal model of the trading bot

TLA+ modules that model the Bybit USDT-perpetual trading bot of this repository,
configurations that check them with TLC, and proofs that TLAPS checks. Paths are
relative to the repository's copy in `src/` (the package is `src/src/trading`).

Contents: [inventory](#1-inventory), [plan](#2-plan), [modules](#3-modules),
[runs](#4-runs), [fairness](#5-fairness), [proofs](#6-proofs),
[findings](#7-where-code-and-words-disagree), [limits](#8-what-is-not-modelled).

## 1. Inventory

The runtime is one asyncio process. Its tasks interleave only where they await:
at REST calls, sleeps, queue reads and, when a Postgres DSN is configured, ledger
writes. An `asyncio.Lock` whose body awaits nothing never suspends, so a method of
the order manager is one atomic step.

| component | state it keeps | operations | talks to | correct when |
|---|---|---|---|---|
| Order manager (`execution/order_manager.py`) | orders by link id, with status, filled quantity, metadata | register, apply update, upsert from snapshot, close missing, list open | everything below | it never reports a fill or rejection that did not happen, and ends up with what the exchange has |
| Reconciler and reconcile cycle (`execution/reconciler.py`, `orchestrator.py:1804`) | two block flags, a mismatch count | every 30 s: read orders and positions, upsert, close, raise or lift blocks | REST client, order manager | a position without its exit blocks entries; a block is lifted only when it was safe, and always some time after |
| Order flow (`orchestrator.py`: decision loop, private events, protective exits, portfolio refresh, startup inspection) | portfolio snapshot, fills already seen, startup progress | entry on a confirmed bar, exit on a fill, refresh every 20 s | exchange, private stream, order manager | one exit per filled entry, never larger than the fill; no entry on top of exposure |
| REST client and retry (`exchange/bybit_rest.py`, `util/retry.py`) | one shared `AsyncRetrying` | one request: limiter, signature, retry loop, envelope | exchange | every request ends, after as many attempts as configured |
| Rate limiter (`exchange/rate_limiter.py`) | time stamps and a lock per group | `acquire` | REST client | no window is overfull, nobody starves |
| Supervisor, scheduler, shutdown (`orchestrator.py:262-524`, `runtime/scheduler.py`, `main.py`) | tasks, stop event, clean flag | start, watch, stop | all tasks, signals, ledger | a failed task stops the runtime; nothing runs on after shutdown |
| Risk engine, circuit breaker, safe mode, watchdog (`risk/`, `marketdata/staleness.py`) | rejection count, cooldown, safe mode, last-seen times | evaluate, size, trip, refresh | decision loop, submission, feed | no entry on a stale feed or during a cooldown; entries are possible again later; nothing passes a limit |
| Websocket clients and health (`exchange/bybit_ws_*.py`, `monitoring/health.py`) | connection, subscriptions, reader and ping tasks | connect, authenticate, subscribe, read, ping, back off | exchange, health, order flow, market data | streaming again after every kind of failure |
| Market data, warmup, backlog (`marketdata/`, `runtime/warmup.py`) | bar histories of two timeframes, queue of confirmed klines | normalise, preload, append | decision loop | bars in order, none lost that was received, the timeframes in step |
| Drill order (`runtime/drill.py`) | outcome record | wait for a price, validate, place one test order | order manager, reconcile cycle, stream | within its cap, reports how its order ended, comes to an end |
| Strategy, sizing (`strategy/`, `risk/sizing.py`) | (pure) | candidates, regime, confidence, quantity | decision loop | a candidate rests on the bars before it; a size fits budget and step |
| Model filter (`models/filter_*.py`) | artifact, threshold, mode | load, score, gate | decision loop | the mode decides what a score does |
| Soak report, promotion (`runtime/soak_report.py`, `runtime/promotion_readiness.py`) | counters, reports | summarise, judge, aggregate | every stage that counts | a PASS means what happened; the two verdicts agree |
| Backtest engine | position, pnl | apply fill, funding | event source | accounting adds up |
| Walk-forward, purged splits | (pure) | folds | research | no sample leaks from training into validation |
| Research | (batch) | export, train, evaluate | files | numeric |
| Journal, storage, monitoring, settings, utilities, installation | append-only records, configuration | I/O | all | (not about control) |

What is hard, and where the properties aim (the full list with lines is under
`hazards` in `PROJECT.json`): fills, exits, reconcile cycles and refreshes interleave;
private events get lost, duplicated or overtaken by snapshots; requests are sent
again after the exchange took them; the process stops between an acceptance and the
exit it owes and comes back with an empty store; entry decisions read a portfolio up
to 20 s old; one retry object serves all requests; a ledger write that raises takes
the supervisor with it; the refresh undoes the watchdog's safe mode; a websocket fails
in the middle of its handshake or goes silent; counters that a verdict compares move at
different suspension points.

## 2. Plan

Order of work, most important behaviour first. *Done* means modelled, checked and,
where noted, proved in this tree.

1. `OrderManager`, `Reconciler`, `OrderFlow`, with `MCOrderFlow` and `BlockHistory`
   (done), `OrderFlowProofs` (all its safety done).
2. `RestRetry`, `RateLimiter`, `Supervisor` and their proofs (done).
3. `ExitDuty`, the abstract specification of what a fill is owed, implemented by
   `OrderFlow` (checked; the safety part of the refinement is proved).
4. `RiskEngine`, `RiskGate` (done), with proofs in `EntryProofs` (all its safety done).
5. `WsClient`, `MarketFeed` (done), `MarketFeedProofs` (all its safety done).
6. `Drill` (done), `DrillProofs` (all its safety done).
7. `Candidates`, `RegimeFilter`, `Sizing`, `ModelFilter`, `Signals` (done), with proofs in
   `EntryProofs` (done).
8. `SoakReport`, `Promotion`, `Soak` (done), `SoakProofs` (done).
9. `Backtest` and `Splits`: `_apply_fill` against a reference ledger, folds against
   their definition (left).

How the modules compose:

* `OrderFlow` EXTENDS `OrderManager` and `Reconciler`, whose operators it applies inside
  its steps; `MCOrderFlow` and `BlockHistory` EXTEND it, `MCOrderFlow` instantiates
  `ExitDuty`.
* `Ladder` (the first check that fails) serves `RiskEngine`, `RegimeFilter`, `Sizing` and
  `Drill`; `RiskGate` EXTENDS `RiskEngine`.
* `MarketFeed` EXTENDS `WsClient`; `Drill` EXTENDS `OrderManager`.
* `Signals` EXTENDS `RegimeFilter` (and with it `Candidates`), `Sizing`, `ModelFilter` and
  `RiskEngine`.
* `Promotion` EXTENDS `SoakReport`; `Soak` EXTENDS `Promotion` and `Reconciler`.

What one module leaves to another: `RestRetry` explains why `OrderFlow` lets a
submission end early at any attempt, `Supervisor` what its `Crash` stands for, `WsClient`
its `StreamDrop`, `RiskGate` and `Signals` when it may register an entry. Every module is
free of RECURSIVE operators.

## 3. Modules

### OrderManager, Reconciler
Operators on values, one per method or branch. A store maps each link id to a
record; "Absent" stands for an id that `_by_link_id` lacks. `symbol`, `qty` and
`reduce_only` never change after an intent is built and live in `OrderFlow`'s
`intent`; `_by_order_id` and `order_id` are dropped since they always lead to the same
order, and with them `ack_exchange_order`. `qty_mismatch` issues cannot occur, as
nothing amends an order. `BlocksAfter` is the branch structure of `_reconcile_cycle`;
its last `else` is unreachable in the code, because a report without issues satisfies
the first branch (`all()` of nothing).

### OrderFlow
| variable | code |
|---|---|
| `local` | `OrderManager` |
| `portfolio`, `refresh` | `_portfolio.positions`; the coroutine of `_refresh_portfolio_snapshot` |
| `blocks` | `_startup_state_blocked`, `_orphan_position_blocked`, `_consecutive_reconcile_mismatches` |
| `seenFilled` | `_strategy_order_outcomes._seen_filled` |
| `handler` | the private-event handler between a fill and its exit |
| `call` | the `place_order` request of the decision loop and of the handler |
| `rec` | the locals of a reconcile cycle: what was read so far |
| `phase`, `todo`, `dirty` | how far `_startup` is |
| `exch`, `position`, `stream` | the exchange's orders, positions and undelivered events (external) |
| `intent`, `spent` | history: the intent built for an id; how much of each bound is used |

Actions: `ExchangeFill`, `ExchangeEnd`, `ManualClose`, `StreamDrop` (environment);
`Boot`, `InspectPosition`, `InspectOrders`, `InspectDone`, `InspectFails` (`_startup`,
`_inspect_startup_exchange_state`); `Refresh...` (`_refresh_portfolio_snapshot`);
`RegisterEntry` (the end of `_decision_loop`, guarded by both blocks and
`_should_block_new_entry`); `ExchangeAccept`, `ExchangeRefuse`, `SubmitReturns`,
`SubmitRetries`, `SubmitFails` (`_submit_intent` with `_request`); `HandleUpdate`,
`PlaceExit`, `SkipExit` (`_on_private_events`, `_place_protective_exit_after_fill`);
`ReconcileStart`, `FetchOrders`, `ApplyOrders`, `FetchPosition`, `FetchExits`,
`ReconcileFinish`, `ReconcileFails` (`_reconcile_cycle`); `Crash`.

Abstractions: the stages that only refuse a signal (strategy, sizing, risk gate,
model filter, circuit breaker) are the freedom not to take `RegisterEntry`;
quantities are units of one fill, prices are left out, positions have one direction;
`apply_order_update` is called with the *order's* quantity as filled quantity, and so
it is here; an event is a normalised order update reduced to its link and status; the
early returns of the exit plan are `SkipExit`; `asyncio` tasks that
end in an exception, and everything else that stops the process, are `Crash`. A
request is processed by the exchange before the client gives its attempt up or not at
all (the receive window of 5 s is shorter than the 15 s timeout), and a request in
flight when the process stops is processed before it is up again (the service units
wait 10 s). The private stream connects a little after the periodic tasks start;
what is lost in between is a `StreamDrop`. Paper and dry-run modes place no orders and
are not in the model.

### BlockHistory, MCOrderFlow
`BlockHistory` adds a history variable, the symbols seen flat or protected while the
current cycle read positions, to state `BlockLiftedOnlyWhenSafe`. `MCOrderFlow` states
the refinement of `ExitDuty`.

### ExitDuty
The abstract specification: a duty to protect a filled entry is announced, taken up at
most once, and met by one exit or lost for good, and none stays open for ever. The
mapping from `OrderFlow`: a duty is *met* when an exit intent names the entry as its
parent; *due* while the handler stands between the fill and the exit; *announced* while
a Filled event of the entry is undelivered and the entry not in `_seen_filled`; *lost*
when the exchange has filled the entry and none of these holds. That a lost duty never
comes back is the hard part: events are redelivered, snapshots set statuses back, and a
restart forgets `_seen_filled`. The liveness conjunct `Discharged` is what makes a step
that never takes a fill up a violation; `SafeSpec` is the specification without it.

### Ladder, RiskEngine, RiskGate
`Evaluate` is `evaluate_with_report`: the checks in their order, as a sequence of
reason and condition of which the first that holds is the answer. `RiskGate` puts it
between the breaker, the watchdog and the refresh.

| variable | code |
|---|---|
| `age` | ticks since `FeedStalenessWatchdog._last_seen` of each public channel |
| `late` | ticks since the last watchdog cycle |
| `left`, `rejections` | `CircuitBreaker._tripped_until`, `_consecutive_rejections` |
| `flag` | the breaker flag of `HealthState` |
| `safe_mode`, `refresh` | `_portfolio.safe_mode`; the coroutine of the refresh |
| `decision` | where the decision loop is with one entry |
| `sent`, `refused` | history: entries since the trip; ticks since the last refusal |

`_trip_if_needed` counts past its threshold and nothing resets the count, so the model
keeps it up to the threshold. `record_fill_pnl` is called by the backtest alone: in the
live runtime losses never trip the breaker, and neither does the daily loss of the
portfolio, which no fill updates.

### WsClient, MarketFeed
`WsClient` is one of the two clients: `phase` is where `run_forever` stands, `reader` and
`ping` are its two tasks, `link` is what the network makes of the socket, `kept` is
`_connection`. A failure raises out of `_run_once` before `_connection` and the health
state are reset, so both stay behind (`ConnectionFails`); only a connection whose two
tasks have returned gets there, which needs a stop. `Connect` assumes that the reader of a
failed handshake, which nobody cancels or waits for, has come to its end when the backoff
is over. This is so for the public client, whose handler does not suspend; a handler of the
private client that takes longer than the backoff would go on beside the new connection,
and that is outside the model. `MarketFeed` composes the client with the
warmup, the one queue of confirmed klines and the decision loop. A candle is its number;
a bar also remembers whether it was complete when it was appended. `missed` is history.

### Drill
`_demo_drill_cycle` from the wait for a price to the answer, with the stream's handler
and a reconcile cycle that write the order it placed. Prices are multiples of a tick that
makes the offset of 2 bps an integer. A REST call fails in two ways: a `BybitRestError` is
caught and goes on to the next round or to an aborted outcome, a transport error (httpx,
after the retries) is not and ends the task, with nothing said in the outcome. `at` is
"failed" when the order may have been sent and was not acknowledged: it may still arrive.

### Candidates, RegimeFilter, Sizing, ModelFilter, Signals
The stages from a closed candle to an entry as operators, in integers: rates in
hundredths of a basis point, confidences in units of 1/10000. `Signals` lets candles of
both timeframes close in any order and evaluates the stages on every account and score.
The score of the model is an input; what a mode does with it, and when there is none, is
modelled.
The accounts are taken to have a positive step and minimum quantity per symbol, which the
settings do not enforce: with a minimum of zero a size of zero would have no reason.

### SoakReport, Promotion, Soak
`Failures`, `Warnings`, `Verdict` are `compute_verdict`, and `PromotionVerdict` is
`compute_promotion_verdict` over the aggregate. `Soak` generates what they judge:
sessions in which each step moves exactly the counters the runtime moves there, with the
suspension points between them at which a session may be cut off. `fate[e]` is history,
how far an entry order really came; a report carries, for the properties, whether any
order of its session was left unaccounted for (`LooseEnds`) and the blocks that stood.

### RestRetry
The loop of `_request` for concurrent requests. `state[r]` is the `RetryCallState`
made when request r began, `current` the one held by the shared `AsyncRetrying`
object; a turn of any loop consults `current`. tenacity is external: modelled from how
it drives the `async for`: iterating installs a new state, each later turn looks at
the state's outcome and ends, raises, sleeps or sends again.

### RateLimiter
`acquire` of one group (groups share nothing). Time is relative: the age of each call
that returned, in ticks of 1 ms (the shortest sleep of the code), capped one past the
window, where a time stamp has expired for good. The first caller of `queue` holds
the lock; `left` is what remains of its sleep. A sleeper may wake late.

### Supervisor
`run`, `_startup` in the three parts its awaits cut it into, `_task_supervisor` and
`_shutdown` step by step, with tasks failing, signals and the database coming and
going at any point. Tasks carry no data; what they do is in the other modules. `asked`
(a signal came while nothing had stopped the runtime) and `found` (the supervisor found a
failed task) are history: no action reads them, and they say of a summary whether it tells
how the session ended, which the state at the end alone does not show.

## 4. Runs

| run | instance | shows |
|---|---|---|
| `order_flow_faults` | 1 symbol, 1 entry of 2 units, 2 exit ids, queue of 2, 1 connection loss, 1 duplicate, 1 attempt | `TypeOK`, `OneExitPerFill`, `ExitCoversFill`, `LocalNeverAhead` |
| `order_flow_live` | 1 symbol, 1 entry of 1 unit, 1 exit, 1 stop, 1 connection loss before it | `ImplementsExitDuty`, `UnprotectedGetsBlocked`, `StoreConverges`, `BlocksLifted` |
| `block_history` | 2 symbols, 1 entry, 1 exit, 1 connection loss, 1 stop | `BlockLiftedOnlyWhenSafe` |
| `block_flags` | 1 symbol, 1 entry of 1 unit, 1 exit, 2 attempts, adds allowed, 3 mismatches, 1 refresh, 1 stop | `BlocksConsistent`, `LocalNeverAhead` |
| `risk_gate` | 2 symbols, threshold of 2 rejections, cooldown 3, stale after 2, watchdog every 2 ticks | `NoApprovalOnStaleFeed`, `OneEntryAfterTrip`, `TripIsVisible`, `RefusalsSpaced`, `GateReopens` |
| `market_feed` | candles 1 to 4, 2 per regime candle, 2 fetched, histories of 3 | `BarsInOrder`, `GapOnlyWhereMissed`, `RegimeInStep`, `StreamsAgain` |
| `drill` | 18 settings, 2 prices, the code's 25, 2 and 5 seconds | `CapHolds`, `CompletedWhenOver`, `DrillConcludes` |
| `signals` | 13 candles, 5 regime bars, 20 accounts, lookback 1 | `CandidatesSound`, `SizedWithinBudget`, `EntersWithinLimits` |
| `soak` | 2 entry orders, 2 reports, 4 incidents | `PassAccountsForFills`, `ReadyEndsUnblocked`, `BlamedSessionsFailed` |
| `rest_retry` | 3 requests, 3 attempts | `GivenUpAfterOwnFailure`, `RetriesAsConfigured`, `NoBusyLoop`, `EveryRequestEnds` |
| `rate_limiter` | 8 calls, 3 per window of 5 ticks | `WindowBounded`, `AtMostTwoSleeps`, `EveryCallReturns` |
| `supervisor` | 1 early and 2 late tasks | `NothingRunsOn`, `CleanIffOnlyAsked`, `StopEnds`, `FailureNoticed` |

Why the bounds are enough to be interesting: a second exit for a fill needs one entry,
two exit ids and one duplicate or one resurrecting snapshot; a partial fill needs two
units (`order_flow_faults`); a retry after acceptance needs two attempts
(`block_flags`; the two together are left to the proofs); a stop takes the
connection with it, so `MaxDrops` counts stops as well; a mixed reading of a reconcile
cycle needs two symbols; a block that survives needs one mismatch, the branch
that records an abort reason three (`block_flags`); a cross of retry states needs two
requests, three make chains. The number of reconcile cycles is not bounded. In `risk_gate` one feed is fresh
while the other is stale, the threshold is passed with a refusal to spare, and a cooldown
(3) outlasts a watchdog period (2) as 120 s do 5 s; its behaviours are not bounded. In
`market_feed` the histories overflow (3 bars of 4 candles), the backlog can hold every
candle, and connections are not bounded. `drill` has each setting wrong once and every
mode, side and position otherwise. In `signals` one price unit lies just below a trend
and just over a breakout, and the accounts have no room, room for a floor, and room for
two lots. In `soak` a promotion needs two sessions, the three mismatches of an abort fit
the incidents, and two entries let the sums of one session hide a missing exit behind
another. The safety properties that the bounds might still hide are proved for every
value where section 6 says so. Liveness was checked on the smallest instance in which
each fault happens once.

Deadlock is checked in every run of `OrderFlow`, in `RateLimiter`, `RiskGate` and
`Signals`. It is off where the system really stops: `RestRetry` (all requests have ended),
`Supervisor` (the process has exited), `MarketFeed` (the client was stopped and time has
reached its bound), `Drill` (the drill is over) and `Soak` (the sessions are over).

## 5. Fairness

* `OrderFlow`: weak fairness of every step the event loop can go on with (a submission
  gets an answer or its timeout; a queued event is handled; the next cycle starts).
  Reads of a reconcile cycle may fail any number of times and abandon the cycle, which
  is tried again every 30 s: strong fairness says that some cycle gets through. The
  exchange, connections, the operator and the signals owe nothing. Nobody owes a
  restart: the systemd units restart only after a crash, and a task failure ends the
  process with status 0; so the liveness properties are about a runtime that stays up.
  That a task of a running process goes on is what `Supervisor` examines.
* `RestRetry`: HTTP exchanges end (request timeout) and sleeps are over some time.
* `RateLimiter`: time goes on and sleepers wake.
* `Supervisor`: weak fairness of startup, supervisor and shutdown.
* `RiskGate`: time passes, the watchdog and the refresh are periodic tasks (weak), and a
  refresh is answered again and again (strong: it may fail any number of times). Nothing
  is owed by the feed or the strategy; `GateReopens` asks for a feed that stays fresh.
* `MarketFeed`: the tasks of the process go on (weak). Attempts to connect are answered
  again and again (strong): of repeated attempts, each step of a handshake succeeds at
  some time. A silent link breaks while it is pinged: unacknowledged data makes the
  system give it up. Nobody owes a link that stays up.
* `Drill`: the drill's task runs and a REST call comes back, with an answer or without.
* `Signals`, `Soak`: no fairness, safety only.

## 6. Proofs

For every value of the constants, under the named assumptions of the modules
(`LotAssumption`: an entry has a positive quantity; `LinksAssumption`: entry and exit
ids are different; `MaxMismatchesAssumption`, `BoundsAssumption`, `SettingsAssumption`;
`RetriesAssumption`, `RequestsAssumption`; `LimitAssumption`, `CallsAssumption`;
`TasksAssumption`; `LimitsAssumption`, `PeriodsAssumption`, `SwitchesAssumption`;
`CandlesAssumption`; `DrillAssumption`: one order, positive prices; `ThresholdsAssumption`;
`CandidatesAssumption`, `RegimeAssumption`; `BarsAssumption`: a close lies between low and
high; `AccountsAssumption`: the step and minimum of a symbol are positive, positions and
their marks not negative). TLC evaluates each of them on the instances of section 4.

* **OrderFlowProofs**: `TypeCorrect`, `OneExit`, `ExitsCover`, `NeverAhead`,
  `BlockFlags`. `OneExitPerFill` is not inductive: a second exit could follow from a
  handler state that never arises. The inductive invariant `IInv` adds: `Intended`
  (whatever names an order names a built one), `FillsBounded` (what is executed fits
  quantity and status), `StreamTrue` and `SnapshotTrue` (what is on its way to the store,
  however late or duplicated, was true and is of the kind that stays true), `LocalTrue`
  (hence so is the store), `HandlerTrue` (an entry about to be protected is filled, in
  `_seen_filled`, and without an exit if it can get one) and `ExitsSeen` (an entry with
  an exit that could get another is in `_seen_filled`; after a restart it has lost the
  metadata that would let it). The statuses that stay true are the crux: Filled and
  Rejected are final on the exchange, partial fills only grow, so old news is still
  news that happened. `BlockFlags` has an invariant of its own.
  `Refinement`: the order flow implements `Duty!SafeSpec`. Under `IInv` and `IdsApart` (ids
  of entries and of exits do not mix, an unused id names no parent), every action maps to
  one step of `ExitDuty` or to none: the exchange's last fill to `Filled`, `HandleUpdate` to
  `TakenUp`, `PlaceExit` to `Met`, and what forgets (a drop, a stop, a skipped or failed
  plan) to `Lost` of several duties at once.
  `BlockLifting`: `BlockLiftedOnlyWhenSafe` of `BlockHistory`. The invariant `SeenSafe` says
  what a cycle has learnt so far: a symbol it has read flat, or whose exits it has read,
  was safe at some instant since it began.
* **RestRetryProofs**: `TypeCorrect` (attempts never pass the maximum although requests
  advance each other's counters), `OwnFailureFirst`, `NeverBusy`, from an invariant on
  how a request's counters relate to the requests that began after it.
  `AloneAsConfigured`: a request no other crosses is retried as configured. `Uncrossed` adds
  that such a request, while under way, is the only one and owns the state that the shared
  object consults.
* **RateLimiterProofs**: `TypeCorrect`, `Bounded`, `NoPolling`. The bound follows because
  every call inside the window is in the queue of time stamps (`Recorded`), which is
  never longer than the limit; two sleeps suffice because the sleep and the age of the
  oldest time stamp move together (`Sleeping`).
* **SupervisorProofs**: `TypeCorrect`, `TasksGone` (`NothingRunsOn`), `SummaryTrue`
  (`CleanIffOnlyAsked`). When the summary is written, only the flag is left of how the
  session ended; `Truthful` keeps the two together until then: whatever set the stop event
  was a signal, a startup that failed or a failed task that was found, a supervisor about
  to write its record has found one, and the flag is still set exactly when neither of the
  latter two has happened.
* **EntryProofs**, about `RiskGate`: `TypeCorrect`, `Visible`, `OneEntry`,
  `NotOnStaleFeed`, `Spaced`. None
  of the parts needs the safe mode, which is the point: what keeps entries from a stale
  feed is that the watchdog's cooldown outlasts its period (`PeriodsAssumption`), so that
  cooldown left and delay of the watchdog move against each other (`SilenceTrips`); in the
  same way the cooldown left and the age of a refusal (`RefusedBlocked`). Both rest on the
  breaker being the first check of the risk engine (`TrippedRefuses`).
* **EntryProofs**, about `Signals`: `CandidatesAreSound`, `SizeFitsBudget`, `EntryFitsLimits`.
  The only invariant of the steps is `HistoriesOK`; the work is in the operators. A breakout
  is measured on a window that ends with the bar before, so each of the four patterns, and
  each weaker candidate of a demo, says which way the last candle went
  (`BreakoutUpRises`, `BreakoutDownFalls`, `MoveIs`): all candidates of a candle agree
  (`RawFits`), one is left of them (`DedupedFits`), and a candle that moved has a range,
  so its stop has a distance (`RangeOfMove`). `SteppedFits` and `SizeIs` follow a quantity
  through its two roundings. An approval means that no check failed (`Passed`). The sums
  over windows and portfolios rest on `SumSound`: what the sum of a function over a finite
  set is, from its recursive definition, by the least size of a set for which it would be
  false.
* **MarketFeedProofs**: `TypeCorrect`, `HistoryInOrder` (`BarsInOrder`), `GapsExplained`
  (`GapOnlyWhereMissed`), `TimeframesInStep` (`RegimeInStep`). The queue of the decision loop
  and the frames the client has not read are one pipeline. It is in the order in which
  candles closed (`PipelineInOrder`, `PipelineClosed`), each history is behind it
  (`HistoriesBehind`), neighbours in a history may follow each other and what is between
  them was missed (`HistoriesLinked`), and every closed candle was missed, is on its way or
  is reached (`Accounted`): without the last, the bar appended next could leave a gap that
  nobody missed. `WarmupFirst` keeps the stream out until the histories are preloaded.
* **DrillProofs**: `TypeCorrect`, `CapAlwaysHolds` (`CapHolds`), `CompletedAsItIs`
  (`CompletedWhenOver`). The cap holds because what is sent was validated
  (`SentValidated`) at a price that does not change under it (`SentPriced`). What the drill
  reports is the order's end because the store knows the order before any update can
  arrive (`SentRegistered`), the stream ends with the present status and nothing follows a
  terminal one (`StreamCurrent`), and the store holds an end only after its update was
  handled, or else the reconcile cycle wrote it (`EndTold`).
* **SoakProofs**: `Invariance`, `PassAccounts` (`PassAccountsForFills`), `ReadyUnblocked`
  (`ReadyEndsUnblocked`), `BlamedFailed` (`BlamedSessionsFailed`). The verdicts compare
  counters, the properties speak of orders; the invariant joins them: each answer
  that is awaited leaves the acknowledgements one short (`AcksShort`), every fill is
  settled but the one the handler is at (`FillsSettled`, `OneAtHandler`, `ExitAwaited`),
  and nothing is under way between sessions (`NothingLeft`). `SoundReport` carries this
  over into the reports a promotion adds up.

Every invariant and every action property of the runs is proved. Only model-checked is
liveness: `UnprotectedGetsBlocked`,
`StoreConverges`, `BlocksLifted`, the `Discharged` part of `ImplementsExitDuty`,
`GateReopens`, `StreamsAgain`, `DrillConcludes`, `EveryRequestEnds`, `EveryCallReturns`,
`StopEnds`, `FailureNoticed`. The prover does not reason about fairness and ENABLED.

## 7. Where code and words disagree

Met while modelling; the modules follow the code.

* "Block new entries when symbol already has exposure or working entry"
  (`orchestrator.py:2547`): the guard reads a portfolio snapshot that may be older than a
  fill and only the local store. In `OrderFlow` a second entry is let through after the
  first one filled, until the next refresh; no property of the runs says otherwise.
* `_request` ends with a statement marked "Unreachable retry termination"
  (`bybit_rest.py:360`). It is reached: all loops share one retry state, and a request
  that fails after a later one succeeded ends there (result `"unreachable"` of
  `RestRetry`).
* "Fail-fast supervisor: stop runtime when any critical task exits" (`orchestrator.py:464`):
  the supervisor records a failure before it acts on it, and ends when the record cannot
  be written; `FailureNoticed` is what remains.
* `MarkClosedMissing` is for an order "no longer on exchange" (`order_manager.py:102`), but
  an order still being sent is taken for one, and is then accepted.
* "No new entries until resolved" (`orchestrator.py:1797`): importing the entry order of an
  earlier session ends the startup block one cycle later, while the order is still open.
* The runbook says "No new orders until cooldown expires" (`docs/DEMO_RUNBOOK.md:58`). The
  one entry that had passed the risk check goes out (`OneEntryAfterTrip`), and drills and
  protective exits ask no breaker.
* The safe mode the watchdog raises lasts until the next refresh, not until the feed is
  back; it is the breaker, tripped again by each watchdog cycle, that holds entries back.
  Without credentials no refresh runs and the safe mode is never lifted.
* Health says a websocket is connected during every backoff after a failure
  (`bybit_ws_private.py:98`), and the delay between attempts never shrinks again, as
  `_run_once` returns normally only at a stop.
* Warmup: "Historical klines are confirmed" (`runtime/warmup.py`), but the newest one of a
  REST answer is still in progress; the stream then appends the same candle again.
* Shadow mode is documented to score but never block (`docs/OFFLINE_EVAL.md:120`), but a
  candidate without a prediction is dropped in every mode (`orchestrator.py:2243`); an
  artifact that cannot be loaded, on the other hand, switches the filter off and lets
  everything pass.
* `_symbol_hash` (`filter_predictor.py:67`) uses Python's `hash` of a string, which differs
  from process to process.
* `_submit_intent` handles every `BybitRestError` itself, so the handler of a failed exit
  placement (`orchestrator.py:1514`) is unreachable and its counter stays 0; a refused exit
  shows in a soak report only as more submissions than acknowledgements.
* An exit is counted as submitted before it is: a session stopped at the ledger write in
  between leaves a PASS although the exit never went out. A clean stop with a submission
  in flight leaves a FAIL.
* A paper session in which the filter allows a candidate registers an intent, submits
  nothing and is a FAIL; `READY_FOR_NEXT_PHASE` is never the verdict; a killed session
  leaves no report, so the promotion never hears of it.
* In the drill, a reconcile cycle that writes the terminal status first leaves the outcome
  "pending"; a drill may be both aborted and completed; a sell is priced 2 bps above the
  reference its cap was asked of; a reduce-only drill has no cap.

## 8. What is not modelled

See `components` in `PROJECT.json` for every part with its reason. In short:

* Backtest engine, walk-forward and purged splits: offline and sequential. Reading them
  showed an opposite fill that adds quantities instead of netting them
  (`backtest/engine.py:381`), funding that credits longs at a positive rate, an undefined
  `val_duration` when folds do not expand (`research/evaluation/purged_cv.py:89`), the last
  sample in no fold, and a walk-forward step of 0 days that never ends.
* Research, training, registry: batch code, file I/O and numeric fitting.
* Journal, storage and metrics only append; settings and installation are configuration.
* Inside modelled parts: fees and execution events, the second index of the order manager,
  amounts of money beyond what a limit compares, wording of reports, the length of a
  backoff, `CandleBuilder` (the live runtime feeds it nothing), the loss limits of the
  breaker (the live runtime feeds them nothing), the score of the model.
