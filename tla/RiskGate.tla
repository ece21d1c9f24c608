------------------------------ MODULE RiskGate ------------------------------
(***************************************************************************)
(* What keeps entries from being made while something is wrong: the        *)
(* circuit breaker, the safe mode of the portfolio snapshot and the        *)
(* staleness watchdog, against the decision loop, the portfolio refresh    *)
(* and the refusals of orders.                                             *)
(*                                                                         *)
(* Time is counted in ticks, as the age of what the code has stamped; an   *)
(* age is capped where nothing can tell it from a greater one.  A step     *)
(* runs from one suspension of a task to the next.  Which signals come,    *)
(* and the guards after the risk check (modelled in OrderFlow), are        *)
(* choices here.                                                           *)
(***************************************************************************)
EXTENDS RiskEngine

CONSTANTS
    Symbols,         \* settings.trading.symbols
    MaxRejections,   \* CircuitBreakerConfig.max_consecutive_rejections
    Cooldown,        \* CircuitBreakerConfig.cooldown_seconds
    StaleLimit,      \* FeedStalenessLimit.max_age of the public stream
    WatchEvery,      \* ticks between two cycles of the watchdog, its delay included
    HasCredentials,  \* without them the portfolio is never refreshed
    SafeModeSetting, \* settings.risk.safe_mode
    Orders           \* orders the strategy can propose, sized and priced

\* The cooldown outlasts the watchdog's period (120 s against 5 s).
ASSUME PeriodsAssumption ==
    /\ MaxRejections \in Nat \ {0} /\ StaleLimit \in Nat
    /\ WatchEvery \in Nat \ {0} /\ Cooldown \in Nat /\ WatchEvery <= Cooldown

ASSUME SwitchesAssumption == HasCredentials \in BOOLEAN /\ SafeModeSetting \in BOOLEAN

VARIABLES
    age,        \* age[s]: ticks since _last_seen of the channel public:s
    late,       \* ticks since the last watchdog cycle
    left,       \* ticks before _tripped_until is past; -1 when it is
    rejections, \* _consecutive_rejections, as far as the threshold
    flag,       \* HealthState._circuit_breaker_tripped
    safe_mode,  \* _portfolio.safe_mode
    refresh,    \* _refresh_portfolio_snapshot
    decision,   \* the entry the decision loop is at
    sent,       \* history: entries sent since the breaker was last not tripped
    refused     \* history: ticks since an entry's refusal at the threshold

vars == <<age, late, left, rejections, flag, safe_mode, refresh, decision, sent, refused>>

StaleAge == StaleLimit + WatchEvery + 1

TypeOK ==
    /\ age \in [Symbols -> 0 .. StaleAge]
    /\ late \in 0 .. WatchEvery
    /\ left \in -1 .. Cooldown
    /\ rejections \in 0 .. MaxRejections
    /\ flag \in BOOLEAN /\ safe_mode \in BOOLEAN
    /\ refresh \in {"idle", "reading"}
    /\ decision \in {"idle", "approved", "sent"}
    /\ sent \in 0 .. 2
    /\ refused \in 0 .. Cooldown + 1

Init ==
    /\ age = [s \in Symbols |-> 0]
    /\ late = WatchEvery
    /\ left = -1
    /\ rejections = 0
    /\ flag = FALSE
    /\ safe_mode = SafeModeSetting
    /\ refresh = "idle"
    /\ decision = "idle"
    /\ sent = 0
    /\ refused = Cooldown + 1

-----------------------------------------------------------------------------
(***************************************************************************)
(* The breaker.                                                            *)
(***************************************************************************)

\* is_tripped: the last instant counts.
Tripped == left >= 0

\* trip: every cause starts the cooldown anew.
Trip == left' = Cooldown

\* Mutant of TripIfNeeded: compares for equality with a count that goes on.
TripAtThreshold(count) ==
    IF count = MaxRejections /\ rejections # MaxRejections THEN Trip ELSE UNCHANGED left

\* _trip_if_needed, after a refusal; losses and pnl are never recorded by the
\* runtime, so that their thresholds are out of reach.
TripIfNeeded(count) ==
    IF count >= MaxRejections THEN Trip ELSE UNCHANGED left

\* Mutant of Rejection: leaves the health flag to the watchdog.
RejectionUnflagged ==
    LET count == IF rejections = MaxRejections THEN rejections ELSE rejections + 1 IN
    /\ rejections' = count
    /\ TripIfNeeded(count)
    /\ UNCHANGED flag

\* record_order_rejection and what _submit_intent does around it.  An order
\* that is accepted leaves the count as it is.
Rejection ==
    LET count == IF rejections = MaxRejections THEN rejections ELSE rejections + 1 IN
    /\ rejections' = count
    /\ TripIfNeeded(count)
    /\ flag' = (left' >= 0)

-----------------------------------------------------------------------------
(***************************************************************************)
(* Time, the feed and the watchdog.                                        *)
(***************************************************************************)

\* A tick does not leave the watchdog behind its period.
Tick ==
    /\ late < WatchEvery
    /\ late' = late + 1
    /\ age' = [s \in Symbols |-> IF age[s] = StaleAge THEN age[s] ELSE age[s] + 1]
    /\ left' = IF Tripped THEN left - 1 ELSE left
    /\ refused' = IF refused = Cooldown + 1 THEN refused ELSE refused + 1
    /\ sent' = IF left = 0 THEN 0 ELSE sent
    /\ UNCHANGED <<rejections, flag, safe_mode, refresh, decision>>

\* An event of the public stream about the symbol: mark_seen.
Seen(s) ==
    /\ age[s] > 0
    /\ age' = [age EXCEPT ![s] = 0]
    /\ UNCHANGED <<late, left, rejections, flag, safe_mode, refresh, decision, sent, refused>>

\* stale_channels({"public"}).
Stale == {s \in Symbols : age[s] > StaleLimit}

\* Mutant of WatchdogCycle: trips a breaker that is not tripped.
WatchdogTripsOnce ==
    /\ late' = 0
    /\ IF Stale = {} THEN flag' = Tripped /\ UNCHANGED <<left, safe_mode>>
       ELSE /\ IF Tripped THEN UNCHANGED left ELSE Trip
            /\ flag' = TRUE
            /\ safe_mode' = TRUE
    /\ UNCHANGED <<age, rejections, refresh, decision, sent, refused>>

WatchdogCycle ==
    /\ late > 0
    /\ late' = 0
    /\ IF Stale = {} THEN flag' = Tripped /\ UNCHANGED <<left, safe_mode>>
       ELSE Trip /\ flag' = TRUE /\ safe_mode' = TRUE
    /\ UNCHANGED <<age, rejections, refresh, decision, sent, refused>>

-----------------------------------------------------------------------------
(***************************************************************************)
(* _refresh_portfolio_snapshot.                                            *)
(***************************************************************************)

RefreshStart ==
    /\ HasCredentials
    /\ refresh = "idle"
    /\ refresh' = "reading"
    /\ UNCHANGED <<age, late, left, rejections, flag, safe_mode, decision, sent, refused>>

\* Mutant of RefreshDone: takes the safe mode over, as it does the pnl.
RefreshKeeps ==
    /\ refresh = "reading"
    /\ refresh' = "idle"
    /\ UNCHANGED <<age, late, left, rejections, flag, safe_mode, decision, sent, refused>>

\* Wallet and positions are read: a new PortfolioState replaces the one in
\* which the watchdog may have set the safe mode.
RefreshDone ==
    /\ refresh = "reading"
    /\ refresh' = "idle"
    /\ safe_mode' = SafeModeSetting
    /\ UNCHANGED <<age, late, left, rejections, flag, decision, sent, refused>>

RefreshFails ==
    /\ refresh = "reading"
    /\ refresh' = "idle"
    /\ UNCHANGED <<age, late, left, rejections, flag, safe_mode, decision, sent, refused>>

-----------------------------------------------------------------------------
(***************************************************************************)
(* The decision loop and the answers to orders.                            *)
(***************************************************************************)

\* Positions and pnl do not vary here: Evaluate itself is checked on its own.
Portfolio == [equity |-> 1, realized |-> 0, positions |-> <<>>, safe_mode |-> safe_mode]

\* Mutant of Approved: the safe mode is taken to cover what trips the breaker.
ApprovedUntripped(order) == Evaluate(FALSE, Portfolio, order) = "approved"

Approved(order) == Evaluate(Tripped, Portfolio, order) = "approved"

\* The risk check of a sized signal; a refused signal is dropped.
Approve ==
    /\ decision = "idle"
    /\ \E order \in Orders : Approved(order)
    /\ decision' = "approved"
    /\ UNCHANGED <<age, late, left, rejections, flag, safe_mode, refresh, sent, refused>>

\* The model filter, a block flag or the entry guard drops it after all.
Drop ==
    /\ decision = "approved"
    /\ decision' = "idle"
    /\ UNCHANGED <<age, late, left, rejections, flag, safe_mode, refresh, sent, refused>>

\* Registered and recorded, the order goes out; nothing asks the breaker again.
Send ==
    /\ decision = "approved"
    /\ decision' = "sent"
    /\ sent' = IF Tripped /\ sent < 2 THEN sent + 1 ELSE sent
    /\ UNCHANGED <<age, late, left, rejections, flag, safe_mode, refresh, refused>>

EntryAccepted ==
    /\ decision = "sent"
    /\ decision' = "idle"
    /\ UNCHANGED <<age, late, left, rejections, flag, safe_mode, refresh, sent, refused>>

\* place_order raises: the exchange refuses, or no answer comes.
EntryRefused ==
    /\ decision = "sent"
    /\ decision' = "idle"
    /\ Rejection
    /\ refused' = IF rejections' = MaxRejections THEN 0 ELSE refused
    /\ UNCHANGED <<age, late, safe_mode, refresh, sent>>

\* A protective exit or the drill order is refused; neither asks the breaker.
OtherRefused ==
    /\ Rejection
    /\ UNCHANGED <<age, late, safe_mode, refresh, decision, sent, refused>>

-----------------------------------------------------------------------------
Feed == \E s \in Symbols : Seen(s)

RefreshCycle == RefreshStart \/ RefreshDone \/ RefreshFails

DecisionLoop == Approve \/ Drop \/ Send \/ EntryAccepted \/ EntryRefused

Next == Tick \/ Feed \/ WatchdogCycle \/ RefreshCycle \/ DecisionLoop \/ OtherRefused

Spec == Init /\ [][Next]_vars

\* Time passes, the periodic tasks run, and the exchange answers a refresh
\* again and again.
FairSpec ==
    /\ Spec
    /\ WF_vars(Tick) /\ WF_vars(WatchdogCycle)
    /\ WF_vars(RefreshStart) /\ SF_vars(RefreshDone)

-----------------------------------------------------------------------------
(***************************************************************************)
(* Properties.                                                             *)
(***************************************************************************)

\* No entry passes the risk check on a feed that has been silent for longer
\* than the limit and one watchdog period, for as long as the silence lasts:
\* the refresh clears the safe mode under the watchdog, and the breaker is
\* what holds until the next cycle trips it again.
NoApprovalOnStaleFeed ==
    [][Approve => \A s \in Symbols : age[s] <= StaleLimit + WatchEvery]_vars

\* Between a trip and the end of its cooldown at most one entry goes out, the
\* one that had passed the risk check before: a trip does not stop an order
\* on its way, and the loop does not get to a second one.
OneEntryAfterTrip == sent <= 1

\* Health never calls an open breaker closed: a trip and the flag change in
\* one step on both paths to a trip.
TripIsVisible == Tripped => flag

\* At the threshold, entries that keep being refused are at least a cooldown
\* apart, although the count goes on past the threshold and accepted orders
\* and other refusals come in between.
RefusalsSpaced ==
    [][EntryRefused /\ rejections = MaxRejections => refused > Cooldown]_vars

Quiet == ~SafeModeSetting /\ Stale = {}

\* When the feed stays fresh and orders are no longer refused, entries are let
\* through again: neither the trip nor the safe mode of the past remains.
GateReopens ==
    <>[]Quiet /\ <>[][~(EntryRefused \/ OtherRefused)]_vars
        => <>[](~Tripped /\ ~safe_mode)

=============================================================================
