------------------------------ MODULE Signals -------------------------------
(***************************************************************************)
(* The way of a closed candle through the stages of the decision loop:     *)
(* candidates, regime filter, sizing, risk engine and model filter, over   *)
(* the histories of the two timeframes as candles come in.  What an entry  *)
(* meets after that is in OrderFlow.                                       *)
(***************************************************************************)
EXTENDS RegimeFilter, Sizing, ModelFilter, RiskEngine

CONSTANTS
    Candles,   \* bars of candle_timeframe that can come
    Hours,     \* bars of regime_timeframe
    Relax,     \* demo_relaxed_candidate_validation, in DEMO
    Mode,      \* of the runtime
    FilterEnabled, FilterMode, Threshold, \* of the model filter
    Accounts,  \* [portfolio, symbol, leverage, floor] a session can be in
    Symbol

\* The bars the exchange sends.
ASSUME BarsAssumption ==
    \A bar \in Candles \union Hours :
        /\ bar \in [high : Nat, low : Nat, close : Nat, volume : Nat, confirmed : BOOLEAN]
        /\ bar.low <= bar.close /\ bar.close <= bar.high

\* The quantities of a symbol are positive as its specification has them; the
\* settings do not check it.
ASSUME AccountsAssumption ==
    \A account \in Accounts :
        /\ account.leverage \in Nat /\ account.floor \in Nat
        /\ account.symbol \in [min_qty : Nat \ {0}, step : Nat \ {0}, leverage : Nat]
        /\ account.portfolio.equity \in Int
        /\ IsFiniteSet(DOMAIN account.portfolio.positions)
        /\ \A s \in DOMAIN account.portfolio.positions :
              LET position == account.portfolio.positions[s]
              IN  position.qty \in Nat /\ position.mark \in Nat

VARIABLES
    bars, \* _bar_history of the symbol, candle_timeframe
    hours \* and regime_timeframe

signalVars == <<bars, hours>>

\* As many bars as the code looks at; the maxlen of 800 is above both.
Kept(history, n) == IF Len(history) > n THEN Tail(history) ELSE history

HistoriesOK ==
    /\ bars \in Seq(Candles) /\ Len(bars) <= Lookback + 2
    /\ hours \in Seq(Hours) /\ Len(hours) <= RegimeBars

SignalInit == bars = <<>> /\ hours = <<>>

CandleCloses ==
    /\ \E bar \in Candles : bars' = Kept(Append(bars, bar), Lookback + 2)
    /\ UNCHANGED hours

HourCloses ==
    /\ \E bar \in Hours : hours' = Kept(Append(hours, bar), RegimeBars)
    /\ UNCHANGED bars

SignalNext == CandleCloses \/ HourCloses

SignalSpec == SignalInit /\ [][SignalNext]_signalVars

-----------------------------------------------------------------------------
Offered == CandidatesFor(bars, Relax)

\* An account without equity is sized as if it had one unit.
SizingInput(candidate, account) ==
    [equity |-> AtLeast1(account.portfolio.equity),
     confidence |-> SignalConfidence(candidate), volatility |-> Volatility(hours),
     price |-> candidate.price, leverage |-> account.leverage]

Sized(candidate, account) ==
    SizeQty(SizingInput(candidate, account), account.symbol, account.floor)

Order(candidate, account) ==
    [symbol |-> Symbol, side |-> IF candidate.type \in Long THEN "Buy" ELSE "Sell",
     qty |-> Sized(candidate, account), price |-> candidate.price,
     confidence |-> SignalConfidence(candidate) \div 100]

\* The stage at which the candidate is dropped, or "enter"; artifact is what
\* became of loading the model and score what the model says of the candidate.
Decision(candidate, account, artifact, score) ==
    LET reached == Regime(hours, candidate.type) = "regime_match"
    IN  IF ~reached THEN "regime_rejected"
        ELSE IF Sized(candidate, account) <= 0 THEN "sizing_rejected"
        ELSE IF Evaluate(FALSE, account.portfolio, Order(candidate, account)) # "approved"
             THEN "risk_rejected"
        ELSE IF ~FilterPasses(FilterActive(Mode, FilterEnabled, artifact),
                              FilterMode, score, Threshold)
             THEN "model_rejected"
        ELSE "enter"

Judged == {i \in DOMAIN Offered : Regime(hours, Offered[i].type) = "regime_match"}

-----------------------------------------------------------------------------
(***************************************************************************)
(* Properties.                                                             *)
(***************************************************************************)

\* One closed candle never leads to a long and a short candidate, since the
\* window a breakout is measured on holds the candle a trend is measured on,
\* and every candidate has its stop at a distance, on the side of its loss.
CandidatesSound ==
    LET candidates == CandidatesFor(bars, Relax)
    IN  /\ Len(candidates) <= 1
        /\ \A i \in DOMAIN candidates :
              IF candidates[i].type \in Long THEN candidates[i].stop < 0
              ELSE candidates[i].stop > 0

\* A quantity is whole steps, at least the minimum, and costs no more than
\* the risk budget or, where a floor lifts it, a tenth of the equity; a
\* candidate that gets none is given a reason.
SizedWithinBudget ==
    \A i \in Judged : \A account \in Accounts :
        LET input == SizingInput(Offered[i], account)
            qty == Sized(Offered[i], account)
            budget == NotionalBudget(input, account.symbol)
            cap == IF account.floor > 0 THEN EquityCap(input) ELSE 0
        IN  IF qty = 0 THEN RejectReason(input, account.symbol) # "none"
            ELSE /\ qty >= account.symbol.min_qty
                 /\ qty % account.symbol.step = 0
                 /\ qty * input.price <= budget \/ qty * input.price <= cap

\* Whatever the stages let through leaves the portfolio, the order counted as
\* filled, within its limits of notional and of the symbol's position.
EntersWithinLimits ==
    \A i \in Judged : \A account \in Accounts :
    \A artifact \in Artifacts : \A score \in {Unavailable, Threshold} :
        LET portfolio == account.portfolio
            order == Order(Offered[i], account)
            position == HeldSigned(portfolio, Symbol)
                           + (IF order.side = "Buy" THEN order.qty ELSE -order.qty)
        IN  Decision(Offered[i], account, artifact, score) = "enter" =>
               /\ TotalNotional(portfolio) + order.qty * order.price <= MaxTotalNotional
               /\ Symbol \in DOMAIN PerSymbol =>
                     position \in -PerSymbol[Symbol].qty .. PerSymbol[Symbol].qty

=============================================================================
