---------------------------- MODULE RegimeFilter ----------------------------
(***************************************************************************)
(* RegimeFilter.evaluate_with_report: whether the hours let a candidate    *)
(* through.  Rates as in Candidates; no funding rate is ever passed in.    *)
(***************************************************************************)
EXTENDS Candidates, Ladder

CONSTANTS
    RegimeBars,   \* 24 bars of regime_timeframe
    TrendLimit,   \* trend_threshold_bps, in hundredths
    MaxVolatility, MinVolatility

ASSUME RegimeAssumption ==
    RegimeBars \in Nat \ {0, 1} /\ TrendLimit \in Nat \ {0}

Recent(hours) == SubSeq(hours, Len(hours) - RegimeBars + 1, Len(hours))

\* The mean of the absolute returns.
Volatility(hours) ==
    LET recent == Recent(hours)
        return(i) == Rate(Abs(recent[i].close - recent[i - 1].close), recent[i - 1].close)
    IN  SumFunction([i \in 2 .. RegimeBars |-> return(i)]) \div (RegimeBars - 1)

Trend(hours) ==
    LET recent == Recent(hours)
    IN  Rate(recent[RegimeBars].close - recent[1].close, recent[1].close)

\* The more the hours swing, the more of a trend it takes.
InferState(hours) ==
    LET limit == TrendLimit + Volatility(hours) \div 20
    IN  IF Trend(hours) >= limit THEN "risk_on_long"
        ELSE IF Trend(hours) <= -limit THEN "risk_on_short"
        ELSE "range"

Matches(type, state) ==
    (state = "risk_on_long" /\ type \in Long) \/ (state = "risk_on_short" /\ type \in Short)

Enough(hours) == Len(hours) >= RegimeBars

Regime(hours, type) ==
    LET usable == Enough(hours) /\ \A i \in DOMAIN Recent(hours) : Recent(hours)[i].confirmed
    IN FirstFailing(
        << Check("insufficient_1h_context", ~Enough(hours)),
           Check("unconfirmed_1h_candles", Enough(hours) /\ ~usable),
           Check("volatility_above_limit", usable /\ Volatility(hours) > MaxVolatility),
           Check("volatility_too_low", usable /\ Volatility(hours) < MinVolatility),
           Check("regime_mismatch", usable /\ ~Matches(type, InferState(hours))) >>,
        "regime_match")

\* SignalEngine.evaluate of a candidate that is let through; no meta gate is
\* configured.
SignalConfidence(candidate) == Capped((candidate.confidence * 8) \div 10 + 2000, 9900)

=============================================================================
