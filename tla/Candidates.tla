----------------------------- MODULE Candidates -----------------------------
(***************************************************************************)
(* BreakoutTrendCandidateGenerator: the entry candidates a closed candle   *)
(* gives rise to, and the weaker ones that a demo may try instead.         *)
(*                                                                         *)
(* Prices and volumes are integers.  A rate is in hundredths of a basis    *)
(* point and a confidence in units of 1/10000, both rounded down.          *)
(***************************************************************************)
EXTENDS Integers, Sequences, FiniteSetsExt

CONSTANTS
    Lookback,    \* lookback_bars
    MinBreakout, \* min_breakout_bps, in hundredths
    MinTrend     \* min_trend_bps, in hundredths

ASSUME CandidatesAssumption ==
    Lookback \in Nat \ {0} /\ MinBreakout \in Nat \ {0} /\ MinTrend \in Nat \ {0}

\* A bar: [high, low, close, volume, confirmed].

AtLeast1(n) == IF n < 1 THEN 1 ELSE n

Rate(change, base) == (change * 1000000) \div AtLeast1(base)

Abs(n) == IF n < 0 THEN -n ELSE n

LastOf(bars) == bars[Len(bars)]

PreviousOf(bars) == bars[Len(bars) - 1]

\* Mutant of Window: lies one bar too early.
WindowShifted(bars) == SubSeq(bars, Len(bars) - Lookback - 1, Len(bars) - 2)

\* bars_5m[-(lookback_bars + 1):-1]: the bars before the last.
Window(bars) == SubSeq(bars, Len(bars) - Lookback, Len(bars) - 1)

Highs(bars) == {bars[i].high : i \in DOMAIN bars}
Lows(bars) == {bars[i].low : i \in DOMAIN bars}

BreakoutUp(bars) == Rate(LastOf(bars).close - Max(Highs(Window(bars))), LastOf(bars).close)

BreakoutDown(bars) == Rate(Min(Lows(Window(bars))) - LastOf(bars).close, LastOf(bars).close)

CandleMove(bars) == Rate(LastOf(bars).close - PreviousOf(bars).close, PreviousOf(bars).close)

\* vol_multiplier >= 1.1 against the average volume of the window.
VolumeRises(bars) ==
    LET total == SumFunction([i \in DOMAIN Window(bars) |-> Window(bars)[i].volume])
    IN  total > 0 /\ 10 * LastOf(bars).volume * Len(Window(bars)) >= 11 * total

TrueRange(bars, i) ==
    Max({bars[i].high - bars[i].low,
         Abs(bars[i].high - bars[i - 1].close), Abs(bars[i].low - bars[i - 1].close)})

\* _estimate_atr over the window and the last bar, times the number of ranges.
AtrTotal(bars) ==
    LET first == Len(bars) - Lookback + 1
    IN  SumFunction([i \in first .. Len(bars) |-> TrueRange(bars, i)])

\* get_candidate_readiness; the hours are reported and block nothing here.
Readiness(bars) ==
    IF Len(bars) < Lookback + 2 THEN "insufficient_5m_history"
    ELSE IF \E i \in Len(bars) - Lookback - 1 .. Len(bars) : ~bars[i].confirmed
         THEN "unconfirmed_5m_in_window"
         ELSE "ready"

-----------------------------------------------------------------------------
Long == {"breakout_long", "trend_continuation_long"}
Short == {"breakout_short", "trend_continuation_short"}

\* The stop is 1.2 average ranges away: its distance, times 10 ranges.
Candidate(bars, type, confidence) ==
    [type |-> type, confidence |-> confidence, price |-> LastOf(bars).close,
     stop |-> IF type \in Long THEN -12 * AtrTotal(bars) ELSE 12 * AtrTotal(bars)]

Capped(confidence, cap) == IF confidence < cap THEN confidence ELSE cap

BreakoutConfidence(rate) == Capped(5000 + rate, 9900)

TrendConfidence(rate) == Capped(4500 + (5 * Abs(rate)) \div 6, 9500)

\* In the order in which on_closed_candle lists them.
Pattern(bars, holds, type, confidence) ==
    IF holds THEN <<Candidate(bars, type, confidence)>> ELSE <<>>

RawCandidates(bars) ==
    LET up == BreakoutUp(bars)
        down == BreakoutDown(bars)
        move == CandleMove(bars)
    IN  Pattern(bars, up >= MinBreakout, "breakout_long", BreakoutConfidence(up))
        \o Pattern(bars, down >= MinBreakout, "breakout_short", BreakoutConfidence(down))
        \o Pattern(bars, move >= MinTrend /\ VolumeRises(bars),
                   "trend_continuation_long", TrendConfidence(move))
        \o Pattern(bars, move <= -MinTrend /\ VolumeRises(bars),
                   "trend_continuation_short", TrendConfidence(move))

\* The first of the most confident of these types, if there is one.
Strongest(candidates, types) ==
    LET among == {i \in DOMAIN candidates : candidates[i].type \in types}
        best == {i \in among :
                    \A j \in among : candidates[j].confidence <= candidates[i].confidence}
    IN  IF best = {} THEN <<>> ELSE <<candidates[Min(best)]>>

\* _dedupe_candidates: the strongest of each direction.
Deduped(candidates) == Strongest(candidates, Long) \o Strongest(candidates, Short)

OnClosedCandle(bars) ==
    IF Readiness(bars) = "ready" THEN Deduped(RawCandidates(bars)) ELSE <<>>

\* get_precondition_report, of bars that are ready: how near the last candle
\* came to each of the patterns.
Preconditions(bars) ==
    [up |-> BreakoutUp(bars), down |-> BreakoutDown(bars), move |-> CandleMove(bars)]

\* create_relaxed_validation_candidates, of that report when there was no
\* candidate: the nearest miss of a breakout, or else the direction the last
\* candle took.
Relaxed(bars) ==
    LET near == Preconditions(bars)
        weak(type) == <<Candidate(bars, type, 3500)>>
    IN  IF Max({near.up, near.down}) > 0
        THEN weak(IF near.up >= near.down THEN "breakout_long" ELSE "breakout_short")
        ELSE IF near.move # 0
             THEN weak(IF near.move > 0 THEN "trend_continuation_long"
                       ELSE "trend_continuation_short")
             ELSE <<>>

\* The candidates the decision loop goes on with.
CandidatesFor(bars, relax) ==
    IF Readiness(bars) = "ready" /\ OnClosedCandle(bars) = <<>> /\ relax
    THEN Relaxed(bars)
    ELSE OnClosedCandle(bars)

=============================================================================
