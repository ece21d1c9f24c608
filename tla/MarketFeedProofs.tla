------------------------- MODULE MarketFeedProofs ---------------------------
(***************************************************************************)
(* Theorems about MarketFeed, for any number of candles, any ratio of the  *)
(* timeframes and any length of a history and of a warmup query.           *)
(***************************************************************************)
EXTENDS MarketFeed, FiniteSetTheorems, SequenceTheorems, TLAPS

-----------------------------------------------------------------------------
(***************************************************************************)
(* The inductive invariant.  The klines on their way form one pipeline,    *)
(* read at its head by the decision loop and fed at its end by the         *)
(* exchange.                                                               *)
(***************************************************************************)
Pipeline == queue \o inbox

\* A kline of number n may follow the bar in a history.
Follows(bar, n) == bar.no < n \/ (bar.no = n /\ ~bar.whole)

\* Two bars that stand side by side in the history of the timeframe f.
Linked(f, bar, next) ==
    /\ Follows(bar, next.no)
    /\ \A n \in bar.no + 1 .. next.no - 1 : [frame |-> f, no |-> n] \in missed

Chained(f, bars) == \A i \in 1 .. Len(bars) - 1 : Linked(f, bars[i], bars[i + 1])

HistoriesLinked == \A f \in Frames : Chained(f, history[f])

\* The pipeline is in the order in which candles closed; where both timeframes
\* close at once either kline may be the first.
InOrder(a, b) ==
    /\ a.frame = b.frame => a.no < b.no
    /\ a.frame = "candle" /\ b.frame = "regime" => a.no <= b.no * PerRegime

PipelineInOrder ==
    \A i, j \in DOMAIN Pipeline : i < j => InOrder(Pipeline[i], Pipeline[j])

PipelineClosed == \A i \in DOMAIN Pipeline : Pipeline[i] \in ClosedKlines

LastBar(f) == history[f][Len(history[f])]

HistoriesBehind ==
    \A f \in Frames : history[f] # <<>> =>
        /\ Follows(LastBar(f), InProgress(f))
        /\ \A i \in DOMAIN Pipeline :
              Pipeline[i].frame = f => Follows(LastBar(f), Pipeline[i].no)

\* Whatever has closed was missed, is on its way, or is behind the history.
Reached(k) == history[k.frame] # <<>> /\ k.no <= LastBar(k.frame).no

OnItsWay(k) == \E i \in DOMAIN Pipeline : Pipeline[i] = k

Accounted == \A k \in ClosedKlines : k \in missed \/ OnItsWay(k) \/ Reached(k)

\* No client runs before the warmup is done.
Unwarmed(f) == warming = f \/ (warming = "candle" /\ f = "regime")

WarmupFirst ==
    warming # "done" =>
        /\ link = "none" /\ queue = <<>> /\ inbox = <<>>
        /\ \A f \in Frames : Unwarmed(f) => history[f] = <<>>

FeedInv ==
    /\ HistoriesLinked
    /\ PipelineInOrder
    /\ PipelineClosed
    /\ HistoriesBehind
    /\ Accounted

IInv == TypeOK /\ FeedInv /\ WarmupFirst

-----------------------------------------------------------------------------
(***************************************************************************)
(* Time.                                                                   *)
(***************************************************************************)

\* A candle of the regime timeframe closes with the last of its candles.
LEMMA RegimeClock ==
    ASSUME NEW n \in Nat \ {0}
    PROVE  /\ (n - 1) \div PerRegime \in 0 .. n - 1
           /\ n % PerRegime = 0 => /\ n \div PerRegime = (n - 1) \div PerRegime + 1
                                   /\ (n \div PerRegime) * PerRegime = n
           /\ n % PerRegime # 0 => n \div PerRegime = (n - 1) \div PerRegime
  <1> DEFINE p == PerRegime
  <1>1. p \in Nat \ {0}
    BY CandlesAssumption
  <1>2. (n - 1) \div p \in 0 .. n - 1
    <2>1. n - 1 \in Nat /\ (n - 1) \div p \in Nat /\ p * ((n - 1) \div p) <= n - 1
      BY <1>1, Z3
    <2>2. (n - 1) \div p <= p * ((n - 1) \div p)
      BY <1>1, <2>1, Z3
    <2> QED BY <1>1, <2>1, <2>2, Z3
  <1>3. n % p = 0 => n \div p = (n - 1) \div p + 1 /\ (n \div p) * p = n
    BY <1>1, Z3
  <1>4. n % p # 0 => n \div p = (n - 1) \div p
    BY <1>1, Z3
  <1> QED BY <1>2, <1>3, <1>4

\* The candle in progress has a number.
LEMMA ProgressType == ASSUME TypeOK, NEW f \in Frames PROVE InProgress(f) \in 1 .. LastCandle
  <1>1. now \in Nat \ {0} /\ now <= LastCandle /\ LastCandle \in Nat
    BY CandlesAssumption DEF TypeOK
  <1>2. (now - 1) \div PerRegime \in 0 .. now - 1
    BY <1>1, RegimeClock
  <1> QED BY <1>1, <1>2 DEF InProgress, Frames

\* When the candle in progress closes, exactly the klines of Closing close.
LEMMA Tick ==
    ASSUME TypeOK, now < LastCandle, now' = now + 1
    PROVE  /\ Closing \subseteq Kline
           /\ \A k \in Closing : k.no = InProgress(k.frame)
           /\ \A f \in Frames : InProgress(f)' =
                 IF [frame |-> f, no |-> InProgress(f)] \in Closing
                 THEN InProgress(f) + 1 ELSE InProgress(f)
           /\ \A k \in Closing : k.frame = "regime" => k.no * PerRegime = now
  <1>1. now \in Nat \ {0} /\ now <= LastCandle /\ LastCandle \in Nat
    BY CandlesAssumption DEF TypeOK
  <1>2. InProgress("regime") \in 1 .. LastCandle /\ InProgress("candle") = now
    BY ProgressType DEF Frames, InProgress
  <1>3. InProgress("regime") = (now - 1) \div PerRegime + 1
    BY DEF InProgress
  <1>4. InProgress("regime")' = now \div PerRegime + 1 /\ InProgress("candle")' = now + 1
    BY <1>1 DEF InProgress
  <1>5. CASE now % PerRegime = 0
    <2>1. Closing = {[frame |-> "candle", no |-> now],
                     [frame |-> "regime", no |-> now \div PerRegime]}
      BY <1>5 DEF Closing
    <2>2. now \div PerRegime = InProgress("regime") /\ (now \div PerRegime) * PerRegime = now
      BY <1>1, <1>3, <1>5, RegimeClock
    <2> QED BY <1>1, <1>2, <1>4, <2>1, <2>2 DEF Kline, Frames
  <1>6. CASE now % PerRegime # 0
    <2>1. Closing = {[frame |-> "candle", no |-> now]}
      BY <1>6 DEF Closing
    <2>2. InProgress("regime")' = InProgress("regime")
      BY <1>1, <1>3, <1>4, <1>6, RegimeClock
    <2> QED BY <1>1, <1>2, <1>4, <2>1, <2>2 DEF Kline, Frames
  <1> QED BY <1>5, <1>6

\* What has closed before and what closes now.
LEMMA ClosedLater ==
    ASSUME TypeOK, now < LastCandle, now' = now + 1
    PROVE  ClosedKlines' = ClosedKlines \union Closing
  <1>1. ASSUME NEW k \in Kline
        PROVE  k \in ClosedKlines' <=> k \in ClosedKlines \/ k \in Closing
    <2>1. k.frame \in Frames /\ k.no \in Nat /\ k = [frame |-> k.frame, no |-> k.no]
      BY CandlesAssumption DEF Kline
    <2>2. InProgress(k.frame) \in Nat
      BY <2>1, ProgressType, CandlesAssumption
    <2>3. k \in Closing => k.no = InProgress(k.frame)
      BY Tick
    <2>4. InProgress(k.frame)' =
             IF [frame |-> k.frame, no |-> InProgress(k.frame)] \in Closing
             THEN InProgress(k.frame) + 1 ELSE InProgress(k.frame)
      BY <2>1, Tick
    <2> QED BY <2>1, <2>2, <2>3, <2>4 DEF ClosedKlines
  <1> QED BY <1>1, Tick DEF ClosedKlines

\* The klines that close at once are sent one after the other.
LEMMA SentOnce ==
    ASSUME TypeOK, now < LastCandle, now' = now + 1, NEW klines \in SetToSeqs(Closing)
    PROVE  /\ klines \in Seq(Kline)
           /\ \A i \in DOMAIN klines : klines[i] \in Closing
           /\ \A i, j \in DOMAIN klines : i # j => klines[i] # klines[j]
           /\ \A k \in Closing : \E i \in DOMAIN klines : klines[i] = k
  <1> DEFINE a == [frame |-> "candle", no |-> now]
             b == [frame |-> "regime", no |-> now \div PerRegime]
  <1>1. Closing = {a} \/ Closing = {a, b}
    BY DEF Closing
  <1>2. a # b
    OBVIOUS
  <1>3. /\ klines \in [1 .. Cardinality(Closing) -> Closing]
        /\ \A i, j \in 1 .. Cardinality(Closing) : i # j => klines[i] # klines[j]
    BY DEF SetToSeqs
  <1>4. Closing = {a} => Cardinality(Closing) = 1
    BY FS_Singleton
  <1>5. Closing = {a, b} => Cardinality(Closing) = 2
    <2>1. IsFiniteSet({a}) /\ Cardinality({a}) = 1
      BY FS_Singleton
    <2>2. {a, b} = {a} \union {b} /\ b \notin {a}
      BY <1>2
    <2>3. Cardinality({a} \union {b}) = Cardinality({a}) + 1
      BY <2>1, <2>2, FS_AddElement
    <2> QED BY <2>1, <2>2, <2>3
  <1> HIDE DEF a, b
  <1>6. CASE Closing = {a}
    <2>1. klines \in [1 .. 1 -> Closing] /\ klines[1] = a
      BY <1>3, <1>4, <1>6
    <2>2. klines \in Seq(Kline) /\ DOMAIN klines = {1}
      <3>1. klines \in [1 .. 1 -> Kline]
        BY <2>1, Tick
      <3> QED BY <3>1
    <2> QED BY <1>6, <2>1, <2>2
  <1>7. CASE Closing = {a, b}
    <2>1. /\ klines \in [1 .. 2 -> Closing]
          /\ klines[1] # klines[2]
      BY <1>3, <1>5, <1>7
    <2>2. \/ klines[1] = a /\ klines[2] = b
          \/ klines[1] = b /\ klines[2] = a
      BY <1>7, <2>1
    <2>3. klines \in Seq(Kline) /\ DOMAIN klines = {1, 2}
      <3>1. klines \in [1 .. 2 -> Kline]
        BY <2>1, Tick
      <3>2. \A n \in Nat : [1 .. n -> Kline] \subseteq Seq(Kline)
        OBVIOUS
      <3>3. klines \in Seq(Kline)
        BY <3>1, <3>2
      <3>4. DOMAIN klines = 1 .. 2 /\ 1 .. 2 = {1, 2}
        BY <3>1
      <3> QED BY <3>3, <3>4
    <2> QED BY <1>7, <2>1, <2>2, <2>3
  <1> QED BY <1>1, <1>6, <1>7

-----------------------------------------------------------------------------
(***************************************************************************)
(* Histories.                                                              *)
(***************************************************************************)

\* A history keeps an end of what it is given.
LEMMA LatestIsEnd ==
    ASSUME NEW bars \in Seq(Bar), bars # <<>>
    PROVE  \E d \in 0 .. Len(bars) - 1 :
              /\ Latest(bars) \in Seq(Bar)
              /\ Len(Latest(bars)) = Len(bars) - d
              /\ \A i \in 1 .. Len(bars) - d : Latest(bars)[i] = bars[i + d]
  <1> DEFINE d == IF Len(bars) > HistoryMax THEN Len(bars) - HistoryMax ELSE 0
  <1>1. Len(bars) \in Nat \ {0} /\ HistoryMax \in Nat \ {0}
    BY CandlesAssumption
  <1>2. d \in 0 .. Len(bars) - 1
    BY <1>1
  <1>3. Latest(bars) = SubSeq(bars, d + 1, Len(bars))
    BY <1>1 DEF Latest
  <1> HIDE DEF d
  <1>4. d + 1 \in Int /\ Len(bars) \in Int /\ \A i \in d + 1 .. Len(bars) : bars[i] \in Bar
    BY <1>1, <1>2
  <1>5. /\ SubSeq(bars, d + 1, Len(bars)) \in Seq(Bar)
        /\ Len(SubSeq(bars, d + 1, Len(bars))) =
              IF d + 1 <= Len(bars) THEN Len(bars) - (d + 1) + 1 ELSE 0
        /\ \A i \in 1 .. Len(bars) - (d + 1) + 1 :
              SubSeq(bars, d + 1, Len(bars))[i] = bars[d + 1 + i - 1]
    BY <1>4, SubSeqProperties
  <1>6. Len(SubSeq(bars, d + 1, Len(bars))) = Len(bars) - d
    BY <1>1, <1>2, <1>5
  <1>7. \A i \in 1 .. Len(bars) - d : SubSeq(bars, d + 1, Len(bars))[i] = bars[i + d]
    BY <1>1, <1>2, <1>5
  <1> QED BY <1>2, <1>3, <1>5, <1>6, <1>7

\* What a sequence of n candles holds is in the other one.
Within(bars, others, n) == \A i \in 1 .. n : \E j \in 1 .. n : bars[i] = others[j]

Ascending(bars, n) == \A i, j \in 1 .. n : i < j => bars[i].no < bars[j].no

\* Newest first, from the candle `last'.
Descending(bars, n, last) == \A i \in 1 .. n : bars[i].no = last - i + 1

\* What a warmup query makes of an empty history.
LEMMA FetchedFacts ==
    ASSUME TypeOK, NEW f \in Frames
    PROVE  \E n \in 1 .. InProgress(f) :
              /\ Fetched(f) \in [1 .. n -> Bar]
              /\ Descending(Fetched(f), n, InProgress(f))
              /\ ~Fetched(f)[1].whole
  <1> DEFINE last == InProgress(f)
             n == IF last < FetchLimit THEN last ELSE FetchLimit
  <1>1. last \in 1 .. LastCandle /\ last \in Nat \ {0} /\ LastCandle \in Nat
    BY ProgressType, CandlesAssumption
  <1>2. n \in 1 .. last
    BY <1>1, CandlesAssumption
  <1>3. Fetched(f) = [i \in 1 .. n |-> [no |-> last - i + 1, whole |-> i # 1]]
    BY DEF Fetched
  <1> HIDE DEF last, n
  <1>9. 1 \in 1 .. n
    BY <1>1, <1>2
  <1>4. \A i \in 1 .. n : [no |-> last - i + 1, whole |-> i # 1] \in Bar
    BY <1>1, <1>2 DEF Bar
  <1>5. Fetched(f) \in [1 .. n -> Bar]
    BY <1>3, <1>4
  <1>6. Descending(Fetched(f), n, last)
    BY <1>3 DEF Descending
  <1>7. ~Fetched(f)[1].whole
    <2>1. (1 # 1) = FALSE
      OBVIOUS
    <2>2. Fetched(f)[1] = [no |-> last - 1 + 1, whole |-> 1 # 1]
      BY <1>3, <1>9, Zenon
    <2>3. Fetched(f)[1] = [no |-> last - 1 + 1, whole |-> FALSE]
      BY <2>1, <2>2, Zenon
    <2>4. Fetched(f)[1].whole = FALSE
      BY <2>3
    <2> QED BY <2>4
  <1> QED BY <1>2, <1>5, <1>6, <1>7 DEF last

\* Sorting finds an order, as no two of the candles have the same number.
LEMMA SortedFacts ==
    ASSUME NEW n \in Nat, NEW last \in Nat, NEW klines \in [1 .. n -> Bar],
           Descending(klines, n, last)
    PROVE  /\ Sorted(klines) \in [1 .. n -> Bar]
           /\ Within(Sorted(klines), klines, n) /\ Within(klines, Sorted(klines), n)
           /\ Ascending(Sorted(klines), n)
  <1> DEFINE InTimeOrder(s) == /\ Range(s) = Range(klines)
                            /\ \A i, j \in DOMAIN s : i < j => s[i].no < s[j].no
             turned == [i \in 1 .. n |-> klines[n - i + 1]]
  <1>1. DOMAIN klines = 1 .. n /\ Range(klines) = {klines[i] : i \in 1 .. n}
    BY DEF Range
  <1>2. turned \in [DOMAIN klines -> Range(klines)]
    BY <1>1
  <1>3. InTimeOrder(turned)
    <2>1. \A i \in 1 .. n : n - i + 1 \in 1 .. n /\ n - (n - i + 1) + 1 = i
      OBVIOUS
    <2>2. Range(turned) = {klines[n - i + 1] : i \in 1 .. n}
      BY DEF Range
    <2>3. {klines[n - i + 1] : i \in 1 .. n} = {klines[i] : i \in 1 .. n}
      BY <2>1
    <2>4. \A i, j \in DOMAIN turned : i < j => turned[i].no < turned[j].no
      BY <2>1 DEF Descending
    <2> QED BY <1>1, <2>2, <2>3, <2>4
  <1>4. Sorted(klines) \in [DOMAIN klines -> Range(klines)] /\ InTimeOrder(Sorted(klines))
    <2>1. Sorted(klines) = CHOOSE s \in [DOMAIN klines -> Range(klines)] : InTimeOrder(s)
      BY DEF Sorted
    <2> HIDE DEF InTimeOrder
    <2> QED BY <1>2, <1>3, <2>1
  <1>5. DOMAIN Sorted(klines) = 1 .. n
    BY <1>1, <1>4
  <1>6. {Sorted(klines)[i] : i \in 1 .. n} = {klines[i] : i \in 1 .. n}
    BY <1>1, <1>4, <1>5 DEF Range
  <1>7. Sorted(klines) \in [1 .. n -> Bar]
    BY <1>1, <1>4
  <1>8. Within(Sorted(klines), klines, n)
    BY <1>6 DEF Within
  <1>9. Within(klines, Sorted(klines), n)
    BY <1>6 DEF Within
  <1>10. Ascending(Sorted(klines), n)
    BY <1>4, <1>5 DEF Ascending
  <1> QED BY <1>7, <1>8, <1>9, <1>10

\* A function on an interval from 1 is a sequence.
LEMMA FunctionIsSeq ==
    ASSUME NEW S, NEW n \in Nat, NEW s \in [1 .. n -> S]
    PROVE  s \in Seq(S) /\ Len(s) = n /\ (n > 0 => s # <<>>)
  OBVIOUS

\* The candles a query returns, sorted, are consecutive, and the newest is the
\* last one.
LEMMA SortedConsecutive ==
    ASSUME NEW last \in Nat, NEW n \in 1 .. last, NEW klines, NEW bars,
           Descending(klines, n, last), Ascending(bars, n),
           Within(bars, klines, n), Within(klines, bars, n)
    PROVE  /\ bars[n] = klines[1]
           /\ \A i \in 1 .. n - 1 : bars[i + 1].no = bars[i].no + 1
  <1>1. n \in Nat /\ 1 \in 1 .. n /\ n \in 1 .. n
    OBVIOUS
  <1>2. ASSUME NEW i \in 1 .. n PROVE bars[i].no \in last - n + 1 .. last
    <2>1. PICK j \in 1 .. n : bars[i] = klines[j]
      BY DEF Within
    <2> QED BY <1>1, <2>1 DEF Descending
  <1>3. \A i \in 1 .. n : bars[i].no \in Int
    BY <1>2
  <1>4. bars[n] = klines[1]
    <2>1. PICK i \in 1 .. n : bars[i] = klines[1]
      BY <1>1 DEF Within
    <2>2. bars[i].no = last
      BY <1>1, <2>1 DEF Descending
    <2>3. ~(i < n)
      BY <1>1, <1>2, <2>2 DEF Ascending
    <2> QED BY <2>1, <2>3
  <1>5. ASSUME NEW i \in 1 .. n - 1 PROVE bars[i + 1].no = bars[i].no + 1
    <2>1. i \in 1 .. n /\ i + 1 \in 1 .. n
      BY <1>1
    <2>2. bars[i].no < bars[i + 1].no
      BY <1>1, <2>1 DEF Ascending
    <2>3. SUFFICES ASSUME bars[i].no + 1 < bars[i + 1].no PROVE FALSE
      BY <1>3, <2>1, <2>2
    <2> DEFINE j == last - bars[i].no
    <2>4. bars[i].no \in last - n + 1 .. last /\ bars[i + 1].no \in last - n + 1 .. last
      BY <1>2, <2>1
    <2>5. j \in 1 .. n
      BY <1>1, <2>3, <2>4
    <2>6. klines[j].no = bars[i].no + 1
      BY <1>1, <2>4, <2>5 DEF Descending
    <2>7. PICK m \in 1 .. n : bars[m] = klines[j]
      BY <2>5 DEF Within
    <2>8. bars[m].no = bars[i].no + 1
      BY <2>6, <2>7
    <2>9. ~(m < i) /\ m # i
      BY <1>3, <2>1, <2>8 DEF Ascending
    <2>10. ~(i + 1 < m) /\ m # i + 1
      BY <1>3, <2>1, <2>3, <2>8 DEF Ascending
    <2> QED BY <1>1, <2>1, <2>9, <2>10
  <1> QED BY <1>4, <1>5

\* The warmup leaves consecutive candles, the last one the one in progress.
LEMMA PreloadedFacts ==
    ASSUME TypeOK, NEW f \in Frames, NEW bars, bars = Preloaded(f)
    PROVE  /\ bars \in Seq(Bar) /\ bars # <<>>
           /\ bars[Len(bars)].no = InProgress(f) /\ ~bars[Len(bars)].whole
           /\ \A i \in 1 .. Len(bars) - 1 : bars[i + 1].no = bars[i].no + 1
  <1>1. InProgress(f) \in Nat
    BY ProgressType, CandlesAssumption
  <1>2. PICK n \in 1 .. InProgress(f) :
            /\ Fetched(f) \in [1 .. n -> Bar]
            /\ Descending(Fetched(f), n, InProgress(f))
            /\ ~Fetched(f)[1].whole
    BY FetchedFacts
  <1>3. n \in Nat /\ n > 0 /\ bars = Sorted(Fetched(f))
    BY <1>1 DEF Preloaded
  <1>5. /\ bars \in [1 .. n -> Bar]
        /\ Within(bars, Fetched(f), n) /\ Within(Fetched(f), bars, n)
        /\ Ascending(bars, n)
    <2>1. Fetched(f) \in [1 .. n -> Bar]
      BY <1>2
    <2>2. /\ Sorted(Fetched(f)) \in [1 .. n -> Bar]
          /\ Within(Sorted(Fetched(f)), Fetched(f), n)
          /\ Within(Fetched(f), Sorted(Fetched(f)), n)
          /\ Ascending(Sorted(Fetched(f)), n)
      BY <1>1, <1>2, <1>3, <2>1, SortedFacts
    <2> QED BY <1>3, <2>2
  <1>6. bars \in Seq(Bar) /\ bars # <<>> /\ Len(bars) = n
    <2>1. bars \in [1 .. n -> Bar]
      BY <1>5
    <2>2. /\ n > 0 /\ n \in Nat
      BY <1>3
    <2> QED BY <2>1, <2>2, FunctionIsSeq
  <1>7. /\ bars[n] = Fetched(f)[1]
        /\ \A i \in 1 .. n - 1 : bars[i + 1].no = bars[i].no + 1
    BY <1>1, <1>2, <1>5, SortedConsecutive
  <1>8. Fetched(f)[1].no = InProgress(f) /\ ~Fetched(f)[1].whole
    BY <1>1, <1>2, <1>3 DEF Descending
  <1> QED BY <1>6, <1>7, <1>8

\* A history that forgets its oldest bars keeps the others as they were.
LEMMA LatestChained ==
    ASSUME NEW f \in Frames, NEW bars \in Seq(Bar), bars # <<>>, Chained(f, bars)
    PROVE  /\ Latest(bars) \in Seq(Bar) /\ Latest(bars) # <<>>
           /\ Latest(bars)[Len(Latest(bars))] = bars[Len(bars)]
           /\ Chained(f, Latest(bars))
  <1>1. PICK d \in 0 .. Len(bars) - 1 :
            /\ Latest(bars) \in Seq(Bar)
            /\ Len(Latest(bars)) = Len(bars) - d
            /\ \A i \in 1 .. Len(bars) - d : Latest(bars)[i] = bars[i + d]
    BY LatestIsEnd
  <1>2. Len(bars) \in Nat \ {0} /\ Len(bars) - d \in 1 .. Len(bars) - d
    BY <1>1
  <1>3. Latest(bars) # <<>> /\ Latest(bars)[Len(Latest(bars))] = bars[Len(bars)]
    BY <1>1, <1>2
  <1>4. ASSUME NEW i \in 1 .. Len(bars) - d - 1
        PROVE  Linked(f, Latest(bars)[i], Latest(bars)[i + 1])
    <2>1. i + d \in 1 .. Len(bars) - 1 /\ i \in 1 .. Len(bars) - d /\ i + 1 \in 1 .. Len(bars) - d
      BY <1>2
    <2>2. Latest(bars)[i] = bars[i + d] /\ Latest(bars)[i + 1] = bars[i + d + 1]
      BY <1>1, <1>2, <2>1
    <2> QED BY <2>1, <2>2 DEF Chained
  <1> QED BY <1>1, <1>3, <1>4 DEF Chained

\* A bar that follows the last one, with nothing but missed klines in between.
LEMMA AppendChained ==
    ASSUME NEW f \in Frames, NEW bars \in Seq(Bar), NEW bar \in Bar, Chained(f, bars),
           bars # <<>> => Linked(f, bars[Len(bars)], bar)
    PROVE  /\ Append(bars, bar) \in Seq(Bar) /\ Append(bars, bar) # <<>>
           /\ Len(Append(bars, bar)) = Len(bars) + 1
           /\ Append(bars, bar)[Len(bars) + 1] = bar
           /\ Chained(f, Append(bars, bar))
  <1>1. /\ Append(bars, bar) \in Seq(Bar) /\ Append(bars, bar) # <<>>
        /\ Len(Append(bars, bar)) = Len(bars) + 1 /\ Len(bars) \in Nat
        /\ Append(bars, bar)[Len(bars) + 1] = bar
        /\ \A i \in 1 .. Len(bars) : Append(bars, bar)[i] = bars[i]
    BY AppendProperties
  <1>2. ASSUME NEW i \in 1 .. Len(bars)
        PROVE  Linked(f, Append(bars, bar)[i], Append(bars, bar)[i + 1])
    <2>1. CASE i = Len(bars)
      BY <1>1, <2>1
    <2>2. CASE i # Len(bars)
      <3>1. i \in 1 .. Len(bars) - 1 /\ i + 1 \in 1 .. Len(bars)
        BY <1>1, <2>2
      <3> QED BY <1>1, <3>1 DEF Chained
    <2> QED BY <2>1, <2>2
  <1> QED BY <1>1, <1>2 DEF Chained

-----------------------------------------------------------------------------
(***************************************************************************)
(* The pipeline.                                                           *)
(***************************************************************************)

\* The pipeline is the queue, then the inbox.
LEMMA PipelineType ==
    ASSUME TypeOK
    PROVE  /\ Pipeline \in Seq(Kline)
           /\ Len(Pipeline) = Len(queue) + Len(inbox)
           /\ DOMAIN Pipeline = 1 .. Len(queue) + Len(inbox)
           /\ \A i \in 1 .. Len(queue) + Len(inbox) :
                 Pipeline[i] = IF i <= Len(queue) THEN queue[i] ELSE inbox[i - Len(queue)]
  BY ConcatProperties DEF TypeOK, ClientTypeOK, Pipeline

\* A kline that is handled goes from one end of the inbox to the end of the
\* queue, which leaves the pipeline as it is.
LEMMA ApplyKeepsPipeline ==
    ASSUME TypeOK, Apply
    PROVE  queue' \in Seq(Kline) /\ inbox' \in Seq(Kline) /\ Pipeline' = Pipeline
  <1>1. PICK k \in Kline : inbox # <<>> /\ k = Head(inbox) /\ inbox' = Tail(inbox)
                           /\ queue' = Append(queue, k)
    BY DEF Apply, Handle, Enqueued
  <1>2. queue \in Seq(Kline) /\ inbox \in Seq(Kline)
    BY DEF TypeOK, ClientTypeOK
  <1>3. queue' \in Seq(Kline) /\ inbox' \in Seq(Kline)
    BY <1>1, <1>2
  <1>4. Append(queue, Head(inbox)) \o Tail(inbox) = queue \o inbox
    BY <1>1, <1>2
  <1> QED BY <1>1, <1>3, <1>4 DEF Pipeline

\* A decision takes the head of the pipeline.
LEMMA DecideShortensPipeline ==
    ASSUME TypeOK, NEW k \in Kline, Decide(k)
    PROVE  /\ queue' \in Seq(Kline)
           /\ 1 \in DOMAIN Pipeline /\ Pipeline[1] = k
           /\ \A i \in DOMAIN Pipeline' : i + 1 \in DOMAIN Pipeline /\ Pipeline'[i] = Pipeline[i + 1]
           /\ \A i \in DOMAIN Pipeline \ {1} :
                 i - 1 \in DOMAIN Pipeline' /\ Pipeline'[i - 1] = Pipeline[i]
  <1>1. queue # <<>> /\ k = Head(queue) /\ queue' = Tail(queue) /\ inbox' = inbox
    BY DEF Decide, clientVars
  <1>2. queue \in Seq(Kline) /\ inbox \in Seq(Kline)
    BY DEF TypeOK, ClientTypeOK
  <1>3. /\ queue' \in Seq(Kline) /\ Len(queue') = Len(queue) - 1 /\ Len(queue) \in Nat \ {0}
        /\ \A i \in 1 .. Len(queue') : queue'[i] = queue[i + 1]
        /\ queue[1] = k
    BY <1>1, <1>2
  <1>4. /\ DOMAIN Pipeline' = 1 .. Len(queue') + Len(inbox)
        /\ \A i \in 1 .. Len(queue') + Len(inbox) :
              Pipeline'[i] = IF i <= Len(queue') THEN queue'[i] ELSE inbox[i - Len(queue')]
    BY <1>1, <1>2, <1>3, ConcatProperties DEF Pipeline
  <1>5. Len(inbox) \in Nat
    BY <1>2
  <1>6. 1 \in DOMAIN Pipeline /\ Pipeline[1] = k
    BY <1>3, <1>5, PipelineType
  <1>7. ASSUME NEW i \in DOMAIN Pipeline'
        PROVE  i + 1 \in DOMAIN Pipeline /\ Pipeline'[i] = Pipeline[i + 1]
    BY <1>3, <1>4, <1>5, PipelineType
  <1>8. ASSUME NEW i \in DOMAIN Pipeline \ {1}
        PROVE  i - 1 \in DOMAIN Pipeline' /\ Pipeline'[i - 1] = Pipeline[i]
    <2>1. i \in 2 .. Len(queue) + Len(inbox)
      BY <1>3, <1>5, PipelineType
    <2>2. i - 1 \in 1 .. Len(queue') + Len(inbox)
      BY <1>3, <1>5, <2>1
    <2>3. Pipeline'[i - 1] = IF i - 1 <= Len(queue') THEN queue'[i - 1]
                             ELSE inbox[i - 1 - Len(queue')]
      BY <1>4, <2>2
    <2>4. Pipeline[i] = IF i <= Len(queue) THEN queue[i] ELSE inbox[i - Len(queue)]
      BY <2>1, <1>5, <1>3, PipelineType
    <2>5. i - 1 - Len(queue') = i - Len(queue) /\ (i - 1 <= Len(queue') <=> i <= Len(queue))
      BY <1>3, <2>1
    <2>6. i <= Len(queue) => queue'[i - 1] = queue[i]
      <3>1. i <= Len(queue) => i - 1 \in 1 .. Len(queue') /\ (i - 1) + 1 = i
        BY <1>3, <2>1
      <3> QED BY <1>3, <3>1
    <2> QED BY <1>4, <2>2, <2>3, <2>4, <2>5, <2>6
  <1> QED BY <1>3, <1>6, <1>7, <1>8

\* What the exchange sends is added at the end of the pipeline.
LEMMA SentExtendsPipeline ==
    ASSUME TypeOK, NEW klines \in Seq(Kline), inbox' = inbox \o klines, queue' = queue
    PROVE  LET n == Len(Pipeline)
           IN  /\ inbox' \in Seq(Kline) /\ n \in Nat /\ DOMAIN Pipeline = 1 .. n
               /\ DOMAIN Pipeline' = 1 .. n + Len(klines)
               /\ \A i \in DOMAIN Pipeline : Pipeline'[i] = Pipeline[i]
               /\ \A i \in DOMAIN klines : Pipeline'[n + i] = klines[i]
  <1>1. queue \in Seq(Kline) /\ inbox \in Seq(Kline) /\ Pipeline \in Seq(Kline)
    BY PipelineType DEF TypeOK, ClientTypeOK
  <1>2. Pipeline' = Pipeline \o klines
    <2>1. (queue \o inbox) \o klines = queue \o (inbox \o klines)
      BY <1>1, ConcatAssociative
    <2> QED BY <2>1 DEF Pipeline
  <1>3. /\ DOMAIN (Pipeline \o klines) = 1 .. Len(Pipeline) + Len(klines)
        /\ \A i \in 1 .. Len(Pipeline) + Len(klines) :
              (Pipeline \o klines)[i] = IF i <= Len(Pipeline) THEN Pipeline[i]
                                        ELSE klines[i - Len(Pipeline)]
    BY <1>1, ConcatProperties
  <1>4. DOMAIN klines = 1 .. Len(klines) /\ Len(klines) \in Nat
        /\ DOMAIN Pipeline = 1 .. Len(Pipeline) /\ Len(Pipeline) \in Nat
        /\ inbox' \in Seq(Kline)
    BY <1>1
  <1> HIDE DEF Pipeline
  <1> QED BY <1>2, <1>3, <1>4

-----------------------------------------------------------------------------
(***************************************************************************)
(* FeedInv, step by step.                                                  *)
(***************************************************************************)

\* Bars that were linked stay so: what was missed stays missed.
LEMMA ChainedStays ==
    ASSUME missed \subseteq missed', NEW f, NEW bars, Chained(f, bars)
    PROVE  Chained(f, bars)'
  <1>1. ASSUME NEW a, NEW b, Linked(f, a, b) PROVE Linked(f, a, b)'
    BY <1>1 DEF Linked, Follows
  <1> QED BY <1>1 DEF Chained

\* Handling a kline leaves the pipeline alone; a client that drops its inbox
\* cuts the pipeline short, and what it drops counts as missed.
LEMMA PipelineCut ==
    ASSUME FeedInv, now' = now, history' = history, missed \subseteq missed',
           \A i \in DOMAIN Pipeline' : i \in DOMAIN Pipeline /\ Pipeline'[i] = Pipeline[i],
           \A i \in DOMAIN Pipeline : i \in DOMAIN Pipeline' \/ Pipeline[i] \in missed'
    PROVE  FeedInv'
  <1>1. HistoriesLinked'
    BY ChainedStays DEF FeedInv, HistoriesLinked
  <1>2. PipelineInOrder'
    BY DEF FeedInv, PipelineInOrder, InOrder
  <1>3. ClosedKlines' = ClosedKlines /\ \A f : InProgress(f)' = InProgress(f)
    BY DEF ClosedKlines, InProgress
  <1>4. PipelineClosed'
    BY <1>3 DEF FeedInv, PipelineClosed
  <1>5. HistoriesBehind'
    BY <1>3 DEF FeedInv, HistoriesBehind, LastBar, Follows
  <1>6. ASSUME NEW k \in ClosedKlines
        PROVE  k \in missed' \/ OnItsWay(k)' \/ Reached(k)'
    <2>1. k \in missed \/ OnItsWay(k) \/ Reached(k)
      BY DEF FeedInv, Accounted
    <2>2. Reached(k) => Reached(k)'
      BY DEF Reached, LastBar
    <2>3. OnItsWay(k) => OnItsWay(k)' \/ k \in missed'
      BY DEF OnItsWay
    <2> QED BY <2>1, <2>2, <2>3
  <1>7. Accounted'
    BY <1>3, <1>6 DEF Accounted
  <1> QED BY <1>1, <1>2, <1>4, <1>5, <1>7 DEF FeedInv

\* The order of two klines, one of which closes later than the other.
LEMMA LaterInOrder ==
    ASSUME TypeOK, now < LastCandle, now' = now + 1,
           NEW a \in ClosedKlines, NEW b \in Closing
    PROVE  InOrder(a, b)
  <1>1. b \in Kline /\ b.no = InProgress(b.frame) /\ (b.frame = "regime" => b.no * PerRegime = now)
    BY Tick
  <1>2. a \in Kline /\ a.no < InProgress(a.frame) /\ a.no \in Nat /\ now \in Nat
    BY CandlesAssumption DEF ClosedKlines, Kline, TypeOK
  <1>3. a.frame = b.frame => a.no < b.no
    BY <1>1, <1>2
  <1>4. a.frame = "candle" /\ b.frame = "regime" => a.no <= b.no * PerRegime
    <2>1. a.frame = "candle" => a.no < now
      BY <1>2 DEF InProgress
    <2> QED BY <1>1, <1>2, <2>1
  <1> QED BY <1>3, <1>4 DEF InOrder

\* The order of two klines that close at once.
LEMMA TogetherInOrder ==
    ASSUME TypeOK, now < LastCandle, now' = now + 1,
           NEW a \in Closing, NEW b \in Closing, a # b
    PROVE  InOrder(a, b)
  <1>1. /\ a \in Kline /\ a.no = InProgress(a.frame)
        /\ b \in Kline /\ b.no = InProgress(b.frame)
        /\ b.frame = "regime" => b.no * PerRegime = now
    BY Tick
  <1>2. a.frame # b.frame
    BY <1>1 DEF Kline
  <1>3. a.frame = "candle" => a.no = now
    BY <1>1 DEF InProgress
  <1>4. now \in Nat
    BY CandlesAssumption DEF TypeOK
  <1> QED BY <1>1, <1>2, <1>3, <1>4 DEF InOrder

\* A candle is over and its kline is sent.
LEMMA SentStep == ASSUME IInv, CandleSent PROVE FeedInv'
  <1>1. PICK klines \in SetToSeqs(Closing) : inbox' = inbox \o klines
    BY DEF CandleSent, Receive
  <1>2. /\ TypeOK /\ FeedInv
        /\ now < LastCandle /\ now' = now + 1
        /\ queue' = queue /\ history' = history /\ missed' = missed
    BY DEF IInv, CandleSent
  <1>3. /\ klines \in Seq(Kline)
        /\ \A i \in DOMAIN klines : klines[i] \in Closing
        /\ \A i, j \in DOMAIN klines : i # j => klines[i] # klines[j]
        /\ \A k \in Closing : \E i \in DOMAIN klines : klines[i] = k
    BY <1>2, SentOnce
  <1> DEFINE n == Len(Pipeline)
             m == Len(klines)
  <1>4. /\ n \in Nat /\ m \in Nat /\ DOMAIN Pipeline = 1 .. n /\ DOMAIN klines = 1 .. m
        /\ DOMAIN Pipeline' = 1 .. n + m
        /\ \A i \in 1 .. n : Pipeline'[i] = Pipeline[i]
        /\ \A i \in 1 .. m : Pipeline'[n + i] = klines[i]
    BY <1>1, <1>2, <1>3, SentExtendsPipeline
  <1>5. ASSUME NEW i \in 1 .. n + m
        PROVE  \/ i \in 1 .. n /\ Pipeline'[i] = Pipeline[i]
               \/ i - n \in 1 .. m /\ Pipeline'[i] = klines[i - n]
    <2>1. CASE i \in 1 .. n
      BY <1>4, <2>1
    <2>2. CASE i \notin 1 .. n
      <3>1. i - n \in 1 .. m /\ n + (i - n) = i
        BY <1>4, <2>2
      <3> QED BY <1>4, <3>1
    <2> QED BY <2>1, <2>2
  <1>6. ClosedKlines' = ClosedKlines \union Closing
    BY <1>2, ClosedLater
  <1>7. \A i \in 1 .. n : Pipeline[i] \in ClosedKlines
    BY <1>2, <1>4 DEF FeedInv, PipelineClosed
  <1> HIDE DEF n, m
  <1>8. HistoriesLinked'
    BY <1>2, ChainedStays DEF FeedInv, HistoriesLinked
  <1>9. PipelineInOrder'
    <2>1. ASSUME NEW i \in 1 .. n + m, NEW j \in 1 .. n + m, i < j
          PROVE  InOrder(Pipeline'[i], Pipeline'[j])
      <3>1. CASE i \in 1 .. n /\ j \in 1 .. n
        BY <1>2, <1>4, <2>1, <3>1 DEF FeedInv, PipelineInOrder
      <3>2. CASE i \in 1 .. n /\ j \notin 1 .. n
        <4>1. Pipeline'[i] \in ClosedKlines /\ Pipeline'[j] \in Closing
          BY <1>3, <1>4, <1>5, <1>7, <3>2
        <4> QED BY <1>2, <4>1, LaterInOrder
      <3>3. CASE i \notin 1 .. n
        <4>1. i - n \in 1 .. m /\ Pipeline'[i] = klines[i - n]
          BY <1>5, <3>3
        <4>2. j \notin 1 .. n
          BY <1>4, <2>1, <3>3
        <4>3. j - n \in 1 .. m /\ Pipeline'[j] = klines[j - n]
          BY <1>5, <4>2
        <4>4. i - n # j - n
          BY <1>4, <2>1
        <4> QED BY <1>2, <1>3, <1>4, <4>1, <4>3, <4>4, TogetherInOrder
      <3> QED BY <3>1, <3>2, <3>3
    <2>2. \A a, b : InOrder(a, b)' <=> InOrder(a, b)
      BY DEF InOrder
    <2> QED BY <1>4, <2>1, <2>2 DEF PipelineInOrder
  <1>10. PipelineClosed'
    BY <1>3, <1>4, <1>5, <1>6, <1>7 DEF PipelineClosed
  <1>11. HistoriesBehind'
    <2> SUFFICES ASSUME NEW f \in Frames, history[f] # <<>>
                 PROVE  /\ Follows(LastBar(f), InProgress(f)')
                        /\ \A i \in 1 .. n + m :
                              Pipeline'[i].frame = f => Follows(LastBar(f), Pipeline'[i].no)
      BY <1>2, <1>4 DEF HistoriesBehind, LastBar, Follows
    <2>1. LastBar(f).no \in Int /\ InProgress(f) \in Int
      <3>1. history[f] \in Seq(Bar)
        BY <1>2 DEF TypeOK
      <3>2. LastBar(f) \in Bar
        BY <3>1 DEF LastBar
      <3> QED BY <1>2, <3>2, ProgressType, CandlesAssumption DEF Bar
    <2>2. Follows(LastBar(f), InProgress(f))
      BY <1>2 DEF FeedInv, HistoriesBehind
    <2>3. InProgress(f)' \in {InProgress(f), InProgress(f) + 1}
      BY <1>2, Tick
    <2>4. Follows(LastBar(f), InProgress(f)')
      BY <2>1, <2>2, <2>3 DEF Follows
    <2>5. ASSUME NEW i \in 1 .. n + m, Pipeline'[i].frame = f
          PROVE  Follows(LastBar(f), Pipeline'[i].no)
      <3>1. CASE i \in 1 .. n
        BY <1>2, <1>4, <2>5, <3>1 DEF FeedInv, HistoriesBehind
      <3>2. CASE i \notin 1 .. n
        <4>1. Pipeline'[i] \in Closing
          BY <1>3, <1>4, <1>5, <3>2
        <4>2. Pipeline'[i].no = InProgress(f)
          BY <1>2, <2>5, <4>1, Tick
        <4> QED BY <2>2, <4>2
      <3> QED BY <3>1, <3>2
    <2> QED BY <2>4, <2>5
  <1>12. Accounted'
    <2>1. ASSUME NEW k \in Closing PROVE OnItsWay(k)'
      <3>1. PICK i \in 1 .. m : klines[i] = k
        BY <1>3, <1>4
      <3>2. n + i \in 1 .. n + m /\ Pipeline'[n + i] = k
        BY <1>4, <3>1
      <3> QED BY <1>4, <3>2 DEF OnItsWay
    <2>2. ASSUME NEW k \in ClosedKlines
          PROVE  k \in missed' \/ OnItsWay(k)' \/ Reached(k)'
      <3>1. OnItsWay(k) => OnItsWay(k)'
        <4>1. \A i \in 1 .. n : i \in 1 .. n + m
          BY <1>4
        <4> QED BY <1>4, <4>1 DEF OnItsWay
      <3>2. Reached(k) => Reached(k)'
        BY <1>2 DEF Reached, LastBar
      <3> QED BY <1>2, <3>1, <3>2 DEF FeedInv, Accounted
    <2> QED BY <1>6, <2>1, <2>2 DEF Accounted
  <1> QED BY <1>8, <1>9, <1>10, <1>11, <1>12 DEF FeedInv

\* A candle is over and the stream does not bring it.
LEMMA MissedStep == ASSUME IInv, CandleMissed PROVE FeedInv'
  <1>1. /\ TypeOK /\ FeedInv
        /\ now < LastCandle /\ now' = now + 1
        /\ queue' = queue /\ inbox' = inbox /\ history' = history
        /\ missed' = missed \union Closing
    BY DEF IInv, CandleMissed, clientVars
  <1>2. Pipeline' = Pipeline
    BY <1>1 DEF Pipeline
  <1>3. ClosedKlines' = ClosedKlines \union Closing
    BY <1>1, ClosedLater
  <1>4. HistoriesLinked'
    BY <1>1, ChainedStays DEF FeedInv, HistoriesLinked
  <1>5. PipelineInOrder'
    BY <1>1, <1>2 DEF FeedInv, PipelineInOrder, InOrder
  <1>6. PipelineClosed'
    BY <1>1, <1>2, <1>3 DEF FeedInv, PipelineClosed
  <1>7. HistoriesBehind'
    <2> SUFFICES ASSUME NEW f \in Frames, history[f] # <<>>
                 PROVE  Follows(LastBar(f), InProgress(f)')
      BY <1>1, <1>2 DEF FeedInv, HistoriesBehind, LastBar, Follows
    <2>1. LastBar(f).no \in Int /\ InProgress(f) \in Int
      <3>1. history[f] \in Seq(Bar)
        BY <1>1 DEF TypeOK
      <3>2. LastBar(f) \in Bar
        BY <3>1 DEF LastBar
      <3> QED BY <1>1, <3>2, ProgressType, CandlesAssumption DEF Bar
    <2>2. Follows(LastBar(f), InProgress(f))
      BY <1>1 DEF FeedInv, HistoriesBehind
    <2>3. InProgress(f)' \in {InProgress(f), InProgress(f) + 1}
      BY <1>1, Tick
    <2> QED BY <2>1, <2>2, <2>3 DEF Follows
  <1>8. Accounted'
    <2>1. ASSUME NEW k \in ClosedKlines
          PROVE  k \in missed' \/ OnItsWay(k)' \/ Reached(k)'
      BY <1>1, <1>2 DEF FeedInv, Accounted, OnItsWay, Reached, LastBar
    <2> QED BY <1>1, <1>3, <2>1 DEF Accounted
  <1> QED BY <1>4, <1>5, <1>6, <1>7, <1>8 DEF FeedInv

\* A kline is handled.
LEMMA ApplyStep == ASSUME IInv, Apply PROVE FeedInv'
  <1>1. Pipeline' = Pipeline
    BY ApplyKeepsPipeline DEF IInv
  <1>2. FeedInv /\ now' = now /\ history' = history /\ missed' = missed
    BY DEF IInv, Apply
  <1> QED BY <1>1, <1>2, PipelineCut

\* A step of the client reads nothing: it leaves the inbox as it is, or drops it.
LEMMA ClientKeeps ==
    ASSUME TypeOK, ClientStep
    PROVE  ClientTypeOK(Kline)' /\ inbox' \in {inbox, <<>>}
  <1> USE DEF ClientTypeOK, TypeOK
  <1>0. <<>> \in Seq(Kline)
    OBVIOUS
  <1>1. CASE Connect
    BY <1>1 DEF Connect
  <1>2. CASE ConnectFails
    BY <1>2 DEF ConnectFails
  <1>3. CASE AuthAcked
    BY <1>3 DEF AuthAcked
  <1>4. CASE SubscribeAcked
    BY <1>4 DEF SubscribeAcked
  <1>5. CASE HandshakeFails
    <2>1. inbox' \in {inbox, <<>>}
      BY <1>5 DEF HandshakeFails
    <2>2. link' \in {link, "closed"}
      BY <1>5 DEF HandshakeFails
    <2> QED BY <1>5, <2>1, <2>2, <1>0 DEF HandshakeFails
  <1>6. CASE ServerSubscribes
    BY <1>6 DEF ServerSubscribes
  <1>7. CASE ServerCloses
    BY <1>7 DEF ServerCloses
  <1>8. CASE LinkBreaks
    BY <1>8 DEF LinkBreaks
  <1>9. CASE GoesSilent
    BY <1>9 DEF GoesSilent
  <1>10. CASE SilentBreaks
    BY <1>10 DEF SilentBreaks
  <1>11. CASE ReaderEnds
    BY <1>11 DEF ReaderEnds
  <1>12. CASE HandlerRaises
    BY <1>12 DEF HandlerRaises
  <1>13. CASE PingFails
    BY <1>13 DEF PingFails
  <1>14. CASE PingReturns
    BY <1>14 DEF PingReturns
  <1>15. CASE ConnectionFails
    <2>1. link' \in {link, "closed"}
      BY <1>15 DEF ConnectionFails
    <2>2. reader' \in {reader, "none"} /\ ping' \in {ping, "none"}
      BY <1>15 DEF ConnectionFails, Cancelled
    <2> QED BY <1>15, <2>1, <2>2, <1>0 DEF ConnectionFails
  <1>16. CASE ConnectionEnds
    BY <1>16 DEF ConnectionEnds
  <1>17. CASE BackoffOver
    BY <1>17 DEF BackoffOver
  <1>18. CASE Close
    BY <1>18 DEF Close
  <1>19. CASE CancelClient
    BY <1>19 DEF CancelClient
  <1> QED BY <1>1, <1>2, <1>3, <1>4, <1>5, <1>6, <1>7, <1>8, <1>9, <1>10, <1>11, <1>12,
             <1>13, <1>14, <1>15, <1>16, <1>17, <1>18, <1>19
          DEF ClientStep, Handshake, Network, Tasks, Shutdown

\* The client drops its inbox, or not.
LEMMA ClientDropStep == ASSUME IInv, Client PROVE FeedInv'
  <1>1. /\ TypeOK /\ FeedInv /\ ClientStep
        /\ now' = now /\ queue' = queue /\ history' = history
        /\ missed' = missed \union (Range(inbox) \ Range(inbox'))
    BY DEF IInv, Client
  <1>2. CASE inbox' = inbox
    BY <1>1, <1>2, PipelineCut DEF Pipeline
  <1>3. CASE inbox' = <<>>
    <2>1. queue \in Seq(Kline) /\ inbox \in Seq(Kline) /\ Len(queue) \in Nat /\ Len(inbox) \in Nat
      BY <1>1 DEF TypeOK, ClientTypeOK
    <2>2. Pipeline' = queue
      BY <1>1, <1>3, <2>1 DEF Pipeline
    <2>3. \A i \in DOMAIN Pipeline' : i \in DOMAIN Pipeline /\ Pipeline'[i] = Pipeline[i]
      BY <1>1, <2>1, <2>2, PipelineType
    <2>4. missed' = missed \union Range(inbox)
      BY <1>1, <1>3 DEF Range
    <2>5. ASSUME NEW i \in DOMAIN Pipeline
          PROVE  i \in DOMAIN Pipeline' \/ Pipeline[i] \in missed'
      <3>1. i \in 1 .. Len(queue) + Len(inbox)
        BY <1>1, PipelineType
      <3>2. CASE i <= Len(queue)
        BY <2>1, <2>2, <3>1, <3>2
      <3>3. CASE ~(i <= Len(queue))
        <4>1. i - Len(queue) \in DOMAIN inbox /\ Pipeline[i] = inbox[i - Len(queue)]
          BY <1>1, <2>1, <3>1, <3>3, PipelineType
        <4> QED BY <2>4, <4>1 DEF Range
      <3> QED BY <3>2, <3>3
    <2> QED BY <1>1, <2>3, <2>4, <2>5, PipelineCut
  <1> QED BY <1>1, <1>2, <1>3, ClientKeeps

\* A query of the warmup has answered: the history of its timeframe starts.
LEMMA PreloadStep ==
    ASSUME IInv, warming # "done",
           history' = [history EXCEPT ![warming] = Latest(@ \o Preloaded(warming))],
           now' = now, missed' = missed, Pipeline' = Pipeline
    PROVE  FeedInv'
  <1>1. TypeOK /\ FeedInv /\ warming \in Frames /\ history \in [Frames -> Seq(Bar)]
    BY DEF IInv, TypeOK
  <1>2. queue = <<>> /\ inbox = <<>> /\ history[warming] = <<>>
    BY DEF IInv, WarmupFirst, Unwarmed, TypeOK
  <1>3. Pipeline = <<>>
    BY <1>2 DEF Pipeline
  <1>4. PICK bars : bars = Preloaded(warming)
    OBVIOUS
  <1>5. /\ bars \in Seq(Bar) /\ bars # <<>>
        /\ bars[Len(bars)].no = InProgress(warming) /\ ~bars[Len(bars)].whole
        /\ \A i \in 1 .. Len(bars) - 1 : bars[i + 1].no = bars[i].no + 1
    BY <1>1, <1>4, PreloadedFacts
  <1>6. Chained(warming, bars)
    <2>1. ASSUME NEW i \in 1 .. Len(bars) - 1 PROVE Linked(warming, bars[i], bars[i + 1])
      <3>1. bars[i] \in Bar /\ bars[i + 1].no = bars[i].no + 1
        BY <1>5
      <3>2. bars[i].no \in Int
        BY <3>1, CandlesAssumption DEF Bar
      <3> QED BY <3>1, <3>2 DEF Linked, Follows
    <2> QED BY <2>1 DEF Chained
  <1>7. <<>> \o bars = bars
    BY <1>5
  <1>8. PICK end : end = Latest(bars)
    OBVIOUS
  <1>9. /\ end \in Seq(Bar) /\ end # <<>> /\ end[Len(end)] = bars[Len(bars)]
        /\ Chained(warming, end)
    BY <1>1, <1>5, <1>6, <1>8, LatestChained
  <1>10. \A f \in Frames : history'[f] = IF f = warming THEN end ELSE history[f]
    BY <1>1, <1>2, <1>4, <1>7, <1>8
  <1>11. InProgress(warming) \in Int
    BY <1>1, ProgressType, CandlesAssumption
  <1>12. \A f : InProgress(f)' = InProgress(f)
    BY DEF InProgress
  <1>13. \A f \in Frames : LastBar(f)' = IF f = warming THEN bars[Len(bars)] ELSE LastBar(f)
    BY <1>9, <1>10 DEF LastBar
  <1>14. HistoriesLinked'
    <2>1. PICK after : after = history'
      OBVIOUS
    <2>2. \A f \in Frames : Chained(f, after[f])
      BY <1>1, <1>9, <1>10, <2>1 DEF FeedInv, HistoriesLinked
    <2>3. \A f \in Frames : Chained(f, after[f])'
      BY <2>2, ChainedStays
    <2> QED BY <2>1, <2>3 DEF HistoriesLinked
  <1>15. PipelineInOrder' /\ PipelineClosed'
    BY <1>3 DEF PipelineInOrder, PipelineClosed
  <1>16. HistoriesBehind'
    <2> SUFFICES ASSUME NEW f \in Frames, history'[f] # <<>>
                 PROVE  Follows(LastBar(f)', InProgress(f)')
      BY <1>3 DEF HistoriesBehind, Follows
    <2>1. CASE f = warming
      BY <1>5, <1>11, <1>12, <1>13, <2>1 DEF Follows
    <2>2. CASE f # warming
      BY <1>1, <1>10, <1>12, <1>13, <2>2 DEF FeedInv, HistoriesBehind
    <2> QED BY <2>1, <2>2
  <1>17. Accounted'
    <2>1. ASSUME NEW k \in ClosedKlines
          PROVE  k \in missed' \/ OnItsWay(k)' \/ Reached(k)'
      <3>1. k \in missed \/ OnItsWay(k) \/ Reached(k)
        BY <1>1 DEF FeedInv, Accounted
      <3>2. k.frame \in Frames
        BY DEF ClosedKlines, Kline
      <3>3. Reached(k) => k.frame # warming
        BY <1>2 DEF Reached
      <3>4. Reached(k) => Reached(k)'
        BY <1>10, <1>13, <3>2, <3>3 DEF Reached
      <3> QED BY <3>1, <3>4 DEF OnItsWay
    <2>2. ClosedKlines' = ClosedKlines
      BY DEF ClosedKlines, InProgress
    <2> QED BY <2>1, <2>2 DEF Accounted
  <1> QED BY <1>14, <1>15, <1>16, <1>17 DEF FeedInv

\* One timeframe of the warmup.
LEMMA WarmupStep == ASSUME IInv, Warmup PROVE FeedInv'
  <1>1. /\ FeedInv /\ warming # "done"
        /\ now' = now /\ missed' = missed /\ queue' = queue /\ inbox' = inbox
    BY DEF IInv, Warmup, clientVars
  <1>2. Pipeline' = Pipeline
    BY <1>1 DEF Pipeline
  <1>3. CASE history' = [history EXCEPT ![warming] = Latest(@ \o Preloaded(warming))]
    BY <1>1, <1>2, <1>3, PreloadStep
  <1>4. CASE history' = history
    BY <1>1, <1>2, <1>4, PipelineCut
  <1> QED BY <1>3, <1>4 DEF Warmup

\* Nothing but missed klines lies between the last bar and the one a decision
\* adds: a kline that is still on its way comes behind it.
LEMMA GapMissed ==
    ASSUME TypeOK, FeedInv, NEW k \in Kline, 1 \in DOMAIN Pipeline, Pipeline[1] = k,
           history[k.frame] # <<>>
    PROVE  Linked(k.frame, LastBar(k.frame), [no |-> k.no, whole |-> TRUE])
  <1>1. k.frame \in Frames /\ k.no \in 1 .. LastCandle /\ LastCandle \in Nat
    BY CandlesAssumption DEF Kline
  <1>2. LastBar(k.frame) \in Bar
    <2>1. history[k.frame] \in Seq(Bar)
      BY <1>1 DEF TypeOK
    <2> QED BY <2>1 DEF LastBar
  <1>3. LastBar(k.frame).no \in 1 .. LastCandle
    BY <1>2 DEF Bar
  <1>4. Follows(LastBar(k.frame), k.no)
    BY <1>1 DEF FeedInv, HistoriesBehind
  <1>5. k.no < InProgress(k.frame) /\ InProgress(k.frame) \in Nat
    BY <1>1, ProgressType, CandlesAssumption DEF FeedInv, PipelineClosed, ClosedKlines
  <1>6. ASSUME NEW n \in LastBar(k.frame).no + 1 .. k.no - 1
        PROVE  [frame |-> k.frame, no |-> n] \in missed
    <2> DEFINE skipped == [frame |-> k.frame, no |-> n]
    <2>1. n \in 1 .. LastCandle /\ n < InProgress(k.frame) /\ n < k.no /\ LastBar(k.frame).no < n
      BY <1>1, <1>3, <1>5
    <2>2. skipped \in ClosedKlines
      BY <1>1, <2>1 DEF ClosedKlines, Kline
    <2>3. ~Reached(skipped)
      BY <1>3, <2>1 DEF Reached
    <2>4. ASSUME NEW i \in DOMAIN Pipeline, Pipeline[i] = skipped PROVE FALSE
      <3>1. i # 1
        BY <2>1, <2>4
      <3>2. 1 < i
        BY <3>1, PipelineType
      <3>3. InOrder(k, skipped)
        BY <2>4, <3>2 DEF FeedInv, PipelineInOrder
      <3> QED BY <1>1, <2>1, <3>3 DEF InOrder
    <2>5. ~OnItsWay(skipped)
      BY <2>4 DEF OnItsWay
    <2> QED BY <2>2, <2>3, <2>5 DEF FeedInv, Accounted
  <1> QED BY <1>4, <1>6 DEF Linked

\* What a decision does to the history of its timeframe.
LEMMA DecidedHistory ==
    ASSUME TypeOK, FeedInv, NEW k \in Kline, Decide(k)
    PROVE  \E end \in Seq(Bar) :
              /\ \A f \in Frames : history'[f] = IF f = k.frame THEN end ELSE history[f]
              /\ history' \in [Frames -> Seq(Bar)]
              /\ end # <<>> /\ end[Len(end)] = [no |-> k.no, whole |-> TRUE]
              /\ Chained(k.frame, end)
  <1>1. PICK bar : bar = [no |-> k.no, whole |-> TRUE]
    OBVIOUS
  <1>2. k.frame \in Frames /\ bar \in Bar
    BY <1>1 DEF Kline, Bar
  <1>3. history \in [Frames -> Seq(Bar)]
    BY DEF TypeOK
  <1>4. PICK bars \in Seq(Bar) : bars = history[k.frame]
    BY <1>2, <1>3
  <1>5. Chained(k.frame, bars)
    BY <1>2, <1>4 DEF FeedInv, HistoriesLinked
  <1>6. bars # <<>> => Linked(k.frame, bars[Len(bars)], bar)
    BY <1>1, <1>4, DecideShortensPipeline, GapMissed DEF LastBar
  <1>7. PICK longer : longer = Append(bars, bar)
    OBVIOUS
  <1>8. /\ longer \in Seq(Bar) /\ longer # <<>>
        /\ longer[Len(longer)] = bar /\ Chained(k.frame, longer)
    BY <1>2, <1>5, <1>6, <1>7, AppendChained
  <1>9. PICK end : end = Latest(longer)
    OBVIOUS
  <1>10. /\ end \in Seq(Bar) /\ end # <<>> /\ end[Len(end)] = bar /\ Chained(k.frame, end)
    BY <1>2, <1>8, <1>9, LatestChained
  <1>11. history' = [history EXCEPT ![k.frame] = end]
    BY <1>1, <1>4, <1>7, <1>9 DEF Decide
  <1>12. /\ \A f \in Frames : history'[f] = IF f = k.frame THEN end ELSE history[f]
         /\ history' \in [Frames -> Seq(Bar)]
    BY <1>2, <1>3, <1>10, <1>11
  <1> QED BY <1>1, <1>10, <1>12

\* A decision.
LEMMA DecideStep == ASSUME IInv, NEW k \in Kline, Decide(k) PROVE FeedInv'
  <1>1. TypeOK /\ FeedInv /\ now' = now /\ missed' = missed
    BY DEF IInv, Decide
  <1>2. /\ 1 \in DOMAIN Pipeline /\ Pipeline[1] = k
        /\ \A i \in DOMAIN Pipeline' : i + 1 \in DOMAIN Pipeline /\ Pipeline'[i] = Pipeline[i + 1]
        /\ \A i \in DOMAIN Pipeline \ {1} :
              i - 1 \in DOMAIN Pipeline' /\ Pipeline'[i - 1] = Pipeline[i]
    BY <1>1, DecideShortensPipeline
  <1>3. PICK end \in Seq(Bar) :
              /\ \A f \in Frames : history'[f] = IF f = k.frame THEN end ELSE history[f]
              /\ history' \in [Frames -> Seq(Bar)]
              /\ end # <<>> /\ end[Len(end)] = [no |-> k.no, whole |-> TRUE]
              /\ Chained(k.frame, end)
    BY <1>1, DecidedHistory
  <1>4. /\ \A f \in Frames : InProgress(f)' = InProgress(f)
        /\ ClosedKlines' = ClosedKlines
    BY <1>1 DEF InProgress, ClosedKlines
  <1>5. \A f \in Frames : LastBar(f)' =
           IF f = k.frame THEN [no |-> k.no, whole |-> TRUE] ELSE LastBar(f)
    BY <1>3 DEF LastBar
  <1>6. k.frame \in Frames /\ k \in ClosedKlines /\ k.no \in Nat
    BY <1>1, <1>2, CandlesAssumption DEF FeedInv, PipelineClosed, ClosedKlines, Kline
  <1>7. DOMAIN Pipeline \subseteq Nat /\ DOMAIN Pipeline' \subseteq Int
    <2>1. DOMAIN Pipeline \subseteq Nat
      BY <1>1, PipelineType
    <2>2. queue' \in Seq(Kline) /\ inbox' \in Seq(Kline)
      BY <1>1, DecideShortensPipeline DEF Decide, clientVars, TypeOK, ClientTypeOK
    <2>3. DOMAIN Pipeline' \subseteq Int
      BY <2>2, ConcatProperties DEF Pipeline
    <2> QED BY <2>1, <2>3
  <1>8. HistoriesLinked'
    <2>1. PICK after : after = history'
      OBVIOUS
    <2>2. \A f \in Frames : Chained(f, after[f])
      BY <1>1, <1>3, <2>1 DEF FeedInv, HistoriesLinked
    <2>3. \A f \in Frames : Chained(f, after[f])'
      BY <1>1, <2>2, ChainedStays
    <2> QED BY <2>1, <2>3 DEF HistoriesLinked
  <1>9. PipelineInOrder'
    <2>1. ASSUME NEW i \in DOMAIN Pipeline', NEW j \in DOMAIN Pipeline', i < j
          PROVE  InOrder(Pipeline'[i], Pipeline'[j])
      <3>1. i + 1 \in DOMAIN Pipeline /\ j + 1 \in DOMAIN Pipeline /\ i + 1 < j + 1
        BY <1>2, <1>7, <2>1
      <3>2. InOrder(Pipeline[i + 1], Pipeline[j + 1])
        BY <1>1, <3>1 DEF FeedInv, PipelineInOrder
      <3> QED BY <1>2, <3>2
    <2> QED BY <2>1 DEF PipelineInOrder, InOrder
  <1>10. PipelineClosed'
    BY <1>1, <1>2, <1>4 DEF FeedInv, PipelineClosed
  <1>11. HistoriesBehind'
    <2> SUFFICES ASSUME NEW f \in Frames, history'[f] # <<>>
                 PROVE  /\ Follows(LastBar(f)', InProgress(f))
                        /\ \A i \in DOMAIN Pipeline' :
                              Pipeline'[i].frame = f => Follows(LastBar(f)', Pipeline'[i].no)
      BY <1>4 DEF HistoriesBehind, Follows
    <2>1. CASE f = k.frame
      <3>1. LastBar(f)'.no = k.no
        BY <1>5, <2>1
      <3>2. Follows(LastBar(f)', InProgress(f))
        BY <1>6, <2>1, <3>1 DEF ClosedKlines, Follows
      <3>3. ASSUME NEW i \in DOMAIN Pipeline', Pipeline'[i].frame = f
            PROVE  Follows(LastBar(f)', Pipeline'[i].no)
        <4>1. i + 1 \in DOMAIN Pipeline /\ Pipeline'[i] = Pipeline[i + 1]
          BY <1>2
        <4>2. i + 1 # 1
          <5>1. i # 0
            <6>1. queue' \in Seq(Kline) /\ inbox' \in Seq(Kline)
              BY <1>1, DecideShortensPipeline DEF Decide, clientVars, TypeOK, ClientTypeOK
            <6> QED BY <6>1, ConcatProperties DEF Pipeline
          <5> QED BY <1>7, <5>1
        <4>3. 1 < i + 1
          BY <1>1, <4>1, <4>2, PipelineType
        <4>4. InOrder(k, Pipeline[i + 1])
          BY <1>1, <1>2, <4>1, <4>3 DEF FeedInv, PipelineInOrder
        <4> QED BY <2>1, <3>1, <3>3, <4>1, <4>4 DEF InOrder, Follows
      <3> QED BY <3>2, <3>3
    <2>2. CASE f # k.frame
      BY <1>1, <1>2, <1>3, <1>5, <2>2 DEF FeedInv, HistoriesBehind
    <2> QED BY <2>1, <2>2
  <1>12. Accounted'
    <2>1. ASSUME NEW c \in ClosedKlines
          PROVE  c \in missed' \/ OnItsWay(c)' \/ Reached(c)'
      <3>1. c \in missed \/ OnItsWay(c) \/ Reached(c)
        BY <1>1 DEF FeedInv, Accounted
      <3>2. c.frame \in Frames /\ c.no \in Nat
        BY CandlesAssumption DEF ClosedKlines, Kline
      <3>3. ASSUME Reached(c) PROVE Reached(c)'
        <4>1. CASE c.frame = k.frame
          <5>1. LastBar(k.frame) \in Bar /\ Follows(LastBar(k.frame), k.no)
            <6>1. history[k.frame] \in Seq(Bar) /\ history[k.frame] # <<>>
              BY <1>1, <1>6, <3>3, <4>1 DEF TypeOK, Reached
            <6> QED BY <1>1, <1>2, <1>6, <6>1 DEF LastBar, FeedInv, HistoriesBehind
          <5>2. LastBar(k.frame).no \in Int /\ LastBar(k.frame).no <= k.no
            BY <1>6, <5>1, CandlesAssumption DEF Bar, Follows
          <5> QED BY <1>3, <1>5, <1>6, <3>2, <3>3, <4>1, <5>2 DEF Reached
        <4>2. CASE c.frame # k.frame
          BY <1>3, <1>5, <3>2, <3>3, <4>2 DEF Reached
        <4> QED BY <4>1, <4>2
      <3>4. ASSUME OnItsWay(c) PROVE OnItsWay(c)' \/ Reached(c)'
        <4>1. PICK i \in DOMAIN Pipeline : Pipeline[i] = c
          BY <3>4 DEF OnItsWay
        <4>2. CASE i = 1
          BY <1>2, <1>3, <1>5, <1>6, <4>1, <4>2 DEF Reached
        <4>3. CASE i # 1
          BY <1>2, <4>1, <4>3 DEF OnItsWay
        <4> QED BY <4>2, <4>3
      <3> QED BY <1>1, <3>1, <3>3, <3>4
    <2> QED BY <1>4, <2>1 DEF Accounted
  <1> QED BY <1>8, <1>9, <1>10, <1>11, <1>12 DEF FeedInv

-----------------------------------------------------------------------------
(***************************************************************************)
(* TypeOK and WarmupFirst, step by step.                                   *)
(***************************************************************************)

\* The histories stay sequences of bars when a query of the warmup answers.
LEMMA WarmupType == ASSUME IInv, Warmup PROVE TypeOK' /\ WarmupFirst'
  <1>1. /\ TypeOK /\ WarmupFirst /\ warming \in Frames /\ history \in [Frames -> Seq(Bar)]
        /\ clientVars' = clientVars /\ now' = now /\ queue' = queue /\ missed' = missed
        /\ warming' = IF warming = "candle" THEN "regime" ELSE "done"
    BY DEF IInv, TypeOK, Warmup
  <1>2. queue = <<>> /\ inbox = <<>> /\ history[warming] = <<>>
    <2>1. warming # "done"
      BY DEF Warmup
    <2> QED BY <1>1, <2>1 DEF WarmupFirst, Unwarmed
  <1>3. PICK end : end = Latest(history[warming] \o Preloaded(warming))
    OBVIOUS
  <1>4. end \in Seq(Bar)
    <2>1. PICK bars : bars = Preloaded(warming)
      OBVIOUS
    <2>2. bars \in Seq(Bar) /\ bars # <<>>
      BY <1>1, <2>1, PreloadedFacts
    <2>3. <<>> \o bars = bars
      BY <2>2
    <2> QED BY <1>2, <1>3, <2>1, <2>2, <2>3, LatestIsEnd
  <1>5. /\ history' \in [Frames -> Seq(Bar)]
        /\ \A f \in Frames : f # warming => history'[f] = history[f]
    <2>1. history' = [history EXCEPT ![warming] = end] \/ history' = history
      BY <1>3 DEF Warmup
    <2> QED BY <1>1, <1>4, <2>1
  <1>6. TypeOK'
    BY <1>1, <1>5 DEF TypeOK, ClientTypeOK, clientVars, Frames
  <1>7. WarmupFirst'
    <2>1. warming' # "done" => /\ warming = "candle" /\ warming' = "regime"
      BY <1>1
    <2>2. warming = "candle" => history["regime"] = <<>>
      BY <1>1 DEF WarmupFirst, Unwarmed, Frames
    <2> QED BY <1>1, <1>2, <1>5, <2>1, <2>2 DEF WarmupFirst, Unwarmed, Frames, clientVars
  <1> QED BY <1>6, <1>7

\* A kline that is sent is one of the timeframes, and the client is there to take it.
LEMMA SentType == ASSUME IInv, CandleSent PROVE TypeOK' /\ WarmupFirst'
  <1>1. PICK klines \in SetToSeqs(Closing) : Receive(klines)
    BY DEF CandleSent
  <1>2. /\ TypeOK /\ WarmupFirst /\ now < LastCandle /\ now' = now + 1
        /\ warming' = warming /\ queue' = queue /\ history' = history /\ missed' = missed
    BY DEF IInv, CandleSent
  <1>3. klines \in Seq(Kline)
    BY <1>2, SentOnce
  <1>4. inbox' \in Seq(Kline)
    BY <1>1, <1>2, <1>3, ConcatProperties DEF Receive, TypeOK, ClientTypeOK
  <1>5. now' \in FirstCandle .. LastCandle
    BY <1>2, CandlesAssumption DEF TypeOK
  <1>6. ClientTypeOK(Kline)'
    BY <1>1, <1>2, <1>4 DEF Receive, TypeOK, ClientTypeOK
  <1>7. warming = "done"
    BY <1>1, <1>2 DEF Receive, WarmupFirst
  <1> QED BY <1>2, <1>5, <1>6, <1>7 DEF TypeOK, WarmupFirst

\* A kline that is not sent is one all the same.
LEMMA MissedType == ASSUME IInv, CandleMissed PROVE TypeOK' /\ WarmupFirst'
  <1>1. /\ TypeOK /\ WarmupFirst /\ now < LastCandle /\ now' = now + 1
        /\ clientVars' = clientVars /\ warming' = warming /\ queue' = queue
        /\ history' = history /\ missed' = missed \union Closing
    BY DEF IInv, CandleMissed
  <1>2. Closing \subseteq Kline
    BY <1>1, Tick
  <1>3. now' \in FirstCandle .. LastCandle
    BY <1>1, CandlesAssumption DEF TypeOK
  <1>4. TypeOK'
    BY <1>1, <1>2, <1>3 DEF TypeOK, ClientTypeOK, clientVars
  <1>5. WarmupFirst'
    BY <1>1 DEF WarmupFirst, Unwarmed, clientVars
  <1> QED BY <1>4, <1>5

\* Handling a kline moves it.
LEMMA ApplyType == ASSUME IInv, Apply PROVE TypeOK' /\ WarmupFirst'
  <1>1. PICK k \in Kline : Handle(k)
    BY DEF Apply
  <1>2. /\ TypeOK /\ WarmupFirst /\ now' = now /\ warming' = warming
        /\ history' = history /\ missed' = missed
    BY DEF IInv, Apply
  <1>3. queue' \in Seq(Kline) /\ inbox' \in Seq(Kline)
    BY <1>2, ApplyKeepsPipeline
  <1>4. TypeOK'
    BY <1>1, <1>2, <1>3 DEF Handle, TypeOK, ClientTypeOK
  <1>5. warming = "done"
    BY <1>1, <1>2 DEF Handle, WarmupFirst
  <1> QED BY <1>2, <1>4, <1>5 DEF WarmupFirst

\* A decision adds a bar.
LEMMA DecideType ==
    ASSUME IInv, NEW k \in Kline, Decide(k) PROVE TypeOK' /\ WarmupFirst'
  <1>1. /\ TypeOK /\ FeedInv /\ WarmupFirst /\ queue # <<>>
        /\ clientVars' = clientVars /\ now' = now /\ warming' = warming /\ missed' = missed
    BY DEF IInv, Decide
  <1>2. queue' \in Seq(Kline) /\ history' \in [Frames -> Seq(Bar)]
    BY <1>1, DecideShortensPipeline, DecidedHistory
  <1>3. TypeOK'
    BY <1>1, <1>2 DEF TypeOK, ClientTypeOK, clientVars
  <1>4. warming = "done"
    BY <1>1 DEF WarmupFirst
  <1> QED BY <1>1, <1>3, <1>4 DEF WarmupFirst

\* A step of the client touches neither the queue nor the histories.
LEMMA ClientType == ASSUME IInv, Client PROVE TypeOK' /\ WarmupFirst'
  <1>1. /\ TypeOK /\ warming = "done" /\ ClientStep
        /\ now' = now /\ warming' = warming /\ queue' = queue /\ history' = history
        /\ missed' = missed \union (Range(inbox) \ Range(inbox'))
    BY DEF IInv, Client
  <1>2. ClientTypeOK(Kline)'
    BY <1>1, ClientKeeps
  <1>3. Range(inbox) \subseteq Kline
    BY <1>1 DEF TypeOK, ClientTypeOK, Range
  <1>4. TypeOK'
    BY <1>1, <1>2, <1>3 DEF TypeOK
  <1> QED BY <1>1, <1>4 DEF WarmupFirst

-----------------------------------------------------------------------------
(***************************************************************************)
(* The invariant holds.                                                    *)
(***************************************************************************)

\* At the start nothing is on its way, and all that has closed counts as missed.
LEMMA InitInv == ASSUME Init PROVE IInv
  <1>1. TypeOK
    <2>1. ClientTypeOK(Kline)
      <3>1. inbox \in Seq(Kline)
        BY DEF Init, ClientInit
      <3> QED BY <3>1 DEF Init, ClientInit, ClientTypeOK
    <2>2. now \in FirstCandle .. LastCandle
      BY CandlesAssumption DEF Init
    <2>3. warming \in Frames \union {"done"} /\ missed \in SUBSET Kline
      BY DEF Init, Frames, ClosedKlines
    <2>4. <<>> \in Seq(Kline) /\ <<>> \in Seq(Bar)
      OBVIOUS
    <2>5. queue \in Seq(Kline) /\ history \in [Frames -> Seq(Bar)]
      BY <2>4 DEF Init
    <2> QED BY <2>1, <2>2, <2>3, <2>5 DEF TypeOK
  <1>2. WarmupFirst
    BY DEF Init, ClientInit, WarmupFirst, Frames
  <1>3. queue = <<>> /\ inbox = <<>> /\ \A f \in Frames : history[f] = <<>>
    BY DEF Init, ClientInit
  <1>4. Pipeline = <<>>
    BY <1>3 DEF Pipeline
  <1>5. HistoriesLinked
    BY <1>3 DEF HistoriesLinked, Chained
  <1>6. PipelineInOrder /\ PipelineClosed
    BY <1>4 DEF PipelineInOrder, PipelineClosed
  <1>7. HistoriesBehind
    BY <1>3 DEF HistoriesBehind
  <1>8. Accounted
    BY DEF Init, Accounted
  <1> QED BY <1>1, <1>2, <1>5, <1>6, <1>7, <1>8 DEF IInv, FeedInv

\* Every step keeps the invariant.
LEMMA StepInv == ASSUME IInv, [Next]_vars PROVE IInv'
  <1>1. CASE Warmup
    BY <1>1, WarmupStep, WarmupType DEF IInv
  <1>2. CASE CandleSent
    BY <1>2, SentStep, SentType DEF IInv
  <1>3. CASE CandleMissed
    BY <1>3, MissedStep, MissedType DEF IInv
  <1>4. CASE Apply
    BY <1>4, ApplyStep, ApplyType DEF IInv
  <1>5. ASSUME NEW k \in Kline, Decide(k) PROVE IInv'
    BY <1>5, DecideStep, DecideType DEF IInv
  <1>6. CASE Client
    BY <1>6, ClientDropStep, ClientType DEF IInv
  <1>7. CASE UNCHANGED vars
    <2>1. /\ private' = private /\ phase' = phase /\ stop' = stop /\ link' = link
          /\ kept' = kept /\ subscribed' = subscribed /\ inbox' = inbox /\ reader' = reader
          /\ ping' = ping /\ health' = health /\ now' = now /\ warming' = warming
          /\ queue' = queue /\ history' = history /\ missed' = missed
      BY <1>7 DEF vars
    <2>2. Pipeline' = Pipeline
      BY <2>1 DEF Pipeline
    <2>3. FeedInv'
      BY <2>1, <2>2, PipelineCut DEF IInv
    <2>4. TypeOK' /\ WarmupFirst'
      BY <2>1 DEF IInv, TypeOK, ClientTypeOK, WarmupFirst, Unwarmed
    <2> QED BY <2>3, <2>4 DEF IInv
  <1> QED BY <1>1, <1>2, <1>3, <1>4, <1>5, <1>6, <1>7 DEF Next, Decision

\* The invariant, for any number of candles and any lengths.
THEOREM Invariance == Spec => []IInv
  <1>1. Init => IInv
    BY InitInv
  <1>2. IInv /\ [Next]_vars => IInv'
    BY StepInv
  <1> QED BY <1>1, <1>2, PTL DEF Spec

\* The variables have their types: among them, no bar and no kline ever has a
\* number beyond the candles there are, in the histories of MarketState and in
\* its queue.
THEOREM TypeCorrect == Spec => []TypeOK
  <1>1. IInv => TypeOK
    BY DEF IInv
  <1> QED BY <1>1, Invariance, PTL

\* Whatever reconnections, backlogs and lost candles there were, _bar_history
\* never steps back in time, and repeats a candle only where the warmup took
\* the one in progress for a confirmed one.
THEOREM HistoryInOrder == Spec => []BarsInOrder
  <1>1. ASSUME IInv PROVE BarsInOrder
    <2> SUFFICES ASSUME NEW f \in Frames, NEW i \in Neighbours(f)
                 PROVE  Follows(history[f][i], history[f][i + 1].no)
      BY DEF BarsInOrder, Follows
    <2>1. Len(history[f]) \in Nat
      BY <1>1 DEF IInv, TypeOK
    <2>2. i \in 1 .. Len(history[f]) - 1
      BY <2>1 DEF Neighbours
    <2> QED BY <1>1, <2>2 DEF IInv, FeedInv, HistoriesLinked, Chained, Linked
  <1> QED BY <1>1, Invariance, PTL

\* Where _bar_history skips a candle, the stream did not bring it.
THEOREM GapsExplained == Spec => []GapOnlyWhereMissed
  <1>1. ASSUME IInv PROVE GapOnlyWhereMissed
    <2> SUFFICES ASSUME NEW f \in Frames, NEW i \in Neighbours(f),
                        NEW n \in history[f][i].no + 1 .. history[f][i + 1].no - 1
                 PROVE  [frame |-> f, no |-> n] \in missed
      BY DEF GapOnlyWhereMissed
    <2>1. Len(history[f]) \in Nat
      BY <1>1 DEF IInv, TypeOK
    <2>2. i \in 1 .. Len(history[f]) - 1
      BY <2>1 DEF Neighbours
    <2> QED BY <1>1, <2>2 DEF IInv, FeedInv, HistoriesLinked, Chained, Linked
  <1> QED BY <1>1, Invariance, PTL

\* A regime bar that closed before the candle opened is in the history when
\* the candle is decided on, unless it was missed.
LEMMA RegimeReached ==
    ASSUME IInv, NEW k \in Kline, k.frame = "candle", Decide(k),
           NEW r \in 1 .. LastCandle, r * PerRegime < k.no
    PROVE  \/ [frame |-> "regime", no |-> r] \in missed
           \/ \E i \in DOMAIN history.regime : history.regime[i].no >= r
  <1> DEFINE bar == [frame |-> "regime", no |-> r]
  <1>1. TypeOK /\ FeedInv
    BY DEF IInv
  <1>2. 1 \in DOMAIN Pipeline /\ Pipeline[1] = k
    BY <1>1, DecideShortensPipeline
  <1>3. /\ r \in Nat \ {0} /\ PerRegime \in Nat \ {0} /\ k.no \in Nat /\ now \in Nat
        /\ LastCandle \in Nat /\ r * PerRegime \in Nat
    BY <1>1, CandlesAssumption DEF Kline, TypeOK
  <1>4. k.no < now
    BY <1>1, <1>2 DEF FeedInv, PipelineClosed, ClosedKlines, InProgress
  <1>5. r < InProgress("regime")
    <2>1. r * PerRegime <= now - 1
      BY <1>3, <1>4
    <2>2. r <= (now - 1) \div PerRegime
      BY <1>3, <2>1, Z3
    <2>3. (now - 1) \div PerRegime \in Int
      BY <1>3, <1>4, Z3
    <2> QED BY <1>3, <2>2, <2>3 DEF InProgress
  <1>6. bar \in ClosedKlines
    BY <1>3, <1>5 DEF ClosedKlines, Kline, Frames
  <1>7. bar \in missed \/ OnItsWay(bar) \/ Reached(bar)
    BY <1>1, <1>6 DEF FeedInv, Accounted
  <1>8. ~OnItsWay(bar)
    <2> SUFFICES ASSUME NEW i \in DOMAIN Pipeline, Pipeline[i] = bar PROVE FALSE
      BY DEF OnItsWay
    <2>1. i # 1
      BY <1>2
    <2>2. 1 < i
      BY <1>1, <2>1, PipelineType
    <2>3. InOrder(k, bar)
      BY <1>1, <1>2, <2>2 DEF FeedInv, PipelineInOrder
    <2> QED BY <1>3, <2>3 DEF InOrder
  <1>9. Reached(bar) => \E i \in DOMAIN history.regime : history.regime[i].no >= r
    <2>1. history.regime = history["regime"]
      OBVIOUS
    <2>2. history["regime"] \in Seq(Bar)
      BY <1>1 DEF TypeOK, Frames
    <2>3. history["regime"] # <<>> => Len(history["regime"]) \in DOMAIN history["regime"]
      BY <2>2
    <2>4. \A i \in DOMAIN history["regime"] : history["regime"][i].no \in Int
      <3>1. \A i \in DOMAIN history["regime"] : history["regime"][i] \in Bar
        BY <2>2
      <3>2. \A b \in Bar : b.no \in Int
        BY <1>3 DEF Bar
      <3> QED BY <3>1, <3>2
    <2> QED BY <1>3, <2>1, <2>3, <2>4 DEF Reached, LastBar
  <1> QED BY <1>7, <1>8, <1>9

\* A decision on a candle has the regime timeframe before it: the one queue of
\* MarketState keeps the two timeframes in step.
THEOREM TimeframesInStep == Spec => RegimeInStep
  <1>1. ASSUME IInv
        PROVE  \A kline \in Kline : kline.frame = "candle" /\ Decide(kline) =>
                  \A r \in {r \in 1 .. LastCandle : r * PerRegime < kline.no} :
                     \/ [frame |-> "regime", no |-> r] \in missed
                     \/ \E i \in DOMAIN history.regime : history.regime[i].no >= r
    BY <1>1, RegimeReached
  <1> QED BY <1>1, Invariance, PTL DEF RegimeInStep
=============================================================================
