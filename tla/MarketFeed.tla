----------------------------- MODULE MarketFeed -----------------------------
(***************************************************************************)
(* How closed candles get from the exchange to a decision: the warmup over *)
(* REST, the public websocket client, the queue of MarketState, and the    *)
(* decision loop that appends them to the history the signals are made     *)
(* from.  One symbol, its two timeframes.  With the private client no      *)
(* candle comes over the stream.                                           *)
(*                                                                         *)
(* A candle is its number; the candle in progress is `now'.  The exchange  *)
(* (external) sends a candle once, when it closes, over a link that is     *)
(* subscribed, and answers a REST query with the candle in progress first. *)
(***************************************************************************)
EXTENDS WsClient, SequencesExt

CONSTANTS
    FirstCandle, \* the candle in progress when the runtime starts
    LastCandle,  \* bound: time ends in this candle
    PerRegime,   \* candles of candle_timeframe in one of regime_timeframe
    FetchLimit,  \* candles a warmup query asks for
    HistoryMax   \* maxlen of a history

ASSUME CandlesAssumption ==
    /\ FirstCandle \in Nat \ {0} /\ LastCandle \in Nat /\ FirstCandle <= LastCandle
    /\ PerRegime \in Nat \ {0} /\ FetchLimit \in Nat \ {0} /\ HistoryMax \in Nat \ {0}

Frames == {"candle", "regime"}

Kline == [frame : Frames, no : 1 .. LastCandle]

VARIABLES
    now,     \* the candle in progress
    warming, \* the timeframe the warmup is at, or "done"
    queue,   \* _confirmed_kline_queue
    history, \* _bar_history of the symbol: bars [no, whole] of each timeframe
    missed   \* history: klines that closed and did not come over the stream

feedVars == <<now, warming, queue, history, missed>>
vars == <<private, phase, stop, link, kept, subscribed, inbox, reader, ping, health,
          now, warming, queue, history, missed>>

Bar == [no : 1 .. LastCandle, whole : BOOLEAN]

TypeOK ==
    /\ ClientTypeOK(Kline)
    /\ now \in FirstCandle .. LastCandle
    /\ warming \in Frames \union {"done"}
    /\ queue \in Seq(Kline)
    /\ history \in [Frames -> Seq(Bar)]
    /\ missed \in SUBSET Kline

\* The number of the candle of the timeframe that is in progress.
InProgress(frame) ==
    IF frame = "candle" THEN now ELSE ((now - 1) \div PerRegime) + 1

ClosedKlines == {k \in Kline : k.no < InProgress(k.frame)}

Init ==
    /\ ClientInit
    /\ now = FirstCandle
    /\ warming = "candle"
    /\ queue = <<>>
    /\ history = [f \in Frames |-> <<>>]
    /\ missed = ClosedKlines

-----------------------------------------------------------------------------
\* A deque with a maxlen forgets its oldest entries.
Latest(bars) ==
    SubSeq(bars, IF Len(bars) > HistoryMax THEN Len(bars) - HistoryMax + 1 ELSE 1, Len(bars))

\* External: get_kline, newest first.
Fetched(frame) ==
    LET last == InProgress(frame)
    IN  [i \in 1 .. (IF last < FetchLimit THEN last ELSE FetchLimit) |->
            [no |-> last - i + 1, whole |-> i # 1]]

\* Mutant of Preloaded: the candles as the exchange lists them.
PreloadedUnsorted(frame) == Fetched(frame)

\* sorted(items, key=start_time_ms).
Sorted(klines) ==
    CHOOSE s \in [DOMAIN klines -> Range(klines)] :
        /\ Range(s) = Range(klines)
        /\ \A i, j \in DOMAIN s : i < j => s[i].no < s[j].no

\* The candle in progress is taken for a confirmed one.
Preloaded(frame) == Sorted(Fetched(frame))

\* One timeframe of preload_warmup_klines; a query that fails is passed over.
Warmup ==
    /\ warming # "done"
    /\ warming' = IF warming = "candle" THEN "regime" ELSE "done"
    /\ \/ history' = [history EXCEPT ![warming] = Latest(@ \o Preloaded(warming))]
       \/ UNCHANGED history
    /\ UNCHANGED <<clientVars, now, queue, missed>>

Closing ==
    {[frame |-> "candle", no |-> now]}
        \union (IF now % PerRegime = 0 THEN {[frame |-> "regime", no |-> now \div PerRegime]}
                ELSE {})

\* Both timeframes may close at once; the order in which they are sent is open.
CandleSent ==
    /\ now < LastCandle
    /\ ~private
    /\ now' = now + 1
    /\ \E klines \in SetToSeqs(Closing) : Receive(klines)
    /\ UNCHANGED <<warming, queue, history, missed>>

CandleMissed ==
    /\ now < LastCandle
    /\ ~(link = "open" /\ subscribed)
    /\ now' = now + 1
    /\ missed' = missed \union Closing
    /\ UNCHANGED <<clientVars, warming, queue, history>>

-----------------------------------------------------------------------------
\* Mutant of Enqueued: a backlog is not worth keeping.
EnqueuedIfIdle(kline) == IF queue = <<>> THEN <<kline>> ELSE queue

\* Mutant of Enqueued: the candles that decisions are made on go first.
EnqueuedByFrame(kline) ==
    IF kline.frame = "candle" THEN <<kline>> \o queue ELSE Append(queue, kline)

Enqueued(kline) == Append(queue, kline)

\* apply_event of MarketState, for a confirmed kline; the queue has no bound.
Apply ==
    /\ \E kline \in Kline : Handle(kline) /\ queue' = Enqueued(kline)
    /\ UNCHANGED <<now, warming, history, missed>>

\* The decision loop: the next kline becomes a bar of its history, and one of
\* candle_timeframe leads to a decision on what the histories hold then.
Decide(kline) ==
    /\ queue # <<>>
    /\ kline = Head(queue)
    /\ queue' = Tail(queue)
    /\ history' = [history EXCEPT ![kline.frame] =
                      Latest(Append(@, [no |-> kline.no, whole |-> TRUE]))]
    /\ UNCHANGED <<clientVars, now, warming, missed>>

Decision == \E kline \in Kline : Decide(kline)

\* The client's task starts when the warmup is done.  What its reader has not
\* read when a connection fails does not come again.
Client ==
    /\ warming = "done"
    /\ ClientStep
    /\ missed' = missed \union (Range(inbox) \ Range(inbox'))
    /\ UNCHANGED <<now, warming, queue, history>>

Next == Warmup \/ CandleSent \/ CandleMissed \/ Apply \/ Decision \/ Client

Spec == Init /\ [][Next]_vars

\* The tasks run; attempts to connect are answered again and again, a failed
\* one included; a silent link does not outlive its pings.
FairSpec ==
    /\ Spec
    /\ WF_vars(Warmup) /\ WF_vars(Apply) /\ WF_vars(Decision)
    /\ WF_vars(Client /\ ReaderEnds) /\ WF_vars(Client /\ PingFails)
    /\ WF_vars(Client /\ ConnectionFails) /\ WF_vars(Client /\ BackoffOver)
    /\ WF_vars(Client /\ HandshakeFails) /\ WF_vars(Client /\ SilentBreaks)
    /\ SF_vars(Client /\ Connect) /\ SF_vars(Client /\ AuthAcked)
    /\ SF_vars(Client /\ ServerSubscribes) /\ SF_vars(Client /\ link = "open" /\ SubscribeAcked)

-----------------------------------------------------------------------------
(***************************************************************************)
(* Properties.                                                             *)
(***************************************************************************)

Neighbours(f) == {i \in 1 .. Len(history[f]) : i < Len(history[f])}

\* The history a signal is made from never steps back in time, and a candle
\* stands in it twice only if the first is the one the warmup found still in
\* progress, whatever reconnections and backlogs came in between.
BarsInOrder ==
    \A f \in Frames : \A i \in Neighbours(f) :
        LET bar == history[f][i]
            next == history[f][i + 1]
        IN  bar.no < next.no \/ (bar.no = next.no /\ ~bar.whole)

\* Where the history skips a candle, the stream did not bring it: neither the
\* queue nor the loop behind it drops one that was received and handled.
GapOnlyWhereMissed ==
    \A f \in Frames : \A i \in Neighbours(f) :
        \A n \in history[f][i].no + 1 .. history[f][i + 1].no - 1 :
            [frame |-> f, no |-> n] \in missed

\* A decision on a candle has before it every bar of the regime timeframe that
\* closed before the candle opened, unless the stream did not bring it: the
\* one queue keeps the two timeframes in step.
RegimeInStep ==
    [][\A kline \in Kline :
          kline.frame = "candle" /\ Decide(kline) =>
             \A r \in {r \in 1 .. LastCandle : r * PerRegime < kline.no} :
                \/ [frame |-> "regime", no |-> r] \in missed
                \/ \E i \in DOMAIN history.regime : history.regime[i].no >= r
      ]_vars

\* The client gets back to a live subscription again and again until it is
\* stopped, also after a link that closes in order, which only the next ping
\* notices, and one that goes silent.
StreamsAgain == []<>(Live \/ stop)

=============================================================================
