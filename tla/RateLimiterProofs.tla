-------------------------- MODULE RateLimiterProofs --------------------------
(***************************************************************************)
(* Theorems about RateLimiter, for every limit, window and number of calls.*)
(***************************************************************************)
EXTENDS RateLimiter, SequenceTheorems, FiniteSetTheorems, TLAPS

-----------------------------------------------------------------------------
(***************************************************************************)
(* The inductive invariant.                                                *)
(***************************************************************************)

\* No call that returned within the window is missing from the queue of time
\* stamps, and that queue names only calls that returned.
Recorded ==
    /\ \A c \in passed : age[c] <= Window => \E i \in 1 .. Len(events) : events[i] = c
    /\ \A i \in 1 .. Len(events) : events[i] \in passed

\* A holder that has slept finds the oldest time stamp at the edge of the
\* window when it wakes from its first sleep and past it after the second.
Sleeping ==
    sleeps > 0 =>
        /\ queue # <<>>
        /\ Len(events) = Limit
        /\ sleeps <= 2
        /\ left + age[events[1]] >= Window + (sleeps - 1)

IInv == TypeOK /\ Recorded /\ Sleeping

-----------------------------------------------------------------------------
\* Popping n expired time stamps loses no call within the window.
LEMMA KeptTimes ==
  ASSUME TypeOK, Recorded, NEW n \in 0 .. Len(events), Pops(n),
         NEW kept, kept = SubSeq(events, n + 1, Len(events))
  PROVE  /\ kept \in Seq(Calls)
         /\ Len(kept) = Len(events) - n
         /\ \A i \in 1 .. Len(kept) : kept[i] = events[i + n]
         /\ \A c \in passed : age[c] <= Window => \E i \in 1 .. Len(kept) : kept[i] = c
         /\ \A i \in 1 .. Len(kept) : kept[i] \in passed
  <1>1. events \in Seq(Calls) /\ Len(events) \in Nat /\ n \in Nat
    BY DEF TypeOK
  <1>2. \A i \in n + 1 .. Len(events) : events[i] \in Calls
    BY <1>1
  <1>3. /\ kept \in Seq(Calls)
        /\ Len(kept) = Len(events) - n
        /\ \A i \in 1 .. Len(kept) : kept[i] = events[i + n]
    BY <1>1, <1>2, SubSeqProperties
  <1>4. ASSUME NEW c \in passed, age[c] <= Window
        PROVE  \E i \in 1 .. Len(kept) : kept[i] = c
    <2>1. PICK j \in 1 .. Len(events) : events[j] = c
      BY <1>4 DEF Recorded
    <2>2. age \in [Calls -> 0 .. Window + 1] /\ Window \in Nat /\ c \in Calls
      BY LimitAssumption DEF TypeOK
    <2>3. ~Expired(events[j])
      BY <1>4, <2>1, <2>2 DEF Expired
    <2>4. j - n \in 1 .. Len(kept)
      BY <1>1, <1>3, <2>3 DEF Pops
    <2> QED BY <1>1, <1>3, <2>1, <2>4
  <1>5. \A i \in 1 .. Len(kept) : i + n \in 1 .. Len(events)
    BY <1>1, <1>3
  <1>6. \A i \in 1 .. Len(kept) : kept[i] \in passed
    BY <1>3, <1>5 DEF Recorded
  <1> QED BY <1>3, <1>4, <1>6

\* A turn of the loop keeps the invariant, whoever takes it.  waiting is the
\* rest of the queue.
LEMMA AttemptKeeps ==
  ASSUME IInv, NEW c \in Calls, NEW waiting \in Seq(Calls), Attempt(c, waiting),
         called' \in 0 .. MaxCalls,
         sleeps > 0 => left = 0
  PROVE  IInv'
  <1> USE LimitAssumption
  <1> DEFINE kept(n) == SubSeq(events, n + 1, Len(events))
  <1>1. PICK n \in 0 .. Len(events) :
          /\ Pops(n)
          /\ \/ /\ HasRoom(kept(n))
                /\ events' = Append(kept(n), c)
                /\ passed' = passed \union {c}
                /\ age' = [age EXCEPT ![c] = 0]
                /\ queue' = waiting
                /\ left' = 0
                /\ sleeps' = 0
             \/ /\ ~HasRoom(kept(n))
                /\ events' = kept(n)
                /\ queue' = <<c>> \o waiting
                /\ left' = SleepFor(kept(n))
                /\ sleeps' = IF sleeps < 3 THEN sleeps + 1 ELSE sleeps
                /\ UNCHANGED <<passed, age>>
    BY DEF Attempt
  <1> DEFINE k == kept(n)
  <1>2. /\ k \in Seq(Calls)
        /\ Len(k) = Len(events) - n
        /\ \A i \in 1 .. Len(k) : k[i] = events[i + n]
        /\ \A d \in passed : age[d] <= Window => \E i \in 1 .. Len(k) : k[i] = d
        /\ \A i \in 1 .. Len(k) : k[i] \in passed
    <2>1. TypeOK /\ Recorded
      BY DEF IInv
    <2> QED BY <1>1, <2>1, KeptTimes
  <1>3. /\ TypeOK /\ Recorded /\ Sleeping
        /\ events \in Seq(Calls) /\ Len(events) \in 0 .. Limit /\ n \in Nat
        /\ age \in [Calls -> 0 .. Window + 1]
    BY <1>1 DEF IInv, TypeOK
  <1> HIDE DEF k
  <1>4. CASE /\ HasRoom(k)
             /\ events' = Append(k, c)
             /\ passed' = passed \union {c}
             /\ age' = [age EXCEPT ![c] = 0]
             /\ queue' = waiting
             /\ left' = 0
             /\ sleeps' = 0
    <2>1. /\ events' \in Seq(Calls)
          /\ Len(events') = Len(k) + 1
          /\ events'[Len(k) + 1] = c
          /\ \A i \in 1 .. Len(k) : events'[i] = k[i]
      BY <1>2, <1>4
    <2>2. Len(events') <= Limit
      BY <1>2, <1>4, <2>1 DEF HasRoom
    <2>3. TypeOK'
      BY <1>3, <1>4, <2>1, <2>2 DEF TypeOK
    <2>4. ASSUME NEW d \in passed', age'[d] <= Window
          PROVE  \E i \in 1 .. Len(events') : events'[i] = d
      <3>1. CASE d = c
        BY <1>2, <2>1, <3>1
      <3>2. CASE d # c
        <4>1. d \in passed /\ age[d] <= Window
          BY <1>3, <1>4, <2>4, <3>2 DEF TypeOK
        <4>2. PICK i \in 1 .. Len(k) : k[i] = d
          BY <1>2, <4>1
        <4> QED BY <1>2, <2>1, <4>2
      <3> QED BY <3>1, <3>2
    <2>5. \A i \in 1 .. Len(events') : events'[i] \in passed'
      BY <1>2, <1>4, <2>1
    <2>6. Recorded'
      BY <2>4, <2>5 DEF Recorded
    <2>7. Sleeping'
      BY <1>4 DEF Sleeping
    <2> QED BY <2>3, <2>6, <2>7 DEF IInv
  <1>5. CASE /\ ~HasRoom(k)
             /\ events' = k
             /\ queue' = <<c>> \o waiting
             /\ left' = SleepFor(k)
             /\ sleeps' = IF sleeps < 3 THEN sleeps + 1 ELSE sleeps
             /\ UNCHANGED <<passed, age>>
    <2>1. n = 0 /\ Len(k) = Limit /\ Len(events) = Limit
      BY <1>2, <1>3, <1>5 DEF HasRoom
    <2>2. k[1] = events[1] /\ Head(k) = k[1] /\ k[1] \in Calls /\ age[k[1]] \in 0 .. Window + 1
      BY <1>2, <1>3, <2>1
    <2>3. age[k[1]] <= Window
      BY <1>1, <1>3, <2>1, <2>2 DEF Pops, Expired
    <2>4. /\ SleepFor(k) \in 1 .. Window
          /\ SleepFor(k) >= Window - age[k[1]]
      BY <2>2, <2>3 DEF SleepFor
    <2>5. queue' \in Seq(Calls) /\ queue' # <<>>
      BY <1>5
    <2>6. sleeps \in 0 .. 3 /\ sleeps' \in 0 .. 3
      BY <1>3, <1>5 DEF TypeOK
    <2>7. TypeOK'
      BY <1>2, <1>3, <1>5, <2>1, <2>4, <2>5, <2>6 DEF TypeOK
    <2>8. Recorded'
      BY <1>2, <1>5 DEF Recorded
    <2>9. sleeps <= 1
      BY <1>3, <2>2, <2>3, <2>6 DEF Sleeping
    <2>10. sleeps = 1 => age[k[1]] = Window
      BY <1>3, <2>2, <2>3 DEF Sleeping
    <2>11. sleeps' = sleeps + 1
      BY <1>5, <2>6, <2>9
    <2>12. left' + age'[events'[1]] >= Window + (sleeps' - 1)
      BY <1>5, <2>2, <2>4, <2>6, <2>9, <2>10, <2>11
    <2>13. Sleeping'
      BY <1>5, <2>1, <2>5, <2>6, <2>9, <2>11, <2>12 DEF Sleeping
    <2> QED BY <2>7, <2>8, <2>13 DEF IInv
  <1> QED BY <1>1, <1>4, <1>5 DEF k

-----------------------------------------------------------------------------
\* Time passes: time stamps only leave the window, and a sleep runs down as
\* fast as the oldest time stamp ages.
LEMMA TickKeeps ==
  ASSUME IInv, Tick
  PROVE  IInv'
  <1> USE LimitAssumption
  <1>1. /\ TypeOK /\ Recorded /\ Sleeping
        /\ age \in [Calls -> 0 .. Window + 1] /\ left \in 0 .. Window
    BY DEF IInv, TypeOK
  <1>2. age' \in [Calls -> 0 .. Window + 1]
    BY <1>1 DEF Tick
  <1>3. left' \in 0 .. Window
    BY <1>1 DEF Tick
  <1>4. TypeOK'
    BY <1>1, <1>2, <1>3 DEF TypeOK, Tick
  <1>5. \A c \in passed : c \in Calls /\ age'[c] >= age[c]
    BY <1>1 DEF Tick, TypeOK
  <1>6. Recorded'
    <2>1. ASSUME NEW c \in passed, age'[c] <= Window
          PROVE  age[c] <= Window
      BY <1>1, <1>2, <1>5, <2>1
    <2> QED BY <1>1, <2>1 DEF Recorded, Tick
  <1>7. Sleeping'
    <2> SUFFICES ASSUME sleeps' > 0
                 PROVE  Sleeping'
      BY DEF Sleeping
    <2>1. /\ queue # <<>> /\ Len(events) = Limit /\ sleeps \in 1 .. 2
          /\ left + age[events[1]] >= Window + (sleeps - 1)
      BY <1>1 DEF Sleeping, Tick, TypeOK
    <2>2. events[1] \in passed /\ events[1] \in Calls
      BY <1>1, <1>5, <2>1 DEF Recorded
    <2>3. age'[events[1]] = IF age[events[1]] <= Window THEN age[events[1]] + 1
                                                        ELSE age[events[1]]
      BY <2>2 DEF Tick
    <2>4. age[events[1]] \in 0 .. Window + 1
      BY <1>1, <2>2
    <2>5. left' + age'[events[1]] >= Window + (sleeps - 1)
      <3>1. CASE left > 0 /\ age[events[1]] <= Window
        BY <1>1, <2>1, <2>3, <2>4, <3>1 DEF Tick
      <3>2. CASE ~(left > 0 /\ age[events[1]] <= Window)
        BY <1>1, <1>3, <2>1, <2>3, <2>4, <3>2 DEF Tick
      <3> QED BY <3>1, <3>2
    <2> QED BY <2>1, <2>5 DEF Sleeping, Tick
  <1> QED BY <1>4, <1>6, <1>7 DEF IInv

\* IInv holds initially and is kept by every step.
LEMMA Invariance == Spec => []IInv
  <1> USE LimitAssumption, CallsAssumption
  <1>1. Init => IInv
    BY DEF Init, IInv, TypeOK, Recorded, Sleeping
  <1>2. IInv /\ [Next]_vars => IInv'
    <2> SUFFICES ASSUME IInv, [Next]_vars
                 PROVE  IInv'
      OBVIOUS
    <2>1. ASSUME NEW c \in Calls, Acquire(c), queue = <<>>, Attempt(c, <<>>)
          PROVE  IInv'
      <3>1. called' \in 0 .. MaxCalls
        BY <2>1 DEF Acquire, Calls
      <3>2. ~(sleeps > 0)
        BY <2>1 DEF IInv, Sleeping
      <3>3. <<>> \in Seq(Calls)
        OBVIOUS
      <3> QED BY <2>1, <3>1, <3>2, <3>3, AttemptKeeps
    <2>2. ASSUME NEW c \in Calls, Acquire(c), queue # <<>>, queue' = Append(queue, c),
                 UNCHANGED <<left, events, passed, age, sleeps>>
          PROVE  IInv'
      <3>1. called' \in 0 .. MaxCalls
        BY <2>2 DEF Acquire, Calls
      <3>2. queue' \in Seq(Calls) /\ queue' # <<>>
        BY <2>2 DEF IInv, TypeOK
      <3> QED BY <2>2, <3>1, <3>2 DEF IInv, TypeOK, Recorded, Sleeping
    <2>3. CASE Resume
      <3>1. queue # <<>> /\ queue \in Seq(Calls) /\ left = 0 /\ called' \in 0 .. MaxCalls
        BY <2>3 DEF Resume, IInv, TypeOK
      <3>2. Head(queue) \in Calls /\ Tail(queue) \in Seq(Calls)
        BY <3>1, HeadTailProperties
      <3> QED BY <2>3, <3>1, <3>2, AttemptKeeps DEF Resume
    <2>4. CASE Tick
      BY <2>4, TickKeeps
    <2>5. CASE UNCHANGED vars
      BY <2>5 DEF vars, IInv, TypeOK, Recorded, Sleeping, Expired
    <2> QED BY <2>1, <2>2, <2>3, <2>4, <2>5 DEF Next, Acquire
  <1> QED BY <1>1, <1>2, PTL DEF Spec

-----------------------------------------------------------------------------
\* The limiter's state is well formed: in particular its queue never holds
\* more than Limit time stamps.
THEOREM TypeCorrect == Spec => []TypeOK
  <1>1. IInv => TypeOK
    BY DEF IInv
  <1> QED BY Invariance, <1>1, PTL

\* acquire keeps its promise: never more than Limit calls in any window.
THEOREM Bounded == Spec => []WindowBounded
  <1>1. ASSUME IInv
        PROVE  WindowBounded
    <2> DEFINE recent == {c \in passed : age[c] <= Window}
    <2> DEFINE inside == {i \in 1 .. Len(events) : events[i] \in recent}
    <2> DEFINE named == [i \in inside |-> events[i]]
    <2>1. Len(events) \in Nat /\ Limit \in Nat /\ Len(events) <= Limit
      BY <1>1, LimitAssumption DEF IInv, TypeOK
    <2>2. IsFiniteSet(1 .. Len(events)) /\ Cardinality(1 .. Len(events)) = Len(events)
      <3>1. 1 \in Int /\ Len(events) \in Int
        BY <2>1
      <3>2. /\ IsFiniteSet(1 .. Len(events))
            /\ Cardinality(1 .. Len(events)) =
                 IF 1 > Len(events) THEN 0 ELSE Len(events) - 1 + 1
        BY ONLY <3>1, FS_Interval, Zenon
      <3> QED BY <2>1, <3>2
    <2>3. IsFiniteSet(inside) /\ Cardinality(inside) <= Len(events)
      BY <2>2, FS_Subset
    <2>4. named \in Surjection(inside, recent)
      <3>1. named \in [inside -> recent]
        OBVIOUS
      <3>2. \A c \in recent : \E i \in inside : named[i] = c
        BY <1>1 DEF IInv, Recorded
      <3> QED BY <3>1, <3>2 DEF Surjection
    <2>5. Cardinality(recent) <= Cardinality(inside) /\ IsFiniteSet(recent)
      BY <2>3, <2>4, FS_Surjection
    <2>6. Cardinality(recent) \in Nat /\ Cardinality(inside) \in Nat
      BY <2>3, <2>5, FS_CardinalityType
    <2> QED BY <2>1, <2>3, <2>5, <2>6 DEF WindowBounded
  <1> QED BY Invariance, <1>1, PTL

\* Whoever holds the lock sleeps at most twice before it passes, so a caller
\* behind it waits for no polling.
THEOREM NoPolling == Spec => []AtMostTwoSleeps
  <1>1. IInv => AtMostTwoSleeps
    BY DEF IInv, TypeOK, Sleeping, AtMostTwoSleeps
  <1> QED BY Invariance, <1>1, PTL

=============================================================================
