----------------------------- MODULE RateLimiter -----------------------------
(***************************************************************************)
(* EndpointRateLimiter.acquire for one endpoint group (groups share        *)
(* nothing): a sliding window kept as a queue of time stamps under a FIFO  *)
(* asyncio.Lock that the holder keeps while it sleeps.                     *)
(*                                                                         *)
(* Time is the age of what happened, counted in the shortest sleep the     *)
(* code takes (1 ms) and capped where nothing can tell ages apart.  A step *)
(* runs from one suspension of a caller to the next.                       *)
(***************************************************************************)
EXTENDS Integers, Sequences, FiniteSets

CONSTANTS
    Limit,     \* EndpointLimit.max_requests
    Window,    \* EndpointLimit.window_seconds, in ticks
    MaxCalls   \* bound: calls of acquire, numbered in the order they come

ASSUME LimitAssumption == Limit \in Nat \ {0} /\ Window \in Nat \ {0}

ASSUME CallsAssumption == MaxCalls \in Nat

Calls == 1 .. MaxCalls

VARIABLES
    called,  \* how many calls there were
    queue,   \* callers in acquire; the first one holds the lock
    left,    \* ticks before the holder's sleep is over
    events,  \* _events[group], each time stamp named by the call that took it
    passed,  \* history: calls that have returned
    age,     \* age[c]: ticks since c returned
    sleeps   \* history: sleeps of the present holder, counted up to 3

vars == <<called, queue, left, events, passed, age, sleeps>>

TypeOK ==
    /\ called \in 0 .. MaxCalls
    /\ queue \in Seq(Calls)
    /\ left \in 0 .. Window
    /\ events \in Seq(Calls)
    /\ Len(events) <= Limit
    /\ passed \in SUBSET Calls
    /\ age \in [Calls -> 0 .. Window + 1]
    /\ sleeps \in 0 .. 3

Init ==
    /\ called = 0
    /\ queue = <<>>
    /\ left = 0
    /\ events = <<>>
    /\ passed = {}
    /\ age = [c \in Calls |-> 0]
    /\ sleeps = 0

-----------------------------------------------------------------------------
\* Mutant of Expired: drops the time stamps on the edge of the window too.
ExpiredEarly(c) == age[c] >= Window

\* Mutant of Expired: nothing ever leaves the queue.
ExpiredNever(c) == FALSE

\* events[0] < window_start
Expired(c) == age[c] > Window

\* The loop that pops expired time stamps pops the first n.
Pops(n) ==
    /\ \A i \in 1 .. n : Expired(events[i])
    /\ n < Len(events) => ~Expired(events[n + 1])

HasRoom(kept) == Len(kept) < Limit

\* Mutant of SleepFor: polls.
SleepForTick(kept) == 1

\* Until the oldest time stamp is on the edge of the window, 1 ms at least.
SleepFor(kept) ==
    LET rest == Window - age[Head(kept)] IN IF rest > 1 THEN rest ELSE 1

\* One turn of the loop of caller c, who holds the lock before the waiting.
Attempt(c, waiting) ==
    \E n \in 0 .. Len(events) :
        LET kept == SubSeq(events, n + 1, Len(events))
        IN  /\ Pops(n)
            /\ \/ /\ HasRoom(kept)
                  /\ events' = Append(kept, c)
                  /\ passed' = passed \union {c}
                  /\ age' = [age EXCEPT ![c] = 0]
                  /\ queue' = waiting
                  /\ left' = 0
                  /\ sleeps' = 0
               \/ /\ ~HasRoom(kept)
                  /\ events' = kept
                  /\ queue' = <<c>> \o waiting
                  /\ left' = SleepFor(kept)
                  /\ sleeps' = IF sleeps < 3 THEN sleeps + 1 ELSE sleeps
                  /\ UNCHANGED <<passed, age>>

\* acquire is called: it goes ahead when the lock is free and nobody waits.
Acquire(c) ==
    /\ c = called + 1
    /\ called' = c
    /\ \/ queue = <<>> /\ Attempt(c, <<>>)
       \/ /\ queue # <<>>
          /\ queue' = Append(queue, c)
          /\ UNCHANGED <<left, events, passed, age, sleeps>>

\* The holder wakes up, or the first waiting caller is handed the lock.
Resume ==
    /\ queue # <<>>
    /\ left = 0
    /\ Attempt(Head(queue), Tail(queue))
    /\ UNCHANGED called

Tick ==
    /\ left' = IF left > 0 THEN left - 1 ELSE 0
    /\ age' = [c \in Calls |->
                  IF c \in passed /\ age[c] <= Window THEN age[c] + 1 ELSE age[c]]
    /\ UNCHANGED <<called, queue, events, passed, sleeps>>

Next == (\E c \in Calls : Acquire(c)) \/ Resume \/ Tick

Spec == Init /\ [][Next]_vars

\* Time goes on and the event loop wakes a sleeper whose time has come.
FairSpec == Spec /\ WF_vars(Resume) /\ WF_vars(Tick)

-----------------------------------------------------------------------------
(***************************************************************************)
(* Properties.                                                             *)
(***************************************************************************)

\* At any instant no more than Limit calls have returned during the window
\* that ends there, both ends included, however late callers wake up.
WindowBounded == Cardinality({c \in passed : age[c] <= Window}) <= Limit

\* A holder does not poll: one sleep until the oldest time stamp reaches the
\* edge of the window, and at most one more to get it over the edge.
AtMostTwoSleeps == sleeps <= 2

\* Holding the lock while sleeping starves nobody: every call returns.
EveryCallReturns == \A c \in Calls : c <= called ~> c \in passed

=============================================================================
