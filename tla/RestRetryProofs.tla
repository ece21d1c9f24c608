-------------------------- MODULE RestRetryProofs ---------------------------
(***************************************************************************)
(* Theorems about RestRetry, for any number of requests and attempts.      *)
(***************************************************************************)
EXTENDS RestRetry, TLAPS

-----------------------------------------------------------------------------
(***************************************************************************)
(* The inductive invariant: the state consulted is that of the latest      *)
(* request, and what is recorded of a request that has begun agrees with   *)
(* where its coroutine is.  NoBusyLoop needs the middle conjunct: a retry  *)
(* without backoff moves a request on to the state of a later one.         *)
(***************************************************************************)

\* n is the number of requests begun.
Sound(q, r, n) ==
    /\ q.step \in {"sent", "sleeping", "ended"}
    /\ q.step = "sent" => /\ q.bound \in r .. n
                          /\ q.hasty <= q.bound - r
                          /\ q.result = "none"
                          /\ q.sent = q.failed + 1
    /\ q.step = "sleeping" => /\ q.result = "none"
                              /\ q.sent = q.failed
                              /\ q.failed > 0
    /\ q.result \in {"error", "unreachable"} => q.sent = q.failed /\ q.failed > 0
    /\ q.result = "payload" => q.sent = q.failed + 1
    /\ q.hasty <= n - r

\* A request in the middle of its loop, at the turn that follows: it has just
\* begun, has just failed, or has slept.
BetweenTurns(q, r, n) ==
    /\ q.result = "none"
    /\ q.sent = q.failed
    /\ q.hasty <= n - r

IInv ==
    /\ TypeOK
    /\ current = begun
    /\ \A r \in Requests :
        IF r <= begun THEN Sound(req[r], r, begun) ELSE req[r] = NewRequest

-----------------------------------------------------------------------------
\* The invariant says of every request what the properties say of it.
LEMMA Implied == IInv => GivenUpAfterOwnFailure /\ NoBusyLoop
  <1> SUFFICES ASSUME IInv PROVE GivenUpAfterOwnFailure /\ NoBusyLoop
    OBVIOUS
  <1>1. ASSUME NEW r \in Requests, r <= begun
        PROVE  Sound(req[r], r, begun)
    BY <1>1 DEF IInv
  <1>2. ASSUME NEW r \in Requests, ~(r <= begun)
        PROVE  req[r].result = "none" /\ req[r].step = "new"
    BY <1>2 DEF IInv, NewRequest
  <1>3. GivenUpAfterOwnFailure
    BY <1>1, <1>2 DEF GivenUpAfterOwnFailure, Sound
  <1>4. NoBusyLoop
    BY <1>1, <1>2 DEF NoBusyLoop, Sound
  <1> QED BY <1>3, <1>4

\* The invariant holds before the first request.
LEMMA InitInvariant == Init => IInv
  <1> SUFFICES ASSUME Init PROVE IInv
    OBVIOUS
  <1>1. NewRequest \in Request /\ NewState \in RetryCallState
    BY RetriesAssumption, RequestsAssumption
       DEF NewRequest, NewState, Request, RetryCallState
  <1>2. TypeOK
    BY <1>1, RequestsAssumption DEF TypeOK, Init
  <1>3. \A r \in Requests : ~(r <= begun) /\ req[r] = NewRequest
    BY DEF Init, Requests
  <1> QED BY <1>2, <1>3 DEF IInv, Init

\* A turn of the loop of request r, which consults the state of the request
\* begun last, leaves the request and every state as the invariant wants them.
LEMMA TurnSound ==
    ASSUME NEW n \in Requests, NEW r \in 1 .. n,
           NEW states \in [Requests -> RetryCallState],
           NEW q \in Request, BetweenTurns(q, r, n),
           states[n].outcome = "none" \/ q.failed > 0,
           req \in [Requests -> Request],
           Turn(r, n, states, q)
    PROVE  /\ state' \in [Requests -> RetryCallState]
           /\ req' = [req EXCEPT ![r] = req'[r]]
           /\ req'[r] \in Request
           /\ Sound(req'[r], r, n)
  <1>0. /\ r \in Requests /\ n \in Int /\ r \in Int
       /\ n \in 0 .. MaxRequests
       /\ 0 \in 0 .. MaxRequests
    BY RequestsAssumption DEF Requests
  <1>1. CASE /\ states[n].outcome = "none"
             /\ state' = states
             /\ req' = [req EXCEPT ![r] = Send(q, n)]
    <2>1. Send(q, n) \in Request
      <3>1. [q EXCEPT !.step = "sent"] \in Request
        BY DEF Request
      <3>2. [[q EXCEPT !.step = "sent"] EXCEPT !.bound = n] \in Request
        BY <1>0, <3>1 DEF Request
      <3>3. q.sent + 1 \in Nat
        BY DEF Request
      <3> QED BY <3>2, <3>3 DEF Send, Request
    <2>2. Sound(Send(q, n), r, n)
      BY <1>0 DEF Send, Request, Sound, BetweenTurns
    <2> QED BY <1>0, <1>1, <2>1, <2>2
  <1>2. ASSUME NEW res \in {"error", "unreachable"}, q.failed > 0,
               state' = states, req' = [req EXCEPT ![r] = End(q, res)]
        PROVE  /\ state' \in [Requests -> RetryCallState]
               /\ req' = [req EXCEPT ![r] = req'[r]]
               /\ req'[r] \in Request
               /\ Sound(req'[r], r, n)
    <2>1. End(q, res) \in Request
      <3>1. [q EXCEPT !.step = "ended"] \in Request
        BY DEF Request
      <3>2. [[q EXCEPT !.step = "ended"] EXCEPT !.bound = 0] \in Request
        BY <1>0, <3>1 DEF Request
      <3> QED BY <1>2, <3>2 DEF End, Request
    <2>2. Sound(End(q, res), r, n)
      BY <1>0, <1>2 DEF End, Request, Sound, BetweenTurns
    <2> QED BY <1>0, <1>2, <2>1, <2>2
  <1>3. CASE /\ states[n].outcome = "error"
             /\ ~Exhausted(states[n])
             /\ state' = [states EXCEPT ![n] = NextAttempt(@)]
             /\ req' = [req EXCEPT ![r] = [q EXCEPT !.step = "sleeping", !.bound = 0]]
    <2>1. NextAttempt(states[n]) \in RetryCallState
      BY <1>3, RetriesAssumption DEF NextAttempt, Exhausted, RetryCallState
    <2>2. [q EXCEPT !.step = "sleeping", !.bound = 0] \in Request
      <3>1. [q EXCEPT !.step = "sleeping"] \in Request
        BY DEF Request
      <3> QED BY <1>0, <3>1 DEF Request
    <2>3. Sound([q EXCEPT !.step = "sleeping", !.bound = 0], r, n)
      BY <1>0, <1>3 DEF Request, Sound, BetweenTurns
    <2> QED BY <1>0, <1>3, <2>1, <2>2, <2>3
  <1> QED BY <1>1, <1>2, <1>3 DEF Turn

\* The invariant for every request, from the invariant of the one that moved.
LEMMA OthersStay ==
    ASSUME IInv, NEW n \in {begun, begun + 1}, NEW r \in 1 .. n, n <= MaxRequests,
           n = begun + 1 => r = n,
           begun' = n, current' = n, crossed' \in SUBSET Requests,
           state' \in [Requests -> RetryCallState],
           req' = [req EXCEPT ![r] = req'[r]],
           req'[r] \in Request,
           Sound(req'[r], r, n)
    PROVE  IInv'
  <1>1. begun \in Nat /\ n \in Nat /\ n \in 0 .. MaxRequests /\ r \in Requests
    BY RequestsAssumption DEF IInv, TypeOK, Requests
  <1>2. req \in [Requests -> Request]
    BY DEF IInv, TypeOK
  <1>3. TypeOK'
    BY <1>1, <1>2 DEF TypeOK
  <1>4. ASSUME NEW p \in Requests, p # r
        PROVE  IF p <= n THEN Sound(req'[p], p, n) ELSE req'[p] = NewRequest
    <2>1. req'[p] = req[p] /\ p \in Nat
      BY <1>2, <1>4 DEF Requests
    <2>2. CASE p <= begun
      <3>1. Sound(req[p], p, begun) /\ req[p] \in Request
        BY <1>2, <2>2 DEF IInv
      <3>2. p <= n
        BY <1>1, <2>1, <2>2
      <3>3. Sound(req[p], p, n)
        BY <1>1, <2>1, <3>1 DEF Sound, Request
      <3> QED BY <2>1, <3>2, <3>3
    <2>3. CASE ~(p <= begun)
      <3>1. ~(p <= n)
        BY <1>1, <1>4, <2>1, <2>3
      <3> QED BY <2>1, <2>3, <3>1 DEF IInv
    <2> QED BY <2>2, <2>3
  <1>5. \A p \in Requests :
            IF p <= begun' THEN Sound(req'[p], p, begun') ELSE req'[p] = NewRequest
    BY <1>1, <1>4 DEF Requests
  <1> QED BY <1>3, <1>5 DEF IInv

\* A request that begins.
LEMMA BeginStep == ASSUME IInv, NEW r \in Requests, Begin(r) PROVE IInv'
  <1>1. /\ r = begun + 1 /\ begun \in Nat /\ r \in Nat /\ r <= MaxRequests
        /\ state \in [Requests -> RetryCallState]
        /\ req \in [Requests -> Request]
        /\ crossed \in SUBSET Requests
    BY DEF IInv, TypeOK, Begin, Requests
  <1>2. req[r] = NewRequest
    BY <1>1 DEF IInv
  <1>3. BetweenTurns(req[r], r, r) /\ req[r] \in Request
    BY <1>1, <1>2 DEF BetweenTurns, NewRequest
  <1>4. crossed' \in SUBSET Requests
    BY <1>1 DEF Begin, Crossing, UnderWay
  <1>5. [state EXCEPT ![r] = NewState] \in [Requests -> RetryCallState]
    BY <1>1, RetriesAssumption DEF NewState, RetryCallState
  <1>6. [state EXCEPT ![r] = NewState][r].outcome = "none"
    BY <1>1 DEF NewState
  <1>7. Turn(r, r, [state EXCEPT ![r] = NewState], req[r]) /\ begun' = r /\ current' = r
    BY DEF Begin
  <1>8. r \in 1 .. r
    BY <1>1
  <1>9. /\ state' \in [Requests -> RetryCallState]
        /\ req' = [req EXCEPT ![r] = req'[r]]
        /\ req'[r] \in Request
        /\ Sound(req'[r], r, r)
    BY <1>1, <1>3, <1>5, <1>6, <1>7, <1>8, TurnSound
  <1> QED BY <1>1, <1>4, <1>7, <1>8, <1>9, OthersStay

\* A request whose coroutine is in its loop has begun, and begins no other.
LEMMA InLoop ==
    ASSUME IInv, NEW r \in Requests, req[r].step \in {"sent", "sleeping"}
    PROVE  /\ begun \in Requests /\ r \in 1 .. begun /\ begun <= MaxRequests
           /\ Sound(req[r], r, begun)
           /\ req[r] \in Request
           /\ state \in [Requests -> RetryCallState]
           /\ req \in [Requests -> Request]
           /\ current = begun
           /\ crossed \in SUBSET Requests
  <1>1. r <= begun
    BY DEF IInv, NewRequest
  <1> QED BY <1>1 DEF IInv, TypeOK, Requests

\* An answer.
LEMMA SucceedStep == ASSUME IInv, NEW r \in Requests, Succeed(r) PROVE IInv'
  <1>1. req[r].step = "sent"
    BY DEF Succeed
  <1>2. req[r].bound \in Requests /\ req[r].bound \in r .. begun
    <2>1. Sound(req[r], r, begun) /\ begun \in Requests /\ r \in 1 .. begun
      BY <1>1, InLoop
    <2>2. req[r].bound \in r .. begun
      BY <1>1, <2>1 DEF Sound
    <2> QED BY <2>1, <2>2, RequestsAssumption DEF Requests
  <1>3. state' \in [Requests -> RetryCallState]
    BY <1>1, <1>2, InLoop DEF Succeed, RetryCallState
  <1>4. 0 \in 0 .. MaxRequests
    BY RequestsAssumption
  <1>5. End(req[r], "payload") \in Request
    <2>1. [req[r] EXCEPT !.step = "ended"] \in Request
      BY <1>1, InLoop DEF Request
    <2>2. [[req[r] EXCEPT !.step = "ended"] EXCEPT !.bound = 0] \in Request
      BY <1>4, <2>1 DEF Request
    <2> QED BY <2>2 DEF End, Request
  <1>6. Sound(End(req[r], "payload"), r, begun)
    BY <1>1, InLoop DEF End, Sound, Request
  <1>7. req' = [req EXCEPT ![r] = End(req[r], "payload")]
    BY DEF Succeed
  <1>8. req'[r] = End(req[r], "payload")
    BY <1>1, <1>7, InLoop
  <1>9. begun' = begun /\ current' = begun /\ crossed' \in SUBSET Requests
    BY <1>1, InLoop DEF Succeed
  <1>10. begun # begun + 1
    BY <1>1, InLoop DEF Requests
  <1> QED BY <1>1, <1>3, <1>5, <1>6, <1>7, <1>8, <1>9, <1>10, InLoop, OthersStay

\* A failed exchange: the turn that follows it.
LEMMA FailStep == ASSUME IInv, NEW r \in Requests, Fail(r) PROVE IInv'
  <1> DEFINE b == req[r].bound
             states == [state EXCEPT ![b].outcome = "error"]
             hasty  == IF states[current].outcome = "none" THEN 1 ELSE 0
             q      == [req[r] EXCEPT !.failed = @ + 1, !.hasty = @ + hasty]
  <1>1. req[r].step = "sent" /\ Turn(r, current, states, q)
    BY DEF Fail
  <1>2. b \in Requests /\ b \in r .. begun /\ begun \in Requests /\ current = begun
    <2>1. /\ Sound(req[r], r, begun) /\ begun \in Requests /\ r \in 1 .. begun
          /\ current = begun
      BY <1>1, InLoop
    <2>2. b \in r .. begun
      BY <1>1, <2>1 DEF Sound
    <2> QED BY <2>1, <2>2, RequestsAssumption DEF Requests
  <1>3. states \in [Requests -> RetryCallState]
    BY <1>1, <1>2, InLoop DEF RetryCallState
  <1>4. hasty \in {0, 1} /\ (b = begun => hasty = 0)
    BY <1>1, <1>2, InLoop DEF RetryCallState
  <1>5. q \in Request
    <2>1. req[r].failed + 1 \in Nat /\ req[r].hasty + hasty \in Nat /\ req[r] \in Request
      BY <1>1, <1>4, InLoop DEF Request
    <2>2. [req[r] EXCEPT !.failed = req[r].failed + 1] \in Request
      BY <2>1 DEF Request
    <2>3. [[req[r] EXCEPT !.failed = req[r].failed + 1] EXCEPT !.hasty = req[r].hasty + hasty]
             \in Request
      BY <2>1, <2>2 DEF Request
    <2> QED BY <2>3
  <1>6. BetweenTurns(q, r, begun) /\ q.failed > 0
    <2>1. /\ q.result = "none" /\ q.failed = req[r].failed + 1
          /\ q.sent = req[r].sent /\ q.hasty = req[r].hasty + hasty
      BY <1>1, InLoop DEF Request, Sound
    <2>2. /\ req[r].sent = req[r].failed + 1 /\ req[r].failed \in Nat
          /\ req[r].hasty \in Nat /\ req[r].hasty <= b - r
      BY <1>1, InLoop DEF Request, Sound
    <2>3. req[r].hasty + hasty <= begun - r
      BY <1>2, <1>4, <2>2 DEF Requests
    <2> HIDE DEF q, hasty, b
    <2> QED BY <2>1, <2>2, <2>3 DEF BetweenTurns
  <1>7. begun' = begun /\ current' = begun /\ crossed' \in SUBSET Requests
    BY <1>1, InLoop DEF Fail
  <1> HIDE DEF q, states, hasty, b
  <1>8. /\ state' \in [Requests -> RetryCallState]
        /\ req' = [req EXCEPT ![r] = req'[r]]
        /\ req'[r] \in Request
        /\ Sound(req'[r], r, begun)
    BY <1>1, <1>2, <1>3, <1>5, <1>6, InLoop, TurnSound
  <1>9. begun # begun + 1
    BY <1>2 DEF Requests
  <1> QED BY <1>1, <1>7, <1>8, <1>9, InLoop, OthersStay

\* The turn after a backoff.
LEMMA WakeStep == ASSUME IInv, NEW r \in Requests, Wake(r) PROVE IInv'
  <1>1. req[r].step = "sleeping" /\ Turn(r, current, state, req[r])
    BY DEF Wake
  <1>2. BetweenTurns(req[r], r, begun) /\ req[r].failed > 0
    BY <1>1, InLoop DEF Sound, BetweenTurns
  <1>3. begun' = begun /\ current' = begun /\ crossed' \in SUBSET Requests
    BY <1>1, InLoop DEF Wake
  <1>4. /\ state' \in [Requests -> RetryCallState]
        /\ req' = [req EXCEPT ![r] = req'[r]]
        /\ req'[r] \in Request
        /\ Sound(req'[r], r, begun)
    BY <1>1, <1>2, InLoop, TurnSound
  <1>5. begun # begun + 1
    BY <1>1, InLoop DEF Requests
  <1> QED BY <1>1, <1>3, <1>4, <1>5, InLoop, OthersStay

\* The inductive invariant survives every step and so holds always.
LEMMA Invariance == Spec => []IInv
  <1>1. IInv /\ UNCHANGED vars => IInv'
    BY DEF vars, IInv, TypeOK, Sound
  <1>2. IInv /\ [Next]_vars => IInv'
    BY <1>1, BeginStep, SucceedStep, FailStep, WakeStep DEF Next
  <1> QED BY InitInvariant, <1>2, PTL DEF Spec

\* The retry states and the requests keep their types; no attempt number ever
\* passes max_retries, however many requests count on the same state.
THEOREM TypeCorrect == Spec => []TypeOK
  <1>1. IInv => TypeOK
    BY DEF IInv
  <1> QED BY <1>1, Invariance, PTL

\* No request is given up before an exchange of its own has failed.
THEOREM OwnFailureFirst == Spec => []GivenUpAfterOwnFailure
  BY Implied, Invariance, PTL

\* A request retries without a backoff at most once for every later request.
THEOREM NeverBusy == Spec => []NoBusyLoop
  BY Implied, Invariance, PTL

-----------------------------------------------------------------------------
(***************************************************************************)
(* Requests that no other one crosses.  They own the state that is         *)
(* consulted, which counts their failures.                                 *)
(***************************************************************************)

\* c is the RetryCallState made for request r.
AsConfigured(q, c, r) ==
    /\ q.step = "sent" => q.bound = r
    /\ q.step \in {"sent", "sleeping"} =>
         c.attempt = q.failed + 1 /\ c.outcome = "none"
    /\ q.result # "unreachable"
    /\ q.result = "error" => q.failed = MaxRetries
    /\ q.failed <= MaxRetries
    /\ q.hasty = 0

Uncrossed ==
    \A r \in Requests \ crossed :
        /\ r \in UnderWay => begun = r /\ UnderWay = {r}
        /\ AsConfigured(req[r], state[r], r)

\* A turn of an uncrossed request, in the middle of its loop, on its own state.
LEMMA OwnTurn ==
    ASSUME NEW r \in Requests, NEW q \in Request, NEW states \in [Requests -> RetryCallState],
           req \in [Requests -> Request], q.result = "none", q.hasty = 0,
           \/ states[r].outcome = "none" /\ states[r].attempt = q.failed + 1
           \/ states[r].outcome = "error" /\ states[r].attempt = q.failed,
           Turn(r, r, states, q)
    PROVE  AsConfigured(req'[r], state'[r], r)
  <1> states[r] \in RetryCallState /\ q.failed \in Nat /\ MaxRetries \in Nat
    BY RetriesAssumption DEF Request
  <1>1. CASE /\ states[r].outcome = "none"
             /\ state' = states
             /\ req' = [req EXCEPT ![r] = Send(q, r)]
    BY <1>1 DEF Send, Request, RetryCallState, AsConfigured
  <1>2. CASE /\ states[r].outcome = "error"
             /\ Exhausted(states[r])
             /\ state' = states
             /\ req' = [req EXCEPT ![r] = End(q, "error")]
    <2>1. /\ req'[r].step = "ended" /\ req'[r].result = "error"
          /\ req'[r].failed = q.failed /\ req'[r].hasty = 0
      BY <1>2 DEF End, Request
    <2>2. q.failed = MaxRetries
      BY <1>2 DEF Exhausted, RetryCallState
    <2> QED BY <2>1, <2>2 DEF AsConfigured
  <1>3. CASE /\ states[r].outcome = "error"
             /\ ~Exhausted(states[r])
             /\ state' = [states EXCEPT ![r] = NextAttempt(@)]
             /\ req' = [req EXCEPT ![r] = [q EXCEPT !.step = "sleeping", !.bound = 0]]
    BY <1>3 DEF NextAttempt, Exhausted, Request, RetryCallState, AsConfigured
  <1> QED BY <1>1, <1>2, <1>3 DEF Turn

\* A step of a request under way: the uncrossed others are not under way.
LEMMA UncrossedStep ==
    ASSUME IInv, Uncrossed, NEW r \in UnderWay,
           begun' = begun, crossed' = crossed, req' = [req EXCEPT ![r] = req'[r]],
           r \notin crossed => AsConfigured(req'[r], state'[r], r)
    PROVE  Uncrossed'
  <1>1. req \in [Requests -> Request] /\ r \in Requests
    BY DEF IInv, TypeOK, UnderWay
  <1>2. ASSUME NEW p \in Requests \ crossed, p # r
        PROVE  p \notin UnderWay' /\ AsConfigured(req'[p], state'[p], p)
    <2>1. p \notin UnderWay
      BY <1>2 DEF Uncrossed
    <2>2. req'[p] = req[p]
      BY <1>1, <1>2
    <2>3. req[p].step \notin {"sent", "sleeping"}
      BY <1>2, <2>1 DEF UnderWay
    <2>4. AsConfigured(req[p], state[p], p)
      BY <1>2 DEF Uncrossed
    <2>5. AsConfigured(req'[p], state'[p], p)
      BY <2>2, <2>3, <2>4 DEF AsConfigured
    <2>6. p \notin UnderWay'
      BY <2>2, <2>3 DEF UnderWay
    <2> QED BY <2>5, <2>6
  <1>3. \A p \in Requests : p # r => req'[p] = req[p]
    BY <1>1
  <1>4. UnderWay' \subseteq UnderWay
    BY <1>1, <1>3 DEF UnderWay
  <1>5. r \notin crossed => begun' = r /\ UnderWay' \subseteq {r}
    BY <1>1, <1>4 DEF Uncrossed
  <1> QED BY <1>1, <1>2, <1>5 DEF Uncrossed

\* An uncrossed request under way owns the state that is consulted.
LEMMA Owned ==
    ASSUME IInv, Uncrossed, NEW r \in UnderWay, r \notin crossed
    PROVE  /\ current = r /\ begun = r
           /\ req[r] \in Request /\ state[r] \in RetryCallState
           /\ req[r].step = "sent" => req[r].bound = r
           /\ req[r].result = "none" /\ req[r].hasty = 0
           /\ state[r].attempt = req[r].failed + 1 /\ state[r].outcome = "none"
  <1>1. r \in Requests /\ req[r].step \in {"sent", "sleeping"}
    BY DEF UnderWay
  <1>2. begun = r /\ AsConfigured(req[r], state[r], r)
    BY <1>1 DEF Uncrossed
  <1>3. /\ current = r /\ req[r] \in Request /\ state[r] \in RetryCallState
        /\ Sound(req[r], r, begun)
    BY <1>1, <1>2, InLoop
  <1>4. req[r].result = "none"
    BY <1>1, <1>3 DEF Sound
  <1> QED BY <1>1, <1>2, <1>3, <1>4 DEF AsConfigured

\* A request that begins: with no other under way it owns its new state, and
\* else it crosses every one under way.
LEMMA UncrossedBegin == ASSUME IInv, Uncrossed, NEW r \in Requests, Begin(r) PROVE Uncrossed'
  <1>1. /\ r = begun + 1 /\ begun \in Nat
        /\ req \in [Requests -> Request] /\ state \in [Requests -> RetryCallState]
        /\ begun' = r /\ crossed' = Crossing(r)
        /\ Turn(r, r, [state EXCEPT ![r] = NewState], req[r])
    BY DEF IInv, TypeOK, Begin
  <1>2. req[r] = NewRequest /\ r \notin UnderWay
    BY <1>1 DEF IInv, NewRequest, UnderWay
  <1>3. req' = [req EXCEPT ![r] = req'[r]]
    BY <1>1 DEF Turn
  <1>4. \A p \in Requests \ {r} : req'[p] = req[p] /\ (p \in UnderWay' <=> p \in UnderWay)
    BY <1>1, <1>3 DEF UnderWay
  <1>5. AsConfigured(req'[r], state'[r], r)
    <2> DEFINE states == [state EXCEPT ![r] = NewState]
    <2>1. states \in [Requests -> RetryCallState]
      BY <1>1, RetriesAssumption DEF NewState, RetryCallState
    <2>2. states[r] = NewState
      BY <1>1
    <2>3. req[r] \in Request /\ req[r].result = "none" /\ req[r].hasty = 0 /\ req[r].failed = 0
      BY <1>1, <1>2 DEF NewRequest
    <2>4. NewState.outcome = "none" /\ NewState.attempt = 1
      BY DEF NewState
    <2>5. states[r].outcome = "none" /\ states[r].attempt = req[r].failed + 1
      BY <2>2, <2>3, <2>4
    <2>6. Turn(r, r, states, req[r])
      BY <1>1
    <2> HIDE DEF states
    <2> QED BY <1>1, <2>1, <2>3, <2>5, <2>6, OwnTurn
  <1>6. ASSUME NEW p \in Requests \ crossed', p # r
        PROVE  p \notin UnderWay' /\ AsConfigured(req'[p], state'[p], p)
    <2>1. p \notin crossed /\ p \notin UnderWay
      BY <1>1, <1>6 DEF Crossing
    <2>2. req[p].step \notin {"sent", "sleeping"} /\ AsConfigured(req[p], state[p], p)
      BY <1>6, <2>1 DEF UnderWay, Uncrossed
    <2>3. AsConfigured(req'[p], state'[p], p)
      BY <1>4, <1>6, <2>2 DEF AsConfigured
    <2> QED BY <1>4, <1>6, <2>1, <2>3
  <1>7. r \notin crossed' => UnderWay' \subseteq {r}
    <2>1. r \notin crossed' => UnderWay = {}
      BY <1>1 DEF Crossing
    <2>2. UnderWay' \subseteq Requests
      BY DEF UnderWay
    <2> QED BY <1>4, <2>1, <2>2
  <1> QED BY <1>1, <1>5, <1>6, <1>7 DEF Uncrossed

\* The steps of a request under way.
LEMMA UncrossedSucceed == ASSUME IInv, Uncrossed, NEW r \in Requests, Succeed(r) PROVE Uncrossed'
  <1>1. r \in UnderWay /\ req[r].step = "sent"
    BY DEF Succeed, UnderWay
  <1>2. begun' = begun /\ crossed' = crossed /\ req' = [req EXCEPT ![r] = End(req[r], "payload")]
    BY DEF Succeed
  <1>3. req'[r] = End(req[r], "payload")
    BY <1>1, <1>2, InLoop
  <1>4. ASSUME r \notin crossed PROVE AsConfigured(req'[r], state'[r], r)
    <2>1. /\ req[r] \in Request /\ state[r] \in RetryCallState /\ req[r].hasty = 0
          /\ state[r].attempt = req[r].failed + 1
      BY <1>1, <1>4, Owned
    <2>2. req[r].failed <= MaxRetries
      BY <2>1, RetriesAssumption DEF Request, RetryCallState
    <2>3. /\ req'[r].step = "ended" /\ req'[r].result = "payload"
          /\ req'[r].failed = req[r].failed /\ req'[r].hasty = req[r].hasty
      BY <1>3, <2>1 DEF End, Request
    <2> QED BY <2>1, <2>2, <2>3 DEF AsConfigured
  <1> QED BY <1>1, <1>2, <1>3, <1>4, UncrossedStep

\* An attempt fails.
LEMMA UncrossedFail == ASSUME IInv, Uncrossed, NEW r \in Requests, Fail(r) PROVE Uncrossed'
  <1> DEFINE states == [state EXCEPT ![req[r].bound].outcome = "error"]
             hasty  == IF states[current].outcome = "none" THEN 1 ELSE 0
             q      == [req[r] EXCEPT !.failed = @ + 1, !.hasty = @ + hasty]
  <1>1. r \in UnderWay /\ req[r].step = "sent" /\ Turn(r, current, states, q)
    BY DEF Fail, UnderWay
  <1>2. begun' = begun /\ crossed' = crossed
    BY DEF Fail
  <1>3. req' = [req EXCEPT ![r] = req'[r]]
    <2>1. req \in [Requests -> Request]
      BY DEF IInv, TypeOK
    <2> HIDE DEF q, states
    <2> QED BY <1>1, <2>1 DEF Turn
  <1>4. ASSUME r \notin crossed PROVE AsConfigured(req'[r], state'[r], r)
    <2>1. /\ current = r /\ req[r] \in Request /\ state[r] \in RetryCallState
          /\ req[r].bound = r /\ req[r].result = "none" /\ req[r].hasty = 0
          /\ state[r].attempt = req[r].failed + 1
      BY <1>1, <1>4, Owned
    <2>2. state \in [Requests -> RetryCallState] /\ req \in [Requests -> Request]
      BY DEF IInv, TypeOK
    <2>3. /\ states \in [Requests -> RetryCallState]
          /\ states[r].outcome = "error" /\ states[r].attempt = state[r].attempt
      BY <2>1, <2>2 DEF RetryCallState
    <2>4. hasty = 0
      BY <2>1, <2>3
    <2>5. q = [req[r] EXCEPT !.failed = @ + 1, !.hasty = 0]
      <3> HIDE DEF states, hasty
      <3> QED BY <2>1, <2>4
    <2>6. q \in Request /\ q.result = "none" /\ q.hasty = 0 /\ q.failed = req[r].failed + 1
      <3>1. [req[r] EXCEPT !.failed = req[r].failed + 1] \in Request
        BY <2>1 DEF Request
      <3> HIDE DEF q
      <3> QED BY <2>1, <2>5, <3>1 DEF Request
    <2> HIDE DEF q, states, hasty
    <2> QED BY <1>1, <2>1, <2>2, <2>3, <2>6, OwnTurn
  <1> QED BY <1>1, <1>2, <1>3, <1>4, UncrossedStep

\* A sleep before the next attempt is over.
LEMMA UncrossedWake == ASSUME IInv, Uncrossed, NEW r \in Requests, Wake(r) PROVE Uncrossed'
  <1>1. r \in UnderWay /\ Turn(r, current, state, req[r])
    BY DEF Wake, UnderWay
  <1>2. begun' = begun /\ crossed' = crossed
    BY DEF Wake
  <1>3. state \in [Requests -> RetryCallState] /\ req \in [Requests -> Request]
    BY DEF IInv, TypeOK
  <1>4. req' = [req EXCEPT ![r] = req'[r]]
    BY <1>1, <1>3 DEF Turn
  <1>5. r \notin crossed => AsConfigured(req'[r], state'[r], r)
    BY <1>1, <1>3, Owned, OwnTurn
  <1> QED BY <1>1, <1>2, <1>4, <1>5, UncrossedStep

\* A request no other one crossed gets an answer or fails max_retries times of
\* its own, each failure but the last followed by a backoff
\* (BybitRestClient._request as it is configured).
THEOREM AloneAsConfigured == Spec => []RetriesAsConfigured
  <1>1. Init => Uncrossed
    BY RetriesAssumption
       DEF Init, Uncrossed, UnderWay, AsConfigured, NewRequest, NewState
  <1>2. IInv /\ Uncrossed /\ [Next]_vars => Uncrossed'
    <2>1. Uncrossed /\ UNCHANGED vars => Uncrossed'
      BY DEF vars, Uncrossed, UnderWay
    <2> QED BY <2>1, UncrossedBegin, UncrossedSucceed, UncrossedFail, UncrossedWake DEF Next
  <1>3. Uncrossed => RetriesAsConfigured
    BY DEF Uncrossed, AsConfigured, RetriesAsConfigured
  <1> QED BY <1>1, <1>2, <1>3, Invariance, PTL DEF Spec

=============================================================================
