------------------------------ MODULE RestRetry ------------------------------
(***************************************************************************)
(* The retry loop of BybitRestClient._request.  One tenacity AsyncRetrying *)
(* object, built in __init__, serves every request of the runtime: each    *)
(* "async for" over it installs a new RetryCallState in the object, and    *)
(* each later turn of any request's loop consults the one installed last.  *)
(* The coroutines of the decision loop, the private handler, the reconcile *)
(* cycle, the portfolio refresh and the drill run such loops concurrently. *)
(*                                                                         *)
(* A step runs from one suspension of a coroutine to the next: the HTTP    *)
(* exchange and the backoff sleep suspend, the loop's bookkeeping does     *)
(* not.  The rate limiter is passed once, before the loop.                 *)
(***************************************************************************)
EXTENDS Integers

CONSTANTS
    MaxRetries,   \* settings.exchange.max_retries
    MaxRequests   \* bound: requests ever made, numbered in the order they begin

ASSUME RetriesAssumption == MaxRetries \in Nat \ {0}

ASSUME RequestsAssumption == MaxRequests \in Nat \ {0}

Requests == 1 .. MaxRequests

VARIABLES
    begun,     \* how many requests have begun
    current,   \* whose RetryCallState is in _retrying._retry_state, 0 for none
    state,     \* state[r]: the RetryCallState made when r began
    req,       \* req[r]: the coroutine of request r
    crossed    \* history: requests that were under way while another one was

vars == <<begun, current, state, req, crossed>>

RetryCallState == [attempt : 1 .. MaxRetries, outcome : {"none", "ok", "error"}]

NewState == [attempt |-> 1, outcome |-> "none"]

\* bound: whose RetryCallState the attempt under way reports to.  History: the
\* HTTP exchanges made, those that failed, and those made right after a failure
\* without a backoff.
Request == [step : {"new", "sent", "sleeping", "ended"},
            bound : 0 .. MaxRequests,
            result : {"none", "payload", "error", "unreachable"},
            sent : Nat, failed : Nat, hasty : Nat]

NewRequest == [step |-> "new", bound |-> 0, result |-> "none",
               sent |-> 0, failed |-> 0, hasty |-> 0]

UnderWay == {r \in Requests : req[r].step \in {"sent", "sleeping"}}

TypeOK ==
    /\ begun \in 0 .. MaxRequests
    /\ current \in 0 .. MaxRequests
    /\ state \in [Requests -> RetryCallState]
    /\ req \in [Requests -> Request]
    /\ crossed \in SUBSET Requests

Init ==
    /\ begun = 0
    /\ current = 0
    /\ state = [r \in Requests |-> NewState]
    /\ req = [r \in Requests |-> NewRequest]
    /\ crossed = {}

-----------------------------------------------------------------------------
\* Mutant of Exhausted: counts one attempt too few.
ExhaustedEarly(c) == c.attempt + 1 >= MaxRetries

\* stop_after_attempt(max_attempts)
Exhausted(c) == c.attempt >= MaxRetries

\* Mutant of NextAttempt: the failed outcome is left in place.
NextAttemptNone(c) == c

\* What the state is prepared with before the backoff sleep.
NextAttempt(c) == [attempt |-> c.attempt + 1, outcome |-> "none"]

\* Mutant of Send: goes on reporting to the state of its first attempt.
SendFirstBound(q, c) ==
    [q EXCEPT !.step = "sent", !.bound = IF @ = 0 THEN c ELSE @, !.sent = @ + 1]

\* One HTTP exchange more, reported to the state of request c.
Send(q, c) == [q EXCEPT !.step = "sent", !.bound = c, !.sent = @ + 1]

End(q, result) == [q EXCEPT !.step = "ended", !.bound = 0, !.result = result]

\* The next turn of the loop of a request, which is left as q: it consults
\* the state of request c.  The exception raised when the attempts are
\* exhausted is the last one reported to that state.
Turn(r, c, states, q) ==
    \/ /\ states[c].outcome = "none"
       /\ state' = states
       /\ req' = [req EXCEPT ![r] = Send(q, c)]
    \/ /\ states[c].outcome = "ok"
       /\ state' = states
       /\ req' = [req EXCEPT ![r] = End(q, "unreachable")]
    \/ /\ states[c].outcome = "error"
       /\ Exhausted(states[c])
       /\ state' = states
       /\ req' = [req EXCEPT ![r] = End(q, "error")]
    \/ /\ states[c].outcome = "error"
       /\ ~Exhausted(states[c])
       /\ state' = [states EXCEPT ![c] = NextAttempt(@)]
       /\ req' = [req EXCEPT ![r] = [q EXCEPT !.step = "sleeping", !.bound = 0]]

Crossing(r) == IF UnderWay = {} THEN crossed ELSE crossed \union UnderWay \union {r}

\* Mutant of Begin: no RetryCallState of its own once there is one.
BeginReusing(r) ==
    /\ r = begun + 1
    /\ begun' = r
    /\ current' = IF current = 0 THEN r ELSE current
    /\ crossed' = Crossing(r)
    /\ Turn(r, current', state, req[r])

\* The rate limiter has let request r pass: a new RetryCallState is installed
\* and the loop takes its first turn.
Begin(r) ==
    /\ r = begun + 1
    /\ begun' = r
    /\ current' = r
    /\ crossed' = Crossing(r)
    /\ Turn(r, r, [state EXCEPT ![r] = NewState], req[r])

\* The answer is a JSON object: the loop returns it, whatever its ret_code.
Succeed(r) ==
    /\ req[r].step = "sent"
    /\ state' = [state EXCEPT ![req[r].bound].outcome = "ok"]
    /\ req' = [req EXCEPT ![r] = End(@, "payload")]
    /\ UNCHANGED <<begun, current, crossed>>

\* A timeout, a transport error, a 4xx or 5xx, or an unreadable answer.
Fail(r) ==
    LET states == [state EXCEPT ![req[r].bound].outcome = "error"]
        hasty  == IF states[current].outcome = "none" THEN 1 ELSE 0
        q      == [req[r] EXCEPT !.failed = @ + 1, !.hasty = @ + hasty]
    IN  /\ req[r].step = "sent"
        /\ Turn(r, current, states, q)
        /\ UNCHANGED <<begun, current, crossed>>

\* The backoff sleep is over.
Wake(r) ==
    /\ req[r].step = "sleeping"
    /\ Turn(r, current, state, req[r])
    /\ UNCHANGED <<begun, current, crossed>>

Next == \E r \in Requests : Begin(r) \/ Succeed(r) \/ Fail(r) \/ Wake(r)

Spec == Init /\ [][Next]_vars

\* Every HTTP exchange ends (request_timeout_seconds) and every sleep is over
\* some time; the program need not make any request.
Fairness == \A r \in Requests : WF_vars(Succeed(r) \/ Fail(r)) /\ WF_vars(Wake(r))

FairSpec == Spec /\ Fairness

-----------------------------------------------------------------------------
(***************************************************************************)
(* Properties.                                                             *)
(***************************************************************************)

\* However the shared state is passed around, no request is given up before an
\* exchange of its own has failed, and what it gets as an answer is its own.
GivenUpAfterOwnFailure ==
    \A r \in Requests :
        /\ req[r].result \in {"error", "unreachable"} =>
             req[r].sent = req[r].failed /\ req[r].failed > 0
        /\ req[r].result = "payload" => req[r].sent = req[r].failed + 1

\* A request that no other request crossed is retried as configured: it gets
\* an answer or fails max_retries times with a backoff in between.
RetriesAsConfigured ==
    \A r \in Requests \ crossed :
        /\ req[r].result # "unreachable"
        /\ req[r].result = "error" => req[r].failed = MaxRetries
        /\ req[r].failed <= MaxRetries
        /\ req[r].hasty = 0

\* The sharing can skip a backoff only as often as other requests began in
\* the meantime: it never turns the loop into a busy one.
NoBusyLoop == \A r \in Requests : req[r].step # "new" => req[r].hasty <= begun - r

\* When no more requests begin, every request under way ends: none sleeps or
\* retries for ever on a state another one keeps changing.
EveryRequestEnds == \A r \in Requests : r \in UnderWay ~> r \notin UnderWay

=============================================================================
