------------------------------ MODULE ExitDuty ------------------------------
(***************************************************************************)
(* What the runtime owes an entry order that has been filled, without the  *)
(* store, the stream and the REST calls it takes: the duty to protect it   *)
(* is announced once, taken up at most once, and met by one exit or lost,  *)
(* for good.  OrderFlow implements it (MCOrderFlow).                       *)
(***************************************************************************)
CONSTANTS
    Entries,    \* entry orders
    Exits,      \* protective exits
    NoEntry     \* exitFor of an exit not built; no entry order

VARIABLES
    duty,       \* duty[e]: what is owed to the entry order e
    exitFor     \* exitFor[x]: the entry order the exit x protects

vars == <<duty, exitFor>>

Duties == {"none", "announced", "due", "met", "lost"}

Init ==
    /\ duty = [e \in Entries |-> "none"]
    /\ exitFor = [x \in Exits |-> NoEntry]

\* The entry order has been filled, and word of it is on its way, or is not.
Filled(e, announced) ==
    /\ duty[e] = "none"
    /\ duty' = [duty EXCEPT ![e] = IF announced THEN "announced" ELSE "lost"]
    /\ UNCHANGED exitFor

TakenUp(e) ==
    /\ duty[e] = "announced"
    /\ duty' = [duty EXCEPT ![e] = "due"]
    /\ UNCHANGED exitFor

Met(e, x) ==
    /\ duty[e] = "due"
    /\ exitFor[x] = NoEntry
    /\ duty' = [duty EXCEPT ![e] = "met"]
    /\ exitFor' = [exitFor EXCEPT ![x] = e]

\* A lost connection or a stop of the process loses several duties at once.
Lost(es) ==
    /\ \A e \in es : duty[e] \in {"announced", "due"}
    /\ duty' = [e \in Entries |-> IF e \in es THEN "lost" ELSE duty[e]]
    /\ UNCHANGED exitFor

Next ==
    \/ \E e \in Entries, announced \in BOOLEAN : Filled(e, announced)
    \/ \E e \in Entries : TakenUp(e)
    \/ \E e \in Entries, x \in Exits : Met(e, x)
    \/ \E es \in SUBSET Entries : Lost(es)

\* No duty stays open for ever.
Discharged ==
    \A e \in Entries : duty[e] \in {"announced", "due"} ~> duty[e] \in {"met", "lost"}

SafeSpec == Init /\ [][Next]_vars

Spec == SafeSpec /\ Discharged

=============================================================================
