---------------------------- MODULE MCOrderFlow -----------------------------
(***************************************************************************)
(* OrderFlow for TLC, and the abstract specification it implements.        *)
(***************************************************************************)
EXTENDS OrderFlow

-----------------------------------------------------------------------------
(***************************************************************************)
(* OrderFlow implements ExitDuty.                                          *)
(***************************************************************************)
Announced(e) ==
    /\ e \notin seenFilled
    /\ \E i \in DOMAIN stream : stream[i] = [link |-> e, status |-> "Filled"]

Protected(e) == \E x \in ReduceOnly : intent[x].parent = e

DutyTo(e) ==
    IF Protected(e) THEN "met"
    ELSE IF exch[e].status # "Filled" THEN "none"
    ELSE IF handler = [step |-> "fill", entry |-> e] THEN "due"
    ELSE IF Announced(e) THEN "announced" ELSE "lost"

Duty == INSTANCE ExitDuty WITH
    Entries <- EntryLinks,
    Exits   <- ExitLinks,
    NoEntry <- NoLink,
    duty    <- [e \in EntryLinks |-> DutyTo(e)],
    exitFor <- [x \in ExitLinks |-> intent[x].parent]

\* Whatever is lost, delivered twice, resurrected by a stale snapshot or
\* restarted, a fill is taken up at most once and either gets its one exit or
\* is given up for good, and no fill stays in between for ever: the handler
\* and its exit placement implement ExitDuty.
ImplementsExitDuty == Duty!Spec

=============================================================================
