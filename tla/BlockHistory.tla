---------------------------- MODULE BlockHistory ----------------------------
(***************************************************************************)
(* OrderFlow with a history variable, for what must have been true while a *)
(* reconcile cycle was reading.                                            *)
(***************************************************************************)
EXTENDS OrderFlow

-----------------------------------------------------------------------------
(***************************************************************************)
(* safe: the symbols that have been flat or protected on the exchange at   *)
(* some instant since the current cycle started to read positions.         *)
(***************************************************************************)
VARIABLE safe

SafeNow == {s \in Symbols : ~Unprotected(s)}

HistoryInit == Init /\ safe = {}

HistoryNext ==
    /\ Next
    /\ safe' = IF rec'.step # "positions" THEN {}
               ELSE IF rec.step = "positions" THEN safe \union SafeNow'
               ELSE SafeNow'

HistorySpec == HistoryInit /\ [][HistoryNext]_<<vars, safe>>

LiftsBlock ==
    /\ Running /\ Running'
    /\ \/ blocks.startup /\ ~blocks'.startup
       \/ blocks.orphan /\ ~blocks'.orphan

\* A block goes only in a cycle during which every symbol was, at some instant
\* since the cycle began to read positions, flat or covered by a reduce-only
\* order on the exchange, although position, orders and local store are read one
\* after the other.
BlockLiftedOnlyWhenSafe == [][LiftsBlock => safe = Symbols]_<<vars, safe>>

=============================================================================
