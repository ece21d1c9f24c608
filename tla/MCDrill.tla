------------------------------ MODULE MCDrill -------------------------------
(***************************************************************************)
(* Drill for TLC: the settings of a session are the initial states.        *)
(***************************************************************************)
EXTENDS Drill

Sound == [demo |-> TRUE, dry_run |-> FALSE, configured |-> TRUE, mode |-> "post_only",
          side |-> "Buy", qty |-> 2, min_qty |-> 2, max_notional |-> 20000, held |-> 0]

\* A sound session of each mode and side, and one with each thing wrong.
SomeSettings ==
    {[Sound EXCEPT !.mode = m, !.side = s, !.held = h] :
        m \in {"post_only", "reduce_only"}, s \in {"Buy", "Sell"}, h \in {-1, 0, 1}}
    \union
    {[Sound EXCEPT !.demo = FALSE], [Sound EXCEPT !.dry_run = TRUE],
     [Sound EXCEPT !.configured = FALSE], [Sound EXCEPT !.qty = 0, !.min_qty = 0],
     [Sound EXCEPT !.qty = 1], [Sound EXCEPT !.qty = 4]}

=============================================================================
