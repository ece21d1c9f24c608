------------------------------- MODULE MCSoak -------------------------------
(***************************************************************************)
(* Soak for TLC: the entry orders are interchangeable.                     *)
(***************************************************************************)
EXTENDS Soak

EntrySymmetry == Permutations(Entries)

=============================================================================
