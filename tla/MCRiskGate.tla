----------------------------- MODULE MCRiskGate -----------------------------
(***************************************************************************)
(* RiskGate for TLC.                                                       *)
(***************************************************************************)
EXTENDS RiskGate

CONSTANTS s1, s2

TwoSymbols == {s1, s2}

NoLimits == <<>>

OneOrder == {[symbol |-> s1, side |-> "Buy", qty |-> 1, price |-> 1, confidence |-> 60]}

=============================================================================
