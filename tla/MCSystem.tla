------------------------------- MODULE MCSystem -------------------------------
(***************************************************************************)
(* TransferSystem for TLC: one goal of two points, or two goals.           *)
(***************************************************************************)
EXTENDS DocumentedClaims

CONSTANTS g1, g2

OneGoal == {g1}
TwoGoals == {g1, g2}

\* g1 may need two chunks; g2 is a single point.
LongFirst == [g \in Goal |-> IF g = g1 THEN 2 ELSE 1]
Short == [g \in Goal |-> 1]
===============================================================================
