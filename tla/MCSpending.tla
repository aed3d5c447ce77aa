----------------------------- MODULE MCSpending -----------------------------
(***************************************************************************)
(* A small instance of Spending: users who pay each other in a circle.     *)
(***************************************************************************)
EXTENDS Spending, TLC

\* Users are alike.
MCSymmetry == Permutations(User)
=============================================================================
