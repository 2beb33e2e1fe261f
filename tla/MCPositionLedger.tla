------------------------ MODULE MCPositionLedger --------------------------
(***************************************************************************)
(* PositionLedger for TLC: the orders are interchangeable, and so are the   *)
(* submissions.                                                             *)
(***************************************************************************)
EXTENDS PositionLedger, TLC

LedgerSymmetry == Permutations(Orders) \cup Permutations(Submissions)

===========================================================================
