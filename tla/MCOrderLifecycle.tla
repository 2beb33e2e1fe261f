------------------------- MODULE MCOrderLifecycle -------------------------
(***************************************************************************)
(* OrderLifecycle for TLC.  The requests are interchangeable, and so are    *)
(* the orders: safety runs use their permutations as a symmetry, liveness   *)
(* runs do not.                                                             *)
(***************************************************************************)
EXTENDS OrderLifecycle, TLC

RequestSymmetry == Permutations(Requests)
OrderSymmetry == Permutations(Orders)

===========================================================================
