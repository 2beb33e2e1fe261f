------------------------ MODULE MCNonceAllocation -------------------------
(***************************************************************************)
(* NonceAllocation for TLC: calls of one kind are interchangeable.          *)
(***************************************************************************)
EXTENDS NonceAllocation, TLC

CallSymmetry == Permutations(NewRequests) \cup Permutations(CancelRequests)

===========================================================================
