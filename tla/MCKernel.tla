------------------------------ MODULE MCKernel ------------------------------
(* The kernel on small instances for TLC.                                  *)
EXTENDS RenoaKernel, TLC

(* Callers, cancellation identities and operations that have not been       *)
(* admitted are interchangeable: no definition orders them.                 *)
Symmetry == Permutations(Workers) \cup Permutations(CancelIds) \cup Permutations(Ops)
=============================================================================
