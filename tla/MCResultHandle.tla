--------------------------- MODULE MCResultHandle ---------------------------
(***************************************************************************)
(* ResultHandle for TLC.                                                   *)
(***************************************************************************)
EXTENDS ResultHandle, TLC

\* Calls are interchangeable: no action or safety property names one.
CallSymmetry == Permutations(Calls)
=============================================================================
