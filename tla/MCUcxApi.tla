------------------------------ MODULE MCUcxApi ------------------------------
(***************************************************************************)
(* UcxApi for TLC.  The threads of the application are interchangeable.    *)
(***************************************************************************)
EXTENDS UcxApi

Symmetry == Permutations(App)
=============================================================================
