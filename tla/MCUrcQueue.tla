----------------------------- MODULE MCUrcQueue -----------------------------
(***************************************************************************)
(* Small instances of UrcQueue: two URC lines, one whose entry needs       *)
(* padding and one whose entry does not, and two threads.                  *)
(***************************************************************************)
EXTENDS UrcQueue, TLC

CONSTANTS even, odd    \* the two lines

MCUrc == {even, odd}
MCLineLen == (even :> 1) @@ (odd :> 2)

\* Which thread reads does not matter.
Symmetry == Permutations(Thread)
=============================================================================
