----------------------------- MODULE MCAtClient -----------------------------
(***************************************************************************)
(* Small instances of AtClient: one or two threads of the application and  *)
(* one worker.                                                             *)
(***************************************************************************)
EXTENDS AtClient, TLC

\* Which thread of the application makes a call does not matter.
Symmetry == Permutations(App)

\* Bound: how much happens in one behaviour; a timeout or a read error counts
\* for two.
CONSTANT MaxEvents
FewEvents ==
  nCmds + nUrcs + nCloses + 2 * (nTimeouts + nIoErrors) <= MaxEvents
=============================================================================
