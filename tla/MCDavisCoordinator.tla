-------------------------- MODULE MCDavisCoordinator --------------------------
(***************************************************************************)
(* The instances of DavisCoordinator TLC checks.                           *)
(***************************************************************************)
EXTENDS DavisCoordinator, TLC

Symmetry == Permutations(Entries)
=============================================================================
