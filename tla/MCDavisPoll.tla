------------------------------ MODULE MCDavisPoll ------------------------------
(***************************************************************************)
(* The instances of DavisPoll TLC checks: two periods, two collectors, and *)
(* set_eeprom on the setup bits alone and on to the archive period.        *)
(***************************************************************************)
EXTENDS DavisPoll, TLC

MCWrites == {<<43, 1>>, <<43, 3>>}

Symmetry == Permutations(Periods) \cup Permutations(Collectors)
=============================================================================
