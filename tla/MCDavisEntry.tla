------------------------------ MODULE MCDavisEntry ------------------------------
(***************************************************************************)
(* The instances of DavisEntry TLC checks, in units of five seconds and    *)
(* with the code's own times: a poll's 15 s, a close's 30 s, a retry after *)
(* 5 s, the default interval of 30 s and jobs of up to 65 s, which is what *)
(* a console that never answers the wake-up takes.                         *)
(***************************************************************************)
EXTENDS DavisEntry
=============================================================================
