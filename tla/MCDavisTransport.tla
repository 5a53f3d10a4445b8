--------------------------- MODULE MCDavisTransport ---------------------------
(***************************************************************************)
(* Properties of DavisTransport and the instance TLC checks them on: the   *)
(* persistent connection and the other in one run, as `persistent` is a    *)
(* variable, and no symmetry, as there are liveness properties.            *)
(***************************************************************************)
EXTENDS DavisTransportProps, TLC
=============================================================================
