--------------------------- MODULE MCDcomActivate ---------------------------
(***************************************************************************)
(* DcomActivate for TLC: the sets are given by the configuration.          *)
(***************************************************************************)
EXTENDS DcomActivate
=============================================================================
