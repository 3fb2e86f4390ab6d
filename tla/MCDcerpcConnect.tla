--------------------------- MODULE MCDcerpcConnect ---------------------------
(***************************************************************************)
(* DcerpcConnect for TLC: the bound is given in the configuration.         *)
(***************************************************************************)
EXTENDS DcerpcConnect
=============================================================================
