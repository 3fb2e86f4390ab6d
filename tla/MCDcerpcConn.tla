---------------------------- MODULE MCDcerpcConn ----------------------------
(***************************************************************************)
(* DcerpcConn for TLC.  The requests and the bounds are given by the       *)
(* configurations; the model needs no constraint, as every request is sent *)
(* at most once and a reply has at most MaxFrags fragments.                *)
(***************************************************************************)
EXTENDS DcerpcConn
=============================================================================
