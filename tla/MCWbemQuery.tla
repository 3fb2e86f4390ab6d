---------------------------- MODULE MCWbemQuery -----------------------------
(***************************************************************************)
(* WbemQuery for TLC: objects of two classes, asked for two at a time, so  *)
(* that there are full, part full and empty chunks, and classes that come  *)
(* in an earlier chunk than their objects.                                 *)
(***************************************************************************)
EXTENDS WbemQuery

CONSTANTS c1, c2
=============================================================================
