-------------------------- MODULE MCBindingSearch ---------------------------
(***************************************************************************)
(* BindingSearch for TLC: every array of at most MaxBindings bindings, and *)
(* every array that may replace it.                                        *)
(***************************************************************************)
EXTENDS BindingSearch
=============================================================================
