---------------------------- MODULE MCEventLoop -----------------------------
(***************************************************************************)
(* EventLoop for TLC: every event is allocated at most once, and the clock *)
(* and the nesting of loops are bounded by the constants.                  *)
(***************************************************************************)
EXTENDS EventLoop
=============================================================================
