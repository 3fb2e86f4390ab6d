----------------------------- MODULE MCDcomPipe -----------------------------
(***************************************************************************)
(* Small instances of DcomPipe: four calls of methods of two interfaces of *)
(* one exporter, each of which may have to connect its own pipe.           *)
(***************************************************************************)
EXTENDS DcomPipe, TLC

CONSTANTS u1, u2, u3, u4, i1, i2

Callers == {u1, u2, u3, u4}
\* Calls come in any order: one interface several times in a row, and again
\* after the other one.
CalledIface == (u1 :> i1) @@ (u2 :> i2) @@ (u3 :> i2) @@ (u4 :> i2)
=============================================================================
