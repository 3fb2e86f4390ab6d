--------------------------- MODULE BindingSearch ----------------------------
(***************************************************************************)
(* lib/com/dcom/main.c: the search for a string binding of an object       *)
(* exporter that answers, from bind_new_pipe to the end of its context.    *)
(*                                                                         *)
(* The server gives the exporter an array of string bindings that ends in  *)
(* NULL.  The search keeps an index and an offset into it between two      *)
(* connects, and the array itself is read anew from the exporter: an       *)
(* activation may have replaced it by then.                                *)
(***************************************************************************)
EXTENDS Integers, Sequences, SequencesExt

CONSTANTS
  MaxBindings,  \* bound: bindings in an array
  MaxReplaced   \* bound: activations that replace the array

ASSUME BoundsAssumption == MaxBindings \in Nat /\ MaxReplaced \in Nat

(***************************************************************************)
(* A binding is a TCP one whose host is similar to the one that the user   *)
(* gave, another TCP one, one of another known transport, or one whose     *)
(* transport is unknown.  Only the last is refused by                      *)
(* dcerpc_binding_from_STRINGBINDING.                                      *)
(***************************************************************************)
Bindings == {"similar", "tcp", "other", "unknown"}
Arrays == UNION {[1 .. n -> Bindings] : n \in 0 .. MaxBindings}

IsTcp(sb) == sb \in {"similar", "tcp"}
Parses(sb) == sb # "unknown"

VARIABLES
  bindings,                \* ox->bindings->stringbindings, without its NULL
  similar_binding_index,
  current_binding_offset,
  current_binding_index,
  state,                   \* "idle", "connecting", "done", "failed" or "undefined"
  tried,                   \* offsets of the bindings that were connected to
  strayed,                 \* an element beyond the NULL has been read
  replaced,                \* replacements so far
  shorter                  \* one of them during the search was shorter

search == <<similar_binding_index, current_binding_offset, current_binding_index>>
vars == <<bindings, search, state, tried, strayed, replaced, shorter>>

TypeOK ==
  /\ bindings \in Arrays
  /\ similar_binding_index \in 0 .. MaxBindings
  /\ current_binding_offset \in -1 .. MaxBindings
  /\ current_binding_index \in 0 .. MaxBindings + 1
  /\ state \in {"idle", "connecting", "done", "failed", "undefined"}
  /\ tried \in Seq(0 .. MaxBindings)
  /\ strayed \in BOOLEAN
  /\ replaced \in 0 .. MaxReplaced
  /\ shorter \in BOOLEAN

Init ==
  /\ bindings \in Arrays
  /\ similar_binding_index = 0
  /\ current_binding_offset = 0
  /\ current_binding_index = 0
  /\ state = "idle"
  /\ tried = << >>
  /\ strayed = FALSE
  /\ replaced = 0
  /\ shorter = FALSE
-----------------------------------------------------------------------------
NULL == Len(bindings)            \* the C index of the NULL
At(i) == bindings[i + 1]         \* the binding at C index i

\* The first similar binding, or the NULL.
find_similar_binding ==
  LET found == {i \in 0 .. NULL - 1 : At(i) = "similar"} IN
  IF found = {} THEN NULL ELSE CHOOSE i \in found : \A j \in found : i <= j

\* The offset after o, which wraps around at the NULL.
MutNextOffset(o) == IF o = NULL THEN 0 ELSE o + 1
NextOffset(o) == IF o + 1 = NULL THEN 0 ELSE o + 1

(***************************************************************************)
(* One turn of the loop of try_next_binding, on its variables c.  verdict  *)
(* is "go" while the loop goes on; "try" has found a binding, "none" has   *)
(* come to the NULL, "stray" has read what is not in the array.  A binding *)
(* that does not parse starts the loop again with the same variables.      *)
(***************************************************************************)
Turn(c, similar) ==
  LET offset == NextOffset(c.offset)
      next == [offset |-> offset, index |-> c.index + 1, verdict |-> "go"]
  IN  CASE c.index > NULL -> [c EXCEPT !.verdict = "stray"]
        [] c.index = NULL -> [c EXCEPT !.verdict = "none", !.index = @ + 1]
        [] c.index < NULL /\ offset >= NULL -> [c EXCEPT !.verdict = "stray"]
        [] OTHER ->
             IF (offset = similar \/ IsTcp(At(offset))) /\ Parses(At(offset))
             THEN [next EXCEPT !.verdict = "try"]
             ELSE next

\* The loop of try_next_binding from the offset o and the index i: the array has
\* an end, so MaxBindings + 1 turns are enough.
Loop(o, i, similar) ==
  LET loop[n \in 0 .. MaxBindings + 1] ==
        IF n = 0 THEN [offset |-> o, index |-> i, verdict |-> "go"]
        ELSE IF loop[n - 1].verdict = "go" THEN Turn(loop[n - 1], similar) ELSE loop[n - 1]
  IN  loop[MaxBindings + 1]

\* before: whether strayed held already.
try_next_binding(o, i, similar, before) ==
  LET c == Loop(o, i, similar)
  IN  /\ current_binding_offset' = c.offset
      /\ current_binding_index' = c.index
      /\ state' = CASE c.verdict = "try" -> "connecting"
                    [] c.verdict = "none" -> "failed"
                    [] c.verdict = "stray" -> "undefined"
      /\ tried' = IF c.verdict = "try" THEN Append(tried, c.offset) ELSE tried
      /\ strayed' = (c.verdict = "stray" \/ before)

MutFirstOffset(similar) == similar
FirstOffset(similar) == similar - 1

bind_new_pipe ==
  /\ state = "idle"
  /\ similar_binding_index' = find_similar_binding
  /\ try_next_binding(FirstOffset(find_similar_binding), 0, find_similar_binding, strayed)
  /\ UNCHANGED <<bindings, replaced, shorter>>

\* bind_new_pipe_continue reads the binding that it has tried, to name it in a
\* message, before it looks at the result of the connect.
ReadsTried == strayed \/ current_binding_offset > NULL

ConnectDone ==
  /\ state = "connecting"
  /\ state' = "done"
  /\ strayed' = ReadsTried
  /\ UNCHANGED <<bindings, search, tried, replaced, shorter>>

ConnectFailed ==
  /\ state = "connecting"
  /\ try_next_binding(current_binding_offset, current_binding_index, similar_binding_index,
                      ReadsTried)
  /\ UNCHANGED <<bindings, similar_binding_index, replaced, shorter>>

\* object_exporter_update_oxid, from the reply to an activation.
UpdateOxid(array) ==
  /\ replaced < MaxReplaced
  /\ bindings' = array
  /\ replaced' = replaced + 1
  /\ shorter' = (shorter \/ (state = "connecting" /\ Len(array) < Len(bindings)))
  /\ UNCHANGED <<search, state, tried, strayed>>

Next ==
  \/ bind_new_pipe
  \/ ConnectDone
  \/ ConnectFailed
  \/ \E array \in Arrays : UpdateOxid(array)

Spec == Init /\ [][Next]_vars
-----------------------------------------------------------------------------
(***************************************************************************)
(* Correctness                                                             *)
(***************************************************************************)

\* Where the search ought to come to the binding at o: the pass goes from the
\* similar binding (or from the first) to the end of the array and on from its
\* beginning.
Best == IF find_similar_binding = NULL THEN 0 ELSE find_similar_binding
Place(o) == IF Best <= o THEN o - Best ELSE NULL - Best + o

\* The TCP bindings in the first n places were tried, each once and in this order,
\* and no other.
Passed(n) ==
  /\ Range(tried) = {o \in 0 .. NULL - 1 : IsTcp(At(o)) /\ Place(o) < n}
  /\ \A j, k \in DOMAIN tried : j < k => Place(tried[j]) < Place(tried[k])

\* "One pass through the stringbindings that starts where we think is best": as
\* long as the array stays, the search has tried the TCP bindings of the first
\* places of the pass in their order, and it gives up when it has tried them all.
OnePass ==
  replaced = 0 => \E n \in 0 .. NULL : Passed(n) /\ (state = "failed" => n = NULL)

\* The index and the offset of a search stay good when the array is replaced
\* between two connects, however the bindings in it change, unless the new
\* array is shorter.
InArray == strayed => shorter
=============================================================================
