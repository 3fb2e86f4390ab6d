----------------------------- MODULE RpcService -----------------------------
(***************************************************************************)
(* What a DCE/RPC connection promises to those who make calls on it,       *)
(* without queues, lists, fragments, sockets and timers.                   *)
(*                                                                         *)
(* A call is issued, waits, is executed by the server and ends: with the   *)
(* server's reply, or with an error, which may come at any time.  It ends  *)
(* once, it is given to the server at most once, in the order of issue,    *)
(* and two calls without the async attribute are never executing at once.  *)
(* One step of an implementation may move several calls.                   *)
(***************************************************************************)
EXTENDS Integers

CONSTANTS
  Calls,
  AsyncCalls  \* calls that may execute while others do

VARIABLES
  state,    \* state[c]: how far call c is
  ticket,   \* ticket[c]: a number that grows in the order of issue; 0: not issued
  crashed   \* the client has been aborted; nothing is promised

vars == <<state, ticket, crashed>>

\* What may happen to a call in one step; a call may be issued and executed, or
\* issued and refused, at once.
Moves ==
  {<<"new", "waiting">>, <<"new", "executing">>, <<"new", "failed">>,
   <<"waiting", "executing">>, <<"waiting", "failed">>,
   <<"executing", "replied">>, <<"executing", "failed">>}

Init ==
  /\ state = [c \in Calls |-> "new"]
  /\ ticket = [c \in Calls |-> 0]
  /\ crashed = FALSE

Issues(c) == state[c] = "new" /\ state'[c] # "new"
Starts(c) == state[c] # "executing" /\ state'[c] = "executing"

Step ==
  /\ ~crashed /\ ~crashed'
  /\ \A c \in Calls : state'[c] # state[c] => <<state[c], state'[c]>> \in Moves
  /\ \A c \in Calls :
       IF Issues(c) THEN \A d \in Calls : ticket[d] < ticket'[c]
                    ELSE ticket'[c] = ticket[c]
  /\ \A c, d \in Calls : Issues(c) /\ Issues(d) => c = d
  /\ \A c, d \in Calls : Starts(c) /\ Starts(d) => c = d
  /\ \A c, d \in Calls :
       Starts(c) /\ state[d] \in {"executing", "replied"} => ticket[d] < ticket'[c]
  /\ \A c, d \in Calls \ AsyncCalls :
       state'[c] = "executing" /\ state'[d] = "executing" => c = d

Crash == ~crashed /\ crashed'

Next == Step \/ Crash

Spec == Init /\ [][Next]_vars
=============================================================================
