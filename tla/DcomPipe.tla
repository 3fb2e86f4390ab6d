------------------------------ MODULE DcomPipe ------------------------------
(***************************************************************************)
(* The DCE/RPC pipe of one DCOM object exporter: dcom_get_pipe_send and    *)
(* dcom_get_pipe_recv of lib/com/dcom/main.c and the proxied calls that    *)
(* use them.                                                               *)
(*                                                                         *)
(* A user is one call of a method of a remote object (a composite context  *)
(* of the generated proxy code).  It gets the pipe of the exporter, sends  *)
(* its request on it and frees its context when the call has ended.  The   *)
(* exporter keeps the pipe for the next user.  A pipe carries one          *)
(* interface at a time: the user of another interface alters its           *)
(* presentation context first.                                             *)
(*                                                                         *)
(* Pipes are talloc memory.  A pipe has one parent, a user or the          *)
(* exporter, and the exporter may hold further references.  Freeing a      *)
(* pipe that has references only takes one away; freeing its parent takes  *)
(* one away and makes the exporter the parent.                             *)
(*                                                                         *)
(* The connection below is DcerpcConn: one call at a time on the wire, the *)
(* others queued behind it and behind a pending alter, which goes past the *)
(* queue.  Only the send of a call and the reply to one ship the next: a   *)
(* timeout, a dead connection and the end of an alter do not.              *)
(***************************************************************************)
EXTENDS Integers, Sequences, FiniteSets

CONSTANTS
  Users,        \* proxied calls
  Pipes,        \* dcerpc_pipe allocations
  Ifaces,       \* interface ids
  IfaceOf,      \* the interface whose method a user calls
  MaxActive,    \* bound: users at work at a time; 1 is the synchronous client
  AlterFails,   \* the server may refuse an alter
  None          \* NULL

\* The exporter as the talloc parent of a pipe, and a context that the server
\* has refused.
Owner == "ox"
Refused == "refused"

ASSUME DcomAssumption ==
  /\ IsFiniteSet(Users) /\ IsFiniteSet(Pipes)
  /\ IfaceOf \in [Users -> Ifaces]
  /\ MaxActive \in Nat \ {0}
  /\ AlterFails \in BOOLEAN
  /\ None \notin Pipes /\ {None, Refused} \cap Ifaces = {} /\ None # Refused
  /\ Owner \notin Users

VARIABLES
  ox_pipe,   \* ox->pipe
  pipe,      \* pipe[p]: see PipeType
  user,      \* user[u]: see UserType
  queue      \* queue[p]: calls waiting in the request_queue of the connection

vars == <<ox_pipe, pipe, user, queue>>

(***************************************************************************)
(* uuid is p->syntax.uuid, cid p->context_id, and ctx the interface that   *)
(* this context id stands for at the server.                               *)
(***************************************************************************)
PipeType ==
  [state : {"none", "live", "freed"}, uuid : Ifaces \cup {None}, cid : Nat,
   ctx : Ifaces \cup {None, Refused}, fault : BOOLEAN,
   parent : Users \cup {Owner}, refs : Nat]

NoPipe == [state |-> "none", uuid |-> None, cid |-> 0, ctx |-> None, fault |-> FALSE,
           parent |-> Owner, refs |-> 0]

(***************************************************************************)
(* at: where the user is.  p: s->p of its dcom_get_pipe_state, later the   *)
(* pipe it has got.  cid: the context id of its alter.  shipped: what the  *)
(* presentation context stood for in which its call was put on the wire.   *)
(* A "lost" call could not be shipped: it is DONE, and nobody is told.     *)
(***************************************************************************)
Places == {"idle", "connecting", "altering", "ready", "queued", "sent", "lost", "ended"}

UserType == [at : Places, p : Pipes \cup {None}, cid : Nat,
             shipped : Ifaces \cup {None, Refused}]

NoUser == [at |-> "idle", p |-> None, cid |-> 0, shipped |-> None]

TypeOK ==
  /\ ox_pipe \in Pipes \cup {None}
  /\ pipe \in [Pipes -> PipeType]
  /\ user \in [Users -> UserType]
  /\ queue \in [Pipes -> Seq(Users)]

Init ==
  /\ ox_pipe = None
  /\ pipe = [p \in Pipes |-> NoPipe]
  /\ user = [u \in Users |-> NoUser]
  /\ queue = [p \in Pipes |-> <<>>]

Active == {u \in Users : user[u].at \notin {"idle", "ended"}}
-----------------------------------------------------------------------------
\* talloc_free of a pipe.
TallocFree(q) ==
  IF q.refs > 0 THEN [q EXCEPT !.refs = q.refs - 1] ELSE [q EXCEPT !.state = "freed"]

\* talloc_free of the parent of a pipe.
FreeParent(q) ==
  IF q.refs > 0 THEN [q EXCEPT !.refs = q.refs - 1, !.parent = Owner]
  ELSE [q EXCEPT !.state = "freed"]

\* The pipes after user u has freed its composite context.
MutFreeUser(pp, u) == pp
FreeUser(pp, u) ==
  [p \in Pipes |-> IF pp[p].state = "live" /\ pp[p].parent = u
                   THEN FreeParent(pp[p]) ELSE pp[p]]

\* The connection of p has a pending request: a call on the wire or an alter.
Pending(us, p) == \E v \in Users : us[v].p = p /\ us[v].at \in {"sent", "altering"}

(***************************************************************************)
(* dcerpc_ship_next_request on the queue que of p, whose context stands    *)
(* for ctx: what may become of the users and the queue.  The head of the   *)
(* queue is put on the wire, or it cannot be signed or sent and is lost.   *)
(* A head that has timed out is freed memory, and the process is aborted:  *)
(* there is no next state.                                                 *)
(***************************************************************************)
Shipped(us, p, que, ctx) ==
  IF que = <<>> \/ Pending(us, p) THEN {[user |-> us, queue |-> que]}
  ELSE LET h == Head(que) IN
       {o \in {[user |-> [us EXCEPT ![h].at = "sent", ![h].shipped = ctx],
                queue |-> Tail(que)],
               [user |-> [us EXCEPT ![h].at = "lost"], queue |-> Tail(que)]} :
          us[h].at = "queued"}

(***************************************************************************)
(* dcom_get_pipe_recv and the request that follows it: the user becomes    *)
(* the parent, the exporter takes a reference and keeps the pipe.  The     *)
(* request is queued, and the head of the queue is shipped in the current  *)
(* presentation context of the pipe.                                       *)
(***************************************************************************)
MutKept(q, u) == [q EXCEPT !.parent = u]
Kept(q, u) == [q EXCEPT !.parent = u, !.refs = q.refs + 1]

Take(u, p, q) ==
  /\ ox_pipe' = p
  /\ pipe' = [pipe EXCEPT ![p] = Kept(q, u)]
  /\ LET us == [user EXCEPT ![u].at = "queued", ![u].p = p] IN
     \E o \in Shipped(us, p, Append(queue[p], u), q.ctx) :
       user' = o.user /\ queue' = [queue EXCEPT ![p] = o.queue]

\* The user's call fails without having used a pipe.
GiveUp(u) ==
  /\ user' = [user EXCEPT ![u].at = "ended"]
  /\ UNCHANGED <<ox_pipe, queue>>
-----------------------------------------------------------------------------
\* A pipe that had a fault is not used again.
Invalid(p) == pipe[p].fault

\* The test of reuse_existing_pipe.
MutSameIface(p, u) == TRUE
SameIface(p, u) == pipe[p].uuid = IfaceOf[u]

(***************************************************************************)
(* dcom_get_pipe_send: drop the exporter's pipe if its last call failed,   *)
(* then reuse the pipe or connect a new one.  The pipe is noted as bound   *)
(* to the interface when the alter is sent.                                *)
(***************************************************************************)
GetPipe(u) ==
  /\ user[u].at = "idle"
  /\ Cardinality(Active) < MaxActive
  /\ UNCHANGED queue
  /\ IF ox_pipe = None
     THEN /\ user' = [user EXCEPT ![u].at = "connecting"]
          /\ UNCHANGED <<ox_pipe, pipe>>
     ELSE IF Invalid(ox_pipe)
     THEN /\ pipe' = [pipe EXCEPT ![ox_pipe] = TallocFree(@)]
          /\ ox_pipe' = None
          /\ user' = [user EXCEPT ![u].at = "connecting"]
     ELSE /\ UNCHANGED ox_pipe
          /\ IF SameIface(ox_pipe, u)
             THEN /\ user' = [user EXCEPT ![u].at = "ready", ![u].p = ox_pipe]
                  /\ UNCHANGED pipe
             ELSE LET cid == pipe[ox_pipe].cid + 1 IN
                  /\ user' = [user EXCEPT ![u].at = "altering", ![u].p = ox_pipe,
                                          ![u].cid = cid]
                  /\ pipe' = [pipe EXCEPT ![ox_pipe].uuid = IfaceOf[u],
                                          ![ox_pipe].cid = cid,
                                          ![ox_pipe].ctx = IfaceOf[u]]

\* The pipe is used as it is: the composite context was done at once, and the
\* user hears of it in the next turn of the event loop.
Ready(u) ==
  /\ user[u].at = "ready"
  /\ pipe[user[u].p].state = "live"
  /\ Take(u, user[u].p, pipe[user[u].p])

\* bind_new_pipe_continue: some string binding answers.
Connected(u, p) ==
  /\ user[u].at = "connecting"
  /\ pipe[p].state = "none"
  /\ Take(u, p, [NoPipe EXCEPT !.state = "live", !.uuid = IfaceOf[u], !.ctx = IfaceOf[u]])

\* try_next_binding runs out of bindings.
ConnectFailed(u) ==
  /\ user[u].at = "connecting"
  /\ GiveUp(u)
  /\ UNCHANGED pipe

\* reuse_existing_pipe_continue, when the server has accepted the alter.
Altered(u) ==
  /\ user[u].at = "altering"
  /\ pipe[user[u].p].state = "live"
  /\ Take(u, user[u].p, pipe[user[u].p])

(***************************************************************************)
(* The server has refused the alter, or it timed out.  The pipe keeps the  *)
(* uuid and the new context id, which the server does not know.            *)
(***************************************************************************)
AlterFailed(u) ==
  /\ AlterFails
  /\ user[u].at = "altering"
  /\ pipe[user[u].p].state = "live"
  /\ LET p == user[u].p IN
     pipe' = [pipe EXCEPT ![p].ctx = IF pipe[p].cid = user[u].cid THEN Refused ELSE @]
  /\ GiveUp(u)

(***************************************************************************)
(* A reply or a fault ends the call: dcerpc_request_recv_data ships the    *)
(* next call in what is now the context of the pipe, and then the callback *)
(* runs: a failure is noted in the pipe and the user frees its context.    *)
(* A call in a context that the server does not know fails.                *)
(***************************************************************************)
MutNotes(q, ok) == q
Notes(q, ok) == [q EXCEPT !.fault = q.fault \/ ~ok]

ReplyEnds(u, ok) ==
  /\ user[u].at = "sent"
  /\ ok => user[u].shipped # Refused
  /\ LET p == user[u].p
         us == [user EXCEPT ![u].at = "ended"]
     IN  /\ pipe[p].state = "live"
         /\ pipe' = FreeUser([pipe EXCEPT ![p] = Notes(pipe[p], ok)], u)
         /\ \E o \in Shipped(us, p, queue[p], pipe[p].ctx) :
              user' = o.user /\ queue' = [queue EXCEPT ![p] = o.queue]
  /\ UNCHANGED ox_pipe

\* DLIST_REMOVE(conn->pending, u) for a queued call: the head of the queue stays
\* where it is and loses what is behind it (see DcerpcConn).
UnlinkForeign(que, u) ==
  IF que # <<>> /\ Head(que) = u THEN <<u>> ELSE SelectSeq(que, LAMBDA v : v # u)

(***************************************************************************)
(* dcerpc_timeout_handler, for a call on the wire or still queued, or      *)
(* dcerpc_connection_dead: the callback runs as in ReplyEnds, but no other *)
(* call is shipped.                                                        *)
(***************************************************************************)
NoReply(u) ==
  /\ user[u].at \in {"sent", "queued"}
  /\ LET p == user[u].p IN
     /\ pipe[p].state = "live"
     /\ pipe' = FreeUser([pipe EXCEPT ![p] = Notes(pipe[p], FALSE)], u)
     /\ queue' = IF user[u].at = "queued"
                 THEN [queue EXCEPT ![p] = UnlinkForeign(queue[p], u)] ELSE queue
  /\ user' = [user EXCEPT ![u].at = "ended"]
  /\ UNCHANGED ox_pipe

Next ==
  \/ \E u \in Users : GetPipe(u)
  \/ \E u \in Users : Ready(u)
  \/ \E u \in Users, p \in Pipes : Connected(u, p)
  \/ \E u \in Users : ConnectFailed(u)
  \/ \E u \in Users : Altered(u)
  \/ \E u \in Users : AlterFailed(u)
  \/ \E u \in Users, ok \in BOOLEAN : ReplyEnds(u, ok)
  \/ \E u \in Users : NoReply(u)

Spec == Init /\ [][Next]_vars
-----------------------------------------------------------------------------
(***************************************************************************)
(* Correctness                                                             *)
(***************************************************************************)

\* A pipe that a user waits on or has a call on is not freed.
NoDangling == \A u \in Active : user[u].p # None => pipe[user[u].p].state = "live"

\* A pipe nobody uses is either kept by the exporter for the next user or
\* freed, with its socket.
NoLeak ==
  \A p \in Pipes : pipe[p].state = "live" =>
    p = ox_pipe \/ \E u \in Active : user[u].p = p

\* A call is not put on the wire in the context of another interface, where
\* the server would run a different method.
RightContext == \A u \in Users : user[u].shipped \in {None, Refused, IfaceOf[u]}

\* A pipe whose context the server has refused hurts at most one more call:
\* that call fails, and the failure makes the next user connect anew.
RefusedOnce ==
  \A p \in Pipes :
    Cardinality({u \in Users : user[u].p = p /\ user[u].shipped = Refused}) <= 1

-----------------------------------------------------------------------------
(***************************************************************************)
(* What a comment says of reuse_existing_pipe, and the code does not do    *)
(***************************************************************************)

\* "If the pipe isn't presently bound to the GUID for the requested interface
\* then an alter_context PDU request is sent off, otherwise the pipe is used
\* as-is": a pipe that is used as it is is bound to the interface.
PresentlyBound ==
  \A u \in Users : user[u].at = "ready" => pipe[user[u].p].ctx = IfaceOf[u]
=============================================================================
