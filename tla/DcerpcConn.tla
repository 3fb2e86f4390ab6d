----------------------------- MODULE DcerpcConn -----------------------------
(***************************************************************************)
(* The client side of one DCE/RPC connection: librpc/rpc/dcerpc.c over the *)
(* socket transport of librpc/rpc/dcerpc_sock.c.                           *)
(*                                                                         *)
(* Callers send calls (dcerpc_request_send) and presentation context       *)
(* negotiations (dcerpc_bind_send, dcerpc_alter_context_send).  A call     *)
(* waits in request_queue until dcerpc_ship_next_request moves it to the   *)
(* list of pending requests; a bind or alter is put on pending at once.    *)
(* Replies, timers and transport errors are events of one single-threaded  *)
(* event loop: every handler is one atomic action, except                  *)
(* dcerpc_connection_dead, whose loop runs callbacks that may themselves   *)
(* send requests on the connection.                                        *)
(*                                                                         *)
(* A callback of a call collects it (dcerpc_ndr_request_recv), which frees *)
(* it; the callback of a bind or alter completes its composite context,    *)
(* whose owner frees both.  Reading a freed request makes talloc abort the *)
(* process (talloc_chunk_from_ptr), modelled by aborted.                   *)
(***************************************************************************)
EXTENDS Integers, Sequences, FiniteSets

CONSTANTS
  Calls,       \* rpc_request allocations made by dcerpc_request_send
  Alters,      \* rpc_request allocations of dcerpc_bind_send / _alter_context_send
  AsyncCalls,  \* calls whose IDL function has the async attribute
  SyncCalls,   \* calls whose owner blocks in dcerpc_request_recv, no callback
  CallIdMod,   \* 2^32: call_id is a uint32_t
  MaxFrags     \* bound: fragments of one reply

Reqs == Calls \cup Alters

ASSUME ReqsAssumption ==
  /\ IsFiniteSet(Calls) /\ IsFiniteSet(Alters)
  /\ Calls \cap Alters = {}
  /\ AsyncCalls \subseteq Calls
  /\ SyncCalls \subseteq Calls

\* No connection lives long enough for its call ids to wrap around.
ASSUME CallIdAssumption ==
  /\ CallIdMod \in Nat
  /\ Cardinality(Calls) + 1 < CallIdMod

ASSUME FragsAssumption == MaxFrags \in Nat \ {0}

VARIABLES
  call_id,        \* conn->call_id, the last call id handed out
  request_queue,  \* conn->request_queue
  pending,        \* conn->pending, first element first
  context_id,     \* p->context_id, the presentation context of the pipe
  last_fault,     \* p->last_fault_code is not 0
  req,            \* req[r]: the fields of the rpc_request r, see ReqType
  timers,         \* armed request timers, the one that fires first first
  sock_open,      \* sock->sock is not NULL
  pending_reads,  \* sock->pending_reads; the socket is read iff it is not 0
  failing,        \* dcerpc_connection_dead is running its loop
  waiters,        \* calls whose owners block in dcerpc_request_recv, the
                  \* innermost (nested in the others' event loops) first
  denied,         \* requests that hold dcerpc_req_deny_destructor
  aborted,        \* the process was aborted by talloc
  owed,           \* the server has the request and has not finished its reply
  sent,           \* sent[r]: fragments of the reply to r sent so far
  sign_gap,       \* RESPONSE packets the server has signed or sealed, less
                  \* those the client has run the auth routines on
  cut,            \* a RESPONSE whose auth trailer is cut has arrived; history
  garbled         \* a packet that ncacn_pull refuses has arrived

connVars == <<call_id, request_queue, pending, context_id, last_fault>>
sockVars == <<sock_open, pending_reads>>
deadVars == <<failing, denied, aborted>>
loopVars == <<deadVars, waiters>>
wireVars == <<owed, sent, sign_gap, cut, garbled>>
vars == <<connVars, req, timers, sockVars, loopVars, wireVars>>
-----------------------------------------------------------------------------
Statuses == {"OK", "IO_TIMEOUT", "DISCONNECTED", "SEND_FAILED", "FAULT", "REJECTED"}

(***************************************************************************)
(* One rpc_request.  state "new" is before its allocation, "freed" after   *)
(* its talloc_free.  payload records which fragment of which reply the     *)
(* request was given; calls counts the invocations of async.callback.      *)
(* ctx is the presentation context of the pipe when the call was made,     *)
(* shipped the one written into its packets (-1: not shipped).             *)
(***************************************************************************)
ReqType ==
  [state : {"new", "pending", "done", "freed"}, status : Statuses,
   call_id : 0 .. CallIdMod - 1, payload : Seq(Reqs \X Nat),
   calls : Nat, ctx : Nat, shipped : Int]

NewReq == [state |-> "new", status |-> "OK", call_id |-> 0, payload |-> <<>>,
           calls |-> 0, ctx |-> 0, shipped |-> -1]

\* A request just allocated and initialised.
Allocated(id, ctx, ship, st) ==
  [state |-> "pending", status |-> st, call_id |-> id, payload |-> <<>>,
   calls |-> 0, ctx |-> ctx, shipped |-> ship]

TypeOK ==
  /\ call_id \in 1 .. CallIdMod - 1
  /\ request_queue \in Seq(Calls)
  /\ pending \in Seq(Reqs)
  /\ context_id \in Nat
  /\ last_fault \in BOOLEAN
  /\ req \in [Reqs -> ReqType]
  /\ timers \in Seq(Reqs)
  /\ sock_open \in BOOLEAN
  /\ pending_reads \in Nat
  /\ failing \in BOOLEAN
  /\ waiters \in Seq(SyncCalls)
  /\ denied \subseteq Reqs
  /\ aborted \in BOOLEAN
  /\ owed \subseteq Reqs
  /\ sent \in [Reqs -> Nat]
  /\ sign_gap \in Int
  /\ cut \in BOOLEAN
  /\ garbled \in BOOLEAN

Init ==
  /\ call_id = 1
  /\ request_queue = <<>>
  /\ pending = <<>>
  /\ context_id = 0
  /\ last_fault = FALSE
  /\ req = [r \in Reqs |-> NewReq]
  /\ timers = <<>>
  /\ sock_open = TRUE
  /\ pending_reads = 0
  /\ failing = FALSE
  /\ waiters = <<>>
  /\ denied = {}
  /\ aborted = FALSE
  /\ owed = {}
  /\ sent = [r \in Reqs |-> 0]
  /\ sign_gap = 0
  /\ cut = FALSE
  /\ garbled = FALSE
-----------------------------------------------------------------------------
Elems(s) == {s[n] : n \in DOMAIN s}

(***************************************************************************)
(* next_call_id: the increment of a uint32_t that skips 0.                 *)
(***************************************************************************)
NextCallId(id) == IF (id + 1) % CallIdMod = 0 THEN 1 ELSE (id + 1) % CallIdMod

\* DLIST_ADD_END(list, p).
MutAddFront(s, r) == <<r>> \o s
AddEnd(s, r) == Append(s, r)

(***************************************************************************)
(* DLIST_REMOVE(list, p) for a p that is on the list (or on none).         *)
(***************************************************************************)
MutNoUnlink(s, r) == s
Unlink(s, r) ==
  IF r \in Elems(s)
  THEN LET n == CHOOSE i \in DOMAIN s : s[i] = r
       IN  [i \in 1 .. Len(s) - 1 |-> IF i < n THEN s[i] ELSE s[i + 1]]
  ELSE s

(***************************************************************************)
(* What DLIST_REMOVE(conn->pending, p) does to conn->request_queue when p  *)
(* is on that list instead.  An element in the middle is taken out through *)
(* its neighbours; the first one stays the head, because request_queue     *)
(* still points to it, and loses its next pointer, so that everything      *)
(* behind it is off the list.                                              *)
(***************************************************************************)
UnlinkForeign(que, r) ==
  IF que # <<>> /\ Head(que) = r THEN <<r>> ELSE Unlink(que, r)

\* ncacn_push_request_sign, or sock_send_request without a socket, refuses a
\* packet of the head of the queue: it is off both lists.
ShipFailed(que, pend) ==
  [queue |-> Tail(que), pending |-> pend, shipped |-> {}, failed |-> {Head(que)}]

\* sock_send_request takes all its packets, and the last one asks for a read.
ShipDone(que, pend) ==
  [queue |-> Tail(que), pending |-> <<Head(que)>> \o pend,
   shipped |-> {Head(que)}, failed |-> {}]

(***************************************************************************)
(* dcerpc_ship_next_request on the lists que and pend: the possible new    *)
(* lists, the call put on the wire with all its fragments, and the call    *)
(* that failed, which becomes DONE without a callback.                     *)
(***************************************************************************)
MutShipAlways(que, pend) ==
  IF que = <<>>
  THEN {[queue |-> que, pending |-> pend, shipped |-> {}, failed |-> {}]}
  ELSE {o \in {ShipDone(que, pend)} : sock_open}

ShipNext(que, pend) ==
  IF que = <<>> \/ (Head(que) \notin AsyncCalls /\ pend # <<>>)
  THEN {[queue |-> que, pending |-> pend, shipped |-> {}, failed |-> {}]}
  ELSE {ShipFailed(que, pend)} \cup {o \in {ShipDone(que, pend)} : sock_open}

\* Shipping takes the head of the queue by its pointer: abort if it is freed.
ShipsFreed(rq, o) ==
  \E r \in o.shipped \cup o.failed : rq[r].state = "freed"

(***************************************************************************)
(* The requests after a ship_next with outcome o.                          *)
(***************************************************************************)
ReqAfterShip(rq, o) ==
  [r \in Reqs |->
     IF rq[r].state = "freed" THEN rq[r]
     ELSE IF r \in o.failed
     THEN [rq[r] EXCEPT !.state = "done", !.status = "SEND_FAILED"]
     ELSE IF r \in o.shipped
     THEN [rq[r] EXCEPT !.shipped = context_id, !.status = "OK"]
     ELSE rq[r]]

(***************************************************************************)
(* A request r that ended with status st and whose callback, if it has     *)
(* one, has run: the callback collects and frees it.                       *)
(***************************************************************************)
Finished(q, r, st) ==
  IF r \in SyncCalls
  THEN [q EXCEPT !.state = "done", !.status = st]
  ELSE [q EXCEPT !.state = "freed", !.status = st, !.calls = @ + 1]

\* dcerpc_request_recv in that callback notes the failure in the pipe.
FaultAfter(r, st) == last_fault \/ (r \in Calls \ SyncCalls /\ st # "OK")

\* event_add_timed of the request timer: every timer runs for the same time.
MutArmWhenIdle(tm, r) == IF pending = <<>> THEN Append(tm, r) ELSE tm
ArmTimer(tm, r) == Append(tm, r)

\* Freeing a request frees its timer, a talloc child.
TimersAfter(tm, r) == IF r \in SyncCalls THEN tm ELSE Unlink(tm, r)
-----------------------------------------------------------------------------
\* Events are dispatched when no handler is on the stack and the innermost
\* blocked caller, if there is one, still has to wait.
InLoop ==
  /\ ~failing
  /\ ~aborted
  /\ waiters # <<>> => req[Head(waiters)].state = "pending"

\* Requests are sent by handlers and by code that does not block: a blocked caller
\* whose call has ended goes on before anything else runs, except for the
\* callbacks of dcerpc_connection_dead.
MaySend ==
  /\ ~aborted
  /\ ~failing /\ waiters # <<>> => req[Head(waiters)].state = "pending"

(***************************************************************************)
(* dcerpc_request_send: queue the call, try to ship the head of the queue  *)
(* and arm the call's timer, whether or not the call has been shipped and  *)
(* even if it has failed.  The caller sets the callback after the return,  *)
(* or blocks in dcerpc_request_recv.  It may run in a callback, also in    *)
(* one of dcerpc_connection_dead, where it does not block.                 *)
(***************************************************************************)
RequestSend(r) ==
  /\ MaySend
  /\ req[r].state = "new"
  /\ r \in SyncCalls => ~failing
  /\ waiters' = IF r \in SyncCalls THEN <<r>> \o waiters ELSE waiters
  /\ call_id' = NextCallId(call_id)
  /\ timers' = ArmTimer(timers, r)
  /\ LET rq == [req EXCEPT ![r] = Allocated(NextCallId(call_id), context_id, -1, "OK")]
     IN  \E o \in ShipNext(AddEnd(request_queue, r), pending) :
           /\ request_queue' = o.queue
           /\ pending' = o.pending
           /\ req' = ReqAfterShip(rq, o)
           /\ pending_reads' = pending_reads + Cardinality(o.shipped)
           /\ owed' = owed \cup o.shipped
           /\ aborted' = ShipsFreed(rq, o)
  /\ UNCHANGED <<context_id, last_fault, sock_open, failing, denied,
                 sent, sign_gap, cut, garbled>>

(***************************************************************************)
(* What binding and altering have in common: the request takes the         *)
(* connection's current call id and goes to the end of pending, past the   *)
(* queue.  If the send fails it stays there, without a timer, while its    *)
(* composite context is in error.                                          *)
(***************************************************************************)
ContextSend(a, sends, ctx) ==
  /\ MaySend
  /\ req[a].state = "new"
  /\ sends => sock_open
  /\ context_id' = ctx
  /\ pending' = AddEnd(pending, a)
  /\ req' = [req EXCEPT ![a] = IF sends THEN Allocated(call_id, ctx, ctx, "OK")
                               ELSE Allocated(call_id, ctx, -1, "SEND_FAILED")]
  /\ timers' = IF sends THEN ArmTimer(timers, a) ELSE timers
  /\ pending_reads' = IF sends THEN pending_reads + 1 ELSE pending_reads
  /\ owed' = IF sends THEN owed \cup {a} ELSE owed
  /\ UNCHANGED <<call_id, request_queue, last_fault, sock_open, loopVars,
                 sent, sign_gap, cut, garbled>>

\* dcerpc_alter_context_send: a new context id for the pipe.
AlterSend(a, sends) == ContextSend(a, sends, context_id + 1)

\* dcerpc_bind_send: the first request of a connection, in its context 0.
BindSend(a, sends) == call_id = 1 /\ ContextSend(a, sends, context_id)

(***************************************************************************)
(* The failed send put the composite context in COMPOSITE_STATE_ERROR:     *)
(* the immediate event of composite_continue lets the owner receive and    *)
(* free it, and with it the request, which has no destructor.              *)
(***************************************************************************)
AlterSendFailed(a) ==
  /\ InLoop
  /\ req[a].state = "pending"
  /\ req[a].status = "SEND_FAILED"
  /\ req' = [req EXCEPT ![a] = Finished(@, a, "SEND_FAILED")]
  /\ UNCHANGED <<connVars, timers, sockVars, loopVars, wireVars>>

(***************************************************************************)
(* The packets that can answer a request: RESPONSE fragments, the last one *)
(* or not, and faults for a call; an acknowledgement or a refusal for a    *)
(* bind or alter.  The connection signs or seals.  A fragment is properly  *)
(* signed; or "bad", its signature or its padding is wrong; or "cut", the  *)
(* server has signed it and its auth trailer is missing or too short.      *)
(***************************************************************************)
Cut == {"cutmore", "cutlast"}
More == {"more", "badmore", "cutmore"}
Response == More \cup {"last", "badlast", "cutlast"}

Packets(r) ==
  IF r \in Alters THEN {"ack", "nak"}
  ELSE {k \in Response \cup {"fault"} : k \in More => sent[r] + 1 < MaxFrags}

(***************************************************************************)
(* The top of dcerpc_request_recv_data: ncacn_pull_request_auth runs on    *)
(* every RESPONSE, before the matching request is looked up, so matched    *)
(* plays no part.  Its check of the signature advances the client's        *)
(* sequence number, also when it fails; a cut trailer makes it return      *)
(* before the check.                                                       *)
(***************************************************************************)
MutCheckMatched(k, matched) == IF matched /\ k \in Response \ Cut THEN 1 ELSE 0
AuthChecked(k, matched) == IF k \in Response \ Cut THEN 1 ELSE 0

SignGap(k, matched) ==
  /\ sign_gap' = sign_gap + (IF k \in Response THEN 1 ELSE 0) - AuthChecked(k, matched)
  /\ cut' = (cut \/ k \in Cut)

\* A signature is over the sequence number: a properly signed fragment passes
\* the check only if both sides have counted alike.
Accepted(k) == k \in {"more", "last"} /\ sign_gap = 0

\* sock_process_recv: packet k of the reply to r arrives.

MutArrivesUnasked(r, k) ==
  /\ InLoop
  /\ sock_open
  /\ r \in owed
  /\ k \in Packets(r)
  /\ sent' = [sent EXCEPT ![r] = IF k \in More THEN @ + 1 ELSE 0]
  /\ UNCHANGED <<call_id, context_id, sock_open, failing, waiters, denied, garbled>>

Arrives(r, k) ==
  /\ InLoop
  /\ sock_open
  /\ pending_reads > 0
  /\ r \in owed
  /\ k \in Packets(r)
  /\ sent' = [sent EXCEPT ![r] = IF k \in More THEN @ + 1 ELSE 0]
  /\ UNCHANGED <<call_id, context_id, sock_open, failing, waiters, denied, garbled>>

\* The server has finished its reply with every packet but these.
OwedAfter(r, k) == IF k \in More THEN owed ELSE owed \ {r}

\* m is the first pending request with the call id of the reply to r.
MutMatchFirst(m, r) == pending # <<>> /\ m = Head(pending)

Matches(m, r) ==
  \E n \in DOMAIN pending :
    /\ pending[n] = m
    /\ req[m].call_id = req[r].call_id
    /\ \A i \in 1 .. n - 1 : req[pending[i]].call_id # req[r].call_id

\* An unmatched reply is dropped.
RecvUnmatched(r, k) ==
  /\ Arrives(r, k)
  /\ \A m \in Elems(pending) : req[m].call_id # req[r].call_id
  /\ SignGap(k, FALSE)
  /\ pending_reads' = pending_reads - 1
  /\ owed' = OwedAfter(r, k)
  /\ UNCHANGED <<request_queue, pending, last_fault, req, timers, aborted>>

\* An acknowledgement completes the bind or alter, anything else fails it.
HandlerStatus(k) == IF k = "ack" THEN "OK" ELSE "FAULT"

(***************************************************************************)
(* The matching request has a recv_handler: it is taken off pending and    *)
(* dcerpc_bind_recv_handler or dcerpc_alter_recv_handler completes its     *)
(* composite context.  The next queued call is not shipped.                *)
(***************************************************************************)
RecvHandler(r, k, m) ==
  /\ Arrives(r, k)
  /\ Matches(m, r)
  /\ m \in Alters
  /\ SignGap(k, TRUE)
  /\ pending_reads' = pending_reads - 1
  /\ owed' = OwedAfter(r, k)
  /\ pending' = Unlink(pending, m)
  /\ aborted' = (req[m].state = "freed")
  /\ LET q == Finished(req[m], m, HandlerStatus(k)) IN
     req' = IF req[m].state = "freed" THEN req
            ELSE [req EXCEPT ![m] =
                    [q EXCEPT !.payload = Append(q.payload, <<r, sent[r] + 1>>)]]
  /\ timers' = TimersAfter(timers, m)
  /\ UNCHANGED <<request_queue, last_fault>>

(***************************************************************************)
(* A RESPONSE fragment that is not the last one and passes the auth check  *)
(* is added to the payload, and one more read is requested.                *)
(***************************************************************************)
RecvFragment(r, m) ==
  /\ Arrives(r, "more")
  /\ Accepted("more")
  /\ Matches(m, r)
  /\ m \in Calls
  /\ SignGap("more", TRUE)
  /\ pending_reads' = (pending_reads - 1) + 1
  /\ owed' = OwedAfter(r, "more")
  /\ req' = [req EXCEPT ![m].payload = Append(@, <<r, sent[r] + 1>>)]
  /\ UNCHANGED <<request_queue, pending, last_fault, timers, aborted>>

\* The status a call ends with, by the packet that ends it.
DoneStatus(k) ==
  IF Accepted(k) THEN "OK" ELSE IF k \in {"more", "last"} THEN "REJECTED" ELSE "FAULT"

(***************************************************************************)
(* Every other packet ends the call (req_done): it is taken off pending,   *)
(* the next queued call is shipped, and only then its callback runs.       *)
(***************************************************************************)
RecvDone(r, k, m) ==
  /\ Arrives(r, k)
  /\ Matches(m, r)
  /\ m \in Calls
  /\ k = "more" => ~Accepted(k)
  /\ SignGap(k, TRUE)
  /\ LET got == IF Accepted(k) THEN <<<<r, sent[r] + 1>>>> ELSE <<>>
         rq == [req EXCEPT ![m] =
                  [req[m] EXCEPT !.payload = req[m].payload \o got, !.state = "done"]]
     IN  \E o \in ShipNext(request_queue, Unlink(pending, m)) :
           /\ request_queue' = o.queue
           /\ pending' = o.pending
           /\ req' = [ReqAfterShip(rq, o) EXCEPT ![m] = Finished(rq[m], m, DoneStatus(k))]
           /\ pending_reads' = pending_reads - 1 + Cardinality(o.shipped)
           /\ owed' = OwedAfter(r, k) \cup o.shipped
           /\ aborted' = ShipsFreed(rq, o)
  /\ last_fault' = FaultAfter(m, DoneStatus(k))
  /\ timers' = TimersAfter(timers, m)

(***************************************************************************)
(* dcerpc_timeout_handler: only a request that is still PENDING times out. *)
(* DLIST_REMOVE names the pending list even for a call that is still       *)
(* queued, and no queued call is shipped in its place.                     *)
(***************************************************************************)
Timeout ==
  /\ InLoop
  /\ timers # <<>>
  /\ LET r == Head(timers) IN
     IF req[r].state = "pending"
     THEN /\ pending' = Unlink(pending, r)
          /\ request_queue' = UnlinkForeign(request_queue, r)
          /\ req' = [req EXCEPT ![r] = Finished(@, r, "IO_TIMEOUT")]
          /\ last_fault' = FaultAfter(r, "IO_TIMEOUT")
     ELSE UNCHANGED <<pending, request_queue, req, last_fault>>
  /\ timers' = Tail(timers)
  /\ UNCHANGED <<call_id, context_id, sockVars, loopVars, wireVars>>

\* The first loop of dcerpc_connection_dead: what is pending keeps its memory.
MutDenyNothing == {}
DenyDestruction == Elems(pending)

(***************************************************************************)
(* sock_error_handler / sock_dead: the socket is closed and                *)
(* dcerpc_connection_dead starts, denying the destruction of what is       *)
(* pending.  Errors are noticed while the socket is read.                  *)
(***************************************************************************)
SockDead ==
  /\ InLoop
  /\ sock_open
  /\ pending_reads > 0
  /\ sock_open' = FALSE
  /\ failing' = TRUE
  /\ denied' = DenyDestruction
  /\ owed' = {}
  /\ sent' = [r \in Reqs |-> 0]
  /\ UNCHANGED <<connVars, req, timers, pending_reads, waiters, aborted,
                 sign_gap, cut, garbled>>

(***************************************************************************)
(* dcerpc_recv_data on a packet that ncacn_pull refuses: the connection is *)
(* declared dead although the socket stays open.  As there is no return    *)
(* after that, dcerpc_request_recv_data then runs on the uninitialised     *)
(* header: no request is left to match, and whether the server signed the  *)
(* packet and whether the auth routines run on it are arbitrary.           *)
(* Bound: one such packet.                                                 *)
(***************************************************************************)
RecvMalformed(r) ==
  /\ InLoop
  /\ sock_open
  /\ pending_reads > 0
  /\ r \in owed
  /\ ~garbled
  /\ garbled' = TRUE
  /\ pending_reads' = pending_reads - 1
  /\ owed' = owed \ {r}
  /\ failing' = TRUE
  /\ denied' = DenyDestruction
  /\ sent' = [sent EXCEPT ![r] = 0]
  /\ sign_gap' \in {sign_gap - 1, sign_gap, sign_gap + 1}
  /\ UNCHANGED <<connVars, req, timers, sock_open, waiters, aborted, cut>>

(***************************************************************************)
(* One turn of the loop of dcerpc_connection_dead: the first pending       *)
(* request ends with the error, its callback runs, and it is freed.  The   *)
(* callback frees it too, which only dcerpc_req_deny_destructor prevents:  *)
(* a request that became pending since the loop began is freed twice.      *)
(***************************************************************************)
DeadStep ==
  /\ failing
  /\ ~aborted
  /\ pending # <<>>
  /\ LET r == Head(pending)
         silent == r \in SyncCalls \/ req[r].state = "freed"
     IN
     /\ req' = [req EXCEPT ![r] =
          [req[r] EXCEPT !.state = "freed", !.status = "DISCONNECTED",
                         !.calls = IF silent THEN req[r].calls
                                             ELSE req[r].calls + 1]]
     /\ last_fault' = FaultAfter(r, "DISCONNECTED")
     /\ timers' = Unlink(timers, r)
     /\ aborted' = \/ req[r].state = "freed"
                   \/ r \notin denied \cup SyncCalls
  /\ pending' = Tail(pending)
  /\ UNCHANGED <<call_id, request_queue, context_id, sockVars, failing, denied,
                 waiters, wireVars>>

DeadEnd ==
  /\ failing
  /\ ~aborted
  /\ pending = <<>>
  /\ failing' = FALSE
  /\ denied' = {}
  /\ UNCHANGED <<connVars, req, timers, sockVars, waiters, aborted, wireVars>>

(***************************************************************************)
(* The end of the wait loop of dcerpc_request_recv, for a call without a   *)
(* callback: collect the status and free the call.  Its destructor takes   *)
(* it off pending.  A call that was freed meanwhile is read after free.    *)
(***************************************************************************)
RequestRecv(r) ==
  /\ ~aborted
  /\ ~failing
  /\ waiters # <<>>
  /\ Head(waiters) = r
  /\ waiters' = Tail(waiters)
  /\ req[r].state \in {"done", "freed"}
  /\ req' = [req EXCEPT ![r] = [@ EXCEPT !.state = "freed", !.calls = 1]]
  /\ aborted' = (req[r].state = "freed")
  /\ last_fault' = (last_fault \/ req[r].status # "OK")
  /\ pending' = Unlink(pending, r)
  /\ request_queue' = UnlinkForeign(request_queue, r)
  /\ timers' = Unlink(timers, r)
  /\ UNCHANGED <<call_id, context_id, sockVars, failing, denied, wireVars>>

Next ==
  \/ \E r \in Calls : RequestSend(r)
  \/ \E a \in Alters, sends \in BOOLEAN : AlterSend(a, sends)
  \/ \E a \in Alters, sends \in BOOLEAN : BindSend(a, sends)
  \/ \E a \in Alters : AlterSendFailed(a)
  \/ \E r \in Reqs : \E k \in Packets(r) : RecvUnmatched(r, k)
  \/ \E r \in Reqs, m \in Alters : \E k \in Packets(r) : RecvHandler(r, k, m)
  \/ \E r \in Reqs, m \in Calls : RecvFragment(r, m)
  \/ \E r \in Reqs, m \in Calls : \E k \in Packets(r) : RecvDone(r, k, m)
  \/ Timeout
  \/ SockDead
  \/ \E r \in Reqs : RecvMalformed(r)
  \/ DeadStep
  \/ DeadEnd
  \/ \E r \in SyncCalls : RequestRecv(r)

(***************************************************************************)
(* The event loop keeps running, so due timers and immediate events fire,  *)
(* a loop on the stack goes on, and a blocked caller resumes.  Nothing is  *)
(* assumed of the server or of the callers' sends.                         *)
(***************************************************************************)
Fairness ==
  /\ WF_vars(Timeout)
  /\ WF_vars(DeadStep)
  /\ WF_vars(DeadEnd)
  /\ \A r \in SyncCalls : WF_vars(RequestRecv(r))
  /\ \A a \in Alters : WF_vars(AlterSendFailed(a))

Spec == Init /\ [][Next]_vars
FairSpec == Spec /\ Fairness
-----------------------------------------------------------------------------
(***************************************************************************)
(* Correctness                                                             *)
(***************************************************************************)

\* No request is completed twice: whatever the order of its reply, its timer
\* and the death of the connection, its callback runs at most once.
CallbackOnce == \A r \in Reqs : req[r].calls <= 1

\* The payload of a call is made of the fragments of its own reply, in order
\* and without a gap, also when replies to timed out calls come in late.
OwnReply ==
  \A r \in Calls : \A n \in DOMAIN req[r].payload : req[r].payload[n] = <<r, n>>

\* Two calls without the async attribute are never outstanding together.
SerialCalls ==
  \A r, q \in Elems(pending) \cap (Calls \ AsyncCalls) : r = q

\* A properly signed reply is not refused because of what came before it: the
\* sign/seal sequence numbers of client and server stay in step through
\* timeouts, late replies to requests that are gone and replies with a wrong
\* signature, unless a packet was malformed or had its auth trailer cut.
SoundReplyAccepted ==
  ~garbled /\ ~cut => \A r \in Calls : req[r].status # "REJECTED"

\* A use of freed memory needs a timeout, a malformed packet, a bind or alter
\* that could not be sent, or a blocked caller on a lost connection: replies,
\* faults and the loss of the connection alone never lead to one.
AbortExplained ==
  aborted => \/ garbled
             \/ \E r \in SyncCalls : req[r].status = "DISCONNECTED"
             \/ \E r \in Calls : req[r].status = "IO_TIMEOUT"
             \/ \E a \in Alters : req[a].status \in {"SEND_FAILED", "DISCONNECTED"}

\* No request stays PENDING for ever: shipped, queued or lost from the queue,
\* it is answered, fails with the connection or times out.
EventuallyEnds ==
  \A r \in Reqs : req[r].state = "pending" ~> (req[r].state # "pending" \/ aborted)
-----------------------------------------------------------------------------
(***************************************************************************)
(* The service that the connection implements                              *)
(***************************************************************************)

\* How far a call is: waiting in the queue (or lost from it), with the server,
\* or ended with the status its owner is given.
CallState(r) ==
  CASE req[r].state = "new" -> "new"
    [] req[r].state = "pending" /\ req[r].shipped = -1 -> "waiting"
    [] req[r].state = "pending" /\ req[r].shipped # -1 -> "executing"
    [] req[r].state \in {"done", "freed"} /\ req[r].status = "OK" -> "replied"
    [] OTHER -> "failed"

Service == INSTANCE RpcService
  WITH state <- [r \in Calls |-> CallState(r)],
       ticket <- [r \in Calls |-> req[r].call_id],
       crashed <- aborted

\* The connection is a service of calls that end once, with a reply or an error,
\* reach the server at most once and in the order of issue, one at a time
\* unless they are async, whatever is lost, late, refused or torn down: every
\* step of the queue, the lists and the timers is a step of RpcService.
ImplementsService == Service!Spec
-----------------------------------------------------------------------------
(***************************************************************************)
(* The invariant that makes CallbackOnce and SerialCalls inductive         *)
(***************************************************************************)
Distinct(s) == \A i, j \in DOMAIN s : s[i] = s[j] => i = j

\* No request is on a list twice or on both lists.
OneList ==
  /\ Distinct(pending)
  /\ Distinct(request_queue)
  /\ Elems(pending) \cap Elems(request_queue) = {}

\* What is on a list has been allocated.
ListedAllocated ==
  \A r \in Elems(pending) \cup Elems(request_queue) : req[r].state # "new"

\* A callback is the end of its request: it is freed in it.
CalledFreed ==
  \A r \in Reqs : /\ req[r].state = "new" => req[r].calls = 0
                  /\ r \notin SyncCalls /\ req[r].calls # 0 => req[r].state = "freed"

\* The destructor of a call keeps freed calls off the pending list.
PendingAlive ==
  ~aborted => \A r \in Elems(pending) \cap Calls : req[r].state # "freed"

IndInv ==
  /\ TypeOK
  /\ OneList
  /\ ListedAllocated
  /\ CalledFreed
  /\ PendingAlive
  /\ CallbackOnce
  /\ SerialCalls
-----------------------------------------------------------------------------
(***************************************************************************)
(* What comments of the code say, and the code does not do                 *)
(***************************************************************************)

\* "handle timeouts of individual dcerpc requests": the timeout of a request
\* takes no other call out of the queue.
TimeoutIsIndividual ==
  [][Timeout =>
       Elems(request_queue) \ {Head(timers)} \subseteq Elems(request_queue')]_vars

\* "so we can be in the same request queue as normal requests": when a bind
\* or alter has ended, the calls that waited for it are shipped.
QueueServed == InLoop /\ request_queue # <<>> => pending # <<>>
=============================================================================
