# A TLA+ model of the WMI client

This repository is a WMI client for Linux (`wmic`, `wmis`, the Python bindings
`pysamba`, and `winexe`) built on a snapshot of Samba 4. What is the client's
own, and what it depends on at every turn, is a stack of asynchronous state
machines in C:

```
 wmic / wmis / pysamba           wmi/wmic.c               WbemQuery
     WMI client library          wmi/wmicore.c, wbemdata.c  WbemQuery
     DCOM client                 lib/com/dcom/main.c      DcomActivate, DcomPipe, BindingSearch
     connection establishment    librpc/rpc/dcerpc_connect.c, _util.c, _auth.c  DcerpcConnect
     DCE/RPC client connection   librpc/rpc/dcerpc.c      DcerpcConn, RpcService
     DCE/RPC socket transport    librpc/rpc/dcerpc_sock.c DcerpcConn, PacketStream
     packet stream               lib/stream/packet.c      PacketStream
     composite contexts          libcli/composite         DcomActivate, DcerpcConnect
     event loop                  lib/events               EventLoop
```

Everything runs in one thread under one event loop. There are no data races, and
yet there is a lot of interleaving: replies, timers, socket errors and immediate
events come in any order, callbacks send new requests, free what called them, or
run the event loop themselves. That is what the modules model. Paths below are
relative to `src/Samba/source/`.

## Inventory

| component | state | operations | talks to |
|---|---|---|---|
| DCE/RPC client connection (`librpc/rpc/dcerpc.c`) | call id, request queue, pending list, per-request state, status, payload and timer, context id and last fault of the pipe | send a call, bind, alter, ship the next call, receive a packet, time out, die, wait for a call | transport (`send_request`, `recv_data` callback), event loop, owners' callbacks |
| Socket transport (`librpc/rpc/dcerpc_sock.c`) | socket, number of reads wanted | send, ask for a read, deliver a PDU, fail | packet stream, connection |
| Connection establishment (`dcerpc_connect.c`, `dcerpc_util.c`, `dcerpc_auth.c`, opening part of `dcerpc_sock.c`) | one composite context per stage | open sockets, map the endpoint, bind, authenticate, time out | sockets, gensec, connection |
| Packet stream (`lib/stream/packet.c`) | partial packet, send queue, `processing`, `recv_disable`, fd flags, immediate events | receive, call back, disable and enable, queue, run the queue, fail, be freed | socket, event loop, transport |
| DCOM client (`lib/com/dcom/main.c`) | object exporters (string bindings, host, pipe, IRemUnknown), credentials, an activation or get-pipe state per operation | activate, get a pipe, alter it, keep it, try bindings, query interface, release | connection, composite contexts, WMI library, proxies generated by `pidl` |
| WMI client library (`wmi/wmicore.c`, `wmi/wbemdata.c`) and programs | composite chain of ConnectServer; per enumerator its two further interfaces, its cache of classes and the last reply | connect, query, SmartNext, parse, release, method calls | DCOM client |
| Composite contexts (`libcli/composite/composite.c`) | state, status, continuation, immediate triggers | continue, done, error, wait | event loop, everybody |
| Event loop (`lib/events`, `wmi/zenoss_events.c`) | fd events, timed events | add, free, run once | everybody |
| Samba server, SMB/LDAP/NBT clients, Kerberos, LDB/TDB, talloc, build, tests | – | – | carried along; not part of the WMI client's own logic |

What is hard here, and what makes each component correct:

- *Connection.* A request can be ended by its reply, its timer, the death of the
  connection or a failing send, in any order, and each of them unlinks, frees
  and calls back. Every request must end, once, with its own reply; calls go out
  in order and, unless the IDL says async, one at a time; signatures stay in
  step when the request of a reply is gone.
- *Packet stream.* The stream is cut anywhere; callbacks may run the event loop,
  disable receiving, or free the stream. Every packet is delivered whole, once,
  in order and never inside another callback; what is queued goes out in order
  after any number of short writes.
- *DCOM pipe.* One pipe is shared by the calls on an exporter, carries one
  interface at a time, and belongs to two talloc parents. Nobody may use a freed
  pipe or a wrong presentation context, and no pipe may be left behind.
- *Activation.* Four asynchronous stages, each of which may fail, some before
  the continuation is set; exporters are shared by concurrent activations. The
  owner hears once, and an object it gets can be used and released.
- *Event loop.* Handlers free events that the current batch or list still leads
  to, change flags, and run the loop again. Nobody is called after being freed
  or twice, timers keep their order, and a ready fd is served.
- *Establishment.* A tree of nested contexts and up to three connections, torn
  down by whoever ends first. The caller hears once and owns exactly one pipe,
  bound and authenticated, or nothing.
- *String bindings.* A search that wraps around and is resumed after each failed
  connect, in an array that may be replaced meanwhile.
- *WMI library and programs.* Objects come in chunks and share classes that are
  sent once; each program ends its loop by a test of its own. No object may be
  lost or repeated, no class be missing, no reference be left on the server.

`PROJECT.json` lists every component with its status, and under `hazards` the
lines where these behaviours bite.

## Modules

`DcerpcConn`, `PacketStream`, `EventLoop`, `DcerpcConnect`, `DcomPipe`,
`DcomActivate`, `BindingSearch` and `WbemQuery` each model one component;
`RpcService` is an abstract specification; `MC*` instantiate them for TLC;
`*Proofs` hold the theorems. The modules keep the names of the code's fields.

Components are composed by contract, not by EXTENDS: each module assumes of the
one below what that one is shown to do.

| module | relies on | shown by |
|---|---|---|
| `PacketStream` | a watched and ready fd is served; immediate events keep their order | `FdServed`, `TimerOrder` of `EventLoop` |
| `DcerpcConn` | whole packets in order; request timers fire in the order of arming, once | `Framing`, `WireOrder`, `Delivered` of `PacketStream`; `TimerOrder`, `TimerOnce` of `EventLoop` |
| `DcerpcConnect` | a bind or alter ends once, with the answer or an error; timers of equal length fire in the order of adding | `CallbackOnce`, `EventuallyEnds` of `DcerpcConn`; `TimerOrder` |
| `DcomPipe`, `DcomActivate` | calls are serial, in order, end at most once; a connect ends and gives one pipe or none | `ImplementsService`, `EventuallyEnds`; `OnePipe`, `ConnectAnswered` |
| `WbemQuery` | a DCOM call that ends does so once, with its own result or an error; an activation gives an object or an error | `CallbackOnce`, `OwnReply`; `RightContext` of `DcomPipe`; `ToldOnce`, `UsableObject` of `DcomActivate` |

### DcerpcConn

State: `call_id`, `request_queue`, `pending`, `context_id`, `last_fault` are the
fields of `dcerpc_connection` and `dcerpc_pipe`; `req[r]` is an `rpc_request`,
with `calls` counting how often its owner was called back; `timers` is the order
in which request timers fire (all run for the same time, so it is the order of
arming); `sock_open` and `pending_reads` belong to the socket transport;
`failing` and `denied` are the loop of `dcerpc_connection_dead` on the stack;
`waiters` are the owners that block in `dcerpc_request_recv`, innermost first;
`owed` and `sent` are the server's side; `sign_gap` compares the sequence
numbers of the sign/seal routines on both sides; `cut` and `garbled` record that a
response with a cut auth trailer, or a packet that cannot be parsed, has come;
`aborted` stands for a use of freed memory.

The connection signs or seals, with a sequence number for each direction (NTLM2;
NTLM1 has one for both and is not modelled). The server numbers the responses
that it signs, and the client counts those that it checks. Not every exit of
`dcerpc_request_recv_data` counts: a response whose auth trailer is missing or too
short makes `ncacn_pull_request_auth` return before the check (dcerpc.c:274,
293), so that every later response is rejected (status `REJECTED`). A packet that
cannot be parsed may move the numbers either way. `SoundReplyAccepted` says that
nothing else does: not a reply whose request is gone, not one that ends a call
with a fault, not one that fails its check.

| action | code |
|---|---|
| `RequestSend` | `dcerpc_request_send` with `dcerpc_ship_next_request` |
| `BindSend`, `AlterSend`, `AlterSendFailed` | `dcerpc_bind_send`, `dcerpc_alter_context_send` and their failing send |
| `RecvUnmatched`, `RecvHandler`, `RecvFragment`, `RecvDone` | the exits of `dcerpc_request_recv_data` |
| `RecvMalformed` | `dcerpc_recv_data` on a packet that cannot be parsed |
| `Timeout` | `dcerpc_timeout_handler` |
| `SockDead`, `DeadStep`, `DeadEnd` | `sock_dead`, `dcerpc_connection_dead` |
| `RequestRecv` | the end of the wait in `dcerpc_request_recv` |

A handler is one action. `dcerpc_connection_dead` is the exception: its loop runs
callbacks which may send on the same connection, so a turn of the loop is a step.
The doubly linked lists are sequences; `UnlinkForeign` is what `DLIST_REMOVE`
with the head pointer of the *other* list does, which `dcerpc_timeout_handler`
does for a queued call.

Assumptions: request timers are armed (the default of 60 s; a `request_timeout` of 0
would remove the last resort of `EventuallyEnds`), an owner frees a request in
its callback, as the generated code and the composite wrappers do, and does not
free a request before it has ended.

**RpcService** is the promise of a connection to those who call on it: a call
waits, executes and ends once, replied to or failed; calls start in the order of
issue; two that are not async never execute together. `DcerpcConn` implements it
(`ImplementsService`), with the state of an abstract call computed from
`req[r]`, `pending` and `request_queue`, and the crash from `aborted`. The
refinement holds for instances in which at most one caller blocks in
`dcerpc_request_recv`. With two blocked callers, one inside the other's event
loop, a queued call that has timed out is not freed until its caller resumes,
and can still be shipped: it then executes after it has failed.

### PacketStream

State: the fields of `packet_context`, plus the bytes still to come, the bytes in
the socket, the packets given to the callback and the pieces written. Bytes are
counted. A packet's callback is not atomic: it begins when a packet is given
away (`processing`) and ends with `CallbackReturn` or `CallbackFails`; between
the two the socket may become readable and the context may be freed, disabled or
used for sending. Any user may disable receiving at any time. `Readable`,
`RecvError`, `NextEvent` are the ways into
`packet_recv`; `Disable`, `Enable`, `Free`, `Send`, `QueueRun`, `WriteError` are
the other functions of the file. The fd event has a life of its own: an error
frees it while a callback is still to return and set its flags. One run covers
both kinds of user, with an initial read (DCE/RPC) and without (SMB, LDAP). All users that watch a socket set `serialise`
and an event context; other combinations are not modelled.

### DcomPipe

State: `ox_pipe` (the exporter's pipe), `pipe[p]` with its interface id, context
id, what the server takes that context for, fault flag, talloc parent and number
of references; per user where it is; and per pipe the queue of its connection.
`GetPipe` is `dcom_get_pipe_send`; `Connected`, `ConnectFailed`, `Altered`,
`AlterFailed` and `Ready` its continuations followed by `dcom_get_pipe_recv` and
the request (`Take`). `Shipped` is `dcerpc_ship_next_request`: it waits for a
pending alter as well as for a call, and a call that it cannot ship is lost
without a word to its user (dcerpc.c:1120). `ReplyEnds` is a reply, which ships
the next call; `NoReply` a timeout or a dead connection, which does not, and
which unlinks a queued call from the wrong list (finding 1). Both end with the
generated `*_recv_rpc` and the freeing of the user's context. The search
among string bindings is one step (`Connected` or `ConnectFailed`);
`BindingSearch` has its detail.

### DcomActivate

State: `act[a]`, the stage of an activation, its immediate events and how often
its owner was told; `ox[o]`, what activations share; `latest`, the IRemUnknown
of the last reply; `abused`, a use of freed memory or NULL. One action per
continuation: `ActivateSend`, `Trigger` (`composite_trigger`),
`BindingContinue`, `BindingContinue2`, `ActivationContinue`, `ActivationFailed`,
`ActivationComplete`, `Recv`. An asynchronous owner frees both contexts in its
callback (as `wmicore.c:116` does); a synchronous one after `composite_wait`.
The oxid inside a returned object reference is taken to be that of the reply,
as the protocol prescribes. Connects and calls end with an error or a result by
the contract of the connection below.

### BindingSearch

State: the array of string bindings, the index and the offset of the search, and
the offsets that were connected to. `bind_new_pipe` and `try_next_binding` are
the functions of that name, the loop of the latter (`Loop`) a recursive function
over `Turn`; `ConnectDone` and `ConnectFailed` are `bind_new_pipe_continue`;
`UpdateOxid` replaces the array, as the reply to an activation does. A binding
is one of four kinds, which is all that the search looks at.

### DcerpcConnect

The talloc tree is the state: `parent[o]` of every context and pipe of a
connect, of the connect to the endpoint mapper inside it, and of a second
connection. `Free` and `Steal` are those of talloc; `dangling` records a
continuation that runs on something freed. `at[l]` is the stage of chain `l`,
`gensec`, `token`, `rounds` and `bound` the exchange on each pipe.

| action | code |
|---|---|
| `ConnectSend`, `MapDefault`, `MapReply` | `dcerpc_pipe_connect_b_send`, `dcerpc_epm_map_binding_send`, `continue_map_binding`, `continue_epm_map` |
| `OpenDone` | `continue_pipe_connect`, `dcerpc_pipe_auth_send`, `dcerpc_bind_auth_send` |
| `BindAck`, `AlterAck`, `BindRefused`, `BindTrigger` | `bind_auth_recv_bindreply`, `bind_auth_recv_alter`, `bind_auth_next_step`, `continue_auth_auto` |
| `SecondDone` | `dcerpc_secondary_connection_recv`, `continue_ntlmssp_connection`, `continue_spnego_after_wrong_pass` |
| `Timeout` | `dcerpc_connect_timeout_handler` |

gensec is seen by its answers: an error, another token, a last token, that it is
done, or that it wants more and has no token. It refuses the token that it made
itself. On an answer without a token `dcerpc_auth.c` ends the bind with success
whether or not gensec wants more (139), or before a bind was sent at all (320);
both exits are in `NextStep` and `BindSend`. SPNEGO wraps every first token and
is done only when the server has accepted; NTLMSSP, Kerberos and schannel, alone
or below SPNEGO, never want more without a token. The interface lets a mechanism
do so, and GSSAPI for SASL, which DCE/RPC cannot choose, does
(gensec_gssapi.c:484-501). `mute`, chosen at the start, tells whether there is
such a mechanism. The timer of the
outer connect (`DCERPC_REQUEST_TIMEOUT`) is added before, and runs as long as,
those of the inner connect and of the requests; they are freed before they fire.

### EventLoop

State: `fde[f]`, the fd events with their flags and what epoll knows of them;
`timed_events` in list order; `destruction_count`; and `stack`, the calls of
`event_loop_once` that are under way, each with the rest of its batch and the
handler that it runs. While a handler runs, the program may add, change and free
events (`AddFd`, `SetFdFlags`, `FreeFd`, `AddTimed`, `FreeTimed`) or run the
loop again (`NestedLoop`). `Arrive`, `Drain` and `Tick` are the kernel.

### WbemQuery

State: where the program is in its sequence of calls; the enumerator's interfaces
and its cache of classes; the vtable's Release function; the objects that the
query finds, that were sent, got, and lost in replies that do not parse. Three
programs use the library: `wmic`, the torture test, and the pysamba watcher,
which frees each object once it is converted and goes on after an error.

## Runs

| run | instance | shows |
|---|---|---|
| `conn_calls` | 3 calls (one async, one blocking), 2 fragments, connection lost, packets malformed, trailers cut | `TypeOK`, `CallbackOnce`, `SerialCalls`, `SoundReplyAccepted`, `AbortExplained`, `ImplementsService`, `EventuallyEnds` |
| `conn_alters` | 2 calls and a bind or alter, 2 fragments | `OwnReply`, `AbortExplained`, `EventuallyEnds` |
| `conn_timeout` | 3 calls | violation of `TimeoutIsIndividual` |
| `conn_stall` | 1 call, 1 alter | violation of `QueueServed` |
| `packet` | several packets in, 2 out, with and without initial read, read and write errors | `Framing`, `AliveInCallback`, `FdEventAlive`, `WireOrder`, `Delivered`, `AllWritten` |
| `pipe_single` | 4 users of 2 interfaces, one at a time, alters refused | `NoDangling`, `NoLeak`, `RightContext`, `RefusedOnce` |
| `pipe_bound` | the same | violation of `PresentlyBound` |
| `activate` | 3 activations (one synchronous), 2 exporters, 2 ipids | `ToldOnce`, `UsableObject`, `RemUnknownFresh`, `EveryOwnerTold` |
| `events` | 2 fd events, 2 timed events, batches of 2, loops nested twice | `BatchAlive`, `TimerOnce`, `TimerOrder`, `FdServed` |
| `connect` | known, default or mapped endpoint, anonymous or not, gensec mute or not, 2 alters per bind | `OnePipe`, `NoStaleContext`, `AuthComplete`, `ConnectAnswered` |
| `search` | every array of up to 4 bindings, replaced once by any other | `OnePass`, `InArray` |
| `wmi` | up to 5 objects of 2 classes, 2 at a time | `AllObjects`, `SoundPointers`, `ReleasesAll` |

*Bounds.* Every request, user and activation is begun at most once, so the
models are finite without a constraint. Three calls are the least with which a
call can be lost from the middle and from the end of the queue and a late reply
can meet a third call; a bind or alter with two calls gives every order of an
alter, a shipped and a queued call. Two fragments distinguish first, middle gap
and last. `CallIdMod` stands for 2^32; the assumption that a connection does not
make 2^32 calls is stated in the module. Packet lengths include the header
alone (`HdrLen`), one more, and more than two reads. Four users of one exporter
allow a refused alter, a user hurt by it, and one that must not be hurt any more.
Three activations allow two on one exporter and a third that sees the result.
Two fd events and a batch of two let the first handler free the second's event;
five operations of handlers are enough to free, add and change in one batch. Two
rounds tell a first, a middle and a last token apart. Four bindings give a
similar one in the middle with usable ones on both sides. Five objects in chunks
of two are two full chunks and a short one, four an exact multiple, and two
classes let a class be used in a later chunk than the one that brought it.

*Deadlock* is not checked: the systems may stop when all requests, searches or
queries have ended.

*Fairness* is weak and only on what the event loop itself does: due timers fire,
immediate events fire, a loop on the stack goes on, a waiting owner resumes, a
socket that is watched and readable is read, a callback returns. Nothing is assumed
of the server, the peer, or the users' willingness to send. A socket becomes
writable only if the peer reads, so `AllWritten` has that as its hypothesis
(`PeerReads`). `Delivered` has the hypothesis `NoneStopsOnSurplus` (see Findings).
In `DcerpcConnect` only the timer is fair: `ConnectAnswered` needs nothing else.
In `EventLoop` the program calls the loop for ever and a handler returns, unless it
waits in a loop of its own. `FdServed` also rests on `MaxOps`, the bound on what
handlers do: a turn of the loop that runs a due timer does nothing else
(events_standard.c:584), so a handler that re-arms itself at once for ever would
starve the fds. An fd event without flags is not among those that are added.
`DcomPipe` states no fairness and no liveness: a call that could not be shipped is
never ended.

## Findings

Three runs show the code doing something other than its comment says.

1. `conn_timeout`: a queued call that times out is removed with the head pointer
   of the pending list. The queue keeps the (freed) call as its head and loses
   all calls behind it.
2. `conn_stall`: the end of a bind or alter does not ship the calls that waited
   for it.
3. `pipe_bound`: a pipe counts as bound to an interface although the alter was
   refused. `RefusedOnce` shows that, one user at a time, this hurts at most one
   more call.

Further behaviour of the code that the models contain and that the properties
are worded around:

- when a connection dies, the calls waiting in its queue get no error; they stay
  pending until their own timers fire, which is all that `EventuallyEnds` needs;
- the death of the connection frees a call whose owner blocks in
  `dcerpc_request_recv` and reads it next: one of the cases of `AbortExplained`;
- with two users at a time (`MaxActive = 2`) all four properties of `DcomPipe`
  fail: a queued call is sent in the presentation context that the pipe has when
  it is shipped, which another user's alter may have changed; a pipe can be freed
  while another user alters it; of two pipes connected together one is kept for
  ever; and a refused alter hurts more than one call. They hold for the
  one-at-a-time use of `wmic`, which the run has;
- a response whose auth trailer is cut puts the client's sequence number behind
  the server's, and every later response is rejected;
- a fragment of a reply whose call is gone uses up a wanted read, and the next
  call's read is served late;
- a bind or alter has the call id of the latest call, so that a late reply to
  that call can complete it, and its acknowledgement can end that call with a
  fault (`OwnReply` shows that no call takes another exchange's reply for its
  result);
- a call that cannot be sent is done before `dcerpc_request_send` returns, and
  its owner's callback is never run; `EventuallyEnds` says that it ends, not that
  its owner hears of it;
- an answer of gensec without a token ends a bind with success although gensec
  wants more (dcerpc_auth.c:139), or on a pipe for which no bind was sent (320),
  against the comments at 118 and 298 ("if GENSEC claims
  'MORE_PROCESSING_REQUIRED' then you must keep feeding it blobs"). No mechanism
  that DCE/RPC can choose gives such an answer; with one that does (`mute`) TLC
  reaches both exits, and without the exception for it `AuthComplete` is violated;
- the test of `packet_recv_enable` (packet.c:446) is the reverse of the one in
  `packet_next_event` (217-218): without an initial read, packets buffered
  while receiving was disabled wait for more bytes. `Delivered` therefore assumes
  that no user without an initial read disables receiving while more than the
  next packet is in the buffer, and fails without that. None here does:
  `dcerpc_sock.c` sets an initial read, `ldap_server.c` disables before anything
  was read and enables in the same handler, `winsrepl.c` disables to end;
- a server that answers ServerAlive with an error makes
  `determine_rpc_binding_continue2` end its context twice, the second time after
  an asynchronous owner has freed it; an activation that succeeds without its
  interface makes `remote_activation_complete` copy from NULL.
  `abused` records both, and the properties of `DcomActivate` say what holds
  otherwise;
- string bindings that are replaced by a shorter array during a search leave its
  index beyond the NULL (main.c:1078). `InArray` shows that nothing else does;
- wmic does not store the result of Reset (wmic.c:202), so that a failed Reset is
  not noticed; `AllObjects` shows that no object is lost by it. It takes
  WERR_BADFUNC for "fewer objects than requested" (211), which is also what
  S_FALSE from the calls that set up the enumeration becomes: it then ends
  successfully with nothing;
- a class that could not be parsed leaves a NULL class to later objects
  (wbemdata.c:569), and a reply that succeeds without its interface a NULL
  interface (wbemdata.c:756, wmicore.c:119): the two exceptions of
  `SoundPointers`;
- the Release function of the smart enumerator is set in the vtable that all
  enumerators share (wbemdata.c:797, marked "why?!") and reset when another is
  unmarshalled (main.c:923): its two further references then stay on the server;
- SmartNext keeps the time out and the count of its first call; the programs here
  never change them.

## Proofs

All theorems hold for every value of the constants that the named assumptions
admit (`ReqsAssumption`, `CallIdAssumption`, `FragsAssumption`,
`ActsAssumption`, `LensAssumption`, `EventsAssumption`, `DcomAssumption`,
`ChunkAssumption`, `BoundsAssumption`, `RoundsAssumption`); some have a hypothesis
of their own, given below (`OneBlocked`, `MaxActive = 1`, `ShortInitialRead`,
`NoneStopsOnSurplus`).
Each proof module has an inductive invariant `IndInv` (TLC has checked it on the
instance of the component's run), a lemma per action that keeps it, and the
theorems as its consequences; further invariants build on it.

Every safety property that the passing runs check is proved. Of each liveness
property the safety half is: *no wakeup is lost*, that is, whoever still waits
has something left that will end the wait. What remains for TLC is that the
scheduler lets it happen.

**DcerpcConnProofs.** For any finite sets of calls and alters: `TypeCorrect`
(`TypeOK`), `CallbackAtMostOnce` (`CallbackOnce`), `CallsAreSerial`
(`SerialCalls`), all from `Invariance`, `Spec => []IndInv`. `IndInv` strengthens
them by what the C code relies on without saying so:

- `OneList`: no request is on a list twice or on both lists; otherwise unlinking
  one occurrence would leave a freed request listed;
- `ListedAllocated`: only allocated requests are listed, so a new request is on
  no list;
- `CalledFreed`: a request that was called back is freed, which is why neither
  its timer nor a packet can call it back again;
- `PendingAlive`: unless the process was aborted, no freed call is pending. A
  timed-out *queued* call does stay listed (finding 1), so this is said of
  `pending` only, and the step that would ship that call is the step that
  aborts.

`TypeOK` is part of the induction because `pending_reads \in Nat` needs the
guards of the receiving actions. The proof has one lemma per action on top of
lemmas about `Unlink`, `UnlinkForeign` and `ShipNext`.

Its second part has what the callers rely on. Those invariants are said of
requests and lists that are parameters, because `dcerpc_ship_next_request` works
on what its caller has already changed.

- `AbortExplainedSafe`, from `AbortInv`: a request that ended in the queue timed
  out there, a freed alter on `pending` could not be sent, what became pending
  during `dcerpc_connection_dead` did so on an open socket, and a blocked caller
  loses its call only with the connection.
- `SoundReplyAcceptedSafe`, from `InStep`: as long as no packet was malformed and
  no trailer cut, every exit of `dcerpc_request_recv_data`, the one for a reply
  without a request included, has counted exactly what the server has numbered,
  so that no call ends because a sound reply fails its check.
- `OwnReplySafe`, from `TicketInv` (the ids of the issued calls differ and are at
  most `call_id`) and `ReplyInv`. The search by call id finds the right call
  although an alter has the id of the latest call, because `DLIST_ADD` puts a
  call before all alters on `pending` and an alter goes to the end
  (`CallsFirst`).
- `ServiceRefinement`: `Spec => ImplementsService` for instances with at most one
  call in `SyncCalls` (`OneBlocked`), as in `wmic`, which blocks in one call at a
  time. `ServiceInv` says that the queue is sorted by call id, that what was
  shipped is older than what is queued, and that a queued call which is done is
  the blocked caller's. `StepRefines` maps every step to a step of `RpcService` or
  a stutter. The hypothesis is needed: with two blocked callers, one in the
  other's event loop, the outer call can time out in the queue and stay its head;
  a later `dcerpc_request_send` ships it and overwrites its status with success,
  so that its caller is told of a reply that never came. TLC finds this with four
  calls, two of them blocking.
- `TimersArmedSafe`: a request that has not ended has its timer armed, be it
  pending, queued, or lost from both lists (finding 1); only a bind or alter whose
  send failed has none, and the event of `composite_continue` ends that one. It
  needs `OneTimer`: freeing a request frees one timer, so it must have no second.
  This is the safety half of `EventuallyEnds`.

**DcerpcConnectProofs**, for any number of authentication rounds: `TypeCorrect`,
`OnePipeSafe`, `NoStaleContextSafe`, `AuthCompleteSafe`, `ToldAtMostOnce` (the
safety conjunct of `ConnectAnswered`), the action property `QuietWhenTold`
(nothing happens after the owner was told), and `TimerArmedSafe` (while the owner
waits, the timer of `dcerpc_pipe_connect_b_send` is armed). The heart is an
invariant that gives the talloc tree for every stage of the two chains of
contexts: the plain connect, the mapping of the endpoint with a connect of its
own below it, the call of the mapper, the first try to authenticate, the second
connection, and the second try, to whose context both pipes have gone. What
`talloc_free` takes with it (`Free`) is found level by level in the tree; what it
comes to in the tree of a stage is proved by a least counterexample over the
levels. From that follows what each completion frees, and hence that no
continuation is left behind and that exactly one pipe survives. `AuthCompleteSafe`
rests on `BindInv`: a bind that waits for its answer has sent a token, an alter
follows an accepted bind, and an early end with success takes a `mute` mechanism.

**EventLoopProofs**, for any number of events, batches of any size and loops
nested to any depth: `BatchAliveSafe`, `TimerOnceSafe`, and the action property
`TimerOrderSafe`. `BatchInv` relates every frame of the stack, not only the top
one, to `destruction_count`: a frame whose count is current has only live events
left. `PolledAsWantedSafe`, the safety half of `FdServed`, says that the kernel
polls every live fd event exactly when it wants something, after every add,
change, error and free, in whatever handler and nested loop they happen. `TimerInv` says that a listed timer was never called and that a running one
is on the stack once; `OrderInv` that the list is sorted, with timers of one time
in the order of their allocation.

**PacketStreamProofs**, for packets of any number and length and reads and writes
of any size: `FramingSafe`, `AliveInCallbackSafe`, `FdEventAliveSafe`,
`WireOrderSafe`. `RecvInv` accounts
for every byte: the packets given away, the buffer, the socket and what is still
to come add up to the stream, and a known `packet_size` is that of the next
packet. `SendInv` ties the head of the send queue to the last piece written. The
offsets `Start` are a recursive function; that it exists and increases is proved
by a least counterexample (`SmallestOfSet`). Two theorems are the safety halves of
`AllWritten` and `Delivered`: `WriteNotLostSafe` (a queued packet is out, or in the
queue with the socket watched for writing) and `ReadNotLostSafe` (while receiving
is on, the socket is watched or the running callback will watch it again, and a
whole packet in the buffer has an immediate event). The latter assumes
`[]NoneStopsOnSurplus`, as `Delivered` does, and `ShortInitialRead`: no initial read is longer than a packet, as with the header
that every PDU has. It is needed: with an initial read that spans several short
packets TLC finds a packet left in the buffer, because the test of
`packet_recv_enable` (packet.c:446) is the reverse of the one in
`packet_next_event` (217).

**DcomPipeProofs**, for any number of users, pipes and interfaces, under the
hypothesis `MaxActive = 1`: `NoDanglingSafe`, `NoLeakSafe`, `RightContextSafe`,
`RefusedOnceSafe`. One user at a time is how the synchronous `wmic` uses an
exporter, and what the run checks; with two all four fail (see Findings). `UserInv` and `PipeInv` say that the only live pipe is
the exporter's, that it belongs to the exporter without references or to the user
on the wire with one, and that a call sent in a refused context is on the wire or
has left its fault in the pipe; the last is why a second one cannot follow.
`TypeCorrect` is proved under the same hypothesis.

**DcomActivateProofs.** For any sets of activations, exporters and ipids:
`OwnerToldOnce`, `ObjectStaysUsable`, `RemUnknownIsFresh`.
The inductive invariant adds `ToldIsFreed` (an activation whose owner was told is
freed with its immediate events, and one that is not freed has told nobody),
without which the second immediate event of an early failure could tell the
owner again, and `ObjectReleasable` (an activation with an object left an
IRemUnknown in its exporter). `LocalStep` covers every action that leaves the
exporters alone; `ReplyStep` is the one that changes them. `NoOwnerForgotten` is
the safety half of `EveryOwnerTold`: an owner that was not told has a step under
way, an immediate event, or waits itself for a context that has ended.

**BindingSearchProofs**, for arrays of any length and any number of
replacements: `OnePassSafe`, `InArraySafe`. The loop of `try_next_binding` is a
recursive function: `LoopExists` shows that the recursion has a solution,
`LoopWhat` what the loop comes to, both by a least counterexample over the number
of turns. `TurnInv` is the loop invariant; `Seen` says that the turns so far met
no TCP binding between the place where the loop began and the one where it is.
Outside of the loop, `PassInv` says that the index counts the places of the pass
and that the offset is the one in the last of them, and `ArrayInv` that both are
inside the array until a shorter one comes.

**WbemQueryProofs**, for any number of objects and classes and any chunk size:
`AllObjectsSafe`, `SoundPointersSafe`, `ReleasesAllSafe`. `CacheInv` is the heart:
unless a reply was lost, the cache has the class of every object that was sent,
which a later chunk that does not repeat the class relies on. `ObjectInv` and
`ResultInv` relate what was got to what was served and to the end of the program.

**Only model-checked.** Liveness (`EventuallyEnds`, `Delivered`, `AllWritten`,
`EveryOwnerTold`, `FdServed`, `ConnectAnswered`): fairness and
ENABLED are out of the prover's reach. Their safety halves are proved, as said
above.

## Plan

The components that carry the client's own logic are modelled, and every safety
property that the passing runs check is proved.

Modelling that could follow: `dcom_release_send` together with an activation on
the same exporter; `zenoss_events.c` with its Python reactor; the pipe state
machine of `winexe`.

## Not modelled

Byte formats (NDR, PDU headers, WMI object encoding), cryptography (only its
sequence numbers, as NTLM2 keeps them), name resolution and socket calls, allocation failure, the
RPC-over-SMB, unix socket and ncalrpc transports (`wmic` uses TCP), schannel,
`wmis` (a fixed sequence of calls), the select back end of the event loop,
liboop, the chunk arithmetic of `dcerpc_ship_next_request`, the tables of the
COM runtime, and
the parts of Samba that are carried along: servers, SMB/LDAP/NBT/WINS clients,
Heimdal, LDB and TDB, scripts and tests. `PROJECT.json` gives the reason for
each. `winexe` is a second client with its own pipe state machine.
