---------------------------- MODULE PacketStream ----------------------------
(***************************************************************************)
(* lib/stream/packet.c: a packet_context cuts the byte stream of a socket  *)
(* into packets, hands each one to a callback, and writes out the packets  *)
(* that are queued for sending.                                            *)
(*                                                                         *)
(* Bytes are counted, not represented: the peer sends packets of the       *)
(* lengths InLens, one after the other, in pieces of any size.  The        *)
(* callback is not atomic.  It may run the event loop, so that the socket  *)
(* becomes readable again while it runs, and it may enable or disable      *)
(* receiving or free the packet_context.  All users that watch a socket    *)
(* set serialise and an event context.  A failed allocation is not         *)
(* modelled.                                                               *)
(***************************************************************************)
EXTENDS Integers, Sequences

CONSTANTS
  InLens,       \* lengths of the packets the peer sends
  HdrLen,       \* bytes of a packet that full_request needs to find its length
  InitialReads, \* the values of pc->initial_read to consider; 0: not set
  OutLens,      \* lengths of the packets that are sent
  MaxEvents     \* bound: immediate events and refused reads at a time

ASSUME LensAssumption ==
  /\ InLens \in Seq(Nat \ {0})
  /\ OutLens \in Seq(Nat \ {0})
  /\ HdrLen \in Nat \ {0}
  /\ \A k \in DOMAIN InLens : HdrLen <= InLens[k]
  /\ InitialReads \subseteq {0} \cup {n \in Nat : n >= HdrLen}
  /\ MaxEvents \in Nat

VARIABLES
  coming,          \* bytes the peer has still to send
  avail,           \* bytes in the receive buffer of the socket
  num_read,        \* pc->num_read: bytes read and not yet given away
  packet_size,     \* pc->packet_size: length of the packet being read, if known
  given,           \* the packets given to the callback: first byte and length
  recv_disable,    \* pc->recv_disable
  fd_read,         \* the event loop watches the socket for reading
  processing,      \* pc->processing
  destructor_called,  \* pc->destructor_called
  next_events,     \* scheduled immediate events that run packet_next_event
  sock,            \* "open", "error" (pc->sock is NULL) or "freed" with the context
  send_queue,      \* pc->send_queue: records of a packet and its nsent
  fd_write,        \* the event loop watches the socket for writing
  queued,          \* number of packets put in send_queue so far
  wire,            \* the pieces written: packet, first byte, length
  initial_read,    \* pc->initial_read
  nested_error,    \* the socket was dropped inside a callback or with an event due
  misused          \* pc->fde was used after the error handler had freed it

recvVars == <<num_read, packet_size, given>>
inVars == <<coming, avail>>
ctlVars == <<recv_disable, fd_read, processing, destructor_called, next_events>>
sendVars == <<send_queue, fd_write, queued, wire>>
fdeVars == <<nested_error, misused>>
vars == <<inVars, recvVars, ctlVars, sock, sendVars, initial_read, fdeVars>>

(***************************************************************************)
(* The offset in the stream of each packet, and of the end of the stream.  *)
(***************************************************************************)
Start[k \in 1 .. Len(InLens) + 1] ==
  IF k = 1 THEN 0 ELSE Start[k - 1] + InLens[k - 1]

Total == Start[Len(InLens) + 1]

TypeOK ==
  /\ coming \in 0 .. Total
  /\ avail \in 0 .. Total
  /\ num_read \in 0 .. Total
  /\ packet_size \in 0 .. Total
  /\ given \in Seq(Nat \X Nat)
  /\ recv_disable \in BOOLEAN
  /\ fd_read \in BOOLEAN
  /\ processing \in Nat
  /\ destructor_called \in BOOLEAN
  /\ next_events \in Nat
  /\ sock \in {"open", "error", "freed"}
  /\ send_queue \in Seq([id : DOMAIN OutLens, nsent : Nat])
  /\ fd_write \in BOOLEAN
  /\ queued \in 0 .. Len(OutLens)
  /\ wire \in Seq((DOMAIN OutLens) \X Nat \X Nat)
  /\ initial_read \in InitialReads
  /\ nested_error \in BOOLEAN
  /\ misused \in BOOLEAN

\* packet_init and the setters.  DCE/RPC, the user with an initial read, starts
\* with receiving disabled.
Init ==
  /\ initial_read \in InitialReads
  /\ coming = Total
  /\ avail = 0
  /\ num_read = 0
  /\ packet_size = 0
  /\ given = <<>>
  /\ recv_disable = (initial_read # 0)
  /\ fd_read = ~recv_disable
  /\ processing = 0
  /\ destructor_called = FALSE
  /\ next_events = 0
  /\ sock = "open"
  /\ send_queue = <<>>
  /\ fd_write = FALSE
  /\ queued = 0
  /\ wire = <<>>
  /\ nested_error = FALSE
  /\ misused = FALSE

Busy == processing > 0

(***************************************************************************)
(* full_request on a buffer of n bytes that starts at offset off: whether  *)
(* it is complete, and the length it stores.  sock_complete_packet and     *)
(* packet_full_request_nbt/u32 store the length even of an incomplete      *)
(* packet once the header is there.  At an offset where no packet starts   *)
(* the length is garbage.                                                  *)
(***************************************************************************)
SizeAt(off) ==
  IF \E k \in DOMAIN InLens : Start[k] = off
  THEN InLens[CHOOSE k \in DOMAIN InLens : Start[k] = off] ELSE 1

MutFullShort(off, n, size) == [full |-> n >= HdrLen, size |-> n]

FullRequest(off, n, size) ==
  IF n < HdrLen THEN [full |-> FALSE, size |-> size]
  ELSE [full |-> SizeAt(off) <= n, size |-> SizeAt(off)]

\* The offset of the first byte that is still in the buffer.
Offset == Total - coming - avail - num_read

(***************************************************************************)
(* The end of packet_recv, from next_partial: n bytes are buffered.  A     *)
(* complete packet is given to the callback, which starts.                 *)
(***************************************************************************)
NextPartial(off, n, size) ==
  LET f == FullRequest(off, n, size) IN
  IF f.full
  THEN /\ given' = Append(given, <<off, f.size>>)
       /\ num_read' = n - f.size
       /\ packet_size' = 0
       /\ processing' = 1
  ELSE /\ num_read' = n
       /\ packet_size' = f.size
       /\ processing' = 0
       /\ UNCHANGED given

\* How many bytes packet_recv asks for.
Wanted ==
  IF packet_size # 0 THEN packet_size - num_read
  ELSE IF initial_read # 0 THEN initial_read - num_read
  ELSE avail
-----------------------------------------------------------------------------
\* The guards at the top of packet_recv.
CanRecv == ~Busy /\ ~recv_disable

Touched == misused \/ sock = "error"

(***************************************************************************)
(* packet_recv while receiving is off or a callback is running: the socket *)
(* is not watched any more, and a running callback is noted.  Like every   *)
(* EVENT_FD_ macro this reads pc->fde, which the error handler has freed   *)
(* if the socket is gone.                                                  *)
(***************************************************************************)
RecvRefused ==
  /\ ~CanRecv
  /\ fd_read' = FALSE
  /\ processing' = IF Busy THEN processing + 1 ELSE 0
  /\ misused' = Touched
  /\ UNCHANGED <<inVars, recvVars, recv_disable, destructor_called, sock, sendVars>>

\* packet_recv on a buffer that already holds the next packet.
RecvBuffered ==
  /\ CanRecv
  /\ packet_size # 0 /\ num_read >= packet_size
  /\ NextPartial(Offset, num_read, packet_size)
  /\ UNCHANGED <<inVars, recv_disable, fd_read, destructor_called, sock, sendVars, misused>>

\* packet_recv that reads n bytes from the socket.
RecvRead(n) ==
  /\ CanRecv
  /\ ~(packet_size # 0 /\ num_read >= packet_size)
  /\ n <= avail /\ n <= Wanted
  /\ avail' = avail - n
  /\ NextPartial(Offset, num_read + n, packet_size)
  /\ UNCHANGED <<coming, recv_disable, fd_read, destructor_called, sock, sendVars, misused>>

(***************************************************************************)
(* The socket is readable and watched: sock_io_handler calls packet_recv.  *)
(***************************************************************************)
Readable ==
  /\ sock = "open"
  /\ fd_read
  /\ avail > 0
  /\ UNCHANGED <<next_events, initial_read, nested_error>>
  /\ \/ RecvRefused
     \/ RecvBuffered
     \/ \E n \in 1 .. avail : RecvRead(n)

\* packet_error: the error handler frees the fd event and the socket.
PacketError ==
  /\ sock' = "error"
  /\ nested_error' = (nested_error \/ Busy \/ next_events > 0)
  /\ fd_read' = FALSE
  /\ fd_write' = FALSE

\* A read error, the end of the stream, or nothing to ask for although the
\* socket is readable.
RecvError ==
  /\ sock = "open"
  /\ fd_read
  /\ CanRecv
  /\ ~(packet_size # 0 /\ num_read >= packet_size)
  /\ avail = 0 \/ Wanted = 0
  /\ PacketError
  /\ UNCHANGED <<inVars, recvVars, recv_disable, processing, destructor_called,
                 next_events, send_queue, queued, wire, initial_read, misused>>

\* packet_next_event: the immediate event for a packet that is buffered.
NextEvent ==
  /\ sock # "freed"
  /\ next_events > 0
  /\ next_events' = next_events - 1
  /\ IF packet_size # 0 /\ packet_size <= num_read
     THEN RecvRefused \/ RecvBuffered
     ELSE UNCHANGED <<inVars, recvVars, recv_disable, fd_read, processing,
                      destructor_called, sock, sendVars, misused>>
  /\ UNCHANGED <<initial_read, nested_error>>

(***************************************************************************)
(* The callback returns.  A context that was freed meanwhile is freed now. *)
(* If more bytes are buffered, a complete packet among them gets an        *)
(* immediate event.                                                        *)
(***************************************************************************)
Schedule(off, n) == IF FullRequest(off, n, 0).full THEN 1 ELSE 0

\* A read refused during the callback is made up for (while there is a socket).
MutRewatched == fd_read
Rewatched == fd_read \/ (processing > 1 /\ sock = "open")

CallbackReturn ==
  /\ Busy
  /\ sock # "freed"
  /\ IF destructor_called
     THEN /\ sock' = "freed"
          /\ processing' = 0
          /\ fd_read' = FALSE
          /\ UNCHANGED <<inVars, recvVars, recv_disable, destructor_called,
                         next_events, sendVars, misused>>
     ELSE /\ fd_read' = Rewatched
          /\ misused' = (misused \/ (processing > 1 /\ Touched))
          /\ IF num_read = 0
             THEN processing' = 0 /\ UNCHANGED <<recvVars, next_events>>
             ELSE /\ processing' = 0
                  /\ packet_size' = FullRequest(Offset, num_read, 0).size
                  /\ next_events' = next_events + Schedule(Offset, num_read)
                  /\ UNCHANGED <<num_read, given>>
          /\ UNCHANGED <<inVars, recv_disable, destructor_called, sock, sendVars>>
  /\ UNCHANGED <<initial_read, nested_error>>

\* The callback returns an error: packet_error, once the callback is over.
CallbackFails ==
  /\ Busy
  /\ sock = "open"
  /\ ~destructor_called
  /\ sock' = "error"
  /\ nested_error' = (nested_error \/ next_events > 0)
  /\ processing' = 0
  /\ fd_read' = FALSE
  /\ fd_write' = FALSE
  /\ UNCHANGED <<inVars, recvVars, recv_disable, destructor_called, next_events,
                 send_queue, queued, wire, initial_read, misused>>

\* sock_send_request refuses to send without a socket, but sock_process_recv and
\* the sock_send_read of a fragment run in the callback all the same.
MutUsable == sock # "freed"
Usable == sock = "open" \/ (sock = "error" /\ Busy)

\* packet_recv_disable, by any user and at any time.
Disable ==
  /\ Usable
  /\ next_events < MaxEvents /\ processing < MaxEvents
  /\ ~recv_disable
  /\ fd_read' = FALSE
  /\ recv_disable' = TRUE
  /\ misused' = Touched
  /\ UNCHANGED <<inVars, recvVars, processing, destructor_called, next_events, sock,
                 sendVars, initial_read, nested_error>>

\* packet_recv_enable.  Its test is the reverse of the one of packet_next_event:
\* several buffered packets get no event and wait for more bytes to arrive.
Enable ==
  /\ Usable
  /\ recv_disable
  /\ fd_read' = (sock = "open")
  /\ misused' = Touched
  /\ recv_disable' = FALSE
  /\ next_events' = IF num_read # 0 /\ packet_size >= num_read
                    THEN next_events + 1 ELSE next_events
  /\ UNCHANGED <<inVars, recvVars, processing, destructor_called, sock, sendVars,
                 initial_read, nested_error>>

\* talloc_free of the context: refused by packet_destructor inside a callback.
MutFreeNow == sock' = "freed" /\ UNCHANGED destructor_called
FreeContext ==
  IF Busy THEN destructor_called' = TRUE /\ UNCHANGED sock
          ELSE sock' = "freed" /\ UNCHANGED destructor_called

Free ==
  /\ sock = "open"
  /\ ~destructor_called
  /\ FreeContext
  /\ fd_read' = FALSE
  /\ fd_write' = FALSE
  /\ UNCHANGED <<inVars, recvVars, recv_disable, processing, next_events,
                 send_queue, queued, wire, initial_read, fdeVars>>

\* The peer's bytes arrive in pieces of any size (external).
Arrive ==
  /\ coming > 0
  /\ \E n \in 1 .. coming : coming' = coming - n /\ avail' = avail + n
  /\ UNCHANGED <<recvVars, ctlVars, sock, sendVars, initial_read, fdeVars>>
-----------------------------------------------------------------------------
\* packet_send_callback: to the end of the queue, and watch for writing.
QueueEnd(q, el) == Append(q, el)

MutWatch == fd_write
Watch == TRUE

Send ==
  /\ sock = "open"
  /\ ~destructor_called
  /\ queued < Len(OutLens)
  /\ queued' = queued + 1
  /\ send_queue' = QueueEnd(send_queue, [id |-> queued + 1, nsent |-> 0])
  /\ fd_write' = Watch
  /\ UNCHANGED <<inVars, recvVars, ctlVars, sock, wire, initial_read, fdeVars>>

(***************************************************************************)
(* packet_queue_run: socket_send takes some or all of the first packet;    *)
(* a packet that is all out is removed.  When the queue is empty the       *)
(* socket is not watched for writing any more.  One step is one turn of    *)
(* the while loop: the loop stops at any socket_send that would block and  *)
(* goes on at the next write event, and nothing tells the two apart.       *)
(***************************************************************************)
MutAfterWrite(q, n) == Tail(q)
AfterWrite(q, n) ==
  IF q[1].nsent + n = OutLens[q[1].id] THEN Tail(q)
  ELSE <<[q[1] EXCEPT !.nsent = @ + n]>> \o Tail(q)

QueueRun ==
  /\ sock = "open"
  /\ fd_write
  /\ send_queue # <<>>
  /\ LET el == send_queue[1] IN
     \E n \in 1 .. OutLens[el.id] - el.nsent :
       /\ wire' = Append(wire, <<el.id, el.nsent, n>>)
       /\ send_queue' = AfterWrite(send_queue, n)
       /\ fd_write' = (send_queue' # <<>>)
  /\ UNCHANGED <<inVars, recvVars, ctlVars, sock, queued, initial_read, fdeVars>>

\* socket_send fails in packet_queue_run: packet_error.
WriteError ==
  /\ sock = "open"
  /\ fd_write
  /\ send_queue # <<>>
  /\ PacketError
  /\ UNCHANGED <<inVars, recvVars, recv_disable, processing, destructor_called,
                 next_events, send_queue, queued, wire, initial_read, misused>>

Next ==
  \/ Arrive
  \/ Readable
  \/ RecvError
  \/ NextEvent
  \/ CallbackReturn
  \/ CallbackFails
  \/ Disable
  \/ Enable
  \/ Free
  \/ Send
  \/ QueueRun
  \/ WriteError

(***************************************************************************)
(* The event loop goes on: a socket that is watched and readable is read,  *)
(* immediate events fire, and a callback returns.  Nothing is assumed of   *)
(* the peer, neither that it sends nor that it reads what is written, and  *)
(* nothing of the user's enabling of the receiver.                         *)
(***************************************************************************)
Fairness ==
  /\ WF_vars(Readable)
  /\ WF_vars(NextEvent)
  /\ WF_vars(CallbackReturn)

Spec == Init /\ [][Next]_vars
FairSpec == Spec /\ Fairness
-----------------------------------------------------------------------------
(***************************************************************************)
(* Correctness                                                             *)
(***************************************************************************)

\* The callback gets the packets the peer sent, each one whole and alone, in
\* order and once, however the stream is cut into reads.
Framing ==
  \A k \in DOMAIN given : k \in DOMAIN InLens /\ given[k] = <<Start[k], InLens[k]>>

\* The context stays alive as long as a callback of it runs (packet_destructor).
AliveInCallback == Busy => sock # "freed"

\* Once the error handler has freed the fd event, nothing sets its flags, unless
\* the error struck in the event loop that a callback runs or before the
\* immediate event of a buffered packet.
FdEventAlive == misused => nested_error

\* More than the next packet is buffered.
Surplus == packet_size # 0 /\ num_read > packet_size

\* A user without an initial read does not disable receiving on a surplus, which
\* the reversed test of packet_recv_enable would leave in the buffer: the LDAP
\* server disables before it has read anything, the WINS client for good.
NoneStopsOnSurplus == initial_read = 0 /\ recv_disable => ~Surplus

\* A packet that has arrived is given to the callback, unless receiving is
\* disabled or the connection ends; after an enable it is given all the same.
\* A DCE/RPC socket may disable receiving at any time.
Delivered ==
  []NoneStopsOnSurplus =>
    \A k \in DOMAIN InLens :
      Total - coming >= Start[k + 1]
        ~> (Len(given) >= k \/ recv_disable \/ sock # "open" \/ destructor_called)

\* What goes out is the queued packets one after the other, each from its first
\* to its last byte, whatever part of a packet the socket takes at a time.
WireOrder ==
  \A i \in DOMAIN wire :
    LET prev == IF i = 1 THEN <<0, 0, 0>> ELSE wire[i - 1] IN
    \/ wire[i][1] = prev[1] /\ wire[i][2] = prev[2] + prev[3]
    \/ /\ wire[i][1] = prev[1] + 1 /\ wire[i][2] = 0
       /\ prev[1] # 0 => prev[2] + prev[3] = OutLens[prev[1]]

\* The peer goes on reading, so that a socket that is watched for writing becomes
\* writable.
PeerReads == WF_vars(QueueRun)

\* A packet that was queued is written out, unless the connection ends, if the
\* peer goes on reading.
AllWritten ==
  PeerReads =>
    \A k \in DOMAIN OutLens :
      queued >= k ~> (\/ \E i \in DOMAIN wire :
                           wire[i][1] = k /\ wire[i][2] + wire[i][3] = OutLens[k]
                      \/ sock # "open" \/ destructor_called)
=============================================================================
