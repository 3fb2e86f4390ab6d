----------------------------- MODULE EventLoop ------------------------------
(***************************************************************************)
(* lib/events/events_standard.c: the event loop that runs every handler of *)
(* the client, with its epoll back end.                                    *)
(*                                                                         *)
(* A handler is not atomic: it may add, change and free events, and it may *)
(* call event_loop_once itself, as dcerpc_request_recv and composite_wait  *)
(* do to wait for an answer.  The calls of event_loop_once that are on the *)
(* stack, the innermost first, are the state of the loop.  An event        *)
(* structure is allocated once; the elements of Fds and Timers number the  *)
(* allocations.  The select back end takes the same steps over the list of   *)
(* fd events and is not modelled, nor is the fall back to it.              *)
(***************************************************************************)
EXTENDS Integers, Sequences, FiniteSets, SequencesExt

CONSTANTS
  NFds,       \* bound: fd_event allocations, each for a descriptor of its own
  NTimers,    \* bound: timed_event allocations
  MaxEvents,  \* MAXEVENTS: events that one epoll_wait returns
  Wanted,     \* the flags that the users of the events set
  Conds,      \* what happens to a descriptor: R, W (data, room), E (an error)
  MaxOps,     \* bound: events that are added, changed or freed
  MaxTime,    \* bound: how far the clock runs
  MaxDepth    \* bound: calls of event_loop_once on the stack

ASSUME EventsAssumption ==
  /\ NFds \in Nat /\ NTimers \in Nat
  /\ Wanted \subseteq SUBSET {"R", "W"} /\ Conds \subseteq {"R", "W", "E"}
  /\ MaxOps \in Nat /\ MaxEvents \in Nat \ {0}
  /\ MaxTime \in Nat /\ MaxDepth \in Nat \ {0}

Fds == 1 .. NFds
Timers == NFds + 1 .. NFds + NTimers
None == 0

VARIABLES
  fde,                \* fde[f]: the fields of the fd_event f, see FdeType
  ready,              \* ready[f]: what the kernel has to report of f
  timed_events,       \* std_ev->timed_events, first element first
  tstate,             \* life of each timed_event
  fired,              \* how often the handler of each timed_event was called
  now,                \* timeval_current
  destruction_count,  \* std_ev->destruction_count
  ops,                \* operations made so far
  stack               \* the active calls of event_loop_once, innermost first

vars == <<fde, ready, timed_events, tstate, fired, now, destruction_count, ops,
          stack>>
timeVars == <<timed_events, tstate, fired, now>>

Flags == SUBSET {"R", "W"}
Reports == SUBSET {"R", "W", "E"}   \* EPOLLIN, EPOLLOUT, EPOLLERR or EPOLLHUP

\* has_event, report_error and got_error are the bits of additional_flags.
FdeType == [state : {"none", "live", "freed"}, flags : Flags, has_event : BOOLEAN,
            report_error : BOOLEAN, got_error : BOOLEAN]

NoFde == [state |-> "none", flags |-> {}, has_event |-> FALSE,
          report_error |-> FALSE, got_error |-> FALSE]

(***************************************************************************)
(* One call of event_loop_once: the events still to be looked at, the      *)
(* destruction_count it started with, and the event whose handler runs.    *)
(***************************************************************************)
FrameType == [batch : Seq([f : Fds, ev : Reports]), count : Nat,
              run : Fds \cup Timers \cup {None}]

TypeOK ==
  /\ fde \in [Fds -> FdeType]
  /\ ready \in [Fds -> Reports]
  /\ timed_events \in Seq([id : Timers, at : Nat])
  /\ tstate \in [Timers -> {"none", "listed", "running", "freed"}]
  /\ fired \in [Timers -> Nat]
  /\ now \in Nat
  /\ destruction_count \in Nat
  /\ ops \in 0 .. MaxOps
  /\ stack \in Seq(FrameType)

\* std_event_context_init.
Init ==
  /\ fde = [f \in Fds |-> NoFde]
  /\ ready = [f \in Fds |-> {}]
  /\ timed_events = <<>>
  /\ tstate = [t \in Timers |-> "none"]
  /\ fired = [t \in Timers |-> 0]
  /\ now = 0
  /\ destruction_count = 0
  /\ ops = 0
  /\ stack = <<>>

\* Code that may call the events functions: the main program, or a handler.
InCode == stack # <<>> => Head(stack).run # None

Operation == InCode /\ ops < MaxOps /\ ops' = ops + 1
-----------------------------------------------------------------------------
(***************************************************************************)
(* epoll_add_event, epoll_mod_event, epoll_del_event on the fields e.      *)
(***************************************************************************)
EpollAdd(e) ==
  IF e.flags = {} THEN [e EXCEPT !.report_error = FALSE]
  ELSE [e EXCEPT !.has_event = TRUE, !.report_error = "R" \in e.flags]

EpollMod(e) == [e EXCEPT !.report_error = "R" \in e.flags]

EpollDel(e) == [e EXCEPT !.has_event = FALSE, !.report_error = FALSE]

\* epoll_change_event.
MutEpollChange(e) ==
  IF "R" \in e.flags \/ ("W" \in e.flags /\ ~e.got_error) THEN EpollMod(e)
  ELSE EpollDel(e)

EpollChange(e) ==
  IF "R" \in e.flags \/ ("W" \in e.flags /\ ~e.got_error)
  THEN IF e.has_event THEN EpollMod(e) ELSE EpollAdd(e)
  ELSE EpollDel(e)

\* std_event_add_fd.
AddFd(f, flags) ==
  /\ Operation
  /\ fde[f].state = "none" /\ \A g \in 1 .. f - 1 : fde[g].state # "none"
  /\ fde' = [fde EXCEPT ![f] = EpollAdd([@ EXCEPT !.state = "live", !.flags = flags])]
  /\ UNCHANGED <<ready, timeVars, destruction_count, stack>>

\* std_event_set_fd_flags.
SetFdFlags(f, flags) ==
  /\ Operation
  /\ fde[f].state = "live"
  /\ fde[f].flags # flags
  /\ fde' = [fde EXCEPT ![f] = EpollChange([@ EXCEPT !.flags = flags])]
  /\ UNCHANGED <<ready, timeVars, destruction_count, stack>>

\* talloc_free of an fd event: std_event_fd_destructor.
MutCounted(n) == n
Counted(n) == n + 1

FreeFd(f) ==
  /\ Operation
  /\ fde[f].state = "live"
  /\ fde' = [fde EXCEPT ![f] = [EpollDel(NoFde) EXCEPT !.state = "freed"]]
  /\ ready' = [ready EXCEPT ![f] = {}]
  /\ destruction_count' = Counted(destruction_count)
  /\ UNCHANGED <<timeVars, stack>>
-----------------------------------------------------------------------------
(***************************************************************************)
(* std_event_add_timed keeps the list ordered: before the first event that *)
(* is not immediate and comes later than the new one.                      *)
(***************************************************************************)
MutPlace(te) ==
  {n \in DOMAIN timed_events : te.at <= timed_events[n].at}
Place(te) ==
  {n \in DOMAIN timed_events : timed_events[n].at # 0 /\ te.at < timed_events[n].at}

Insert(te) ==
  IF Place(te) = {} THEN Append(timed_events, te)
  ELSE InsertAt(timed_events, CHOOSE i \in Place(te) : \A j \in Place(te) : i <= j, te)

AddTimed(t, at) ==
  /\ Operation
  /\ tstate[t] = "none" /\ \A u \in NFds + 1 .. t - 1 : tstate[u] # "none"
  /\ at <= MaxTime
  /\ timed_events' = Insert([id |-> t, at |-> at])
  /\ tstate' = [tstate EXCEPT ![t] = "listed"]
  /\ UNCHANGED <<fde, ready, fired, now, destruction_count, stack>>

\* talloc_free of a timed event: std_event_timed_destructor; the handler of
\* the event itself is denied it.
FreeTimed(t) ==
  /\ Operation
  /\ tstate[t] = "listed"
  /\ \E n \in DOMAIN timed_events :
       timed_events[n].id = t /\ timed_events' = RemoveAt(timed_events, n)
  /\ tstate' = [tstate EXCEPT ![t] = "freed"]
  /\ UNCHANGED <<fde, ready, fired, now, destruction_count, stack>>
-----------------------------------------------------------------------------
\* What epoll_wait has to report: the wanted events, and errors in any case.
Reported(f) == IF fde[f].has_event THEN ready[f] \cap (fde[f].flags \cup {"E"}) ELSE {}
Polled == {f \in Fds : Reported(f) # {}}

\* The orders in which epoll_wait can report the events, at most MaxEvents.
Least(a, b) == IF a < b THEN a ELSE b
Orders ==
  {s \in [1 .. Least(MaxEvents, Cardinality(Polled)) -> Polled] :
     \A i, j \in DOMAIN s : s[i] = s[j] => i = j}

\* The list while the handler of its head runs (std_event_loop_timer).
MutUnlinked(s) == s
Unlinked(s) == Tail(s)

\* std_event_loop_timer: the head leaves the list before its handler is called.
LoopTimer ==
  LET t == Head(timed_events).id IN
  /\ timed_events' = Unlinked(timed_events)
  /\ tstate' = [tstate EXCEPT ![t] = "running"]
  /\ fired' = [fired EXCEPT ![t] = @ + 1]
  /\ stack' = <<[batch |-> <<>>, count |-> destruction_count, run |-> t]>> \o stack

HeadDue == timed_events # <<>> /\ Head(timed_events).at <= now

(***************************************************************************)
(* std_event_loop_once.  A timer that is due is all that this call does.   *)
(* Otherwise epoll_wait returns the fds that are ready, or sleeps until    *)
(* the first timer is due.                                                 *)
(***************************************************************************)
LoopOnce ==
  /\ \/ /\ HeadDue
        /\ LoopTimer
        /\ UNCHANGED now
     \/ /\ ~HeadDue
        /\ Polled # {}
        /\ \E s \in Orders :
             stack' = <<[batch |-> [i \in DOMAIN s |-> [f |-> s[i], ev |-> Reported(s[i])]],
                         count |-> destruction_count, run |-> None]>> \o stack
        /\ UNCHANGED <<timed_events, tstate, fired, now>>
     \/ /\ ~HeadDue
        /\ Polled = {}
        /\ timed_events # <<>>
        /\ now' = Head(timed_events).at
        /\ LoopTimer
  /\ UNCHANGED <<fde, ready, destruction_count, ops>>

MainLoop == stack = <<>> /\ LoopOnce
NestedLoop == stack # <<>> /\ InCode /\ Len(stack) < MaxDepth /\ LoopOnce

(***************************************************************************)
(* The next event of the batch.  An error on an fd that is only watched    *)
(* for writing is not reported, and the fd is not polled any more.         *)
(***************************************************************************)
Dispatch ==
  /\ stack # <<>>
  /\ Head(stack).run = None
  /\ Head(stack).batch # <<>>
  /\ LET b == Head(Head(stack).batch)
         e == fde[b.f]
         silent == "E" \in b.ev /\ ~e.report_error
         marked == [e EXCEPT !.got_error = @ \/ "E" \in b.ev]
     IN  /\ fde' = [fde EXCEPT ![b.f] = IF silent THEN EpollDel(marked) ELSE marked]
         /\ stack' = <<[Head(stack) EXCEPT !.batch = Tail(@),
                                           !.run = IF silent THEN None ELSE b.f]>>
                       \o Tail(stack)
  /\ UNCHANGED <<ready, timeVars, destruction_count, ops>>

\* The handler of an fd event returns; the rest of the batch is dropped if an
\* fd event was freed meanwhile, in this handler or in a loop nested in it.
FdHandlerReturn ==
  /\ stack # <<>>
  /\ Head(stack).run \in Fds
  /\ stack' = <<[Head(stack) EXCEPT
                   !.run = None,
                   !.batch = IF Head(stack).count # destruction_count THEN <<>> ELSE @]>>
                \o Tail(stack)
  /\ UNCHANGED <<fde, ready, timeVars, destruction_count, ops>>

\* The handler of a timed event returns: the event is freed.
TimerHandlerReturn ==
  /\ stack # <<>>
  /\ Head(stack).run \in Timers
  /\ tstate' = [tstate EXCEPT ![Head(stack).run] = "freed"]
  /\ stack' = Tail(stack)
  /\ UNCHANGED <<fde, ready, timed_events, fired, now, destruction_count, ops>>

\* epoll_event_loop returns.
LoopReturn ==
  /\ stack # <<>>
  /\ Head(stack).run = None
  /\ Head(stack).batch = <<>>
  /\ stack' = Tail(stack)
  /\ UNCHANGED <<fde, ready, timeVars, destruction_count, ops>>
-----------------------------------------------------------------------------
\* The kernel: data, room or an error at any time (external).
Arrive(f, x) ==
  /\ x \notin ready[f]
  /\ fde[f].state = "live"
  /\ ready' = [ready EXCEPT ![f] = @ \cup {x}]
  /\ UNCHANGED <<fde, timeVars, destruction_count, ops, stack>>

\* A handler, of this event or of another one, reads or writes all there is.
Drain(f, x) ==
  /\ stack # <<>> /\ InCode
  /\ fde[f].state = "live"
  /\ x \in ready[f]
  /\ ready' = [ready EXCEPT ![f] = @ \ {x}]
  /\ UNCHANGED <<fde, timeVars, destruction_count, ops, stack>>

Tick ==
  /\ now < MaxTime
  /\ now' = now + 1
  /\ UNCHANGED <<fde, ready, timed_events, tstate, fired, destruction_count, ops, stack>>

Next ==
  \/ \E f \in Fds, flags \in Wanted : AddFd(f, flags)
  \/ \E f \in Fds, flags \in Wanted : SetFdFlags(f, flags)
  \/ \E f \in Fds : FreeFd(f)
  \/ \E t \in Timers, at \in {0, now + 1} : AddTimed(t, at)
  \/ \E t \in Timers : FreeTimed(t)
  \/ MainLoop
  \/ NestedLoop
  \/ Dispatch
  \/ FdHandlerReturn
  \/ TimerHandlerReturn
  \/ LoopReturn
  \/ \E f \in Fds, x \in Conds : Arrive(f, x)
  \/ \E f \in Fds, x \in Conds \ {"E"} : Drain(f, x)
  \/ Tick

(***************************************************************************)
(* The program calls event_loop_once for ever (event_loop_wait), the loop  *)
(* goes on to the end of its batch, and a handler returns unless it waits  *)
(* in a loop of its own.                                                   *)
(***************************************************************************)
Fairness ==
  /\ WF_vars(MainLoop)
  /\ WF_vars(Dispatch)
  /\ WF_vars(FdHandlerReturn)
  /\ WF_vars(TimerHandlerReturn)
  /\ WF_vars(LoopReturn)

Spec == Init /\ [][Next]_vars
FairSpec == Spec /\ Fairness
-----------------------------------------------------------------------------
(***************************************************************************)
(* Correctness                                                             *)
(***************************************************************************)

\* The batch of an epoll_wait never leads to an fd event that was freed since,
\* by an earlier handler of the batch or in a loop nested in it: the next
\* entry that is looked at is alive (the purpose of destruction_count).
BatchAlive ==
  \A n \in DOMAIN stack :
    stack[n].run = None /\ stack[n].batch # <<>> => fde[stack[n].batch[1].f].state = "live"

\* A timed event is called once, also when its handler runs the loop again,
\* and never after it was freed.
TimerOnce ==
  /\ \A t \in Timers : fired[t] <= 1
  /\ \A n \in DOMAIN timed_events : tstate[timed_events[n].id] = "listed"

Listed == {timed_events[n] : n \in DOMAIN timed_events}

\* Timed events are called when they are due, the earliest first, and those of
\* the same time in the order in which they were added: immediate events, which
\* carry the continuations of composite calls, do not overtake each other.
TimerOrder ==
  [][\A t \in Timers :
       fired'[t] # fired[t] =>
         \E te \in Listed :
           /\ te.id = t
           /\ te.at <= now'
           /\ \A u \in Listed : te.at < u.at \/ (te.at = u.at /\ te.id <= u.id)]_vars

\* An fd that stays watched for reading and readable (or broken) gets its
\* handler called again and again, whatever batches are cut short, handlers
\* nest and flags change in between.
FdServed ==
  \A f \in Fds :
    []<>(\/ fde[f].state # "live" \/ "R" \notin fde[f].flags
         \/ ready[f] \cap {"R", "E"} = {}
         \/ \E n \in DOMAIN stack : stack[n].run = f)
=============================================================================
