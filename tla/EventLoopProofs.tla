-------------------------- MODULE EventLoopProofs ---------------------------
(***************************************************************************)
(* Safety of the event loop for any number of events, any nesting of loops *)
(* and any batch size.                                                     *)
(***************************************************************************)
EXTENDS EventLoop, SequenceTheorems, FiniteSetTheorems, WellFoundedInduction,
        TLAPS

(***************************************************************************)
(* The inductive invariant.                                                *)
(*                                                                         *)
(* The batches: only the innermost call of event_loop_once can be between  *)
(* two handlers.  A call whose count is still destruction_count has only   *)
(* live fd events in its batch, and a call between two handlers has such a *)
(* count or has dropped its batch.                                         *)
(***************************************************************************)
BatchInv ==
  /\ \A f \in Fds : fde[f].has_event => fde[f].state = "live"
  /\ \A n \in DOMAIN stack :
       /\ n # 1 => stack[n].run # None
       /\ stack[n].count <= destruction_count
       /\ stack[n].count = destruction_count =>
            \A i \in DOMAIN stack[n].batch : fde[stack[n].batch[i].f].state = "live"
       /\ stack[n].run = None =>
            stack[n].batch = <<>> \/ stack[n].count = destruction_count

(***************************************************************************)
(* The timers: the list holds each of them at most once, and only timers   *)
(* that were never called; a timer whose handler is on the stack is there  *)
(* once.                                                                   *)
(***************************************************************************)
TimerInv ==
  /\ \A n \in DOMAIN timed_events :
       /\ tstate[timed_events[n].id] = "listed"
       /\ \A m \in DOMAIN timed_events : timed_events[m].id = timed_events[n].id => m = n
  /\ \A t \in Timers : fired[t] <= 1
  /\ \A t \in Timers : tstate[t] \in {"none", "listed"} => fired[t] = 0
  /\ \A n \in DOMAIN stack : stack[n].run \in Timers =>
       /\ tstate[stack[n].run] = "running"
       /\ \A m \in DOMAIN stack : stack[m].run = stack[n].run => m = n

(***************************************************************************)
(* The order: the list is sorted by time, and timers of the same time are  *)
(* in the order in which they were allocated.                              *)
(***************************************************************************)
Before(a, b) == a.at < b.at \/ (a.at = b.at /\ a.id < b.id)
Sorted(s) == \A m, n \in DOMAIN s : m < n => Before(s[m], s[n])

OrderInv ==
  /\ Sorted(timed_events)
  /\ \A t, u \in Timers : t < u /\ tstate[u] # "none" => tstate[t] # "none"

IndInv == TypeOK /\ BatchInv /\ TimerInv /\ OrderInv
-----------------------------------------------------------------------------
(***************************************************************************)
(* Sequences used as stacks, and the list of timed events.                 *)
(***************************************************************************)

\* A push: the new element is first, the others move up by one.
LEMMA PushLemma ==
  ASSUME NEW S, NEW s \in Seq(S), NEW x \in S
  PROVE  /\ <<x>> \o s \in Seq(S)
         /\ Len(<<x>> \o s) = Len(s) + 1
         /\ (<<x>> \o s)[1] = x
         /\ \A n \in DOMAIN (<<x>> \o s) : n # 1 =>
              n - 1 \in DOMAIN s /\ (<<x>> \o s)[n] = s[n - 1]
  OBVIOUS

\* A pop: the others move down by one.
LEMMA PopLemma ==
  ASSUME NEW S, NEW s \in Seq(S), s # <<>>
  PROVE  /\ Head(s) \in S /\ Head(s) = s[1] /\ 1 \in DOMAIN s
         /\ Tail(s) \in Seq(S)
         /\ Len(Tail(s)) = Len(s) - 1
         /\ \A n \in DOMAIN Tail(s) : n + 1 \in DOMAIN s /\ Tail(s)[n] = s[n + 1]
  OBVIOUS

\* A change of the top element.
LEMMA TopLemma ==
  ASSUME NEW S, NEW s \in Seq(S), s # <<>>, NEW x \in S
  PROVE  /\ <<x>> \o Tail(s) \in Seq(S)
         /\ DOMAIN (<<x>> \o Tail(s)) = DOMAIN s
         /\ (<<x>> \o Tail(s))[1] = x
         /\ \A n \in DOMAIN s : n # 1 => (<<x>> \o Tail(s))[n] = s[n]
  OBVIOUS

\* A set of naturals that is not empty has a least element.
LEMMA SmallestOfSet ==
  ASSUME NEW P \in SUBSET Nat, P # {}
  PROVE  \E i \in P : \A j \in P : i <= j
<1> DEFINE R == OpToRel(<, Nat)
<1>1. IsWellFoundedOn(R, Nat)
  BY NatLessThanWellFounded
<1>2. R = {ss \in Nat \X Nat : ss[1] < ss[2]}
  BY DEF OpToRel
<1> HIDE DEF R
<1>3. \E i \in P : \A j \in P : ~(<<j, i>> \in R)
  BY <1>1, WFMin
<1>4. PICK i \in P : \A j \in P : ~(<<j, i>> \in R)
  BY <1>3
<1>5. \A j \in P : ~(j < i)
  BY <1>2, <1>4
<1> QED BY <1>5

\* What a part of a sequence holds.
LEMMA PartLemma ==
  ASSUME NEW S, NEW s \in Seq(S), NEW m \in Nat \ {0}, NEW n \in Nat,
         n <= Len(s), m <= n + 1
  PROVE  /\ SubSeq(s, m, n) \in Seq(S)
         /\ Len(SubSeq(s, m, n)) = n - m + 1
         /\ \A i \in 1 .. n - m + 1 : SubSeq(s, m, n)[i] = s[m + i - 1]
<1>1. \A i \in m .. n : s[i] \in S
  BY ElementOfSeq, LenProperties
<1>2. m \in Int /\ n \in Int
  OBVIOUS
<1>3. /\ SubSeq(s, m, n) \in Seq(S)
      /\ Len(SubSeq(s, m, n)) = IF m <= n THEN n - m + 1 ELSE 0
      /\ \A i \in 1 .. n - m + 1 : SubSeq(s, m, n)[i] = s[m + i - 1]
  BY <1>1, <1>2, SubSeqProperties
<1> QED BY <1>3

\* An element leaves the list: what is left are other elements, in order.
LEMMA RemoveLemma ==
  ASSUME NEW S, NEW s \in Seq(S), NEW n \in DOMAIN s
  PROVE  /\ RemoveAt(s, n) \in Seq(S)
         /\ Len(RemoveAt(s, n)) = Len(s) - 1
         /\ \A i \in DOMAIN RemoveAt(s, n) :
              RemoveAt(s, n)[i] = IF i < n THEN s[i] ELSE s[i + 1]
<1> DEFINE l == SubSeq(s, 1, n - 1)
           r == SubSeq(s, n + 1, Len(s))
<1>1. Len(s) \in Nat /\ n \in 1 .. Len(s)
  BY LenProperties
<1>2. /\ l \in Seq(S) /\ Len(l) = n - 1
      /\ \A i \in 1 .. n - 1 : l[i] = s[i]
  BY <1>1, PartLemma
<1>3. /\ r \in Seq(S) /\ Len(r) = Len(s) - n
      /\ \A i \in 1 .. Len(s) - n : r[i] = s[n + i]
  BY <1>1, PartLemma
<1>4. RemoveAt(s, n) = l \o r
  BY DEF RemoveAt
<1> HIDE DEF l, r
<1> DEFINE q == l \o r
<1>5. /\ q \in Seq(S) /\ Len(q) = Len(l) + Len(r)
      /\ \A i \in 1 .. Len(l) + Len(r) :
           q[i] = IF i <= Len(l) THEN l[i] ELSE r[i - Len(l)]
  BY <1>2, <1>3, ConcatProperties
<1> HIDE DEF q
<1>6. DOMAIN q = 1 .. Len(s) - 1
  BY <1>1, <1>2, <1>3, <1>5, LenProperties
<1>7. ASSUME NEW i \in 1 .. Len(s) - 1
      PROVE  q[i] = IF i < n THEN s[i] ELSE s[i + 1]
  <2>0. i \in 1 .. Len(l) + Len(r)
    BY <1>1, <1>2, <1>3
  <2>1. q[i] = IF i <= n - 1 THEN l[i] ELSE r[i - (n - 1)]
    <3>1. q[i] = IF i <= Len(l) THEN l[i] ELSE r[i - Len(l)]
      BY <1>5, <2>0
    <3> QED BY <3>1, <1>2
  <2>2. CASE i < n
    BY <2>1, <2>2, <1>1, <1>2
  <2>3. CASE i >= n
    <3>1. i - (n - 1) \in 1 .. Len(s) - n /\ n + (i - (n - 1)) = i + 1
      BY <2>3, <1>1
    <3>2. r[i - (n - 1)] = s[n + (i - (n - 1))]
      BY <3>1, <1>3, Zenon
    <3> QED BY <2>1, <2>3, <1>1, <3>1, <3>2
  <2> QED BY <2>2, <2>3, <1>1
<1>8. q \in Seq(S) /\ Len(q) = Len(s) - 1
  BY <1>1, <1>2, <1>3, <1>5
<1> QED BY <1>4, <1>6, <1>7, <1>8 DEF q

\* An element joins the list at position n.
LEMMA InsertAtLemma ==
  ASSUME NEW S, NEW s \in Seq(S), NEW n \in 1 .. Len(s), NEW x \in S
  PROVE  /\ InsertAt(s, n, x) \in Seq(S)
         /\ Len(InsertAt(s, n, x)) = Len(s) + 1
         /\ \A i \in 1 .. Len(s) + 1 :
              InsertAt(s, n, x)[i] =
                IF i < n THEN s[i] ELSE IF i = n THEN x ELSE s[i - 1]
<1> DEFINE l == SubSeq(s, 1, n - 1)
           h == l \o <<x>>
           r == SubSeq(s, n, Len(s))
           q == h \o r
<1>1. Len(s) \in Nat /\ n \in 1 .. Len(s)
  BY LenProperties
<1>2. /\ l \in Seq(S) /\ Len(l) = n - 1
      /\ \A i \in 1 .. n - 1 : l[i] = s[i]
  BY <1>1, PartLemma
<1>3. /\ r \in Seq(S) /\ Len(r) = Len(s) - n + 1
      /\ \A i \in 1 .. Len(s) - n + 1 : r[i] = s[n + i - 1]
  BY <1>1, PartLemma
<1> HIDE DEF l, r
<1>4. /\ h \in Seq(S) /\ Len(h) = n
      /\ \A i \in 1 .. n : h[i] = IF i < n THEN s[i] ELSE x
  BY <1>1, <1>2
<1> HIDE DEF h
<1>5. /\ q \in Seq(S) /\ Len(q) = Len(h) + Len(r)
      /\ \A i \in 1 .. Len(h) + Len(r) :
           q[i] = IF i <= Len(h) THEN h[i] ELSE r[i - Len(h)]
  BY <1>3, <1>4, ConcatProperties
<1> HIDE DEF q
<1>6. ASSUME NEW i \in 1 .. Len(s) + 1
      PROVE  q[i] = IF i < n THEN s[i] ELSE IF i = n THEN x ELSE s[i - 1]
  <2>1. q[i] = IF i <= n THEN h[i] ELSE r[i - n]
    BY <1>1, <1>3, <1>4, <1>5
  <2>2. CASE i <= n
    BY <2>1, <2>2, <1>1, <1>4
  <2>3. CASE i > n
    <3>1. i - n \in 1 .. Len(s) - n + 1 /\ n + (i - n) - 1 = i - 1
      BY <2>3, <1>1
    <3>2. r[i - n] = s[n + (i - n) - 1]
      BY <3>1, <1>3, Zenon
    <3> QED BY <2>1, <2>3, <1>1, <3>1, <3>2
  <2> QED BY <2>2, <2>3, <1>1
<1>7. Len(q) = Len(s) + 1
  BY <1>1, <1>3, <1>4, <1>5
<1>8. InsertAt(s, n, x) = q
  BY DEF q, h, l, r, InsertAt
<1> QED BY <1>5, <1>6, <1>7, <1>8

\* Insert puts te before the first element that is not immediate and comes
\* later, or at the end.
LEMMA InsertLemma ==
  ASSUME NEW te \in [id : Timers, at : Nat],
         timed_events \in Seq([id : Timers, at : Nat])
  PROVE  \E p \in 1 .. Len(timed_events) + 1 :
           /\ Insert(te) \in Seq([id : Timers, at : Nat])
           /\ Len(Insert(te)) = Len(timed_events) + 1
           /\ \A i \in DOMAIN Insert(te) :
                Insert(te)[i] = IF i < p THEN timed_events[i]
                                ELSE IF i = p THEN te ELSE timed_events[i - 1]
           /\ \A i \in 1 .. p - 1 : timed_events[i].at <= te.at
           /\ p <= Len(timed_events) => te.at < timed_events[p].at
<1> DEFINE s == timed_events
           T == [id : Timers, at : Nat]
           P == Place(te)
<1>1. P \subseteq DOMAIN s /\ DOMAIN s = 1 .. Len(s) /\ Len(s) \in Nat
  BY LenProperties DEF Place
<1>2. \A i \in DOMAIN s : i \notin P => s[i].at <= te.at
  <2> SUFFICES ASSUME NEW i \in DOMAIN s, i \notin P
               PROVE  s[i].at <= te.at
    OBVIOUS
  <2>1. s[i] \in T
    BY <1>1, ElementOfSeq
  <2>2. s[i].at \in Nat /\ te.at \in Nat
    BY <2>1
  <2>3. ~(s[i].at # 0 /\ te.at < s[i].at)
    BY DEF Place
  <2> QED BY <2>2, <2>3
<1>3. CASE P = {}
  <2>1. Insert(te) = Append(s, te)
    BY <1>3 DEF Insert
  <2>2. \A i \in 1 .. Len(s) : s[i].at <= te.at
    BY <1>1, <1>2, <1>3
  <2>3. /\ Append(s, te) \in Seq(T) /\ Len(Append(s, te)) = Len(s) + 1
        /\ DOMAIN Append(s, te) = 1 .. Len(s) + 1
        /\ \A i \in 1 .. Len(s) : Append(s, te)[i] = s[i]
        /\ Append(s, te)[Len(s) + 1] = te
    BY <1>1, AppendProperties
  <2> HIDE DEF P
  <2>4. Len(s) + 1 \in 1 .. Len(timed_events) + 1
    BY <1>1
  <2> WITNESS Len(s) + 1 \in 1 .. Len(timed_events) + 1
  <2> QED BY <1>1, <2>1, <2>2, <2>3
<1>4. CASE P # {}
  <2> DEFINE n == CHOOSE i \in P : \A j \in P : i <= j
  <2>1. \E i \in P : \A j \in P : i <= j
    <3>1. P \in SUBSET Nat
      BY <1>1
    <3> HIDE DEF P
    <3> QED BY <3>1, <1>4, SmallestOfSet
  <2>2. n \in P /\ \A j \in P : n <= j
    BY <2>1
  <2>3. n \in 1 .. Len(s) /\ te.at < s[n].at
    BY <2>2, <1>1 DEF Place
  <2>4. Insert(te) = InsertAt(s, n, te)
    BY <1>4 DEF Insert
  <2> HIDE DEF P, n
  <2>5. \A i \in 1 .. n - 1 : s[i].at <= te.at
    <3> TAKE i \in 1 .. n - 1
    <3>1. i \in 1 .. Len(s) /\ ~(n <= i)
      BY <1>1, <2>3
    <3>2. i \in DOMAIN s /\ i \notin P
      BY <1>1, <2>2, <3>1
    <3> QED BY <1>2, <3>2
  <2> DEFINE q == InsertAt(s, n, te)
  <2>9. /\ q \in Seq(T) /\ Len(q) = Len(s) + 1
        /\ \A i \in 1 .. Len(s) + 1 :
             q[i] = IF i < n THEN s[i] ELSE IF i = n THEN te ELSE s[i - 1]
    <3>1. s \in Seq(T) /\ te \in T /\ n \in 1 .. Len(s)
      BY <2>3
    <3> HIDE DEF T
    <3>2. q \in Seq(T)
      BY <3>1, InsertAtLemma
    <3>3. Len(q) = Len(s) + 1
      BY <3>1, InsertAtLemma
    <3>4. \A i \in 1 .. Len(s) + 1 :
             q[i] = IF i < n THEN s[i] ELSE IF i = n THEN te ELSE s[i - 1]
      BY <3>1, InsertAtLemma
    <3> QED BY <3>2, <3>3, <3>4
  <2>10. Insert(te) = q
    BY <2>4
  <2> HIDE DEF q
  <2>11. n \in 1 .. Len(timed_events) + 1
    BY <1>1, <2>3
  <2>12. DOMAIN q = 1 .. Len(s) + 1
    BY <2>9, LenProperties
  <2> WITNESS n \in 1 .. Len(timed_events) + 1
  <2> QED BY <2>3, <2>5, <2>9, <2>10, <2>12
<1> QED BY <1>3, <1>4
-----------------------------------------------------------------------------
(***************************************************************************)
(* The fields of an fd event.                                              *)
(***************************************************************************)

\* The flags of an fd event change: what stays well formed.
LEMMA FdeFields ==
  ASSUME NEW e \in FdeType, NEW st \in {"none", "live", "freed"}, NEW flags \in Flags,
         NEW has \in BOOLEAN, NEW report \in BOOLEAN, NEW got \in BOOLEAN
  PROVE  /\ [e EXCEPT !.state = st, !.flags = flags] \in FdeType
         /\ [e EXCEPT !.flags = flags] \in FdeType
         /\ [e EXCEPT !.report_error = report] \in FdeType
         /\ [e EXCEPT !.has_event = has, !.report_error = report] \in FdeType
         /\ [e EXCEPT !.got_error = got] \in FdeType
         /\ [e EXCEPT !.state = st] \in FdeType
  BY Zenon DEF FdeType

\* The epoll functions leave the life of the fd event alone.
LEMMA EpollAddLemma ==
  ASSUME NEW e \in FdeType
  PROVE  EpollAdd(e) \in FdeType /\ EpollAdd(e).state = e.state
<1> DEFINE r == "R" \in e.flags
<1>1. r \in BOOLEAN /\ TRUE \in BOOLEAN /\ FALSE \in BOOLEAN
  OBVIOUS
<1>2. EpollAdd(e) = IF e.flags = {} THEN [e EXCEPT !.report_error = FALSE]
                    ELSE [e EXCEPT !.has_event = TRUE, !.report_error = r]
  BY DEF EpollAdd
<1> HIDE DEF r
<1>3. EpollAdd(e).state = e.state
  BY <1>2 DEF FdeType
<1>4. e.flags \in Flags
  BY DEF FdeType
<1>5. EpollAdd(e) \in FdeType
  BY <1>1, <1>2, <1>4, FdeFields, Zenon
<1> QED BY <1>3, <1>5

\* epoll_mod_event leaves the fd event allocated as it was.
LEMMA EpollModLemma ==
  ASSUME NEW e \in FdeType
  PROVE  EpollMod(e) \in FdeType /\ EpollMod(e).state = e.state
<1> DEFINE r == "R" \in e.flags
<1>1. r \in BOOLEAN
  OBVIOUS
<1>2. EpollMod(e) = [e EXCEPT !.report_error = r]
  BY DEF EpollMod
<1> HIDE DEF r
<1>3. EpollMod(e).state = e.state
  BY <1>2 DEF FdeType
<1>4. [e EXCEPT !.report_error = r] \in FdeType
  BY <1>1, Zenon DEF FdeType
<1> QED BY <1>2, <1>3, <1>4

\* So does epoll_del_event, and no epoll entry is left.
LEMMA EpollDelLemma ==
  ASSUME NEW e \in FdeType
  PROVE  EpollDel(e) \in FdeType /\ EpollDel(e).state = e.state /\ ~EpollDel(e).has_event
  BY DEF EpollDel, FdeType

\* So does epoll_change_event, which calls one of them or none.
LEMMA EpollChangeLemma ==
  ASSUME NEW e \in FdeType
  PROVE  EpollChange(e) \in FdeType /\ EpollChange(e).state = e.state
  BY EpollAddLemma, EpollModLemma, EpollDelLemma DEF EpollChange

\* A fd event that is freed has no epoll entry.
LEMMA NoFdeLemma == NoFde \in FdeType /\ ~NoFde.has_event
  BY DEF NoFde, FdeType, Flags

\* Fd events and timed events have different numbers, and neither is None.
LEMMA NumbersLemma ==
  /\ Fds \in SUBSET (Nat \ {0}) /\ Timers \in SUBSET (Nat \ {0})
  /\ Fds \cap Timers = {} /\ None \notin Fds /\ None \notin Timers
  BY EventsAssumption DEF Fds, Timers, None

\* What a call on the stack holds.
LEMMA FrameLemma ==
  ASSUME TypeOK, NEW n \in DOMAIN stack
  PROVE  /\ stack[n] \in FrameType
         /\ stack[n].count \in Nat /\ destruction_count \in Nat
         /\ stack[n].run \in Fds \cup Timers \cup {None}
         /\ stack[n].batch \in Seq([f : Fds, ev : Reports])
         /\ \A i \in DOMAIN stack[n].batch : stack[n].batch[i].f \in Fds
<1>1. stack \in Seq(FrameType) /\ destruction_count \in Nat
  BY DEF TypeOK
<1>2. stack[n] \in FrameType
  BY <1>1, ElementOfSeq, LenProperties
<1> DEFINE B == [f : Fds, ev : Reports]
<1>3. stack[n].batch \in Seq(B)
  BY <1>2 DEF FrameType
<1>4. \A i \in DOMAIN stack[n].batch : stack[n].batch[i] \in B
  <2> HIDE DEF B
  <2> QED BY <1>3, ElementOfSeq, LenProperties
<1>5. \A i \in DOMAIN stack[n].batch : stack[n].batch[i].f \in Fds
  BY <1>4
<1> QED BY <1>1, <1>2, <1>3, <1>5 DEF FrameType
-----------------------------------------------------------------------------
\* The loop starts in the invariant.
LEMMA InitInv == Init => IndInv
<1> SUFFICES ASSUME Init PROVE IndInv
  OBVIOUS
<1> USE DEF Init
<1>1. TypeOK
  BY NoFdeLemma, EventsAssumption DEF TypeOK, Reports
<1>2. BatchInv
  BY NoFdeLemma DEF BatchInv
<1>3. TimerInv
  BY DEF TimerInv
<1>4. OrderInv
  BY DEF OrderInv, Sorted
<1> QED BY <1>1, <1>2, <1>3, <1>4 DEF IndInv

\* An fd event that changes without leaving its state, or comes to life,
\* changes no batch.
LEMMA FdeStep ==
  ASSUME IndInv, NEW f \in Fds, NEW e \in FdeType,
         e.state = "live", fde' = [fde EXCEPT ![f] = e],
         UNCHANGED <<ready, timeVars, destruction_count, stack>>, ops' \in 0 .. MaxOps
  PROVE  IndInv'
<1>1. TypeOK'
  BY DEF IndInv, TypeOK, timeVars
<1>2. BatchInv'
  <2> USE DEF IndInv, TypeOK, timeVars
  <2>1. \A g \in Fds : fde'[g] = IF g = f THEN e ELSE fde[g]
    OBVIOUS
  <2>2. \A g \in Fds : fde'[g].has_event => fde'[g].state = "live"
    BY <2>1 DEF BatchInv
  <2>3. \A g : g \in Fds /\ fde[g].state = "live" => fde'[g].state = "live"
    BY <2>1
  <2>4. ASSUME NEW n \in DOMAIN stack, NEW i \in DOMAIN stack[n].batch
        PROVE  stack[n].batch[i].f \in Fds
    BY FrameLemma
  <2> QED BY <2>2, <2>3, <2>4 DEF BatchInv
<1>3. TimerInv' /\ OrderInv'
  BY DEF IndInv, TimerInv, OrderInv, timeVars
<1> QED BY <1>1, <1>2, <1>3 DEF IndInv

\* event_add_fd keeps the inductive invariant.
LEMMA AddFdInv ==
  ASSUME IndInv, NEW f \in Fds, NEW flags \in Wanted, AddFd(f, flags)
  PROVE  IndInv'
<1> DEFINE e == EpollAdd([fde[f] EXCEPT !.state = "live", !.flags = flags])
<1>a. fde[f] \in FdeType /\ flags \in Flags
  BY EventsAssumption DEF IndInv, TypeOK, Flags
<1>1. [fde[f] EXCEPT !.state = "live", !.flags = flags] \in FdeType
  BY <1>a, FdeFields
<1>2. e \in FdeType /\ e.state = "live"
  BY <1>1, EpollAddLemma DEF FdeType
<1>3. fde' = [fde EXCEPT ![f] = e]
  BY DEF AddFd, IndInv, TypeOK
<1>4. ops' \in 0 .. MaxOps
  BY EventsAssumption DEF AddFd, Operation, IndInv, TypeOK
<1> HIDE DEF e
<1> QED BY <1>2, <1>3, <1>4, FdeStep DEF AddFd

\* event_set_fd_flags keeps it.
LEMMA SetFdFlagsInv ==
  ASSUME IndInv, NEW f \in Fds, NEW flags \in Wanted, SetFdFlags(f, flags)
  PROVE  IndInv'
<1> DEFINE e == EpollChange([fde[f] EXCEPT !.flags = flags])
<1>a. fde[f] \in FdeType /\ flags \in Flags /\ fde[f].state = "live"
  BY EventsAssumption DEF IndInv, TypeOK, Flags, SetFdFlags
<1>b. [fde[f] EXCEPT !.flags = flags] \in FdeType
  BY <1>a, FdeFields
<1>1. /\ [fde[f] EXCEPT !.flags = flags] \in FdeType
      /\ [fde[f] EXCEPT !.flags = flags].state = "live"
  BY <1>a, <1>b DEF FdeType
<1>2. e \in FdeType /\ e.state = "live"
  BY <1>1, EpollChangeLemma
<1>3. fde' = [fde EXCEPT ![f] = e]
  BY DEF SetFdFlags, IndInv, TypeOK
<1>4. ops' \in 0 .. MaxOps
  BY EventsAssumption DEF SetFdFlags, Operation, IndInv, TypeOK
<1> HIDE DEF e
<1> QED BY <1>2, <1>3, <1>4, FdeStep DEF SetFdFlags

\* An fd event is freed: every batch on the stack is older than that.
LEMMA FreeFdInv ==
  ASSUME IndInv, NEW f \in Fds, FreeFd(f)
  PROVE  IndInv'
<1> DEFINE e == [EpollDel(NoFde) EXCEPT !.state = "freed"]
<1>1. e \in FdeType /\ ~e.has_event
  BY NoFdeLemma, EpollDelLemma DEF FdeType
<1>2. fde' = [fde EXCEPT ![f] = e]
  BY DEF FreeFd
<1> HIDE DEF e
<1>3. destruction_count' = destruction_count + 1 /\ destruction_count \in Nat
  BY DEF FreeFd, Counted, IndInv, TypeOK
<1>4. TypeOK'
  <2>1. fde' \in [Fds -> FdeType]
    BY <1>1, <1>2 DEF IndInv, TypeOK
  <2>2. ready' \in [Fds -> Reports] /\ ops' \in 0 .. MaxOps
    BY EventsAssumption DEF IndInv, TypeOK, FreeFd, Operation, Reports
  <2> QED BY <1>3, <2>1, <2>2 DEF IndInv, TypeOK, FreeFd, timeVars
<1>5. BatchInv'
  <2>1. \A g \in Fds : fde'[g].has_event => fde'[g].state = "live"
    BY <1>1, <1>2 DEF IndInv, TypeOK, BatchInv
  <2>2. \A n \in DOMAIN stack : stack[n].run # None
    <3>1. stack # <<>> => stack[1].run # None
      BY DEF FreeFd, Operation, InCode, IndInv, TypeOK
    <3> QED BY <3>1 DEF IndInv, BatchInv
  <2>3. \A n \in DOMAIN stack :
          stack[n].count \in Nat /\ stack[n].count <= destruction_count
    BY FrameLemma DEF IndInv, BatchInv
  <2>4. stack' = stack
    BY DEF FreeFd
  <2> QED BY <1>3, <2>1, <2>2, <2>3, <2>4 DEF BatchInv
<1>6. TimerInv' /\ OrderInv'
  BY DEF IndInv, TimerInv, OrderInv, timeVars, FreeFd
<1> QED BY <1>4, <1>5, <1>6 DEF IndInv
-----------------------------------------------------------------------------
(***************************************************************************)
(* The timed events.                                                       *)
(***************************************************************************)
TimerType == [id : Timers, at : Nat]

\* An element of the list, and its fields.
LEMMA ListedLemma ==
  ASSUME TypeOK, NEW n \in DOMAIN timed_events
  PROVE  /\ timed_events \in Seq(TimerType) /\ Len(timed_events) \in Nat
         /\ DOMAIN timed_events = 1 .. Len(timed_events)
         /\ timed_events[n] \in TimerType
         /\ timed_events[n].id \in Timers /\ timed_events[n].at \in Nat
<1>1. timed_events \in Seq(TimerType)
  BY DEF TypeOK, TimerType
<1>2. timed_events[n] \in TimerType
  BY <1>1, ElementOfSeq, LenProperties
<1> QED BY <1>1, <1>2, LenProperties DEF TimerType

\* A new timer has a number higher than those of the list, and stands behind
\* the timers of its time and before the later ones.
LEMMA AddTimedInv ==
  ASSUME IndInv, NEW t \in Timers, NEW at \in {0, now + 1}, AddTimed(t, at)
  PROVE  IndInv'
<1> DEFINE te == [id |-> t, at |-> at]
           s == timed_events
           z == Insert(te)
<1>1. te \in TimerType /\ te.id = t /\ te.at = at /\ at \in Nat /\ t \in Nat
  BY NumbersLemma DEF IndInv, TypeOK, TimerType
<1>2. /\ timed_events' = z
      /\ tstate' = [tstate EXCEPT ![t] = "listed"] /\ tstate[t] = "none"
      /\ \A u \in Timers : u < t => tstate[u] # "none"
      /\ UNCHANGED <<fde, ready, fired, now, destruction_count, stack>>
  <2>1. \A u \in Timers : u < t => u \in NFds + 1 .. t - 1
    BY EventsAssumption DEF Timers
  <2> QED BY <2>1 DEF AddTimed
<1> HIDE DEF te
<1>3. s \in Seq(TimerType) /\ Len(s) \in Nat /\ DOMAIN s = 1 .. Len(s)
  BY LenProperties DEF IndInv, TypeOK, TimerType
<1>4. PICK p \in 1 .. Len(s) + 1 :
        /\ z \in Seq(TimerType)
        /\ Len(z) = Len(s) + 1
        /\ \A i \in DOMAIN z : z[i] = IF i < p THEN s[i] ELSE IF i = p THEN te ELSE s[i - 1]
        /\ \A i \in 1 .. p - 1 : s[i].at <= at
        /\ p <= Len(s) => at < s[p].at
  BY <1>1, <1>3, InsertLemma DEF TimerType
<1>5. DOMAIN z = 1 .. Len(s) + 1
  BY <1>4, LenProperties
<1> HIDE DEF z
<1>6. \A i \in DOMAIN z : \/ i = p /\ z[i] = te
                          \/ i < p /\ i \in DOMAIN s /\ z[i] = s[i]
                          \/ i > p /\ i - 1 \in DOMAIN s /\ i - 1 >= p /\ z[i] = s[i - 1]
  BY <1>3, <1>4, <1>5
<1>7. \A i \in DOMAIN s : /\ s[i].id \in Timers /\ s[i].at \in Nat
                          /\ tstate[s[i].id] = "listed" /\ s[i].id # t
                          /\ s[i].id < t
  <2> TAKE i \in DOMAIN s
  <2>1. s[i].id \in Timers /\ s[i].at \in Nat /\ s[i].id \in Nat
    BY ListedLemma, NumbersLemma DEF IndInv
  <2>2. tstate[s[i].id] = "listed"
    BY DEF IndInv, TimerInv
  <2>3. ~(t < s[i].id)
    BY <1>2, <2>1, <2>2 DEF IndInv, OrderInv
  <2> QED BY <1>1, <1>2, <2>1, <2>2, <2>3
<1>8. TypeOK'
  <2>1. ops' \in 0 .. MaxOps
    BY EventsAssumption DEF IndInv, TypeOK, AddTimed, Operation
  <2>2. tstate' \in [Timers -> {"none", "listed", "running", "freed"}]
    BY <1>2 DEF IndInv, TypeOK
  <2> QED BY <1>2, <1>4, <2>1, <2>2 DEF IndInv, TypeOK, TimerType
<1>9. BatchInv'
  BY <1>2 DEF IndInv, BatchInv
<1>10. TimerInv'
  <2>0. \A u \in Timers : tstate'[u] = IF u = t THEN "listed" ELSE tstate[u]
    BY <1>2 DEF IndInv, TypeOK
  <2>1. \A i \in DOMAIN z : tstate'[z[i].id] = "listed"
    BY <1>1, <1>6, <1>7, <2>0
  <2>2. ASSUME NEW i \in DOMAIN z, NEW j \in DOMAIN z, z[j].id = z[i].id
        PROVE  j = i
    <3>1. \A k, m \in DOMAIN s : s[k].id = s[m].id => k = m
      BY DEF IndInv, TimerInv
    <3>2. i \in Nat /\ j \in Nat
      BY <1>5
    <3> QED BY <1>1, <1>6, <1>7, <2>2, <3>1, <3>2
  <2>3. \A u \in Timers : fired'[u] <= 1
    BY <1>2 DEF IndInv, TimerInv
  <2>4. \A u \in Timers : tstate'[u] \in {"none", "listed"} => fired'[u] = 0
    BY <1>2, <2>0 DEF IndInv, TimerInv
  <2>5. \A n \in DOMAIN stack : stack[n].run \in Timers =>
          /\ tstate'[stack[n].run] = "running"
          /\ \A m \in DOMAIN stack : stack[m].run = stack[n].run => m = n
    BY <1>2, <2>0 DEF IndInv, TimerInv
  <2> QED BY <1>2, <2>1, <2>2, <2>3, <2>4, <2>5 DEF TimerInv
<1>11. OrderInv'
  <2>1. ASSUME NEW i \in DOMAIN z, NEW j \in DOMAIN z, i < j
        PROVE  Before(z[i], z[j])
    <3>1. i \in Nat /\ j \in Nat /\ p \in Nat
      BY <1>5, <1>3
    <3>2. \A k, m \in DOMAIN s : k < m => Before(s[k], s[m])
      BY DEF IndInv, OrderInv, Sorted
    <3>3. CASE j = p
      <4>1. i \in DOMAIN s /\ z[i] = s[i] /\ z[j] = te /\ i \in 1 .. p - 1
        BY <1>6, <2>1, <3>1, <3>3, <1>3
      <4>2. s[i].at <= at /\ s[i].id < t
        BY <4>1, <1>4, <1>7
      <4> QED BY <4>1, <4>2, <1>1, <1>7 DEF Before
    <3>4. CASE i = p
      <4>1. j - 1 \in DOMAIN s /\ z[j] = s[j - 1] /\ z[i] = te /\ j - 1 >= p
        BY <1>6, <2>1, <3>1, <3>4
      <4>2. p \in DOMAIN s /\ at < s[p].at
        BY <4>1, <1>3, <1>4, <3>1
      <4>3. s[p].at <= s[j - 1].at
        <5>1. CASE j - 1 = p
          BY <5>1, <4>2, <1>7
        <5>2. CASE p < j - 1
          BY <5>2, <3>2, <4>1, <4>2, <1>7 DEF Before
        <5> QED BY <4>1, <5>1, <5>2, <3>1
      <4>4. at < s[j - 1].at
        BY <4>1, <4>2, <4>3, <1>1, <1>7
      <4> QED BY <4>1, <4>4, <1>1 DEF Before
    <3>5. CASE i # p /\ j # p
      BY <1>6, <2>1, <3>1, <3>2, <3>5, <1>3
    <3> QED BY <3>3, <3>4, <3>5
  <2>2. Sorted(z)
    BY <2>1 DEF Sorted
  <2>3. \A u, v \in Timers : u < v /\ tstate'[v] # "none" => tstate'[u] # "none"
    BY <1>2 DEF IndInv, TypeOK, OrderInv
  <2> QED BY <1>2, <2>2, <2>3 DEF OrderInv
<1> QED BY <1>8, <1>9, <1>10, <1>11 DEF IndInv

\* A timer leaves the list: it is not in the rest, which stays sorted.
LEMMA ShrinkLemma ==
  ASSUME IndInv, NEW n \in DOMAIN timed_events, NEW z \in Seq(TimerType),
         Len(z) = Len(timed_events) - 1,
         \A i \in DOMAIN z : z[i] = IF i < n THEN timed_events[i] ELSE timed_events[i + 1]
  PROVE  /\ \A i \in DOMAIN z :
              /\ tstate[z[i].id] = "listed" /\ z[i].id \in Timers
              /\ z[i].id # timed_events[n].id
              /\ \A j \in DOMAIN z : z[j].id = z[i].id => j = i
         /\ Sorted(z)
<1> DEFINE s == timed_events
<1>1. Len(s) \in Nat /\ DOMAIN s = 1 .. Len(s) /\ DOMAIN z = 1 .. Len(s) - 1
  BY ListedLemma, LenProperties DEF IndInv
<1>2. \A i \in DOMAIN z : \/ i < n /\ i \in DOMAIN s /\ z[i] = s[i]
                          \/ i >= n /\ i + 1 \in DOMAIN s /\ z[i] = s[i + 1]
  BY <1>1
<1>3. \A i \in DOMAIN s : tstate[s[i].id] = "listed" /\ s[i].id \in Timers
  BY ListedLemma DEF IndInv, TimerInv
<1>4. \A i, j \in DOMAIN s : s[i].id = s[j].id => i = j
  BY DEF IndInv, TimerInv
<1>5. \A i, j \in DOMAIN s : i < j => Before(s[i], s[j])
  BY DEF IndInv, OrderInv, Sorted
<1> HIDE DEF s
<1>6. \A i \in DOMAIN z : tstate[z[i].id] = "listed" /\ z[i].id \in Timers
  BY <1>2, <1>3
<1>7. \A i \in DOMAIN z : z[i].id # s[n].id
  BY <1>1, <1>2, <1>4 DEF s
<1>8. ASSUME NEW i \in DOMAIN z, NEW j \in DOMAIN z, z[j].id = z[i].id
      PROVE  j = i
  <2>1. i \in Nat /\ j \in Nat /\ n \in Nat
    BY <1>1 DEF s
  <2> DEFINE k == IF i < n THEN i ELSE i + 1
             l == IF j < n THEN j ELSE j + 1
  <2>2. k \in DOMAIN s /\ z[i] = s[k]
    BY <1>2, <2>1
  <2>3. l \in DOMAIN s /\ z[j] = s[l]
    BY <1>2, <2>1
  <2>4. k = l => i = j
    BY <2>1
  <2> HIDE DEF k, l
  <2> QED BY <1>4, <1>8, <2>2, <2>3, <2>4
<1>9. \A i, j \in DOMAIN z : i < j => Before(z[i], z[j])
  <2> SUFFICES ASSUME NEW i \in DOMAIN z, NEW j \in DOMAIN z, i < j
               PROVE  Before(z[i], z[j])
    OBVIOUS
  <2>1. i \in Nat /\ j \in Nat /\ n \in Nat
    BY <1>1 DEF s
  <2> DEFINE k == IF i < n THEN i ELSE i + 1
             l == IF j < n THEN j ELSE j + 1
  <2>2. k \in DOMAIN s /\ z[i] = s[k]
    BY <1>2, <2>1
  <2>3. l \in DOMAIN s /\ z[j] = s[l]
    BY <1>2, <2>1
  <2>4. k < l
    BY <2>1
  <2> HIDE DEF k, l
  <2> QED BY <1>5, <2>2, <2>3, <2>4
<1> QED BY <1>6, <1>7, <1>8, <1>9 DEF Sorted, s

\* Freeing a timed event keeps it, whether the event is listed or being handled.
LEMMA FreeTimedInv ==
  ASSUME IndInv, NEW t \in Timers, FreeTimed(t)
  PROVE  IndInv'
<1> USE DEF IndInv
<1>1. PICK n \in DOMAIN timed_events :
        timed_events[n].id = t /\ timed_events' = RemoveAt(timed_events, n)
  BY DEF FreeTimed
<1> DEFINE z == RemoveAt(timed_events, n)
<1>2. timed_events \in Seq(TimerType)
  BY ListedLemma
<1>3. /\ z \in Seq(TimerType) /\ Len(z) = Len(timed_events) - 1
      /\ \A i \in DOMAIN z : z[i] = IF i < n THEN timed_events[i] ELSE timed_events[i + 1]
  BY <1>2, RemoveLemma
<1>4. timed_events' = z
  BY <1>1
<1> HIDE DEF z
<1>5. /\ \A i \in DOMAIN z :
           /\ tstate[z[i].id] = "listed" /\ z[i].id \in Timers /\ z[i].id # t
           /\ \A j \in DOMAIN z : z[j].id = z[i].id => j = i
      /\ Sorted(z)
  BY <1>1, <1>3, ShrinkLemma
<1>6. \A u \in Timers : tstate'[u] = IF u = t THEN "freed" ELSE tstate[u]
  BY DEF FreeTimed, TypeOK
<1>7. tstate[t] = "listed"
  BY DEF FreeTimed
<1>8. TypeOK'
  <2>1. ops' \in 0 .. MaxOps
    BY EventsAssumption DEF TypeOK, FreeTimed, Operation
  <2>2. tstate' \in [Timers -> {"none", "listed", "running", "freed"}]
    BY DEF TypeOK, FreeTimed
  <2> QED BY <1>3, <1>4, <2>1, <2>2 DEF TypeOK, TimerType, FreeTimed
<1>9. BatchInv'
  BY DEF BatchInv, FreeTimed
<1>10. TimerInv'
  <2>1. \A i \in DOMAIN z : tstate'[z[i].id] = "listed"
    BY <1>5, <1>6
  <2>2. \A u \in Timers : tstate'[u] \in {"none", "listed"} => fired'[u] = 0
    BY <1>6 DEF TimerInv, FreeTimed
  <2>3. \A m \in DOMAIN stack : stack[m].run \in Timers => tstate'[stack[m].run] = "running"
    BY <1>6, <1>7 DEF TimerInv
  <2> QED BY <1>4, <1>5, <2>1, <2>2, <2>3 DEF TimerInv, FreeTimed
<1>11. OrderInv'
  BY <1>4, <1>5, <1>6, <1>7 DEF OrderInv
<1> QED BY <1>8, <1>9, <1>10, <1>11
-----------------------------------------------------------------------------
(***************************************************************************)
(* The calls of event_loop_once.                                           *)
(***************************************************************************)

\* The head of the list leaves it and its handler is called, in a new call.
LEMMA LoopTimerInv ==
  ASSUME IndInv, LoopTimer, InCode, timed_events # <<>>, now' \in Nat,
         UNCHANGED <<fde, ready, destruction_count, ops>>
  PROVE  IndInv'
<1> DEFINE t == Head(timed_events).id
           z == Tail(timed_events)
           fr == [batch |-> <<>>, count |-> destruction_count, run |-> t]
           q == <<fr>> \o stack
<1>1. timed_events \in Seq(TimerType)
  BY DEF IndInv, TypeOK, TimerType
<1>2. /\ 1 \in DOMAIN timed_events /\ Head(timed_events) = timed_events[1]
      /\ z \in Seq(TimerType) /\ Len(z) = Len(timed_events) - 1
      /\ \A i \in DOMAIN z : z[i] = timed_events[i + 1]
  BY <1>1, PopLemma
<1>3. t \in Timers /\ t = timed_events[1].id
  BY <1>2, ListedLemma DEF IndInv
<1>4. /\ timed_events' = z /\ stack' = q
      /\ tstate' = [tstate EXCEPT ![t] = "running"]
      /\ fired' = [fired EXCEPT ![t] = @ + 1]
  BY DEF LoopTimer, Unlinked
<1>5. fr \in FrameType
  <2>1. <<>> \in Seq([f : Fds, ev : Reports])
    OBVIOUS
  <2> QED BY <1>3, <2>1 DEF FrameType, IndInv, TypeOK
<1>f. fr.batch = <<>> /\ fr.count = destruction_count /\ fr.run = t
  OBVIOUS
<1> HIDE DEF t, z, fr
<1>6. stack \in Seq(FrameType) /\ destruction_count \in Nat /\ DOMAIN stack = 1 .. Len(stack)
      /\ Len(stack) \in Nat
  BY LenProperties DEF IndInv, TypeOK
<1>7. /\ q \in Seq(FrameType)
      /\ Len(q) = Len(stack) + 1
      /\ q[1] = fr
      /\ \A n \in DOMAIN q : n # 1 => n - 1 \in DOMAIN stack /\ q[n] = stack[n - 1]
  BY <1>5, <1>6, PushLemma
<1> HIDE DEF q
<1>d. DOMAIN q = 1 .. Len(stack) + 1
  BY <1>7, LenProperties
<1>8. /\ \A i \in DOMAIN z :
           /\ tstate[z[i].id] = "listed" /\ z[i].id \in Timers /\ z[i].id # t
           /\ \A j \in DOMAIN z : z[j].id = z[i].id => j = i
      /\ Sorted(z)
  <2>1. DOMAIN z \subseteq Nat \ {0}
    BY <1>2, LenProperties
  <2>2. \A i \in DOMAIN z : z[i] = IF i < 1 THEN timed_events[i] ELSE timed_events[i + 1]
    BY <1>2, <2>1
  <2> QED BY <1>2, <1>3, <2>2, ShrinkLemma
<1>9. \A u \in Timers : /\ tstate'[u] = IF u = t THEN "running" ELSE tstate[u]
                        /\ fired'[u] = IF u = t THEN fired[u] + 1 ELSE fired[u]
  BY <1>4 DEF IndInv, TypeOK
<1>10. tstate[t] = "listed" /\ fired[t] = 0
  BY <1>2, <1>3 DEF IndInv, TimerInv
<1>11. TypeOK'
  <2>1. tstate' \in [Timers -> {"none", "listed", "running", "freed"}]
    BY <1>4 DEF IndInv, TypeOK
  <2>2. fired' \in [Timers -> Nat]
    BY <1>3, <1>4 DEF IndInv, TypeOK
  <2> QED BY <1>2, <1>4, <1>7, <2>1, <2>2 DEF IndInv, TypeOK, TimerType
<1>12. BatchInv'
  <2>1. \A n \in DOMAIN stack : stack[n].run # None
    BY <1>6 DEF IndInv, BatchInv, InCode
  <2>2. ASSUME NEW n \in DOMAIN q
        PROVE  /\ q[n].run # None
               /\ q[n].count <= destruction_count
               /\ q[n].count = destruction_count =>
                    \A i \in DOMAIN q[n].batch : fde[q[n].batch[i].f].state = "live"
    <3>1. CASE n = 1
      <4>1. q[n].batch = <<>> /\ q[n].count = destruction_count /\ q[n].run = t
        BY <3>1, <1>7, <1>f
      <4> QED BY <4>1, <1>3, <1>6, NumbersLemma
    <3>2. CASE n # 1
      BY <3>2, <1>7, <2>1 DEF IndInv, BatchInv
    <3> QED BY <3>1, <3>2
  <2> QED BY <1>4, <2>2 DEF IndInv, BatchInv
<1>13. TimerInv'
  <2>1. \A i \in DOMAIN z : tstate'[z[i].id] = "listed"
    BY <1>8, <1>9
  <2>2. \A u \in Timers : fired'[u] <= 1
    BY <1>9, <1>10 DEF IndInv, TimerInv
  <2>3. \A u \in Timers : tstate'[u] \in {"none", "listed"} => fired'[u] = 0
    BY <1>9 DEF IndInv, TimerInv
  <2>4. \A n \in DOMAIN stack : stack[n].run # t
    BY <1>3, <1>10 DEF IndInv, TimerInv
  <2>5. ASSUME NEW n \in DOMAIN q, q[n].run \in Timers
        PROVE  /\ tstate'[q[n].run] = "running"
               /\ \A m \in DOMAIN q : q[m].run = q[n].run => m = n
    <3>1. q[1].run = t
      BY <1>7, <1>f
    <3>2. CASE n = 1
      BY <3>1, <3>2, <1>3, <1>7, <1>9, <2>4
    <3>3. CASE n # 1
      <4>1. n - 1 \in DOMAIN stack /\ q[n] = stack[n - 1] /\ n \in Nat
        BY <3>3, <1>7, <1>d
      <4>2. tstate'[q[n].run] = "running"
        BY <4>1, <2>4, <2>5, <1>9 DEF IndInv, TimerInv
      <4>3. ASSUME NEW m \in DOMAIN q, q[m].run = q[n].run
            PROVE  m = n
        <5>1. m # 1
          BY <4>3, <3>1, <4>1, <2>4
        <5>2. m - 1 \in DOMAIN stack /\ q[m] = stack[m - 1] /\ m \in Nat
          BY <5>1, <1>7, <1>d
        <5>3. m - 1 = n - 1
          BY <5>2, <4>1, <4>3, <2>5 DEF IndInv, TimerInv
        <5> QED BY <5>2, <5>3, <4>1
      <4> QED BY <4>2, <4>3
    <3> QED BY <3>2, <3>3
  <2> QED BY <1>4, <1>8, <2>1, <2>2, <2>3, <2>5 DEF TimerInv
<1>14. OrderInv'
  BY <1>4, <1>8, <1>9, <1>10 DEF IndInv, OrderInv
<1> QED BY <1>11, <1>12, <1>13, <1>14 DEF IndInv

\* epoll_wait returns a batch: all its fd events are alive.
LEMMA LoopPollInv ==
  ASSUME IndInv, InCode, NEW s \in Orders,
         stack' = <<[batch |-> [i \in DOMAIN s |-> [f |-> s[i], ev |-> Reported(s[i])]],
                     count |-> destruction_count, run |-> None]>> \o stack,
         UNCHANGED <<fde, ready, timeVars, destruction_count, ops>>
  PROVE  IndInv'
<1> DEFINE B == [f : Fds, ev : Reports]
           b == [i \in DOMAIN s |-> [f |-> s[i], ev |-> Reported(s[i])]]
           fr == [batch |-> b, count |-> destruction_count, run |-> None]
           q == <<fr>> \o stack
<1>1. Polled \subseteq Fds /\ IsFiniteSet(Fds)
  BY FS_Interval, EventsAssumption DEF Polled, Fds
<1>2. Cardinality(Polled) \in Nat
  BY <1>1, FS_Subset, FS_CardinalityType
<1>3. Least(MaxEvents, Cardinality(Polled)) \in Nat
  BY <1>2, EventsAssumption DEF Least
<1>4. PICK k \in Nat : s \in [1 .. k -> Polled]
  BY <1>3 DEF Orders
<1>5. \A f \in Fds : Reported(f) \in Reports
  <2>1. \A f \in Fds : ready[f] \in Reports
    BY DEF IndInv, TypeOK
  <2> QED BY <2>1 DEF Reported, Reports
<1>6. \A f \in Polled : f \in Fds /\ fde[f].state = "live"
  BY DEF Polled, Reported, IndInv, BatchInv
<1>7. /\ b \in Seq(B)
      /\ \A i \in DOMAIN b : b[i].f \in Fds /\ fde[b[i].f].state = "live"
  <2>1. \A i \in 1 .. k : [f |-> s[i], ev |-> Reported(s[i])] \in B
    BY <1>4, <1>5, <1>6
  <2>2. b \in [1 .. k -> B]
    BY <1>4, <2>1
  <2>3. b \in Seq(B)
    <3> HIDE DEF B, b
    <3> QED BY <2>2
  <2> QED BY <1>4, <1>6, <2>3
<1> HIDE DEF b
<1>8. fr \in FrameType /\ fr.batch = b /\ fr.count = destruction_count /\ fr.run = None
  BY <1>7 DEF FrameType, IndInv, TypeOK
<1>9. stack' = q
  BY DEF b
<1> HIDE DEF fr
<1>10. /\ stack \in Seq(FrameType) /\ destruction_count \in Nat
       /\ DOMAIN stack = 1 .. Len(stack) /\ Len(stack) \in Nat
  BY LenProperties DEF IndInv, TypeOK
<1>11. /\ q \in Seq(FrameType)
       /\ Len(q) = Len(stack) + 1
       /\ q[1] = fr
       /\ \A n \in DOMAIN q : n # 1 => n - 1 \in DOMAIN stack /\ q[n] = stack[n - 1]
  BY <1>8, <1>10, PushLemma
<1> HIDE DEF q
<1>12. DOMAIN q = 1 .. Len(stack) + 1
  BY <1>11, LenProperties
<1>13. TypeOK'
  BY <1>9, <1>11 DEF IndInv, TypeOK, timeVars
<1>14. BatchInv'
  <2>1. \A n \in DOMAIN stack : stack[n].run # None
    BY <1>10 DEF IndInv, BatchInv, InCode
  <2>2. ASSUME NEW n \in DOMAIN q
        PROVE  /\ n # 1 => q[n].run # None
               /\ q[n].count <= destruction_count
               /\ q[n].count = destruction_count =>
                    \A i \in DOMAIN q[n].batch : fde[q[n].batch[i].f].state = "live"
               /\ q[n].run = None => q[n].count = destruction_count
    <3>1. CASE n = 1
      BY <3>1, <1>7, <1>8, <1>10, <1>11
    <3>2. CASE n # 1
      BY <3>2, <1>11, <2>1 DEF IndInv, BatchInv
    <3> QED BY <3>1, <3>2
  <2> QED BY <1>9, <2>2 DEF IndInv, BatchInv
<1>15. TimerInv'
  <2>1. ASSUME NEW n \in DOMAIN q, q[n].run \in Timers
        PROVE  /\ tstate[q[n].run] = "running"
               /\ \A m \in DOMAIN q : q[m].run = q[n].run => m = n
    <3>1. \A m \in DOMAIN q : q[m].run \in Timers =>
            m \in Nat /\ m - 1 \in DOMAIN stack /\ q[m] = stack[m - 1]
      BY <1>8, <1>11, <1>12, NumbersLemma
    <3>2. n \in Nat /\ n - 1 \in DOMAIN stack /\ q[n] = stack[n - 1]
      BY <2>1, <3>1
    <3>3. tstate[q[n].run] = "running"
      BY <2>1, <3>2 DEF IndInv, TimerInv
    <3>4. ASSUME NEW m \in DOMAIN q, q[m].run = q[n].run
          PROVE  m = n
      <4>1. m \in Nat /\ m - 1 \in DOMAIN stack /\ q[m] = stack[m - 1]
        BY <2>1, <3>1, <3>4
      <4>2. m - 1 = n - 1
        BY <2>1, <3>2, <3>4, <4>1 DEF IndInv, TimerInv
      <4> QED BY <3>2, <4>1, <4>2
    <3> QED BY <3>3, <3>4
  <2> QED BY <1>9, <2>1 DEF IndInv, TimerInv, timeVars
<1>16. OrderInv'
  BY DEF IndInv, OrderInv, timeVars
<1> QED BY <1>13, <1>14, <1>15, <1>16 DEF IndInv

\* A turn of the event loop keeps it.
LEMMA LoopOnceInv ==
  ASSUME IndInv, InCode, LoopOnce
  PROVE  IndInv'
<1>1. CASE HeadDue /\ LoopTimer /\ UNCHANGED now
  BY <1>1, LoopTimerInv DEF LoopOnce, HeadDue, IndInv, TypeOK
<1>2. CASE \E s \in Orders :
             /\ stack' = <<[batch |-> [i \in DOMAIN s |-> [f |-> s[i], ev |-> Reported(s[i])]],
                            count |-> destruction_count, run |-> None]>> \o stack
             /\ UNCHANGED <<timed_events, tstate, fired, now>>
  BY <1>2, LoopPollInv DEF LoopOnce, timeVars
<1>3. CASE timed_events # <<>> /\ now' = Head(timed_events).at /\ LoopTimer
  <2>1. now' \in Nat
    <3>1. timed_events \in Seq(TimerType)
      BY DEF IndInv, TypeOK, TimerType
    <3>2. Head(timed_events) \in TimerType
      BY <1>3, <3>1, PopLemma
    <3> QED BY <1>3, <3>2 DEF TimerType
  <2> QED BY <1>3, <2>1, LoopTimerInv DEF LoopOnce
<1> QED BY <1>1, <1>2, <1>3 DEF LoopOnce

\* The innermost call, which runs no timer's handler, changes: the timers are
\* not affected.
LEMMA TopStep ==
  ASSUME IndInv, stack # <<>>, Head(stack).run \notin Timers,
         NEW fr \in FrameType, fr.run \notin Timers,
         stack' = <<fr>> \o Tail(stack), UNCHANGED timeVars
  PROVE  /\ stack' \in Seq(FrameType) /\ DOMAIN stack' = DOMAIN stack
         /\ stack[1] = Head(stack) /\ stack'[1] = fr /\ 1 \in DOMAIN stack
         /\ \A n \in DOMAIN stack : n # 1 => stack'[n] = stack[n] /\ stack[n].run # None
         /\ TimerInv' /\ OrderInv'
<1>1. stack \in Seq(FrameType)
  BY DEF IndInv, TypeOK
<1> DEFINE q == <<fr>> \o Tail(stack)
<1>2. /\ q \in Seq(FrameType) /\ DOMAIN q = DOMAIN stack /\ q[1] = fr
      /\ \A n \in DOMAIN stack : n # 1 => q[n] = stack[n]
  BY <1>1, TopLemma
<1>3. stack[1] = Head(stack) /\ 1 \in DOMAIN stack
  BY <1>1, PopLemma
<1>4. stack' = q
  OBVIOUS
<1> HIDE DEF q
<1>5. TimerInv'
  <2>1. \A n \in DOMAIN q : q[n].run \in Timers => n # 1 /\ q[n] = stack[n] /\ n \in DOMAIN stack
    BY <1>2
  <2>2. ASSUME NEW n \in DOMAIN q, q[n].run \in Timers
        PROVE  /\ tstate[q[n].run] = "running"
               /\ \A m \in DOMAIN q : q[m].run = q[n].run => m = n
    BY <2>1, <2>2 DEF IndInv, TimerInv
  <2> QED BY <1>4, <2>2 DEF IndInv, TimerInv, timeVars
<1>6. OrderInv'
  BY DEF IndInv, OrderInv, timeVars
<1> QED BY <1>2, <1>3, <1>4, <1>5, <1>6 DEF IndInv, BatchInv

\* The next event of the batch: its fd event is alive, and stays so.
LEMMA DispatchInv ==
  ASSUME IndInv, Dispatch
  PROVE  IndInv'
<1> DEFINE B == [f : Fds, ev : Reports]
           top == Head(stack)
           b == Head(top.batch)
           e == fde[b.f]
           broken == "E" \in b.ev
           silent == broken /\ ~e.report_error
           marked == [e EXCEPT !.got_error = @ \/ broken]
           new == IF silent THEN EpollDel(marked) ELSE marked
           run == IF silent THEN None ELSE b.f
           fr == [top EXCEPT !.batch = Tail(@), !.run = run]
<1>1. /\ stack # <<>> /\ top.run = None /\ top.batch # <<>>
      /\ fde' = [fde EXCEPT ![b.f] = new]
      /\ stack' = <<fr>> \o Tail(stack)
      /\ UNCHANGED <<ready, timeVars, destruction_count, ops>>
  BY DEF Dispatch
<1>2. stack \in Seq(FrameType) /\ 1 \in DOMAIN stack /\ stack[1] = top
  BY <1>1, PopLemma DEF IndInv, TypeOK
<1>3. top \in FrameType /\ top.batch \in Seq(B) /\ top.count \in Nat
  BY <1>2, FrameLemma DEF IndInv
<1>4. /\ b \in B /\ b = top.batch[1] /\ 1 \in DOMAIN top.batch
      /\ Tail(top.batch) \in Seq(B)
      /\ \A i \in DOMAIN Tail(top.batch) :
           i + 1 \in DOMAIN top.batch /\ Tail(top.batch)[i] = top.batch[i + 1]
  <2> HIDE DEF B, top
  <2> QED BY <1>1, <1>3, PopLemma
<1>5. top.count = destruction_count
  BY <1>1, <1>2 DEF IndInv, BatchInv
<1>6. \A i \in DOMAIN top.batch : fde[top.batch[i].f].state = "live"
  BY <1>2, <1>5 DEF IndInv, BatchInv
<1>7. b.f \in Fds /\ e \in FdeType /\ e.state = "live"
  BY <1>4, <1>6 DEF IndInv, TypeOK
<1>8. new \in FdeType /\ new.state = "live"
  <2>1. e.got_error \/ broken \in BOOLEAN
    BY <1>7 DEF FdeType
  <2> HIDE DEF broken, e
  <2>2. marked \in FdeType
    BY <1>7, Zenon DEF FdeType
  <2>3. marked.state = "live"
    BY <1>7 DEF FdeType
  <2> HIDE DEF marked
  <2> QED BY <2>2, <2>3, EpollDelLemma
<1>9. /\ fr \in FrameType /\ fr.batch = Tail(top.batch) /\ fr.count = top.count
      /\ fr.run \in Fds \cup {None}
  <2>1. run \in Fds \cup {None}
    BY <1>7
  <2> HIDE DEF run, top
  <2> QED BY <1>3, <1>4, <2>1 DEF FrameType
<1> HIDE DEF top, b, e, broken, silent, marked, new, run, fr
<1>10. top.run \notin Timers /\ fr.run \notin Timers
  BY <1>1, <1>9, NumbersLemma
<1>11. /\ stack' \in Seq(FrameType) /\ DOMAIN stack' = DOMAIN stack
       /\ stack'[1] = fr
       /\ \A n \in DOMAIN stack : n # 1 => stack'[n] = stack[n] /\ stack[n].run # None
       /\ TimerInv' /\ OrderInv'
  BY <1>1, <1>9, <1>10, TopStep DEF top
<1>12. TypeOK'
  BY <1>1, <1>7, <1>8, <1>11 DEF IndInv, TypeOK, timeVars
<1>13. BatchInv'
  <2>1. \A g \in Fds : fde'[g] = IF g = b.f THEN new ELSE fde[g]
    BY <1>1, <1>7 DEF IndInv, TypeOK
  <2>2. \A g \in Fds : fde'[g].has_event => fde'[g].state = "live"
    BY <1>8, <2>1 DEF IndInv, BatchInv
  <2>3. \A g \in Fds : fde[g].state = "live" => fde'[g].state = "live"
    BY <1>8, <2>1
  <2>4. ASSUME NEW n \in DOMAIN stack
        PROVE  /\ n # 1 => stack'[n].run # None
               /\ stack'[n].count <= destruction_count
               /\ stack'[n].count = destruction_count =>
                    \A i \in DOMAIN stack'[n].batch : fde'[stack'[n].batch[i].f].state = "live"
               /\ n = 1 => stack'[n].count = destruction_count
    <3>1. CASE n = 1
      <4>1. \A i \in DOMAIN top.batch :
              top.batch[i].f \in Fds /\ fde[top.batch[i].f].state = "live"
        BY <1>2, <1>6, FrameLemma DEF IndInv
      <4>2. \A i \in DOMAIN fr.batch : fde'[fr.batch[i].f].state = "live"
        BY <4>1, <1>4, <1>9, <2>3
      <4>3. fr.count = destruction_count /\ fr.count <= destruction_count
        BY <1>3, <1>5, <1>9
      <4>4. stack'[n] = fr
        BY <3>1, <1>11
      <4> QED BY <3>1, <4>2, <4>3, <4>4
    <3>2. CASE n # 1
      <4>1. stack'[n] = stack[n] /\ stack[n].run # None
        BY <3>2, <1>11
      <4>2. \A i \in DOMAIN stack[n].batch : stack[n].batch[i].f \in Fds
        BY FrameLemma DEF IndInv
      <4> QED BY <3>2, <4>1, <4>2, <2>3 DEF IndInv, BatchInv
    <3> QED BY <3>1, <3>2
  <2>5. destruction_count' = destruction_count
    BY <1>1
  <2> QED BY <1>11, <2>2, <2>4, <2>5 DEF BatchInv
<1> QED BY <1>11, <1>12, <1>13 DEF IndInv

\* The handler of an fd event returns: its batch is dropped if it is too old.
LEMMA FdHandlerReturnInv ==
  ASSUME IndInv, FdHandlerReturn
  PROVE  IndInv'
<1> DEFINE B == [f : Fds, ev : Reports]
           top == Head(stack)
           rest == IF top.count # destruction_count THEN <<>> ELSE top.batch
           fr == [top EXCEPT !.run = None, !.batch = rest]
<1>1. /\ stack # <<>> /\ top.run \in Fds
      /\ stack' = <<fr>> \o Tail(stack)
      /\ UNCHANGED <<fde, ready, timeVars, destruction_count, ops>>
  BY DEF FdHandlerReturn
<1>2. stack \in Seq(FrameType) /\ 1 \in DOMAIN stack /\ stack[1] = top
  BY <1>1, PopLemma DEF IndInv, TypeOK
<1>3. top \in FrameType /\ top.batch \in Seq(B) /\ top.count \in Nat /\ destruction_count \in Nat
  BY <1>2, FrameLemma DEF IndInv
<1>4. rest \in Seq(B)
  <2> HIDE DEF B
  <2> QED BY <1>3
<1>5. fr \in FrameType /\ fr.batch = rest /\ fr.count = top.count /\ fr.run = None
  <2> HIDE DEF rest, top
  <2> QED BY <1>3, <1>4 DEF FrameType
<1> HIDE DEF top, fr
<1>6. top.run \notin Timers /\ fr.run \notin Timers
  BY <1>1, <1>5, NumbersLemma
<1>7. /\ stack' \in Seq(FrameType) /\ DOMAIN stack' = DOMAIN stack
      /\ stack'[1] = fr
      /\ \A n \in DOMAIN stack : n # 1 => stack'[n] = stack[n] /\ stack[n].run # None
      /\ TimerInv' /\ OrderInv'
  BY <1>1, <1>5, <1>6, TopStep DEF top
<1>8. TypeOK'
  BY <1>1, <1>7 DEF IndInv, TypeOK, timeVars
<1>9. BatchInv'
  <2>1. ASSUME NEW n \in DOMAIN stack
        PROVE  /\ n # 1 => stack'[n].run # None
               /\ stack'[n].count <= destruction_count
               /\ stack'[n].count = destruction_count =>
                    \A i \in DOMAIN stack'[n].batch : fde[stack'[n].batch[i].f].state = "live"
               /\ stack'[n].run = None =>
                    stack'[n].batch = <<>> \/ stack'[n].count = destruction_count
    <3>1. CASE n = 1
      <4>1. /\ top.count <= destruction_count
            /\ top.count = destruction_count =>
                 \A i \in DOMAIN top.batch : fde[top.batch[i].f].state = "live"
        BY <1>2 DEF IndInv, BatchInv
      <4> QED BY <3>1, <4>1, <1>5, <1>7
    <3>2. CASE n # 1
      BY <3>2, <1>7 DEF IndInv, BatchInv
    <3> QED BY <3>1, <3>2
  <2> QED BY <1>1, <1>7, <2>1 DEF IndInv, BatchInv
<1> QED BY <1>7, <1>8, <1>9 DEF IndInv

\* The innermost call returns.  Those around it run handlers.
LEMMA PopStep ==
  ASSUME IndInv, stack # <<>>, stack' = Tail(stack),
         UNCHANGED <<fde, destruction_count>>
  PROVE  /\ stack' \in Seq(FrameType) /\ 1 \in DOMAIN stack /\ stack[1] = Head(stack)
         /\ DOMAIN stack \subseteq Nat /\ DOMAIN stack' \subseteq Nat
         /\ \A n \in DOMAIN stack' : n + 1 \in DOMAIN stack /\ stack'[n] = stack[n + 1]
         /\ BatchInv'
<1>1. stack \in Seq(FrameType)
  BY DEF IndInv, TypeOK
<1>2. /\ Head(stack) = stack[1] /\ 1 \in DOMAIN stack
      /\ stack' \in Seq(FrameType)
      /\ \A n \in DOMAIN stack' : n + 1 \in DOMAIN stack /\ stack'[n] = stack[n + 1]
  BY <1>1, PopLemma
<1>3. DOMAIN stack \subseteq Nat /\ DOMAIN stack' \subseteq Nat \ {0}
  <2>1. DOMAIN stack' = 1 .. Len(stack')
    BY <1>2, LenProperties
  <2>2. DOMAIN stack = 1 .. Len(stack)
    BY <1>1, LenProperties
  <2> QED BY <2>1, <2>2
<1>4. \A n \in DOMAIN stack' : n + 1 # 1
  BY <1>3
<1>5. BatchInv'
  BY <1>2, <1>4 DEF IndInv, BatchInv
<1> QED BY <1>2, <1>3, <1>5

\* The return of a timer's handler keeps it.
LEMMA TimerHandlerReturnInv ==
  ASSUME IndInv, TimerHandlerReturn
  PROVE  IndInv'
<1> DEFINE t == Head(stack).run
<1>1. /\ stack # <<>> /\ t \in Timers
      /\ tstate' = [tstate EXCEPT ![t] = "freed"]
      /\ stack' = Tail(stack)
      /\ UNCHANGED <<fde, ready, timed_events, fired, now, destruction_count, ops>>
  BY DEF TimerHandlerReturn
<1>2. /\ stack' \in Seq(FrameType) /\ 1 \in DOMAIN stack /\ stack[1] = Head(stack)
      /\ DOMAIN stack \subseteq Nat /\ DOMAIN stack' \subseteq Nat
      /\ \A n \in DOMAIN stack' : n + 1 \in DOMAIN stack /\ stack'[n] = stack[n + 1]
      /\ BatchInv'
  BY <1>1, PopStep
<1>3. tstate[t] = "running" /\ \A n \in DOMAIN stack : stack[n].run = t => n = 1
  BY <1>1, <1>2 DEF IndInv, TimerInv
<1>4. \A u \in Timers : tstate'[u] = IF u = t THEN "freed" ELSE tstate[u]
  BY <1>1 DEF IndInv, TypeOK
<1> HIDE DEF t
<1>5. TypeOK'
  <2>1. tstate' \in [Timers -> {"none", "listed", "running", "freed"}]
    BY <1>1 DEF IndInv, TypeOK
  <2> QED BY <1>1, <1>2, <2>1 DEF IndInv, TypeOK
<1>6. TimerInv'
  <2>1. \A i \in DOMAIN timed_events : tstate'[timed_events[i].id] = "listed"
    BY <1>3, <1>4, ListedLemma DEF IndInv, TimerInv
  <2>2. \A u \in Timers : tstate'[u] \in {"none", "listed"} => fired[u] = 0
    BY <1>4 DEF IndInv, TimerInv
  <2>3. ASSUME NEW n \in DOMAIN stack', stack'[n].run \in Timers
        PROVE  /\ tstate'[stack'[n].run] = "running"
               /\ \A m \in DOMAIN stack' : stack'[m].run = stack'[n].run => m = n
    <3>1. n \in Nat /\ n + 1 \in DOMAIN stack /\ stack'[n] = stack[n + 1]
      BY <1>2
    <3>2. n + 1 # 1
      <4>1. DOMAIN stack' = 1 .. Len(stack')
        BY <1>2, LenProperties
      <4> QED BY <4>1
    <3>3. stack'[n].run # t
      BY <1>3, <3>1, <3>2
    <3>4. tstate'[stack'[n].run] = "running"
      BY <1>4, <2>3, <3>1, <3>3 DEF IndInv, TimerInv
    <3>5. ASSUME NEW m \in DOMAIN stack', stack'[m].run = stack'[n].run
          PROVE  m = n
      <4>1. m \in Nat /\ m + 1 \in DOMAIN stack /\ stack'[m] = stack[m + 1]
        BY <1>2
      <4>2. m + 1 = n + 1
        BY <2>3, <3>1, <3>5, <4>1 DEF IndInv, TimerInv
      <4> QED BY <3>1, <4>1, <4>2
    <3> QED BY <3>4, <3>5
  <2> QED BY <1>1, <2>1, <2>2, <2>3 DEF IndInv, TimerInv
<1>7. OrderInv'
  BY <1>1, <1>3, <1>4 DEF IndInv, OrderInv
<1> QED BY <1>2, <1>5, <1>6, <1>7 DEF IndInv

\* So does the return of a nested loop,
LEMMA LoopReturnInv ==
  ASSUME IndInv, LoopReturn
  PROVE  IndInv'
<1>1. /\ stack # <<>> /\ stack' = Tail(stack)
      /\ UNCHANGED <<fde, ready, timeVars, destruction_count, ops>>
  BY DEF LoopReturn
<1>2. /\ stack' \in Seq(FrameType)
      /\ DOMAIN stack' \subseteq Nat
      /\ \A n \in DOMAIN stack' : n + 1 \in DOMAIN stack /\ stack'[n] = stack[n + 1]
      /\ BatchInv'
  BY <1>1, PopStep
<1>3. TypeOK'
  BY <1>1, <1>2 DEF IndInv, TypeOK, timeVars
<1>4. TimerInv'
  <2>1. ASSUME NEW n \in DOMAIN stack', stack'[n].run \in Timers
        PROVE  /\ tstate[stack'[n].run] = "running"
               /\ \A m \in DOMAIN stack' : stack'[m].run = stack'[n].run => m = n
    <3>1. n \in Nat /\ n + 1 \in DOMAIN stack /\ stack'[n] = stack[n + 1]
      BY <1>2
    <3>2. ASSUME NEW m \in DOMAIN stack', stack'[m].run = stack'[n].run
          PROVE  m = n
      <4>1. m \in Nat /\ m + 1 \in DOMAIN stack /\ stack'[m] = stack[m + 1]
        BY <1>2
      <4>2. m + 1 = n + 1
        BY <2>1, <3>1, <3>2, <4>1 DEF IndInv, TimerInv
      <4> QED BY <3>1, <4>1, <4>2
    <3> QED BY <2>1, <3>1, <3>2 DEF IndInv, TimerInv
  <2> QED BY <1>1, <2>1 DEF IndInv, TimerInv, timeVars
<1>5. OrderInv'
  BY <1>1 DEF IndInv, OrderInv, timeVars
<1> QED BY <1>2, <1>3, <1>4, <1>5 DEF IndInv

\* The kernel's state of the descriptors and the clock do not occur in the
\* invariant but for their types.
LEMMA OutsideInv ==
  ASSUME IndInv, ready' \in [Fds -> Reports], now' \in Nat,
         UNCHANGED <<fde, timed_events, tstate, fired, destruction_count, ops, stack>>
  PROVE  IndInv'
  BY DEF IndInv, TypeOK, BatchInv, TimerInv, OrderInv

\* and so does data that arrives on a descriptor.
LEMMA ArriveInv ==
  ASSUME IndInv, NEW f \in Fds, NEW x \in Conds, Arrive(f, x) \/ Drain(f, x)
  PROVE  IndInv'
<1>1. ready[f] \in Reports /\ x \in {"R", "W", "E"}
  BY EventsAssumption DEF IndInv, TypeOK
<1>2. ready[f] \cup {x} \in Reports /\ ready[f] \ {x} \in Reports
  BY <1>1 DEF Reports
<1>3. ready' \in [Fds -> Reports]
  BY <1>2 DEF IndInv, TypeOK, Arrive, Drain
<1> QED BY <1>3, OutsideInv DEF Arrive, Drain, IndInv, TypeOK, timeVars

\* Every step of the loop, of a handler, of the kernel and of the clock keeps
\* the invariant.
LEMMA NextInv == IndInv /\ [Next]_vars => IndInv'
<1> SUFFICES ASSUME IndInv, [Next]_vars PROVE IndInv'
  OBVIOUS
<1>1. CASE \E f \in Fds, flags \in Wanted : AddFd(f, flags)
  BY <1>1, AddFdInv
<1>2. CASE \E f \in Fds, flags \in Wanted : SetFdFlags(f, flags)
  BY <1>2, SetFdFlagsInv
<1>3. CASE \E f \in Fds : FreeFd(f)
  BY <1>3, FreeFdInv
<1>4. CASE \E t \in Timers, at \in {0, now + 1} : AddTimed(t, at)
  BY <1>4, AddTimedInv
<1>5. CASE \E t \in Timers : FreeTimed(t)
  BY <1>5, FreeTimedInv
<1>6. CASE MainLoop
  BY <1>6, LoopOnceInv DEF MainLoop, InCode
<1>7. CASE NestedLoop
  BY <1>7, LoopOnceInv DEF NestedLoop
<1>8. CASE Dispatch
  BY <1>8, DispatchInv
<1>9. CASE FdHandlerReturn
  BY <1>9, FdHandlerReturnInv
<1>10. CASE TimerHandlerReturn
  BY <1>10, TimerHandlerReturnInv
<1>11. CASE LoopReturn
  BY <1>11, LoopReturnInv
<1>12. CASE \E f \in Fds, x \in Conds : Arrive(f, x)
  BY <1>12, ArriveInv
<1>13. CASE \E f \in Fds, x \in Conds \ {"E"} : Drain(f, x)
  BY <1>13, ArriveInv
<1>14. CASE Tick
  <2>1. now' \in Nat /\ ready' \in [Fds -> Reports]
    BY <1>14 DEF Tick, IndInv, TypeOK
  <2> QED BY <1>14, <2>1, OutsideInv DEF Tick
<1>15. CASE UNCHANGED vars
  <2>1. now' \in Nat /\ ready' \in [Fds -> Reports]
    BY <1>15 DEF vars, IndInv, TypeOK
  <2> QED BY <1>15, <2>1, OutsideInv DEF vars
<1> QED BY <1>1, <1>2, <1>3, <1>4, <1>5, <1>6, <1>7, <1>8, <1>9, <1>10, <1>11,
           <1>12, <1>13, <1>14, <1>15 DEF Next
-----------------------------------------------------------------------------
\* IndInv holds in every state.
LEMMA Invariance == Spec => []IndInv
  BY InitInv, NextInv, PTL DEF Spec

\* The variables of the loop keep their types (events_standard.c).
THEOREM TypeCorrect == Spec => []TypeOK
<1>1. IndInv => TypeOK
  BY DEF IndInv
<1> QED BY <1>1, Invariance, PTL

\* The next entry of a batch that is looked at is an fd event that was not
\* freed, however deep the loops nest (destruction_count in epoll_event_loop).
THEOREM BatchAliveSafe == Spec => []BatchAlive
<1>1. IndInv => BatchAlive
  <2> SUFFICES ASSUME IndInv, NEW n \in DOMAIN stack,
                      stack[n].run = None, stack[n].batch # <<>>
               PROVE  fde[stack[n].batch[1].f].state = "live"
    BY DEF BatchAlive
  <2>1. stack[n].count = destruction_count
    BY DEF IndInv, BatchInv
  <2> DEFINE B == [f : Fds, ev : Reports]
             b == stack[n].batch
  <2>2. b \in Seq(B)
    BY FrameLemma DEF IndInv
  <2>3. 1 \in DOMAIN b
    <3> HIDE DEF B, b
    <3>1. b # <<>>
      BY DEF b
    <3> QED BY <2>2, <3>1, PopLemma
  <2> QED BY <2>1, <2>3 DEF IndInv, BatchInv
<1> QED BY <1>1, Invariance, PTL

\* A timed event is called at most once, also when its handler runs the loop
\* again, and only while it is in the list (std_event_loop_timer).
THEOREM TimerOnceSafe == Spec => []TimerOnce
<1>1. IndInv => TimerOnce
  BY DEF IndInv, TimerInv, TimerOnce
<1> QED BY <1>1, Invariance, PTL

\* A timer's handler is called only by the step that takes the head of the list.
LEMMA FiredLemma ==
  ASSUME IndInv, [Next]_vars, NEW t \in Timers, fired'[t] # fired[t]
  PROVE  /\ LoopTimer /\ timed_events # <<>>
         /\ t = Head(timed_events).id /\ Head(timed_events).at <= now'
<1>1. LoopOnce
  BY DEF Next, vars, AddFd, SetFdFlags, FreeFd, AddTimed, FreeTimed, MainLoop, NestedLoop,
         Dispatch, FdHandlerReturn, TimerHandlerReturn, LoopReturn, Arrive, Drain, Tick,
         timeVars
<1>2. LoopTimer /\ timed_events # <<>> /\ Head(timed_events).at <= now'
  <2>1. timed_events # <<>> => Head(timed_events).at \in Nat
    <3>1. timed_events \in Seq(TimerType)
      BY DEF IndInv, TypeOK, TimerType
    <3>2. timed_events # <<>> => Head(timed_events) \in TimerType
      BY <3>1, PopLemma
    <3> QED BY <3>2 DEF TimerType
  <2> QED BY <1>1, <2>1 DEF LoopOnce, HeadDue
<1>3. t = Head(timed_events).id
  BY <1>2 DEF LoopTimer, IndInv, TypeOK
<1> QED BY <1>2, <1>3

\* Timed events are called when they are due, the earliest first, and those of
\* one time in the order in which they were added (std_event_add_timed).
THEOREM TimerOrderSafe == Spec => TimerOrder
<1> DEFINE A == \A t \in Timers :
                  fired'[t] # fired[t] =>
                    \E te \in Listed :
                      /\ te.id = t
                      /\ te.at <= now'
                      /\ \A u \in Listed :
                           te.at < u.at \/ (te.at = u.at /\ te.id <= u.id)
<1>1. IndInv /\ [Next]_vars => [A]_vars
  <2> SUFFICES ASSUME IndInv, [Next]_vars, NEW t \in Timers, fired'[t] # fired[t]
               PROVE  \E te \in Listed :
                        /\ te.id = t
                        /\ te.at <= now'
                        /\ \A u \in Listed :
                             te.at < u.at \/ (te.at = u.at /\ te.id <= u.id)
    OBVIOUS
  <2> DEFINE h == timed_events[1]
  <2>1. /\ timed_events # <<>> /\ t = Head(timed_events).id
        /\ Head(timed_events).at <= now'
    BY FiredLemma
  <2>2. timed_events \in Seq(TimerType)
    BY DEF IndInv, TypeOK, TimerType
  <2>3. 1 \in DOMAIN timed_events /\ Head(timed_events) = h
    BY <2>1, <2>2, PopLemma
  <2>4. h \in Listed /\ h.id = t /\ h.at <= now'
    BY <2>1, <2>3 DEF Listed
  <2>5. ASSUME NEW n \in DOMAIN timed_events
        PROVE  \/ h.at < timed_events[n].at
               \/ h.at = timed_events[n].at /\ h.id <= timed_events[n].id
    <3>1. h.id \in Nat
      BY <2>3, ListedLemma, NumbersLemma DEF IndInv
    <3>2. CASE n = 1
      BY <3>1, <3>2
    <3>3. CASE n # 1
      <4>0. DOMAIN timed_events = 1 .. Len(timed_events) /\ timed_events[n].id \in Timers
        BY ListedLemma DEF IndInv
      <4>1. timed_events[n].id \in Nat
        BY <4>0, NumbersLemma
      <4>2. 1 < n
        BY <3>3, <4>0
      <4> QED BY <2>3, <3>1, <4>1, <4>2 DEF IndInv, OrderInv, Sorted, Before
    <3> QED BY <3>2, <3>3
  <2>6. \A u \in Listed : h.at < u.at \/ (h.at = u.at /\ h.id <= u.id)
    BY <2>5 DEF Listed
  <2> QED BY <2>4, <2>6
<1> QED BY <1>1, Invariance, PTL DEF Spec, TimerOrder
-----------------------------------------------------------------------------
(***************************************************************************)
(* The safety half of FdServed: the kernel polls what the flags say.       *)
(***************************************************************************)
Wants(e) == "R" \in e.flags \/ ("W" \in e.flags /\ ~e.got_error)

\* An epoll entry is there for the events that the owner wants; after an error
\* only for reading, and then errors are reported.
AsWanted(e) ==
  /\ e.has_event <=> Wants(e)
  /\ e.report_error <=> "R" \in e.flags

PolledAsWanted == \A f \in Fds : fde[f].state = "live" => AsWanted(fde[f])

\* An fd event that was never added has had no error.
Unused(e) == ~e.has_event /\ ~e.got_error
PolledInv == PolledAsWanted /\ \A f \in Fds : fde[f].state = "none" => Unused(fde[f])

\* The functions that mark an fd event, field by field.
LEMMA EpollWhat ==
  ASSUME NEW e \in FdeType
  PROVE  /\ EpollMod(e).has_event = e.has_event /\ EpollMod(e).flags = e.flags
         /\ EpollMod(e).got_error = e.got_error
         /\ EpollMod(e).report_error = ("R" \in e.flags)
         /\ EpollDel(e).has_event = FALSE /\ EpollDel(e).flags = e.flags
         /\ EpollDel(e).got_error = e.got_error /\ EpollDel(e).report_error = FALSE
         /\ e.flags # {} => /\ EpollAdd(e).has_event = TRUE /\ EpollAdd(e).flags = e.flags
                            /\ EpollAdd(e).got_error = e.got_error
                            /\ EpollAdd(e).report_error = ("R" \in e.flags)
         /\ e.flags = {} => /\ EpollAdd(e).has_event = e.has_event
                            /\ EpollAdd(e).flags = e.flags
                            /\ EpollAdd(e).got_error = e.got_error
                            /\ EpollAdd(e).report_error = FALSE
<1> DEFINE r == "R" \in e.flags
<1>1. EpollMod(e) = [e EXCEPT !.report_error = r]
  BY DEF EpollMod
<1>2. EpollDel(e) = [e EXCEPT !.has_event = FALSE, !.report_error = FALSE]
  BY DEF EpollDel
<1>3. e.flags # {} => EpollAdd(e) = [e EXCEPT !.has_event = TRUE, !.report_error = r]
  BY DEF EpollAdd
<1>4. e.flags = {} => EpollAdd(e) = [e EXCEPT !.report_error = FALSE]
  BY DEF EpollAdd
<1> HIDE DEF r
<1>5. /\ EpollMod(e).has_event = e.has_event /\ EpollMod(e).flags = e.flags
      /\ EpollMod(e).got_error = e.got_error /\ EpollMod(e).report_error = r
  BY <1>1 DEF FdeType
<1>6. /\ EpollDel(e).has_event = FALSE /\ EpollDel(e).flags = e.flags
      /\ EpollDel(e).got_error = e.got_error /\ EpollDel(e).report_error = FALSE
  BY <1>2 DEF FdeType
<1>7. ASSUME e.flags # {}
      PROVE  /\ EpollAdd(e).has_event = TRUE /\ EpollAdd(e).flags = e.flags
             /\ EpollAdd(e).got_error = e.got_error /\ EpollAdd(e).report_error = r
  BY <1>3, <1>7 DEF FdeType
<1>8. ASSUME e.flags = {}
      PROVE  /\ EpollAdd(e).has_event = e.has_event /\ EpollAdd(e).flags = e.flags
             /\ EpollAdd(e).got_error = e.got_error /\ EpollAdd(e).report_error = FALSE
  BY <1>4, <1>8 DEF FdeType
<1> USE DEF r
<1> QED BY <1>5, <1>6, <1>7, <1>8, Zenon

\* What is wanted depends on the flags and the error only.
LEMMA AsWantedBy ==
  ASSUME NEW x, NEW e, x.flags = e.flags, x.got_error = e.got_error,
         x.has_event <=> Wants(e), x.report_error <=> "R" \in e.flags
  PROVE  AsWanted(x)
<1>1. Wants(x) <=> Wants(e)
  BY DEF Wants
<1> QED BY <1>1, Zenon DEF AsWanted

\* epoll_add_event of an fd event that had no error.
LEMMA EpollAddWanted ==
  ASSUME NEW e \in FdeType, Unused(e)
  PROVE  AsWanted(EpollAdd(e))
<1> DEFINE x == EpollAdd(e)
<1>1. e.flags \subseteq {"R", "W"}
  BY DEF FdeType, Flags
<1>2. x.flags = e.flags /\ x.got_error = e.got_error
  BY EpollWhat
<1>3. CASE e.flags = {}
  <2>1. x.has_event = e.has_event /\ x.report_error = FALSE
    BY <1>3, EpollWhat
  <2>2. ~Wants(e) /\ "R" \notin e.flags
    BY <1>3 DEF Wants
  <2>3. (x.has_event <=> Wants(e)) /\ (x.report_error <=> "R" \in e.flags)
    BY <2>1, <2>2, Zenon DEF Unused
  <2> QED BY <1>2, <2>3, AsWantedBy
<1>4. CASE e.flags # {}
  <2>1. x.has_event = TRUE /\ x.report_error = ("R" \in e.flags)
    BY <1>4, EpollWhat
  <2>2. Wants(e)
    BY <1>1, <1>4 DEF Wants, Unused
  <2>3. (x.has_event <=> Wants(e)) /\ (x.report_error <=> "R" \in e.flags)
    BY <2>1, <2>2, Zenon
  <2> QED BY <1>2, <2>3, AsWantedBy
<1> QED BY <1>3, <1>4

\* epoll_change_event, whatever the fd event was before.
LEMMA EpollChangeWanted ==
  ASSUME NEW e \in FdeType
  PROVE  AsWanted(EpollChange(e))
<1>1. CASE Wants(e) /\ e.has_event
  <2> DEFINE x == EpollMod(e)
  <2>1. EpollChange(e) = x
    BY <1>1 DEF EpollChange, Wants
  <2>2. x.flags = e.flags /\ x.got_error = e.got_error
    BY EpollWhat
  <2>3. x.has_event = e.has_event /\ x.report_error = ("R" \in e.flags)
    BY EpollWhat
  <2>4. (x.has_event <=> Wants(e)) /\ (x.report_error <=> "R" \in e.flags)
    BY <1>1, <2>3, Zenon
  <2> HIDE DEF x
  <2> QED BY <2>1, <2>2, <2>4, AsWantedBy
<1>2. CASE Wants(e) /\ ~e.has_event
  <2> DEFINE x == EpollAdd(e)
  <2>1. EpollChange(e) = x
    BY <1>2 DEF EpollChange, Wants
  <2>2. x.flags = e.flags /\ x.got_error = e.got_error
    BY EpollWhat
  <2>3. e.flags # {}
    BY <1>2 DEF Wants
  <2>4. x.has_event = TRUE /\ x.report_error = ("R" \in e.flags)
    BY <2>3, EpollWhat
  <2>5. (x.has_event <=> Wants(e)) /\ (x.report_error <=> "R" \in e.flags)
    BY <1>2, <2>4, Zenon
  <2> HIDE DEF x
  <2> QED BY <2>1, <2>2, <2>5, AsWantedBy
<1>3. CASE ~Wants(e)
  <2> DEFINE x == EpollDel(e)
  <2>1. EpollChange(e) = x
    BY <1>3 DEF EpollChange, Wants
  <2>2. x.flags = e.flags /\ x.got_error = e.got_error
    BY EpollWhat
  <2>3. x.has_event = FALSE /\ x.report_error = FALSE
    BY EpollWhat
  <2>4. "R" \notin e.flags
    BY <1>3 DEF Wants
  <2>5. (x.has_event <=> Wants(e)) /\ (x.report_error <=> "R" \in e.flags)
    BY <1>3, <2>3, <2>4, Zenon
  <2> HIDE DEF x
  <2> QED BY <2>1, <2>2, <2>5, AsWantedBy
<1> QED BY <1>1, <1>2, <1>3

\* One fd event changes.
LEMMA PolledStep ==
  ASSUME IndInv, PolledInv, NEW f \in Fds, NEW e, fde' = [fde EXCEPT ![f] = e],
         e.state = "freed" \/ (e.state = "live" /\ AsWanted(e))
  PROVE  PolledInv'
<1>1. \A g \in Fds : fde'[g] = IF g = f THEN e ELSE fde[g]
  BY DEF IndInv, TypeOK
<1>2. \A g \in Fds : fde'[g].state = "live" => AsWanted(fde'[g])
  BY <1>1, Zenon DEF PolledInv, PolledAsWanted
<1>3. \A g \in Fds : fde'[g].state = "none" => Unused(fde'[g])
  BY <1>1 DEF PolledInv
<1> QED BY <1>2, <1>3, Zenon DEF PolledInv, PolledAsWanted

\* An error on an fd event takes it out of the poll set or is given to a handler.
LEMMA DispatchPolled ==
  ASSUME IndInv, PolledInv, Dispatch
  PROVE  PolledInv'
<1> DEFINE B == [f : Fds, ev : Reports]
           top == Head(stack)
           b == Head(top.batch)
           e == fde[b.f]
           broken == "E" \in b.ev
           got == e.got_error \/ broken
           silent == broken /\ ~e.report_error
           marked == [e EXCEPT !.got_error = got]
           new == IF silent THEN EpollDel(marked) ELSE marked
<1>1. /\ stack # <<>> /\ top.run = None /\ top.batch # <<>>
      /\ fde' = [fde EXCEPT ![b.f] = new]
  BY DEF Dispatch
<1>2. stack \in Seq(FrameType) /\ 1 \in DOMAIN stack /\ stack[1] = top
  BY <1>1, PopLemma DEF IndInv, TypeOK
<1>3. top \in FrameType /\ top.batch \in Seq(B) /\ top.count \in Nat
  BY <1>2, FrameLemma DEF IndInv
<1>4. b \in B /\ b = top.batch[1] /\ 1 \in DOMAIN top.batch
  <2> HIDE DEF B, top
  <2> QED BY <1>1, <1>3, PopLemma
<1>5. top.count = destruction_count
  BY <1>1, <1>2 DEF IndInv, BatchInv
<1>6. b.f \in Fds /\ e \in FdeType /\ e.state = "live"
  BY <1>2, <1>4, <1>5 DEF IndInv, TypeOK, BatchInv
<1>7. AsWanted(e)
  BY <1>6 DEF PolledInv, PolledAsWanted
<1>8. got \in BOOLEAN
  BY <1>6 DEF FdeType
<1> HIDE DEF e, got, broken
<1>9. marked \in FdeType
  BY <1>6, <1>8, Zenon DEF FdeType
<1>10. /\ marked.state = "live" /\ marked.flags = e.flags /\ marked.got_error = got
       /\ marked.has_event = e.has_event /\ marked.report_error = e.report_error
  BY <1>6 DEF FdeType
<1> HIDE DEF marked
<1>11. CASE silent
  <2> DEFINE x == EpollDel(marked)
  <2>1. "R" \notin e.flags
    BY <1>7, <1>11, Zenon DEF AsWanted
  <2>2. got
    BY <1>11 DEF got
  <2>3. ~Wants(marked) /\ "R" \notin marked.flags
    BY <1>10, <2>1, <2>2, Zenon DEF Wants
  <2>4. x.flags = marked.flags /\ x.got_error = marked.got_error /\ x.state = "live"
    BY <1>9, <1>10, EpollWhat, EpollDelLemma
  <2>5. x.has_event = FALSE /\ x.report_error = FALSE
    BY <1>9, EpollWhat
  <2>6. (x.has_event <=> Wants(marked)) /\ (x.report_error <=> "R" \in marked.flags)
    BY <2>3, <2>5, Zenon
  <2>7. new = x
    BY <1>11
  <2> HIDE DEF x, new
  <2>8. x.state = "live" /\ AsWanted(x)
    BY <2>4, <2>6, AsWantedBy
  <2> QED BY <1>1, <1>6, <2>7, <2>8, PolledStep
<1>12. CASE ~silent
  <2>1. broken => "R" \in e.flags
    BY <1>7, <1>12, Zenon DEF AsWanted
  <2>2. ~broken => (got <=> e.got_error)
    BY DEF got
  <2>3. Wants(marked) <=> Wants(e)
    <3>1. CASE broken
      BY <1>10, <2>1, <3>1, Zenon DEF Wants
    <3>2. CASE ~broken
      BY <1>10, <2>2, <3>2, Zenon DEF Wants
    <3> QED BY <3>1, <3>2
  <2>4. AsWanted(marked)
    BY <1>7, <1>10, <2>3, Zenon DEF AsWanted
  <2>5. new = marked
    BY <1>12
  <2> HIDE DEF new
  <2> QED BY <1>1, <1>6, <1>10, <2>4, <2>5, PolledStep
<1> QED BY <1>11, <1>12

\* Every step keeps the poll set as wanted.
LEMMA NextPolled == IndInv /\ PolledInv /\ [Next]_vars => PolledInv'
<1> SUFFICES ASSUME IndInv, PolledInv, [Next]_vars PROVE PolledInv'
  OBVIOUS
<1>1. ASSUME NEW f \in Fds, NEW flags \in Wanted, AddFd(f, flags) PROVE PolledInv'
  <2> DEFINE a == [fde[f] EXCEPT !.state = "live", !.flags = flags]
             e == EpollAdd(a)
  <2>1. fde[f] \in FdeType /\ flags \in Flags /\ fde[f].state = "none"
    BY <1>1, EventsAssumption DEF IndInv, TypeOK, Flags, AddFd
  <2>2. a \in FdeType
    BY <2>1, FdeFields
  <2>3. a.state = "live" /\ a.has_event = fde[f].has_event /\ a.got_error = fde[f].got_error
    BY <2>1 DEF FdeType
  <2>4. fde' = [fde EXCEPT ![f] = e]
    BY <1>1 DEF AddFd, IndInv, TypeOK
  <2> HIDE DEF a
  <2>5. Unused(a)
    BY <2>1, <2>3, Zenon DEF PolledInv, Unused
  <2>6. e.state = "live" /\ AsWanted(e)
    BY <2>2, <2>3, <2>5, EpollAddLemma, EpollAddWanted
  <2> HIDE DEF e
  <2> QED BY <2>4, <2>6, PolledStep
<1>2. ASSUME NEW f \in Fds, NEW flags \in Wanted, SetFdFlags(f, flags) PROVE PolledInv'
  <2> DEFINE a == [fde[f] EXCEPT !.flags = flags]
             e == EpollChange(a)
  <2>1. fde[f] \in FdeType /\ flags \in Flags /\ fde[f].state = "live"
    BY <1>2, EventsAssumption DEF IndInv, TypeOK, Flags, SetFdFlags
  <2>2. a \in FdeType
    BY <2>1, FdeFields
  <2>3. a.state = "live"
    BY <2>1 DEF FdeType
  <2>4. fde' = [fde EXCEPT ![f] = e]
    BY <1>2 DEF SetFdFlags, IndInv, TypeOK
  <2> HIDE DEF a
  <2>5. e.state = "live" /\ AsWanted(e)
    BY <2>2, <2>3, EpollChangeLemma, EpollChangeWanted
  <2> HIDE DEF e
  <2> QED BY <2>4, <2>5, PolledStep
<1>3. ASSUME NEW f \in Fds, FreeFd(f) PROVE PolledInv'
  <2> DEFINE e == [EpollDel(NoFde) EXCEPT !.state = "freed"]
  <2>1. e.state = "freed"
    BY NoFdeLemma, EpollDelLemma DEF FdeType
  <2>2. fde' = [fde EXCEPT ![f] = e]
    BY <1>3 DEF FreeFd
  <2> HIDE DEF e
  <2>3. e.state = "freed" \/ (e.state = "live" /\ AsWanted(e))
    BY <2>1, Zenon
  <2> QED BY <2>2, <2>3, PolledStep
<1>4. ASSUME fde' = fde PROVE PolledInv'
  BY <1>4, Zenon DEF PolledInv, PolledAsWanted
<1>5. CASE Dispatch
  BY <1>5, DispatchPolled
<1>6. ASSUME Next, ~Dispatch PROVE PolledInv'
  <2>1. \/ \E f \in Fds, flags \in Wanted : AddFd(f, flags)
        \/ \E f \in Fds, flags \in Wanted : SetFdFlags(f, flags)
        \/ \E f \in Fds : FreeFd(f)
        \/ fde' = fde
    BY <1>6 DEF Next, AddTimed, FreeTimed, MainLoop, NestedLoop, LoopOnce, FdHandlerReturn,
                TimerHandlerReturn, LoopReturn, Arrive, Drain, Tick
  <2> QED BY <1>1, <1>2, <1>3, <1>4, <2>1
<1>7. CASE UNCHANGED vars
  BY <1>4, <1>7 DEF vars
<1> QED BY <1>5, <1>6, <1>7

\* The epoll entry of a live fd event is what its flags ask for, whatever sequence of
\* changes, silent errors and nested loops has come before: an fd that is watched
\* for reading is polled and its errors are reported (epoll_change_event).
THEOREM PolledAsWantedSafe == Spec => []PolledAsWanted
<1>1. Init => PolledInv
  <2> SUFFICES ASSUME Init, NEW f \in Fds
               PROVE  fde[f].state = "none" /\ Unused(fde[f])
    BY DEF PolledInv, PolledAsWanted
  <2>1. fde[f] = NoFde
    BY DEF Init
  <2> QED BY <2>1 DEF NoFde, Unused
<1>2. PolledInv => PolledAsWanted
  BY DEF PolledInv
<1> QED BY <1>1, <1>2, NextPolled, Invariance, PTL DEF Spec
=============================================================================
