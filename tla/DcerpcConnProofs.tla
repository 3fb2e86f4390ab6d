-------------------------- MODULE DcerpcConnProofs --------------------------
(***************************************************************************)
(* Theorems about DcerpcConn, for every set of calls, binds and alters and *)
(* every length of the replies.                                            *)
(***************************************************************************)
EXTENDS DcerpcConn, FiniteSetTheorems, SequenceTheorems, TLAPS

(***************************************************************************)
(* Lists                                                                   *)
(***************************************************************************)
\* DLIST_REMOVE keeps a list a list of the same kind.
LEMMA UnlinkType ==
  ASSUME NEW S, NEW s \in Seq(S), NEW r
  PROVE  Unlink(s, r) \in Seq(S)
<1>1. CASE r \notin Elems(s)
  BY <1>1 DEF Unlink
<1>2. CASE r \in Elems(s)
  <2> DEFINE n == CHOOSE i \in DOMAIN s : s[i] = r
  <2>1. n \in DOMAIN s
    BY <1>2 DEF Elems
  <2>2. Unlink(s, r) = [i \in 1 .. Len(s) - 1 |-> IF i < n THEN s[i] ELSE s[i + 1]]
    BY <1>2 DEF Unlink
  <2>3. Len(s) - 1 \in Nat
    BY <2>1
  <2> HIDE DEF n
  <2>4. \A i \in 1 .. Len(s) - 1 : (IF i < n THEN s[i] ELSE s[i + 1]) \in S
    BY <2>1
  <2>5. QED
    BY <2>2, <2>3, <2>4, IsASeq
<1>3. QED
  BY <1>1, <1>2

\* DLIST_REMOVE from a list without repetitions takes out one element and
\* leaves the others, still without repetitions.
LEMMA UnlinkElems ==
  ASSUME NEW S, NEW s \in Seq(S), NEW r, Distinct(s)
  PROVE  /\ Elems(Unlink(s, r)) = Elems(s) \ {r}
         /\ Distinct(Unlink(s, r))
<1>1. CASE r \notin Elems(s)
  BY <1>1 DEF Unlink
<1>2. CASE r \in Elems(s)
  <2> DEFINE n == CHOOSE i \in DOMAIN s : s[i] = r
  <2> DEFINE u == [i \in 1 .. Len(s) - 1 |-> IF i < n THEN s[i] ELSE s[i + 1]]
  <2>1. n \in 1 .. Len(s) /\ s[n] = r /\ Len(s) \in Nat /\ DOMAIN s = 1 .. Len(s)
    BY <1>2 DEF Elems
  <2>2. Unlink(s, r) = u
    BY <1>2 DEF Unlink
  <2> HIDE DEF n
  <2>3. DOMAIN u = 1 .. Len(s) - 1
    OBVIOUS
  <2>4. ASSUME NEW x \in Elems(u) PROVE x \in Elems(s) \ {r}
    <3>1. PICK i \in 1 .. Len(s) - 1 : x = u[i]
      BY <2>3 DEF Elems
    <3>2. CASE i < n
      BY <2>1, <3>1, <3>2 DEF Elems, Distinct
    <3>3. CASE ~(i < n)
      <4>1. x = s[i + 1] /\ i + 1 \in 1 .. Len(s) /\ i + 1 # n
        BY <2>1, <3>1, <3>3
      <4>2. QED
        BY <2>1, <4>1 DEF Elems, Distinct
    <3>4. QED
      BY <3>2, <3>3
  <2>5. ASSUME NEW x \in Elems(s) \ {r} PROVE x \in Elems(u)
    <3>1. PICK j \in 1 .. Len(s) : x = s[j]
      BY <2>1 DEF Elems
    <3>2. j # n
      BY <2>1, <3>1
    <3>3. CASE j < n
      <4>1. j \in 1 .. Len(s) - 1 /\ u[j] = x
        BY <2>1, <3>1, <3>3
      <4>2. QED
        BY <2>3, <4>1 DEF Elems
    <3>4. CASE j > n
      <4>1. j - 1 \in 1 .. Len(s) - 1 /\ u[j - 1] = x
        BY <2>1, <3>1, <3>4
      <4>2. QED
        BY <2>3, <4>1 DEF Elems
    <3>5. QED
      BY <2>1, <3>2, <3>3, <3>4
  <2>6. Distinct(u)
    <3>1. SUFFICES ASSUME NEW i \in 1 .. Len(s) - 1, NEW j \in 1 .. Len(s) - 1, u[i] = u[j]
                   PROVE  i = j
      BY <2>3 DEF Distinct
    <3> DEFINE p(k) == IF k < n THEN k ELSE k + 1
    <3>2. p(i) \in DOMAIN s /\ p(j) \in DOMAIN s /\ s[p(i)] = s[p(j)]
      BY <2>1, <3>1
    <3>3. p(i) = p(j)
      BY <3>2 DEF Distinct
    <3>4. QED
      BY <2>1, <3>3
  <2>7. QED
    BY <2>2, <2>4, <2>5, <2>6
<1>3. QED
  BY <1>1, <1>2

\* DLIST_ADD_END of something that is not yet on the list.
LEMMA AddEndElems ==
  ASSUME NEW S, NEW s \in Seq(S), NEW x \in S, x \notin Elems(s), Distinct(s)
  PROVE  /\ AddEnd(s, x) \in Seq(S)
         /\ Elems(AddEnd(s, x)) = Elems(s) \cup {x}
         /\ Distinct(AddEnd(s, x))
<1> DEFINE a == AddEnd(s, x)
<1>1. /\ a \in Seq(S) /\ Len(a) = Len(s) + 1 /\ DOMAIN a = 1 .. Len(s) + 1
      /\ \A i \in 1 .. Len(s) : a[i] = s[i]
      /\ a[Len(s) + 1] = x
  BY DEF AddEnd
<1>2. Len(s) \in Nat /\ DOMAIN s = 1 .. Len(s)
  OBVIOUS
<1> HIDE DEF a
<1>3. Elems(a) = Elems(s) \cup {x}
  BY <1>1, <1>2 DEF Elems
<1>4. Distinct(a)
  BY <1>1, <1>2 DEF Elems, Distinct
<1>5. QED
  BY <1>1, <1>3, <1>4 DEF a

\* DLIST_ADD of something that is not yet on the list.
LEMMA AddFrontElems ==
  ASSUME NEW S, NEW s \in Seq(S), NEW x \in S, x \notin Elems(s), Distinct(s)
  PROVE  /\ <<x>> \o s \in Seq(S)
         /\ Elems(<<x>> \o s) = Elems(s) \cup {x}
         /\ Distinct(<<x>> \o s)
<1> DEFINE b == <<x>> \o s
<1>1. /\ b \in Seq(S) /\ Len(b) = Len(s) + 1 /\ DOMAIN b = 1 .. Len(s) + 1
      /\ \A i \in 2 .. Len(s) + 1 : b[i] = s[i - 1]
      /\ b[1] = x
  OBVIOUS
<1>2. Len(s) \in Nat /\ DOMAIN s = 1 .. Len(s)
  OBVIOUS
<1> HIDE DEF b
<1>3. \A k \in DOMAIN b : k = 1 \/ (k - 1 \in DOMAIN s /\ b[k] = s[k - 1])
  BY <1>1, <1>2
<1>4. Elems(b) = Elems(s) \cup {x}
  <2>1. \A i \in DOMAIN s : i + 1 \in DOMAIN b /\ b[i + 1] = s[i]
    BY <1>1, <1>2
  <2>2. 1 \in DOMAIN b
    BY <1>1, <1>2
  <2>3. Elems(b) \subseteq Elems(s) \cup {x}
    BY <1>1, <1>3 DEF Elems
  <2>4. Elems(s) \subseteq Elems(b)
    BY <2>1 DEF Elems
  <2>5. x \in Elems(b)
    BY <1>1, <2>2 DEF Elems
  <2>6. QED
    BY <2>3, <2>4, <2>5
<1>5. Distinct(b)
  <2>1. SUFFICES ASSUME NEW i \in DOMAIN b, NEW j \in DOMAIN b, b[i] = b[j]
                 PROVE  i = j
    BY DEF Distinct
  <2>2. \A k \in DOMAIN b : k # 1 => b[k] \in Elems(s)
    BY <1>3 DEF Elems
  <2>3. (i = 1) <=> (j = 1)
    BY <1>1, <2>1, <2>2
  <2>4. CASE i # 1 /\ j # 1
    <3>1. i - 1 = j - 1
      BY <1>3, <2>1, <2>4 DEF Distinct
    <3>2. QED
      BY <1>1, <1>2, <3>1
  <2>5. QED
    BY <2>3, <2>4
<1>6. QED
  BY <1>1, <1>4, <1>5 DEF b

\* Taking the head off a list.
LEMMA TailElems ==
  ASSUME NEW S, NEW s \in Seq(S), s # <<>>, Distinct(s)
  PROVE  /\ Tail(s) \in Seq(S)
         /\ Elems(Tail(s)) = Elems(s) \ {Head(s)}
         /\ Distinct(Tail(s))
         /\ Head(s) \in Elems(s)
<1> DEFINE t == Tail(s)
<1>1. /\ t \in Seq(S) /\ Len(t) = Len(s) - 1 /\ DOMAIN t = 1 .. Len(s) - 1
      /\ \A i \in 1 .. Len(s) - 1 : t[i] = s[i + 1]
      /\ Head(s) = s[1]
  OBVIOUS
<1>2. Len(s) \in Nat \ {0} /\ DOMAIN s = 1 .. Len(s)
  BY EmptySeq
<1> HIDE DEF t
<1>3. \A i \in DOMAIN t : i + 1 \in DOMAIN s /\ i + 1 # 1 /\ t[i] = s[i + 1]
  BY <1>1, <1>2
<1>4. \A i \in DOMAIN s : i # 1 => i - 1 \in DOMAIN t /\ t[i - 1] = s[i]
  BY <1>1, <1>2
<1>5. 1 \in DOMAIN s
  BY <1>2
<1>6. Elems(t) \subseteq Elems(s) \ {Head(s)}
  BY <1>1, <1>3, <1>5 DEF Elems, Distinct
<1>7. Elems(s) \ {Head(s)} \subseteq Elems(t)
  BY <1>1, <1>4 DEF Elems
<1>8. Distinct(t)
  <2>1. SUFFICES ASSUME NEW i \in DOMAIN t, NEW j \in DOMAIN t, t[i] = t[j] PROVE i = j
    BY DEF Distinct
  <2>2. i + 1 = j + 1
    BY <1>3, <2>1 DEF Distinct
  <2>3. QED
    BY <1>1, <1>2, <2>2
<1>9. QED
  BY <1>1, <1>5, <1>6, <1>7, <1>8 DEF t, Elems

-----------------------------------------------------------------------------
(***************************************************************************)
(* dcerpc_ship_next_request                                                *)
(***************************************************************************)

\* Shipping moves at most the head of the queue, to the pending list or off
\* both, and a call without the async attribute only to an empty pending list.
LEMMA ShipLists ==
  ASSUME NEW que \in Seq(Calls), NEW pend \in Seq(Reqs),
         NEW o \in ShipNext(que, pend),
         Distinct(que), Distinct(pend), Elems(que) \cap Elems(pend) = {}
  PROVE  /\ o.queue \in Seq(Calls) /\ o.pending \in Seq(Reqs)
         /\ Distinct(o.queue) /\ Distinct(o.pending)
         /\ Elems(o.queue) \cap Elems(o.pending) = {}
         /\ o.shipped \subseteq Elems(que) /\ o.failed \subseteq Elems(que)
         /\ o.shipped \subseteq Calls /\ o.failed \subseteq Calls
         /\ Elems(o.queue) \subseteq Elems(que)
         /\ Elems(o.pending) = Elems(pend) \cup o.shipped
         /\ Cardinality(o.shipped) \in {0, 1}
         /\ \A x, y \in o.shipped : x = y
         /\ o.shipped \subseteq AsyncCalls \/ Elems(pend) = {}
<1>1. CASE o = [queue |-> que, pending |-> pend, shipped |-> {}, failed |-> {}]
  BY <1>1, FS_EmptySet DEF Reqs
<1> DEFINE h == Head(que)
<1>2. ASSUME que # <<>>
      PROVE  /\ h \in Calls /\ h \in Elems(que) /\ h \notin Elems(pend)
             /\ Tail(que) \in Seq(Calls) /\ Distinct(Tail(que))
             /\ Elems(Tail(que)) = Elems(que) \ {h}
  <2>1. Elems(que) \subseteq Calls
    BY DEF Elems
  <2>2. QED
    BY <1>2, <2>1, TailElems
<1>3. CASE /\ que # <<>>
           /\ o = [queue |-> Tail(que), pending |-> pend, shipped |-> {}, failed |-> {h}]
  <2>1. /\ o.queue = Tail(que) /\ o.pending = pend
        /\ o.shipped = {} /\ o.failed = {h}
    BY <1>3
  <2>2. QED
    BY <1>2, <1>3, <2>1, FS_EmptySet
<1>4. CASE /\ que # <<>>
           /\ h \in AsyncCalls \/ pend = <<>>
           /\ o = [queue |-> Tail(que), pending |-> <<h>> \o pend,
                   shipped |-> {h}, failed |-> {}]
  <2>1. /\ o.queue = Tail(que) /\ o.pending = <<h>> \o pend
        /\ o.shipped = {h} /\ o.failed = {}
    BY <1>4
  <2>2. h \in Reqs
    BY <1>2, <1>4 DEF Reqs
  <2> HIDE DEF h
  <2>3. /\ <<h>> \o pend \in Seq(Reqs) /\ Distinct(<<h>> \o pend)
        /\ Elems(<<h>> \o pend) = Elems(pend) \cup {h}
    BY <1>2, <1>4, <2>2, AddFrontElems
  <2>4. Cardinality({h}) = 1
    BY FS_Singleton
  <2>5. pend = <<>> => Elems(pend) = {}
    BY DEF Elems
  <2>6. QED
    BY <1>2, <1>4, <2>1, <2>3, <2>4, <2>5
<1>5. QED
  BY <1>1, <1>3, <1>4 DEF ShipNext, ShipFailed, ShipDone

\* Shipping keeps every request a record of its type.
LEMMA ReqAfterShipType ==
  ASSUME NEW rq \in [Reqs -> ReqType], NEW o, context_id \in Nat
  PROVE  ReqAfterShip(rq, o) \in [Reqs -> ReqType]
<1>1. ASSUME NEW q \in ReqType
      PROVE  /\ [q EXCEPT !.state = "done", !.status = "SEND_FAILED"] \in ReqType
             /\ [q EXCEPT !.shipped = context_id, !.status = "OK"] \in ReqType
  <2>1. context_id \in Int
    OBVIOUS
  <2>2. "done" \in {"new", "pending", "done", "freed"} /\ "SEND_FAILED" \in Statuses
    BY DEF Statuses
  <2>3. "OK" \in Statuses
    BY DEF Statuses
  <2>4. [q EXCEPT !.state = "done", !.status = "SEND_FAILED"] \in ReqType
    BY <2>2 DEF ReqType
  <2>5. [q EXCEPT !.shipped = context_id, !.status = "OK"] \in ReqType
    BY <2>1, <2>3 DEF ReqType
  <2>6. QED
    BY <2>4, <2>5
<1>2. QED
  BY <1>1 DEF ReqAfterShip

\* Completing a request keeps it a record of its type.
LEMMA FinishedType ==
  ASSUME NEW q \in ReqType, NEW r, NEW st \in Statuses
  PROVE  Finished(q, r, st) \in ReqType
<1>1. [q EXCEPT !.state = "done", !.status = st] \in ReqType
  BY DEF ReqType
<1>2. [q EXCEPT !.state = "freed", !.status = st, !.calls = q.calls + 1] \in ReqType
  <2>1. q.calls \in Nat
    BY DEF ReqType
  <2>2. q.calls + 1 \in Nat
    BY <2>1
  <2> DEFINE c == q.calls + 1
  <2> HIDE DEF c
  <2>3. [q EXCEPT !.state = "freed", !.status = st, !.calls = c] \in ReqType
    BY <2>2 DEF ReqType, c
  <2>4. QED
    BY <2>3 DEF c
<1>3. QED
  BY <1>1, <1>2 DEF Finished

\* next_call_id never hands out 0.
LEMMA NextCallIdType ==
  ASSUME NEW id \in 1 .. CallIdMod - 1
  PROVE  NextCallId(id) \in 1 .. CallIdMod - 1
<1>1. CallIdMod \in Nat /\ 1 < CallIdMod
  <2>1. Cardinality(Calls) \in Nat
    BY ReqsAssumption, FS_CardinalityType
  <2>2. QED
    BY <2>1, CallIdAssumption
<1>2. (id + 1) % CallIdMod \in 0 .. CallIdMod - 1
  BY <1>1
<1>3. QED
  BY <1>1, <1>2 DEF NextCallId

\* DLIST_REMOVE with the wrong list head takes calls out of the queue, perhaps
\* too many, and never puts one in.
LEMMA UnlinkForeignElems ==
  ASSUME NEW que \in Seq(Calls), NEW r, Distinct(que)
  PROVE  /\ UnlinkForeign(que, r) \in Seq(Calls)
         /\ Elems(UnlinkForeign(que, r)) \subseteq Elems(que)
         /\ Distinct(UnlinkForeign(que, r))
<1>1. CASE que # <<>> /\ Head(que) = r
  <2>1. r \in Elems(que) /\ r \in Calls
    BY <1>1, TailElems DEF Elems
  <2>2. <<r>> \in Seq(Calls) /\ Elems(<<r>>) = {r} /\ Distinct(<<r>>)
    BY <2>1 DEF Elems, Distinct
  <2>3. QED
    BY <1>1, <2>1, <2>2 DEF UnlinkForeign
<1>2. CASE ~(que # <<>> /\ Head(que) = r)
  BY <1>2, UnlinkType, UnlinkElems DEF UnlinkForeign
<1>3. QED
  BY <1>1, <1>2
-----------------------------------------------------------------------------
(***************************************************************************)
(* Every action keeps the invariant                                        *)
(***************************************************************************)
\* A connection just created by dcerpc_connection_init satisfies the invariant.
LEMMA InitInv == Init => IndInv
<1> SUFFICES ASSUME Init PROVE IndInv
  OBVIOUS
<1>1. CallIdMod \in Nat /\ 1 < CallIdMod
  <2>1. Cardinality(Calls) \in Nat
    BY ReqsAssumption, FS_CardinalityType
  <2>2. QED
    BY <2>1, CallIdAssumption
<1>2. NewReq \in ReqType
  BY <1>1 DEF NewReq, ReqType, Statuses
<1>3. TypeOK
  <2>1. req \in [Reqs -> ReqType] /\ sent \in [Reqs -> Nat]
    BY <1>2 DEF Init
  <2>2. request_queue \in Seq(Calls) /\ pending \in Seq(Reqs) /\ timers \in Seq(Reqs)
        /\ waiters \in Seq(SyncCalls)
    BY DEF Init
  <2>3. /\ call_id \in 1 .. CallIdMod - 1 /\ context_id \in Nat
        /\ pending_reads \in Nat /\ sign_gap \in Int
    BY <1>1 DEF Init
  <2>4. /\ last_fault \in BOOLEAN /\ sock_open \in BOOLEAN /\ failing \in BOOLEAN
        /\ aborted \in BOOLEAN /\ cut \in BOOLEAN /\ garbled \in BOOLEAN
    BY DEF Init
  <2>5. denied \subseteq Reqs /\ owed \subseteq Reqs
    BY DEF Init
  <2>6. QED
    BY <2>1, <2>2, <2>3, <2>4, <2>5 DEF TypeOK
<1>4. Elems(pending) = {} /\ Elems(request_queue) = {}
  BY DEF Init, Elems
<1>5. OneList /\ ListedAllocated /\ PendingAlive /\ SerialCalls
  BY <1>4 DEF Init, OneList, Distinct, ListedAllocated, PendingAlive, SerialCalls
<1>6. CalledFreed /\ CallbackOnce
  BY DEF Init, CalledFreed, CallbackOnce, NewReq
<1>7. QED
  BY <1>3, <1>5, <1>6 DEF IndInv

\* A step that changes one request m to q, and the lists at most by unlinking:
\* if q is freed, m is off the pending list; if its callback has run, q is
\* freed; and it has run once.
LEMMA OneRequest ==
  ASSUME IndInv, ~aborted,
         NEW m \in Reqs, NEW q \in ReqType, req' = [req EXCEPT ![m] = q],
         q.state # "new", q.calls <= 1,
         m \notin SyncCalls /\ q.calls # 0 => q.state = "freed",
         m \in Calls /\ q.state = "freed" => m \notin Elems(pending)',
         Elems(pending)' \subseteq Elems(pending),
         Elems(request_queue)' \subseteq Elems(request_queue),
         Distinct(pending)', Distinct(request_queue)'
  PROVE  /\ OneList' /\ ListedAllocated' /\ CalledFreed' /\ PendingAlive'
         /\ CallbackOnce' /\ SerialCalls'
<1>1. OneList' /\ SerialCalls'
  BY DEF IndInv, OneList, SerialCalls
<1>2. /\ \A x \in Reqs : x # m => req'[x] = req[x]
      /\ req'[m] = q
  BY DEF IndInv, TypeOK
<1>3. Elems(pending) \subseteq Reqs /\ Elems(request_queue) \subseteq Reqs
  BY DEF IndInv, TypeOK, Elems, Reqs
<1>4. ListedAllocated'
  BY <1>2, <1>3 DEF IndInv, ListedAllocated
<1>5. CalledFreed'
  BY <1>2 DEF IndInv, CalledFreed
<1>6. PendingAlive'
  BY <1>2, <1>3 DEF IndInv, PendingAlive
<1>7. CallbackOnce'
  BY <1>2 DEF IndInv, CallbackOnce
<1>8. QED
  BY <1>1, <1>4, <1>5, <1>6, <1>7

\* Closing the socket touches no list and no request.
LEMMA SockDeadInv == IndInv /\ SockDead => IndInv'
<1> SUFFICES ASSUME IndInv, SockDead PROVE IndInv'
  OBVIOUS
<1> USE DEF SockDead, IndInv
<1>1. TypeOK'
  <2>1. DenyDestruction \subseteq Reqs
    BY DEF TypeOK, DenyDestruction, Elems
  <2>2. sent' \in [Reqs -> Nat]
    OBVIOUS
  <2>3. QED
    BY <2>1, <2>2 DEF TypeOK, connVars
<1>2. OneList' /\ ListedAllocated' /\ SerialCalls'
  BY DEF OneList, ListedAllocated, SerialCalls, Elems, Distinct, connVars
<1>3. CalledFreed' /\ CallbackOnce' /\ PendingAlive'
  BY DEF CalledFreed, CallbackOnce, PendingAlive, Elems, connVars
<1>4. QED
  BY <1>1, <1>2, <1>3

\* A malformed packet starts the failure loop and touches no list.
LEMMA RecvMalformedInv == ASSUME NEW r \in Reqs PROVE IndInv /\ RecvMalformed(r) => IndInv'
<1> SUFFICES ASSUME IndInv, RecvMalformed(r) PROVE IndInv'
  OBVIOUS
<1> USE DEF RecvMalformed, IndInv
<1>1. TypeOK'
  BY DEF TypeOK, DenyDestruction, Elems, connVars
<1>2. OneList' /\ ListedAllocated' /\ SerialCalls'
  BY DEF OneList, ListedAllocated, SerialCalls, Elems, Distinct, connVars
<1>3. CalledFreed' /\ CallbackOnce' /\ PendingAlive'
  BY DEF CalledFreed, CallbackOnce, PendingAlive, Elems, connVars
<1>4. QED
  BY <1>1, <1>2, <1>3

\* The end of dcerpc_connection_dead.
LEMMA DeadEndInv == IndInv /\ DeadEnd => IndInv'
<1> SUFFICES ASSUME IndInv, DeadEnd PROVE IndInv'
  OBVIOUS
<1> USE DEF DeadEnd, IndInv, connVars, sockVars, wireVars
<1>1. TypeOK'
  BY DEF TypeOK
<1>2. OneList' /\ ListedAllocated' /\ SerialCalls'
  BY DEF OneList, ListedAllocated, SerialCalls, Elems, Distinct
<1>3. CalledFreed' /\ CallbackOnce' /\ PendingAlive'
  BY DEF CalledFreed, CallbackOnce, PendingAlive, Elems
<1>4. QED
  BY <1>1, <1>2, <1>3

\* A bind or alter that was not sent is freed while it is still on pending;
\* it is no call, so PendingAlive allows it.
LEMMA AlterSendFailedInv ==
  ASSUME NEW a \in Alters PROVE IndInv /\ AlterSendFailed(a) => IndInv'
<1> SUFFICES ASSUME IndInv, AlterSendFailed(a) PROVE IndInv'
  OBVIOUS
<1> USE DEF AlterSendFailed, InLoop, connVars, sockVars, loopVars, deadVars, wireVars
<1>1. a \in Reqs /\ a \notin Calls /\ a \notin SyncCalls
  BY ReqsAssumption DEF Reqs
<1>2. req[a] \in ReqType /\ "SEND_FAILED" \in Statuses
  BY <1>1 DEF IndInv, TypeOK, Statuses
<1> DEFINE q == Finished(req[a], a, "SEND_FAILED")
<1>3. q \in ReqType
  BY <1>2, FinishedType
<1>4. q.state = "freed" /\ q.calls = req[a].calls + 1
  BY <1>1, <1>2 DEF Finished, ReqType
<1>5. req' = [req EXCEPT ![a] = q]
  OBVIOUS
<1> HIDE DEF q
<1>6. req[a].calls = 0
  BY <1>1 DEF IndInv, CalledFreed
<1>7. TypeOK'
  BY <1>1, <1>3, <1>5 DEF IndInv, TypeOK
<1>8. /\ Elems(pending)' = Elems(pending) /\ Elems(request_queue)' = Elems(request_queue)
      /\ Distinct(pending)' /\ Distinct(request_queue)'
  BY DEF Elems, Distinct, IndInv, OneList
<1>9. ~aborted /\ q.calls <= 1
  BY <1>4, <1>6
<1>10. /\ OneList' /\ ListedAllocated' /\ CalledFreed' /\ PendingAlive'
       /\ CallbackOnce' /\ SerialCalls'
  BY <1>1, <1>3, <1>4, <1>5, <1>8, <1>9, OneRequest
<1>11. QED
  BY <1>7, <1>10 DEF IndInv

\* A timeout takes the request off its list in the step that frees it.
LEMMA TimeoutInv == IndInv /\ Timeout => IndInv'
<1> SUFFICES ASSUME IndInv, Timeout PROVE IndInv'
  OBVIOUS
<1> USE DEF Timeout, InLoop, sockVars, loopVars, deadVars, wireVars
<1> DEFINE r == Head(timers)
<1>1. r \in Reqs /\ timers' \in Seq(Reqs)
  BY DEF IndInv, TypeOK
<1>2. CASE req[r].state # "pending"
  <2>1. TypeOK'
    BY <1>1, <1>2 DEF IndInv, TypeOK
  <2>2. OneList' /\ ListedAllocated' /\ SerialCalls'
    BY <1>2 DEF IndInv, OneList, ListedAllocated, SerialCalls, Elems, Distinct
  <2>3. CalledFreed' /\ CallbackOnce' /\ PendingAlive'
    BY <1>2 DEF IndInv, CalledFreed, CallbackOnce, PendingAlive, Elems
  <2>4. QED
    BY <2>1, <2>2, <2>3 DEF IndInv
<1>3. CASE req[r].state = "pending"
  <2> DEFINE q == Finished(req[r], r, "IO_TIMEOUT")
  <2>1. req[r] \in ReqType /\ "IO_TIMEOUT" \in Statuses
    BY <1>1 DEF IndInv, TypeOK, Statuses
  <2>2. q \in ReqType
    BY <2>1, FinishedType
  <2>3. /\ q.state # "new"
        /\ r \in SyncCalls => q.calls = req[r].calls
        /\ r \notin SyncCalls => q.state = "freed" /\ q.calls = req[r].calls + 1
    BY <2>1 DEF Finished, ReqType
  <2>4. req' = [req EXCEPT ![r] = q]
    BY <1>3
  <2>5. /\ pending' = Unlink(pending, r)
        /\ request_queue' = UnlinkForeign(request_queue, r)
        /\ last_fault' = FaultAfter(r, "IO_TIMEOUT")
    BY <1>3
  <2>6. req[r].calls <= 1 /\ (r \notin SyncCalls => req[r].calls = 0)
    BY <1>1, <1>3 DEF IndInv, CalledFreed, CallbackOnce
  <2> HIDE DEF q, r
  <2>7. /\ pending' \in Seq(Reqs) /\ Distinct(pending)'
        /\ Elems(pending)' = Elems(pending) \ {r}
    BY <2>5, UnlinkType, UnlinkElems DEF IndInv, TypeOK, OneList
  <2>8. /\ request_queue' \in Seq(Calls) /\ Distinct(request_queue)'
        /\ Elems(request_queue)' \subseteq Elems(request_queue)
    BY <2>5, UnlinkForeignElems DEF IndInv, TypeOK, OneList
  <2>9. last_fault' \in BOOLEAN
    BY <2>5 DEF FaultAfter
  <2>10. TypeOK'
    BY <1>1, <2>2, <2>4, <2>7, <2>8, <2>9 DEF IndInv, TypeOK
  <2>11. ~aborted /\ q.calls <= 1 /\ (r \notin SyncCalls => q.state = "freed")
    BY <2>3, <2>6
  <2>12. /\ OneList' /\ ListedAllocated' /\ CalledFreed' /\ PendingAlive'
         /\ CallbackOnce' /\ SerialCalls'
    BY <1>1, <2>2, <2>3, <2>4, <2>7, <2>8, <2>11, OneRequest
  <2>13. QED
    BY <2>10, <2>12 DEF IndInv
<1>4. QED
  BY <1>2, <1>3

\* The failure loop takes the request off pending before it frees it.
LEMMA DeadStepInv == IndInv /\ DeadStep => IndInv'
<1> SUFFICES ASSUME IndInv, DeadStep PROVE IndInv'
  OBVIOUS
<1> USE DEF DeadStep, sockVars, wireVars
<1> DEFINE r == Head(pending)
           n == IF r \in SyncCalls \/ req[r].state = "freed"
                THEN req[r].calls ELSE req[r].calls + 1
           q == [req[r] EXCEPT !.state = "freed", !.status = "DISCONNECTED", !.calls = n]
<1>1. r \in Reqs /\ r \in Elems(pending)
  BY DEF IndInv, TypeOK, Elems
<1>2. req[r] \in ReqType /\ req[r].calls \in Nat
  BY <1>1 DEF IndInv, TypeOK, ReqType
<1>3. n \in Nat /\ n <= 1
  <2>1. req[r].calls <= 1
    BY <1>1 DEF IndInv, CallbackOnce
  <2>2. r \notin SyncCalls /\ req[r].state # "freed" => req[r].calls = 0
    BY <1>1 DEF IndInv, CalledFreed
  <2>3. QED
    BY <1>2, <2>1, <2>2
<1>4. req' = [req EXCEPT ![r] = q]
  OBVIOUS
<1>5. timers' = Unlink(timers, r) /\ last_fault' = FaultAfter(r, "DISCONNECTED")
  OBVIOUS
<1>6. /\ pending' \in Seq(Reqs) /\ Distinct(pending)'
      /\ Elems(pending)' = Elems(pending) \ {r}
  BY TailElems DEF IndInv, TypeOK, OneList
<1>7. aborted' \in BOOLEAN
  OBVIOUS
<1> HIDE DEF n
<1>8. "DISCONNECTED" \in Statuses
  BY DEF Statuses
<1>9. q \in ReqType /\ q.state = "freed" /\ q.calls = n
  BY <1>2, <1>3, <1>8 DEF ReqType
<1> HIDE DEF q, r
<1>10. timers' \in Seq(Reqs)
  BY <1>5, UnlinkType DEF IndInv, TypeOK
<1>11. last_fault' \in BOOLEAN
  BY <1>5 DEF FaultAfter
<1>12. TypeOK'
  BY <1>1, <1>4, <1>6, <1>7, <1>9, <1>10, <1>11 DEF IndInv, TypeOK
<1>13. /\ Elems(request_queue)' = Elems(request_queue) /\ Distinct(request_queue)'
  BY DEF IndInv, OneList, Elems, Distinct
<1>14. ~aborted /\ q.calls <= 1
  BY <1>3, <1>9
<1>15. /\ OneList' /\ ListedAllocated' /\ CalledFreed' /\ PendingAlive'
       /\ CallbackOnce' /\ SerialCalls'
  BY <1>1, <1>4, <1>6, <1>9, <1>13, <1>14, OneRequest
<1>16. QED
  BY <1>12, <1>15 DEF IndInv

\* A blocked caller collects its call once and takes it off the lists.
LEMMA RequestRecvInv ==
  ASSUME NEW r \in SyncCalls PROVE IndInv /\ RequestRecv(r) => IndInv'
<1> SUFFICES ASSUME IndInv, RequestRecv(r) PROVE IndInv'
  OBVIOUS
<1> USE DEF RequestRecv, sockVars, wireVars
<1> DEFINE q == [req[r] EXCEPT !.state = "freed", !.calls = 1]
<1>1. r \in Reqs
  BY ReqsAssumption DEF Reqs
<1>2. req[r] \in ReqType
  BY <1>1 DEF IndInv, TypeOK
<1>3. q \in ReqType /\ q.state = "freed" /\ q.calls = 1
  BY <1>2 DEF ReqType
<1>4. req' = [req EXCEPT ![r] = q]
  OBVIOUS
<1> HIDE DEF q
<1>5. /\ pending' \in Seq(Reqs) /\ Distinct(pending)'
      /\ Elems(pending)' = Elems(pending) \ {r}
  BY UnlinkType, UnlinkElems DEF IndInv, TypeOK, OneList
<1>6. /\ request_queue' \in Seq(Calls) /\ Distinct(request_queue)'
      /\ Elems(request_queue)' \subseteq Elems(request_queue)
  BY UnlinkForeignElems DEF IndInv, TypeOK, OneList
<1>7. timers' \in Seq(Reqs)
  BY UnlinkType DEF IndInv, TypeOK
<1>8. last_fault' \in BOOLEAN /\ aborted' \in BOOLEAN
  OBVIOUS
<1>9. waiters' \in Seq(SyncCalls)
  BY DEF IndInv, TypeOK
<1>10. TypeOK'
  BY <1>1, <1>3, <1>4, <1>5, <1>6, <1>7, <1>8, <1>9 DEF IndInv, TypeOK
<1>11. ~aborted /\ q.calls <= 1
  BY <1>3
<1>12. /\ OneList' /\ ListedAllocated' /\ CalledFreed' /\ PendingAlive'
       /\ CallbackOnce' /\ SerialCalls'
  BY <1>1, <1>3, <1>4, <1>5, <1>6, <1>11, OneRequest
<1>13. QED
  BY <1>10, <1>12 DEF IndInv

\* The types of what every arriving packet changes.
LEMMA ArrivesType ==
  ASSUME IndInv, NEW r \in Reqs, NEW k, NEW b \in BOOLEAN, Arrives(r, k), SignGap(k, b)
  PROVE  /\ sent' \in [Reqs -> Nat] /\ sign_gap' \in Int /\ cut' \in BOOLEAN
         /\ OwedAfter(r, k) \subseteq Reqs
         /\ pending_reads - 1 \in Nat
         /\ ~aborted
<1>1. AuthChecked(k, b) \in Int
  BY DEF AuthChecked
<1>2. sign_gap \in Int
  BY DEF IndInv, TypeOK
<1>3. sign_gap' \in Int
  BY <1>1, <1>2 DEF SignGap
<1>4. sent' \in [Reqs -> Nat]
  BY DEF IndInv, TypeOK, Arrives
<1>5. OwedAfter(r, k) \subseteq Reqs
  BY DEF IndInv, TypeOK, OwedAfter
<1>6. pending_reads - 1 \in Nat /\ ~aborted
  BY DEF IndInv, TypeOK, Arrives, InLoop
<1>7. cut' \in BOOLEAN
  <2>1. cut' = (cut \/ k \in Cut)
    BY DEF SignGap
  <2> QED BY <2>1, Zenon
<1>8. QED
  BY <1>3, <1>4, <1>5, <1>6, <1>7

\* A dropped packet changes no request.
LEMMA RecvUnmatchedInv ==
  ASSUME NEW r \in Reqs, NEW k \in Packets(r) PROVE IndInv /\ RecvUnmatched(r, k) => IndInv'
<1> SUFFICES ASSUME IndInv, RecvUnmatched(r, k) PROVE IndInv'
  OBVIOUS
<1>1. Arrives(r, k) /\ SignGap(k, FALSE)
  BY DEF RecvUnmatched
<1>2. /\ sent' \in [Reqs -> Nat] /\ sign_gap' \in Int /\ cut' \in BOOLEAN
      /\ OwedAfter(r, k) \subseteq Reqs
      /\ pending_reads - 1 \in Nat
  BY <1>1, ArrivesType
<1>3. TypeOK'
  BY <1>1, <1>2 DEF IndInv, TypeOK, RecvUnmatched, Arrives
<1>4. OneList' /\ ListedAllocated' /\ SerialCalls'
  BY DEF IndInv, OneList, ListedAllocated, SerialCalls, Elems, Distinct, RecvUnmatched
<1>5. CalledFreed' /\ CallbackOnce' /\ PendingAlive'
  BY DEF IndInv, CalledFreed, CallbackOnce, PendingAlive, Elems, RecvUnmatched
<1>6. QED
  BY <1>3, <1>4, <1>5 DEF IndInv

\* A fragment of some reply is added to the payload of a request.
LEMMA PayloadType ==
  ASSUME NEW q \in ReqType, NEW r \in Reqs, NEW n \in Nat
  PROVE  /\ [q EXCEPT !.payload = Append(q.payload, <<r, n>>)] \in ReqType
         /\ [q EXCEPT !.payload = Append(q.payload, <<r, n>>)].state = q.state
         /\ [q EXCEPT !.payload = Append(q.payload, <<r, n>>)].calls = q.calls
<1>1. <<r, n>> \in Reqs \X Nat /\ q.payload \in Seq(Reqs \X Nat)
  BY DEF ReqType
<1>2. Append(q.payload, <<r, n>>) \in Seq(Reqs \X Nat)
  BY <1>1
<1> DEFINE pl == Append(q.payload, <<r, n>>)
<1> HIDE DEF pl
<1>3. /\ [q EXCEPT !.payload = pl] \in ReqType
      /\ [q EXCEPT !.payload = pl].state = q.state
      /\ [q EXCEPT !.payload = pl].calls = q.calls
  BY <1>2 DEF ReqType, pl
<1>4. QED
  BY <1>3 DEF pl

\* The reply of a bind or alter takes it off pending in the step that
\* completes it.
LEMMA RecvHandlerInv ==
  ASSUME NEW r \in Reqs, NEW m \in Alters, NEW k \in Packets(r)
  PROVE  IndInv /\ RecvHandler(r, k, m) => IndInv'
<1> SUFFICES ASSUME IndInv, RecvHandler(r, k, m) PROVE IndInv'
  OBVIOUS
<1>1. Arrives(r, k) /\ SignGap(k, TRUE)
  BY DEF RecvHandler
<1>2. /\ sent' \in [Reqs -> Nat] /\ sign_gap' \in Int /\ cut' \in BOOLEAN
      /\ OwedAfter(r, k) \subseteq Reqs
      /\ pending_reads - 1 \in Nat
      /\ ~aborted
  BY <1>1, ArrivesType
<1>3. m \in Reqs /\ m \notin Calls /\ m \notin SyncCalls
  BY ReqsAssumption DEF Reqs
<1>4. /\ pending' \in Seq(Reqs) /\ Distinct(pending)'
      /\ Elems(pending)' = Elems(pending) \ {m}
  BY UnlinkType, UnlinkElems DEF IndInv, TypeOK, OneList, RecvHandler
<1>5. Elems(request_queue)' = Elems(request_queue) /\ Distinct(request_queue)'
  BY DEF IndInv, OneList, Elems, Distinct, RecvHandler
<1>6. timers' \in Seq(Reqs)
  BY <1>3, UnlinkType DEF IndInv, TypeOK, TimersAfter, RecvHandler
<1>7. CASE req[m].state = "freed"
  <2>1. req' = req /\ aborted' = TRUE
    BY <1>7 DEF RecvHandler
  <2>2. TypeOK'
    BY <1>1, <1>2, <1>4, <1>6, <2>1 DEF IndInv, TypeOK, RecvHandler, Arrives
  <2>3. OneList' /\ ListedAllocated' /\ SerialCalls'
    BY <1>4, <1>5, <2>1 DEF IndInv, OneList, ListedAllocated, SerialCalls
  <2>4. CalledFreed' /\ CallbackOnce' /\ PendingAlive'
    BY <2>1 DEF IndInv, CalledFreed, CallbackOnce, PendingAlive
  <2>5. QED
    BY <2>2, <2>3, <2>4 DEF IndInv
<1>8. CASE req[m].state # "freed"
  <2> DEFINE st == HandlerStatus(k)
             f == Finished(req[m], m, st)
             q == [f EXCEPT !.payload = Append(f.payload, <<r, sent[r] + 1>>)]
  <2>1. req[m] \in ReqType /\ st \in Statuses /\ sent[r] + 1 \in Nat
    BY <1>3 DEF IndInv, TypeOK, Statuses, HandlerStatus
  <2>2. req' = [req EXCEPT ![m] = q]
    BY <1>8 DEF RecvHandler
  <2>3. req[m].calls = 0
    BY <1>3, <1>8 DEF IndInv, CalledFreed
  <2> HIDE DEF st
  <2>4. f \in ReqType
    BY <2>1, FinishedType
  <2>5. f.state = "freed" /\ f.calls = 1
    BY <1>3, <2>1, <2>3 DEF Finished, ReqType
  <2> HIDE DEF f
  <2>6. q \in ReqType /\ q.state = "freed" /\ q.calls = 1
    BY <2>1, <2>4, <2>5, PayloadType
  <2> HIDE DEF q
  <2>7. TypeOK'
    <3>1. req' \in [Reqs -> ReqType]
      BY <1>3, <2>2, <2>6 DEF IndInv, TypeOK
    <3>2. aborted' \in BOOLEAN
      BY DEF RecvHandler
    <3>3. QED
      BY <1>1, <1>2, <1>4, <1>6, <3>1, <3>2 DEF IndInv, TypeOK, RecvHandler, Arrives
  <2>8. q.calls <= 1
    BY <2>6
  <2>9. /\ OneList' /\ ListedAllocated' /\ CalledFreed' /\ PendingAlive'
        /\ CallbackOnce' /\ SerialCalls'
    BY <1>2, <1>3, <1>4, <1>5, <2>2, <2>6, <2>8, OneRequest
  <2>10. QED
    BY <2>7, <2>9 DEF IndInv
<1>9. QED
  BY <1>7, <1>8

\* A fragment extends a payload and completes nothing.
LEMMA RecvFragmentInv ==
  ASSUME NEW r \in Reqs, NEW m \in Calls PROVE IndInv /\ RecvFragment(r, m) => IndInv'
<1> SUFFICES ASSUME IndInv, RecvFragment(r, m) PROVE IndInv'
  OBVIOUS
<1>1. Arrives(r, "more") /\ SignGap("more", TRUE)
  BY DEF RecvFragment
<1>2. /\ sent' \in [Reqs -> Nat] /\ sign_gap' \in Int /\ cut' \in BOOLEAN
      /\ OwedAfter(r, "more") \subseteq Reqs
      /\ pending_reads - 1 \in Nat
      /\ ~aborted
  BY <1>1, ArrivesType
<1>3. m \in Reqs /\ m \in Elems(pending)
  BY DEF Reqs, RecvFragment, Matches, Elems
<1> DEFINE q == [req[m] EXCEPT !.payload = Append(req[m].payload, <<r, sent[r] + 1>>)]
<1>4. req[m] \in ReqType /\ sent[r] + 1 \in Nat
  BY <1>3 DEF IndInv, TypeOK
<1>5. q \in ReqType /\ q.state = req[m].state /\ q.calls = req[m].calls
  BY <1>4, PayloadType
<1>6. req' = [req EXCEPT ![m] = q]
  BY DEF RecvFragment
<1> HIDE DEF q
<1>7. /\ Elems(pending)' = Elems(pending) /\ Distinct(pending)'
      /\ Elems(request_queue)' = Elems(request_queue) /\ Distinct(request_queue)'
  BY DEF IndInv, OneList, Elems, Distinct, RecvFragment
<1>8. /\ req[m].state # "new" /\ req[m].state # "freed" /\ req[m].calls <= 1
      /\ m \notin SyncCalls => req[m].calls = 0
  BY <1>2, <1>3 DEF IndInv, ListedAllocated, PendingAlive, CalledFreed, CallbackOnce
<1>9. TypeOK'
  <2>1. pending_reads' \in Nat
    BY <1>2 DEF RecvFragment
  <2>2. req' \in [Reqs -> ReqType]
    BY <1>3, <1>5, <1>6 DEF IndInv, TypeOK
  <2>3. owed' \subseteq Reqs /\ garbled' = garbled
    BY <1>2 DEF RecvFragment, Arrives
  <2>4. UNCHANGED <<connVars, timers, sock_open, loopVars>>
    BY DEF RecvFragment, Arrives, connVars, loopVars, deadVars
  <2>5. QED
    BY <1>2, <2>1, <2>2, <2>3, <2>4 DEF IndInv, TypeOK, connVars, loopVars, deadVars
<1>10. /\ OneList' /\ ListedAllocated' /\ CalledFreed' /\ PendingAlive'
       /\ CallbackOnce' /\ SerialCalls'
  BY <1>2, <1>3, <1>5, <1>6, <1>7, <1>8, OneRequest
<1>11. QED
  BY <1>9, <1>10 DEF IndInv

\* A freshly allocated request.
LEMMA AllocatedType ==
  ASSUME NEW id \in 0 .. CallIdMod - 1, NEW ctx \in Nat, NEW ship \in Int,
         NEW st \in Statuses
  PROVE  /\ Allocated(id, ctx, ship, st) \in ReqType
         /\ Allocated(id, ctx, ship, st).state = "pending"
         /\ Allocated(id, ctx, ship, st).calls = 0
BY DEF Allocated, ReqType

\* A bind or alter joins pending beside the calls: it is fresh, so on no list.
LEMMA ContextSendInv ==
  ASSUME NEW a \in Alters, NEW sends \in BOOLEAN, NEW ctx \in Nat
  PROVE  IndInv /\ ContextSend(a, sends, ctx) => IndInv'
<1> SUFFICES ASSUME IndInv, ContextSend(a, sends, ctx) PROVE IndInv'
  OBVIOUS
<1>1. a \in Reqs /\ a \notin Calls
  BY ReqsAssumption DEF Reqs
<1>2. context_id' \in Nat
  BY DEF IndInv, TypeOK, ContextSend
<1> DEFINE q == IF sends THEN Allocated(call_id, ctx, ctx, "OK")
                         ELSE Allocated(call_id, ctx, -1, "SEND_FAILED")
<1>3. q.state = "pending" /\ q.calls = 0
  BY DEF Allocated
<1>4. q \in ReqType
  <2>1. call_id \in 0 .. CallIdMod - 1 /\ ctx \in Int
    BY <1>2 DEF IndInv, TypeOK
  <2>2. "OK" \in Statuses /\ "SEND_FAILED" \in Statuses
    BY DEF Statuses
  <2>3. QED
    BY <1>2, <2>1, <2>2, AllocatedType
<1>5. req' = [req EXCEPT ![a] = q]
  BY DEF ContextSend
<1> HIDE DEF q
<1>6. a \notin Elems(pending) /\ a \notin Elems(request_queue)
  BY DEF IndInv, ListedAllocated, ContextSend
<1>7. /\ pending' \in Seq(Reqs) /\ Distinct(pending)'
      /\ Elems(pending)' = Elems(pending) \cup {a}
  <2>1. pending' = AddEnd(pending, a)
    BY DEF ContextSend
  <2>2. pending \in Seq(Reqs) /\ Distinct(pending)
    BY DEF IndInv, TypeOK, OneList
  <2>3. /\ AddEnd(pending, a) \in Seq(Reqs) /\ Distinct(AddEnd(pending, a))
        /\ Elems(AddEnd(pending, a)) = Elems(pending) \cup {a}
    BY <1>1, <1>6, <2>2, AddEndElems
  <2>4. QED
    BY <2>1, <2>3 DEF Distinct, Elems
<1>8. Elems(request_queue)' = Elems(request_queue) /\ Distinct(request_queue)'
  BY DEF IndInv, OneList, Elems, Distinct, ContextSend
<1>9. TypeOK'
  <2>1. timers' \in Seq(Reqs)
    BY <1>1 DEF IndInv, TypeOK, ContextSend, ArmTimer
  <2>2. pending_reads' \in Nat
    BY DEF IndInv, TypeOK, ContextSend
  <2>3. owed' \subseteq Reqs
    BY <1>1 DEF IndInv, TypeOK, ContextSend
  <2>4. req' \in [Reqs -> ReqType]
    BY <1>1, <1>4, <1>5 DEF IndInv, TypeOK
  <2>5. QED
    BY <1>2, <1>7, <2>1, <2>2, <2>3, <2>4 DEF IndInv, TypeOK, ContextSend, loopVars, deadVars
<1>10. OneList' /\ SerialCalls'
  BY <1>1, <1>6, <1>7, <1>8 DEF IndInv, OneList, SerialCalls
<1>11. /\ \A x \in Reqs : x # a => req'[x] = req[x]
       /\ req'[a] = q
  BY <1>1, <1>5 DEF IndInv, TypeOK
<1>12. Elems(pending) \subseteq Reqs /\ Elems(request_queue) \subseteq Reqs
  BY DEF IndInv, TypeOK, Elems, Reqs
<1>13. ListedAllocated'
  BY <1>3, <1>6, <1>7, <1>8, <1>11, <1>12 DEF IndInv, ListedAllocated
<1>14. CalledFreed' /\ CallbackOnce'
  BY <1>3, <1>11 DEF IndInv, CalledFreed, CallbackOnce
<1>15. PendingAlive'
  BY <1>1, <1>7, <1>11, <1>12 DEF IndInv, PendingAlive, ContextSend, loopVars, deadVars
<1>16. QED
  BY <1>9, <1>10, <1>13, <1>14, <1>15 DEF IndInv

\* What dcerpc_ship_next_request does to the fields the invariant is about.
LEMMA ReqAfterShipFields ==
  ASSUME NEW rq \in [Reqs -> ReqType], NEW o, NEW x \in Reqs
  PROVE  /\ ReqAfterShip(rq, o)[x].calls = rq[x].calls
         /\ ReqAfterShip(rq, o)[x].state = "freed" <=> rq[x].state = "freed"
         /\ ReqAfterShip(rq, o)[x].state = "new" => rq[x].state = "new"
         /\ x \notin o.shipped \cup o.failed => ReqAfterShip(rq, o)[x] = rq[x]
BY DEF ReqAfterShip, ReqType

\* A new call joins the queue, and perhaps the head of the queue is shipped.
LEMMA RequestSendInv ==
  ASSUME NEW r \in Calls PROVE IndInv /\ RequestSend(r) => IndInv'
<1> SUFFICES ASSUME IndInv, RequestSend(r) PROVE IndInv'
  OBVIOUS
<1> DEFINE q == Allocated(NextCallId(call_id), context_id, -1, "OK")
           rq == [req EXCEPT ![r] = q]
           que == AddEnd(request_queue, r)
<1>1. r \in Reqs /\ r \notin Elems(pending) /\ r \notin Elems(request_queue)
  BY DEF IndInv, ListedAllocated, RequestSend, Reqs
<1>2. NextCallId(call_id) \in 1 .. CallIdMod - 1
  BY NextCallIdType DEF IndInv, TypeOK
<1>3. q \in ReqType /\ q.state = "pending" /\ q.calls = 0
  <2>1. NextCallId(call_id) \in 0 .. CallIdMod - 1 /\ -1 \in Int
    BY <1>2
  <2>2. "OK" \in Statuses /\ context_id \in Nat
    BY DEF Statuses, IndInv, TypeOK
  <2>3. QED
    BY <2>1, <2>2, AllocatedType
<1>4. PICK o \in ShipNext(que, pending) :
           /\ request_queue' = o.queue
           /\ pending' = o.pending
           /\ req' = ReqAfterShip(rq, o)
           /\ pending_reads' = pending_reads + Cardinality(o.shipped)
           /\ owed' = owed \cup o.shipped
           /\ aborted' = ShipsFreed(rq, o)
  BY DEF RequestSend
<1> HIDE DEF q
<1>5. /\ rq \in [Reqs -> ReqType] /\ rq[r] = q
      /\ \A x \in Reqs : x # r => rq[x] = req[x]
  BY <1>1, <1>3 DEF IndInv, TypeOK
<1> HIDE DEF rq
<1>6. /\ que \in Seq(Calls) /\ Distinct(que)
      /\ Elems(que) = Elems(request_queue) \cup {r}
  <2>1. request_queue \in Seq(Calls) /\ Distinct(request_queue)
    BY DEF IndInv, TypeOK, OneList
  <2>2. QED
    BY <1>1, <2>1, AddEndElems
<1> HIDE DEF que
<1>7. /\ pending \in Seq(Reqs) /\ Distinct(pending) /\ Elems(que) \cap Elems(pending) = {}
  BY <1>1, <1>6 DEF IndInv, TypeOK, OneList
<1>8. /\ o.queue \in Seq(Calls) /\ o.pending \in Seq(Reqs)
      /\ Distinct(o.queue) /\ Distinct(o.pending)
      /\ Elems(o.queue) \cap Elems(o.pending) = {}
      /\ o.shipped \subseteq Calls
      /\ Elems(o.queue) \subseteq Elems(que)
      /\ o.shipped \subseteq Elems(que)
      /\ Elems(o.pending) = Elems(pending) \cup o.shipped
      /\ Cardinality(o.shipped) \in {0, 1}
      /\ \A x, y \in o.shipped : x = y
      /\ o.shipped \subseteq AsyncCalls \/ Elems(pending) = {}
  BY <1>4, <1>6, <1>7, ShipLists, ZenonT(60)
<1>9. /\ Elems(pending)' = Elems(pending) \cup o.shipped
      /\ Elems(request_queue)' \subseteq Elems(que)
      /\ Distinct(pending)' /\ Distinct(request_queue)'
      /\ Elems(pending)' \cap Elems(request_queue)' = {}
  <2>1. /\ Elems(pending)' = Elems(o.pending) /\ Elems(request_queue)' = Elems(o.queue)
        /\ Distinct(pending)' = Distinct(o.pending)
        /\ Distinct(request_queue)' = Distinct(o.queue)
    BY <1>4 DEF Elems, Distinct
  <2>2. QED
    BY <1>8, <2>1
<1>10. TypeOK'
  <2>1. req' \in [Reqs -> ReqType]
    BY <1>4, <1>5, ReqAfterShipType DEF IndInv, TypeOK
  <2>2. timers' \in Seq(Reqs)
    BY <1>1 DEF IndInv, TypeOK, RequestSend, ArmTimer
  <2>3. pending_reads' \in Nat
    BY <1>4, <1>8 DEF IndInv, TypeOK
  <2>4. owed' \subseteq Reqs
    BY <1>4, <1>8 DEF IndInv, TypeOK, Reqs
  <2>5. aborted' \in BOOLEAN
    BY <1>4 DEF ShipsFreed
  <2>6. waiters' \in Seq(SyncCalls)
    BY DEF IndInv, TypeOK, RequestSend
  <2>7. call_id' \in 1 .. CallIdMod - 1
    BY <1>2 DEF RequestSend
  <2>8. request_queue' \in Seq(Calls) /\ pending' \in Seq(Reqs)
    BY <1>4, <1>8
  <2>9. QED
    BY <2>1, <2>2, <2>3, <2>4, <2>5, <2>6, <2>7, <2>8 DEF IndInv, TypeOK, RequestSend
<1>11. OneList' /\ SerialCalls'
  BY <1>8, <1>9 DEF IndInv, OneList, SerialCalls
<1>12. \A x \in Reqs : /\ req'[x].calls = rq[x].calls
                       /\ req'[x].state = "freed" <=> rq[x].state = "freed"
                       /\ req'[x].state = "new" => rq[x].state = "new"
  BY <1>4, <1>5, ReqAfterShipFields
<1>13. CalledFreed' /\ CallbackOnce'
  BY <1>3, <1>5, <1>12 DEF IndInv, CalledFreed, CallbackOnce
<1>14. /\ Elems(pending) \subseteq Reqs /\ Elems(que) \subseteq Reqs
       /\ Elems(pending)' \cup Elems(request_queue)'
            \subseteq Elems(pending) \cup Elems(request_queue) \cup {r}
  <2>1. Elems(pending) \subseteq Reqs /\ Elems(que) \subseteq Reqs
    BY <1>6, <1>7 DEF Elems, Reqs
  <2>2. QED
    BY <1>6, <1>8, <1>9, <2>1
<1>15. ListedAllocated'
  <2>1. SUFFICES ASSUME NEW x \in Elems(pending)' \cup Elems(request_queue)'
                 PROVE  req'[x].state # "new"
    BY DEF ListedAllocated
  <2>2. x \in Reqs
    BY <1>1, <1>6, <1>14, <2>1
  <2>3. rq[x].state # "new"
    BY <1>3, <1>5, <1>14, <2>1, <2>2 DEF IndInv, ListedAllocated
  <2>4. QED
    BY <1>12, <2>2, <2>3
<1>16. PendingAlive'
  <2>1. SUFFICES ASSUME ~aborted', NEW x \in Elems(pending)' \cap Calls
                 PROVE  req'[x].state # "freed"
    BY DEF PendingAlive
  <2>2. x \in Reqs
    BY <2>1 DEF Reqs
  <2>3. CASE x \in o.shipped
    BY <1>4, <1>12, <2>1, <2>2, <2>3 DEF ShipsFreed
  <2>4. CASE x \in Elems(pending)
    <3>1. ~aborted
      BY DEF RequestSend, MaySend
    <3>2. req[x].state # "freed" /\ x # r
      BY <1>1, <2>1, <2>4, <3>1 DEF IndInv, PendingAlive
    <3>3. QED
      BY <1>5, <1>12, <2>2, <3>2
  <2>5. QED
    BY <1>9, <2>1, <2>3, <2>4
<1>17. QED
  BY <1>10, <1>11, <1>13, <1>15, <1>16 DEF IndInv

\* The last packet of a reply takes the call off pending, ships the next one
\* into the gap and only then completes the call.
LEMMA RecvDoneInv ==
  ASSUME NEW r \in Reqs, NEW m \in Calls, NEW k \in Packets(r)
  PROVE  IndInv /\ RecvDone(r, k, m) => IndInv'
<1> SUFFICES ASSUME IndInv, RecvDone(r, k, m) PROVE IndInv'
  OBVIOUS
<1>1. Arrives(r, k) /\ SignGap(k, TRUE)
  BY DEF RecvDone
<1>2. /\ sent' \in [Reqs -> Nat] /\ sign_gap' \in Int /\ cut' \in BOOLEAN
      /\ OwedAfter(r, k) \subseteq Reqs
      /\ pending_reads - 1 \in Nat
      /\ ~aborted
  BY <1>1, ArrivesType
<1>3. m \in Reqs /\ m \in Elems(pending) /\ m \notin Elems(request_queue)
  BY DEF Reqs, RecvDone, Matches, Elems, IndInv, OneList
<1>4. /\ req[m].state # "freed" /\ req[m].calls <= 1
      /\ m \notin SyncCalls => req[m].calls = 0
  BY <1>2, <1>3 DEF IndInv, PendingAlive, CalledFreed, CallbackOnce
<1> DEFINE got == IF Accepted(k) THEN <<<<r, sent[r] + 1>>>> ELSE <<>>
           d == [req[m] EXCEPT !.payload = req[m].payload \o got, !.state = "done"]
           rq == [req EXCEPT ![m] = d]
           pend == Unlink(pending, m)
           q == Finished(rq[m], m, DoneStatus(k))
<1>5. PICK o \in ShipNext(request_queue, pend) :
           /\ request_queue' = o.queue
           /\ pending' = o.pending
           /\ req' = [ReqAfterShip(rq, o) EXCEPT ![m] = q]
           /\ pending_reads' = pending_reads - 1 + Cardinality(o.shipped)
           /\ owed' = OwedAfter(r, k) \cup o.shipped
           /\ aborted' = ShipsFreed(rq, o)
  BY DEF RecvDone
<1>6. req[m] \in ReqType /\ req[m].calls \in Nat
  BY <1>3 DEF IndInv, TypeOK, ReqType
<1>7. req[m].payload \o got \in Seq(Reqs \X Nat)
  <2>1. sent[r] + 1 \in Nat
    BY DEF IndInv, TypeOK
  <2>2. got \in Seq(Reqs \X Nat)
    <3> DEFINE e == <<r, sent[r] + 1>>
    <3>1. e \in Reqs \X Nat
      BY <2>1
    <3> HIDE DEF e
    <3>2. <<e>> \in Seq(Reqs \X Nat) /\ <<>> \in Seq(Reqs \X Nat)
      BY <3>1
    <3> QED BY <3>2 DEF e
  <2>3. req[m].payload \in Seq(Reqs \X Nat)
    BY <1>6 DEF ReqType
  <2> HIDE DEF got
  <2>4. QED
    BY <2>2, <2>3
<1> DEFINE pl == req[m].payload \o got
<1> HIDE DEF got, pl
<1>8. d \in ReqType /\ d.calls = req[m].calls /\ d.state = "done"
  <2>1. [req[m] EXCEPT !.payload = pl, !.state = "done"] \in ReqType
    BY <1>6, <1>7 DEF ReqType, pl
  <2>2. d = [req[m] EXCEPT !.payload = pl, !.state = "done"]
    BY DEF pl
  <2>3. d.calls = req[m].calls /\ d.state = "done"
    BY <1>6 DEF ReqType
  <2>4. QED
    BY <2>1, <2>2, <2>3
<1> HIDE DEF d
<1>9. /\ rq \in [Reqs -> ReqType] /\ rq[m] = d
      /\ \A x \in Reqs : x # m => rq[x] = req[x]
  BY <1>3, <1>8 DEF IndInv, TypeOK
<1> HIDE DEF rq
<1>10. /\ q \in ReqType
       /\ m \in SyncCalls => q.state = "done" /\ q.calls = req[m].calls
       /\ m \notin SyncCalls => q.state = "freed" /\ q.calls = req[m].calls + 1
  <2>1. DoneStatus(k) \in Statuses
    BY DEF DoneStatus, Statuses
  <2>2. QED
    BY <1>8, <1>9, <2>1, FinishedType DEF Finished, ReqType
<1>11. /\ q.state # "new" /\ q.calls <= 1
       /\ m \notin SyncCalls => q.state = "freed"
  BY <1>4, <1>10
<1> HIDE DEF q
<1>12. /\ pend \in Seq(Reqs) /\ Distinct(pend) /\ Elems(pend) = Elems(pending) \ {m}
       /\ request_queue \in Seq(Calls) /\ Distinct(request_queue)
       /\ Elems(request_queue) \cap Elems(pend) = {}
  <2>1. /\ pending \in Seq(Reqs) /\ Distinct(pending) /\ request_queue \in Seq(Calls)
        /\ Distinct(request_queue) /\ Elems(request_queue) \cap Elems(pending) = {}
    BY DEF IndInv, TypeOK, OneList
  <2>2. /\ pend \in Seq(Reqs) /\ Distinct(pend) /\ Elems(pend) = Elems(pending) \ {m}
    BY <2>1, UnlinkType, UnlinkElems
  <2>3. QED
    BY <2>1, <2>2
<1> HIDE DEF pend
<1>13. /\ o.queue \in Seq(Calls) /\ o.pending \in Seq(Reqs)
       /\ Distinct(o.queue) /\ Distinct(o.pending)
       /\ Elems(o.queue) \cap Elems(o.pending) = {}
       /\ o.shipped \subseteq Calls
       /\ Elems(o.queue) \subseteq Elems(request_queue)
       /\ o.shipped \subseteq Elems(request_queue)
       /\ Elems(o.pending) = Elems(pend) \cup o.shipped
       /\ Cardinality(o.shipped) \in {0, 1}
       /\ \A x, y \in o.shipped : x = y
       /\ o.shipped \subseteq AsyncCalls \/ Elems(pend) = {}
  BY <1>5, <1>12, ShipLists
<1>14. /\ Elems(pending)' = (Elems(pending) \ {m}) \cup o.shipped
       /\ Elems(request_queue)' \subseteq Elems(request_queue)
       /\ Distinct(pending)' /\ Distinct(request_queue)'
       /\ Elems(pending)' \cap Elems(request_queue)' = {}
       /\ m \notin Elems(pending)'
  <2>1. /\ Elems(pending)' = Elems(o.pending) /\ Elems(request_queue)' = Elems(o.queue)
        /\ Distinct(pending)' = Distinct(o.pending)
        /\ Distinct(request_queue)' = Distinct(o.queue)
    BY <1>5 DEF Elems, Distinct
  <2>2. QED
    BY <1>3, <1>12, <1>13, <2>1
<1>15. ReqAfterShip(rq, o) \in [Reqs -> ReqType]
  BY <1>9, ReqAfterShipType DEF IndInv, TypeOK
<1>16. TypeOK'
  <2>1. req' \in [Reqs -> ReqType]
    BY <1>3, <1>5, <1>10, <1>15
  <2>2. timers' \in Seq(Reqs)
    <3>1. timers \in Seq(Reqs) /\ timers' = TimersAfter(timers, m)
      BY DEF IndInv, TypeOK, RecvDone
    <3>2. QED
      BY <3>1, UnlinkType DEF TimersAfter
  <2>3. pending_reads' \in Nat
    BY <1>2, <1>5, <1>13
  <2>4. owed' \subseteq Reqs
    BY <1>2, <1>5, <1>13 DEF Reqs
  <2>5. aborted' \in BOOLEAN
    BY <1>5 DEF ShipsFreed
  <2>6. last_fault' \in BOOLEAN
    BY DEF RecvDone, FaultAfter
  <2>7. request_queue' \in Seq(Calls) /\ pending' \in Seq(Reqs)
    BY <1>5, <1>13
  <2>8. QED
    BY <1>1, <1>2, <2>1, <2>2, <2>3, <2>4, <2>5, <2>6, <2>7 DEF IndInv, TypeOK, Arrives
<1>17. OneList' /\ SerialCalls'
  BY <1>12, <1>13, <1>14 DEF IndInv, OneList, SerialCalls
<1>18. /\ req'[m] = q
       /\ \A x \in Reqs : x # m =>
            /\ req'[x].calls = req[x].calls
            /\ req'[x].state = "freed" <=> req[x].state = "freed"
            /\ req'[x].state = "new" => req[x].state = "new"
  <2>1. \A x \in Reqs : x # m => req'[x] = ReqAfterShip(rq, o)[x]
    BY <1>3, <1>5, <1>15
  <2>2. req'[m] = q
    BY <1>3, <1>5, <1>15
  <2>3. QED
    BY <1>9, <2>1, <2>2, ReqAfterShipFields
<1>19. CalledFreed' /\ CallbackOnce'
  BY <1>11, <1>18 DEF IndInv, CalledFreed, CallbackOnce
<1>20. ListedAllocated'
  <2>1. SUFFICES ASSUME NEW x \in Elems(pending)' \cup Elems(request_queue)'
                 PROVE  req'[x].state # "new"
    BY DEF ListedAllocated
  <2>2. x \in Elems(pending) \cup Elems(request_queue)
    BY <1>13, <1>14, <2>1
  <2>3. x \in Reqs
    BY <2>2 DEF IndInv, TypeOK, Elems, Reqs
  <2>4. QED
    BY <1>11, <1>18, <2>2, <2>3 DEF IndInv, ListedAllocated
<1>21. PendingAlive'
  <2>1. SUFFICES ASSUME ~aborted', NEW x \in Elems(pending)' \cap Calls
                 PROVE  req'[x].state # "freed"
    BY DEF PendingAlive
  <2>2. x \in Reqs /\ x # m
    BY <1>14, <2>1 DEF Reqs
  <2>3. CASE x \in o.shipped
    BY <1>5, <1>9, <1>18, <2>1, <2>2, <2>3 DEF ShipsFreed
  <2>4. CASE x \in Elems(pending)
    BY <1>2, <1>18, <2>1, <2>2, <2>4 DEF IndInv, PendingAlive
  <2>5. QED
    BY <1>14, <2>1, <2>3, <2>4
<1>22. QED
  BY <1>16, <1>17, <1>19, <1>20, <1>21 DEF IndInv

-----------------------------------------------------------------------------
(***************************************************************************)
(* The theorems                                                            *)
(***************************************************************************)

\* Every step of the connection, whichever handler it is, keeps the invariant.
LEMMA NextInv == IndInv /\ [Next]_vars => IndInv'
<1> SUFFICES ASSUME IndInv, [Next]_vars PROVE IndInv'
  OBVIOUS
<1>1. CASE UNCHANGED vars
  <2>1. TypeOK'
    BY <1>1 DEF IndInv, TypeOK, vars, connVars, sockVars, deadVars, loopVars, wireVars
  <2>2. OneList' /\ ListedAllocated' /\ SerialCalls'
    BY <1>1 DEF IndInv, OneList, ListedAllocated, SerialCalls, Elems, Distinct,
                vars, connVars
  <2>3. CalledFreed' /\ CallbackOnce' /\ PendingAlive'
    BY <1>1 DEF IndInv, CalledFreed, CallbackOnce, PendingAlive, Elems,
                vars, connVars, loopVars, deadVars
  <2>4. QED
    BY <2>1, <2>2, <2>3 DEF IndInv
<1>2. ASSUME NEW r \in Calls, RequestSend(r) PROVE IndInv'
  BY <1>2, RequestSendInv
<1>3. ASSUME NEW a \in Alters, NEW sends \in BOOLEAN, AlterSend(a, sends) \/ BindSend(a, sends)
      PROVE  IndInv'
  <2>1. context_id \in Nat /\ context_id + 1 \in Nat
    BY DEF IndInv, TypeOK
  <2>2. QED
    BY <1>3, <2>1, ContextSendInv DEF AlterSend, BindSend
<1>4. ASSUME NEW a \in Alters, AlterSendFailed(a) PROVE IndInv'
  BY <1>4, AlterSendFailedInv
<1>5. ASSUME NEW r \in Reqs, NEW k \in Packets(r), RecvUnmatched(r, k) PROVE IndInv'
  BY <1>5, RecvUnmatchedInv
<1>6. ASSUME NEW r \in Reqs, NEW m \in Alters, NEW k \in Packets(r), RecvHandler(r, k, m)
      PROVE  IndInv'
  BY <1>6, RecvHandlerInv
<1>7. ASSUME NEW r \in Reqs, NEW m \in Calls, RecvFragment(r, m) PROVE IndInv'
  BY <1>7, RecvFragmentInv
<1>8. ASSUME NEW r \in Reqs, NEW m \in Calls, NEW k \in Packets(r), RecvDone(r, k, m)
      PROVE  IndInv'
  BY <1>8, RecvDoneInv
<1>9. ASSUME NEW r \in Reqs, RecvMalformed(r) PROVE IndInv'
  BY <1>9, RecvMalformedInv
<1>10. ASSUME NEW r \in SyncCalls, RequestRecv(r) PROVE IndInv'
  BY <1>10, RequestRecvInv
<1>11. CASE Timeout \/ SockDead \/ DeadStep \/ DeadEnd
  BY <1>11, TimeoutInv, SockDeadInv, DeadStepInv, DeadEndInv
<1>12. QED
  BY <1>1, <1>2, <1>3, <1>4, <1>5, <1>6, <1>7, <1>8, <1>9, <1>10, <1>11 DEF Next

\* The inductive invariant holds for ever: lists and requests stay consistent
\* under every order of sends, replies, timeouts and failures.
THEOREM Invariance == Spec => []IndInv
<1>1. Init => IndInv
  BY InitInv
<1>2. IndInv /\ [Next]_vars => IndInv'
  BY NextInv
<1>3. QED
  BY <1>1, <1>2, PTL DEF Spec

\* Every variable of the connection keeps its type; in particular the count of
\* requested reads (sock->pending_reads) never goes below zero.
THEOREM TypeCorrect == Spec => []TypeOK
<1>1. IndInv => TypeOK
  BY DEF IndInv
<1>2. QED
  BY <1>1, Invariance, PTL

\* No request of dcerpc.c is completed twice, for any number of requests: a
\* reply, a timeout and the death of the connection exclude each other.
THEOREM CallbackAtMostOnce == Spec => []CallbackOnce
<1>1. IndInv => CallbackOnce
  BY DEF IndInv
<1>2. QED
  BY <1>1, Invariance, PTL

\* dcerpc_ship_next_request keeps calls without the async attribute apart: at
\* most one of them is outstanding, for any number of calls and alters.
THEOREM CallsAreSerial == Spec => []SerialCalls
<1>1. IndInv => SerialCalls
  BY DEF IndInv
<1>2. QED
  BY <1>1, Invariance, PTL
-----------------------------------------------------------------------------
(***************************************************************************)
(* What the callers of a connection may rely on, for every set of calls,   *)
(* binds and alters and every length of the replies: a call is given its   *)
(* own reply, the process is aborted only for one of the named causes, and *)
(* the connection implements RpcService.                                   *)
(*                                                                         *)
(* The invariants are said of requests rq and lists que and pend, as       *)
(* dcerpc_ship_next_request works on what its caller has changed already.  *)
(***************************************************************************)

(***************************************************************************)
(* Why a request may be freed where the code still uses it.  A call that   *)
(* has ended in the queue has timed out there; a freed alter on pending    *)
(* was not sent; what became pending while dcerpc_connection_dead ran, and *)
(* is no alter, did so on a socket that is still open, after a malformed   *)
(* packet; and a blocked caller loses its call with the connection.        *)
(***************************************************************************)
Ended(rq, que, pend) ==
  /\ \A r \in Elems(que) : rq[r].state \in {"done", "freed"} => rq[r].status = "IO_TIMEOUT"
  /\ \A a \in Elems(pend) \cap Alters : rq[a].state = "freed" => rq[a].status = "SEND_FAILED"

DeniedPending ==
  failing /\ ~garbled => ~sock_open /\ Elems(pending) \cap Calls \subseteq denied

WaitersOnce ==
  /\ Distinct(waiters)
  /\ \A r \in Elems(waiters) : /\ req[r].state # "new"
                               /\ req[r].state = "freed" => req[r].status = "DISCONNECTED"

AbortInv ==
  /\ AbortExplained
  /\ ~aborted => Ended(req, request_queue, pending) /\ DeniedPending /\ WaitersOnce

(***************************************************************************)
(* Call ids: no two calls have the same, as the counter does not wrap.     *)
(***************************************************************************)
Issued == {c \in Calls : req[c].state # "new"}

TicketInv ==
  /\ call_id = Cardinality(Issued) + 1
  /\ \A c \in Issued : 1 < req[c].call_id /\ req[c].call_id <= call_id
  /\ \A c, d \in Issued : req[c].call_id = req[d].call_id => c = d
  /\ \A c \in Calls \ Issued : req[c].call_id = 0

(***************************************************************************)
(* Replies: on pending, calls come before alters, which may have the call  *)
(* id of a call.  A call has been given exactly the fragments that the     *)
(* server has sent of its reply, as long as it is pending.                 *)
(***************************************************************************)
CallsFirst(pend) ==
  \A i, j \in DOMAIN pend : i < j => ~(pend[i] \in Alters /\ pend[j] \in Calls)

Replies(rq, que, pend, ow, sn) ==
  /\ CallsFirst(pend)
  /\ \A r \in Reqs : r \notin ow => sn[r] = 0
  /\ \A r \in Calls : rq[r].state = "new" \/ r \in Elems(que) =>
       r \notin ow /\ rq[r].payload = <<>>
  /\ \A r \in Calls : r \in Elems(pend) /\ r \in ow => Len(rq[r].payload) = sn[r]
  /\ \A r \in Calls : \A n \in DOMAIN rq[r].payload : rq[r].payload[n] = <<r, n>>

ReplyInv == Replies(req, request_queue, pending, owed, sent)

(***************************************************************************)
(* The order of issue: the queue is sorted by call id, what was shipped is *)
(* older than what is queued, and the calls on pending are those with the  *)
(* server.                                                                 *)
(***************************************************************************)
Order(rq, que, pend) ==
  /\ \A i, j \in DOMAIN que : i < j => rq[que[i]].call_id < rq[que[j]].call_id
  /\ \A c \in Elems(que) :
       /\ rq[c].shipped = -1
       /\ \A d \in Calls : rq[d].shipped # -1 => rq[d].call_id < rq[c].call_id
  /\ \A c \in Calls : rq[c].state = "new" => rq[c].shipped = -1
  /\ \A c \in Calls : rq[c].state \in {"done", "freed"} /\ rq[c].status = "OK" =>
       rq[c].shipped # -1
  /\ \A c \in Calls : c \in Elems(pend) <=> rq[c].state = "pending" /\ rq[c].shipped # -1

(***************************************************************************)
(* In a client in which no caller blocks inside the event loop of another, *)
(* a queued call that is done is the blocked caller's, which goes on       *)
(* before the call can be shipped.                                         *)
(***************************************************************************)
Blocked ==
  /\ \A s \in SyncCalls : req[s].state \in {"pending", "done"} => s \in Elems(waiters)
  /\ \A c \in Elems(request_queue) : req[c].state = "done" => ~failing /\ c \in Elems(waiters)

ServiceInv == ~aborted => Order(req, request_queue, pending) /\ Blocked
-----------------------------------------------------------------------------
(***************************************************************************)
(* Lists.                                                                  *)
(***************************************************************************)

\* What is in t is in s, in the same order.
Sub(t, s) ==
  /\ Elems(t) \subseteq Elems(s)
  /\ \A i, j \in DOMAIN t : i < j =>
       \E k, l \in DOMAIN s : k < l /\ s[k] = t[i] /\ s[l] = t[j]

\* A list keeps its own order.
LEMMA SubSelf == \A s : Sub(s, s)
  BY DEF Sub

\* DLIST_REMOVE keeps the order of what stays.
LEMMA UnlinkSub ==
  ASSUME NEW S, NEW s \in Seq(S), NEW r
  PROVE  Sub(Unlink(s, r), s)
<1>1. CASE r \notin Elems(s)
  BY <1>1, SubSelf DEF Unlink
<1>2. CASE r \in Elems(s)
  <2> DEFINE n == CHOOSE i \in DOMAIN s : s[i] = r
  <2> DEFINE u == [i \in 1 .. Len(s) - 1 |-> IF i < n THEN s[i] ELSE s[i + 1]]
  <2>1. n \in 1 .. Len(s) /\ Len(s) \in Nat /\ DOMAIN s = 1 .. Len(s)
    BY <1>2 DEF Elems
  <2>2. Unlink(s, r) = u
    BY <1>2 DEF Unlink
  <2> HIDE DEF n
  <2>3. DOMAIN u = 1 .. Len(s) - 1
    OBVIOUS
  <2> DEFINE p(k) == IF k < n THEN k ELSE k + 1
  <2>4. \A i \in DOMAIN u : p(i) \in DOMAIN s /\ s[p(i)] = u[i]
    BY <2>1
  <2>5. \A i, j \in DOMAIN u : i < j => p(i) < p(j)
    BY <2>1
  <2> HIDE DEF u, p
  <2>6. Sub(u, s)
    BY <2>4, <2>5 DEF Sub, Elems
  <2> QED BY <2>2, <2>6
<1> QED BY <1>1, <1>2

\* So does removing the head, which is in front of all the others.
LEMMA TailSub ==
  ASSUME NEW S, NEW s \in Seq(S), s # <<>>
  PROVE  /\ Sub(Tail(s), s)
         /\ \A y \in Elems(Tail(s)) :
              \E i, j \in DOMAIN s : i < j /\ s[i] = Head(s) /\ s[j] = y
<1> DEFINE t == Tail(s)
<1>1. /\ DOMAIN t = 1 .. Len(s) - 1
      /\ \A i \in 1 .. Len(s) - 1 : t[i] = s[i + 1]
      /\ Head(s) = s[1]
  OBVIOUS
<1>2. Len(s) \in Nat \ {0} /\ DOMAIN s = 1 .. Len(s)
  BY EmptySeq
<1> HIDE DEF t
<1>3. \A i \in DOMAIN t : i + 1 \in DOMAIN s /\ t[i] = s[i + 1] /\ 1 < i + 1
  BY <1>1, <1>2
<1>4. \A i, j \in DOMAIN t : i < j => i + 1 < j + 1
  BY <1>1, <1>2
<1>5. Sub(t, s)
  BY <1>3, <1>4 DEF Sub, Elems
<1>6. 1 \in DOMAIN s
  BY <1>2
<1>7. \A y \in Elems(t) : \E i, j \in DOMAIN s : i < j /\ s[i] = Head(s) /\ s[j] = y
  BY <1>1, <1>3, <1>6 DEF Elems
<1> QED BY <1>5, <1>7 DEF t

\* DLIST_REMOVE through another list's head can only shorten the list from its front.
LEMMA UnlinkForeignSub ==
  ASSUME NEW que \in Seq(Calls), NEW r
  PROVE  Sub(UnlinkForeign(que, r), que)
<1>1. CASE que # <<>> /\ Head(que) = r
  <2>1. UnlinkForeign(que, r) = <<r>>
    BY <1>1 DEF UnlinkForeign
  <2>2. 1 \in DOMAIN que /\ que[1] = r
    BY <1>1, EmptySeq
  <2>3. \A i, j \in DOMAIN <<r>> : ~(i < j) /\ <<r>>[i] = r
    OBVIOUS
  <2>4. Elems(<<r>>) \subseteq Elems(que)
    BY <2>2, <2>3 DEF Elems
  <2> QED BY <2>1, <2>3, <2>4 DEF Sub
<1>2. CASE ~(que # <<>> /\ Head(que) = r)
  BY <1>2, UnlinkSub DEF UnlinkForeign
<1> QED BY <1>1, <1>2

\* A new element at the end, or in front.
LEMMA AddEndOrder ==
  ASSUME NEW S, NEW s \in Seq(S), NEW x
  PROVE  \A i, j \in DOMAIN AddEnd(s, x) : i < j =>
           \/ i \in DOMAIN s /\ j \in DOMAIN s
              /\ AddEnd(s, x)[i] = s[i] /\ AddEnd(s, x)[j] = s[j]
           \/ AddEnd(s, x)[i] \in Elems(s) /\ AddEnd(s, x)[j] = x
  BY DEF AddEnd, Elems

\* DLIST_ADD puts the new element before the others and leaves their order.
LEMMA AddFrontOrder ==
  ASSUME NEW S, NEW s \in Seq(S), NEW x
  PROVE  \A i, j \in DOMAIN (<<x>> \o s) : i < j =>
           \/ i - 1 \in DOMAIN s /\ j - 1 \in DOMAIN s /\ i - 1 < j - 1
              /\ (<<x>> \o s)[i] = s[i - 1] /\ (<<x>> \o s)[j] = s[j - 1]
           \/ (<<x>> \o s)[i] = x /\ (<<x>> \o s)[j] \in Elems(s)
<1> DEFINE b == <<x>> \o s
<1>1. /\ DOMAIN b = 1 .. Len(s) + 1
      /\ \A i \in 2 .. Len(s) + 1 : b[i] = s[i - 1]
      /\ b[1] = x
  OBVIOUS
<1>2. Len(s) \in Nat /\ DOMAIN s = 1 .. Len(s)
  OBVIOUS
<1> HIDE DEF b
<1>3. \A i \in DOMAIN b : i = 1 \/ (i - 1 \in DOMAIN s /\ b[i] = s[i - 1])
  BY <1>1, <1>2
<1>4. \A i, j \in DOMAIN b : i < j => j # 1 /\ i - 1 < j - 1
  BY <1>1, <1>2
<1>5. \A i, j \in DOMAIN b : i < j =>
           \/ i - 1 \in DOMAIN s /\ j - 1 \in DOMAIN s /\ i - 1 < j - 1
              /\ b[i] = s[i - 1] /\ b[j] = s[j - 1]
           \/ b[i] = x /\ b[j] \in Elems(s)
  BY <1>1, <1>3, <1>4 DEF Elems
<1> QED BY <1>5 DEF b

\* x stands before y in s.
Before(s, x, y) == \E i, j \in DOMAIN s : i < j /\ s[i] = x /\ s[j] = y

\* s is t, or t with a call in front.
InFront(s, t) == s = t \/ \E h \in Calls : s = <<h>> \o t

\* dcerpc_ship_next_request takes the oldest call of the queue, and ships it
\* in front of what is pending.
LEMMA ShipOrder ==
  ASSUME NEW que \in Seq(Calls), NEW pend \in Seq(Reqs), NEW o \in ShipNext(que, pend),
         Distinct(que)
  PROVE  /\ Sub(o.queue, que)
         /\ \A x \in o.shipped \cup o.failed :
              /\ x \notin Elems(o.queue)
              /\ \A y \in Elems(o.queue) : Before(que, x, y)
         /\ o.shipped # {} => sock_open
         /\ o.shipped \cap o.failed = {}
         /\ InFront(o.pending, pend)
<1>1. CASE o = [queue |-> que, pending |-> pend, shipped |-> {}, failed |-> {}]
  BY <1>1, SubSelf DEF InFront
<1> DEFINE h == Head(que)
<1>2. ASSUME que # <<>>
      PROVE  /\ h \in Calls /\ h \notin Elems(Tail(que)) /\ Sub(Tail(que), que)
             /\ \A y \in Elems(Tail(que)) : Before(que, h, y)
  <2>1. Elems(que) \subseteq Calls
    BY DEF Elems
  <2> QED BY <1>2, <2>1, TailElems, TailSub DEF Before
<1>3. CASE que # <<>> /\ o = ShipFailed(que, pend)
  <2>1. o.queue = Tail(que) /\ o.pending = pend /\ o.shipped = {} /\ o.failed = {h}
    BY <1>3 DEF ShipFailed
  <2> QED BY <1>2, <1>3, <2>1 DEF InFront
<1>4. CASE que # <<>> /\ sock_open /\ o = ShipDone(que, pend)
  <2>1. o.queue = Tail(que) /\ o.pending = <<h>> \o pend /\ o.shipped = {h} /\ o.failed = {}
    BY <1>4 DEF ShipDone
  <2>2. /\ h \in Calls /\ h \notin Elems(Tail(que)) /\ Sub(Tail(que), que)
        /\ \A y \in Elems(Tail(que)) : Before(que, h, y)
    BY <1>2, <1>4
  <2> HIDE DEF h
  <2>3. InFront(o.pending, pend)
    BY <2>1, <2>2 DEF InFront
  <2>4. \A x \in o.shipped \cup o.failed : x = h
    BY <2>1
  <2>5. o.shipped \cap o.failed = {} /\ sock_open /\ o.queue = Tail(que)
    BY <1>4, <2>1
  <2>6. \A x \in o.shipped \cup o.failed :
          /\ x \notin Elems(o.queue)
          /\ \A y \in Elems(o.queue) : Before(que, x, y)
    BY <2>2, <2>4, <2>5, Zenon
  <2>7. Sub(o.queue, que)
    BY <2>2, <2>5, Zenon
  <2> QED BY <2>3, <2>5, <2>6, <2>7, Zenon
<1> QED BY <1>1, <1>3, <1>4 DEF ShipNext
-----------------------------------------------------------------------------
(***************************************************************************)
(* What each handler does to the requests.                                 *)
(***************************************************************************)

\* A call that could not be sent is done; a shipped one is on the wire.  The
\* other requests, and those that are freed, stay as they are.
LEMMA ShipWhat ==
  ASSUME NEW rq \in [Reqs -> ReqType], NEW o, NEW x \in Reqs, o.shipped \cap o.failed = {}
  PROVE  /\ x \notin o.shipped \cup o.failed => ReqAfterShip(rq, o)[x] = rq[x]
         /\ rq[x].state = "freed" => ReqAfterShip(rq, o)[x] = rq[x]
         /\ rq[x].state # "freed" /\ x \in o.failed =>
              /\ ReqAfterShip(rq, o)[x].state = "done"
              /\ ReqAfterShip(rq, o)[x].status = "SEND_FAILED"
              /\ ReqAfterShip(rq, o)[x].shipped = rq[x].shipped
         /\ rq[x].state # "freed" /\ x \in o.shipped =>
              /\ ReqAfterShip(rq, o)[x].state = rq[x].state
              /\ ReqAfterShip(rq, o)[x].status = "OK"
              /\ ReqAfterShip(rq, o)[x].shipped = context_id
         /\ ReqAfterShip(rq, o)[x].call_id = rq[x].call_id
         /\ ReqAfterShip(rq, o)[x].payload = rq[x].payload
BY DEF ReqAfterShip, ReqType

\* dcerpc_request_send: the new call q, and the outcome o of the ship.
SendsWith(r, q, o) ==
  /\ req[r].state = "new"
  /\ r \notin Elems(request_queue) /\ r \notin Elems(pending)
  /\ q.state = "pending" /\ q.status = "OK" /\ q.payload = <<>>
  /\ q.call_id = NextCallId(call_id) /\ q.shipped = -1
  /\ request_queue' = o.queue
  /\ pending' = o.pending
  /\ req' = ReqAfterShip([req EXCEPT ![r] = q], o)
  /\ owed' = owed \cup o.shipped
  /\ aborted' = ShipsFreed([req EXCEPT ![r] = q], o)

\* dcerpc_request_send ships from the queue that ends with the new call.
LEMMA RequestSendShips ==
  ASSUME IndInv, NEW r \in Calls, RequestSend(r)
  PROVE  \E q \in ReqType : \E o \in ShipNext(AddEnd(request_queue, r), pending) :
           SendsWith(r, q, o)
<1> DEFINE q == Allocated(NextCallId(call_id), context_id, -1, "OK")
<1>1. NextCallId(call_id) \in 1 .. CallIdMod - 1 /\ context_id \in Nat
  BY NextCallIdType DEF IndInv, TypeOK
<1>2. /\ q \in ReqType
      /\ q.state = "pending" /\ q.status = "OK" /\ q.payload = <<>>
      /\ q.call_id = NextCallId(call_id) /\ q.shipped = -1
  <2>1. NextCallId(call_id) \in 0 .. CallIdMod - 1 /\ -1 \in Int /\ "OK" \in Statuses
    BY <1>1 DEF Statuses
  <2>2. q \in ReqType
    BY <1>1, <2>1, AllocatedType
  <2> QED BY <2>2 DEF Allocated
<1>3. req[r].state = "new" /\ r \notin Elems(request_queue) /\ r \notin Elems(pending)
  BY DEF RequestSend, IndInv, ListedAllocated
<1>4. \E o \in ShipNext(AddEnd(request_queue, r), pending) :
           /\ request_queue' = o.queue
           /\ pending' = o.pending
           /\ req' = ReqAfterShip([req EXCEPT ![r] = q], o)
           /\ owed' = owed \cup o.shipped
           /\ aborted' = ShipsFreed([req EXCEPT ![r] = q], o)
  BY DEF RequestSend
<1> HIDE DEF q
<1> QED BY <1>2, <1>3, <1>4 DEF SendsWith

\* The end of a call: the call as it ends, q, and the outcome o of the ship.
DoneWith(r, k, m, q, o) ==
  /\ m \in Elems(pending) /\ m \notin Elems(request_queue)
  /\ q.state = IF m \in SyncCalls THEN "done" ELSE "freed"
  /\ q.status = DoneStatus(k)
  /\ q.payload = IF Accepted(k) THEN req[m].payload \o <<<<r, sent[r] + 1>>>>
                                ELSE req[m].payload
  /\ q.call_id = req[m].call_id /\ q.shipped = req[m].shipped
  /\ request_queue' = o.queue
  /\ pending' = o.pending
  /\ req' = ReqAfterShip([req EXCEPT ![m] = q], o)
  /\ owed' = OwedAfter(r, k) \cup o.shipped
  /\ aborted' = ShipsFreed([req EXCEPT ![m] = q], o)

\* The end of a call ships from the queue as it is, with the call off pending.
LEMMA RecvDoneShips ==
  ASSUME IndInv, NEW r \in Reqs, NEW m \in Calls, NEW k \in Packets(r), RecvDone(r, k, m)
  PROVE  \E q \in ReqType : \E o \in ShipNext(request_queue, Unlink(pending, m)) :
           DoneWith(r, k, m, q, o)
<1> DEFINE got == IF Accepted(k) THEN <<<<r, sent[r] + 1>>>> ELSE <<>>
           pl == req[m].payload \o got
           d == [req[m] EXCEPT !.payload = pl, !.state = "done"]
           rq == [req EXCEPT ![m] = d]
           pend == Unlink(pending, m)
           q == Finished(d, m, DoneStatus(k))
           rq2 == [req EXCEPT ![m] = q]
<1>1. m \in Reqs /\ m \in Elems(pending) /\ m \notin Elems(request_queue)
  BY DEF Reqs, RecvDone, Matches, Elems, IndInv, OneList
<1>2. req[m] \in ReqType /\ req \in [Reqs -> ReqType]
  BY <1>1 DEF IndInv, TypeOK
<1>3. req[m].payload \in Seq(Reqs \X Nat) /\ got \in Seq(Reqs \X Nat)
  <2>1. sent[r] + 1 \in Nat
    BY DEF IndInv, TypeOK
  <2> DEFINE e == <<r, sent[r] + 1>>
  <2>2. e \in Reqs \X Nat
    BY <2>1
  <2> HIDE DEF e
  <2>3. <<e>> \in Seq(Reqs \X Nat) /\ <<>> \in Seq(Reqs \X Nat)
    BY <2>2
  <2>4. got \in Seq(Reqs \X Nat)
    BY <2>3 DEF e
  <2>5. req[m].payload \in Seq(Reqs \X Nat)
    BY <1>2 DEF ReqType
  <2> QED BY <2>4, <2>5
<1>4. pl \in Seq(Reqs \X Nat)
  <2> HIDE DEF got
  <2> QED BY <1>3
<1>5. pl = IF Accepted(k) THEN req[m].payload \o <<<<r, sent[r] + 1>>>> ELSE req[m].payload
  <2>1. \A p \in Seq(Reqs \X Nat) : p \o <<>> = p
    OBVIOUS
  <2> QED BY <1>3, <2>1
<1>6. PICK o \in ShipNext(request_queue, pend) :
           /\ request_queue' = o.queue
           /\ pending' = o.pending
           /\ req' = [ReqAfterShip(rq, o) EXCEPT ![m] = Finished(rq[m], m, DoneStatus(k))]
           /\ owed' = OwedAfter(r, k) \cup o.shipped
           /\ aborted' = ShipsFreed(rq, o)
  BY DEF RecvDone
<1> HIDE DEF pl, got
<1>7. /\ d \in ReqType /\ d.state = "done" /\ d.payload = pl
      /\ d.call_id = req[m].call_id /\ d.shipped = req[m].shipped
  BY <1>2, <1>4 DEF ReqType
<1> HIDE DEF d
<1>8. /\ q \in ReqType
      /\ q.state = IF m \in SyncCalls THEN "done" ELSE "freed"
      /\ q.status = DoneStatus(k) /\ q.payload = pl
      /\ q.call_id = req[m].call_id /\ q.shipped = req[m].shipped
  <2>1. DoneStatus(k) \in Statuses
    BY DEF DoneStatus, Statuses
  <2>2. q \in ReqType
    BY <1>7, <2>1, FinishedType
  <2> QED BY <1>7, <2>2 DEF Finished, ReqType
<1> HIDE DEF q
<1>9. /\ rq \in [Reqs -> ReqType] /\ rq[m] = d /\ rq2 \in [Reqs -> ReqType] /\ rq2[m] = q
      /\ \A x \in Reqs : x # m => rq[x] = rq2[x]
  BY <1>1, <1>2, <1>7, <1>8
<1> HIDE DEF rq, rq2
<1>10. /\ pend \in Seq(Reqs) /\ Distinct(pend) /\ Elems(pend) = Elems(pending) \ {m}
       /\ request_queue \in Seq(Calls) /\ Distinct(request_queue)
       /\ Elems(request_queue) \cap Elems(pend) = {}
  <2>1. /\ pending \in Seq(Reqs) /\ Distinct(pending) /\ request_queue \in Seq(Calls)
        /\ Distinct(request_queue) /\ Elems(request_queue) \cap Elems(pending) = {}
    BY DEF IndInv, TypeOK, OneList
  <2>2. /\ pend \in Seq(Reqs) /\ Distinct(pend) /\ Elems(pend) = Elems(pending) \ {m}
    BY <2>1, UnlinkType, UnlinkElems
  <2> QED BY <2>1, <2>2
<1> HIDE DEF pend
<1>11. o.shipped \subseteq Elems(request_queue) /\ o.failed \subseteq Elems(request_queue)
       /\ o.shipped \subseteq Calls /\ o.failed \subseteq Calls
  BY <1>10, ShipLists
<1>12. m \notin o.shipped \cup o.failed /\ o.shipped \cup o.failed \subseteq Reqs
  BY <1>1, <1>11 DEF Reqs
<1>13. ShipsFreed(rq, o) = ShipsFreed(rq2, o)
  BY <1>9, <1>12 DEF ShipsFreed
<1>14. [ReqAfterShip(rq, o) EXCEPT ![m] = q] = ReqAfterShip(rq2, o)
  <2> DEFINE f == [ReqAfterShip(rq, o) EXCEPT ![m] = q]
             g == ReqAfterShip(rq2, o)
  <2>1. DOMAIN f = Reqs /\ DOMAIN g = Reqs
    BY DEF ReqAfterShip
  <2>2. f = [x \in Reqs |-> f[x]] /\ g = [x \in Reqs |-> g[x]]
    BY DEF ReqAfterShip
  <2>3. ASSUME NEW x \in Reqs PROVE f[x] = g[x]
    <3>1. CASE x = m
      BY <1>1, <1>9, <1>12, <3>1 DEF ReqAfterShip
    <3>2. CASE x # m
      BY <1>9, <3>2 DEF ReqAfterShip
    <3> QED BY <3>1, <3>2
  <2> HIDE DEF f, g
  <2>4. f = g
    BY <2>2, <2>3
  <2> QED BY <2>4 DEF f, g
<1>15. Finished(rq[m], m, DoneStatus(k)) = q
  BY <1>9 DEF q
<1>16. o \in ShipNext(request_queue, Unlink(pending, m))
  BY <1>6 DEF pend
<1>17. req' = ReqAfterShip(rq2, o) /\ aborted' = ShipsFreed(rq2, o)
  BY <1>6, <1>13, <1>14, <1>15
<1>18. q.payload = IF Accepted(k) THEN req[m].payload \o <<<<r, sent[r] + 1>>>>
                                        ELSE req[m].payload
  BY <1>5, <1>8
<1>19. req' = ReqAfterShip([req EXCEPT ![m] = q], o)
       /\ aborted' = ShipsFreed([req EXCEPT ![m] = q], o)
  BY <1>17 DEF rq2
<1>20. DoneWith(r, k, m, q, o)
  BY <1>1, <1>6, <1>8, <1>18, <1>19 DEF DoneWith
<1> QED BY <1>8, <1>16, <1>20

\* A handler that works on request m leaves the others alone, and its identity,
\* its reply and the context it was shipped in are m's own.
Only(m) ==
  /\ \A x \in Reqs : x # m => req'[x] = req[x]
  /\ req'[m].call_id = req[m].call_id
  /\ req'[m].shipped = req[m].shipped

\* Ending a request sets its state and status and nothing else of these fields.
LEMMA FinishedFields ==
  ASSUME NEW q \in ReqType, NEW m, NEW st \in Statuses
  PROVE  /\ Finished(q, m, st).state = IF m \in SyncCalls THEN "done" ELSE "freed"
         /\ Finished(q, m, st).status = st
         /\ Finished(q, m, st).call_id = q.call_id
         /\ Finished(q, m, st).shipped = q.shipped
         /\ Finished(q, m, st).payload = q.payload
BY DEF Finished, ReqType

\* A bind or alter is appended to pending and touches no call.
LEMMA ContextSendWhat ==
  ASSUME IndInv, NEW a \in Alters, NEW sends \in BOOLEAN, NEW ctx,
         ContextSend(a, sends, ctx)
  PROVE  /\ a \in Reqs /\ a \notin Calls /\ a \notin Elems(pending)
         /\ pending' = AddEnd(pending, a)
         /\ \A x \in Reqs : x # a => req'[x] = req[x]
         /\ req'[a].state = "pending"
         /\ owed' \subseteq owed \cup {a} /\ owed \subseteq owed'
         /\ UNCHANGED <<call_id, request_queue, sock_open, loopVars, sent, garbled>>
<1>1. a \in Reqs /\ a \notin Calls
  BY ReqsAssumption DEF Reqs
<1>2. a \notin Elems(pending)
  BY DEF IndInv, ListedAllocated, ContextSend
<1>3. /\ \A x \in Reqs : x # a => req'[x] = req[x]
      /\ req'[a].state = "pending"
  BY <1>1 DEF IndInv, TypeOK, ContextSend, Allocated
<1> QED BY <1>1, <1>2, <1>3 DEF ContextSend

\* An alter that cannot be sent is freed and stays on pending, with its status.
LEMMA AlterSendFailedWhat ==
  ASSUME IndInv, NEW a \in Alters, AlterSendFailed(a)
  PROVE  /\ a \in Reqs /\ a \notin Calls
         /\ Only(a)
         /\ req'[a].state = "freed" /\ req'[a].status = "SEND_FAILED"
         /\ UNCHANGED <<connVars, sockVars, loopVars, owed, sent, garbled>>
<1>1. a \in Reqs /\ a \notin Calls /\ a \notin SyncCalls
  BY ReqsAssumption DEF Reqs
<1>2. req[a] \in ReqType /\ "SEND_FAILED" \in Statuses
  BY <1>1 DEF IndInv, TypeOK, Statuses
<1>3. req' = [req EXCEPT ![a] = Finished(req[a], a, "SEND_FAILED")]
  BY DEF AlterSendFailed
<1>4. /\ \A x \in Reqs : x # a => req'[x] = req[x]
      /\ req'[a] = Finished(req[a], a, "SEND_FAILED")
  BY <1>1, <1>3 DEF IndInv, TypeOK
<1> QED BY <1>1, <1>2, <1>4, FinishedFields DEF Only, AlterSendFailed, wireVars

\* A packet that a bind or alter is waiting for takes that request off pending.
LEMMA RecvHandlerWhat ==
  ASSUME IndInv, NEW r \in Reqs, NEW m \in Alters, NEW k \in Packets(r), RecvHandler(r, k, m)
  PROVE  /\ m \in Reqs /\ m \notin Calls /\ m \in Elems(pending)
         /\ req[m].state = "freed" => req' = req
         /\ Only(m)
         /\ req[m].state # "freed" => req'[m].state = "freed"
         /\ Elems(pending') = Elems(pending) \ {m}
         /\ Sub(pending', pending)
         /\ aborted' = (req[m].state = "freed")
         /\ UNCHANGED <<call_id, request_queue, sock_open, failing, waiters, denied, garbled>>
         /\ Arrives(r, k) /\ Matches(m, r) /\ owed' = OwedAfter(r, k)
<1>1. m \in Reqs /\ m \notin Calls /\ m \notin SyncCalls
  BY ReqsAssumption DEF Reqs
<1>2. m \in Elems(pending)
  BY DEF RecvHandler, Matches, Elems
<1>3. /\ pending' = Unlink(pending, m) /\ pending \in Seq(Reqs) /\ Distinct(pending)
  BY DEF RecvHandler, IndInv, TypeOK, OneList
<1>4. Elems(pending') = Elems(pending) \ {m} /\ Sub(pending', pending)
  BY <1>3, UnlinkElems, UnlinkSub
<1> DEFINE st == HandlerStatus(k)
           q == Finished(req[m], m, st)
           p == [q EXCEPT !.payload = Append(q.payload, <<r, sent[r] + 1>>)]
<1>5. req[m] \in ReqType /\ st \in Statuses
  BY <1>1 DEF IndInv, TypeOK, Statuses, HandlerStatus
<1>6. req' = IF req[m].state = "freed" THEN req ELSE [req EXCEPT ![m] = p]
  BY DEF RecvHandler
<1> HIDE DEF st
<1>7. /\ q \in ReqType /\ q.state = "freed"
      /\ q.call_id = req[m].call_id /\ q.shipped = req[m].shipped
  BY <1>1, <1>5, FinishedType, FinishedFields
<1> HIDE DEF q
<1>8. p.state = "freed" /\ p.call_id = req[m].call_id /\ p.shipped = req[m].shipped
  BY <1>7 DEF ReqType
<1> HIDE DEF p
<1>9. /\ req[m].state = "freed" => req' = req
      /\ Only(m)
      /\ req[m].state # "freed" => req'[m].state = "freed"
  BY <1>1, <1>6, <1>8 DEF IndInv, TypeOK, Only
<1> QED BY <1>1, <1>2, <1>4, <1>9 DEF RecvHandler, Arrives

\* A fragment is appended to the payload of the call it matches.
LEMMA RecvFragmentWhat ==
  ASSUME IndInv, NEW r \in Reqs, NEW m \in Calls, RecvFragment(r, m)
  PROVE  /\ m \in Reqs /\ m \in Elems(pending)
         /\ Only(m)
         /\ req'[m].state = req[m].state /\ req'[m].status = req[m].status
         /\ req'[m].payload = Append(req[m].payload, <<r, sent[r] + 1>>)
         /\ UNCHANGED <<call_id, request_queue, pending, sock_open, failing, waiters,
                        denied, garbled, aborted, owed>>
         /\ Arrives(r, "more") /\ Matches(m, r)
<1>1. m \in Reqs /\ m \in Elems(pending)
  BY DEF Reqs, RecvFragment, Matches, Elems
<1>2. req[m] \in ReqType
  BY <1>1 DEF IndInv, TypeOK
<1> DEFINE p == [req[m] EXCEPT !.payload = Append(req[m].payload, <<r, sent[r] + 1>>)]
<1>3. req' = [req EXCEPT ![m] = p]
  BY DEF RecvFragment
<1>4. /\ p.call_id = req[m].call_id /\ p.shipped = req[m].shipped
      /\ p.state = req[m].state /\ p.status = req[m].status
      /\ p.payload = Append(req[m].payload, <<r, sent[r] + 1>>)
  BY <1>2 DEF ReqType
<1> HIDE DEF p
<1>5. Only(m) /\ req'[m] = p
  BY <1>1, <1>3, <1>4 DEF IndInv, TypeOK, Only
<1> QED BY <1>1, <1>4, <1>5 DEF RecvFragment, Arrives, OwedAfter, More

\* dcerpc_timeout_handler ends the call whose timer is first, if it is still pending.
LEMMA TimeoutWhat ==
  ASSUME IndInv, Timeout
  PROVE  /\ UNCHANGED <<call_id, sockVars, loopVars, owed, sent, garbled>>
         /\ \/ UNCHANGED <<req, pending, request_queue>>
            \/ \E r \in Reqs :
                 /\ Only(r)
                 /\ req[r].state = "pending"
                 /\ req'[r].state = IF r \in SyncCalls THEN "done" ELSE "freed"
                 /\ req'[r].status = "IO_TIMEOUT"
                 /\ req'[r].payload = req[r].payload
                 /\ Elems(pending') = Elems(pending) \ {r}
                 /\ Sub(pending', pending)
                 /\ request_queue' = UnlinkForeign(request_queue, r)
<1> DEFINE r == Head(timers)
<1>1. r \in Reqs
  BY DEF Timeout, IndInv, TypeOK
<1>2. CASE req[r].state # "pending"
  BY <1>2 DEF Timeout, wireVars
<1>3. CASE req[r].state = "pending"
  <2>1. req[r] \in ReqType /\ "IO_TIMEOUT" \in Statuses
    BY <1>1 DEF IndInv, TypeOK, Statuses
  <2>2. req' = [req EXCEPT ![r] = Finished(req[r], r, "IO_TIMEOUT")]
    BY <1>3 DEF Timeout
  <2>3. /\ pending' = Unlink(pending, r) /\ pending \in Seq(Reqs) /\ Distinct(pending)
        /\ request_queue' = UnlinkForeign(request_queue, r)
    BY <1>3 DEF Timeout, IndInv, TypeOK, OneList
  <2> HIDE DEF r
  <2>4. Elems(pending') = Elems(pending) \ {r} /\ Sub(pending', pending)
    BY <2>3, UnlinkElems, UnlinkSub
  <2> DEFINE q == Finished(req[r], r, "IO_TIMEOUT")
  <2>5. /\ q.state = IF r \in SyncCalls THEN "done" ELSE "freed"
        /\ q.status = "IO_TIMEOUT" /\ q.payload = req[r].payload
        /\ q.call_id = req[r].call_id /\ q.shipped = req[r].shipped
    BY <2>1, FinishedFields
  <2> HIDE DEF q
  <2>6. Only(r) /\ req'[r] = q
    BY <1>1, <2>2, <2>5 DEF IndInv, TypeOK, Only, q
  <2> QED BY <1>1, <1>3, <2>3, <2>4, <2>5, <2>6 DEF Timeout, wireVars
<1> QED BY <1>2, <1>3

\* A turn of dcerpc_connection_dead ends the first pending request.
LEMMA DeadStepWhat ==
  ASSUME IndInv, DeadStep
  PROVE  \E r \in Elems(pending) :
           /\ r \in Reqs
           /\ Only(r)
           /\ req'[r].state = "freed" /\ req'[r].status = "DISCONNECTED"
           /\ req'[r].payload = req[r].payload
           /\ Elems(pending') = Elems(pending) \ {r}
           /\ Sub(pending', pending)
           /\ aborted' = \/ req[r].state = "freed"
                         \/ r \notin denied \cup SyncCalls
           /\ ~aborted /\ failing
           /\ UNCHANGED <<call_id, request_queue, sockVars, failing, denied, waiters, owed,
                          sent, garbled>>
<1> DEFINE r == Head(pending)
           c == IF r \in SyncCalls \/ req[r].state = "freed" THEN req[r].calls
                                                             ELSE req[r].calls + 1
           q == [req[r] EXCEPT !.state = "freed", !.status = "DISCONNECTED", !.calls = c]
<1>1. pending \in Seq(Reqs) /\ pending # <<>> /\ Distinct(pending) /\ pending' = Tail(pending)
  BY DEF DeadStep, IndInv, TypeOK, OneList
<1>2. r \in Elems(pending) /\ Elems(pending') = Elems(pending) \ {r} /\ Sub(pending', pending)
  BY <1>1, TailElems, TailSub
<1>3. r \in Reqs
  BY <1>1, <1>2 DEF Elems
<1>4. req' = [req EXCEPT ![r] = q]
  BY DEF DeadStep
<1>5. aborted' = (req[r].state = "freed" \/ r \notin denied \cup SyncCalls)
  BY DEF DeadStep
<1>6. req[r] \in ReqType
  BY <1>3 DEF IndInv, TypeOK
<1> HIDE DEF r, c
<1>7. /\ q.state = "freed" /\ q.status = "DISCONNECTED" /\ q.payload = req[r].payload
      /\ q.call_id = req[r].call_id /\ q.shipped = req[r].shipped
  BY <1>6 DEF ReqType
<1> HIDE DEF q
<1>8. Only(r) /\ req'[r] = q
  BY <1>3, <1>4, <1>7 DEF IndInv, TypeOK, Only
<1> QED BY <1>2, <1>3, <1>5, <1>7, <1>8 DEF DeadStep, wireVars

\* A blocked caller that goes on frees its call and takes it off every list.
LEMMA RequestRecvWhat ==
  ASSUME IndInv, NEW r \in SyncCalls, RequestRecv(r)
  PROVE  /\ r \in Reqs /\ r \in Calls
         /\ Only(r)
         /\ req'[r].state = "freed" /\ req'[r].status = req[r].status
         /\ req'[r].payload = req[r].payload
         /\ Elems(pending') = Elems(pending) \ {r}
         /\ Sub(pending', pending)
         /\ request_queue' = UnlinkForeign(request_queue, r)
         /\ aborted' = (req[r].state = "freed")
         /\ waiters # <<>> /\ r = Head(waiters) /\ waiters' = Tail(waiters)
         /\ req[r].state \in {"done", "freed"}
         /\ ~aborted /\ ~failing
         /\ UNCHANGED <<call_id, sockVars, failing, denied, owed, sent, garbled>>
<1>1. r \in Reqs /\ r \in Calls
  BY ReqsAssumption DEF Reqs
<1>2. pending \in Seq(Reqs) /\ Distinct(pending) /\ pending' = Unlink(pending, r)
  BY DEF RequestRecv, IndInv, TypeOK, OneList
<1>3. Elems(pending') = Elems(pending) \ {r} /\ Sub(pending', pending)
  BY <1>2, UnlinkElems, UnlinkSub
<1> DEFINE q == [req[r] EXCEPT !.state = "freed", !.calls = 1]
<1>4. req' = [req EXCEPT ![r] = q]
  BY DEF RequestRecv
<1>5. req[r] \in ReqType
  BY <1>1 DEF IndInv, TypeOK
<1>6. /\ q.state = "freed" /\ q.status = req[r].status /\ q.payload = req[r].payload
      /\ q.call_id = req[r].call_id /\ q.shipped = req[r].shipped
  BY <1>5 DEF ReqType
<1> HIDE DEF q
<1>7. Only(r) /\ req'[r] = q
  BY <1>1, <1>4, <1>6 DEF IndInv, TypeOK, Only
<1> QED BY <1>1, <1>3, <1>6, <1>7 DEF RequestRecv, wireVars
-----------------------------------------------------------------------------
(***************************************************************************)
(* Why the process is aborted.                                             *)
(***************************************************************************)

\* What is left in the queue after a ship is what was there before.
LEMMA ShipEnded ==
  ASSUME NEW rq \in [Reqs -> ReqType], NEW que \in Seq(Calls), NEW pend \in Seq(Reqs),
         Distinct(que), Distinct(pend), Elems(que) \cap Elems(pend) = {},
         NEW o \in ShipNext(que, pend), Ended(rq, que, pend)
  PROVE  Ended(ReqAfterShip(rq, o), o.queue, o.pending)
<1>1. /\ o.shipped \subseteq Calls /\ o.failed \subseteq Calls
      /\ Elems(o.queue) \subseteq Elems(que)
      /\ Elems(o.pending) = Elems(pend) \cup o.shipped
  BY ShipLists
<1>2. /\ \A x \in o.shipped \cup o.failed : x \notin Elems(o.queue)
      /\ o.shipped \cap o.failed = {}
  BY ShipOrder
<1>3. \A x \in Reqs : x \notin o.shipped \cup o.failed => ReqAfterShip(rq, o)[x] = rq[x]
  BY <1>2, ShipWhat
<1>4. Elems(que) \subseteq Reqs
  BY DEF Elems, Reqs
<1>5. Calls \cap Alters = {} /\ Alters \subseteq Reqs
  BY ReqsAssumption DEF Reqs
<1>6. \A x \in Elems(o.queue) : ReqAfterShip(rq, o)[x] = rq[x] /\ x \in Elems(que)
  BY <1>1, <1>2, <1>3, <1>4
<1>7. \A a \in Elems(o.pending) \cap Alters :
        ReqAfterShip(rq, o)[a] = rq[a] /\ a \in Elems(pend)
  BY <1>1, <1>3, <1>5
<1> QED BY <1>6, <1>7 DEF Ended

\* A queue whose head is freed holds a call that has timed out.
LEMMA ShipsFreedTimeout ==
  ASSUME NEW rq \in [Reqs -> ReqType], NEW que \in Seq(Calls), NEW pend \in Seq(Reqs),
         Distinct(que), Distinct(pend), Elems(que) \cap Elems(pend) = {},
         NEW o \in ShipNext(que, pend), Ended(rq, que, pend), ShipsFreed(rq, o)
  PROVE  \E x \in Calls : ReqAfterShip(rq, o)[x].status = "IO_TIMEOUT"
<1>1. /\ o.shipped \subseteq Calls /\ o.failed \subseteq Calls
      /\ o.shipped \subseteq Elems(que) /\ o.failed \subseteq Elems(que)
  BY ShipLists
<1>2. PICK x \in o.shipped \cup o.failed : rq[x].state = "freed"
  BY DEF ShipsFreed
<1>3. x \in Calls /\ x \in Reqs /\ x \in Elems(que)
  BY <1>1 DEF Reqs
<1>4. rq[x].status = "IO_TIMEOUT"
  BY <1>2, <1>3 DEF Ended
<1>5. ReqAfterShip(rq, o)[x] = rq[x]
  BY <1>2, <1>3 DEF ReqAfterShip
<1> QED BY <1>3, <1>4, <1>5

\* Initially nothing has ended and nobody is blocked.
LEMMA AbortInit == Init => AbortInv
<1> SUFFICES ASSUME Init PROVE AbortInv
  OBVIOUS
<1>1. Elems(pending) = {} /\ Elems(request_queue) = {} /\ Elems(waiters) = {}
  BY DEF Init, Elems
<1> QED BY <1>1 DEF Init, AbortInv, AbortExplained, Ended, DeniedPending, WaitersOnce, Distinct

\* dcerpc_request_send keeps AbortInv: what it ships has not ended, or has timed
\* out in the queue.
LEMMA RequestSendAbort ==
  ASSUME IndInv, AbortInv, NEW r \in Calls, RequestSend(r)
  PROVE  AbortInv'
<1> DEFINE que == AddEnd(request_queue, r)
<1>1. PICK q \in ReqType, o \in ShipNext(que, pending) : SendsWith(r, q, o)
  BY RequestSendShips
<1> DEFINE rq == [req EXCEPT ![r] = q]
<1>2. /\ req[r].state = "new"
      /\ r \notin Elems(request_queue) /\ r \notin Elems(pending)
      /\ q.state = "pending"
      /\ request_queue' = o.queue
      /\ pending' = o.pending
      /\ req' = ReqAfterShip(rq, o)
      /\ aborted' = ShipsFreed(rq, o)
  BY <1>1 DEF SendsWith
<1>3. r \in Reqs /\ ~aborted
  BY DEF Reqs, RequestSend, MaySend
<1>4. /\ rq \in [Reqs -> ReqType] /\ rq[r] = q
      /\ \A x \in Reqs : x # r => rq[x] = req[x]
  BY <1>3 DEF IndInv, TypeOK
<1> HIDE DEF rq
<1>5. /\ que \in Seq(Calls) /\ Distinct(que) /\ Elems(que) = Elems(request_queue) \cup {r}
  BY <1>2, AddEndElems DEF IndInv, TypeOK, OneList
<1> HIDE DEF que
<1>6. pending \in Seq(Reqs) /\ Distinct(pending) /\ Elems(que) \cap Elems(pending) = {}
  BY <1>2, <1>5 DEF IndInv, TypeOK, OneList
<1>7. Elems(que) \subseteq Reqs /\ Elems(pending) \subseteq Reqs
  BY <1>5, <1>6 DEF Elems, Reqs
<1>8. Ended(rq, que, pending)
  <2>1. Ended(req, request_queue, pending)
    BY <1>3 DEF AbortInv
  <2> QED BY <1>2, <1>4, <1>5, <1>7, <2>1 DEF Ended
<1>9. Ended(req, request_queue, pending)'
  <2>1. Ended(req', o.queue, o.pending)
    BY <1>2, <1>4, <1>5, <1>6, <1>8, ShipEnded
  <2>2. Ended(req', request_queue', pending')
    BY <1>2, <2>1
  <2> QED BY <2>2 DEF Ended, Elems
<1>10. /\ o.shipped \subseteq Calls
       /\ Elems(o.pending) = Elems(pending) \cup o.shipped
       /\ o.shipped # {} => sock_open
       /\ o.shipped \cap o.failed = {}
  BY <1>5, <1>6, ShipLists, ShipOrder
<1>11. DeniedPending'
  <2>1. Elems(pending)' = Elems(o.pending)
    BY <1>2 DEF Elems
  <2>2. failing' = failing /\ garbled' = garbled /\ sock_open' = sock_open /\ denied' = denied
    BY DEF RequestSend
  <2> QED BY <1>3, <1>10, <2>1, <2>2 DEF AbortInv, DeniedPending
<1>12. \A x \in Reqs : /\ req'[x].state = "freed" => rq[x].state = "freed" /\ req'[x] = rq[x]
                       /\ req'[x].state = "new" => rq[x].state = "new"
  <2> TAKE x \in Reqs
  <2>1. /\ ReqAfterShip(rq, o)[x].state = "freed" <=> rq[x].state = "freed"
        /\ ReqAfterShip(rq, o)[x].state = "new" => rq[x].state = "new"
    BY <1>4, ReqAfterShipFields
  <2>2. rq[x].state = "freed" => ReqAfterShip(rq, o)[x] = rq[x]
    BY DEF ReqAfterShip
  <2> QED BY <1>2, <2>1, <2>2
<1>13. WaitersOnce'
  <2>1. waiters' = IF r \in SyncCalls THEN <<r>> \o waiters ELSE waiters
    BY DEF RequestSend
  <2>2. WaitersOnce /\ waiters \in Seq(SyncCalls) /\ r \notin Elems(waiters)
    BY <1>2, <1>3 DEF AbortInv, WaitersOnce, IndInv, TypeOK
  <2>3. Distinct(waiters') /\ Elems(waiters') \subseteq Elems(waiters) \cup {r}
    BY <2>1, <2>2, AddFrontElems DEF WaitersOnce
  <2>4. Elems(waiters) \subseteq Reqs
    BY <2>2, ReqsAssumption DEF Elems, Reqs
  <2>5. Elems(waiters)' = Elems(waiters') /\ Distinct(waiters)' = Distinct(waiters')
    BY DEF Elems, Distinct
  <2>6. ASSUME NEW x \in Elems(waiters')
        PROVE  /\ req'[x].state # "new"
               /\ req'[x].state = "freed" => req'[x].status = "DISCONNECTED"
    BY <1>2, <1>3, <1>4, <1>12, <2>2, <2>3, <2>4 DEF WaitersOnce
  <2> QED BY <2>3, <2>5, <2>6 DEF WaitersOnce
<1>14. AbortExplained'
  <2>1. CASE ~aborted'
    BY <2>1 DEF AbortExplained
  <2>2. CASE aborted'
    <3>1. ShipsFreed(rq, o)
      BY <1>2, <2>2
    <3>2. \E x \in Calls : ReqAfterShip(rq, o)[x].status = "IO_TIMEOUT"
      BY <1>4, <1>5, <1>6, <1>8, <3>1, ShipsFreedTimeout
    <3>3. \E x \in Calls : req'[x].status = "IO_TIMEOUT"
      BY <1>2, <3>2
    <3> QED BY <3>3 DEF AbortExplained
  <2> QED BY <2>1, <2>2
<1> QED BY <1>9, <1>11, <1>13, <1>14 DEF AbortInv

\* The last packet of a call keeps AbortInv, the shipping of the next one included.
LEMMA RecvDoneAbort ==
  ASSUME IndInv, AbortInv, NEW r \in Reqs, NEW m \in Calls, NEW k \in Packets(r),
         RecvDone(r, k, m)
  PROVE  AbortInv'
<1> DEFINE pend == Unlink(pending, m)
<1>1. PICK q \in ReqType, o \in ShipNext(request_queue, pend) : DoneWith(r, k, m, q, o)
  BY RecvDoneShips
<1> DEFINE rq == [req EXCEPT ![m] = q]
<1>2. /\ m \in Elems(pending) /\ m \notin Elems(request_queue)
      /\ q.state = IF m \in SyncCalls THEN "done" ELSE "freed"
      /\ request_queue' = o.queue
      /\ pending' = o.pending
      /\ req' = ReqAfterShip(rq, o)
      /\ aborted' = ShipsFreed(rq, o)
  BY <1>1 DEF DoneWith
<1>3. m \in Reqs /\ ~aborted /\ ~failing
  BY DEF Reqs, RecvDone, Arrives, InLoop
<1>4. /\ rq \in [Reqs -> ReqType] /\ rq[m] = q
      /\ \A x \in Reqs : x # m => rq[x] = req[x]
  BY <1>3 DEF IndInv, TypeOK
<1> HIDE DEF rq
<1>5. /\ pending \in Seq(Reqs) /\ Distinct(pending) /\ request_queue \in Seq(Calls)
      /\ Distinct(request_queue) /\ Elems(request_queue) \cap Elems(pending) = {}
  BY DEF IndInv, TypeOK, OneList
<1>6. /\ pend \in Seq(Reqs) /\ Distinct(pend) /\ Elems(pend) = Elems(pending) \ {m}
      /\ Elems(request_queue) \cap Elems(pend) = {}
  BY <1>5, UnlinkType, UnlinkElems
<1> HIDE DEF pend
<1>7. Elems(request_queue) \subseteq Reqs /\ Elems(pend) \subseteq Reqs
  BY <1>5, <1>6 DEF Elems, Reqs
<1>8. Ended(rq, request_queue, pend)
  <2>1. Ended(req, request_queue, pending)
    BY <1>3 DEF AbortInv
  <2> QED BY <1>2, <1>4, <1>6, <1>7, <2>1 DEF Ended
<1>9. Ended(req, request_queue, pending)'
  <2>1. Ended(req', o.queue, o.pending)
    BY <1>2, <1>4, <1>5, <1>6, <1>8, ShipEnded
  <2>2. Ended(req', request_queue', pending')
    BY <1>2, <2>1
  <2> QED BY <2>2 DEF Ended, Elems
<1>10. UNCHANGED <<failing, waiters>>
  BY DEF RecvDone, Arrives
<1>11. DeniedPending'
  BY <1>3, <1>10 DEF DeniedPending
<1>12. \A x \in Reqs : /\ req'[x].state = "freed" => rq[x].state = "freed" /\ req'[x] = rq[x]
                       /\ req'[x].state = "new" => rq[x].state = "new"
  <2> TAKE x \in Reqs
  <2>1. /\ ReqAfterShip(rq, o)[x].state = "freed" <=> rq[x].state = "freed"
        /\ ReqAfterShip(rq, o)[x].state = "new" => rq[x].state = "new"
    BY <1>4, ReqAfterShipFields
  <2>2. rq[x].state = "freed" => ReqAfterShip(rq, o)[x] = rq[x]
    BY DEF ReqAfterShip
  <2> QED BY <1>2, <2>1, <2>2
<1>13. WaitersOnce'
  <2>1. WaitersOnce /\ waiters \in Seq(SyncCalls)
    BY <1>3 DEF AbortInv, IndInv, TypeOK
  <2>2. Elems(waiters) \subseteq Reqs /\ Elems(waiters) \subseteq SyncCalls
    BY <2>1, ReqsAssumption DEF Elems, Reqs
  <2>3. Elems(waiters)' = Elems(waiters) /\ Distinct(waiters)' = Distinct(waiters)
    BY <1>10 DEF Elems, Distinct
  <2>4. ASSUME NEW x \in Elems(waiters)
        PROVE  /\ req'[x].state # "new"
               /\ req'[x].state = "freed" => req'[x].status = "DISCONNECTED"
    BY <1>2, <1>3, <1>4, <1>12, <2>1, <2>2 DEF WaitersOnce
  <2> QED BY <2>1, <2>3, <2>4 DEF WaitersOnce
<1>14. AbortExplained'
  <2>1. CASE ~aborted'
    BY <2>1 DEF AbortExplained
  <2>2. CASE aborted'
    <3>1. ShipsFreed(rq, o)
      BY <1>2, <2>2
    <3>2. \E x \in Calls : ReqAfterShip(rq, o)[x].status = "IO_TIMEOUT"
      BY <1>4, <1>5, <1>6, <1>8, <3>1, ShipsFreedTimeout
    <3>3. \E x \in Calls : req'[x].status = "IO_TIMEOUT"
      BY <1>2, <3>2
    <3> QED BY <3>3 DEF AbortExplained
  <2> QED BY <2>1, <2>2
<1> QED BY <1>9, <1>11, <1>13, <1>14 DEF AbortInv

\* A step that changes one request m, which is not in the queue after it unless
\* it has timed out, and not on pending if it is a freed alter that was sent.
LEMMA OneAbort ==
  ASSUME IndInv, AbortInv, ~aborted, AbortExplained', NEW m \in Reqs,
         \A x \in Reqs : x # m => req'[x] = req[x],
         Elems(request_queue') \subseteq Elems(request_queue),
         Elems(pending') \subseteq Elems(pending) \cup (Alters \cap {m}),
         req'[m].state # "new",
         m \in Elems(request_queue') /\ req'[m].state \in {"done", "freed"} =>
           req'[m].status = "IO_TIMEOUT",
         m \in Elems(pending') \cap Alters /\ req'[m].state = "freed" =>
           req'[m].status = "SEND_FAILED",
         UNCHANGED <<failing, garbled, sock_open, denied, waiters>>,
         m \in Elems(waiters) /\ req'[m].state = "freed" => req'[m].status = "DISCONNECTED"
  PROVE  AbortInv'
<1>1. Elems(request_queue) \subseteq Reqs /\ Elems(pending) \subseteq Reqs
      /\ Elems(waiters) \subseteq Reqs
  BY ReqsAssumption DEF IndInv, TypeOK, Elems, Reqs
<1>2. Ended(req, request_queue, pending) /\ DeniedPending /\ WaitersOnce
  BY DEF AbortInv
<1>3. Calls \cap Alters = {}
  BY ReqsAssumption
<1>4. Ended(req', request_queue', pending')
  BY <1>1, <1>2 DEF Ended
<1>5. Ended(req, request_queue, pending)'
  BY <1>4 DEF Ended, Elems
<1>6. DeniedPending'
  <2>1. Elems(pending)' = Elems(pending')
    BY DEF Elems
  <2> QED BY <1>2, <1>3, <2>1 DEF DeniedPending
<1>7. WaitersOnce'
  <2>1. Elems(waiters)' = Elems(waiters) /\ Distinct(waiters)' = Distinct(waiters)
    BY DEF Elems, Distinct
  <2> QED BY <1>1, <1>2, <2>1 DEF WaitersOnce
<1> QED BY <1>5, <1>6, <1>7 DEF AbortInv

\* Every step keeps AbortInv.
LEMMA NextAbort == IndInv /\ AbortInv /\ [Next]_vars => AbortInv'
<1> SUFFICES ASSUME IndInv, AbortInv, [Next]_vars PROVE AbortInv'
  OBVIOUS
<1>1. Calls \cap Alters = {} /\ SyncCalls \subseteq Calls /\ Calls \subseteq Reqs
      /\ Alters \subseteq Reqs
  BY ReqsAssumption DEF Reqs
<1>2. /\ Elems(request_queue) \subseteq Calls /\ Elems(pending) \subseteq Reqs
      /\ Elems(waiters) \subseteq SyncCalls
      /\ Elems(request_queue) \cap Elems(pending) = {}
      /\ \A x \in Elems(pending) \cup Elems(request_queue) : req[x].state # "new"
  <2>1. /\ Elems(request_queue) \subseteq Calls /\ Elems(pending) \subseteq Reqs
        /\ Elems(waiters) \subseteq SyncCalls
    BY DEF IndInv, TypeOK, Elems
  <2> QED BY <2>1 DEF IndInv, OneList, ListedAllocated
<1>3. ~aborted => Ended(req, request_queue, pending) /\ DeniedPending /\ WaitersOnce
  BY DEF AbortInv
<1>4. ASSUME UNCHANGED <<req, request_queue, pending, waiters, aborted, garbled>>,
             DeniedPending'
      PROVE  AbortInv'
  <2>1. /\ Elems(waiters)' = Elems(waiters) /\ Distinct(waiters)' = Distinct(waiters)
        /\ Elems(pending)' = Elems(pending) /\ Elems(request_queue)' = Elems(request_queue)
    BY <1>4 DEF Elems, Distinct
  <2> QED BY <1>4, <2>1 DEF AbortInv, Ended, WaitersOnce, AbortExplained
<1>5. CASE UNCHANGED vars
  <2>1. UNCHANGED <<req, request_queue, pending, waiters, aborted, garbled, failing, denied,
                    sock_open>>
    BY <1>5 DEF vars, connVars, sockVars, loopVars, deadVars, wireVars
  <2>2. CASE ~aborted
    <3>1. Elems(pending)' = Elems(pending)
      BY <2>1 DEF Elems
    <3>2. DeniedPending'
      BY <1>3, <2>1, <2>2, <3>1 DEF DeniedPending
    <3> QED BY <1>4, <2>1, <3>2
  <2>3. CASE aborted
    BY <2>1, <2>3 DEF AbortInv, AbortExplained
  <2> QED BY <2>2, <2>3
<1>6. ASSUME NEW a \in Alters, NEW sends \in BOOLEAN, AlterSend(a, sends) \/ BindSend(a, sends)
      PROVE  AbortInv'
  <2>1. PICK ctx : ContextSend(a, sends, ctx)
    BY <1>6 DEF AlterSend, BindSend
  <2>2. ~aborted /\ UNCHANGED <<failing, garbled, sock_open, denied, waiters, aborted>>
    BY <2>1, ContextSendWhat DEF ContextSend, MaySend, loopVars, deadVars
  <2>3. /\ a \notin Elems(pending) /\ pending' = AddEnd(pending, a)
        /\ \A x \in Reqs : x # a => req'[x] = req[x]
        /\ req'[a].state = "pending" /\ request_queue' = request_queue
    BY <2>1, ContextSendWhat
  <2>4. Elems(pending') = Elems(pending) \cup {a}
    BY <1>1, <2>3, AddEndElems DEF IndInv, TypeOK, OneList
  <2>5. AbortExplained'
    BY <2>2 DEF AbortExplained
  <2> QED BY <1>1, <2>2, <2>3, <2>4, <2>5, OneAbort
<1>7. ASSUME NEW a \in Alters, AlterSendFailed(a) PROVE AbortInv'
  <2>1. /\ ~aborted /\ UNCHANGED <<failing, garbled, sock_open, denied, waiters, aborted>>
        /\ UNCHANGED <<pending, request_queue>>
    BY <1>7, AlterSendFailedWhat DEF AlterSendFailed, InLoop, loopVars, deadVars, connVars,
                                     sockVars
  <2>2. /\ \A x \in Reqs : x # a => req'[x] = req[x]
        /\ req'[a].state = "freed" /\ req'[a].status = "SEND_FAILED"
        /\ a \in Reqs /\ a \notin Calls
    BY <1>7, AlterSendFailedWhat DEF Only
  <2>3. AbortExplained'
    BY <2>1 DEF AbortExplained
  <2> QED BY <1>1, <1>2, <2>1, <2>2, <2>3, OneAbort
<1>8. ASSUME NEW r \in Reqs, NEW k \in Packets(r), RecvUnmatched(r, k) PROVE AbortInv'
  <2>1. UNCHANGED <<req, request_queue, pending, waiters, aborted, garbled, failing>> /\ ~failing
    BY <1>8 DEF RecvUnmatched, Arrives, InLoop
  <2>2. DeniedPending'
    BY <2>1 DEF DeniedPending
  <2> QED BY <1>4, <2>1, <2>2
<1>9. ASSUME NEW r \in Reqs, NEW m \in Alters, NEW k \in Packets(r), RecvHandler(r, k, m)
      PROVE  AbortInv'
  <2>1. /\ m \in Reqs /\ m \notin Calls /\ m \in Elems(pending)
        /\ req[m].state = "freed" => req' = req
        /\ \A x \in Reqs : x # m => req'[x] = req[x]
        /\ req[m].state # "freed" => req'[m].state = "freed"
        /\ Elems(pending') = Elems(pending) \ {m}
        /\ aborted' = (req[m].state = "freed")
        /\ UNCHANGED <<call_id, request_queue, sock_open, failing, waiters, denied, garbled>>
    BY <1>9, RecvHandlerWhat DEF Only
  <2>2. ~aborted
    BY <1>9 DEF RecvHandler, Arrives, InLoop
  <2>3. AbortExplained'
    BY <1>3, <2>1, <2>2 DEF AbortExplained, Ended
  <2> QED BY <1>1, <1>2, <2>1, <2>2, <2>3, OneAbort
<1>10. ASSUME NEW r \in Reqs, NEW m \in Calls, RecvFragment(r, m) PROVE AbortInv'
  <2>1. /\ m \in Elems(pending)
        /\ \A x \in Reqs : x # m => req'[x] = req[x]
        /\ req'[m].state = req[m].state /\ req'[m].status = req[m].status
        /\ UNCHANGED <<request_queue, pending, sock_open, failing, waiters, denied, garbled,
                       aborted>>
    BY <1>10, RecvFragmentWhat DEF Only
  <2>2. ~aborted
    BY <1>10 DEF RecvFragment, Arrives, InLoop
  <2>3. AbortExplained'
    BY <2>1, <2>2 DEF AbortExplained
  <2>4. m \in Elems(waiters) /\ req'[m].state = "freed" => req'[m].status = "DISCONNECTED"
    BY <1>3, <2>1, <2>2 DEF WaitersOnce
  <2> QED BY <1>1, <1>2, <2>1, <2>2, <2>3, <2>4, OneAbort
<1>11. CASE Timeout
  <2>1. ~aborted /\ UNCHANGED <<failing, garbled, sock_open, denied, waiters, aborted>>
    BY <1>11, TimeoutWhat DEF Timeout, InLoop, sockVars, loopVars, deadVars
  <2>2. CASE UNCHANGED <<req, pending, request_queue>>
    <3>1. Elems(pending)' = Elems(pending)
      BY <2>2 DEF Elems
    <3>2. DeniedPending'
      BY <1>3, <2>1, <3>1 DEF DeniedPending
    <3> QED BY <1>4, <2>1, <2>2, <3>2
  <2>3. CASE ~UNCHANGED <<req, pending, request_queue>>
    <3>1. PICK r \in Reqs :
             /\ Only(r)
             /\ req'[r].state = IF r \in SyncCalls THEN "done" ELSE "freed"
             /\ req'[r].status = "IO_TIMEOUT"
             /\ Elems(pending') = Elems(pending) \ {r}
             /\ request_queue' = UnlinkForeign(request_queue, r)
      BY <1>11, <2>3, TimeoutWhat
    <3>2. Elems(request_queue') \subseteq Elems(request_queue)
      BY <3>1, UnlinkForeignElems DEF IndInv, TypeOK, OneList
    <3>3. AbortExplained'
      BY <2>1 DEF AbortExplained
    <3>4. \A x \in Reqs : x # r => req'[x] = req[x]
      BY <3>1 DEF Only
    <3>5. req'[r].state # "new" /\ r \notin Elems(pending')
          /\ (r \in Elems(waiters) => req'[r].state # "freed")
      BY <1>2, <3>1
    <3> QED BY <2>1, <3>1, <3>2, <3>3, <3>4, <3>5, OneAbort
  <2> QED BY <2>2, <2>3
<1>12. CASE SockDead
  <2>1. /\ UNCHANGED <<req, request_queue, pending, waiters, aborted, garbled>>
        /\ ~sock_open' /\ denied' = Elems(pending)
    BY <1>12 DEF SockDead, connVars, DenyDestruction
  <2>2. Elems(pending)' = Elems(pending)
    BY <2>1 DEF Elems
  <2>3. DeniedPending'
    BY <2>1, <2>2 DEF DeniedPending
  <2> QED BY <1>4, <2>1, <2>3
<1>13. ASSUME NEW r \in Reqs, RecvMalformed(r) PROVE AbortInv'
  <2>1. /\ UNCHANGED <<req, request_queue, pending, waiters, aborted>>
        /\ garbled'
    BY <1>13 DEF RecvMalformed, connVars
  <2>2. /\ Elems(waiters)' = Elems(waiters) /\ Distinct(waiters)' = Distinct(waiters)
        /\ Elems(pending)' = Elems(pending) /\ Elems(request_queue)' = Elems(request_queue)
    BY <2>1 DEF Elems, Distinct
  <2> QED BY <2>1, <2>2 DEF AbortInv, Ended, WaitersOnce, AbortExplained, DeniedPending
<1>14. CASE DeadStep
  <2>1. PICK r \in Elems(pending) :
           /\ r \in Reqs
           /\ Only(r)
           /\ req'[r].state = "freed" /\ req'[r].status = "DISCONNECTED"
           /\ Elems(pending') = Elems(pending) \ {r}
           /\ aborted' = \/ req[r].state = "freed"
                         \/ r \notin denied \cup SyncCalls
           /\ ~aborted /\ failing
           /\ UNCHANGED <<request_queue, sockVars, failing, denied, waiters, garbled>>
    BY <1>14, DeadStepWhat
  <2>2. AbortExplained'
    <3>1. CASE ~aborted'
      BY <3>1 DEF AbortExplained
    <3>2. CASE r \in Alters
      BY <2>1, <3>2 DEF AbortExplained
    <3>3. CASE aborted' /\ r \notin Alters
      <4>1. r \in Calls /\ r \in Elems(pending) \cap Calls
        BY <2>1, <3>3 DEF Reqs
      <4>2. req[r].state # "freed"
        BY <2>1, <4>1 DEF IndInv, PendingAlive
      <4>3. r \notin denied
        BY <2>1, <3>3, <4>2
      <4>4. garbled
        BY <1>3, <2>1, <4>1, <4>3 DEF DeniedPending
      <4> QED BY <2>1, <4>4 DEF AbortExplained
    <3> QED BY <3>1, <3>2, <3>3
  <2>3. \A x \in Reqs : x # r => req'[x] = req[x]
    BY <2>1 DEF Only
  <2>4. r \notin Elems(request_queue') /\ r \notin Elems(pending') /\ sock_open' = sock_open
    BY <1>2, <2>1 DEF sockVars
  <2> QED BY <2>1, <2>2, <2>3, <2>4, OneAbort
<1>15. CASE DeadEnd
  <2>1. UNCHANGED <<req, request_queue, pending, waiters, aborted, garbled>> /\ ~failing'
    BY <1>15 DEF DeadEnd, connVars, wireVars
  <2>2. DeniedPending'
    BY <2>1 DEF DeniedPending
  <2> QED BY <1>4, <2>1, <2>2
<1>16. ASSUME NEW r \in SyncCalls, RequestRecv(r) PROVE AbortInv'
  <2>1. /\ r \in Reqs /\ r \in Calls
        /\ \A x \in Reqs : x # r => req'[x] = req[x]
        /\ req'[r].state = "freed" /\ req'[r].status = req[r].status
        /\ Elems(pending') = Elems(pending) \ {r}
        /\ request_queue' = UnlinkForeign(request_queue, r)
        /\ aborted' = (req[r].state = "freed")
        /\ waiters # <<>> /\ r = Head(waiters) /\ waiters' = Tail(waiters)
        /\ req[r].state \in {"done", "freed"}
        /\ ~aborted /\ ~failing
        /\ UNCHANGED <<failing, garbled>>
    BY <1>16, RequestRecvWhat DEF Only
  <2>2. Elems(request_queue') \subseteq Elems(request_queue)
    BY <2>1, UnlinkForeignElems DEF IndInv, TypeOK, OneList
  <2>3. /\ Ended(req, request_queue, pending) /\ WaitersOnce
        /\ waiters \in Seq(SyncCalls) /\ Distinct(waiters)
    BY <1>3, <2>1 DEF WaitersOnce, IndInv, TypeOK
  <2>4. /\ Elems(waiters') = Elems(waiters) \ {r} /\ Distinct(waiters')
        /\ r \in Elems(waiters)
    BY <2>1, <2>3, TailElems
  <2>5. AbortExplained'
    <3>1. aborted' => req'[r].status = "DISCONNECTED"
      BY <2>1, <2>3, <2>4 DEF WaitersOnce
    <3> QED BY <3>1 DEF AbortExplained
  <2>6. Ended(req', request_queue', pending')
    BY <1>1, <1>2, <2>1, <2>2, <2>3 DEF Ended
  <2>7. Ended(req, request_queue, pending)'
    BY <2>6 DEF Ended, Elems
  <2>8. WaitersOnce'
    <3>1. Elems(waiters)' = Elems(waiters') /\ Distinct(waiters)' = Distinct(waiters')
      BY DEF Elems, Distinct
    <3> QED BY <1>1, <1>2, <2>1, <2>3, <2>4, <3>1 DEF WaitersOnce
  <2>9. DeniedPending'
    BY <2>1 DEF DeniedPending
  <2> QED BY <2>5, <2>7, <2>8, <2>9 DEF AbortInv
<1> QED
  BY <1>5, <1>6, <1>7, <1>8, <1>9, <1>10, <1>11, <1>12, <1>13, <1>14, <1>15, <1>16,
     RequestSendAbort, RecvDoneAbort DEF Next

\* The connection code uses freed memory only after a timeout, a malformed
\* packet, a bind or alter that failed, or a blocked caller's loss of the
\* connection: for any set of calls, replies, faults and a dead connection alone
\* never make dcerpc_ship_next_request, dcerpc_connection_dead or
\* dcerpc_request_recv touch a request that is gone.
THEOREM AbortExplainedSafe == Spec => []AbortExplained
<1>1. Init => AbortInv
  BY AbortInit
<1>2. IndInv /\ AbortInv /\ [Next]_vars => AbortInv'
  BY NextAbort
<1>3. AbortInv => AbortExplained
  BY DEF AbortInv
<1> QED BY <1>1, <1>2, <1>3, Invariance, PTL DEF Spec
-----------------------------------------------------------------------------
(***************************************************************************)
(* The auth routines run on every RESPONSE.                                *)
(***************************************************************************)

\* As long as no packet was malformed or cut, client and server have counted alike.
InStep == ~garbled /\ ~cut => sign_gap = 0

LEMMA NextInStep == IndInv /\ InStep /\ [Next]_vars => InStep'
<1> SUFFICES ASSUME IndInv, InStep, [Next]_vars PROVE InStep'
  OBVIOUS
<1>1. sign_gap \in Int
  BY DEF IndInv, TypeOK
<1>2. ASSUME NEW k, NEW b, SignGap(k, b), garbled' = garbled PROVE InStep'
  <2>1. CASE k \in Cut
    <3>1. cut'
      BY <1>2, <2>1 DEF SignGap
    <3> QED BY <3>1 DEF InStep
  <2>2. CASE k \notin Cut
    <3> DEFINE c == IF k \in Response THEN 1 ELSE 0
    <3>1. sign_gap' = sign_gap + c - c /\ c \in Int
      BY <1>2, <2>2 DEF SignGap, AuthChecked
    <3> HIDE DEF c
    <3> DEFINE g == sign_gap
    <3> HIDE DEF g
    <3>2. g \in Int
      BY <1>1 DEF g
    <3>3. g + c - c = g
      BY <3>1, <3>2
    <3>4. sign_gap' = sign_gap
      BY <3>1, <3>3 DEF g
    <3>5. cut => cut'
      BY <1>2 DEF SignGap
    <3> QED BY <1>2, <3>4, <3>5, Zenon DEF InStep
  <2> QED BY <2>1, <2>2
<1>3. ASSUME UNCHANGED <<sign_gap, cut, garbled>> PROVE InStep'
  BY <1>3 DEF InStep
<1>4. CASE UNCHANGED vars
  BY <1>3, <1>4 DEF vars, wireVars
<1>5. ASSUME NEW r \in Calls, RequestSend(r) PROVE InStep'
  BY <1>3, <1>5 DEF RequestSend
<1>6. ASSUME NEW a \in Alters, NEW sends \in BOOLEAN, AlterSend(a, sends) \/ BindSend(a, sends)
      PROVE  InStep'
  BY <1>3, <1>6 DEF AlterSend, BindSend, ContextSend
<1>7. ASSUME NEW a \in Alters, AlterSendFailed(a) PROVE InStep'
  BY <1>3, <1>7 DEF AlterSendFailed, wireVars
<1>8. ASSUME NEW r \in Reqs, NEW k \in Packets(r), RecvUnmatched(r, k) PROVE InStep'
  BY <1>2, <1>8 DEF RecvUnmatched, Arrives
<1>9. ASSUME NEW r \in Reqs, NEW m \in Alters, NEW k \in Packets(r), RecvHandler(r, k, m)
      PROVE  InStep'
  BY <1>2, <1>9 DEF RecvHandler, Arrives
<1>10. ASSUME NEW r \in Reqs, NEW m \in Calls, RecvFragment(r, m) PROVE InStep'
  BY <1>2, <1>10 DEF RecvFragment, Arrives
<1>11. ASSUME NEW r \in Reqs, NEW m \in Calls, NEW k \in Packets(r), RecvDone(r, k, m)
       PROVE  InStep'
  BY <1>2, <1>11 DEF RecvDone, Arrives
<1>12. CASE Timeout \/ DeadStep \/ DeadEnd \/ SockDead
  BY <1>3, <1>12 DEF Timeout, DeadStep, DeadEnd, SockDead, wireVars
<1>13. ASSUME NEW r \in Reqs, RecvMalformed(r) PROVE InStep'
  BY <1>13 DEF RecvMalformed, InStep
<1>14. ASSUME NEW r \in SyncCalls, RequestRecv(r) PROVE InStep'
  BY <1>3, <1>14 DEF RequestRecv, wireVars
<1> QED
  BY <1>4, <1>5, <1>6, <1>7, <1>8, <1>9, <1>10, <1>11, <1>12, <1>13, <1>14 DEF Next

\* No call was refused although its reply was properly signed.
NoneRejected(rq) == \A r \in Calls : rq[r].status # "REJECTED"

\* Shipping refuses no reply.
LEMMA ShipRejects ==
  ASSUME NEW rq \in [Reqs -> ReqType], NEW o, NoneRejected(rq)
  PROVE  NoneRejected(ReqAfterShip(rq, o))
<1> SUFFICES ASSUME NEW r \in Calls PROVE ReqAfterShip(rq, o)[r].status # "REJECTED"
  BY DEF NoneRejected
<1>1. r \in Reqs /\ rq[r] \in ReqType /\ rq[r].status # "REJECTED"
  BY DEF Reqs, NoneRejected
<1> QED BY <1>1 DEF ReqAfterShip, ReqType

\* A step that works on one request and does not refuse its reply.
LEMMA OnlyRejects ==
  ASSUME NoneRejected(req), NEW m, Only(m), m \in Calls => req'[m].status # "REJECTED"
  PROVE  NoneRejected(req')
BY DEF NoneRejected, Only, Reqs

\* As long as no packet was malformed or cut, no step refuses a properly signed reply.
LEMMA NextRejects ==
  ASSUME IndInv, InStep, SoundReplyAccepted, [Next]_vars
  PROVE  SoundReplyAccepted'
<1>1. CASE garbled' \/ cut'
  BY <1>1 DEF SoundReplyAccepted
<1> SUFFICES ASSUME ~garbled', ~cut' PROVE NoneRejected(req')
  BY <1>1 DEF SoundReplyAccepted, NoneRejected
<1>2. ASSUME garbled' = garbled, cut' = cut \/ (\E k, b : SignGap(k, b))
      PROVE  NoneRejected(req) /\ sign_gap = 0
  <2>1. ~garbled
    BY <1>2
  <2>2. ASSUME cut' = cut PROVE ~cut
    BY <2>2
  <2>3. ASSUME \E k, b : SignGap(k, b) PROVE ~cut
    <3>1. PICK k, b : SignGap(k, b)
      BY <2>3
    <3>2. cut' = (cut \/ k \in Cut)
      BY <3>1 DEF SignGap
    <3> QED BY <3>2, Zenon
  <2>4. ~cut
    BY <1>2, <2>2, <2>3
  <2> QED BY <2>1, <2>4 DEF SoundReplyAccepted, NoneRejected, InStep
<1>3. ASSUME req' = req, garbled' = garbled, cut' = cut \/ (\E k, b : SignGap(k, b))
      PROVE  NoneRejected(req')
  BY <1>2, <1>3 DEF NoneRejected
<1>4. CASE UNCHANGED vars
  BY <1>3, <1>4 DEF vars, wireVars
<1>5. ASSUME NEW r \in Calls, RequestSend(r) PROVE NoneRejected(req')
  <2>1. NoneRejected(req)
    BY <1>2, <1>5 DEF RequestSend
  <2>2. PICK q \in ReqType, o \in ShipNext(AddEnd(request_queue, r), pending) :
          SendsWith(r, q, o)
    BY <1>5, RequestSendShips
  <2> DEFINE rq == [req EXCEPT ![r] = q]
  <2>3. rq \in [Reqs -> ReqType]
    BY DEF IndInv, TypeOK
  <2>4. q.status = "OK" /\ req' = ReqAfterShip(rq, o)
    BY <2>2 DEF SendsWith
  <2>5. NoneRejected(rq)
    BY <2>1, <2>4 DEF NoneRejected, IndInv, TypeOK, Reqs
  <2> HIDE DEF rq
  <2> QED BY <2>3, <2>4, <2>5, ShipRejects
<1>6. ASSUME NEW a \in Alters, NEW sends \in BOOLEAN, NEW ctx, ContextSend(a, sends, ctx)
      PROVE  NoneRejected(req')
  <2>1. NoneRejected(req)
    BY <1>2, <1>6 DEF ContextSend
  <2>2. a \notin Calls /\ \A x \in Reqs : x # a => req'[x] = req[x]
    BY <1>6, ContextSendWhat
  <2> QED BY <2>1, <2>2 DEF NoneRejected, Reqs
<1>7. ASSUME NEW a \in Alters, AlterSendFailed(a) PROVE NoneRejected(req')
  <2>1. NoneRejected(req)
    BY <1>2, <1>7 DEF AlterSendFailed, wireVars
  <2> QED BY <1>7, <2>1, AlterSendFailedWhat, OnlyRejects
<1>8. ASSUME NEW r \in Reqs, NEW k \in Packets(r), RecvUnmatched(r, k)
      PROVE  NoneRejected(req')
  BY <1>3, <1>8 DEF RecvUnmatched, Arrives
<1>9. ASSUME NEW r \in Reqs, NEW m \in Alters, NEW k \in Packets(r), RecvHandler(r, k, m)
      PROVE  NoneRejected(req')
  <2>1. NoneRejected(req)
    BY <1>2, <1>9 DEF RecvHandler, Arrives
  <2> QED BY <1>9, <2>1, RecvHandlerWhat, OnlyRejects
<1>10. ASSUME NEW r \in Reqs, NEW m \in Calls, RecvFragment(r, m) PROVE NoneRejected(req')
  <2>1. NoneRejected(req)
    BY <1>2, <1>10 DEF RecvFragment, Arrives
  <2>2. Only(m) /\ req'[m].status = req[m].status
    BY <1>10, RecvFragmentWhat
  <2>3. req'[m].status # "REJECTED"
    BY <2>1, <2>2 DEF NoneRejected
  <2> QED BY <2>1, <2>2, <2>3, OnlyRejects
<1>11. ASSUME NEW r \in Reqs, NEW m \in Calls, NEW k \in Packets(r), RecvDone(r, k, m)
       PROVE  NoneRejected(req')
  <2>1. NoneRejected(req) /\ sign_gap = 0
    BY <1>2, <1>11 DEF RecvDone, Arrives
  <2>2. PICK q \in ReqType, o \in ShipNext(request_queue, Unlink(pending, m)) :
          DoneWith(r, k, m, q, o)
    BY <1>11, RecvDoneShips
  <2> DEFINE rq == [req EXCEPT ![m] = q]
  <2>3. rq \in [Reqs -> ReqType]
    BY DEF IndInv, TypeOK
  <2>4. q.status = DoneStatus(k) /\ req' = ReqAfterShip(rq, o)
    BY <2>2 DEF DoneWith
  <2>5. q.status # "REJECTED"
    BY <2>1, <2>4 DEF DoneStatus, Accepted
  <2>6. NoneRejected(rq)
    BY <2>1, <2>5 DEF NoneRejected, IndInv, TypeOK, Reqs
  <2> HIDE DEF rq
  <2> QED BY <2>3, <2>4, <2>6, ShipRejects
<1>12. CASE Timeout
  <2>1. NoneRejected(req)
    BY <1>2, <1>12 DEF Timeout, wireVars
  <2>2. CASE req' = req
    BY <2>1, <2>2 DEF NoneRejected
  <2>3. CASE \E r \in Reqs : Only(r) /\ req'[r].status = "IO_TIMEOUT"
    BY <2>1, <2>3, OnlyRejects
  <2> QED BY <1>12, <2>2, <2>3, TimeoutWhat
<1>13. CASE DeadStep
  <2>1. NoneRejected(req)
    BY <1>2, <1>13 DEF DeadStep, wireVars
  <2>2. PICK r \in Reqs : Only(r) /\ req'[r].status = "DISCONNECTED"
    BY <1>13, DeadStepWhat
  <2> QED BY <2>1, <2>2, OnlyRejects
<1>14. CASE DeadEnd
  BY <1>3, <1>14 DEF DeadEnd, wireVars
<1>15. CASE SockDead
  BY <1>3, <1>15 DEF SockDead
<1>16. ASSUME NEW r \in Reqs, RecvMalformed(r) PROVE NoneRejected(req')
  BY <1>16 DEF RecvMalformed
<1>17. ASSUME NEW r \in SyncCalls, RequestRecv(r) PROVE NoneRejected(req')
  <2>1. NoneRejected(req)
    BY <1>2, <1>17 DEF RequestRecv, wireVars
  <2>2. r \in Calls /\ Only(r) /\ req'[r].status = req[r].status
    BY <1>17, RequestRecvWhat
  <2>3. req'[r].status # "REJECTED"
    BY <2>1, <2>2 DEF NoneRejected
  <2> QED BY <2>1, <2>2, <2>3, OnlyRejects
<1>18. ASSUME NEW a \in Alters, NEW sends \in BOOLEAN, AlterSend(a, sends) \/ BindSend(a, sends)
       PROVE  NoneRejected(req')
  BY <1>6, <1>18 DEF AlterSend, BindSend
<1> QED
  BY <1>4, <1>5, <1>7, <1>8, <1>9, <1>10, <1>11, <1>12, <1>13, <1>14, <1>15, <1>16, <1>17,
     <1>18 DEF Next

\* A properly signed reply is refused only after a malformed packet or one whose
\* auth trailer was cut: dcerpc_request_recv_data checks the signature of every
\* response, whether or not a request still waits for it.
THEOREM SoundReplyAcceptedSafe == Spec => []SoundReplyAccepted
<1>1. Init => InStep /\ SoundReplyAccepted
  BY DEF Init, InStep, SoundReplyAccepted, Reqs, NewReq
<1>2. IndInv /\ InStep /\ [Next]_vars => InStep'
  BY NextInStep
<1>3. IndInv /\ InStep /\ SoundReplyAccepted /\ [Next]_vars => SoundReplyAccepted'
  BY NextRejects
<1> QED BY <1>1, <1>2, <1>3, Invariance, PTL DEF Spec
-----------------------------------------------------------------------------
(***************************************************************************)
(* Call ids.                                                               *)
(***************************************************************************)
LEMMA TicketInit == Init => TicketInv
<1> SUFFICES ASSUME Init PROVE TicketInv
  OBVIOUS
<1>1. Calls \subseteq Reqs
  BY DEF Reqs
<1>2. \A c \in Calls : req[c].state = "new" /\ req[c].call_id = 0
  BY <1>1 DEF Init, NewReq
<1>3. Issued = {}
  BY <1>2 DEF Issued
<1>4. Cardinality({}) = 0 /\ call_id = 1
  BY FS_EmptySet DEF Init
<1> QED BY <1>2, <1>3, <1>4 DEF TicketInv

\* next_call_id hands out the next number, as there are fewer calls than ids.
LEMMA NextTicket ==
  ASSUME TicketInv, NEW r \in Calls, req[r].state = "new"
  PROVE  /\ NextCallId(call_id) = call_id + 1
         /\ call_id \in Nat
         /\ IsFiniteSet(Issued)
<1>1. /\ Issued \subseteq Calls /\ IsFiniteSet(Calls) /\ r \notin Issued
  BY ReqsAssumption DEF Issued
<1>2. IsFiniteSet(Issued) /\ Cardinality(Issued) \in Nat /\ Cardinality(Calls) \in Nat
  BY <1>1, FS_Subset, FS_CardinalityType
<1>3. Cardinality(Issued) < Cardinality(Calls)
  <2>1. Cardinality(Issued \cup {r}) = Cardinality(Issued) + 1
    BY <1>1, <1>2, FS_AddElement
  <2>2. Issued \cup {r} \subseteq Calls
    BY <1>1
  <2>3. Cardinality(Issued \cup {r}) <= Cardinality(Calls)
    BY <1>1, <2>2, FS_Subset
  <2> QED BY <1>2, <2>1, <2>3
<1>4. call_id = Cardinality(Issued) + 1
  BY DEF TicketInv
<1> DEFINE i == Cardinality(Issued)
           n == Cardinality(Calls)
<1>5. i \in Nat /\ n \in Nat /\ i < n /\ CallIdMod \in Nat /\ n + 1 < CallIdMod /\ call_id = i + 1
  BY <1>2, <1>3, <1>4, CallIdAssumption
<1> HIDE DEF i, n
<1>6. call_id + 1 \in 1 .. CallIdMod - 1 /\ CallIdMod > 0 /\ call_id \in Nat
  BY <1>5
<1>7. (call_id + 1) % CallIdMod = call_id + 1
  BY <1>5, <1>6
<1> QED BY <1>2, <1>6, <1>7 DEF NextCallId

\* A step that issues no call.
LEMMA TicketFrame ==
  ASSUME TicketInv, call_id' = call_id,
         \A c \in Calls : /\ req'[c].call_id = req[c].call_id
                          /\ req'[c].state = "new" <=> req[c].state = "new"
  PROVE  TicketInv'
<1>1. Issued' = Issued
  BY DEF Issued
<1>2. \A c \in Issued : req'[c].call_id = req[c].call_id
  BY DEF Issued
<1>3. \A c \in Calls \ Issued : req'[c].call_id = req[c].call_id
  OBVIOUS
<1> QED BY <1>1, <1>2, <1>3 DEF TicketInv

\* After dcerpc_ship_next_request, the same calls are issued.
LEMMA ShipTickets ==
  ASSUME NEW rq \in [Reqs -> ReqType], NEW que \in Seq(Calls), NEW pend \in Seq(Reqs),
         Distinct(que), NEW o \in ShipNext(que, pend), NEW x \in Reqs
  PROVE  /\ ReqAfterShip(rq, o)[x].call_id = rq[x].call_id
         /\ ReqAfterShip(rq, o)[x].state = "new" => rq[x].state = "new"
         /\ x \notin Elems(que) => ReqAfterShip(rq, o)[x] = rq[x]
<1>1. o.shipped \cap o.failed = {}
  BY ShipOrder
<1>2. o.shipped \cup o.failed \subseteq Elems(que)
  <2>1. CASE que = <<>>
    BY <2>1 DEF ShipNext
  <2>2. CASE que # <<>>
    <3>1. Head(que) \in Elems(que)
      BY <2>2, TailElems
    <3> QED BY <3>1 DEF ShipNext, ShipFailed, ShipDone
  <2> QED BY <2>1, <2>2
<1> QED BY <1>1, <1>2, ShipWhat, ReqAfterShipFields

\* dcerpc_request_send gives the call an id above all that were given before.
LEMMA RequestSendTicket ==
  ASSUME IndInv, TicketInv, NEW r \in Calls, RequestSend(r)
  PROVE  /\ TicketInv'
         /\ \A c \in Calls : c # r => /\ req'[c].call_id = req[c].call_id
                                      /\ req'[c].state = "new" <=> req[c].state = "new"
         /\ req'[r].call_id = call_id + 1
         /\ req'[r].state # "new"
<1> DEFINE que == AddEnd(request_queue, r)
<1>1. PICK q \in ReqType, o \in ShipNext(que, pending) : SendsWith(r, q, o)
  BY RequestSendShips
<1> DEFINE rq == [req EXCEPT ![r] = q]
<1>2. /\ req[r].state = "new" /\ r \notin Elems(request_queue) /\ r \in Reqs
      /\ q.state = "pending" /\ q.call_id = NextCallId(call_id)
      /\ req' = ReqAfterShip(rq, o)
  BY <1>1 DEF SendsWith, Reqs
<1>3. /\ rq \in [Reqs -> ReqType] /\ rq[r] = q
      /\ \A x \in Reqs : x # r => rq[x] = req[x]
  BY <1>2 DEF IndInv, TypeOK
<1> HIDE DEF rq
<1>4. /\ que \in Seq(Calls) /\ Distinct(que) /\ Elems(que) = Elems(request_queue) \cup {r}
  BY <1>2, AddEndElems DEF IndInv, TypeOK, OneList
<1> HIDE DEF que
<1>5. \A x \in Reqs : /\ req'[x].call_id = rq[x].call_id
                      /\ req'[x].state = "new" => rq[x].state = "new"
                      /\ x \notin Elems(que) => req'[x] = rq[x]
  <2>1. pending \in Seq(Reqs)
    BY DEF IndInv, TypeOK
  <2>2. \A x \in Reqs : /\ ReqAfterShip(rq, o)[x].call_id = rq[x].call_id
                        /\ ReqAfterShip(rq, o)[x].state = "new" => rq[x].state = "new"
                        /\ x \notin Elems(que) => ReqAfterShip(rq, o)[x] = rq[x]
    BY <1>3, <1>4, <2>1, ShipTickets
  <2> QED BY <1>2, <2>2
<1>6. NextCallId(call_id) = call_id + 1 /\ call_id \in Nat /\ IsFiniteSet(Issued)
  BY <1>2, NextTicket
<1>7. \A x \in Elems(request_queue) : req[x].state # "new"
  BY DEF IndInv, ListedAllocated
<1>8. \A c \in Calls : c # r => /\ req'[c].call_id = req[c].call_id
                                /\ req'[c].state = "new" <=> req[c].state = "new"
  BY <1>3, <1>4, <1>5, <1>7 DEF Reqs
<1>9. req'[r].call_id = call_id + 1 /\ req'[r].state # "new"
  BY <1>2, <1>3, <1>5, <1>6
<1>10. Issued' = Issued \cup {r} /\ r \notin Issued
  BY <1>2, <1>8, <1>9 DEF Issued
<1>11. call_id' = Cardinality(Issued') + 1
  <2>1. Cardinality(Issued \cup {r}) = Cardinality(Issued) + 1
    BY <1>6, <1>10, FS_AddElement
  <2>2. call_id' = call_id + 1 /\ call_id = Cardinality(Issued) + 1
    BY <1>6 DEF RequestSend, TicketInv
  <2> QED BY <1>10, <2>1, <2>2
<1>12. call_id' = call_id + 1
  BY <1>6 DEF RequestSend
<1>13. \A c \in Issued : /\ req'[c].call_id = req[c].call_id /\ req[c].call_id \in Nat
                         /\ 1 < req[c].call_id /\ req[c].call_id <= call_id
  <2>1. \A c \in Issued : c \in Calls /\ c \in Reqs /\ c # r
    BY <1>10 DEF Issued, Reqs
  <2>2. \A c \in Reqs : req[c].call_id \in Nat
    BY CallIdAssumption DEF IndInv, TypeOK, ReqType
  <2> QED BY <1>8, <2>1, <2>2 DEF TicketInv
<1>14. 1 < call_id + 1
  <2>1. call_id >= 1
    BY DEF IndInv, TypeOK
  <2> QED BY <1>6, <2>1
<1>15. \A c \in Issued' : 1 < req'[c].call_id /\ req'[c].call_id <= call_id'
  <2>1. \A c \in Issued : req[c].call_id <= call_id + 1
    BY <1>6, <1>13
  <2>2. call_id + 1 <= call_id + 1
    BY <1>6
  <2> QED BY <1>9, <1>10, <1>12, <1>13, <1>14, <2>1, <2>2
<1>16. \A c, d \in Issued' : req'[c].call_id = req'[d].call_id => c = d
  <2>1. \A c \in Issued : req[c].call_id # call_id + 1
    BY <1>6, <1>13
  <2>2. \A c, d \in Issued : req[c].call_id = req[d].call_id => c = d
    BY DEF TicketInv
  <2> QED BY <1>9, <1>10, <1>13, <2>1, <2>2
<1>17. \A c \in Calls \ Issued' : req'[c].call_id = 0
  BY <1>8, <1>10 DEF TicketInv
<1>18. TicketInv'
  BY <1>11, <1>15, <1>16, <1>17 DEF TicketInv
<1> QED BY <1>8, <1>9, <1>18

\* Only dcerpc_request_send issues a call; no step takes it back, or gives the
\* call another id.
LEMMA OthersKeepTickets ==
  ASSUME IndInv, [Next]_vars, \A r \in Calls : ~RequestSend(r)
  PROVE  /\ call_id' = call_id
         /\ \A c \in Calls : /\ req'[c].call_id = req[c].call_id
                             /\ req'[c].state = "new" <=> req[c].state = "new"
<1> DEFINE Goal == /\ call_id' = call_id
                   /\ \A c \in Calls : /\ req'[c].call_id = req[c].call_id
                                       /\ req'[c].state = "new" <=> req[c].state = "new"
<1> SUFFICES Goal
  OBVIOUS
<1>1. Calls \cap Alters = {} /\ SyncCalls \subseteq Calls /\ Calls \subseteq Reqs
      /\ Alters \subseteq Reqs
  BY ReqsAssumption DEF Reqs
<1>2. \A x \in Elems(pending) : req[x].state # "new"
  BY DEF IndInv, ListedAllocated
<1>3. ASSUME UNCHANGED <<call_id, req>> PROVE Goal
  BY <1>3
<1>4. ASSUME NEW m \in Reqs, call_id' = call_id, Only(m),
             m \in Calls => (req'[m].state = "new" <=> req[m].state = "new")
      PROVE  Goal
  BY <1>1, <1>4 DEF Only
<1> HIDE DEF Goal
<1>5. CASE UNCHANGED vars
  BY <1>3, <1>5 DEF vars, connVars
<1>6. ASSUME NEW a \in Alters, NEW sends \in BOOLEAN, AlterSend(a, sends) \/ BindSend(a, sends)
      PROVE  Goal
  <2>1. PICK ctx : ContextSend(a, sends, ctx)
    BY <1>6 DEF AlterSend, BindSend
  <2>2. call_id' = call_id /\ a \notin Calls /\ \A x \in Reqs : x # a => req'[x] = req[x]
    BY <2>1, ContextSendWhat
  <2> QED BY <1>1, <2>2 DEF Goal
<1>7. ASSUME NEW a \in Alters, AlterSendFailed(a) PROVE Goal
  <2>1. Only(a) /\ a \in Reqs /\ a \notin Calls /\ call_id' = call_id
    BY <1>7, AlterSendFailedWhat DEF connVars
  <2> QED BY <1>4, <2>1
<1>8. ASSUME NEW r \in Reqs, NEW k \in Packets(r), RecvUnmatched(r, k) PROVE Goal
  BY <1>3, <1>8 DEF RecvUnmatched, Arrives
<1>9. ASSUME NEW r \in Reqs, NEW m \in Alters, NEW k \in Packets(r), RecvHandler(r, k, m)
      PROVE  Goal
  <2>1. Only(m) /\ m \in Reqs /\ m \notin Calls /\ call_id' = call_id
    BY <1>9, RecvHandlerWhat
  <2> QED BY <1>4, <2>1
<1>10. ASSUME NEW r \in Reqs, NEW m \in Calls, RecvFragment(r, m) PROVE Goal
  <2>1. Only(m) /\ m \in Reqs /\ req'[m].state = req[m].state /\ call_id' = call_id
    BY <1>10, RecvFragmentWhat
  <2> QED BY <1>4, <2>1
<1>11. ASSUME NEW r \in Reqs, NEW m \in Calls, NEW k \in Packets(r), RecvDone(r, k, m)
       PROVE  Goal
  <2> DEFINE pend == Unlink(pending, m)
  <2>1. PICK q \in ReqType, o \in ShipNext(request_queue, pend) : DoneWith(r, k, m, q, o)
    BY <1>11, RecvDoneShips
  <2> DEFINE rq == [req EXCEPT ![m] = q]
  <2>2. /\ m \in Elems(pending) /\ m \notin Elems(request_queue)
        /\ q.state # "new" /\ q.call_id = req[m].call_id
        /\ req' = ReqAfterShip(rq, o)
    BY <2>1 DEF DoneWith
  <2>3. /\ rq \in [Reqs -> ReqType] /\ rq[m] = q
        /\ \A x \in Reqs : x # m => rq[x] = req[x]
    BY <1>1 DEF IndInv, TypeOK
  <2> HIDE DEF rq
  <2>4. /\ request_queue \in Seq(Calls) /\ Distinct(request_queue) /\ pend \in Seq(Reqs)
        /\ \A x \in Elems(request_queue) : req[x].state # "new"
    BY UnlinkType DEF IndInv, TypeOK, OneList, ListedAllocated
  <2> HIDE DEF pend
  <2>5. \A x \in Reqs : /\ ReqAfterShip(rq, o)[x].call_id = rq[x].call_id
                        /\ ReqAfterShip(rq, o)[x].state = "new" => rq[x].state = "new"
                        /\ x \notin Elems(request_queue) => ReqAfterShip(rq, o)[x] = rq[x]
    BY <2>3, <2>4, ShipTickets
  <2>6. \A x \in Reqs : /\ req'[x].call_id = rq[x].call_id
                        /\ req'[x].state = "new" => rq[x].state = "new"
                        /\ x \notin Elems(request_queue) => req'[x] = rq[x]
    BY <2>2, <2>5
  <2>7. call_id' = call_id
    BY <1>11 DEF RecvDone, Arrives
  <2> QED BY <1>1, <1>2, <2>2, <2>3, <2>4, <2>6, <2>7 DEF Goal
<1>12. CASE Timeout
  <2>1. call_id' = call_id
    BY <1>12, TimeoutWhat
  <2>2. CASE UNCHANGED <<req, pending, request_queue>>
    BY <1>3, <2>1, <2>2
  <2>3. CASE ~UNCHANGED <<req, pending, request_queue>>
    <3>1. PICK r \in Reqs :
             /\ Only(r)
             /\ req[r].state = "pending"
             /\ req'[r].state = IF r \in SyncCalls THEN "done" ELSE "freed"
      BY <1>12, <2>3, TimeoutWhat
    <3> QED BY <1>4, <2>1, <3>1
  <2> QED BY <2>2, <2>3
<1>13. CASE SockDead \/ DeadEnd
  BY <1>3, <1>13 DEF SockDead, DeadEnd, connVars
<1>14. ASSUME NEW r \in Reqs, RecvMalformed(r) PROVE Goal
  BY <1>3, <1>14 DEF RecvMalformed, connVars
<1>15. CASE DeadStep
  <2>1. PICK r \in Elems(pending) :
           r \in Reqs /\ Only(r) /\ req'[r].state = "freed" /\ call_id' = call_id
    BY <1>15, DeadStepWhat
  <2> QED BY <1>2, <1>4, <2>1
<1>16. ASSUME NEW r \in SyncCalls, RequestRecv(r) PROVE Goal
  <2>1. /\ r \in Reqs /\ Only(r) /\ req'[r].state = "freed" /\ call_id' = call_id
        /\ req[r].state \in {"done", "freed"}
    BY <1>16, RequestRecvWhat
  <2> QED BY <1>4, <2>1
<1> QED
  BY <1>5, <1>6, <1>7, <1>8, <1>9, <1>10, <1>11, <1>12, <1>13, <1>14, <1>15, <1>16 DEF Next

\* Every step keeps the call ids different and below the counter.
LEMMA NextTickets == IndInv /\ TicketInv /\ [Next]_vars => TicketInv'
<1> SUFFICES ASSUME IndInv, TicketInv, [Next]_vars PROVE TicketInv'
  OBVIOUS
<1>1. CASE \E r \in Calls : RequestSend(r)
  BY <1>1, RequestSendTicket
<1>2. CASE \A r \in Calls : ~RequestSend(r)
  BY <1>2, OthersKeepTickets, TicketFrame
<1> QED BY <1>1, <1>2
-----------------------------------------------------------------------------
(***************************************************************************)
(* A call is given its own reply.                                          *)
(***************************************************************************)
LEMMA SubCallsFirst ==
  ASSUME NEW s, NEW t, Sub(t, s), CallsFirst(s)
  PROVE  CallsFirst(t)
BY DEF Sub, CallsFirst

\* A step after which calls have the payload they had, no more are in the
\* queue, pending or with the server, and pending ones are as far as they were.
LEMMA ReplyFrame ==
  ASSUME NEW rq, NEW que, NEW pend, NEW ow, NEW sn, Replies(rq, que, pend, ow, sn),
         NEW rq2, NEW que2, NEW pend2, NEW ow2, NEW sn2, CallsFirst(pend2),
         Elems(que2) \subseteq Elems(que),
         Elems(pend2) \cap Calls \subseteq Elems(pend),
         ow2 \cap Calls \subseteq ow,
         \A c \in Calls : /\ rq2[c].payload = rq[c].payload
                          /\ rq2[c].state = "new" => rq[c].state = "new",
         \A x \in Reqs : x \notin ow2 => sn2[x] = 0,
         \A c \in Calls : c \in Elems(pend2) /\ c \in ow2 => sn2[c] = sn[c]
  PROVE  Replies(rq2, que2, pend2, ow2, sn2)
<1>1. \A c \in Calls : rq2[c].state = "new" \/ c \in Elems(que2) =>
        c \notin ow2 /\ rq2[c].payload = <<>>
  BY DEF Replies
<1>2. \A c \in Calls : c \in Elems(pend2) /\ c \in ow2 => Len(rq2[c].payload) = sn2[c]
  BY DEF Replies
<1>3. \A c \in Calls : \A n \in DOMAIN rq2[c].payload : rq2[c].payload[n] = <<c, n>>
  BY DEF Replies
<1> QED BY <1>1, <1>2, <1>3 DEF Replies

\* The server has sent nothing of the reply to a call that is being shipped.
LEMMA ShipReplies ==
  ASSUME NEW rq \in [Reqs -> ReqType], NEW que \in Seq(Calls), NEW pend \in Seq(Reqs),
         Distinct(que), Distinct(pend), Elems(que) \cap Elems(pend) = {},
         NEW o \in ShipNext(que, pend), NEW ow, NEW sn, Replies(rq, que, pend, ow, sn),
         \A x \in Elems(que) : rq[x].state # "new"
  PROVE  Replies(ReqAfterShip(rq, o), o.queue, o.pending, ow \cup o.shipped, sn)
<1> DEFINE rq2 == ReqAfterShip(rq, o)
<1>1. /\ o.shipped \subseteq Calls /\ o.shipped \subseteq Elems(que)
      /\ Elems(o.queue) \subseteq Elems(que)
      /\ Elems(o.pending) = Elems(pend) \cup o.shipped
  BY ShipLists
<1>2. /\ \A x \in o.shipped \cup o.failed : x \notin Elems(o.queue)
      /\ o.shipped \cap o.failed = {}
  BY ShipOrder
<1>3. \A x \in Reqs : /\ rq2[x].payload = rq[x].payload
                      /\ rq2[x].state = "new" => rq[x].state = "new"
  BY <1>2, ShipWhat, ReqAfterShipFields
<1> HIDE DEF rq2
<1>4. InFront(o.pending, pend)
  BY ShipOrder
<1>5. CallsFirst(o.pending)
  <2>1. CallsFirst(pend)
    BY DEF Replies
  <2>2. ASSUME NEW h \in Calls, o.pending = <<h>> \o pend PROVE CallsFirst(o.pending)
    <3>1. h \notin Alters
      BY ReqsAssumption
    <3> DEFINE b == <<h>> \o pend
    <3>2. \A i, j \in DOMAIN b : i < j =>
            \/ i - 1 \in DOMAIN pend /\ j - 1 \in DOMAIN pend /\ i - 1 < j - 1
               /\ b[i] = pend[i - 1] /\ b[j] = pend[j - 1]
            \/ b[i] = h /\ b[j] \in Elems(pend)
      BY AddFrontOrder
    <3> HIDE DEF b
    <3>3. CallsFirst(b)
      BY <2>1, <3>1, <3>2 DEF CallsFirst
    <3> QED BY <2>2, <3>3 DEF b
  <2> QED BY <1>4, <2>1, <2>2 DEF InFront
<1>6. Calls \subseteq Reqs
  BY DEF Reqs
<1>7. \A c \in Calls : rq2[c].state = "new" \/ c \in Elems(o.queue) =>
        c \notin ow \cup o.shipped /\ rq2[c].payload = <<>>
  <2> TAKE c \in Calls
  <2>1. CASE c \in Elems(o.queue)
    BY <1>1, <1>2, <1>3, <1>6, <2>1 DEF Replies
  <2>2. CASE rq2[c].state = "new" /\ c \notin o.shipped
    BY <1>3, <1>6, <2>2 DEF Replies
  <2>3. CASE rq2[c].state = "new" /\ c \in o.shipped
    BY <1>1, <1>3, <1>6, <2>3
  <2> QED BY <2>1, <2>2, <2>3
<1>8. \A c \in Calls : c \in Elems(o.pending) /\ c \in ow \cup o.shipped =>
         Len(rq2[c].payload) = sn[c]
  <2> TAKE c \in Calls
  <2>1. CASE c \in o.shipped
    <3>1. c \notin ow /\ rq[c].payload = <<>> /\ c \in Reqs
      BY <1>1, <1>6, <2>1 DEF Replies
    <3>2. sn[c] = 0 /\ rq2[c].payload = <<>>
      BY <1>3, <3>1 DEF Replies
    <3> QED BY <3>2
  <2>2. CASE c \notin o.shipped
    BY <1>1, <1>3, <1>6, <2>2 DEF Replies
  <2> QED BY <2>1, <2>2
<1>9. \A c \in Calls : \A n \in DOMAIN rq2[c].payload : rq2[c].payload[n] = <<c, n>>
  BY <1>3, <1>6 DEF Replies
<1>10. \A x \in Reqs : x \notin ow \cup o.shipped => sn[x] = 0
  BY DEF Replies
<1>11. Replies(rq2, o.queue, o.pending, ow \cup o.shipped, sn)
  BY <1>5, <1>7, <1>8, <1>9, <1>10 DEF Replies
<1> QED BY <1>11 DEF rq2

\* Initially no reply is under way.
LEMMA ReplyInit == Init => ReplyInv
<1> SUFFICES ASSUME Init PROVE ReplyInv
  OBVIOUS
<1>1. Elems(pending) = {} /\ Elems(request_queue) = {} /\ pending = <<>>
  BY DEF Init, Elems
<1>2. \A x \in Reqs : req[x].payload = <<>> /\ sent[x] = 0 /\ x \notin owed
  BY DEF Init, NewReq
<1>3. CallsFirst(pending)
  BY <1>1 DEF CallsFirst
<1> QED BY <1>1, <1>2, <1>3 DEF ReplyInv, Replies, Reqs

\* A reply to a call that is matched with a call is matched with its own.
LEMMA MatchOwn ==
  ASSUME IndInv, TicketInv, ReplyInv, NEW m \in Calls, NEW r \in Calls, r \in owed, Matches(m, r)
  PROVE  m = r
<1>1. m \in Elems(pending) /\ req[m].call_id = req[r].call_id
  BY DEF Matches, Elems
<1>2. req[m].state # "new" /\ req[r].state # "new"
  BY <1>1 DEF IndInv, ListedAllocated, ReplyInv, Replies
<1> QED BY <1>1, <1>2 DEF TicketInv, Issued

\* A reply to a call that is matched with an alter is late: the call is gone.
LEMMA MatchLate ==
  ASSUME IndInv, ReplyInv, NEW m \in Alters, NEW r \in Calls, Matches(m, r)
  PROVE  r \notin Elems(pending)
<1> SUFFICES ASSUME r \in Elems(pending) PROVE FALSE
  OBVIOUS
<1>1. PICK n \in DOMAIN pending :
        /\ pending[n] = m
        /\ \A i \in 1 .. n - 1 : req[pending[i]].call_id # req[r].call_id
  BY DEF Matches
<1>2. PICK i \in DOMAIN pending : pending[i] = r
  BY DEF Elems
<1>3. DOMAIN pending = 1 .. Len(pending) /\ Len(pending) \in Nat
  BY DEF IndInv, TypeOK
<1>4. ~(n < i)
  BY <1>1, <1>2 DEF ReplyInv, Replies, CallsFirst
<1>5. n # i
  BY <1>1, <1>2, ReqsAssumption
<1>6. i \in 1 .. n - 1
  BY <1>3, <1>4, <1>5
<1> QED BY <1>1, <1>2, <1>6

\* A packet counts for the request it answers, and the end of its reply for none.
LEMMA ArrivesSent ==
  ASSUME IndInv, ReplyInv, NEW r \in Reqs, NEW k, Arrives(r, k)
  PROVE  /\ r \in owed
         /\ \A x \in Reqs : x # r => sent'[x] = sent[x]
         /\ sent'[r] = IF k \in More THEN sent[r] + 1 ELSE 0
         /\ OwedAfter(r, k) \subseteq owed
         /\ \A x \in Reqs : x \notin OwedAfter(r, k) => sent'[x] = 0
         /\ r \in Alters => k \notin {"more", "last"}
<1>1. /\ r \in owed /\ k \in Packets(r)
      /\ sent' = [sent EXCEPT ![r] = IF k \in More THEN sent[r] + 1 ELSE 0]
  BY DEF Arrives
<1>2. /\ \A x \in Reqs : x # r => sent'[x] = sent[x]
      /\ sent'[r] = IF k \in More THEN sent[r] + 1 ELSE 0
  BY <1>1 DEF IndInv, TypeOK
<1>3. \A x \in Reqs : x \notin owed => sent[x] = 0
  BY DEF ReplyInv, Replies
<1>4. \A x \in Reqs : x \notin OwedAfter(r, k) => sent'[x] = 0
  BY <1>1, <1>2, <1>3 DEF OwedAfter
<1>5. r \in Alters => k \notin {"more", "last"}
  BY <1>1 DEF Packets
<1> QED BY <1>1, <1>2, <1>4, <1>5 DEF OwedAfter

\* Shipping a call starts its reply with an empty payload.
LEMMA RequestSendReply ==
  ASSUME IndInv, ReplyInv, NEW r \in Calls, RequestSend(r)
  PROVE  ReplyInv'
<1> DEFINE que == AddEnd(request_queue, r)
<1>1. PICK q \in ReqType, o \in ShipNext(que, pending) : SendsWith(r, q, o)
  BY RequestSendShips
<1> DEFINE rq == [req EXCEPT ![r] = q]
<1>2. /\ req[r].state = "new" /\ r \in Reqs
      /\ r \notin Elems(request_queue) /\ r \notin Elems(pending)
      /\ q.state = "pending" /\ q.payload = <<>>
      /\ request_queue' = o.queue
      /\ pending' = o.pending
      /\ req' = ReqAfterShip(rq, o)
      /\ owed' = owed \cup o.shipped
  BY <1>1 DEF SendsWith, Reqs
<1>3. /\ rq \in [Reqs -> ReqType] /\ rq[r] = q
      /\ \A x \in Reqs : x # r => rq[x] = req[x]
  BY <1>2 DEF IndInv, TypeOK
<1> HIDE DEF rq
<1>4. /\ que \in Seq(Calls) /\ Distinct(que) /\ Elems(que) = Elems(request_queue) \cup {r}
  BY <1>2, AddEndElems DEF IndInv, TypeOK, OneList
<1> HIDE DEF que
<1>5. pending \in Seq(Reqs) /\ Distinct(pending) /\ Elems(que) \cap Elems(pending) = {}
  BY <1>2, <1>4 DEF IndInv, TypeOK, OneList
<1>6. Calls \subseteq Reqs
  BY DEF Reqs
<1>7. Replies(rq, que, pending, owed, sent)
  <2>1. Replies(req, request_queue, pending, owed, sent)
    BY DEF ReplyInv
  <2>2. r \notin owed
    BY <1>2, <2>1 DEF Replies
  <2>3. \A n \in DOMAIN q.payload : q.payload[n] = <<r, n>>
    BY <1>2
  <2>4. \A c \in Calls : c # r => rq[c] = req[c]
    BY <1>3, <1>6
  <2>5. \A c \in Calls : rq[c].state = "new" \/ c \in Elems(que) =>
          c \notin owed /\ rq[c].payload = <<>>
    BY <1>2, <1>3, <1>4, <2>1, <2>2, <2>4 DEF Replies
  <2>6. \A c \in Calls : c \in Elems(pending) /\ c \in owed => Len(rq[c].payload) = sent[c]
    BY <1>2, <2>1, <2>4 DEF Replies
  <2>7. \A c \in Calls : \A n \in DOMAIN rq[c].payload : rq[c].payload[n] = <<c, n>>
    BY <1>3, <2>1, <2>3, <2>4 DEF Replies
  <2> QED BY <2>1, <2>5, <2>6, <2>7 DEF Replies
<1>8. \A x \in Elems(que) : rq[x].state # "new"
  <2>1. \A x \in Elems(request_queue) : x \in Reqs /\ req[x].state # "new"
    BY DEF IndInv, TypeOK, ListedAllocated, Elems, Reqs
  <2> QED BY <1>2, <1>3, <1>4, <2>1
<1>9. Replies(ReqAfterShip(rq, o), o.queue, o.pending, owed \cup o.shipped, sent)
  BY <1>3, <1>4, <1>5, <1>7, <1>8, ShipReplies
<1>10. sent' = sent
  BY DEF RequestSend
<1>11. Replies(req', request_queue', pending', owed', sent')
  BY <1>2, <1>9, <1>10
<1> QED BY <1>11 DEF ReplyInv, Replies, CallsFirst, Elems

\* A call that ends has the fragments that came for it and no other.
LEMMA RecvDoneReply ==
  ASSUME IndInv, TicketInv, ReplyInv, NEW r \in Reqs, NEW m \in Calls, NEW k \in Packets(r),
         RecvDone(r, k, m)
  PROVE  ReplyInv'
<1> DEFINE pend == Unlink(pending, m)
<1>1. PICK q \in ReqType, o \in ShipNext(request_queue, pend) : DoneWith(r, k, m, q, o)
  BY RecvDoneShips
<1> DEFINE rq == [req EXCEPT ![m] = q]
           ow == OwedAfter(r, k)
<1>2. /\ m \in Elems(pending) /\ m \notin Elems(request_queue)
      /\ q.state # "new"
      /\ q.payload = IF Accepted(k) THEN req[m].payload \o <<<<r, sent[r] + 1>>>>
                                    ELSE req[m].payload
      /\ request_queue' = o.queue
      /\ pending' = o.pending
      /\ req' = ReqAfterShip(rq, o)
      /\ owed' = ow \cup o.shipped
  BY <1>1 DEF DoneWith
<1>3. m \in Reqs /\ Calls \subseteq Reqs
  BY DEF Reqs
<1>4. /\ rq \in [Reqs -> ReqType] /\ rq[m] = q
      /\ \A x \in Reqs : x # m => rq[x] = req[x]
  BY <1>3 DEF IndInv, TypeOK
<1> HIDE DEF rq
<1>5. /\ pending \in Seq(Reqs) /\ Distinct(pending) /\ request_queue \in Seq(Calls)
      /\ Distinct(request_queue) /\ Elems(request_queue) \cap Elems(pending) = {}
  BY DEF IndInv, TypeOK, OneList
<1>6. /\ pend \in Seq(Reqs) /\ Distinct(pend) /\ Elems(pend) = Elems(pending) \ {m}
      /\ Elems(request_queue) \cap Elems(pend) = {} /\ Sub(pend, pending)
  BY <1>5, UnlinkType, UnlinkElems, UnlinkSub
<1> HIDE DEF pend
<1>7. Arrives(r, k) /\ Matches(m, r)
  BY DEF RecvDone
<1>8. /\ r \in owed
      /\ \A x \in Reqs : x # r => sent'[x] = sent[x]
      /\ ow \subseteq owed
      /\ \A x \in Reqs : x \notin ow => sent'[x] = 0
      /\ r \in Alters => ~Accepted(k)
  BY <1>7, ArrivesSent DEF Accepted
<1> HIDE DEF ow
<1>9. r \in Calls => m = r
  BY <1>7, <1>8, MatchOwn
<1>10. Replies(req, request_queue, pending, owed, sent)
  BY DEF ReplyInv
<1>11. \A n \in DOMAIN q.payload : q.payload[n] = <<m, n>>
  <2>1. CASE ~Accepted(k)
    BY <1>2, <1>10, <2>1 DEF Replies
  <2>2. CASE Accepted(k)
    <3>1. r \in Calls /\ m = r
      BY <1>8, <1>9, <2>2 DEF Reqs
    <3> DEFINE p == req[m].payload
               s == sent[r]
               e == <<r, s + 1>>
    <3>2. p \in Seq(Reqs \X Nat)
      BY <1>3 DEF IndInv, TypeOK, ReqType
    <3>3. Len(p) = s /\ \A n \in DOMAIN p : p[n] = <<m, n>>
      BY <1>2, <1>8, <1>10, <3>1 DEF Replies
    <3>4. q.payload = p \o <<e>>
      BY <1>2, <2>2
    <3> HIDE DEF p, s
    <3>5. /\ DOMAIN (p \o <<e>>) = 1 .. Len(p) + 1
          /\ \A n \in 1 .. Len(p) : (p \o <<e>>)[n] = p[n]
          /\ (p \o <<e>>)[Len(p) + 1] = e
      <4> HIDE DEF e
      <4> QED BY <3>2
    <3>6. Len(p) \in Nat /\ DOMAIN p = 1 .. Len(p)
      BY <3>2
    <3>7. \A n \in 1 .. Len(p) + 1 : n \in 1 .. Len(p) \/ n = Len(p) + 1
      BY <3>6
    <3>8. e = <<m, Len(p) + 1>>
      BY <3>1, <3>3
    <3> QED BY <3>3, <3>4, <3>5, <3>6, <3>7, <3>8
  <2> QED BY <2>1, <2>2
<1>12. Replies(rq, request_queue, pend, ow, sent')
  <2>1. CallsFirst(pend)
    BY <1>6, <1>10, SubCallsFirst DEF Replies
  <2>2. \A c \in Calls : c # m => rq[c] = req[c]
    BY <1>3, <1>4
  <2>3. \A c \in Calls : rq[c].state = "new" \/ c \in Elems(request_queue) =>
          c \notin ow /\ rq[c].payload = <<>>
    BY <1>2, <1>4, <1>8, <1>10, <2>2 DEF Replies
  <2>4. \A c \in Calls : c \in Elems(pend) /\ c \in ow => Len(rq[c].payload) = sent'[c]
    BY <1>3, <1>6, <1>8, <1>9, <1>10, <2>2 DEF Replies
  <2>5. \A c \in Calls : \A n \in DOMAIN rq[c].payload : rq[c].payload[n] = <<c, n>>
    BY <1>4, <1>10, <1>11, <2>2 DEF Replies
  <2> QED BY <1>8, <2>1, <2>3, <2>4, <2>5 DEF Replies
<1>13. \A x \in Elems(request_queue) : rq[x].state # "new"
  <2>1. \A x \in Elems(request_queue) : x \in Reqs /\ req[x].state # "new"
    BY DEF IndInv, TypeOK, ListedAllocated, Elems, Reqs
  <2> QED BY <1>2, <1>4, <2>1
<1>14. Replies(ReqAfterShip(rq, o), o.queue, o.pending, ow \cup o.shipped, sent')
  BY <1>4, <1>5, <1>6, <1>12, <1>13, ShipReplies
<1>15. Replies(req', request_queue', pending', owed', sent')
  BY <1>2, <1>14
<1> QED BY <1>15 DEF ReplyInv, Replies, CallsFirst, Elems

\* A fragment is given to the call it was sent for: its id matches that call
\* alone, as calls come before the alters that may have the same id.
LEMMA RecvFragmentReply ==
  ASSUME IndInv, TicketInv, ReplyInv, NEW r \in Reqs, NEW m \in Calls, RecvFragment(r, m)
  PROVE  ReplyInv'
<1>1. /\ m \in Reqs /\ m \in Elems(pending)
      /\ \A x \in Reqs : x # m => req'[x] = req[x]
      /\ req'[m].state = req[m].state
      /\ req'[m].payload = Append(req[m].payload, <<r, sent[r] + 1>>)
      /\ UNCHANGED <<request_queue, pending, owed>>
      /\ Arrives(r, "more") /\ Matches(m, r)
  BY RecvFragmentWhat DEF Only
<1>2. /\ r \in owed /\ r \notin Alters
      /\ \A x \in Reqs : x # r => sent'[x] = sent[x]
      /\ sent'[r] = sent[r] + 1
      /\ \A x \in Reqs : x \notin owed => sent'[x] = 0
  BY <1>1, ArrivesSent DEF OwedAfter, More
<1>3. m = r
  BY <1>1, <1>2, MatchOwn DEF Reqs
<1>4. Replies(req, request_queue, pending, owed, sent)
  BY DEF ReplyInv
<1> DEFINE p == req[m].payload
           s == sent[m]
           p2 == Append(p, <<m, s + 1>>)
<1>5. p \in Seq(Reqs \X Nat) /\ req'[m].payload = p2
  BY <1>1, <1>3 DEF IndInv, TypeOK, ReqType
<1>6. Len(p) = s /\ (\A n \in DOMAIN p : p[n] = <<m, n>>) /\ sent'[m] = s + 1
  BY <1>1, <1>2, <1>3, <1>4 DEF Replies
<1> HIDE DEF p, s
<1>7. Len(p) \in Nat /\ DOMAIN p = 1 .. Len(p)
  BY <1>5
<1> DEFINE e == <<m, s + 1>>
<1> HIDE DEF e
<1>8. /\ DOMAIN Append(p, e) = 1 .. Len(p) + 1 /\ Len(Append(p, e)) = Len(p) + 1
      /\ \A n \in 1 .. Len(p) : Append(p, e)[n] = p[n]
      /\ Append(p, e)[Len(p) + 1] = e
  BY <1>5
<1>9. p2 = Append(p, e) /\ e = <<m, Len(p) + 1>>
  BY <1>6 DEF e
<1> HIDE DEF p2
<1>10. \A n \in 1 .. Len(p) + 1 : n \in 1 .. Len(p) \/ n = Len(p) + 1
  BY <1>7
<1>11. \A n \in DOMAIN p2 : p2[n] = <<m, n>>
  BY <1>6, <1>7, <1>8, <1>9, <1>10
<1>12. Len(p2) = sent'[m]
  BY <1>6, <1>8, <1>9
<1>13. Calls \subseteq Reqs /\ m \notin Elems(request_queue)
       /\ req[m].state # "new"
  BY <1>1 DEF Reqs, IndInv, OneList, ListedAllocated
<1>14. Replies(req', request_queue, pending, owed, sent')
  <2>1. \A c \in Calls : c # m => req'[c] = req[c] /\ sent'[c] = sent[c]
    BY <1>1, <1>2, <1>3, <1>13
  <2>2. \A c \in Calls : req'[c].state = "new" \/ c \in Elems(request_queue) =>
          c \notin owed /\ req'[c].payload = <<>>
    BY <1>1, <1>4, <1>13, <2>1 DEF Replies
  <2>3. \A c \in Calls : c \in Elems(pending) /\ c \in owed =>
          Len(req'[c].payload) = sent'[c]
    BY <1>4, <1>5, <1>12, <2>1 DEF Replies
  <2>4. \A c \in Calls : \A n \in DOMAIN req'[c].payload : req'[c].payload[n] = <<c, n>>
    BY <1>4, <1>5, <1>11, <2>1 DEF Replies
  <2> QED BY <1>2, <1>4, <2>2, <2>3, <2>4 DEF Replies
<1>15. Replies(req', request_queue', pending', owed', sent')
  BY <1>1, <1>14
<1> QED BY <1>15 DEF ReplyInv, Replies, CallsFirst, Elems

\* Every step keeps ReplyInv.
LEMMA NextReply == IndInv /\ TicketInv /\ ReplyInv /\ [Next]_vars => ReplyInv'
<1> SUFFICES ASSUME IndInv, TicketInv, ReplyInv, [Next]_vars PROVE ReplyInv'
  OBVIOUS
<1>1. Calls \cap Alters = {} /\ SyncCalls \subseteq Calls /\ Calls \subseteq Reqs
      /\ Alters \subseteq Reqs
  BY ReqsAssumption DEF Reqs
<1>2. /\ Replies(req, request_queue, pending, owed, sent)
      /\ CallsFirst(pending) /\ \A x \in Reqs : x \notin owed => sent[x] = 0
  BY DEF ReplyInv, Replies
<1>3. ASSUME Replies(req', request_queue', pending', owed', sent') PROVE ReplyInv'
  BY <1>3 DEF ReplyInv, Replies, CallsFirst, Elems
<1>4. ASSUME NEW m \in Reqs, \A x \in Reqs : x # m => req'[x] = req[x], req'[m].state # "new",
             m \in Calls => req'[m].payload = req[m].payload,
             Elems(request_queue') \subseteq Elems(request_queue),
             Elems(pending') \cap Calls \subseteq Elems(pending), CallsFirst(pending'),
             owed' \cap Calls \subseteq owed, owed \subseteq owed', sent' = sent
      PROVE  ReplyInv'
  <2>1. \A c \in Calls : /\ req'[c].payload = req[c].payload
                         /\ req'[c].state = "new" => req[c].state = "new"
    BY <1>1, <1>4
  <2>2. \A x \in Reqs : x \notin owed' => sent'[x] = 0
    BY <1>2, <1>4
  <2>3. Replies(req', request_queue', pending', owed', sent')
    BY <1>2, <1>4, <2>1, <2>2, ReplyFrame
  <2> QED BY <1>3, <2>3
<1>5. ASSUME UNCHANGED <<req, request_queue, pending>>, owed' \subseteq owed,
             \A x \in Reqs : x \notin owed' => sent'[x] = 0,
             \A c \in Calls : c \in Elems(pending) /\ c \in owed' => sent'[c] = sent[c]
      PROVE  ReplyInv'
  <2>1. Replies(req', request_queue', pending', owed', sent')
    BY <1>2, <1>5, ReplyFrame
  <2> QED BY <1>3, <2>1
<1>6. CASE UNCHANGED vars
  BY <1>2, <1>5, <1>6 DEF vars, connVars, wireVars
<1>7. ASSUME NEW a \in Alters, NEW sends \in BOOLEAN, AlterSend(a, sends) \/ BindSend(a, sends)
      PROVE  ReplyInv'
  <2>1. PICK ctx : ContextSend(a, sends, ctx)
    BY <1>7 DEF AlterSend, BindSend
  <2>2. /\ a \in Reqs /\ a \notin Calls /\ a \notin Elems(pending)
        /\ pending' = AddEnd(pending, a)
        /\ \A x \in Reqs : x # a => req'[x] = req[x]
        /\ req'[a].state = "pending"
        /\ owed' \subseteq owed \cup {a} /\ owed \subseteq owed'
        /\ UNCHANGED <<request_queue, sent>>
    BY <2>1, ContextSendWhat
  <2>3. Elems(pending') = Elems(pending) \cup {a}
    BY <2>2, AddEndElems DEF IndInv, TypeOK, OneList
  <2>4. CallsFirst(pending')
    <3> DEFINE p == AddEnd(pending, a)
    <3>1. \A i, j \in DOMAIN p : i < j =>
            \/ i \in DOMAIN pending /\ j \in DOMAIN pending
               /\ p[i] = pending[i] /\ p[j] = pending[j]
            \/ p[i] \in Elems(pending) /\ p[j] = a
      BY AddEndOrder DEF IndInv, TypeOK
    <3> HIDE DEF p
    <3>2. CallsFirst(p)
      BY <1>2, <2>2, <3>1 DEF CallsFirst
    <3> QED BY <2>2, <3>2 DEF p
  <2> QED BY <1>4, <2>2, <2>3, <2>4
<1>8. ASSUME NEW a \in Alters, AlterSendFailed(a) PROVE ReplyInv'
  <2>1. /\ a \in Reqs /\ a \notin Calls /\ \A x \in Reqs : x # a => req'[x] = req[x]
        /\ req'[a].state # "new" /\ UNCHANGED <<request_queue, pending, owed, sent>>
    BY <1>8, AlterSendFailedWhat DEF Only, connVars
  <2> QED BY <1>2, <1>4, <2>1
<1>9. ASSUME NEW r \in Reqs, NEW k \in Packets(r), RecvUnmatched(r, k) PROVE ReplyInv'
  <2>1. /\ Arrives(r, k) /\ UNCHANGED <<req, request_queue, pending>> /\ owed' = OwedAfter(r, k)
        /\ r \notin Elems(pending)
    BY <1>9 DEF RecvUnmatched
  <2>2. /\ \A x \in Reqs : x # r => sent'[x] = sent[x]
        /\ OwedAfter(r, k) \subseteq owed
        /\ \A x \in Reqs : x \notin OwedAfter(r, k) => sent'[x] = 0
    BY <2>1, ArrivesSent
  <2> QED BY <1>1, <1>5, <2>1, <2>2
<1>10. ASSUME NEW r \in Reqs, NEW m \in Alters, NEW k \in Packets(r), RecvHandler(r, k, m)
       PROVE  ReplyInv'
  <2>1. /\ m \in Reqs /\ m \notin Calls
        /\ \A x \in Reqs : x # m => req'[x] = req[x]
        /\ Elems(pending') = Elems(pending) \ {m} /\ Sub(pending', pending)
        /\ request_queue' = request_queue
        /\ Arrives(r, k) /\ Matches(m, r) /\ owed' = OwedAfter(r, k)
    BY <1>10, RecvHandlerWhat DEF Only
  <2>2. /\ \A x \in Reqs : x # r => sent'[x] = sent[x]
        /\ OwedAfter(r, k) \subseteq owed
        /\ \A x \in Reqs : x \notin OwedAfter(r, k) => sent'[x] = 0
    BY <2>1, ArrivesSent
  <2>3. r \in Calls => r \notin Elems(pending)
    BY <2>1, MatchLate
  <2>4. CallsFirst(pending')
    BY <1>2, <2>1, SubCallsFirst
  <2>5. \A c \in Calls : /\ req'[c].payload = req[c].payload
                         /\ req'[c].state = "new" => req[c].state = "new"
    BY <1>1, <2>1
  <2>6. \A c \in Calls : c \in Elems(pending') /\ c \in owed' => sent'[c] = sent[c]
    BY <1>1, <2>1, <2>2, <2>3
  <2>7. \A x \in Reqs : x \notin owed' => sent'[x] = 0
    BY <2>1, <2>2
  <2>8. Elems(pending') \cap Calls \subseteq Elems(pending) /\ owed' \cap Calls \subseteq owed
        /\ Elems(request_queue') \subseteq Elems(request_queue)
    BY <2>1, <2>2
  <2>9. Replies(req', request_queue', pending', owed', sent')
    BY <1>2, <2>4, <2>5, <2>6, <2>7, <2>8, ReplyFrame
  <2> QED BY <1>3, <2>9
<1>11. CASE Timeout
  <2>1. UNCHANGED <<owed, sent>>
    BY <1>11, TimeoutWhat
  <2>2. CASE UNCHANGED <<req, pending, request_queue>>
    BY <1>2, <1>5, <2>1, <2>2
  <2>3. CASE ~UNCHANGED <<req, pending, request_queue>>
    <3>1. PICK r \in Reqs :
             /\ Only(r)
             /\ req'[r].state = IF r \in SyncCalls THEN "done" ELSE "freed"
             /\ req'[r].payload = req[r].payload
             /\ Elems(pending') = Elems(pending) \ {r}
             /\ Sub(pending', pending)
             /\ request_queue' = UnlinkForeign(request_queue, r)
      BY <1>11, <2>3, TimeoutWhat
    <3>2. Elems(request_queue') \subseteq Elems(request_queue) /\ req'[r].state # "new"
      BY <3>1, UnlinkForeignElems DEF IndInv, TypeOK, OneList
    <3>3. CallsFirst(pending')
      BY <1>2, <3>1, SubCallsFirst
    <3>4. \A x \in Reqs : x # r => req'[x] = req[x]
      BY <3>1 DEF Only
    <3> QED BY <1>4, <2>1, <3>1, <3>2, <3>3, <3>4
  <2> QED BY <2>2, <2>3
<1>12. CASE SockDead
  <2>1. /\ UNCHANGED <<req, request_queue, pending>> /\ owed' = {}
        /\ \A x \in Reqs : sent'[x] = 0
    BY <1>12 DEF SockDead, connVars
  <2> QED BY <1>5, <2>1
<1>13. ASSUME NEW r \in Reqs, RecvMalformed(r) PROVE ReplyInv'
  <2>1. /\ UNCHANGED <<req, request_queue, pending>> /\ owed' = owed \ {r}
        /\ sent' = [sent EXCEPT ![r] = 0]
    BY <1>13 DEF RecvMalformed, connVars
  <2>2. sent'[r] = 0 /\ \A x \in Reqs : x # r => sent'[x] = sent[x]
    BY <2>1 DEF IndInv, TypeOK
  <2> QED BY <1>1, <1>2, <1>5, <2>1, <2>2
<1>14. CASE DeadStep
  <2>1. PICK r \in Elems(pending) :
           /\ r \in Reqs
           /\ Only(r)
           /\ req'[r].state = "freed" /\ req'[r].payload = req[r].payload
           /\ Elems(pending') = Elems(pending) \ {r}
           /\ Sub(pending', pending)
           /\ UNCHANGED <<request_queue, owed, sent>>
    BY <1>14, DeadStepWhat
  <2>2. CallsFirst(pending')
    BY <1>2, <2>1, SubCallsFirst
  <2>3. \A x \in Reqs : x # r => req'[x] = req[x]
    BY <2>1 DEF Only
  <2> QED BY <1>4, <2>1, <2>2, <2>3
<1>15. CASE DeadEnd
  <2>1. UNCHANGED <<req, request_queue, pending, owed, sent>>
    BY <1>15 DEF DeadEnd, connVars, wireVars
  <2> QED BY <1>2, <1>5, <2>1
<1>16. ASSUME NEW r \in SyncCalls, RequestRecv(r) PROVE ReplyInv'
  <2>1. /\ r \in Reqs
        /\ \A x \in Reqs : x # r => req'[x] = req[x]
        /\ req'[r].state = "freed" /\ req'[r].payload = req[r].payload
        /\ Elems(pending') = Elems(pending) \ {r}
        /\ Sub(pending', pending)
        /\ request_queue' = UnlinkForeign(request_queue, r)
        /\ UNCHANGED <<owed, sent>>
    BY <1>16, RequestRecvWhat DEF Only
  <2>2. Elems(request_queue') \subseteq Elems(request_queue)
    BY <2>1, UnlinkForeignElems DEF IndInv, TypeOK, OneList
  <2>3. CallsFirst(pending')
    BY <1>2, <2>1, SubCallsFirst
  <2> QED BY <1>4, <2>1, <2>2, <2>3
<1> QED
  BY <1>6, <1>7, <1>8, <1>9, <1>10, <1>11, <1>12, <1>13, <1>14, <1>15, <1>16,
     RequestSendReply, RecvDoneReply, RecvFragmentReply DEF Next

\* What a call is given is the reply the server sent to that call, in order and
\* without gaps: dcerpc_request_recv_data, which searches pending by call id,
\* never appends a fragment to another call, also with several calls and alters
\* outstanding and late replies of calls that have timed out.
THEOREM OwnReplySafe == Spec => []OwnReply
<1>1. Init => TicketInv /\ ReplyInv
  BY TicketInit, ReplyInit
<1>2. IndInv /\ TicketInv /\ ReplyInv /\ [Next]_vars => TicketInv' /\ ReplyInv'
  BY NextTickets, NextReply
<1>3. ReplyInv => OwnReply
  BY DEF ReplyInv, Replies, OwnReply
<1> QED BY <1>1, <1>2, <1>3, Invariance, PTL DEF Spec
-----------------------------------------------------------------------------
(***************************************************************************)
(* The order of issue.                                                     *)
(***************************************************************************)

\* The calls after a ship: the failed one has ended, the shipped one is executing.
ShippedAs(rq, o, rq2) ==
  \A c \in Calls :
    /\ rq2[c].call_id = rq[c].call_id
    /\ c \notin o.shipped \cup o.failed => rq2[c] = rq[c]
    /\ c \in o.shipped \cup o.failed => rq[c].state = "pending" /\ rq[c].shipped = -1
    /\ c \in o.failed => /\ rq2[c].state = "done" /\ rq2[c].status = "SEND_FAILED"
                         /\ rq2[c].shipped = -1
    /\ c \in o.shipped => rq2[c].state = "pending" /\ rq2[c].shipped # -1

\* Shipping keeps the order, if no call in the queue has ended.
LEMMA ShipKeepsOrder ==
  ASSUME NEW rq \in [Reqs -> ReqType], NEW que \in Seq(Calls), NEW pend \in Seq(Reqs),
         Distinct(que), Distinct(pend), Elems(que) \cap Elems(pend) = {},
         NEW o \in ShipNext(que, pend), Order(rq, que, pend), ~ShipsFreed(rq, o),
         \A x \in Elems(que) : rq[x].state \notin {"new", "done"}, context_id \in Nat
  PROVE  /\ Order(ReqAfterShip(rq, o), o.queue, o.pending)
         /\ \A c \in Elems(o.queue) : ReqAfterShip(rq, o)[c] = rq[c] /\ c \in Elems(que)
         /\ ShippedAs(rq, o, ReqAfterShip(rq, o))
<1> DEFINE rq2 == ReqAfterShip(rq, o)
           chosen == o.shipped \cup o.failed
<1>1. /\ o.shipped \subseteq Calls /\ o.shipped \subseteq Elems(que)
      /\ o.failed \subseteq Calls /\ o.failed \subseteq Elems(que)
      /\ Elems(o.pending) = Elems(pend) \cup o.shipped
  BY ShipLists
<1>2. /\ Sub(o.queue, que)
      /\ \A x \in chosen : x \notin Elems(o.queue)
      /\ o.shipped \cap o.failed = {}
  BY ShipOrder
<1>3. \A x \in chosen : \A y \in Elems(o.queue) : Before(que, x, y)
  BY ShipOrder
<1>4. \A c \in Calls : c \in Reqs
  BY DEF Reqs
<1>5. \A x \in chosen : rq[x].state = "pending"
  <2>1. \A x \in chosen : rq[x].state \in {"new", "pending", "done", "freed"}
    BY <1>1, <1>4 DEF ReqType
  <2>2. \A x \in chosen : rq[x].state # "freed"
    BY DEF ShipsFreed
  <2> QED BY <1>1, <2>1, <2>2
<1>6. \A c \in Calls : /\ rq2[c].call_id = rq[c].call_id
                       /\ c \notin chosen => rq2[c] = rq[c]
                       /\ c \in o.failed => rq2[c].state = "done"
                                            /\ rq2[c].status = "SEND_FAILED"
                                            /\ rq2[c].shipped = rq[c].shipped
                       /\ c \in o.shipped => rq2[c].state = "pending"
                                             /\ rq2[c].shipped = context_id
  <2> SUFFICES ASSUME NEW c \in Calls
               PROVE  /\ rq2[c].call_id = rq[c].call_id
                      /\ c \notin chosen => rq2[c] = rq[c]
                      /\ c \in o.failed => rq2[c].state = "done"
                                           /\ rq2[c].status = "SEND_FAILED"
                                           /\ rq2[c].shipped = rq[c].shipped
                      /\ c \in o.shipped => rq2[c].state = "pending"
                                            /\ rq2[c].shipped = context_id
    OBVIOUS
  <2>1. c \in Reqs
    BY <1>4
  <2>2. c \in chosen => rq[c].state = "pending"
    BY <1>5
  <2> QED BY <1>2, <2>1, <2>2, ShipWhat
<1>7. context_id # -1
  OBVIOUS
<1> HIDE DEF rq2
<1>8. \A c \in Elems(o.queue) : c \in Calls /\ c \in Elems(que) /\ rq2[c] = rq[c]
  <2>1. Elems(que) \subseteq Calls
    BY DEF Elems
  <2> QED BY <1>2, <1>6, <2>1 DEF Sub
<1>9. \A i, j \in DOMAIN o.queue : i < j => rq2[o.queue[i]].call_id < rq2[o.queue[j]].call_id
  <2>1. \A i \in DOMAIN o.queue : o.queue[i] \in Elems(o.queue)
    BY DEF Elems
  <2> SUFFICES ASSUME NEW i \in DOMAIN o.queue, NEW j \in DOMAIN o.queue, i < j
               PROVE  rq2[o.queue[i]].call_id < rq2[o.queue[j]].call_id
    OBVIOUS
  <2>2. PICK k \in DOMAIN que, l \in DOMAIN que :
          k < l /\ que[k] = o.queue[i] /\ que[l] = o.queue[j]
    BY <1>2 DEF Sub
  <2>3. rq[que[k]].call_id < rq[que[l]].call_id
    BY <2>2 DEF Order
  <2> QED BY <1>8, <2>1, <2>2, <2>3
<1>10. ASSUME NEW c \in Elems(o.queue)
       PROVE  /\ rq2[c].shipped = -1
              /\ \A d \in Calls : rq2[d].shipped # -1 => rq2[d].call_id < rq2[c].call_id
  <2>1. rq2[c].shipped = -1
    BY <1>8 DEF Order
  <2>2. ASSUME NEW d \in Calls, rq2[d].shipped # -1, d \notin o.shipped
        PROVE  rq2[d].call_id < rq2[c].call_id
    BY <1>6, <1>8, <2>2 DEF Order
  <2>3. ASSUME NEW d \in Calls, d \in o.shipped
        PROVE  rq2[d].call_id < rq2[c].call_id
    <3>1. PICK i \in DOMAIN que, j \in DOMAIN que : i < j /\ que[i] = d /\ que[j] = c
      BY <1>3, <2>3 DEF Before
    <3>2. rq[d].call_id < rq[c].call_id
      BY <3>1 DEF Order
    <3> QED BY <1>6, <1>8, <3>2
  <2> QED BY <2>1, <2>2, <2>3
<1>11. \A c \in Calls : rq2[c].state = "new" => rq2[c].shipped = -1
  BY <1>6 DEF Order
<1>12. \A c \in Calls : rq2[c].state \in {"done", "freed"} /\ rq2[c].status = "OK" =>
         rq2[c].shipped # -1
  BY <1>6 DEF Order
<1>13. \A c \in Calls : c \in Elems(o.pending) <=>
         rq2[c].state = "pending" /\ rq2[c].shipped # -1
  BY <1>1, <1>2, <1>6, <1>7 DEF Order
<1>14. Order(rq2, o.queue, o.pending)
  BY <1>9, <1>10, <1>11, <1>12, <1>13 DEF Order
<1>15. ShippedAs(rq, o, rq2)
  <2>1. \A c \in Elems(que) : rq[c].shipped = -1
    BY DEF Order
  <2> QED BY <1>1, <1>5, <1>6, <1>7, <2>1 DEF ShippedAs
<1> QED BY <1>8, <1>14, <1>15 DEF rq2

\* Calls keep their place, and those in M, which are off pending, have ended.
Ends(M, rq, pend, rq2, pend2) ==
  /\ \A c \in Calls : /\ rq2[c].call_id = rq[c].call_id
                      /\ rq2[c].shipped = rq[c].shipped
                      /\ c \notin M => rq2[c].state = rq[c].state /\ rq2[c].status = rq[c].status
  /\ \A c \in Calls \cap M : /\ rq2[c].state \in {"done", "freed"}
                             /\ rq2[c].status = "OK" => rq[c].shipped # -1
  /\ \A c \in Calls : c \in Elems(pend2) <=> c \in Elems(pend) /\ c \notin M

\* A step that only ends calls, and removes them from the lists, keeps the order.
LEMMA OrderFrame ==
  ASSUME NEW rq, NEW que \in Seq(Calls), NEW pend, Order(rq, que, pend),
         NEW rq2, NEW que2, NEW pend2, NEW M, Sub(que2, que), Ends(M, rq, pend, rq2, pend2)
  PROVE  Order(rq2, que2, pend2)
<1>1. /\ \A c \in Elems(que2) : c \in Calls /\ c \in Elems(que)
      /\ \A i \in DOMAIN que2 : que2[i] \in Elems(que2)
  BY DEF Sub, Elems
<1>2. ASSUME NEW i \in DOMAIN que2, NEW j \in DOMAIN que2, i < j
      PROVE  rq2[que2[i]].call_id < rq2[que2[j]].call_id
  <2>1. PICK k \in DOMAIN que, l \in DOMAIN que :
          k < l /\ que[k] = que2[i] /\ que[l] = que2[j]
    BY <1>2 DEF Sub
  <2>2. rq[que[k]].call_id < rq[que[l]].call_id
    BY <2>1 DEF Order
  <2> QED BY <1>1, <2>1, <2>2 DEF Ends
<1>3. \A c \in Elems(que2) :
        /\ rq2[c].shipped = -1
        /\ \A d \in Calls : rq2[d].shipped # -1 => rq2[d].call_id < rq2[c].call_id
  BY <1>1 DEF Order, Ends
<1>4. \A c \in Calls : rq2[c].state = "new" => rq2[c].shipped = -1
  BY DEF Order, Ends
<1>5. \A c \in Calls : rq2[c].state \in {"done", "freed"} /\ rq2[c].status = "OK" =>
        rq2[c].shipped # -1
  BY DEF Order, Ends
<1>6. \A c \in Calls : c \in Elems(pend2) <=> rq2[c].state = "pending" /\ rq2[c].shipped # -1
  BY DEF Order, Ends
<1> QED BY <1>2, <1>3, <1>4, <1>5, <1>6 DEF Order

\* Where a call is, by the fields of its request.
LEMMA CallStateIs ==
  ASSUME NEW c
  PROVE  /\ req[c].state = "new" => CallState(c) = "new"
         /\ req[c].state = "pending" /\ req[c].shipped = -1 => CallState(c) = "waiting"
         /\ req[c].state = "pending" /\ req[c].shipped # -1 => CallState(c) = "executing"
         /\ req[c].state \in {"done", "freed"} /\ req[c].status = "OK" =>
              CallState(c) = "replied"
         /\ req[c].state \in {"done", "freed"} /\ req[c].status # "OK" =>
              CallState(c) = "failed"
BY DEF CallState

\* The same for the next state.
LEMMA CallStateNext ==
  ASSUME NEW c
  PROVE  /\ req'[c].state = "new" => CallState(c)' = "new"
         /\ req'[c].state = "pending" /\ req'[c].shipped = -1 => CallState(c)' = "waiting"
         /\ req'[c].state = "pending" /\ req'[c].shipped # -1 => CallState(c)' = "executing"
         /\ req'[c].state \in {"done", "freed"} /\ req'[c].status = "OK" =>
              CallState(c)' = "replied"
         /\ req'[c].state \in {"done", "freed"} /\ req'[c].status # "OK" =>
              CallState(c)' = "failed"
BY DEF CallState

\* What a step may do to the calls: they move as RpcService says, and a call
\* that becomes pending is the only one and younger than all that were shipped.
Shipping == Calls \cap (Elems(pending') \ Elems(pending))

CallStep ==
  /\ \A c \in Calls : CallState(c)' # CallState(c) =>
       <<CallState(c), CallState(c)'>> \in Service!Moves
  /\ \A c, d \in Shipping : c = d
  /\ \A c \in Shipping : \A d \in Calls :
       req[d].shipped # -1 => req[d].call_id < req'[c].call_id

\* In a client with one blocked caller, no call in the queue has ended when
\* requests are sent and events dispatched.
OneBlocked == \A x, y \in SyncCalls : x = y

\* With one blocked caller, no call waiting in the queue has ended when requests
\* are sent and events dispatched.
LEMMA QueueLive ==
  ASSUME IndInv, ServiceInv, OneBlocked, ~aborted,
         ~failing /\ waiters # <<>> => req[Head(waiters)].state = "pending"
  PROVE  \A c \in Elems(request_queue) : req[c].state \notin {"new", "done"}
<1> SUFFICES ASSUME NEW c \in Elems(request_queue) PROVE req[c].state \notin {"new", "done"}
  OBVIOUS
<1>1. req[c].state # "new"
  BY DEF IndInv, ListedAllocated
<1>2. ASSUME req[c].state = "done" PROVE FALSE
  <2>1. ~failing /\ c \in Elems(waiters)
    BY <1>2 DEF ServiceInv, Blocked
  <2>2. waiters \in Seq(SyncCalls)
    BY DEF IndInv, TypeOK
  <2>3. waiters # <<>>
    BY <2>1 DEF Elems
  <2>4. Head(waiters) \in SyncCalls /\ c \in SyncCalls
    BY <2>1, <2>2, <2>3 DEF Elems
  <2>5. c = Head(waiters)
    BY <2>4 DEF OneBlocked
  <2> QED BY <1>2, <2>1, <2>3, <2>5
<1> QED BY <1>1, <1>2

\* A step that ends the calls in M, which are off pending, and ships none.
LEMMA OneService ==
  ASSUME IndInv, ServiceInv, ~aborted, NEW M,
         Sub(request_queue', request_queue),
         \A c \in Calls : /\ req'[c].call_id = req[c].call_id
                          /\ req'[c].shipped = req[c].shipped
                          /\ c \notin M => req'[c].state = req[c].state
                                           /\ req'[c].status = req[c].status,
         \A c \in Calls \cap M :
           /\ req'[c].state \in {"done", "freed"}
           /\ \/ req[c].state = "pending" /\ (req'[c].status = "OK" => req[c].shipped # -1)
              \/ req[c].state = "done" /\ req'[c].status = req[c].status,
         \A c \in Calls : c \in Elems(pending') <=> c \in Elems(pending) /\ c \notin M
  PROVE  Order(req', request_queue', pending') /\ CallStep
<1>1. Order(req, request_queue, pending) /\ request_queue \in Seq(Calls)
  BY DEF ServiceInv, IndInv, TypeOK
<1>2. \A c \in Calls \cap M : /\ req'[c].state \in {"done", "freed"}
                              /\ req'[c].status = "OK" => req[c].shipped # -1
  BY <1>1 DEF Order
<1>3. Order(req', request_queue', pending')
  <2>1. Ends(M, req, pending, req', pending')
    BY <1>2 DEF Ends
  <2> QED BY <1>1, <2>1, OrderFrame
<1>4. \A c \in Calls : req[c].state \in {"new", "pending", "done", "freed"}
  BY DEF IndInv, TypeOK, ReqType, Reqs
<1>5. ASSUME NEW c \in Calls, CallState(c)' # CallState(c)
      PROVE  <<CallState(c), CallState(c)'>> \in Service!Moves
  <2>1. CASE c \notin M
    <3>1. CallState(c)' = CallState(c)
      BY <1>4, <2>1, CallStateIs, CallStateNext
    <3> QED BY <1>5, <3>1
  <2>2. CASE c \in M /\ req[c].state = "pending"
    <3>1. CallState(c) \in {"waiting", "executing"}
      BY <2>2, CallStateIs
    <3>2. CallState(c)' \in {"replied", "failed"}
      BY <2>2, CallStateNext
    <3>3. CallState(c)' = "replied" => CallState(c) = "executing"
      BY <1>2, <2>2, CallStateIs, CallStateNext
    <3> QED BY <3>1, <3>2, <3>3 DEF Service!Moves
  <2>3. CASE c \in M /\ req[c].state # "pending"
    <3>1. CallState(c)' = CallState(c)
      BY <2>3, CallStateIs, CallStateNext
    <3> QED BY <1>5, <3>1
  <2> QED BY <2>1, <2>2, <2>3
<1>6. Shipping = {}
  BY DEF Shipping
<1>7. CallStep
  BY <1>5, <1>6 DEF CallStep
<1> QED BY <1>3, <1>7

\* dcerpc_request_send issues a call, and ships at most the oldest that waits.
LEMMA RequestSendService ==
  ASSUME IndInv, TicketInv, ServiceInv, OneBlocked, NEW r \in Calls, RequestSend(r), ~aborted'
  PROVE  ServiceInv' /\ CallStep
<1> DEFINE que == AddEnd(request_queue, r)
<1>1. PICK q \in ReqType, o \in ShipNext(que, pending) : SendsWith(r, q, o)
  BY RequestSendShips
<1> DEFINE rq == [req EXCEPT ![r] = q]
<1>2. /\ req[r].state = "new" /\ r \in Reqs
      /\ r \notin Elems(request_queue) /\ r \notin Elems(pending)
      /\ q.state = "pending" /\ q.shipped = -1 /\ q.call_id = NextCallId(call_id)
      /\ request_queue' = o.queue
      /\ pending' = o.pending
      /\ req' = ReqAfterShip(rq, o)
      /\ ~ShipsFreed(rq, o)
  BY <1>1 DEF SendsWith, Reqs
<1>3. /\ rq \in [Reqs -> ReqType] /\ rq[r] = q
      /\ \A x \in Reqs : x # r => rq[x] = req[x]
  BY <1>2 DEF IndInv, TypeOK
<1> HIDE DEF rq
<1>4. /\ que \in Seq(Calls) /\ Distinct(que) /\ Elems(que) = Elems(request_queue) \cup {r}
  BY <1>2, AddEndElems DEF IndInv, TypeOK, OneList
<1>5. \A i, j \in DOMAIN que : i < j =>
        \/ i \in DOMAIN request_queue /\ j \in DOMAIN request_queue
           /\ que[i] = request_queue[i] /\ que[j] = request_queue[j]
        \/ que[i] \in Elems(request_queue) /\ que[j] = r
  BY AddEndOrder DEF IndInv, TypeOK
<1> HIDE DEF que
<1>6. pending \in Seq(Reqs) /\ Distinct(pending) /\ Elems(que) \cap Elems(pending) = {}
  BY <1>2, <1>4 DEF IndInv, TypeOK, OneList
<1>7. ~aborted /\ (~failing /\ waiters # <<>> => req[Head(waiters)].state = "pending")
  BY DEF RequestSend, MaySend
<1>8. Order(req, request_queue, pending) /\ Blocked
  BY <1>7 DEF ServiceInv
<1>9. \A c \in Elems(request_queue) : c \in Calls /\ req[c].state \notin {"new", "done"}
  <2>1. Elems(request_queue) \subseteq Calls
    BY DEF IndInv, TypeOK, Elems
  <2> QED BY <1>7, <2>1, QueueLive
<1>10. \A c \in Calls : c \in Reqs /\ (c # r => rq[c] = req[c])
  BY <1>3 DEF Reqs
<1>11. \A d \in Calls : req[d].state # "new" => req[d].call_id < q.call_id
  <2>1. NextCallId(call_id) = call_id + 1 /\ call_id \in Nat
    BY <1>2, NextTicket
  <2>2. \A d \in Calls : req[d].call_id \in Nat
    BY <1>10, CallIdAssumption DEF IndInv, TypeOK, ReqType
  <2>3. \A d \in Calls : req[d].state # "new" => req[d].call_id <= call_id
    BY DEF TicketInv, Issued
  <2> QED BY <1>2, <2>1, <2>2, <2>3
<1>12. Order(rq, que, pending)
  <2>1. \A i, j \in DOMAIN que : i < j => rq[que[i]].call_id < rq[que[j]].call_id
    <3> SUFFICES ASSUME NEW i \in DOMAIN que, NEW j \in DOMAIN que, i < j
                 PROVE  rq[que[i]].call_id < rq[que[j]].call_id
      OBVIOUS
    <3>1. CASE que[i] \in Elems(request_queue) /\ que[j] = r
      BY <1>2, <1>3, <1>9, <1>10, <1>11, <3>1
    <3>2. CASE /\ i \in DOMAIN request_queue /\ j \in DOMAIN request_queue
               /\ que[i] = request_queue[i] /\ que[j] = request_queue[j]
      <4>1. que[i] \in Elems(request_queue) /\ que[j] \in Elems(request_queue)
        BY <3>2 DEF Elems
      <4>2. rq[que[i]] = req[que[i]] /\ rq[que[j]] = req[que[j]]
        BY <1>2, <1>9, <1>10, <4>1
      <4>3. req[que[i]].call_id < req[que[j]].call_id
        BY <1>8, <3>2 DEF Order
      <4> QED BY <4>2, <4>3
    <3> QED BY <1>5, <3>1, <3>2
  <2>2. \A d \in Calls : rq[d].shipped # -1 => d # r /\ rq[d] = req[d] /\ req[d].state # "new"
    BY <1>2, <1>3, <1>8, <1>10 DEF Order
  <2>3. \A c \in Elems(que) :
          /\ rq[c].shipped = -1
          /\ \A d \in Calls : rq[d].shipped # -1 => rq[d].call_id < rq[c].call_id
    <3> SUFFICES ASSUME NEW c \in Elems(que)
                 PROVE  /\ rq[c].shipped = -1
                        /\ \A d \in Calls : rq[d].shipped # -1 => rq[d].call_id < rq[c].call_id
      OBVIOUS
    <3>1. CASE c = r
      BY <1>2, <1>3, <1>11, <2>2, <3>1
    <3>2. CASE c # r
      BY <1>4, <1>8, <1>9, <1>10, <2>2, <3>2 DEF Order
    <3> QED BY <3>1, <3>2
  <2>4. \A c \in Calls : rq[c].state = "new" => rq[c].shipped = -1
    BY <1>2, <1>3, <1>8, <1>10 DEF Order
  <2>5. \A c \in Calls : rq[c].state \in {"done", "freed"} /\ rq[c].status = "OK" =>
          rq[c].shipped # -1
    BY <1>2, <1>3, <1>8, <1>10 DEF Order
  <2>6. \A c \in Calls : c \in Elems(pending) <=> rq[c].state = "pending" /\ rq[c].shipped # -1
    BY <1>2, <1>3, <1>8, <1>10 DEF Order
  <2> QED BY <2>1, <2>3, <2>4, <2>5, <2>6 DEF Order
<1>13. \A x \in Elems(que) : rq[x].state \notin {"new", "done"}
  BY <1>2, <1>3, <1>4, <1>9, <1>10
<1>14. context_id \in Nat
  BY DEF IndInv, TypeOK
<1>15. /\ Order(req', o.queue, o.pending)
       /\ \A c \in Elems(o.queue) : req'[c] = rq[c] /\ c \in Elems(que)
       /\ ShippedAs(rq, o, req')
  BY <1>2, <1>3, <1>4, <1>6, <1>12, <1>13, <1>14, ShipKeepsOrder
<1>16. /\ Elems(o.pending) = Elems(pending) \cup o.shipped
       /\ o.shipped \subseteq Elems(que)
       /\ \A x, y \in o.shipped : x = y
  BY <1>4, <1>6, ShipLists
<1>17. Blocked'
  <2>1. waiters \in Seq(SyncCalls)
    BY DEF IndInv, TypeOK
  <2>2. Elems(waiters') = IF r \in SyncCalls THEN Elems(waiters) \cup {r} ELSE Elems(waiters)
    <3>1. CASE r \notin SyncCalls
      BY <3>1 DEF RequestSend
    <3>2. CASE r \in SyncCalls
      <4>1. waiters' = <<r>> \o waiters
        BY <3>2 DEF RequestSend
      <4> DEFINE b == <<r>> \o waiters
      <4>2. /\ DOMAIN b = 1 .. Len(waiters) + 1
            /\ \A i \in 2 .. Len(waiters) + 1 : b[i] = waiters[i - 1]
            /\ b[1] = r
        BY <2>1, <3>2
      <4>3. Len(waiters) \in Nat /\ DOMAIN waiters = 1 .. Len(waiters)
        BY <2>1
      <4> HIDE DEF b
      <4>4. \A i \in DOMAIN b : i = 1 \/ (i - 1 \in DOMAIN waiters /\ b[i] = waiters[i - 1])
        BY <4>2, <4>3
      <4>5. \A i \in DOMAIN waiters : i + 1 \in DOMAIN b /\ b[i + 1] = waiters[i]
        BY <4>2, <4>3
      <4>6. 1 \in DOMAIN b
        BY <4>2, <4>3
      <4>7. Elems(b) \subseteq Elems(waiters) \cup {r}
        BY <4>2, <4>4 DEF Elems
      <4>8. Elems(waiters) \subseteq Elems(b) /\ r \in Elems(b)
        BY <4>2, <4>5, <4>6 DEF Elems
      <4> QED BY <3>2, <4>1, <4>7, <4>8 DEF b
    <3> QED BY <3>1, <3>2
  <2>3. \A s \in SyncCalls : req'[s].state \in {"pending", "done"} => s \in Elems(waiters')
    <3> SUFFICES ASSUME NEW s \in SyncCalls, req'[s].state \in {"pending", "done"}
                 PROVE  s \in Elems(waiters')
      OBVIOUS
    <3>1. s \in Calls
      BY ReqsAssumption
    <3>2. CASE s # r
      <4>1. req[s].state \in {"pending", "done"}
        BY <1>10, <1>15, <3>1, <3>2 DEF ShippedAs
      <4> QED BY <1>8, <2>2, <4>1 DEF Blocked
    <3> QED BY <2>2, <3>2
  <2>4. \A c \in Elems(o.queue) : req'[c].state # "done"
    BY <1>13, <1>15
  <2>5. Elems(waiters)' = Elems(waiters') /\ Elems(request_queue)' = Elems(o.queue)
    BY <1>2 DEF Elems
  <2> QED BY <2>3, <2>4, <2>5 DEF Blocked
<1>18. CallStep
  <2>1. ASSUME NEW c \in Calls, CallState(c)' # CallState(c)
        PROVE  <<CallState(c), CallState(c)'>> \in Service!Moves
    <3>1. CASE c = r
      <4>1. CallState(c) = "new"
        BY <1>2, <3>1, CallStateIs
      <4>2. CallState(c)' \in {"waiting", "executing", "failed"}
        <5>1. CASE c \notin o.shipped \cup o.failed
          BY <1>2, <1>3, <1>15, <3>1, <5>1, CallStateNext DEF ShippedAs
        <5>2. CASE c \in o.shipped
          BY <1>15, <5>2, CallStateNext DEF ShippedAs
        <5>3. CASE c \in o.failed
          BY <1>15, <5>3, CallStateNext DEF ShippedAs
        <5> QED BY <5>1, <5>2, <5>3
      <4> QED BY <4>1, <4>2 DEF Service!Moves
    <3>2. CASE c # r /\ c \in o.shipped \cup o.failed
      <4>1. CallState(c) = "waiting"
        BY <1>10, <1>15, <3>2, CallStateIs DEF ShippedAs
      <4>2. CallState(c)' \in {"executing", "failed"}
        BY <1>15, <3>2, CallStateNext DEF ShippedAs
      <4> QED BY <4>1, <4>2 DEF Service!Moves
    <3>3. CASE c # r /\ c \notin o.shipped \cup o.failed
      <4>1. req'[c] = req[c]
        BY <1>10, <1>15, <3>3 DEF ShippedAs
      <4>2. CallState(c)' = CallState(c)
        BY <4>1 DEF CallState
      <4> QED BY <2>1, <4>2
    <3> QED BY <3>1, <3>2, <3>3
  <2>2. Shipping \subseteq o.shipped
    BY <1>2, <1>16 DEF Shipping
  <2>3. ASSUME NEW c \in Shipping, NEW d \in Calls, req[d].shipped # -1
        PROVE  req[d].call_id < req'[c].call_id
    <3>1. c \in Elems(que) /\ c \in Calls
      BY <1>16, <2>2 DEF Shipping
    <3>2. d # r /\ rq[d] = req[d]
      BY <1>2, <1>8, <1>10, <2>3 DEF Order
    <3>3. rq[d].call_id < rq[c].call_id
      BY <1>12, <2>3, <3>1, <3>2 DEF Order
    <3> QED BY <1>15, <3>1, <3>2, <3>3 DEF ShippedAs
  <2> QED BY <1>16, <2>1, <2>2, <2>3 DEF CallStep
<1>19. Order(req, request_queue, pending)'
  <2>1. Order(req', request_queue', pending')
    BY <1>2, <1>15
  <2> QED BY <2>1 DEF Order, Elems
<1> QED BY <1>17, <1>18, <1>19 DEF ServiceInv

\* The end of a call moves it to replied or failed, and ships at most the oldest
\* call that waits.
LEMMA RecvDoneService ==
  ASSUME IndInv, ServiceInv, OneBlocked, NEW r \in Reqs, NEW m \in Calls, NEW k \in Packets(r),
         RecvDone(r, k, m), ~aborted'
  PROVE  ServiceInv' /\ CallStep
<1> DEFINE pend == Unlink(pending, m)
<1>1. PICK q \in ReqType, o \in ShipNext(request_queue, pend) : DoneWith(r, k, m, q, o)
  BY RecvDoneShips
<1> DEFINE rq == [req EXCEPT ![m] = q]
<1>2. /\ m \in Elems(pending) /\ m \notin Elems(request_queue)
      /\ q.state = IF m \in SyncCalls THEN "done" ELSE "freed"
      /\ q.call_id = req[m].call_id /\ q.shipped = req[m].shipped
      /\ request_queue' = o.queue
      /\ pending' = o.pending
      /\ req' = ReqAfterShip(rq, o)
      /\ ~ShipsFreed(rq, o)
  BY <1>1 DEF DoneWith
<1>3. m \in Reqs /\ (\A c \in Calls : c \in Reqs) /\ context_id \in Nat
  BY DEF Reqs, IndInv, TypeOK
<1>4. /\ rq \in [Reqs -> ReqType] /\ rq[m] = q
      /\ \A x \in Reqs : x # m => rq[x] = req[x]
  BY <1>3 DEF IndInv, TypeOK
<1> HIDE DEF rq
<1>5. /\ pending \in Seq(Reqs) /\ Distinct(pending) /\ request_queue \in Seq(Calls)
      /\ Distinct(request_queue) /\ Elems(request_queue) \cap Elems(pending) = {}
  BY DEF IndInv, TypeOK, OneList
<1>6. /\ pend \in Seq(Reqs) /\ Distinct(pend) /\ Elems(pend) = Elems(pending) \ {m}
      /\ Elems(request_queue) \cap Elems(pend) = {}
  BY <1>5, UnlinkType, UnlinkElems
<1> HIDE DEF pend
<1>7. ~aborted /\ ~failing /\ (waiters # <<>> => req[Head(waiters)].state = "pending")
  BY DEF RecvDone, Arrives, InLoop
<1>8. Order(req, request_queue, pending) /\ Blocked
  BY <1>7 DEF ServiceInv
<1>9. req[m].state = "pending" /\ req[m].shipped # -1
  BY <1>2, <1>8 DEF Order
<1>10. \A c \in Calls : c # m => rq[c] = req[c]
  BY <1>3, <1>4
<1>11. Order(rq, request_queue, pend)
  <2>1. Ends({m}, req, pending, rq, pend)
    BY <1>2, <1>4, <1>6, <1>9, <1>10 DEF Ends
  <2>2. Sub(request_queue, request_queue)
    BY SubSelf
  <2> QED BY <1>5, <1>8, <2>1, <2>2, OrderFrame
<1>12. \A x \in Elems(request_queue) : rq[x].state \notin {"new", "done"}
  <2>1. \A x \in Elems(request_queue) : req[x].state \notin {"new", "done"}
    BY <1>7, QueueLive
  <2>2. \A x \in Elems(request_queue) : x \in Calls
    BY <1>5 DEF Elems
  <2> QED BY <1>2, <1>10, <2>1, <2>2
<1>13. /\ Order(req', o.queue, o.pending)
       /\ \A c \in Elems(o.queue) : req'[c] = rq[c] /\ c \in Elems(request_queue)
       /\ ShippedAs(rq, o, req')
  <2>1. /\ Order(ReqAfterShip(rq, o), o.queue, o.pending)
        /\ \A c \in Elems(o.queue) :
             ReqAfterShip(rq, o)[c] = rq[c] /\ c \in Elems(request_queue)
        /\ ShippedAs(rq, o, ReqAfterShip(rq, o))
    BY <1>2, <1>3, <1>4, <1>5, <1>6, <1>11, <1>12, ShipKeepsOrder
  <2> QED BY <1>2, <2>1
<1>14. /\ Elems(o.pending) = Elems(pend) \cup o.shipped
       /\ o.shipped \subseteq Elems(request_queue) /\ o.failed \subseteq Elems(request_queue)
       /\ \A x, y \in o.shipped : x = y
  BY <1>5, <1>6, ShipLists
<1>15. Blocked'
  <2>1. waiters' = waiters
    BY DEF RecvDone, Arrives
  <2>2. \A s \in SyncCalls : req'[s].state \in {"pending", "done"} => s \in Elems(waiters)
    <3> SUFFICES ASSUME NEW s \in SyncCalls, req'[s].state \in {"pending", "done"}
                 PROVE  s \in Elems(waiters)
      OBVIOUS
    <3>1. s \in Calls
      BY ReqsAssumption
    <3>2. CASE s # m
      <4>1. req[s].state \in {"pending", "done"}
        BY <1>10, <1>13, <3>1, <3>2 DEF ShippedAs
      <4> QED BY <1>8, <4>1 DEF Blocked
    <3>3. CASE s = m
      BY <1>8, <1>9, <3>3 DEF Blocked
    <3> QED BY <3>2, <3>3
  <2>3. \A c \in Elems(o.queue) : req'[c].state # "done"
    BY <1>12, <1>13
  <2>4. Elems(waiters)' = Elems(waiters) /\ Elems(request_queue)' = Elems(o.queue)
    BY <1>2, <2>1 DEF Elems
  <2> QED BY <2>2, <2>3, <2>4 DEF Blocked
<1>16. CallStep
  <2>1. ASSUME NEW c \in Calls, CallState(c)' # CallState(c)
        PROVE  <<CallState(c), CallState(c)'>> \in Service!Moves
    <3>1. CASE c = m
      <4>1. CallState(c) = "executing"
        BY <1>9, <3>1, CallStateIs
      <4>2. req'[m] = q
        BY <1>2, <1>4, <1>13, <1>14 DEF ShippedAs
      <4>3. CallState(c)' \in {"replied", "failed"}
        BY <1>2, <3>1, <4>2, CallStateNext
      <4> QED BY <4>1, <4>3 DEF Service!Moves
    <3>2. CASE c # m /\ c \in o.shipped \cup o.failed
      <4>1. CallState(c) = "waiting"
        BY <1>10, <1>13, <3>2, CallStateIs DEF ShippedAs
      <4>2. CallState(c)' \in {"executing", "failed"}
        BY <1>13, <3>2, CallStateNext DEF ShippedAs
      <4> QED BY <4>1, <4>2 DEF Service!Moves
    <3>3. CASE c # m /\ c \notin o.shipped \cup o.failed
      <4>1. req'[c] = req[c]
        BY <1>10, <1>13, <3>3 DEF ShippedAs
      <4>2. CallState(c)' = CallState(c)
        BY <4>1 DEF CallState
      <4> QED BY <2>1, <4>2
    <3> QED BY <3>1, <3>2, <3>3
  <2>2. Shipping \subseteq o.shipped
    BY <1>2, <1>6, <1>14 DEF Shipping
  <2>3. ASSUME NEW c \in Shipping, NEW d \in Calls, req[d].shipped # -1
        PROVE  req[d].call_id < req'[c].call_id
    <3>1. c \in Elems(request_queue) /\ c \in Calls
      BY <1>14, <2>2 DEF Shipping
    <3>2. c # m
      BY <1>2, <3>1
    <3>3. req[d].call_id < req[c].call_id
      BY <1>8, <2>3, <3>1 DEF Order
    <3> QED BY <1>10, <1>13, <3>1, <3>2, <3>3 DEF ShippedAs
  <2> QED BY <1>14, <2>1, <2>2, <2>3 DEF CallStep
<1>17. Order(req, request_queue, pending)'
  <2>1. Order(req', request_queue', pending')
    BY <1>2, <1>13
  <2> QED BY <2>1 DEF Order, Elems
<1> QED BY <1>15, <1>16, <1>17 DEF ServiceInv

\* Blocked, when at most the call m has changed and ended.
LEMMA BlockedFrame ==
  ASSUME IndInv, Blocked, NEW m,
         \A c \in Calls : c # m => req'[c].state = req[c].state,
         m \in SyncCalls /\ req'[m].state \in {"pending", "done"} => m \in Elems(waiters'),
         \A s \in Elems(waiters) : s # m => s \in Elems(waiters'),
         Elems(request_queue') \subseteq Elems(request_queue),
         m \in Elems(request_queue') /\ req'[m].state = "done" => m \in Elems(waiters'),
         failing' => \A c \in Elems(request_queue') : req'[c].state # "done"
  PROVE  Blocked'
<1>1. Elems(waiters)' = Elems(waiters') /\ Elems(request_queue)' = Elems(request_queue')
  BY DEF Elems
<1>2. SyncCalls \subseteq Calls /\ Elems(request_queue) \subseteq Calls
  BY ReqsAssumption DEF IndInv, TypeOK, Elems
<1>3. \A s \in SyncCalls : req'[s].state \in {"pending", "done"} => s \in Elems(waiters')
  BY <1>2 DEF Blocked
<1>4. \A c \in Elems(request_queue') : req'[c].state = "done" =>
        ~failing' /\ c \in Elems(waiters')
  BY <1>2 DEF Blocked
<1> QED BY <1>1, <1>3, <1>4 DEF Blocked

\* Every step keeps the order of issue and moves the calls as RpcService allows.
LEMMA NextService ==
  ASSUME IndInv, TicketInv, ServiceInv, OneBlocked, Next, ~aborted'
  PROVE  ServiceInv' /\ CallStep
<1>1. Calls \cap Alters = {} /\ SyncCalls \subseteq Calls /\ Calls \subseteq Reqs
      /\ Alters \subseteq Reqs
  BY ReqsAssumption DEF Reqs
<1>2. ~aborted => Order(req, request_queue, pending) /\ Blocked
  BY DEF ServiceInv
<1>3. request_queue \in Seq(Calls) /\ Distinct(request_queue)
      /\ Elems(request_queue) \subseteq Calls /\ Elems(pending) \subseteq Reqs
      /\ \A x \in Elems(pending) \cup Elems(request_queue) : req[x].state # "new"
  <2>1. Elems(request_queue) \subseteq Calls /\ Elems(pending) \subseteq Reqs
    BY DEF IndInv, TypeOK, Elems
  <2> QED BY <2>1 DEF IndInv, TypeOK, OneList, ListedAllocated
<1>4. ASSUME Order(req', request_queue', pending'), CallStep, Blocked'
      PROVE  ServiceInv' /\ CallStep
  <2>1. Order(req, request_queue, pending)'
    BY <1>4 DEF Order, Elems
  <2> QED BY <1>4, <2>1 DEF ServiceInv
\* A step of no call.
<1>5. ASSUME ~aborted, \A c \in Calls : /\ req'[c].call_id = req[c].call_id
                                        /\ req'[c].shipped = req[c].shipped
                                        /\ req'[c].state = req[c].state
                                        /\ req'[c].status = req[c].status,
             UNCHANGED <<request_queue, waiters>>,
             \A c \in Calls : c \in Elems(pending') <=> c \in Elems(pending),
             failing' => failing \/ \A c \in Elems(request_queue) : req[c].state # "done"
      PROVE  ServiceInv' /\ CallStep
  <2>1. Sub(request_queue', request_queue)
    BY <1>5, SubSelf
  <2> DEFINE M == {}
  <2>2. Order(req', request_queue', pending') /\ CallStep
    <3>1. \A c \in Calls : /\ req'[c].call_id = req[c].call_id
                           /\ req'[c].shipped = req[c].shipped
                           /\ c \notin M => req'[c].state = req[c].state
                                            /\ req'[c].status = req[c].status
      BY <1>5
    <3>2. \A c \in Calls \cap M :
            /\ req'[c].state \in {"done", "freed"}
            /\ \/ req[c].state = "pending" /\ (req'[c].status = "OK" => req[c].shipped # -1)
               \/ req[c].state = "done" /\ req'[c].status = req[c].status
      OBVIOUS
    <3>3. \A c \in Calls : c \in Elems(pending') <=> c \in Elems(pending) /\ c \notin M
      BY <1>5
    <3> HIDE DEF M
    <3> QED BY <1>5, <2>1, <3>1, <3>2, <3>3, OneService
  <2>3. Elems(waiters)' = Elems(waiters) /\ Elems(request_queue)' = Elems(request_queue)
    BY <1>5 DEF Elems
  <2>4. Blocked'
    BY <1>1, <1>2, <1>3, <1>5, <2>3 DEF Blocked
  <2> QED BY <1>4, <2>2, <2>4
\* The end of one request r.
<1>6. ASSUME ~aborted, NEW r \in Reqs, Only(r),
             r \in Calls =>
               /\ req'[r].state \in {"done", "freed"}
               /\ \/ req[r].state = "pending" /\ (req'[r].status = "OK" => req[r].shipped # -1)
                  \/ req[r].state = "done" /\ req'[r].status = req[r].status,
             Elems(pending') = Elems(pending) \ {r},
             request_queue' = UnlinkForeign(request_queue, r) \/ request_queue' = request_queue
      PROVE  /\ Order(req', request_queue', pending') /\ CallStep
             /\ Elems(request_queue') \subseteq Elems(request_queue)
             /\ \A c \in Calls : c # r => req'[c].state = req[c].state
  <2>1. Sub(request_queue', request_queue)
    BY <1>3, <1>6, SubSelf, UnlinkForeignSub
  <2>2. /\ \A c \in Calls : c # r => req'[c] = req[c]
        /\ r \in Calls => req'[r].call_id = req[r].call_id /\ req'[r].shipped = req[r].shipped
    BY <1>1, <1>6 DEF Only
  <2>3. \A c \in Calls : /\ req'[c].call_id = req[c].call_id
                         /\ req'[c].shipped = req[c].shipped
                         /\ c \notin {r} => req'[c].state = req[c].state
                                            /\ req'[c].status = req[c].status
    BY <2>2
  <2>4. \A c \in Calls \cap {r} :
           /\ req'[c].state \in {"done", "freed"}
           /\ \/ req[c].state = "pending" /\ (req'[c].status = "OK" => req[c].shipped # -1)
              \/ req[c].state = "done" /\ req'[c].status = req[c].status
    BY <1>6
  <2>5. \A c \in Calls : c \in Elems(pending') <=> c \in Elems(pending) /\ c \notin {r}
    BY <1>6
  <2>6. Order(req', request_queue', pending') /\ CallStep
    BY <1>6, <2>1, <2>3, <2>4, <2>5, OneService
  <2> QED BY <2>1, <2>2, <2>6 DEF Sub
<1>7. ASSUME NEW a \in Alters, NEW sends \in BOOLEAN, AlterSend(a, sends) \/ BindSend(a, sends)
      PROVE  ServiceInv' /\ CallStep
  <2>1. PICK ctx : ContextSend(a, sends, ctx)
    BY <1>7 DEF AlterSend, BindSend
  <2>2. /\ a \in Reqs /\ a \notin Calls /\ a \notin Elems(pending)
        /\ pending' = AddEnd(pending, a)
        /\ \A x \in Reqs : x # a => req'[x] = req[x]
        /\ UNCHANGED <<request_queue, waiters, failing>>
        /\ ~aborted
    BY <2>1, ContextSendWhat DEF loopVars, deadVars, ContextSend, MaySend
  <2>3. Elems(pending') = Elems(pending) \cup {a}
    BY <2>2, AddEndElems DEF IndInv, TypeOK, OneList
  <2> QED BY <1>1, <1>5, <2>2, <2>3
<1>8. ASSUME NEW a \in Alters, AlterSendFailed(a) PROVE ServiceInv' /\ CallStep
  <2>1. /\ a \in Reqs /\ a \notin Calls /\ \A x \in Reqs : x # a => req'[x] = req[x]
        /\ UNCHANGED <<request_queue, pending, waiters, failing>> /\ ~aborted
    BY <1>8, AlterSendFailedWhat DEF Only, connVars, loopVars, deadVars, AlterSendFailed, InLoop
  <2> QED BY <1>1, <1>5, <2>1
<1>9. ASSUME NEW r \in Reqs, NEW k \in Packets(r), RecvUnmatched(r, k)
      PROVE  ServiceInv' /\ CallStep
  <2>1. UNCHANGED <<req, request_queue, pending, waiters, failing>> /\ ~aborted
    BY <1>9 DEF RecvUnmatched, Arrives, InLoop
  <2> QED BY <1>5, <2>1
<1>10. ASSUME NEW r \in Reqs, NEW m \in Alters, NEW k \in Packets(r), RecvHandler(r, k, m)
       PROVE  ServiceInv' /\ CallStep
  <2>1. /\ m \in Reqs /\ m \notin Calls
        /\ \A x \in Reqs : x # m => req'[x] = req[x]
        /\ Elems(pending') = Elems(pending) \ {m}
        /\ UNCHANGED <<request_queue, waiters, failing>>
    BY <1>10, RecvHandlerWhat DEF Only
  <2>2. ~aborted
    BY <1>10 DEF RecvHandler, Arrives, InLoop
  <2> QED BY <1>1, <1>5, <2>1, <2>2
<1>11. ASSUME NEW r \in Reqs, NEW m \in Calls, RecvFragment(r, m) PROVE ServiceInv' /\ CallStep
  <2>1. /\ \A x \in Reqs : x # m => req'[x] = req[x]
        /\ req'[m].state = req[m].state /\ req'[m].status = req[m].status
        /\ req'[m].call_id = req[m].call_id /\ req'[m].shipped = req[m].shipped
        /\ UNCHANGED <<request_queue, pending, failing, waiters>>
    BY <1>11, RecvFragmentWhat DEF Only
  <2>2. ~aborted
    BY <1>11 DEF RecvFragment, Arrives, InLoop
  <2> QED BY <1>1, <1>5, <2>1, <2>2
<1>12. CASE Timeout
  <2>1. /\ UNCHANGED <<failing, waiters>>
        /\ ~aborted /\ ~failing
    BY <1>12, TimeoutWhat DEF loopVars, deadVars, Timeout, InLoop
  <2>2. CASE UNCHANGED <<req, pending, request_queue>>
    BY <1>5, <2>1, <2>2
  <2>3. CASE ~UNCHANGED <<req, pending, request_queue>>
    <3>1. PICK r \in Reqs :
             /\ Only(r)
             /\ req[r].state = "pending"
             /\ req'[r].state = IF r \in SyncCalls THEN "done" ELSE "freed"
             /\ req'[r].status = "IO_TIMEOUT"
             /\ Elems(pending') = Elems(pending) \ {r}
             /\ request_queue' = UnlinkForeign(request_queue, r)
      BY <1>12, <2>3, TimeoutWhat
    <3>2. /\ Order(req', request_queue', pending') /\ CallStep
          /\ Elems(request_queue') \subseteq Elems(request_queue)
          /\ \A c \in Calls : c # r => req'[c].state = req[c].state
      BY <1>6, <2>1, <3>1
    <3>3. r \in SyncCalls => r \in Elems(waiters)
      BY <1>2, <2>1, <3>1 DEF Blocked
    <3>4. Blocked'
      BY <1>2, <2>1, <3>1, <3>2, <3>3, BlockedFrame
    <3> QED BY <1>4, <3>2, <3>4
  <2> QED BY <2>2, <2>3
<1>13. ASSUME SockDead \/ \E r \in Reqs : RecvMalformed(r) PROVE ServiceInv' /\ CallStep
  <2>1. InLoop /\ UNCHANGED <<req, request_queue, pending, waiters>>
    BY <1>13 DEF SockDead, RecvMalformed, connVars
  <2>2. ~aborted /\ (~failing /\ waiters # <<>> => req[Head(waiters)].state = "pending")
    BY <2>1 DEF InLoop
  <2>3. \A c \in Elems(request_queue) : req[c].state # "done"
    BY <2>2, QueueLive
  <2> QED BY <1>5, <2>1, <2>2, <2>3
<1>14. CASE DeadStep
  <2>1. PICK r \in Elems(pending) :
           /\ r \in Reqs
           /\ Only(r)
           /\ req'[r].state = "freed" /\ req'[r].status = "DISCONNECTED"
           /\ Elems(pending') = Elems(pending) \ {r}
           /\ ~aborted /\ failing
           /\ UNCHANGED <<request_queue, failing, waiters>>
    BY <1>14, DeadStepWhat
  <2>2. r \in Calls => req[r].state = "pending"
    BY <1>2, <2>1 DEF Order
  <2>3. /\ Order(req', request_queue', pending') /\ CallStep
        /\ \A c \in Calls : c # r => req'[c].state = req[c].state
    BY <1>6, <2>1, <2>2
  <2>4. \A c \in Elems(request_queue') : req'[c].state # "done"
    BY <1>2, <1>3, <2>1, <2>3 DEF Blocked
  <2>5. Blocked'
    BY <1>2, <2>1, <2>3, <2>4, BlockedFrame
  <2> QED BY <1>4, <2>3, <2>5
<1>15. CASE DeadEnd
  <2>1. UNCHANGED <<req, request_queue, pending, waiters>> /\ ~aborted /\ ~failing'
    BY <1>15 DEF DeadEnd, connVars
  <2> QED BY <1>5, <2>1
<1>16. ASSUME NEW r \in SyncCalls, RequestRecv(r) PROVE ServiceInv' /\ CallStep
  <2>1. /\ r \in Reqs /\ r \in Calls
        /\ Only(r)
        /\ req'[r].state = "freed" /\ req'[r].status = req[r].status
        /\ Elems(pending') = Elems(pending) \ {r}
        /\ request_queue' = UnlinkForeign(request_queue, r)
        /\ aborted' = (req[r].state = "freed")
        /\ waiters # <<>> /\ r = Head(waiters) /\ waiters' = Tail(waiters)
        /\ req[r].state \in {"done", "freed"}
        /\ ~aborted /\ ~failing
        /\ UNCHANGED failing
    BY <1>16, RequestRecvWhat
  <2>2. req[r].state = "done"
    BY <2>1
  <2>3. /\ Order(req', request_queue', pending') /\ CallStep
        /\ Elems(request_queue') \subseteq Elems(request_queue)
        /\ \A c \in Calls : c # r => req'[c].state = req[c].state
    BY <1>6, <2>1, <2>2
  <2>4. \A s \in Elems(waiters) : s # r => s \in Elems(waiters')
    <3>1. waiters \in Seq(SyncCalls)
      BY DEF IndInv, TypeOK
    <3> SUFFICES ASSUME NEW s \in Elems(waiters), s # r PROVE s \in Elems(Tail(waiters))
      BY <2>1
    <3>2. s \in SyncCalls
      BY <3>1 DEF Elems
    <3> QED BY <3>2 DEF OneBlocked
  <2>5. Blocked'
    BY <1>2, <2>1, <2>3, <2>4, BlockedFrame
  <2> QED BY <1>4, <2>3, <2>5
<1> QED
  BY <1>7, <1>8, <1>9, <1>10, <1>11, <1>12, <1>13, <1>14, <1>15, <1>16,
     RequestSendService, RecvDoneService DEF Next
-----------------------------------------------------------------------------
(***************************************************************************)
(* The refinement.                                                         *)
(***************************************************************************)
LEMMA ServiceInit == Init => ServiceInv /\ Service!Init
<1> SUFFICES ASSUME Init PROVE ServiceInv /\ Service!Init
  OBVIOUS
<1>1. Elems(pending) = {} /\ Elems(request_queue) = {} /\ request_queue = <<>>
  BY DEF Init, Elems
<1>2. \A c \in Calls : req[c] = NewReq
  BY DEF Init, Reqs
<1>3. \A c \in Calls : req[c].state = "new" /\ req[c].shipped = -1 /\ req[c].call_id = 0
  BY <1>2 DEF NewReq
<1>4. Order(req, request_queue, pending)
  BY <1>1, <1>3 DEF Order
<1>5. Blocked
  BY <1>1, <1>3, ReqsAssumption DEF Blocked
<1>6. \A c \in Calls : CallState(c) = "new"
  BY <1>3, CallStateIs
<1>7. [c \in Calls |-> CallState(c)] = [c \in Calls |-> "new"]
  BY <1>6
<1>8. [c \in Calls |-> req[c].call_id] = [c \in Calls |-> 0]
  BY <1>3
<1>9. aborted = FALSE
  BY DEF Init
<1>10. Service!Init
  BY <1>7, <1>8, <1>9 DEF Service!Init
<1> QED BY <1>4, <1>5, <1>10 DEF ServiceInv

\* Nothing happens in a process that has been aborted.
LEMMA AbortedStops == Next => ~aborted
<1> SUFFICES ASSUME Next PROVE ~aborted
  OBVIOUS
<1>1. ASSUME NEW r \in Calls, RequestSend(r) PROVE ~aborted
  BY <1>1 DEF RequestSend, MaySend
<1>2. ASSUME NEW a \in Alters, NEW sends \in BOOLEAN, AlterSend(a, sends) \/ BindSend(a, sends)
      PROVE  ~aborted
  BY <1>2 DEF AlterSend, BindSend, ContextSend, MaySend
<1>3. ASSUME NEW a \in Alters, AlterSendFailed(a) PROVE ~aborted
  BY <1>3 DEF AlterSendFailed, InLoop, MaySend
<1>4. ASSUME NEW r \in Reqs, NEW k \in Packets(r), RecvUnmatched(r, k) PROVE ~aborted
  BY <1>4 DEF RecvUnmatched, Arrives, InLoop
<1>5. ASSUME NEW r \in Reqs, NEW m \in Alters, NEW k \in Packets(r), RecvHandler(r, k, m)
      PROVE  ~aborted
  BY <1>5 DEF RecvHandler, Arrives, InLoop
<1>6. ASSUME NEW r \in Reqs, NEW m \in Calls, RecvFragment(r, m) PROVE ~aborted
  BY <1>6 DEF RecvFragment, Arrives, InLoop
<1>7. ASSUME NEW r \in Reqs, NEW m \in Calls, NEW k \in Packets(r), RecvDone(r, k, m)
      PROVE  ~aborted
  BY <1>7 DEF RecvDone, Arrives, InLoop
<1>8. CASE Timeout
  BY <1>8 DEF Timeout, InLoop
<1>9. CASE SockDead
  BY <1>9 DEF SockDead, InLoop
<1>10. ASSUME NEW r \in Reqs, RecvMalformed(r) PROVE ~aborted
  BY <1>10 DEF RecvMalformed, InLoop
<1>11. CASE DeadStep \/ DeadEnd
  BY <1>11 DEF DeadStep, DeadEnd
<1>12. ASSUME NEW r \in SyncCalls, RequestRecv(r) PROVE ~aborted
  BY <1>12 DEF RequestRecv
<1> QED
  BY <1>1, <1>2, <1>3, <1>4, <1>5, <1>6, <1>7, <1>8, <1>9, <1>10, <1>11, <1>12 DEF Next

\* A call is executing while it is on the pending list.
LEMMA ExecutingPending ==
  ASSUME IndInv, Order(req, request_queue, pending), NEW c \in Calls
  PROVE  /\ CallState(c) = "executing" <=> c \in Elems(pending)
         /\ CallState(c) \in {"executing", "replied"} => req[c].shipped # -1
         /\ CallState(c) = "new" <=> req[c].state = "new"
<1>1. req[c].state \in {"new", "pending", "done", "freed"}
  BY DEF IndInv, TypeOK, ReqType, Reqs
<1>2. c \in Elems(pending) <=> req[c].state = "pending" /\ req[c].shipped # -1
  BY DEF Order
<1>3. req[c].state \in {"done", "freed"} /\ req[c].status = "OK" => req[c].shipped # -1
  BY DEF Order
<1> QED BY <1>1, <1>2, <1>3, CallStateIs

\* The same for the next state.
LEMMA ExecutingPendingNext ==
  ASSUME IndInv', Order(req, request_queue, pending)', NEW c \in Calls
  PROVE  /\ CallState(c)' = "executing" <=> c \in Elems(pending')
         /\ CallState(c)' = "new" <=> req'[c].state = "new"
<1>1. req'[c].state \in {"new", "pending", "done", "freed"}
  BY DEF IndInv, TypeOK, ReqType, Reqs
<1>2. c \in Elems(pending)' <=> req'[c].state = "pending" /\ req'[c].shipped # -1
  BY DEF Order
<1>3. Elems(pending)' = Elems(pending')
  BY DEF Elems
<1> QED BY <1>1, <1>2, <1>3, CallStateNext

\* The tickets of RpcService are the call ids.
LEMMA StepTickets ==
  ASSUME IndInv, TicketInv, [Next]_vars, NEW c \in Calls
  PROVE  /\ req[c].state = "new" /\ req'[c].state # "new" =>
              /\ \A d \in Calls : req[d].call_id < req'[c].call_id
              /\ \A d \in Calls : req[d].state = "new" /\ req'[d].state # "new" => c = d
         /\ ~(req[c].state = "new" /\ req'[c].state # "new") => req'[c].call_id = req[c].call_id
<1>1. CASE \A r \in Calls : ~RequestSend(r)
  BY <1>1, OthersKeepTickets
<1>2. ASSUME NEW r \in Calls, RequestSend(r)
      PROVE  /\ req[c].state = "new" /\ req'[c].state # "new" =>
                  /\ \A d \in Calls : req[d].call_id < req'[c].call_id
                  /\ \A d \in Calls : req[d].state = "new" /\ req'[d].state # "new" => c = d
             /\ ~(req[c].state = "new" /\ req'[c].state # "new") =>
                  req'[c].call_id = req[c].call_id
  <2>1. /\ \A x \in Calls : x # r => /\ req'[x].call_id = req[x].call_id
                                     /\ req'[x].state = "new" <=> req[x].state = "new"
        /\ req'[r].call_id = call_id + 1
        /\ req'[r].state # "new"
    BY <1>2, RequestSendTicket
  <2>2. req[r].state = "new"
    BY <1>2 DEF RequestSend
  <2>3. call_id \in Nat
    BY <2>2, NextTicket
  <2>4. \A d \in Calls : req[d].call_id \in Nat /\ req[d].call_id <= call_id
    <3>1. \A d \in Calls : req[d].call_id \in Nat
      BY CallIdAssumption DEF IndInv, TypeOK, ReqType, Reqs
    <3>2. \A d \in Calls : d \in Issued \/ req[d].call_id = 0
      BY DEF TicketInv
    <3> QED BY <2>3, <3>1, <3>2 DEF TicketInv
  <2>5. \A d \in Calls : req[d].call_id < call_id + 1
    BY <2>3, <2>4
  <2> QED BY <2>1, <2>2, <2>5
<1> QED BY <1>1, <1>2

\* Every step of the connection is a step of the service, or none.
LEMMA StepRefines ==
  ASSUME OneBlocked
  PROVE  IndInv /\ IndInv' /\ TicketInv /\ ServiceInv /\ [Next]_vars =>
           ServiceInv' /\ [Service!Next]_(Service!vars)
<1> SUFFICES ASSUME IndInv, IndInv', TicketInv, ServiceInv, [Next]_vars
             PROVE  ServiceInv' /\ [Service!Next]_(Service!vars)
  OBVIOUS
<1>1. CASE UNCHANGED vars
  <2>1. UNCHANGED <<req, request_queue, pending, waiters, failing, aborted>>
    BY <1>1 DEF vars, connVars, loopVars, deadVars
  <2>2. ServiceInv'
    BY <2>1 DEF ServiceInv, Order, Blocked, Elems
  <2>3. UNCHANGED Service!vars
    BY <2>1 DEF Service!vars, CallState
  <2> QED BY <2>2, <2>3
<1>2. CASE Next /\ aborted'
  <2>1. ServiceInv'
    BY <1>2 DEF ServiceInv
  <2>2. Service!Crash
    BY <1>2, AbortedStops DEF Service!Crash
  <2> QED BY <2>1, <2>2 DEF Service!Next
<1>3. CASE Next /\ ~aborted'
  <2>1. ServiceInv' /\ CallStep
    BY <1>3, NextService
  <2>2. ~aborted
    BY <1>3, AbortedStops
  <2>3. Order(req, request_queue, pending) /\ Order(req, request_queue, pending)'
    BY <1>3, <2>1, <2>2 DEF ServiceInv
  <2> DEFINE s == [c \in Calls |-> CallState(c)]
             t == [c \in Calls |-> req[c].call_id]
             s2 == [c \in Calls |-> CallState(c)']
             t2 == [c \in Calls |-> req'[c].call_id]
  <2>4. \A c \in Calls : /\ s[c] = "executing" <=> c \in Elems(pending)
                         /\ s[c] \in {"executing", "replied"} => req[c].shipped # -1
                         /\ s[c] = "new" <=> req[c].state = "new"
                         /\ s2[c] = "executing" <=> c \in Elems(pending')
                         /\ s2[c] = "new" <=> req'[c].state = "new"
    <3> SUFFICES ASSUME NEW c \in Calls
                 PROVE  /\ CallState(c) = "executing" <=> c \in Elems(pending)
                        /\ CallState(c) \in {"executing", "replied"} => req[c].shipped # -1
                        /\ CallState(c) = "new" <=> req[c].state = "new"
                        /\ CallState(c)' = "executing" <=> c \in Elems(pending')
                        /\ CallState(c)' = "new" <=> req'[c].state = "new"
      OBVIOUS
    <3> QED BY <2>3, ExecutingPending, ExecutingPendingNext
  <2>5. \A c \in Calls : s2[c] # s[c] => <<s[c], s2[c]>> \in Service!Moves
    BY <2>1 DEF CallStep
  <2>6. \A c \in Calls : t[c] = req[c].call_id /\ t2[c] = req'[c].call_id
    OBVIOUS
  <2> HIDE DEF s, t, s2, t2
  <2>7. \A c \in Calls : IF s[c] = "new" /\ s2[c] # "new"
                         THEN \A d \in Calls : t[d] < t2[c]
                         ELSE t2[c] = t[c]
    <3> TAKE c \in Calls
    <3>1. CASE s[c] = "new" /\ s2[c] # "new"
      <4>1. \A d \in Calls : req[d].call_id < req'[c].call_id
        BY <2>4, <3>1, StepTickets
      <4> QED BY <2>6, <3>1, <4>1
    <3>2. CASE ~(s[c] = "new" /\ s2[c] # "new")
      <4>1. req'[c].call_id = req[c].call_id
        BY <2>4, <3>2, StepTickets
      <4> QED BY <2>6, <3>2, <4>1
    <3> QED BY <3>1, <3>2
  <2>8. \A c, d \in Calls :
         (s[c] = "new" /\ s2[c] # "new" /\ s[d] = "new" /\ s2[d] # "new") => c = d
    BY <2>4, StepTickets
  <2>9. \A c \in Calls : s[c] # "executing" /\ s2[c] = "executing" => c \in Shipping
    BY <2>4 DEF Shipping
  <2>10. \A c, d \in Calls :
         (/\ s[c] # "executing" /\ s2[c] = "executing"
          /\ s[d] # "executing" /\ s2[d] = "executing") => c = d
    BY <2>1, <2>9 DEF CallStep
  <2>11. \A c, d \in Calls :
         (/\ s[c] # "executing" /\ s2[c] = "executing"
          /\ s[d] \in {"executing", "replied"}) => t[d] < t2[c]
    BY <2>1, <2>4, <2>6, <2>9 DEF CallStep
  <2>12. \A c, d \in Calls \ AsyncCalls : s2[c] = "executing" /\ s2[d] = "executing" => c = d
    <3>1. Elems(pending)' = Elems(pending')
      BY DEF Elems
    <3>2. \A x, y \in Elems(pending') \cap (Calls \ AsyncCalls) : x = y
      BY <3>1 DEF IndInv, SerialCalls
    <3> QED BY <2>4, <3>2
  <2>13. Service!Step
    BY <1>3, <2>2, <2>5, <2>7, <2>8, <2>10, <2>11, <2>12
       DEF Service!Step, Service!Issues, Service!Starts, s, t, s2, t2
  <2> QED BY <2>1, <2>13 DEF Service!Next
<1> QED BY <1>1, <1>2, <1>3

\* The connection implements RpcService when no caller blocks inside the event
\* loop of another: each call is issued once with a fresh id, starts in the order
\* of issue, ends once, with a reply only if it was shipped, and calls without
\* the async attribute run one at a time.  With two nested blocked callers it
\* does not: a call that timed out in the queue can be shipped, and reported as a
\* success, by a later dcerpc_request_send.
THEOREM ServiceRefinement ==
  ASSUME OneBlocked
  PROVE  Spec => ImplementsService
<1>1. Init => TicketInv /\ ServiceInv /\ Service!Init
  BY TicketInit, ServiceInit
<1>2. IndInv /\ TicketInv /\ [Next]_vars => TicketInv'
  BY NextTickets
<1>3. IndInv /\ IndInv' /\ TicketInv /\ ServiceInv /\ [Next]_vars =>
        ServiceInv' /\ [Service!Next]_(Service!vars)
  BY StepRefines
<1> QED BY <1>1, <1>2, <1>3, Invariance, PTL DEF Spec, ImplementsService, Service!Spec
-----------------------------------------------------------------------------
(***************************************************************************)
(* No request is left without something that ends it.                      *)
(***************************************************************************)

\* A request that has not ended has its timer armed, or is a bind or alter whose
\* send has failed and whose composite context is about to be received.
TimersArmed ==
  \A r \in Reqs : req[r].state = "pending" =>
    \/ r \in Elems(timers)
    \/ r \in Alters /\ req[r].status = "SEND_FAILED"

\* A request has one timer, so that freeing the request leaves none behind and
\* a timer that fires leaves none for its request.
OneTimer ==
  /\ Distinct(timers)
  /\ \A r \in Elems(timers) : req[r].state # "new"

TimerInv == OneTimer /\ TimersArmed

\* x is as far as it was, or it has ended.
NoNewPending(x) ==
  /\ req'[x].state = "new" => req[x].state = "new"
  /\ req'[x].state = "pending" =>
       /\ req[x].state = "pending"
       /\ x \in Alters => req'[x].status = req[x].status

\* A step that ends request m, and at most frees its timer.
LEMMA TimerDrop ==
  ASSUME IndInv, TimerInv, NEW m \in Reqs,
         Distinct(timers'), Elems(timers') \subseteq Elems(timers),
         Elems(timers) \ {m} \subseteq Elems(timers'),
         req'[m].state \notin {"new", "pending"},
         \A x \in Reqs : x # m => NoNewPending(x)
  PROVE  TimerInv'
<1>1. Elems(timers) \subseteq Reqs
  BY DEF IndInv, TypeOK, Elems
<1>2. ASSUME NEW x \in Elems(timers') PROVE req'[x].state # "new"
  <2>1. x \in Reqs /\ req[x].state # "new"
    BY <1>1, <1>2 DEF TimerInv, OneTimer
  <2> QED BY <2>1 DEF NoNewPending
<1>3. ASSUME NEW x \in Reqs, req'[x].state = "pending"
      PROVE  x \in Elems(timers') \/ (x \in Alters /\ req'[x].status = "SEND_FAILED")
  <2>1. x # m
    BY <1>3
  <2>2. req[x].state = "pending" /\ (x \in Alters => req'[x].status = req[x].status)
    BY <1>3, <2>1 DEF NoNewPending
  <2>3. x \in Elems(timers) \/ (x \in Alters /\ req[x].status = "SEND_FAILED")
    BY <2>2 DEF TimerInv, TimersArmed
  <2> QED BY <2>1, <2>2, <2>3
<1>4. OneTimer'
  BY <1>2 DEF OneTimer
<1>5. TimersArmed'
  BY <1>3 DEF TimersArmed
<1> QED BY <1>4, <1>5 DEF TimerInv

\* A step that frees no timer and makes no request pending.
LEMMA TimerKeep ==
  ASSUME IndInv, TimerInv, timers' = timers, \A x \in Reqs : NoNewPending(x)
  PROVE  TimerInv'
<1>1. Elems(timers) \subseteq Reqs
  BY DEF IndInv, TypeOK, Elems
<1>2. \A x \in Elems(timers') : req'[x].state # "new"
  BY <1>1 DEF TimerInv, OneTimer, NoNewPending
<1>3. ASSUME NEW x \in Reqs, req'[x].state = "pending"
      PROVE  x \in Elems(timers') \/ (x \in Alters /\ req'[x].status = "SEND_FAILED")
  <2>1. req[x].state = "pending" /\ (x \in Alters => req'[x].status = req[x].status)
    BY <1>3 DEF NoNewPending
  <2>2. x \in Elems(timers) \/ (x \in Alters /\ req[x].status = "SEND_FAILED")
    BY <2>1 DEF TimerInv, TimersArmed
  <2> QED BY <2>1, <2>2
<1>4. Distinct(timers')
  BY DEF TimerInv, OneTimer
<1>5. OneTimer'
  BY <1>2, <1>4 DEF OneTimer
<1>6. TimersArmed'
  BY <1>3 DEF TimersArmed
<1> QED BY <1>5, <1>6 DEF TimerInv

\* Arming the timer of a request that is sent, r.
LEMMA TimerArm ==
  ASSUME IndInv, TimerInv, NEW r \in Reqs, req[r].state = "new", timers' = ArmTimer(timers, r),
         req'[r].state # "new", \A x \in Reqs : x # r => NoNewPending(x)
  PROVE  TimerInv'
<1>1. Elems(timers) \subseteq Reqs /\ timers \in Seq(Reqs)
  BY DEF IndInv, TypeOK, Elems
<1>2. r \notin Elems(timers) /\ Distinct(timers)
  BY DEF TimerInv, OneTimer
<1>3. timers' = AddEnd(timers, r)
  BY DEF ArmTimer, AddEnd
<1>4. Elems(timers') = Elems(timers) \cup {r} /\ Distinct(timers')
  BY <1>1, <1>2, <1>3, AddEndElems
<1>5. ASSUME NEW x \in Elems(timers') PROVE req'[x].state # "new"
  <2>1. CASE x = r
    BY <2>1
  <2>2. CASE x # r
    <3>1. x \in Reqs /\ req[x].state # "new"
      BY <1>1, <1>4, <1>5, <2>2 DEF TimerInv, OneTimer
    <3> QED BY <2>2, <3>1 DEF NoNewPending
  <2> QED BY <2>1, <2>2
<1>6. ASSUME NEW x \in Reqs, req'[x].state = "pending"
      PROVE  x \in Elems(timers') \/ (x \in Alters /\ req'[x].status = "SEND_FAILED")
  <2>1. CASE x = r
    BY <1>4, <2>1
  <2>2. CASE x # r
    <3>1. req[x].state = "pending" /\ (x \in Alters => req'[x].status = req[x].status)
      BY <1>6, <2>2 DEF NoNewPending
    <3>2. x \in Elems(timers) \/ (x \in Alters /\ req[x].status = "SEND_FAILED")
      BY <3>1 DEF TimerInv, TimersArmed
    <3> QED BY <1>4, <3>1, <3>2
  <2> QED BY <2>1, <2>2
<1>7. OneTimer'
  BY <1>4, <1>5 DEF OneTimer
<1>8. TimersArmed'
  BY <1>6 DEF TimersArmed
<1> QED BY <1>7, <1>8 DEF TimerInv

\* dcerpc_ship_next_request makes no request pending: it ends the call it takes
\* off the queue, or leaves it pending.
LEMMA ShipNoNewPending ==
  ASSUME NEW rq \in [Reqs -> ReqType], NEW que \in Seq(Calls), NEW pend \in Seq(Reqs),
         Distinct(que), NEW o \in ShipNext(que, pend), NEW x \in Reqs
  PROVE  /\ ReqAfterShip(rq, o)[x].state = "new" => rq[x].state = "new"
         /\ ReqAfterShip(rq, o)[x].state = "pending" => rq[x].state = "pending"
         /\ x \in Alters => ReqAfterShip(rq, o)[x] = rq[x]
<1>1. o.shipped \cap o.failed = {}
  BY ShipOrder
<1>2. /\ ReqAfterShip(rq, o)[x].state = "new" => rq[x].state = "new"
      /\ x \notin Elems(que) => ReqAfterShip(rq, o)[x] = rq[x]
  BY ShipTickets
<1>3. x \in Alters => x \notin Elems(que)
  BY ReqsAssumption DEF Elems
<1>4. ReqAfterShip(rq, o)[x].state = "pending" => rq[x].state = "pending"
  <2>1. CASE x \notin o.shipped \cup o.failed
    BY <1>1, <2>1, ShipWhat
  <2>2. CASE rq[x].state = "freed"
    BY <1>1, <2>2, ShipWhat
  <2>3. CASE rq[x].state # "freed" /\ x \in o.failed
    BY <1>1, <2>3, ShipWhat
  <2>4. CASE rq[x].state # "freed" /\ x \in o.shipped
    BY <1>1, <2>4, ShipWhat
  <2> QED BY <2>1, <2>2, <2>3, <2>4
<1> QED BY <1>2, <1>3, <1>4

\* dcerpc_request_send arms the timer of the call.
LEMMA RequestSendTimer ==
  ASSUME IndInv, TimerInv, NEW r \in Calls, RequestSend(r)
  PROVE  TimerInv'
<1> DEFINE que == AddEnd(request_queue, r)
<1>1. PICK q \in ReqType, o \in ShipNext(que, pending) : SendsWith(r, q, o)
  BY RequestSendShips
<1> DEFINE rq == [req EXCEPT ![r] = q]
<1>2. /\ req[r].state = "new" /\ r \notin Elems(request_queue) /\ r \in Reqs
      /\ q.state = "pending" /\ req' = ReqAfterShip(rq, o)
  BY <1>1 DEF SendsWith, Reqs
<1>3. /\ rq \in [Reqs -> ReqType] /\ rq[r] = q
      /\ \A x \in Reqs : x # r => rq[x] = req[x]
  BY <1>2 DEF IndInv, TypeOK
<1> HIDE DEF rq
<1>4. que \in Seq(Calls) /\ Distinct(que) /\ pending \in Seq(Reqs)
  BY <1>2, AddEndElems DEF IndInv, TypeOK, OneList
<1> HIDE DEF que
<1>5. \A x \in Reqs : /\ req'[x].state = "new" => rq[x].state = "new"
                      /\ req'[x].state = "pending" => rq[x].state = "pending"
                      /\ x \in Alters => req'[x] = rq[x]
  <2>1. \A x \in Reqs : /\ ReqAfterShip(rq, o)[x].state = "new" => rq[x].state = "new"
                        /\ ReqAfterShip(rq, o)[x].state = "pending" => rq[x].state = "pending"
                        /\ x \in Alters => ReqAfterShip(rq, o)[x] = rq[x]
    BY <1>3, <1>4, ShipNoNewPending
  <2> QED BY <1>2, <2>1
<1>6. req'[r].state # "new"
  BY <1>2, <1>3, <1>5
<1>7. \A x \in Reqs : x # r => NoNewPending(x)
  BY <1>3, <1>5 DEF NoNewPending
<1>8. timers' = ArmTimer(timers, r)
  BY DEF RequestSend
<1> QED BY <1>2, <1>6, <1>7, <1>8, TimerArm

\* Freeing a request takes its timer off the list, and no other.
LEMMA TimerFreed ==
  ASSUME IndInv, TimerInv, NEW m \in Reqs,
         timers' \in {TimersAfter(timers, m), Unlink(timers, m)}
  PROVE  /\ Distinct(timers') /\ Elems(timers') \subseteq Elems(timers)
         /\ Elems(timers) \ {m} \subseteq Elems(timers')
<1>1. timers \in Seq(Reqs) /\ Distinct(timers)
  BY DEF IndInv, TypeOK, TimerInv, OneTimer
<1>2. timers' = timers \/ timers' = Unlink(timers, m)
  BY DEF TimersAfter
<1>3. Distinct(Unlink(timers, m)) /\ Elems(Unlink(timers, m)) = Elems(timers) \ {m}
  BY <1>1, UnlinkElems
<1>4. CASE timers' = timers
  BY <1>1, <1>4
<1>5. CASE timers' = Unlink(timers, m)
  BY <1>3, <1>5
<1> QED BY <1>2, <1>4, <1>5

\* The end of a call, which ships the next one, frees its timer.
LEMMA RecvDoneTimer ==
  ASSUME IndInv, TimerInv, NEW r \in Reqs, NEW m \in Calls, NEW k \in Packets(r),
         RecvDone(r, k, m)
  PROVE  TimerInv'
<1> DEFINE pend == Unlink(pending, m)
<1>1. PICK q \in ReqType, o \in ShipNext(request_queue, pend) : DoneWith(r, k, m, q, o)
  BY RecvDoneShips
<1> DEFINE rq == [req EXCEPT ![m] = q]
<1>2. m \in Reqs /\ q.state \in {"done", "freed"} /\ req' = ReqAfterShip(rq, o)
  BY <1>1 DEF DoneWith, Reqs
<1>3. /\ rq \in [Reqs -> ReqType] /\ rq[m] = q
      /\ \A x \in Reqs : x # m => rq[x] = req[x]
  BY <1>2 DEF IndInv, TypeOK
<1> HIDE DEF rq
<1>4. request_queue \in Seq(Calls) /\ Distinct(request_queue) /\ pend \in Seq(Reqs)
  BY UnlinkType DEF IndInv, TypeOK, OneList
<1> HIDE DEF pend
<1>5. \A x \in Reqs : /\ req'[x].state = "new" => rq[x].state = "new"
                      /\ req'[x].state = "pending" => rq[x].state = "pending"
                      /\ x \in Alters => req'[x] = rq[x]
  <2>1. \A x \in Reqs : /\ ReqAfterShip(rq, o)[x].state = "new" => rq[x].state = "new"
                        /\ ReqAfterShip(rq, o)[x].state = "pending" => rq[x].state = "pending"
                        /\ x \in Alters => ReqAfterShip(rq, o)[x] = rq[x]
    BY <1>3, <1>4, ShipNoNewPending
  <2> QED BY <1>2, <2>1
<1>6. req'[m].state \notin {"new", "pending"}
  BY <1>2, <1>3, <1>5
<1>7. \A x \in Reqs : x # m => NoNewPending(x)
  BY <1>3, <1>5 DEF NoNewPending
<1>8. timers' = TimersAfter(timers, m)
  BY DEF RecvDone
<1>9. /\ Distinct(timers') /\ Elems(timers') \subseteq Elems(timers)
      /\ Elems(timers) \ {m} \subseteq Elems(timers')
  BY <1>2, <1>8, TimerFreed
<1> QED BY <1>2, <1>6, <1>7, <1>9, TimerDrop

\* A bind or alter has its timer armed unless its send has failed.
LEMMA ContextSendTimer ==
  ASSUME IndInv, TimerInv, NEW a \in Alters, NEW sends \in BOOLEAN, NEW ctx,
         ContextSend(a, sends, ctx)
  PROVE  TimerInv'
<1>1. /\ a \in Reqs /\ req'[a].state = "pending"
      /\ \A x \in Reqs : x # a => req'[x] = req[x]
  BY ContextSendWhat
<1>2. \A x \in Reqs : x # a => NoNewPending(x)
  BY <1>1 DEF NoNewPending
<1>3. req[a].state = "new"
  BY DEF ContextSend
<1>4. CASE sends
  <2>1. timers' = ArmTimer(timers, a)
    BY <1>4 DEF ContextSend
  <2> QED BY <1>1, <1>2, <1>3, <2>1, TimerArm
<1>5. CASE ~sends
  <2>1. timers' = timers
    BY <1>5 DEF ContextSend
  <2>2. req'[a].status = "SEND_FAILED"
    BY <1>1, <1>5 DEF ContextSend, Allocated, IndInv, TypeOK
  <2>3. Elems(timers) \subseteq Reqs /\ a \notin Elems(timers)
    BY <1>3 DEF IndInv, TypeOK, Elems, TimerInv, OneTimer
  <2>4. Distinct(timers')
    BY <2>1 DEF TimerInv, OneTimer
  <2>5. \A x \in Elems(timers) : x # a /\ req'[x].state # "new"
    BY <1>1, <2>3 DEF TimerInv, OneTimer
  <2>6. OneTimer'
    BY <2>1, <2>4, <2>5 DEF OneTimer
  <2>7. ASSUME NEW x \in Reqs, req'[x].state = "pending"
        PROVE  x \in Elems(timers) \/ (x \in Alters /\ req'[x].status = "SEND_FAILED")
    <3>1. CASE x = a
      BY <2>2, <3>1
    <3>2. CASE x # a
      BY <1>1, <2>7, <3>2 DEF TimerInv, TimersArmed
    <3> QED BY <3>1, <3>2
  <2>8. TimersArmed'
    BY <2>1, <2>7 DEF TimersArmed
  <2> QED BY <2>6, <2>8 DEF TimerInv
<1> QED BY <1>4, <1>5

\* The timer that fires is the only one of its request, which has then ended.
LEMMA TimeoutTimer == ASSUME IndInv, TimerInv, Timeout PROVE TimerInv'
<1> DEFINE r == Head(timers)
<1>1. timers \in Seq(Reqs) /\ Distinct(timers) /\ timers # <<>> /\ timers' = Tail(timers)
  BY DEF IndInv, TypeOK, TimerInv, OneTimer, Timeout
<1>2. /\ Elems(timers') = Elems(timers) \ {r} /\ Distinct(timers') /\ r \in Elems(timers)
  BY <1>1, TailElems
<1>3. r \in Reqs /\ req[r].state # "new"
  BY <1>1, <1>2 DEF Elems, TimerInv, OneTimer
<1>4. /\ req[r].state # "pending" => req' = req
      /\ req[r].state = "pending" => req' = [req EXCEPT ![r] = Finished(req[r], r, "IO_TIMEOUT")]
  BY DEF Timeout
<1>5. req[r] \in ReqType /\ "IO_TIMEOUT" \in Statuses /\ req \in [Reqs -> ReqType]
  BY <1>3 DEF IndInv, TypeOK, Statuses
<1> HIDE DEF r
<1> DEFINE q == Finished(req[r], r, "IO_TIMEOUT")
<1>6. q.state \in {"done", "freed"}
  BY <1>5, FinishedFields
<1> HIDE DEF q
<1>7. req[r].state = "pending" => req'[r] = q /\ \A x \in Reqs : x # r => req'[x] = req[x]
  BY <1>3, <1>4, <1>5 DEF q
<1>8. /\ req'[r].state \notin {"new", "pending"}
      /\ \A x \in Reqs : x # r => req'[x] = req[x]
  BY <1>3, <1>4, <1>6, <1>7
<1>9. \A x \in Reqs : x # r => NoNewPending(x)
  BY <1>8 DEF NoNewPending
<1>10. Elems(timers') \subseteq Elems(timers) /\ Elems(timers) \ {r} \subseteq Elems(timers')
  BY <1>2
<1> QED BY <1>2, <1>3, <1>8, <1>9, <1>10, TimerDrop

\* Every step keeps one timer for every request that has not ended.
LEMMA NextTimer == IndInv /\ TimerInv /\ [Next]_vars => TimerInv'
<1> SUFFICES ASSUME IndInv, TimerInv, [Next]_vars PROVE TimerInv'
  OBVIOUS
<1>1. \A x \in Reqs : req'[x] = req[x] => NoNewPending(x)
  BY DEF NoNewPending
<1>2. ASSUME UNCHANGED <<req, timers>> PROVE TimerInv'
  BY <1>1, <1>2, TimerKeep
<1>3. ASSUME NEW m \in Reqs, Only(m), req'[m].state \notin {"new", "pending"},
             timers' \in {TimersAfter(timers, m), Unlink(timers, m)}
      PROVE  TimerInv'
  <2>1. \A x \in Reqs : x # m => NoNewPending(x)
    BY <1>1, <1>3 DEF Only
  <2>2. /\ Distinct(timers') /\ Elems(timers') \subseteq Elems(timers)
        /\ Elems(timers) \ {m} \subseteq Elems(timers')
    BY <1>3, TimerFreed
  <2> QED BY <1>3, <2>1, <2>2, TimerDrop
<1>4. CASE UNCHANGED vars
  BY <1>2, <1>4 DEF vars
<1>5. ASSUME NEW r \in Calls, RequestSend(r) PROVE TimerInv'
  BY <1>5, RequestSendTimer
<1>6. ASSUME NEW a \in Alters, NEW sends \in BOOLEAN, AlterSend(a, sends) \/ BindSend(a, sends)
      PROVE  TimerInv'
  BY <1>6, ContextSendTimer DEF AlterSend, BindSend
<1>7. ASSUME NEW a \in Alters, AlterSendFailed(a) PROVE TimerInv'
  <2>1. Only(a) /\ a \in Reqs /\ req'[a].state = "freed" /\ timers' = timers
    BY <1>7, AlterSendFailedWhat DEF AlterSendFailed
  <2>2. \A x \in Reqs : NoNewPending(x)
    <3>1. \A x \in Reqs : x # a => NoNewPending(x)
      BY <1>1, <2>1 DEF Only
    <3>2. NoNewPending(a)
      BY <2>1 DEF NoNewPending
    <3> QED BY <3>1, <3>2
  <2> QED BY <2>1, <2>2, TimerKeep
<1>8. ASSUME NEW r \in Reqs, NEW k \in Packets(r), RecvUnmatched(r, k) PROVE TimerInv'
  BY <1>2, <1>8 DEF RecvUnmatched
<1>9. ASSUME NEW r \in Reqs, NEW m \in Alters, NEW k \in Packets(r), RecvHandler(r, k, m)
      PROVE  TimerInv'
  <2>1. /\ m \in Reqs /\ Only(m)
        /\ req[m].state = "freed" => req' = req
        /\ req[m].state # "freed" => req'[m].state = "freed"
    BY <1>9, RecvHandlerWhat
  <2>2. req'[m].state = "freed"
    BY <2>1
  <2>3. timers' = TimersAfter(timers, m)
    BY <1>9 DEF RecvHandler
  <2> QED BY <1>3, <2>1, <2>2, <2>3
<1>10. ASSUME NEW r \in Reqs, NEW m \in Calls, RecvFragment(r, m) PROVE TimerInv'
  <2>1. /\ m \in Reqs /\ Only(m) /\ req'[m].state = req[m].state
        /\ req'[m].status = req[m].status
    BY <1>10, RecvFragmentWhat
  <2>2. \A x \in Reqs : NoNewPending(x)
    <3>1. \A x \in Reqs : x # m => NoNewPending(x)
      BY <1>1, <2>1 DEF Only
    <3>2. NoNewPending(m)
      BY <2>1 DEF NoNewPending
    <3> QED BY <3>1, <3>2
  <2>3. timers' = timers
    BY <1>10 DEF RecvFragment
  <2> QED BY <2>2, <2>3, TimerKeep
<1>11. ASSUME NEW r \in Reqs, NEW m \in Calls, NEW k \in Packets(r), RecvDone(r, k, m)
       PROVE  TimerInv'
  BY <1>11, RecvDoneTimer
<1>12. CASE Timeout
  BY <1>12, TimeoutTimer
<1>13. CASE SockDead \/ DeadEnd
  BY <1>2, <1>13 DEF SockDead, DeadEnd
<1>14. ASSUME NEW r \in Reqs, RecvMalformed(r) PROVE TimerInv'
  BY <1>2, <1>14 DEF RecvMalformed
<1>15. CASE DeadStep
  <2> DEFINE r == Head(pending)
  <2>1. timers' = Unlink(timers, r)
    BY <1>15 DEF DeadStep
  <2>2. r \in Reqs
    BY <1>15 DEF DeadStep, IndInv, TypeOK
  <2>3. PICK x \in Reqs : Only(x) /\ req'[x].state = "freed" /\ x \notin Elems(pending')
                          /\ x \in Elems(pending)
    BY <1>15, DeadStepWhat
  <2>4. x = r
    <3>1. pending \in Seq(Reqs) /\ pending # <<>> /\ Distinct(pending)
          /\ pending' = Tail(pending)
      BY <1>15 DEF DeadStep, IndInv, TypeOK, OneList
    <3>2. Elems(pending') = Elems(pending) \ {r}
      BY <3>1, TailElems
    <3> QED BY <2>3, <3>2
  <2> HIDE DEF r
  <2>5. Only(r) /\ req'[r].state = "freed"
    BY <2>3, <2>4
  <2> QED BY <1>3, <2>1, <2>2, <2>5
<1>16. ASSUME NEW r \in SyncCalls, RequestRecv(r) PROVE TimerInv'
  <2>1. r \in Reqs /\ Only(r) /\ req'[r].state = "freed"
    BY <1>16, RequestRecvWhat
  <2>2. timers' = Unlink(timers, r)
    BY <1>16 DEF RequestRecv
  <2> QED BY <1>3, <2>1, <2>2
<1> QED
  BY <1>4, <1>5, <1>6, <1>7, <1>8, <1>9, <1>10, <1>11, <1>12, <1>13, <1>14, <1>15, <1>16
  DEF Next

\* A request that has not ended is never without its timer, whatever became of
\* the queue it was in, the connection or the server: dcerpc_timeout_handler will
\* end it, as EventuallyEnds asks.  The only exception is a bind or alter that
\* could not be sent, which the event of composite_continue ends.
THEOREM TimersArmedSafe == Spec => []TimersArmed
<1>1. Init => TimerInv
  <2> SUFFICES ASSUME Init PROVE TimerInv
    OBVIOUS
  <2>1. timers = <<>> /\ \A r \in Reqs : req[r].state = "new"
    BY DEF Init, NewReq
  <2>2. Elems(timers) = {} /\ Distinct(timers)
    BY <2>1 DEF Elems, Distinct
  <2> QED BY <2>1, <2>2 DEF TimerInv, OneTimer, TimersArmed
<1>2. TimerInv => TimersArmed
  BY DEF TimerInv
<1> QED BY <1>1, <1>2, NextTimer, Invariance, PTL DEF Spec
=============================================================================
