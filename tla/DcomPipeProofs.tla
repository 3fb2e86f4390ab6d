--------------------------- MODULE DcomPipeProofs ---------------------------
(***************************************************************************)
(* Safety of the exporter's pipe for any number of calls, interfaces and   *)
(* pipes in the synchronous client, which has one call at work at a time.  *)
(***************************************************************************)
EXTENDS DcomPipe, SequenceTheorems, FiniteSetTheorems, TLAPS

(***************************************************************************)
(* The inductive invariant.                                                *)
(*                                                                         *)
(* A user at work has no pipe yet, and neither has the exporter, or it has *)
(* the exporter's.  While it waits for the pipe, the pipe has had no fault *)
(* and is noted as bound to the user's interface; while its call is on the *)
(* wire or lost, it is the parent of the pipe.                             *)
(* A call that was shipped in a refused context is on the wire, or it has  *)
(* left its fault in the pipe.                                             *)
(***************************************************************************)
UserInv ==
  \A u \in Users :
    /\ user[u].at # "queued"
    /\ user[u].at \in {"idle", "connecting"} => user[u].p = None
    /\ user[u].at = "connecting" => ox_pipe = None
    /\ user[u].at \in {"altering", "ready", "sent", "lost"} =>
         user[u].p = ox_pipe /\ ox_pipe # None
    /\ user[u].at \in {"altering", "ready"} =>
         ~pipe[ox_pipe].fault /\ pipe[ox_pipe].uuid = IfaceOf[u]
    /\ user[u].at \in {"sent", "lost"} => pipe[ox_pipe].parent = u
    /\ user[u].shipped \in {None, Refused, IfaceOf[u]}
    /\ user[u].p # None => pipe[user[u].p].state # "none"
    /\ user[u].shipped = Refused =>
         \/ user[u].at = "sent"
         \/ user[u].at = "ended" /\ user[u].p # None /\ pipe[user[u].p].fault

(***************************************************************************)
(* The only live pipe is the exporter's.  Its parent is the user whose     *)
(* call is on the wire or lost, and the exporter then has a reference, or  *)
(* it is the exporter, without further references.                         *)
(***************************************************************************)
PipeInv ==
  /\ ox_pipe # None => pipe[ox_pipe].state = "live"
  /\ \A p \in Pipes :
       /\ queue[p] = <<>>
       /\ pipe[p].state = "live" =>
            /\ p = ox_pipe
            /\ pipe[p].ctx \in {pipe[p].uuid, Refused}
            /\ \/ pipe[p].parent = Owner /\ pipe[p].refs = 0
               \/ /\ pipe[p].parent \in Users /\ pipe[p].refs = 1
                  /\ user[pipe[p].parent].at \in {"sent", "lost"}

\* At most one user is at work.
OneActive == \A u, v \in Active : u = v

\* Of the calls of a pipe at most one was shipped in a refused context.
OneRefused ==
  \A u, v \in Users :
    /\ user[u].shipped = Refused /\ user[v].shipped = Refused
    /\ user[u].p # None /\ user[u].p = user[v].p
    => u = v

IndInv == TypeOK /\ UserInv /\ PipeInv /\ OneActive /\ OneRefused
-----------------------------------------------------------------------------
(***************************************************************************)
(* Types.                                                                  *)
(***************************************************************************)

\* The fields of a user.
LEMMA UserRecords ==
  ASSUME NEW w \in UserType, NEW x \in Places, NEW y \in Pipes \cup {None},
         NEW c \in Nat, NEW i \in Ifaces \cup {None, Refused}
  PROVE  /\ [w EXCEPT !.at = x] \in UserType
         /\ [w EXCEPT !.at = x, !.p = y] \in UserType
         /\ [w EXCEPT !.at = x, !.p = y, !.cid = c] \in UserType
         /\ [w EXCEPT !.at = x, !.p = y, !.shipped = i] \in UserType
         /\ [w EXCEPT !.at = x, !.shipped = i] \in UserType
  BY DEF UserType

\* The fields of a pipe.
LEMMA PipeRecords ==
  ASSUME NEW q \in PipeType
  PROVE  /\ [q EXCEPT !.state = "freed"] \in PipeType
         /\ \A n \in Nat : [q EXCEPT !.refs = n] \in PipeType
         /\ \A n \in Nat : [q EXCEPT !.refs = n, !.parent = Owner] \in PipeType
         /\ \A n \in Nat, u \in Users : [q EXCEPT !.parent = u, !.refs = n] \in PipeType
         /\ \A i \in Ifaces, n \in Nat :
              [q EXCEPT !.uuid = i, !.cid = n, !.ctx = i] \in PipeType
         /\ \A i \in Ifaces \cup {None, Refused} : [q EXCEPT !.ctx = i] \in PipeType
         /\ \A b \in BOOLEAN : [q EXCEPT !.fault = b] \in PipeType
  BY Zenon DEF PipeType

\* What talloc_free, its parent's talloc_free, keeping and noting a fault make
\* of a pipe is a pipe.
LEMMA PipeOps ==
  ASSUME NEW q \in PipeType, NEW u \in Users, NEW ok \in BOOLEAN
  PROVE  /\ TallocFree(q) \in PipeType /\ FreeParent(q) \in PipeType
         /\ Kept(q, u) \in PipeType /\ Notes(q, ok) \in PipeType
<1>1. q.refs \in Nat
  BY DEF PipeType
<1>2. q.refs > 0 => q.refs - 1 \in Nat
  BY <1>1
<1>3. q.refs + 1 \in Nat
  BY <1>1
<1>4. TallocFree(q) \in PipeType
  BY <1>2, PipeRecords, Zenon DEF TallocFree
<1>5. FreeParent(q) \in PipeType
  BY <1>2, PipeRecords, Zenon DEF FreeParent
<1>6. Kept(q, u) \in PipeType
  BY <1>3, PipeRecords, Zenon DEF Kept
<1>7. (q.fault \/ ~ok) \in BOOLEAN
  OBVIOUS
<1>8. Notes(q, ok) \in PipeType
  BY <1>7, PipeRecords, Zenon DEF Notes
<1> QED BY <1>4, <1>5, <1>6, <1>8

\* The pipe of a user that has just connected.
Fresh(u) == [NoPipe EXCEPT !.state = "live", !.uuid = IfaceOf[u], !.ctx = IfaceOf[u]]

\* A pipe that was just opened for u.
LEMMA FreshLemma ==
  ASSUME NEW u \in Users
  PROVE  /\ Fresh(u) \in PipeType
         /\ Fresh(u).state = "live" /\ Fresh(u).uuid = IfaceOf[u]
         /\ Fresh(u).ctx = IfaceOf[u] /\ ~Fresh(u).fault
         /\ Fresh(u).parent = Owner /\ Fresh(u).refs = 0
<1>1. IfaceOf[u] \in Ifaces
  BY DcomAssumption
<1>2. NoPipe.fault = FALSE /\ NoPipe.parent = Owner /\ NoPipe.refs = 0
  BY Zenon DEF NoPipe
<1>3. NoPipe \in PipeType
  BY Zenon DEF NoPipe, PipeType
<1>4. Fresh(u) \in PipeType
  BY <1>1, <1>3, Zenon DEF Fresh, PipeType
<1> QED BY <1>2, <1>3, <1>4, Zenon DEF Fresh, PipeType

(***************************************************************************)
(* The one user at work puts its request on an empty queue: it is shipped  *)
(* at once, or it is lost, and the queue stays empty.                      *)
(***************************************************************************)
TakenAs(u, p, q) ==
  /\ queue' = queue
  /\ \/ user' = [user EXCEPT ![u] =
                   [user[u] EXCEPT !.at = "sent", !.p = p, !.shipped = q.ctx]]
     \/ user' = [user EXCEPT ![u] = [user[u] EXCEPT !.at = "lost", !.p = p]]

LEMMA TakeWhat ==
  ASSUME TypeOK, NEW u \in Users, NEW p \in Pipes, NEW q \in PipeType, Take(u, p, q),
         queue[p] = <<>>,
         \A v \in Users : v # u => user[v].at \notin {"sent", "altering"}
  PROVE  TakenAs(u, p, q)
<1> DEFINE us == [user EXCEPT ![u].at = "queued", ![u].p = p]
           que == Append(queue[p], u)
           w == [user[u] EXCEPT !.at = "queued", !.p = p]
<1>1. user \in [Users -> UserType] /\ user[u] \in UserType
  BY DEF TypeOK
<1>2. us = [user EXCEPT ![u] = w]
  BY <1>1
<1>3. us[u] = w /\ w.at = "queued" /\ \A v \in Users : v # u => us[v] = user[v]
  <2>1. w.at = "queued"
    BY <1>1 DEF UserType
  <2> HIDE DEF w
  <2> QED BY <1>1, <1>2, <2>1
<1>4. ~Pending(us, p)
  <2> HIDE DEF us, w
  <2> QED BY <1>3 DEF Pending
<1>5. que = <<u>> /\ que # <<>> /\ Head(que) = u /\ Tail(que) = <<>>
  BY EmptySeq
<1>6. PICK o \in Shipped(us, p, que, q.ctx) :
        user' = o.user /\ queue' = [queue EXCEPT ![p] = o.queue]
  BY DEF Take
<1>7. \/ o = [user |-> [us EXCEPT ![u].at = "sent", ![u].shipped = q.ctx], queue |-> <<>>]
      \/ o = [user |-> [us EXCEPT ![u].at = "lost"], queue |-> <<>>]
  <2> HIDE DEF us, que
  <2> QED BY <1>4, <1>5, <1>6 DEF Shipped
<1>8. queue' = queue
  BY <1>6, <1>7 DEF TypeOK
<1>9. CASE o.user = [us EXCEPT ![u].at = "sent", ![u].shipped = q.ctx]
  <2>1. o.user = [us EXCEPT ![u] = [w EXCEPT !.at = "sent", !.shipped = q.ctx]]
    BY <1>1, <1>2, <1>3, <1>9
  <2>2. [w EXCEPT !.at = "sent", !.shipped = q.ctx]
          = [user[u] EXCEPT !.at = "sent", !.p = p, !.shipped = q.ctx]
    BY <1>1 DEF UserType
  <2>3. o.user = [user EXCEPT ![u] =
                    [user[u] EXCEPT !.at = "sent", !.p = p, !.shipped = q.ctx]]
    BY <1>1, <1>2, <2>1, <2>2
  <2> QED BY <1>6, <1>8, <2>3 DEF TakenAs
<1>10. CASE o.user = [us EXCEPT ![u].at = "lost"]
  <2>1. o.user = [us EXCEPT ![u] = [w EXCEPT !.at = "lost"]]
    BY <1>1, <1>2, <1>3, <1>10
  <2>2. [w EXCEPT !.at = "lost"] = [user[u] EXCEPT !.at = "lost", !.p = p]
    BY <1>1 DEF UserType
  <2>3. o.user = [user EXCEPT ![u] = [user[u] EXCEPT !.at = "lost", !.p = p]]
    BY <1>1, <1>2, <2>1, <2>2
  <2> QED BY <1>6, <1>8, <2>3 DEF TakenAs
<1>11. \/ o.user = [us EXCEPT ![u].at = "sent", ![u].shipped = q.ctx]
       \/ o.user = [us EXCEPT ![u].at = "lost"]
  <2> DEFINE sent == [us EXCEPT ![u].at = "sent", ![u].shipped = q.ctx]
             lost == [us EXCEPT ![u].at = "lost"]
  <2>1. \/ o = [user |-> sent, queue |-> <<>>]
        \/ o = [user |-> lost, queue |-> <<>>]
    BY <1>7
  <2> HIDE DEF sent, lost
  <2>2. o.user = sent \/ o.user = lost
    BY <2>1
  <2> QED BY <2>2 DEF sent, lost
<1> HIDE DEF us
<1> QED BY <1>9, <1>10, <1>11

\* Taking a pipe keeps the types,
LEMMA TakeType ==
  ASSUME TypeOK, NEW u \in Users, NEW p \in Pipes, NEW q \in PipeType, Take(u, p, q),
         TakenAs(u, p, q)
  PROVE  TypeOK'
<1>1. ox_pipe' \in Pipes \cup {None} /\ pipe' \in [Pipes -> PipeType]
  <2>1. Kept(q, u) \in PipeType
    BY PipeOps
  <2> QED BY <2>1 DEF Take, TypeOK
<1>2. q.ctx \in Ifaces \cup {None, Refused} /\ user[u] \in UserType
  BY DEF PipeType, TypeOK
<1>3. /\ [user[u] EXCEPT !.at = "sent", !.p = p, !.shipped = q.ctx] \in UserType
      /\ [user[u] EXCEPT !.at = "lost", !.p = p] \in UserType
  BY <1>2, UserRecords DEF Places
<1>4. user' \in [Users -> UserType] /\ queue' = queue
  BY <1>3 DEF TakenAs, TypeOK
<1> QED BY <1>1, <1>4 DEF TypeOK

\* so does giving up,
LEMMA GiveUpType ==
  ASSUME TypeOK, NEW u \in Users, GiveUp(u), pipe' \in [Pipes -> PipeType]
  PROVE  TypeOK'
<1>1. user' = [user EXCEPT ![u] = [user[u] EXCEPT !.at = "ended"]]
  BY DEF GiveUp, TypeOK
<1>2. [user[u] EXCEPT !.at = "ended"] \in UserType
  BY UserRecords DEF TypeOK, Places
<1> QED BY <1>1, <1>2 DEF TypeOK, GiveUp

\* dcom_get_pipe_send,
LEMMA GetPipeType ==
  ASSUME TypeOK, NEW u \in Users, GetPipe(u)
  PROVE  TypeOK'
<1>1. user[u] \in UserType /\ IfaceOf[u] \in Ifaces
  BY DcomAssumption DEF TypeOK
<1>2. CASE ox_pipe = None \/ Invalid(ox_pipe)
  <2>1. user' = [user EXCEPT ![u] = [user[u] EXCEPT !.at = "connecting"]]
    BY <1>2 DEF GetPipe, TypeOK
  <2>2. [user[u] EXCEPT !.at = "connecting"] \in UserType
    BY <1>1, UserRecords DEF Places
  <2>3. CASE ox_pipe = None
    BY <2>1, <2>2, <2>3 DEF GetPipe, TypeOK
  <2>4. CASE ox_pipe # None
    <3>1. TallocFree(pipe[ox_pipe]) \in PipeType
      BY <2>4, PipeOps DEF TypeOK
    <3>2. pipe' = [pipe EXCEPT ![ox_pipe] = TallocFree(pipe[ox_pipe])] /\ ox_pipe' = None
      BY <1>2, <2>4 DEF GetPipe
    <3> QED BY <2>1, <2>2, <3>1, <3>2 DEF GetPipe, TypeOK
  <2> QED BY <2>3, <2>4
<1>3. CASE ~(ox_pipe = None \/ Invalid(ox_pipe)) /\ SameIface(ox_pipe, u)
  <2>1. user' = [user EXCEPT ![u] = [user[u] EXCEPT !.at = "ready", !.p = ox_pipe]]
    BY <1>3 DEF GetPipe, TypeOK
  <2>2. [user[u] EXCEPT !.at = "ready", !.p = ox_pipe] \in UserType
    BY <1>1, UserRecords DEF Places, TypeOK
  <2> QED BY <1>3, <2>1, <2>2 DEF GetPipe, TypeOK
<1>4. CASE ~(ox_pipe = None \/ Invalid(ox_pipe)) /\ ~SameIface(ox_pipe, u)
  <2> DEFINE cid == pipe[ox_pipe].cid + 1
  <2>0. pipe[ox_pipe] \in PipeType /\ ox_pipe \in Pipes
    BY <1>4 DEF TypeOK
  <2>1. cid \in Nat
    BY <2>0 DEF PipeType
  <2>2. user' = [user EXCEPT ![u] =
                   [user[u] EXCEPT !.at = "altering", !.p = ox_pipe, !.cid = cid]]
    BY <1>4 DEF GetPipe, TypeOK
  <2>3. pipe' = [pipe EXCEPT ![ox_pipe] =
                   [pipe[ox_pipe] EXCEPT !.uuid = IfaceOf[u], !.cid = cid,
                                         !.ctx = IfaceOf[u]]]
    BY <1>4, <2>0 DEF GetPipe, TypeOK
  <2>4. ox_pipe' = ox_pipe /\ queue' = queue
    BY <1>4 DEF GetPipe
  <2> HIDE DEF cid
  <2>5. [user[u] EXCEPT !.at = "altering", !.p = ox_pipe, !.cid = cid] \in UserType
    BY <1>1, <2>1, UserRecords DEF Places, TypeOK
  <2>6. [pipe[ox_pipe] EXCEPT !.uuid = IfaceOf[u], !.cid = cid, !.ctx = IfaceOf[u]]
          \in PipeType
    BY <1>1, <2>0, <2>1, PipeRecords, Zenon
  <2> QED BY <2>0, <2>2, <2>3, <2>4, <2>5, <2>6 DEF TypeOK
<1> QED BY <1>2, <1>3, <1>4

(***************************************************************************)
(* and the end of a call, by a reply or without one.  With nobody queued   *)
(* it ships nothing.                                                       *)
(***************************************************************************)
Ends(u, ok) == ReplyEnds(u, ok) \/ (NoReply(u) /\ ~ok)

EndedAs(u, ok) ==
  /\ user[u].at = "sent" /\ pipe[user[u].p].state = "live"
  /\ ok => user[u].shipped # Refused
  /\ pipe' = FreeUser([pipe EXCEPT ![user[u].p] = Notes(pipe[user[u].p], ok)], u)
  /\ user' = [user EXCEPT ![u].at = "ended"]
  /\ queue' = queue /\ ox_pipe' = ox_pipe

LEMMA EndsWhat ==
  ASSUME TypeOK, NEW u \in Users, NEW ok \in BOOLEAN, Ends(u, ok),
         queue[user[u].p] = <<>>, user[u].at # "queued"
  PROVE  EndedAs(u, ok)
<1>1. CASE ReplyEnds(u, ok)
  <2> DEFINE p == user[u].p
             us == [user EXCEPT ![u].at = "ended"]
  <2>1. PICK o \in Shipped(us, p, queue[p], pipe[p].ctx) :
          user' = o.user /\ queue' = [queue EXCEPT ![p] = o.queue]
    BY <1>1 DEF ReplyEnds
  <2>2. o = [user |-> us, queue |-> <<>>]
    <3> HIDE DEF us
    <3> QED BY <2>1 DEF Shipped
  <2>3. user' = us
    BY <2>1, <2>2
  <2>4. queue' = queue
    BY <2>1, <2>2 DEF TypeOK
  <2> QED BY <1>1, <2>3, <2>4 DEF ReplyEnds, EndedAs
<1>2. CASE NoReply(u) /\ ~ok
  BY <1>2 DEF NoReply, EndedAs
<1> QED BY <1>1, <1>2 DEF Ends

LEMMA EndsType ==
  ASSUME TypeOK, NEW u \in Users, NEW ok \in BOOLEAN, EndedAs(u, ok)
  PROVE  TypeOK'
<1> DEFINE p == user[u].p
           noted == [pipe EXCEPT ![p] = Notes(pipe[p], ok)]
           ended == [user EXCEPT ![u].at = "ended"]
<1>1. p \in Pipes \cup {None} /\ user[u] \in UserType
  BY DEF TypeOK, UserType
<1>2. pipe' = FreeUser(noted, u) /\ ox_pipe' = ox_pipe
  BY DEF EndedAs
<1>3. noted \in [Pipes -> PipeType]
  <2>1. CASE p \in Pipes
    <3>1. Notes(pipe[p], ok) \in PipeType
      BY <2>1, PipeOps DEF TypeOK
    <3> QED BY <3>1 DEF TypeOK
  <2>2. CASE p \notin Pipes
    BY <2>2 DEF TypeOK
  <2> QED BY <2>1, <2>2
<1> HIDE DEF noted
<1>4. pipe' \in [Pipes -> PipeType]
  <2>1. \A q \in Pipes : FreeParent(noted[q]) \in PipeType
    BY <1>3, PipeOps
  <2> QED BY <1>2, <1>3, <2>1 DEF FreeUser
<1>5. ended = [user EXCEPT ![u] = [user[u] EXCEPT !.at = "ended"]]
  BY DEF TypeOK
<1>6. [user[u] EXCEPT !.at = "ended"] \in UserType
  BY <1>1, UserRecords DEF Places
<1>7. ended \in [Users -> UserType]
  BY <1>5, <1>6 DEF TypeOK
<1>8. user' = ended /\ queue' = queue
  BY DEF EndedAs
<1> QED BY <1>2, <1>4, <1>7, <1>8 DEF TypeOK
-----------------------------------------------------------------------------
(***************************************************************************)
(* One user at work.                                                       *)
(***************************************************************************)
Rest == UserInv /\ PipeInv /\ OneActive /\ OneRefused

\* While a user is at work, every other one has not begun or has ended.
LEMMA Others ==
  ASSUME TypeOK, OneActive, NEW u \in Active, NEW v \in Users, v # u
  PROVE  user[v].at \in {"idle", "ended"}
  BY DEF OneActive, Active

\* In a synchronous client a call begins when no other is under way.
LEMMA NobodyActive ==
  ASSUME MaxActive = 1, Cardinality(Active) < MaxActive
  PROVE  Active = {}
<1>1. Active \in SUBSET Users
  BY DEF Active
<1>2. IsFiniteSet(Active)
  BY <1>1, DcomAssumption, FS_Subset
<1>3. Cardinality(Active) \in Nat
  BY <1>2, FS_CardinalityType
<1>4. Cardinality(Active) = 0
  BY <1>3
<1> QED BY <1>2, <1>4, FS_EmptySet

(***************************************************************************)
(* dcom_get_pipe_recv: the user takes pipe p in state q, which is new or   *)
(* the exporter's, and on which no call was shipped in a refused context.  *)
(***************************************************************************)
LEMMA TakeRest ==
  ASSUME TypeOK, Rest, NEW u \in Active, NEW p \in Pipes, NEW q \in PipeType,
         Take(u, p, q), user[u].at \notin {"sent", "lost"},
         q.state = "live", q.refs = 0, q.ctx \in {q.uuid, Refused},
         q.ctx \in {IfaceOf[u], Refused},
         \A r \in Pipes : pipe[r].state = "live" => r = p,
         \A v \in Users : v # u /\ user[v].shipped = Refused => user[v].p # p
  PROVE  TakenAs(u, p, q) /\ Rest'
<1>1. u \in Users /\ p # None
  BY DcomAssumption DEF Active
<1>2. \A v \in Users : v # u => user[v].at \in {"idle", "ended"}
  BY Others DEF Rest
<1>3. TakenAs(u, p, q)
  <2>1. \A v \in Users : v # u => user[v].at \notin {"sent", "altering"}
    BY <1>2
  <2>2. queue[p] = <<>>
    BY DEF Rest, PipeInv
  <2> QED BY <1>1, <2>1, <2>2, TakeWhat
<1>4. ox_pipe' = p /\ queue' = queue
  BY <1>3 DEF Take, TakenAs
<1>5. /\ user'[u].at \in {"sent", "lost"} /\ user'[u].p = p
      /\ user'[u].at = "sent" => user'[u].shipped = q.ctx
      /\ user'[u].at = "lost" => user'[u].shipped = user[u].shipped
      /\ \A v \in Users : v # u => user'[v] = user[v]
  <2> DEFINE x == [user[u] EXCEPT !.at = "sent", !.p = p, !.shipped = q.ctx]
             y == [user[u] EXCEPT !.at = "lost", !.p = p]
  <2>1. user \in [Users -> UserType] /\ user[u] \in UserType
    BY <1>1 DEF TypeOK
  <2>2. /\ x.at = "sent" /\ x.p = p /\ x.shipped = q.ctx
        /\ y.at = "lost" /\ y.p = p /\ y.shipped = user[u].shipped
    BY <2>1 DEF UserType
  <2>3. user' = [user EXCEPT ![u] = x] \/ user' = [user EXCEPT ![u] = y]
    BY <1>3 DEF TakenAs
  <2> HIDE DEF x, y
  <2> QED BY <1>1, <2>1, <2>2, <2>3
<1>50. user[u].shipped \in {None, IfaceOf[u]} /\ user[u].shipped # Refused
  BY <1>1 DEF Rest, UserInv, Active
<1>6. /\ pipe'[p].state = "live" /\ pipe'[p].parent = u /\ pipe'[p].refs = 1
      /\ pipe'[p].ctx = q.ctx /\ pipe'[p].uuid = q.uuid
      /\ \A r \in Pipes : r # p => pipe'[r] = pipe[r]
  BY DEF Take, Kept, TypeOK, PipeType
<1>7. \A v \in Users : user[v].p \in Pipes \cup {None}
  BY DEF TypeOK, UserType
<1>8. UserInv'
  <2>1. ASSUME NEW v \in Users, v # u
        PROVE  /\ user[v].p # None => pipe'[user[v].p].state # "none"
               /\ user[v].shipped = Refused => user[v].at = "ended" /\ user[v].p # None
                                               /\ pipe'[user[v].p].fault
    BY <1>2, <1>6, <1>7, <2>1 DEF Rest, UserInv
  <2>2. \A v \in Users : v # u =>
          /\ user[v].at \in {"idle", "connecting"} => user[v].p = None
          /\ user[v].shipped \in {None, Refused, IfaceOf[v]}
    BY DEF Rest, UserInv
  <2> QED BY <1>1, <1>2, <1>4, <1>5, <1>50, <1>6, <2>1, <2>2 DEF UserInv
<1>9. PipeInv'
  BY <1>1, <1>4, <1>5, <1>6 DEF Rest, PipeInv
<1>10. OneActive'
  BY <1>1, <1>2, <1>5 DEF OneActive, Active
<1>11. OneRefused'
  BY <1>1, <1>5, <1>50 DEF Rest, OneRefused
<1> QED BY <1>3, <1>8, <1>9, <1>10, <1>11 DEF Rest

\* A user that goes on with its pipe, as it was or altered, keeps Rest.
LEMMA ReadyRest ==
  ASSUME TypeOK, Rest, NEW u \in Users, Ready(u) \/ Altered(u)
  PROVE  TypeOK' /\ Rest'
<1> DEFINE p == user[u].p
           q == pipe[p]
<1>1. user[u].at \in {"ready", "altering"} /\ Take(u, p, q)
  BY DEF Ready, Altered
<1>2. u \in Active
  BY <1>1 DEF Active
<1>3. p = ox_pipe /\ p \in Pipes /\ q \in PipeType
  BY <1>1 DEF Rest, UserInv, TypeOK
<1>4. q.state = "live" /\ ~q.fault /\ q.uuid = IfaceOf[u] /\ q.ctx \in {q.uuid, Refused}
  BY <1>1, <1>3, DcomAssumption DEF Rest, UserInv, PipeInv
<1>5. \A v \in Users : v # u => user[v].at \in {"idle", "ended"}
  BY <1>2, Others DEF Rest
<1>6. q.refs = 0
  BY <1>1, <1>3, <1>4, <1>5 DEF Rest, PipeInv
<1>7. \A v \in Users : v # u /\ user[v].shipped = Refused => user[v].p # p
  BY <1>4, <1>5 DEF Rest, UserInv
<1>8. \A r \in Pipes : pipe[r].state = "live" => r = p
  BY <1>3 DEF Rest, PipeInv
<1>9. user[u].at \notin {"sent", "lost"}
  BY <1>1
<1> HIDE DEF p, q
<1>10. TakenAs(u, p, q) /\ Rest'
  BY <1>1, <1>2, <1>3, <1>4, <1>6, <1>7, <1>8, <1>9, TakeRest
<1>11. TypeOK'
  BY <1>1, <1>3, <1>10, TakeType
<1> QED BY <1>10, <1>11

\* So does one whose pipe was just opened,
LEMMA ConnectedRest ==
  ASSUME TypeOK, Rest, NEW u \in Users, NEW p \in Pipes, Connected(u, p)
  PROVE  TypeOK' /\ Rest'
<1>1. user[u].at = "connecting" /\ pipe[p].state = "none" /\ Take(u, p, Fresh(u))
  BY DEF Connected, Fresh
<1>2. u \in Active /\ user[u].at \notin {"sent", "lost"}
  BY <1>1 DEF Active
<1>3. \A r \in Pipes : pipe[r].state = "live" => r = p
  BY <1>1, DcomAssumption DEF Rest, UserInv, PipeInv
<1>4. \A v \in Users : v # u /\ user[v].shipped = Refused => user[v].p # p
  BY <1>1, DcomAssumption DEF Rest, UserInv
<1>5. /\ Fresh(u) \in PipeType /\ Fresh(u).state = "live" /\ Fresh(u).refs = 0
      /\ Fresh(u).ctx \in {Fresh(u).uuid, Refused}
      /\ Fresh(u).ctx \in {IfaceOf[u], Refused}
  BY FreshLemma
<1>6. TakenAs(u, p, Fresh(u)) /\ Rest'
  BY <1>1, <1>2, <1>3, <1>4, <1>5, TakeRest
<1>7. TypeOK'
  BY <1>1, <1>5, <1>6, TakeType
<1> QED BY <1>6, <1>7

\* A user that gives up leaves the pipes as they are, but for the context of
\* the one it has asked to alter.
LEMMA GiveUpRest ==
  ASSUME TypeOK, Rest, NEW u \in Active, GiveUp(u), user[u].at \notin {"sent", "lost"},
         \A r \in Pipes :
           /\ pipe'[r].state = pipe[r].state /\ pipe'[r].fault = pipe[r].fault
           /\ pipe'[r].uuid = pipe[r].uuid /\ pipe'[r].parent = pipe[r].parent
           /\ pipe'[r].refs = pipe[r].refs
           /\ pipe'[r].ctx \in {pipe[r].ctx, Refused}
  PROVE  Rest'
<1>1. u \in Users /\ \A v \in Users : v # u => user[v].at \in {"idle", "ended"}
  BY Others DEF Rest, Active
<1>2. /\ user'[u].at = "ended" /\ user'[u].p = user[u].p
      /\ user'[u].shipped = user[u].shipped
      /\ \A v \in Users : v # u => user'[v] = user[v]
  BY <1>1 DEF GiveUp, TypeOK, UserType
<1>3. ox_pipe' = ox_pipe /\ queue' = queue
  BY DEF GiveUp
<1>4. \A v \in Users : user[v].p \in Pipes \cup {None}
  BY DEF TypeOK, UserType
<1>5. ox_pipe \in Pipes \cup {None}
  BY DEF TypeOK
<1>6. user[u].shipped # Refused
  BY <1>1 DEF Rest, UserInv, Active
<1>7. UserInv'
  <2>1. ASSUME NEW v \in Users
        PROVE  /\ user[v].p # None => pipe'[user[v].p].state # "none"
               /\ user[v].shipped = Refused /\ user[v].p # None =>
                    pipe'[user[v].p].fault = pipe[user[v].p].fault
    BY <1>4 DEF Rest, UserInv
  <2>2. ASSUME NEW v \in Users, v # u
        PROVE  /\ user[v].shipped = Refused => user[v].at = "ended" /\ user[v].p # None
                                               /\ pipe[user[v].p].fault
               /\ user[v].at \in {"idle", "connecting"} => user[v].p = None
    BY <1>1, <2>2 DEF Rest, UserInv
  <2>3. \A v \in Users : user[v].shipped \in {None, Refused, IfaceOf[v]}
    BY DEF Rest, UserInv
  <2> QED BY <1>1, <1>2, <1>3, <1>6, <2>1, <2>2, <2>3 DEF UserInv
<1>8. PipeInv'
  <2>1. ox_pipe # None => pipe'[ox_pipe].state = "live"
    BY <1>5 DEF Rest, PipeInv
  <2>2. ASSUME NEW r \in Pipes, pipe'[r].state = "live"
        PROVE  /\ r = ox_pipe /\ pipe'[r].ctx \in {pipe'[r].uuid, Refused}
               /\ pipe'[r].parent = Owner /\ pipe'[r].refs = 0
    BY <1>1, <2>2 DEF Rest, PipeInv
  <2>3. \A r \in Pipes : queue[r] = <<>>
    BY DEF Rest, PipeInv
  <2> QED BY <1>3, <2>1, <2>2, <2>3 DEF PipeInv
<1>9. OneActive'
  BY <1>1, <1>2 DEF OneActive, Active
<1>10. OneRefused'
  BY <1>1, <1>2 DEF Rest, OneRefused
<1> QED BY <1>7, <1>8, <1>9, <1>10 DEF Rest

\* and one whose connect or alter failed.
LEMMA FailedRest ==
  ASSUME TypeOK, Rest, NEW u \in Users, ConnectFailed(u) \/ AlterFailed(u)
  PROVE  TypeOK' /\ Rest'
<1>1. GiveUp(u) /\ user[u].at \in {"connecting", "altering"}
  BY DEF ConnectFailed, AlterFailed
<1>2. u \in Active /\ user[u].at \notin {"sent", "lost"}
  BY <1>1 DEF Active
<1>3. CASE ConnectFailed(u)
  <2>1. pipe' = pipe
    BY <1>3 DEF ConnectFailed
  <2>2. TypeOK'
    BY <1>1, <2>1, GiveUpType DEF TypeOK
  <2>3. Rest'
    BY <1>1, <1>2, <2>1, GiveUpRest
  <2> QED BY <2>2, <2>3
<1>4. CASE AlterFailed(u)
  <2> DEFINE p == user[u].p
             c == IF pipe[p].cid = user[u].cid THEN Refused ELSE pipe[p].ctx
             q == [pipe[p] EXCEPT !.ctx = c]
  <2>1. p \in Pipes /\ pipe[p] \in PipeType
    BY <1>4 DEF AlterFailed, Rest, UserInv, TypeOK
  <2>2. c \in Ifaces \cup {None, Refused} /\ c \in {pipe[p].ctx, Refused}
    BY <2>1 DEF PipeType
  <2>3. pipe' = [pipe EXCEPT ![p] = q]
    BY <1>4, <2>1 DEF AlterFailed, TypeOK
  <2> HIDE DEF c
  <2>4. q \in PipeType
    BY <2>1, <2>2, PipeRecords, Zenon
  <2>5. /\ q.state = pipe[p].state /\ q.fault = pipe[p].fault /\ q.uuid = pipe[p].uuid
        /\ q.parent = pipe[p].parent /\ q.refs = pipe[p].refs /\ q.ctx = c
    BY <2>1, Zenon DEF PipeType
  <2> HIDE DEF q
  <2>6. TypeOK'
    BY <1>1, <2>1, <2>3, <2>4, GiveUpType DEF TypeOK
  <2>7. \A r \in Pipes : r # p => pipe'[r] = pipe[r]
    BY <2>3 DEF TypeOK
  <2>8. pipe'[p] = q
    BY <2>1, <2>3 DEF TypeOK
  <2>9. Rest'
    BY <1>1, <1>2, <2>2, <2>5, <2>7, <2>8, GiveUpRest
  <2> QED BY <2>6, <2>9
<1> QED BY <1>3, <1>4

(***************************************************************************)
(* dcom_get_pipe_send.  Nobody is at work, so the exporter is the parent   *)
(* of its pipe and freeing the pipe really frees it.                       *)
(***************************************************************************)
LEMMA GetPipeRest ==
  ASSUME TypeOK, Rest, MaxActive = 1, NEW u \in Users, GetPipe(u)
  PROVE  Rest'
<1>1. user[u].at = "idle" /\ Active = {} /\ queue' = queue
  BY NobodyActive DEF GetPipe
<1>2. \A v \in Users : user[v].at \in {"idle", "ended"}
  BY <1>1 DEF Active
<1>3. \A v \in Users : v # u => user'[v] = user[v]
  BY DEF GetPipe, TypeOK
<1>4. user'[u].shipped = user[u].shipped /\ user[u].shipped # Refused /\ user[u].p = None
  BY <1>1 DEF GetPipe, TypeOK, UserType, Rest, UserInv
<1>5. \A v \in Users : /\ user[v].shipped \in {None, Refused, IfaceOf[v]}
                       /\ user[v].p \in Pipes \cup {None}
                       /\ user[v].at = "idle" => user[v].p = None
                       /\ user[v].p # None => pipe[user[v].p].state # "none"
                       /\ user[v].shipped = Refused => /\ user[v].p # None
                                                       /\ pipe[user[v].p].fault
                                                       /\ user[v].at = "ended"
  BY <1>2 DEF Rest, UserInv, TypeOK, UserType
<1>6. \A r \in Pipes : pipe[r].state = "live" =>
        r = ox_pipe /\ pipe[r].parent = Owner /\ pipe[r].refs = 0
        /\ pipe[r].ctx \in {pipe[r].uuid, Refused}
  BY <1>2 DEF Rest, PipeInv
<1>7. /\ ox_pipe \in Pipes \cup {None} /\ None \notin Pipes
      /\ ox_pipe # None => pipe[ox_pipe].state = "live"
      /\ \A r \in Pipes : queue[r] = <<>>
  BY DcomAssumption DEF TypeOK, Rest, PipeInv
<1>8. OneRefused'
  BY <1>3, <1>4 DEF Rest, OneRefused
<1>9. CASE ox_pipe = None \/ Invalid(ox_pipe)
  <2>1. user'[u].at = "connecting" /\ user'[u].p = None /\ ox_pipe' = None
    BY <1>4, <1>9 DEF GetPipe, TypeOK, UserType
  <2>2. \A r \in Pipes : /\ pipe'[r].state # "live"
                         /\ pipe[r].state # "none" => pipe'[r].state # "none"
                         /\ pipe[r].fault => pipe'[r].fault
    <3>1. CASE ox_pipe = None
      BY <1>6, <1>7, <3>1 DEF GetPipe
    <3>2. CASE ox_pipe # None
      <4>1. pipe' = [pipe EXCEPT ![ox_pipe] = TallocFree(pipe[ox_pipe])]
        BY <1>9, <3>2 DEF GetPipe
      <4>2. ox_pipe \in Pipes /\ pipe[ox_pipe] \in PipeType /\ pipe[ox_pipe].refs = 0
        BY <1>6, <1>7, <3>2 DEF TypeOK
      <4>3. TallocFree(pipe[ox_pipe]) = [pipe[ox_pipe] EXCEPT !.state = "freed"]
        BY <4>2 DEF TallocFree
      <4>4. /\ TallocFree(pipe[ox_pipe]).state = "freed"
            /\ TallocFree(pipe[ox_pipe]).fault = pipe[ox_pipe].fault
        BY <4>2, <4>3, Zenon DEF PipeType
      <4> QED BY <1>6, <4>1, <4>2, <4>4 DEF TypeOK
    <3> QED BY <3>1, <3>2
  <2>3. UserInv'
    BY <1>2, <1>3, <1>4, <1>5, <2>1, <2>2 DEF UserInv
  <2>4. PipeInv'
    BY <1>1, <1>7, <2>1, <2>2 DEF PipeInv
  <2>5. OneActive'
    BY <1>2, <1>3 DEF OneActive, Active
  <2> QED BY <1>8, <2>3, <2>4, <2>5 DEF Rest
<1>10. CASE ox_pipe # None /\ ~Invalid(ox_pipe)
  <2>1. /\ ox_pipe' = ox_pipe /\ user'[u].p = ox_pipe
        /\ user'[u].at \in {"ready", "altering"}
    BY <1>10 DEF GetPipe, TypeOK, UserType
  <2>2. ox_pipe \in Pipes /\ pipe[ox_pipe] \in PipeType
    BY <1>7, <1>10 DEF TypeOK
  <2>3. /\ pipe'[ox_pipe].uuid = IfaceOf[u]
        /\ pipe'[ox_pipe].ctx \in {IfaceOf[u], Refused}
    BY <1>6, <1>7, <1>10, <2>2 DEF GetPipe, SameIface, TypeOK, PipeType
  <2>4. /\ pipe'[ox_pipe].state = pipe[ox_pipe].state
        /\ pipe'[ox_pipe].fault = pipe[ox_pipe].fault
        /\ pipe'[ox_pipe].parent = pipe[ox_pipe].parent
        /\ pipe'[ox_pipe].refs = pipe[ox_pipe].refs
    BY <1>10, <2>2 DEF GetPipe, TypeOK, PipeType
  <2>5. \A r \in Pipes : r # ox_pipe => pipe'[r] = pipe[r]
    BY <1>10, <2>2 DEF GetPipe, TypeOK
  <2>6. UserInv'
    <3>1. \A r \in Pipes : pipe'[r].state = pipe[r].state /\ pipe'[r].fault = pipe[r].fault
      BY <2>4, <2>5
    <3>2. ~pipe[ox_pipe].fault /\ pipe[ox_pipe].state = "live"
      BY <1>7, <1>10 DEF Invalid
    <3>3. ~pipe'[ox_pipe].fault /\ pipe'[ox_pipe].state # "none" /\ ox_pipe # None
      BY <1>10, <2>2, <3>1, <3>2
    <3>4. \A v \in Users : v # u =>
            /\ user[v].p # None => pipe'[user[v].p].state # "none"
            /\ user[v].shipped = Refused =>
                 user[v].at = "ended" /\ user[v].p # None /\ pipe'[user[v].p].fault
      BY <1>5, <3>1
    <3> QED BY <1>2, <1>3, <1>4, <1>5, <2>1, <2>3, <3>3, <3>4 DEF UserInv
  <2>7. PipeInv'
    BY <1>1, <1>6, <1>7, <1>10, <2>1, <2>2, <2>3, <2>4, <2>5 DEF PipeInv
  <2>8. OneActive'
    BY <1>2, <1>3 DEF OneActive, Active
  <2> QED BY <1>8, <2>6, <2>7, <2>8 DEF Rest
<1> QED BY <1>9, <1>10

(***************************************************************************)
(* The end of a call: its user gives the pipe back to the exporter, and a  *)
(* call shipped in a refused context leaves a fault.                       *)
(***************************************************************************)
LEMMA EndsRest ==
  ASSUME TypeOK, Rest, NEW u \in Users, NEW ok \in BOOLEAN, Ends(u, ok)
  PROVE  TypeOK' /\ Rest'
<1> DEFINE p == user[u].p
           noted == [pipe EXCEPT ![p] = Notes(pipe[p], ok)]
<1>0. user[u].at \in {"sent", "queued"} /\ user[u].at # "queued" /\ p = ox_pipe /\ p \in Pipes
  <2>1. user[u].at \in {"sent", "queued"}
    BY DEF Ends, ReplyEnds, NoReply
  <2> QED BY <2>1 DEF Rest, UserInv, TypeOK
<1>4. queue[p] = <<>>
  BY <1>0 DEF Rest, PipeInv
<1>40. EndedAs(u, ok)
  BY <1>0, <1>4, EndsWhat
<1>1. user[u].at = "sent" /\ u \in Active
  BY <1>0 DEF Active
<1>2. /\ p = ox_pipe /\ p \in Pipes /\ p # None /\ pipe[p] \in PipeType
      /\ pipe[p].parent = u /\ pipe[p].state = "live"
  BY <1>1, <1>40 DEF EndedAs, Rest, UserInv, TypeOK
<1>3. pipe[p].refs = 1 /\ pipe[p].ctx \in {pipe[p].uuid, Refused}
  BY <1>2, DcomAssumption DEF Rest, PipeInv
<1>5. TypeOK'
  BY <1>40, EndsType
<1>6. \A v \in Users : v # u => user[v].at \in {"idle", "ended"}
  BY <1>1, Others DEF Rest
<1>7. /\ ox_pipe' = ox_pipe /\ queue' = queue
      /\ user'[u].at = "ended" /\ user'[u].p = p /\ user'[u].shipped = user[u].shipped
      /\ \A v \in Users : v # u => user'[v] = user[v]
  BY <1>40 DEF EndedAs, TypeOK, UserType
<1>8. \A r \in Pipes : r # p => pipe'[r] = pipe[r]
  <2>1. pipe' = FreeUser(noted, u)
    BY <1>40 DEF EndedAs
  <2>2. \A r \in Pipes : r # p => noted[r] = pipe[r] /\ pipe[r].state # "live"
    BY <1>2 DEF TypeOK, Rest, PipeInv
  <2> QED BY <2>1, <2>2 DEF FreeUser
<1>9. /\ pipe'[p].state = "live" /\ pipe'[p].parent = Owner /\ pipe'[p].refs = 0
      /\ pipe'[p].ctx = pipe[p].ctx /\ pipe'[p].uuid = pipe[p].uuid
      /\ ~ok \/ pipe[p].fault => pipe'[p].fault
  <2> DEFINE q == Notes(pipe[p], ok)
  <2>1. q = [pipe[p] EXCEPT !.fault = pipe[p].fault \/ ~ok]
    BY DEF Notes
  <2>2. q \in PipeType
    BY <1>2, PipeOps
  <2>3. /\ q.state = "live" /\ q.parent = u /\ q.refs = 1
        /\ q.ctx = pipe[p].ctx /\ q.uuid = pipe[p].uuid
        /\ (~ok \/ pipe[p].fault => q.fault)
    BY <1>2, <1>3, <2>1, Zenon DEF PipeType
  <2>4. noted[p] = q
    BY <1>2 DEF TypeOK
  <2>5. pipe' = FreeUser(noted, u)
    BY <1>40 DEF EndedAs
  <2> HIDE DEF q, noted
  <2>6. pipe'[p] = FreeParent(q)
    BY <1>2, <2>3, <2>4, <2>5 DEF FreeUser
  <2>7. FreeParent(q) = [q EXCEPT !.refs = 0, !.parent = Owner]
    BY <2>3 DEF FreeParent
  <2> QED BY <2>2, <2>3, <2>6, <2>7 DEF PipeType
<1>10. user[u].shipped = Refused => pipe'[p].fault
  BY <1>9, <1>40 DEF EndedAs
<1>11. \A v \in Users : /\ user[v].shipped \in {None, Refused, IfaceOf[v]}
                        /\ user[v].p \in Pipes \cup {None}
                        /\ user[v].at = "idle" => user[v].p = None
                        /\ user[v].p # None => pipe[user[v].p].state # "none"
  BY DEF Rest, UserInv, TypeOK, UserType
<1>12. ASSUME NEW v \in Users, v # u, user[v].shipped = Refused
       PROVE  /\ user[v].p \in Pipes /\ pipe[user[v].p].fault /\ user[v].at = "ended"
              /\ user[v].p # None
  BY <1>6, <1>11, <1>12 DEF Rest, UserInv
<1>13. UserInv'
  <2>1. \A r \in Pipes : /\ pipe[r].state # "none" => pipe'[r].state # "none"
                         /\ pipe[r].fault => pipe'[r].fault
    BY <1>8, <1>9
  <2>2. pipe[p].state # "none"
    BY <1>2
  <2>3. \A v \in Users : v # u =>
          /\ user[v].p # None => pipe'[user[v].p].state # "none"
          /\ user[v].shipped = Refused =>
               user[v].at = "ended" /\ user[v].p # None /\ pipe'[user[v].p].fault
    BY <1>11, <1>12, <2>1
  <2> HIDE DEF p
  <2> QED BY <1>2, <1>6, <1>7, <1>10, <1>11, <2>1, <2>2, <2>3 DEF UserInv
<1>14. PipeInv'
  BY <1>2, <1>3, <1>7, <1>8, <1>9 DEF Rest, PipeInv
<1>15. OneActive'
  BY <1>6, <1>7 DEF OneActive, Active
<1>16. OneRefused'
  BY <1>7 DEF Rest, OneRefused
<1> QED BY <1>5, <1>13, <1>14, <1>15, <1>16 DEF Rest
-----------------------------------------------------------------------------
\* Initially there is no pipe and nobody is active.
LEMMA InitInv == Init => IndInv
<1> SUFFICES ASSUME Init PROVE IndInv
  OBVIOUS
<1> USE DEF Init
<1>1. NoPipe \in PipeType
  BY Zenon DEF NoPipe, PipeType
<1>2. NoUser \in UserType
  BY DEF NoUser, UserType, Places
<1>3. <<>> \in Seq(Users)
  BY EmptySeq
<1>4. TypeOK
  BY <1>1, <1>2, <1>3 DEF TypeOK
<1>5. \A p \in Pipes : pipe[p].state = "none" /\ queue[p] = <<>>
  BY DEF NoPipe
<1>6. \A u \in Users : user[u].at = "idle" /\ user[u].p = None /\ user[u].shipped = None
  BY DEF NoUser
<1>7. None # Refused /\ ox_pipe = None
  BY DcomAssumption
<1> HIDE DEF Init
<1> QED BY <1>4, <1>5, <1>6, <1>7
        DEF IndInv, UserInv, PipeInv, OneActive, Active, OneRefused

\* Every step keeps the inductive invariant.
LEMMA NextInv ==
  ASSUME MaxActive = 1
  PROVE  IndInv /\ [Next]_vars => IndInv'
<1> SUFFICES ASSUME IndInv, [Next]_vars PROVE IndInv'
  OBVIOUS
<1>1. TypeOK /\ Rest
  BY DEF IndInv, Rest
<1>2. TypeOK' /\ Rest'
  <2>1. ASSUME NEW u \in Users, GetPipe(u) PROVE TypeOK' /\ Rest'
    BY <1>1, <2>1, GetPipeType, GetPipeRest
  <2>2. ASSUME NEW u \in Users, Ready(u) \/ Altered(u) PROVE TypeOK' /\ Rest'
    BY <1>1, <2>2, ReadyRest
  <2>3. ASSUME NEW u \in Users, NEW p \in Pipes, Connected(u, p) PROVE TypeOK' /\ Rest'
    BY <1>1, <2>3, ConnectedRest
  <2>4. ASSUME NEW u \in Users, ConnectFailed(u) \/ AlterFailed(u) PROVE TypeOK' /\ Rest'
    BY <1>1, <2>4, FailedRest
  <2>5. ASSUME NEW u \in Users, NEW ok \in BOOLEAN, Ends(u, ok) PROVE TypeOK' /\ Rest'
    BY <1>1, <2>5, EndsRest
  <2>6. CASE UNCHANGED vars
    BY <1>1, <2>6 DEF vars, TypeOK, Rest, UserInv, PipeInv, OneActive, Active, OneRefused
  <2> QED BY <2>1, <2>2, <2>3, <2>4, <2>5, <2>6 DEF Next, Ends
<1> QED BY <1>2 DEF IndInv, Rest

\* IndInv holds in every state of a synchronous client.
LEMMA Invariance ==
  ASSUME MaxActive = 1
  PROVE  Spec => []IndInv
  BY InitInv, NextInv, PTL DEF Spec

\* In the synchronous client the records of pipes and calls keep their types.
THEOREM TypeCorrect ==
  ASSUME MaxActive = 1
  PROVE  Spec => []TypeOK
<1>1. IndInv => TypeOK
  BY DEF IndInv
<1> QED BY <1>1, Invariance, PTL

\* In the synchronous client no call ever waits on a pipe that was freed: the
\* references the exporter takes in dcom_get_pipe_recv outlive the user that
\* became the parent, and the pipe that dcom_get_pipe_send frees has no user.
THEOREM NoDanglingSafe ==
  ASSUME MaxActive = 1
  PROVE  Spec => []NoDangling
<1>1. IndInv => NoDangling
  BY DEF IndInv, NoDangling, Active, UserInv, PipeInv, TypeOK, UserType, Places
<1> QED BY <1>1, Invariance, PTL

\* In the synchronous client no pipe is lost: of all the pipes ever connected
\* only the exporter's is live, whatever calls and alters have failed.
THEOREM NoLeakSafe ==
  ASSUME MaxActive = 1
  PROVE  Spec => []NoLeak
<1>1. IndInv => NoLeak
  BY DEF IndInv, NoLeak, PipeInv
<1> QED BY <1>1, Invariance, PTL

\* In the synchronous client a request is shipped in the presentation context
\* of its own interface or in one that the server has refused, where no method
\* runs (reuse_existing_pipe notes the interface before the server answers).
THEOREM RightContextSafe ==
  ASSUME MaxActive = 1
  PROVE  Spec => []RightContext
<1>1. IndInv => RightContext
  BY DEF IndInv, RightContext, UserInv
<1> QED BY <1>1, Invariance, PTL

\* In the synchronous client an alter that the server refused makes at most
\* one later call fail: the fault it leaves makes dcom_get_pipe_send drop the
\* pipe.
THEOREM RefusedOnceSafe ==
  ASSUME MaxActive = 1
  PROVE  Spec => []RefusedOnce
<1>1. ASSUME IndInv PROVE RefusedOnce
  <2> SUFFICES ASSUME NEW p \in Pipes
               PROVE  Cardinality({u \in Users : user[u].p = p
                                                 /\ user[u].shipped = Refused}) <= 1
    BY DEF RefusedOnce
  <2> DEFINE S == {u \in Users : user[u].p = p /\ user[u].shipped = Refused}
  <2>1. \A u, v \in S : u = v
    BY <1>1, DcomAssumption DEF IndInv, OneRefused
  <2>2. CASE S = {}
    BY <2>2, FS_EmptySet
  <2>3. CASE S # {}
    <3>1. PICK x \in S : S = {x}
      BY <2>1, <2>3
    <3>2. Cardinality(S) = 1
      BY <3>1, FS_Singleton
    <3> QED BY <3>2
  <2> QED BY <2>2, <2>3
<1>2. IndInv => RefusedOnce
  BY <1>1
<1> QED BY <1>2, Invariance, PTL
=============================================================================
