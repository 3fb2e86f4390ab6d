------------------------- MODULE DcomActivateProofs -------------------------
(***************************************************************************)
(* Safety of remote activation for any number of activations, exporters    *)
(* and interface pointer ids.                                              *)
(***************************************************************************)
EXTENDS DcomActivate, TLAPS

(***************************************************************************)
(* The inductive invariant.  An activation whose owner has been told is    *)
(* freed, with its immediate events: nothing is left that could tell the   *)
(* owner again.  An activation that returned an object left an IRemUnknown *)
(* with the object's exporter.                                             *)
(***************************************************************************)
ToldIsFreed ==
  \A a \in Acts :
    /\ act[a].at = "freed" => act[a].told = 1 /\ act[a].triggers = 0
    /\ act[a].at # "freed" => act[a].told = 0

ObjectReleasable ==
  ~abused => \A a \in Acts : act[a].oxid # None =>
               ox[act[a].oxid].by # None /\ ox[act[a].oxid].rem_unknown # None

IndInv ==
  /\ TypeOK
  /\ ToldIsFreed
  /\ ObjectReleasable
  /\ RemUnknownFresh

\* What an end does to an activation that is not freed: the owner is told at
\* most once, and an activation that is freed has no immediate event left.
LEMMA CompletedLemma ==
  ASSUME NEW a \in Acts, NEW q \in ActType, NEW good \in BOOLEAN,
         q.at # "freed", q.told = 0
  PROVE  LET r == Completed(q, a, good) IN
         /\ r \in ActType
         /\ r.oxid = q.oxid
         /\ r.at = "freed" => r.told = 1 /\ r.triggers = 0
         /\ r.at # "freed" => r.told = 0
<1> DEFINE r == Completed(q, a, good)
<1>1. CASE a \in SyncActs
  <2>1. r = [q EXCEPT !.at = "complete", !.ok = good]
    BY <1>1 DEF Completed
  <2>2. r \in ActType
    BY <2>1 DEF ActType
  <2>3. r.at = "complete" /\ r.oxid = q.oxid /\ r.told = q.told
    BY <2>1 DEF ActType
  <2> QED BY <2>2, <2>3
<1>2. CASE a \notin SyncActs
  <2>1. r = [q EXCEPT !.at = "freed", !.ok = good, !.told = 1, !.triggers = 0]
    BY <1>2 DEF Completed
  <2>2. r \in ActType
    <3>1. q.oxid \in Oxids \cup {None}
      BY DEF ActType
    <3>2. r = [at |-> "freed", ok |-> good, triggers |-> 0, told |-> 1,
               oxid |-> q.oxid]
      BY <2>1 DEF ActType
    <3> HIDE DEF r
    <3> QED BY <3>1, <3>2 DEF ActType
  <2>3. r.at = "freed" /\ r.oxid = q.oxid /\ r.told = 1 /\ r.triggers = 0
    BY <2>1 DEF ActType
  <2> QED BY <2>2, <2>3
<1> QED BY <1>1, <1>2

\* The IRemUnknown of an exporter after a reply is the one of that reply.
LEMMA RemUnknownLemma ==
  ASSUME NEW old, NEW ipid \in Ipids
  PROVE  RemUnknown(old, ipid) = ipid
  BY ActsAssumption DEF RemUnknown, Kept

\* Initially nothing is under way.
LEMMA InitInv == Init => IndInv
<1> SUFFICES ASSUME Init PROVE IndInv
  OBVIOUS
<1>1. NoAct \in ActType
  BY DEF NoAct, ActType
<1>2. NoExporter \in ExporterType
  BY DEF NoExporter, ExporterType
<1>3. TypeOK
  BY <1>1, <1>2 DEF Init, TypeOK
<1>4. ToldIsFreed /\ ObjectReleasable
  BY DEF Init, ToldIsFreed, ObjectReleasable, NoAct
<1>5. RemUnknownFresh
  BY DEF Init, RemUnknownFresh, NoExporter
<1> QED BY <1>3, <1>4, <1>5 DEF IndInv

\* A step that leaves the exporters alone and takes one activation to a state
\* in which ToldIsFreed holds, with the same object, keeps the invariant.
LEMMA LocalStep ==
  ASSUME IndInv, ~abused, UNCHANGED <<ox, latest>>, abused' \in BOOLEAN,
         NEW a \in Acts, NEW r \in ActType,
         act' = [act EXCEPT ![a] = r],
         r.oxid = act[a].oxid,
         r.at = "freed" => r.told = 1 /\ r.triggers = 0,
         r.at # "freed" => r.told = 0
  PROVE  IndInv'
<1>1. TypeOK'
  BY DEF IndInv, TypeOK
<1>2. ToldIsFreed'
  BY DEF IndInv, TypeOK, ToldIsFreed
<1>3. ObjectReleasable'
  BY DEF IndInv, TypeOK, ObjectReleasable
<1>4. RemUnknownFresh'
  BY DEF IndInv, RemUnknownFresh
<1> QED BY <1>1, <1>2, <1>3, <1>4 DEF IndInv

\* Fails keeps the invariant.
LEMMA FailsStep ==
  ASSUME IndInv, ~abused, UNCHANGED <<ox, latest>>, NEW a \in Acts,
         act[a].at # "freed", Fails(a)
  PROVE  IndInv'
<1> DEFINE r == Completed(act[a], a, FALSE)
<1>1. act[a] \in ActType /\ act[a].told = 0
  BY DEF IndInv, TypeOK, ToldIsFreed
<1>2. /\ r \in ActType /\ r.oxid = act[a].oxid
      /\ r.at = "freed" => r.told = 1 /\ r.triggers = 0
      /\ r.at # "freed" => r.told = 0
  BY <1>1, CompletedLemma
<1>3. act' = [act EXCEPT ![a] = r]
  BY DEF Fails
<1>4. abused' = abused
  BY DEF Fails
<1>5. abused \in BOOLEAN
  BY DEF IndInv, TypeOK
<1>6. abused' \in BOOLEAN
  BY <1>4, <1>5, Zenon
<1>7. ~abused'
  BY <1>4, Zenon
<1> HIDE DEF r
<1> QED BY <1>2, <1>3, <1>6, <1>7, LocalStep

\* GoesOn keeps the invariant.
LEMMA GoesOnStep ==
  ASSUME IndInv, ~abused, UNCHANGED <<ox, latest>>, NEW a \in Acts, NEW step \in Steps,
         act[a].at # "freed", GoesOn(a, step)
  PROVE  IndInv'
<1> DEFINE r == [act[a] EXCEPT !.at = step]
<1>1. act[a] \in ActType /\ act[a].told = 0
  BY DEF IndInv, TypeOK, ToldIsFreed
<1>2. r \in ActType
  BY <1>1 DEF ActType
<1>3. r.oxid = act[a].oxid /\ r.told = 0 /\ r.at # "freed"
  BY <1>1 DEF ActType, Steps
<1>4. act' = [act EXCEPT ![a] = r]
  BY DEF GoesOn
<1>5. abused' = abused
  BY DEF GoesOn
<1>6. abused \in BOOLEAN
  BY DEF IndInv, TypeOK
<1>7. abused' \in BOOLEAN
  BY <1>5, <1>6, Zenon
<1>8. ~abused'
  BY <1>5, Zenon
<1> HIDE DEF r
<1> QED BY <1>2, <1>3, <1>4, <1>7, <1>8, LocalStep

\* The reply to RemoteActivation is the only step that changes an exporter.
LEMMA ReplyStep ==
  ASSUME IndInv, NEW a \in Acts, NEW o \in Oxids, NEW ipid \in Ipids,
         NEW result \in Results, ActivationComplete(a, o, ipid, result)
  PROVE  IndInv'
<1> DEFINE q == [act[a] EXCEPT !.oxid = IF result = "object" THEN o ELSE None]
           good == result # "error"
           r == Completed(q, a, good)
<1>1. act[a] \in ActType /\ act[a].at = "activate" /\ act[a].told = 0 /\ ~abused
  BY DEF IndInv, TypeOK, ToldIsFreed, ActivationComplete
<1>2. latest' = [latest EXCEPT ![o] = ipid] /\ ipid # None
  BY ActsAssumption DEF ActivationComplete
<1>3. CASE result # "object" /\ Kept(ox[o].rem_unknown, ipid) = None
  <2>1. abused' = TRUE
    BY <1>3 DEF ActivationComplete
  <2>2. ox' = [ox EXCEPT ![o].rem_unknown = None] /\ act' = act
    BY <1>3 DEF ActivationComplete
  <2>3. ox' \in [Oxids -> ExporterType]
    BY <2>2 DEF IndInv, TypeOK, ExporterType
  <2>4. TypeOK'
    BY <1>2, <2>1, <2>2, <2>3 DEF IndInv, TypeOK
  <2>5. ToldIsFreed'
    BY <2>2 DEF IndInv, ToldIsFreed
  <2>6. ObjectReleasable' /\ RemUnknownFresh'
    BY <2>1 DEF ObjectReleasable, RemUnknownFresh
  <2> QED BY <2>4, <2>5, <2>6 DEF IndInv
<1>4. CASE ~(result # "object" /\ Kept(ox[o].rem_unknown, ipid) = None)
  <2>1. abused' = abused
    BY <1>4 DEF ActivationComplete
  <2>2. ~abused' /\ abused' \in BOOLEAN
    BY <1>1, <2>1, Zenon DEF IndInv, TypeOK
  <2>3. act' = [act EXCEPT ![a] = r]
    BY <1>4 DEF ActivationComplete
  <2>4. ox' = [ox EXCEPT ![o] = [by |-> a, rem_unknown |-> ipid]]
    BY <1>4, RemUnknownLemma DEF ActivationComplete
  <2>5. q \in ActType /\ q.at # "freed" /\ q.told = 0 /\ q.oxid \in {o, None}
    BY <1>1 DEF ActType
  <2>6. good \in BOOLEAN
    OBVIOUS
  <2>7. /\ r \in ActType /\ r.oxid \in {o, None}
        /\ r.at = "freed" => r.told = 1 /\ r.triggers = 0
        /\ r.at # "freed" => r.told = 0
    <3> HIDE DEF q, good
    <3> QED BY <2>5, <2>6, CompletedLemma
  <2> HIDE DEF r
  <2>8. TypeOK'
    <3>1. [by |-> a, rem_unknown |-> ipid] \in ExporterType
      BY DEF ExporterType
    <3>2. ox' \in [Oxids -> ExporterType]
      BY <2>4, <3>1 DEF IndInv, TypeOK
    <3>3. act' \in [Acts -> ActType]
      BY <2>3, <2>7 DEF IndInv, TypeOK
    <3>4. latest' \in [Oxids -> Ipids \cup {None}]
      BY <1>2 DEF IndInv, TypeOK
    <3> QED BY <2>2, <3>2, <3>3, <3>4 DEF TypeOK
  <2>9. ToldIsFreed'
    BY <2>3, <2>7 DEF IndInv, TypeOK, ToldIsFreed
  <2>10. ox'[o].by # None /\ ox'[o].rem_unknown = ipid /\ latest'[o] = ipid
    BY <1>2, <2>4, ActsAssumption DEF IndInv, TypeOK
  <2>11. ASSUME NEW p \in Oxids, p # o
         PROVE  ox'[p] = ox[p] /\ latest'[p] = latest[p]
    BY <1>2, <2>4, <2>11 DEF IndInv, TypeOK
  <2>12. RemUnknownFresh'
    BY <1>1, <2>2, <2>10, <2>11 DEF IndInv, RemUnknownFresh
  <2>13. ObjectReleasable'
    <3> SUFFICES ASSUME NEW b \in Acts, act'[b].oxid # None
                 PROVE  ox'[act'[b].oxid].by # None /\ ox'[act'[b].oxid].rem_unknown # None
      BY DEF ObjectReleasable
    <3>1. CASE b = a
      BY <1>2, <2>3, <2>7, <2>10, <3>1 DEF IndInv, TypeOK
    <3>2. CASE b # a
      <4>1. act'[b].oxid = act[b].oxid /\ act[b].oxid \in Oxids
        BY <2>3, <3>2 DEF IndInv, TypeOK, ActType
      <4>2. CASE act[b].oxid = o
        BY <1>2, <2>10, <4>1, <4>2
      <4>3. CASE act[b].oxid # o
        BY <1>1, <2>11, <4>1, <4>3 DEF IndInv, ObjectReleasable
      <4> QED BY <4>2, <4>3
    <3> QED BY <3>1, <3>2
  <2> QED BY <2>8, <2>9, <2>12, <2>13 DEF IndInv
<1> QED BY <1>3, <1>4

\* Every step keeps the invariant.
LEMMA NextInv == IndInv /\ [Next]_vars => IndInv'
<1> SUFFICES ASSUME IndInv, [Next]_vars PROVE IndInv'
  OBVIOUS
<1>0. abused \in BOOLEAN /\ \A a \in Acts : act[a] \in ActType
  BY DEF IndInv, TypeOK
<1>1. ASSUME NEW a \in Acts, NEW valid \in BOOLEAN, ActivateSend(a, valid)
      PROVE  IndInv'
  <2> DEFINE r == [act[a] EXCEPT !.at = IF valid THEN "connect" ELSE "failed",
                                 !.triggers = IF valid THEN 0 ELSE Triggers]
  <2>1. act[a] \in ActType /\ act[a].told = 0
    BY <1>0, <1>1 DEF IndInv, ToldIsFreed, ActivateSend
  <2>2. act' = [act EXCEPT ![a] = r]
    BY <1>1 DEF ActivateSend
  <2>3. r \in ActType
    BY <2>1 DEF ActType, Steps, Triggers
  <2>4. r.oxid = act[a].oxid /\ r.told = 0 /\ r.at # "freed"
    BY <2>1 DEF ActType
  <2>5. ~abused /\ abused' = abused /\ UNCHANGED <<ox, latest>>
    BY <1>1 DEF ActivateSend
  <2>6. ~abused' /\ abused' \in BOOLEAN
    BY <1>0, <2>5, Zenon
  <2> HIDE DEF r
  <2> QED BY <2>2, <2>3, <2>4, <2>5, <2>6, LocalStep
<1>2. ASSUME NEW a \in Acts, Trigger(a)
      PROVE  IndInv'
  <2> DEFINE q == [act[a] EXCEPT !.triggers = act[a].triggers - 1]
             r == Completed(q, a, FALSE)
  <2>1. act[a] \in ActType /\ act[a].at # "freed" /\ act[a].told = 0 /\ act[a].triggers > 0
    BY <1>0, <1>2 DEF IndInv, ToldIsFreed, Trigger
  <2>2. q \in ActType /\ q.at # "freed" /\ q.told = 0 /\ q.oxid = act[a].oxid
    BY <2>1 DEF ActType
  <2>3. act' = [act EXCEPT ![a] = r]
    BY <1>2 DEF Trigger
  <2>4. /\ r \in ActType /\ r.oxid = act[a].oxid
        /\ r.at = "freed" => r.told = 1 /\ r.triggers = 0
        /\ r.at # "freed" => r.told = 0
    <3> HIDE DEF q
    <3> QED BY <2>2, CompletedLemma
  <2>5. ~abused /\ abused' = abused /\ UNCHANGED <<ox, latest>>
    BY <1>2 DEF Trigger
  <2>6. ~abused' /\ abused' \in BOOLEAN
    BY <1>0, <2>5, Zenon
  <2> HIDE DEF r
  <2> QED BY <2>3, <2>4, <2>5, <2>6, LocalStep
<1>3. ASSUME NEW a \in Acts, NEW good \in BOOLEAN, BindingContinue(a, good)
      PROVE  IndInv'
  <2>1. ~abused /\ act[a].at # "freed" /\ UNCHANGED <<ox, latest>>
    BY <1>3 DEF BindingContinue
  <2>2. CASE GoesOn(a, "alive")
    BY <2>1, <2>2, GoesOnStep DEF Steps
  <2>3. CASE Fails(a)
    BY <2>1, <2>3, FailsStep
  <2> QED BY <1>3, <2>2, <2>3 DEF BindingContinue
<1>4. ASSUME NEW a \in Acts, NEW answer, BindingContinue2(a, answer)
      PROVE  IndInv'
  <2>1. ~abused /\ act[a].at # "freed" /\ UNCHANGED <<ox, latest>>
    BY <1>4 DEF BindingContinue2
  <2>2. CASE Fails(a)
    BY <2>1, <2>2, FailsStep
  <2>3. CASE GoesOn(a, "reconnect")
    BY <2>1, <2>3, GoesOnStep DEF Steps
  <2>4. CASE /\ act' = [act EXCEPT ![a] = Completed(@, a, FALSE)]
             /\ abused' = (a \notin SyncActs)
    <3> DEFINE c == Completed(act[a], a, FALSE)
    <3>1. act[a] \in ActType /\ act[a].told = 0
      BY <1>0, <2>1 DEF IndInv, ToldIsFreed
    <3>2. /\ c \in ActType /\ c.oxid = act[a].oxid
          /\ c.at = "freed" => c.told = 1 /\ c.triggers = 0
          /\ c.at # "freed" => c.told = 0
      BY <2>1, <3>1, CompletedLemma
    <3>3. act' = [act EXCEPT ![a] = c]
      BY <2>4
    <3>4. abused' \in BOOLEAN
      BY <2>4, Zenon
    <3> HIDE DEF c
    <3> QED BY <2>1, <3>2, <3>3, <3>4, LocalStep
  <2> QED BY <1>4, <2>2, <2>3, <2>4 DEF BindingContinue2
<1>5. ASSUME NEW a \in Acts, NEW good \in BOOLEAN, ActivationContinue(a, good)
      PROVE  IndInv'
  <2>1. ~abused /\ act[a].at # "freed" /\ UNCHANGED <<ox, latest>>
    BY <1>5 DEF ActivationContinue
  <2>2. CASE GoesOn(a, "activate")
    BY <2>1, <2>2, GoesOnStep DEF Steps
  <2>3. CASE Fails(a)
    BY <2>1, <2>3, FailsStep
  <2> QED BY <1>5, <2>2, <2>3 DEF ActivationContinue
<1>6. ASSUME NEW a \in Acts, ActivationFailed(a)
      PROVE  IndInv'
  <2>1. ~abused /\ act[a].at # "freed" /\ Fails(a) /\ UNCHANGED <<ox, latest>>
    BY <1>6 DEF ActivationFailed
  <2> QED BY <2>1, FailsStep
<1>7. ASSUME NEW a \in Acts, Recv(a)
      PROVE  IndInv'
  <2> DEFINE r == [act[a] EXCEPT !.at = "freed", !.told = act[a].told + 1, !.triggers = 0]
  <2>1. act[a] \in ActType /\ act[a].told = 0
    BY <1>0, <1>7 DEF IndInv, ToldIsFreed, Recv
  <2>2. act' = [act EXCEPT ![a] = r]
    BY <1>7 DEF Recv
  <2>3. r \in ActType
    <3>1. r = [act[a] EXCEPT !.at = "freed", !.told = 1, !.triggers = 0]
      BY <2>1
    <3> HIDE DEF r
    <3> QED BY <2>1, <3>1 DEF ActType
  <2>4. r.oxid = act[a].oxid /\ r.told = 1 /\ r.triggers = 0 /\ r.at = "freed"
    BY <2>1 DEF ActType
  <2>5. ~abused /\ abused' = abused /\ UNCHANGED <<ox, latest>>
    BY <1>7 DEF Recv
  <2>6. ~abused' /\ abused' \in BOOLEAN
    BY <1>0, <2>5, Zenon
  <2> HIDE DEF r
  <2> QED BY <2>2, <2>3, <2>4, <2>5, <2>6, LocalStep
<1>8. CASE UNCHANGED vars
  <2>1. act' = act /\ ox' = ox /\ latest' = latest /\ abused' = abused
    BY <1>8 DEF vars
  <2> QED BY <2>1, Zenon DEF IndInv, TypeOK, ToldIsFreed, ObjectReleasable,
          RemUnknownFresh
<1> QED BY <1>1, <1>2, <1>3, <1>4, <1>5, <1>6, <1>7, <1>8, ReplyStep DEF Next

\* Every reachable state satisfies the inductive invariant.
THEOREM ActivationInvariance == Spec => []IndInv
<1> QED BY InitInv, NextInv, PTL DEF Spec

\* The owner of an activation is told of its end at most once, whatever fails
\* and whatever immediate events are scheduled (complete_activation,
\* dcom_activate_recv).
THEOREM OwnerToldOnce == Spec => []ToldOnce
<1>1. IndInv => ToldOnce
  <2> SUFFICES ASSUME IndInv, NEW a \in Acts PROVE act[a].told <= 1
    BY DEF ToldOnce
  <2>1. act[a].told = 0 \/ act[a].told = 1
    BY DEF IndInv, ToldIsFreed
  <2> QED BY <2>1
<1> QED BY <1>1, ActivationInvariance, PTL

\* An object that an owner has got stays usable while other activations change
\* its exporter (remote_activation_complete).
THEOREM ObjectStaysUsable == Spec => []UsableObject
<1>1. IndInv => UsableObject
  BY DEF IndInv, ObjectReleasable, UsableObject
<1> QED BY <1>1, ActivationInvariance, PTL

\* An exporter's IRemUnknown is the one of the last reply.
THEOREM RemUnknownIsFresh == Spec => []RemUnknownFresh
<1>1. IndInv => RemUnknownFresh
  BY DEF IndInv
<1> QED BY <1>1, ActivationInvariance, PTL

-----------------------------------------------------------------------------
(***************************************************************************)
(* The safety half of EveryOwnerTold.                                      *)
(***************************************************************************)
\* An owner that was not told has something left that will tell it: a connect or a
\* call under way, an immediate event, or itself, waiting in composite_wait.
StillComing ==
  \A a \in Acts : act[a].told = 0 =>
    \/ act[a].at \in Steps \cup {"idle"}
    \/ act[a].at = "failed" /\ act[a].triggers > 0
    \/ act[a].at = "complete" /\ a \in SyncActs

\* The same of each activation: an early failure keeps an event until it has ended,
\* and only a waiting owner has a context that has ended and is not freed.
Coming(q, a) ==
  /\ q.at = "failed" => q.triggers > 0
  /\ q.at = "complete" => a \in SyncActs

ComingInv == \A a \in Acts : Coming(act[a], a)

\* One activation changes.
LEMMA ComingStep ==
  ASSUME IndInv, ComingInv, NEW a \in Acts, NEW r, act' = [act EXCEPT ![a] = r],
         Coming(r, a)
  PROVE  ComingInv'
<1>1. \A b \in Acts : act'[b] = IF b = a THEN r ELSE act[b]
  BY DEF IndInv, TypeOK
<1> QED BY <1>1 DEF ComingInv, Coming

\* The end of an inner context.
LEMMA CompletedComing ==
  ASSUME NEW a \in Acts, NEW q \in ActType, NEW good \in BOOLEAN
  PROVE  Coming(Completed(q, a, good), a) /\ Completed(q, a, good).at # "failed"
<1> DEFINE r == Completed(q, a, good)
<1>1. CASE a \in SyncActs
  <2>1. r.at = "complete"
    BY <1>1 DEF Completed, ActType
  <2> HIDE DEF r
  <2> QED BY <1>1, <2>1 DEF Coming, r
<1>2. CASE a \notin SyncActs
  <2>1. r.at = "freed"
    BY <1>2 DEF Completed, ActType
  <2> QED BY <2>1 DEF Coming
<1> QED BY <1>1, <1>2

\* Every step keeps it.
LEMMA NextComing == IndInv /\ ComingInv /\ [Next]_vars => ComingInv'
<1> SUFFICES ASSUME IndInv, ComingInv, [Next]_vars PROVE ComingInv'
  OBVIOUS
<1>0. \A a \in Acts : act[a] \in ActType
  BY DEF IndInv, TypeOK
<1>1. ASSUME NEW a \in Acts, Fails(a) PROVE ComingInv'
  <2> DEFINE r == Completed(act[a], a, FALSE)
  <2>1. act' = [act EXCEPT ![a] = r] /\ Coming(r, a)
    BY <1>0, <1>1, CompletedComing DEF Fails
  <2> HIDE DEF r
  <2> QED BY <2>1, ComingStep
<1>2. ASSUME NEW a \in Acts, NEW step \in Steps, GoesOn(a, step) PROVE ComingInv'
  <2> DEFINE r == [act[a] EXCEPT !.at = step]
  <2>1. r.at = step /\ step # "failed" /\ step # "complete"
    BY <1>0, <1>2 DEF ActType, Steps
  <2>2. act' = [act EXCEPT ![a] = r]
    BY <1>2 DEF GoesOn
  <2> HIDE DEF r
  <2> QED BY <2>1, <2>2, ComingStep DEF Coming
<1>3. ASSUME NEW a \in Acts, NEW valid \in BOOLEAN, ActivateSend(a, valid)
      PROVE  ComingInv'
  <2> DEFINE r == [act[a] EXCEPT !.at = IF valid THEN "connect" ELSE "failed",
                                 !.triggers = IF valid THEN 0 ELSE Triggers]
  <2>1. act' = [act EXCEPT ![a] = r]
    BY <1>3 DEF ActivateSend
  <2>2. r.at # "complete" /\ (r.at = "failed" => r.triggers = 2)
    BY <1>0 DEF ActType, Triggers
  <2> HIDE DEF r
  <2>3. Coming(r, a)
    <3>1. 2 > 0
      OBVIOUS
    <3> QED BY <2>2, <3>1, Zenon DEF Coming
  <2> QED BY <2>1, <2>3, ComingStep
<1>4. ASSUME NEW a \in Acts, Trigger(a) PROVE ComingInv'
  <2> DEFINE q == [act[a] EXCEPT !.triggers = act[a].triggers - 1]
             r == Completed(q, a, FALSE)
  <2>1. act[a] \in ActType /\ act[a].triggers > 0
    BY <1>0, <1>4 DEF Trigger
  <2>2. q \in ActType
    BY <2>1 DEF ActType
  <2>3. act' = [act EXCEPT ![a] = r]
    BY <1>4 DEF Trigger
  <2> HIDE DEF q
  <2>4. Coming(r, a)
    BY <2>2, CompletedComing
  <2> HIDE DEF r
  <2> QED BY <2>3, <2>4, ComingStep
<1>5. ASSUME NEW a \in Acts, NEW good \in BOOLEAN, BindingContinue(a, good)
      PROVE  ComingInv'
  <2>1. GoesOn(a, "alive") \/ Fails(a)
    BY <1>5 DEF BindingContinue
  <2>2. "alive" \in Steps
    BY DEF Steps
  <2> QED BY <1>1, <1>2, <2>1, <2>2
<1>6. ASSUME NEW a \in Acts, NEW answer, BindingContinue2(a, answer)
      PROVE  ComingInv'
  <2>1. CASE Fails(a)
    BY <1>1, <2>1
  <2>2. CASE GoesOn(a, "reconnect")
    BY <1>2, <2>2 DEF Steps
  <2>3. CASE act' = [act EXCEPT ![a] = Completed(@, a, FALSE)]
    <3> DEFINE c == Completed(act[a], a, FALSE)
    <3>1. act' = [act EXCEPT ![a] = c]
      BY <2>3
    <3>2. Coming(c, a)
      BY <1>0, CompletedComing
    <3> HIDE DEF c
    <3> QED BY <3>1, <3>2, ComingStep
  <2> QED BY <1>6, <2>1, <2>2, <2>3 DEF BindingContinue2
<1>7. ASSUME NEW a \in Acts, NEW good \in BOOLEAN, ActivationContinue(a, good)
      PROVE  ComingInv'
  <2>1. GoesOn(a, "activate") \/ Fails(a)
    BY <1>7 DEF ActivationContinue
  <2>2. "activate" \in Steps
    BY DEF Steps
  <2> QED BY <1>1, <1>2, <2>1, <2>2
<1>8. ASSUME NEW a \in Acts, ActivationFailed(a) PROVE ComingInv'
  BY <1>1, <1>8 DEF ActivationFailed
<1>9. ASSUME NEW a \in Acts, NEW o \in Oxids, NEW ipid \in Ipids, NEW result \in Results,
             ActivationComplete(a, o, ipid, result)
      PROVE  ComingInv'
  <2> DEFINE q == [act[a] EXCEPT !.oxid = IF result = "object" THEN o ELSE None]
             good == result # "error"
             r == Completed(q, a, good)
  <2>1. act' = act \/ act' = [act EXCEPT ![a] = r]
    BY <1>9 DEF ActivationComplete
  <2>2. q \in ActType /\ good \in BOOLEAN
    BY <1>0 DEF ActType
  <2> HIDE DEF q, good
  <2>3. Coming(r, a)
    BY <2>2, CompletedComing
  <2> HIDE DEF r
  <2>4. CASE act' = act
    BY <2>4 DEF ComingInv
  <2>5. CASE act' = [act EXCEPT ![a] = r]
    BY <2>3, <2>5, ComingStep
  <2> QED BY <2>1, <2>4, <2>5
<1>10. ASSUME NEW a \in Acts, Recv(a) PROVE ComingInv'
  <2> DEFINE r == [act[a] EXCEPT !.at = "freed", !.told = act[a].told + 1, !.triggers = 0]
  <2>1. act' = [act EXCEPT ![a] = r]
    BY <1>10 DEF Recv
  <2>2. r.at = "freed"
    BY <1>0 DEF ActType
  <2> HIDE DEF r
  <2> QED BY <2>1, <2>2, ComingStep DEF Coming
<1>11. CASE UNCHANGED vars
  BY <1>11 DEF vars, ComingInv
<1> QED BY <1>3, <1>4, <1>5, <1>6, <1>7, <1>8, <1>9, <1>10, <1>11 DEF Next

\* No owner of an activation is forgotten: as long as it was not told, a connect, a call
\* or an immediate event for it is there, or it waits itself.  In particular the
\* early failure of dcom_activate_send, which comes before the continuation is set,
\* is made up for by composite_continue, and no owner in composite_wait is passed over.
THEOREM NoOwnerForgotten == Spec => []StillComing
<1>1. Init => ComingInv
  <2> SUFFICES ASSUME Init, NEW a \in Acts PROVE Coming(act[a], a)
    BY DEF ComingInv
  <2>1. act[a].at = "idle"
    BY DEF Init, NoAct
  <2> QED BY <2>1 DEF Coming
<1>2. IndInv /\ ComingInv => StillComing
  <2> SUFFICES ASSUME IndInv, ComingInv, NEW a \in Acts, act[a].told = 0
               PROVE  \/ act[a].at \in Steps \cup {"idle"}
                      \/ act[a].at = "failed" /\ act[a].triggers > 0
                      \/ act[a].at = "complete" /\ a \in SyncActs
    BY DEF StillComing
  <2>1. act[a].at \in Steps \cup {"idle", "failed", "complete", "freed"}
    BY DEF IndInv, TypeOK, ActType
  <2>2. act[a].at # "freed"
    BY DEF IndInv, ToldIsFreed
  <2> QED BY <2>1, <2>2 DEF ComingInv, Coming
<1> QED BY <1>1, <1>2, NextComing, ActivationInvariance, PTL DEF Spec
=============================================================================
