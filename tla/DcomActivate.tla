---------------------------- MODULE DcomActivate ----------------------------
(***************************************************************************)
(* Remote activation of DCOM objects: dcom_activate_send to                *)
(* dcom_activate_recv of lib/com/dcom/main.c.                              *)
(*                                                                         *)
(* An activation is an outer composite context, owned by its caller, and   *)
(* an inner one, a talloc child of it, which goes through four steps:      *)
(* connect to the object resolver, call ServerAlive, connect again, call   *)
(* RemoteActivation.  The end of the inner context runs                    *)
(* complete_activation, which ends the outer one.  An asynchronous owner   *)
(* receives and frees both in its callback (as wmicore.c does), a          *)
(* synchronous one in composite_wait, when its event loop has returned.    *)
(*                                                                         *)
(* The activations of a program share its object exporters: what the last  *)
(* reply said replaces the string bindings and, if it has changed, the     *)
(* IRemUnknown object through which the objects are released.              *)
(***************************************************************************)
EXTENDS Naturals

CONSTANTS
  Acts,       \* activations
  SyncActs,   \* those made with dcom_activate, which waits
  Oxids,      \* object exporters of the server
  Ipids,      \* interface pointer ids of IRemUnknown
  None        \* NULL

ASSUME ActsAssumption ==
  /\ SyncActs \subseteq Acts
  /\ None \notin Acts \cup Oxids \cup Ipids

VARIABLES
  act,      \* act[a]: see ActType
  ox,       \* ox[o]: the exporter, see ExporterType
  latest,   \* latest[o]: the ipid in the last reply for o; history
  abused    \* freed memory or NULL has been used

vars == <<act, ox, latest, abused>>

(***************************************************************************)
(* at: what the inner context waits for; "failed" and "complete" are       *)
(* contexts that have ended and are not freed.  triggers: immediate events *)
(* that run composite_trigger on the inner context.  told: how often the   *)
(* owner has been told.  oxid: the exporter of the interface returned.     *)
(***************************************************************************)
Steps == {"connect", "alive", "reconnect", "activate"}

ActType == [at : Steps \cup {"idle", "failed", "complete", "freed"}, ok : BOOLEAN,
            triggers : Nat, told : Nat, oxid : Oxids \cup {None}]

NoAct == [at |-> "idle", ok |-> FALSE, triggers |-> 0, told |-> 0, oxid |-> None]

\* by: the activation whose string bindings and server name it has.
ExporterType == [by : Acts \cup {None}, rem_unknown : Ipids \cup {None}]

NoExporter == [by |-> None, rem_unknown |-> None]

TypeOK ==
  /\ act \in [Acts -> ActType]
  /\ ox \in [Oxids -> ExporterType]
  /\ latest \in [Oxids -> Ipids \cup {None}]
  /\ abused \in BOOLEAN

Init ==
  /\ act = [a \in Acts |-> NoAct]
  /\ ox = [o \in Oxids |-> NoExporter]
  /\ latest = [o \in Oxids |-> None]
  /\ abused = FALSE
-----------------------------------------------------------------------------
(***************************************************************************)
(* composite_is_ok, composite_error or composite_done on the inner context *)
(* of a: complete_activation and, for an asynchronous owner, the callback  *)
(* that frees both contexts with their immediate events.                   *)
(***************************************************************************)
MutCompleted(q, a, good) == [q EXCEPT !.at = "complete", !.ok = good, !.told = @ + 1]
Completed(q, a, good) ==
  IF a \in SyncActs THEN [q EXCEPT !.at = "complete", !.ok = good]
  ELSE [q EXCEPT !.at = "freed", !.ok = good, !.told = @ + 1, !.triggers = 0]

\* The inner context of a goes on to its next step.
GoesOn(a, step) == act' = [act EXCEPT ![a].at = step] /\ UNCHANGED abused

\* It fails, and its handler returns.
Fails(a) == act' = [act EXCEPT ![a] = Completed(@, a, FALSE)] /\ UNCHANGED abused
-----------------------------------------------------------------------------
(***************************************************************************)
(* dcom_activate_send.  A server name that is no usable binding ends the   *)
(* inner context before complete_activation is set: composite_error and    *)
(* then composite_continue both schedule an immediate event for it.        *)
(***************************************************************************)
MutTriggers == 0
Triggers == 2

ActivateSend(a, valid) ==
  /\ ~abused
  /\ act[a].at = "idle"
  /\ act' = [act EXCEPT ![a] =
               [@ EXCEPT !.at = IF valid THEN "connect" ELSE "failed",
                         !.triggers = IF valid THEN 0 ELSE Triggers]]
  /\ UNCHANGED <<ox, latest, abused>>

\* composite_trigger.
Trigger(a) ==
  /\ ~abused
  /\ act[a].triggers > 0
  /\ act' = [act EXCEPT ![a] =
               Completed([@ EXCEPT !.triggers = act[a].triggers - 1], a, FALSE)]
  /\ UNCHANGED <<ox, latest, abused>>

\* determine_rpc_binding_continue: connected to the object resolver, or not.
BindingContinue(a, good) ==
  /\ ~abused
  /\ act[a].at = "connect"
  /\ IF good THEN GoesOn(a, "alive") ELSE Fails(a)
  /\ UNCHANGED <<ox, latest>>

(***************************************************************************)
(* determine_rpc_binding_continue2: the call failed, the server answered   *)
(* with an error, or it is alive.  The error is passed on by               *)
(* composite_error, and then composite_is_ok is called on the context, the *)
(* memory of which an asynchronous owner has freed.                        *)
(***************************************************************************)
BindingContinue2(a, answer) ==
  /\ ~abused
  /\ act[a].at = "alive"
  /\ \/ answer = "failed" /\ Fails(a)
     \/ /\ answer = "refused"
        /\ act' = [act EXCEPT ![a] = Completed(@, a, FALSE)]
        /\ abused' = (a \notin SyncActs)
     \/ answer = "alive" /\ GoesOn(a, "reconnect")
  /\ UNCHANGED <<ox, latest>>

\* remote_activation_continue: connected for the activation, or not.
ActivationContinue(a, good) ==
  /\ ~abused
  /\ act[a].at = "reconnect"
  /\ IF good THEN GoesOn(a, "activate") ELSE Fails(a)
  /\ UNCHANGED <<ox, latest>>

\* The RemoteActivation call, or the activation itself, fails.
ActivationFailed(a) ==
  /\ ~abused
  /\ act[a].at = "activate"
  /\ Fails(a)
  /\ UNCHANGED <<ox, latest>>

(***************************************************************************)
(* The IRemUnknown of an exporter after a reply with ipid.  One with       *)
(* another ipid is freed, and a missing one is made from a template, the   *)
(* interface that was returned.                                            *)
(***************************************************************************)
MutKept(old, ipid) == old
Kept(old, ipid) == IF old = ipid THEN old ELSE None

MutNotMade(old, ipid) == Kept(old, ipid)
RemUnknown(old, ipid) == IF Kept(old, ipid) # None THEN Kept(old, ipid) ELSE ipid

(***************************************************************************)
(* remote_activation_complete for a reply that names exporter o.  The      *)
(* result for the interface is an "object" that has a proxy, an "error"    *)
(* (or an object without a proxy), or a "null" reference, which is passed  *)
(* on as a success.  Without an object a new IRemUnknown is copied from    *)
(* NULL.                                                                   *)
(***************************************************************************)
Results == {"object", "error", "null"}

ActivationComplete(a, o, ipid, result) ==
  /\ ~abused
  /\ act[a].at = "activate"
  /\ latest' = [latest EXCEPT ![o] = ipid]
  /\ IF result # "object" /\ Kept(ox[o].rem_unknown, ipid) = None
     THEN /\ abused' = TRUE
          /\ ox' = [ox EXCEPT ![o].rem_unknown = None]
          /\ UNCHANGED act
     ELSE /\ ox' = [ox EXCEPT ![o] =
                      [by |-> a, rem_unknown |-> RemUnknown(ox[o].rem_unknown, ipid)]]
          /\ act' = [act EXCEPT ![a] =
                       Completed([@ EXCEPT !.oxid = IF result = "object" THEN o ELSE None],
                                 a, result # "error")]
          /\ UNCHANGED abused

\* dcom_activate_recv of a synchronous owner.
Recv(a) ==
  /\ ~abused
  /\ a \in SyncActs
  /\ act[a].at = "complete"
  /\ act' = [act EXCEPT ![a] =
               [@ EXCEPT !.at = "freed", !.told = act[a].told + 1, !.triggers = 0]]
  /\ UNCHANGED <<ox, latest, abused>>

Next ==
  \/ \E a \in Acts, valid \in BOOLEAN : ActivateSend(a, valid)
  \/ \E a \in Acts : Trigger(a)
  \/ \E a \in Acts, good \in BOOLEAN : BindingContinue(a, good)
  \/ \E a \in Acts, answer \in {"failed", "refused", "alive"} : BindingContinue2(a, answer)
  \/ \E a \in Acts, good \in BOOLEAN : ActivationContinue(a, good)
  \/ \E a \in Acts : ActivationFailed(a)
  \/ \E a \in Acts, o \in Oxids, ipid \in Ipids, result \in Results :
       ActivationComplete(a, o, ipid, result)
  \/ \E a \in Acts : Recv(a)

(***************************************************************************)
(* The event loop fires immediate events and a waiting owner goes on; a    *)
(* connect or a call ends at the latest by its timer.  Nothing is assumed  *)
(* of the result.                                                          *)
(***************************************************************************)
Fairness ==
  \A a \in Acts :
    /\ WF_vars(Trigger(a))
    /\ WF_vars(Recv(a))
    /\ WF_vars(\E good \in BOOLEAN : BindingContinue(a, good))
    /\ WF_vars(\E w \in {"failed", "refused", "alive"} : BindingContinue2(a, w))
    /\ WF_vars(\E good \in BOOLEAN : ActivationContinue(a, good))
    /\ WF_vars(\/ ActivationFailed(a)
               \/ \E o \in Oxids, ipid \in Ipids, result \in Results :
                    ActivationComplete(a, o, ipid, result))

Spec == Init /\ [][Next]_vars
FairSpec == Spec /\ Fairness
-----------------------------------------------------------------------------
(***************************************************************************)
(* Correctness                                                             *)
(***************************************************************************)

\* The owner of an activation is told of its end once, although a context that
\* fails early has two immediate events scheduled.
ToldOnce == \A a \in Acts : act[a].told <= 1

\* Every activation that is begun ends, and its owner is told, also of one
\* that failed before the continuation was set.
EveryOwnerTold ==
  \A a \in Acts : act[a].at # "idle" ~> (act[a].told = 1 \/ abused)

\* An owner that got an object can use and release it: its exporter knows the
\* string bindings and the server name, and has an IRemUnknown, whatever
\* other activations have done to the same exporter since.
UsableObject ==
  \A a \in Acts : act[a].told = 1 /\ act[a].ok /\ act[a].oxid # None /\ ~abused =>
    /\ ox[act[a].oxid].by # None
    /\ ox[act[a].oxid].rem_unknown # None

\* Objects are released through the IRemUnknown of the last reply: one that the
\* server has replaced since is not kept.
RemUnknownFresh == ~abused => \A o \in Oxids : ox[o].rem_unknown = latest[o]
=============================================================================
