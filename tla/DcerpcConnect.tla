--------------------------- MODULE DcerpcConnect ----------------------------
(***************************************************************************)
(* librpc/rpc/dcerpc_connect.c, dcerpc_util.c, dcerpc_auth.c: the chain of *)
(* composite contexts that opens and authenticates a pipe over TCP, from   *)
(* dcerpc_pipe_connect_b_send to dcerpc_pipe_connect_b_recv.               *)
(*                                                                         *)
(* A continuation runs on contexts that some other step may have freed, so *)
(* the talloc tree is the centre of the state: the parent of every         *)
(* context and pipe.  Freeing an object frees what is below it.  A context *)
(* and its private state are one object, and a pipe stands for its         *)
(* connection, socket and open requests too.                               *)
(*                                                                         *)
(* Chain 1 is the caller's.  If the endpoint is not known and has no       *)
(* default in the IDL, the endpoint mapper is asked through a chain of its *)
(* own, number 2, which is anonymous and has a default endpoint.           *)
(***************************************************************************)
EXTENDS Integers, FiniteSets

CONSTANTS
  MaxRounds  \* bound: tokens that gensec sends in alters, per bind

ASSUME RoundsAssumption == MaxRounds \in Nat

Chains == {1, 2}
Kinds == {"connect", "epm", "auth", "second", "pipe", "pipe2"}
Objects == Kinds \X Chains
Pipes == {"pipe", "pipe2"} \X Chains
Caller == <<"caller", 0>>
None == <<"none", 0>>     \* the parent of what is not allocated

Connect(l) == <<"connect", l>>
Epm(l) == <<"epm", l>>
Auth(l) == <<"auth", l>>
Second(l) == <<"second", l>>
Pipe(l) == <<"pipe", l>>
Pipe2(l) == <<"pipe2", l>>

\* What the owner of chain l steals the pipe to.
Owner(l) == IF l = 1 THEN Caller ELSE Epm(1)

Errors == {"INVALID_PARAMETER", "LOGON_FAILURE", "ERROR"}
Statuses == Errors \cup {"OK"}
Stages == {"idle", "mapped", "mapping", "mapcall", "opening", "binding", "altering",
           "early", "reopening", "ended"}

VARIABLES
  parent,     \* the talloc parent of every object
  at,         \* at[l]: what chain l waits for
  early,      \* early[l]: status of a bind that ended before its continuation was set
  pipe_of,    \* pipe_of[l]: pipe in the pipe_auth_state of chain l
  anonymous,  \* cli_credentials_is_anonymous of the caller's credentials
  mute,       \* the mechanism of gensec may answer without a token
  auto,       \* auto[l]: the bind continues in continue_auth_auto
  gensec,     \* gensec[p]: last status of gensec_update on pipe p
  token,      \* token[p]: whose credentials auth_info of p holds
  rounds,     \* rounds[p]: alters sent on p
  bound,      \* bound[p]: answer of the server to the bind on p
  result,     \* what the caller was told
  told,       \* how often
  given,      \* the pipe that was given to it
  dangling    \* a continuation has used an object that was freed

authVars == <<gensec, token, rounds, bound>>
ownerVars == <<result, told, given>>
vars == <<parent, at, early, pipe_of, anonymous, mute, auto, authVars, ownerVars, dangling>>

TypeOK ==
  /\ parent \in [Objects -> Objects \cup {Caller, None}]
  /\ at \in [Chains -> Stages]
  /\ early \in [Chains -> Statuses]
  /\ pipe_of \in [Chains -> Pipes]
  /\ anonymous \in BOOLEAN
  /\ mute \in BOOLEAN
  /\ auto \in [Chains -> BOOLEAN]
  /\ gensec \in [Pipes -> {"none", "more", "ok", "error"}]
  /\ token \in [Pipes -> {"none", "own", "server"}]
  /\ rounds \in [Pipes -> 0 .. MaxRounds]
  /\ bound \in [Pipes -> {"no", "bound", "refused"}]
  /\ result \in {"pending", "OK", "error"}
  /\ told \in Nat
  /\ given \in Pipes \cup {None}
  /\ dangling \in BOOLEAN

Init ==
  /\ parent = [o \in Objects |-> None]
  /\ at = [l \in Chains |-> "idle"]
  /\ early = [l \in Chains |-> "ERROR"]
  /\ pipe_of = [l \in Chains |-> Pipe(l)]
  /\ anonymous \in BOOLEAN
  /\ mute \in BOOLEAN
  /\ auto = [l \in Chains |-> FALSE]
  /\ gensec = [p \in Pipes |-> "none"]
  /\ token = [p \in Pipes |-> "none"]
  /\ rounds = [p \in Pipes |-> 0]
  /\ bound = [p \in Pipes |-> "no"]
  /\ result = "pending"
  /\ told = 0
  /\ given = None
  /\ dangling = FALSE
-----------------------------------------------------------------------------
(***************************************************************************)
(* talloc: the tree par after talloc_steal and talloc_free.                *)
(***************************************************************************)
Below(par, o) ==
  LET level[n \in 0 .. Cardinality(Objects)] ==
        IF n = 0 THEN {o} ELSE level[n - 1] \cup {x \in Objects : par[x] \in level[n - 1]}
  IN  level[Cardinality(Objects)]

Steal(par, new, o) == IF par[o] = None THEN par ELSE [par EXCEPT ![o] = new]
Free(par, o) == [x \in Objects |-> IF x \in Below(par, o) THEN None ELSE par[x]]

Alive(o) == parent[o] # None

\* The continuation uses the objects in used when the tree is par.
Uses(par, used) == dangling' = (dangling \/ \E o \in used : par[o] = None)
-----------------------------------------------------------------------------
(***************************************************************************)
(* dcerpc_pipe_connect_b_recv in the owner of chain l: the pipe is stolen  *)
(* and the context freed, with its timer.                                  *)
(***************************************************************************)
Received(par, l, p, ok) ==
  Free(IF ok THEN Steal(par, Owner(l), p) ELSE par, Connect(l))

\* The caller is told.
CallerTold(par, p, ok) ==
  /\ parent' = Received(par, 1, p, ok)
  /\ result' = IF ok THEN "OK" ELSE "error"
  /\ told' = told + 1
  /\ given' = IF ok THEN p ELSE None

(***************************************************************************)
(* composite_done or composite_error on the context of chain l, with the   *)
(* continuations that follow at once.  The owner of chain 2 is             *)
(* continue_epm_recv_binding: it calls the mapper or ends, and then        *)
(* continue_map_binding frees its context and ends chain 1.                *)
(***************************************************************************)
ConnectEnds(par, l, p, ok) ==
  IF l = 1
  THEN /\ at' = [at EXCEPT ![1] = "ended"]
       /\ CallerTold(par, p, ok)
  ELSE IF ok
  THEN /\ at' = [at EXCEPT ![1] = "mapcall", ![2] = "ended"]
       /\ parent' = Received(par, 2, p, TRUE)
       /\ UNCHANGED ownerVars
  ELSE /\ at' = [c \in Chains |-> "ended"]
       /\ CallerTold(Free(Received(par, 2, p, FALSE), Epm(1)), p, FALSE)

\* continue_pipe_auth and dcerpc_pipe_auth_recv: the pipe moves up to the
\* context of the connect before the one of the authentication is freed.
MutAuthTree(par, l, p) == Free(par, Auth(l))
AuthTree(par, l, p) == Free(Steal(par, Connect(l), p), Auth(l))

AuthEnds(par, l, p, ok) ==
  ConnectEnds(IF ok THEN AuthTree(par, l, p) ELSE Free(par, Auth(l)), l, p, ok)
-----------------------------------------------------------------------------
(***************************************************************************)
(* Authenticated binds.                                                    *)
(***************************************************************************)

(***************************************************************************)
(* What gensec_update answers: an error; that it wants more, with a token  *)
(* ("more"); that it is done, with a last token ("last") or without one    *)
(* ("done"); or that it wants more and has no token to send ("silent").    *)
(* SPNEGO, NTLMSSP, Kerberos and schannel are never silent and always make *)
(* a first token; the interface of gensec lets a mechanism be mute, and    *)
(* GSSAPI for SASL is.  The token that gensec made itself is of no use to  *)
(* it when a reply brings no other.                                        *)
(***************************************************************************)
FirstAnswers == Errors \cup {"more", "last"} \cup (IF mute THEN {"silent", "done"} ELSE {})
Answers(p, tok) ==
  IF tok = "own" THEN Errors
  ELSE Errors \cup {"last", "done"} \cup (IF mute THEN {"silent"} ELSE {})
              \cup (IF rounds[p] < MaxRounds THEN {"more"} ELSE {})

HasToken(answer) == answer \in {"more", "last"}
GensecStatus(answer) ==
  IF answer \in Errors THEN "error" ELSE IF answer \in {"more", "silent"} THEN "more" ELSE "ok"

\* How the bind ends on an answer after which nothing is waited for.
BindStatus(answer) == IF answer \in Errors THEN answer ELSE "OK"

(***************************************************************************)
(* dcerpc_bind_auth_send, or dcerpc_bind_auth_none_send for an anonymous   *)
(* bind, on pipe p of chain l.  If gensec fails, or makes no token, the    *)
(* context ends, without a bind, before its continuation is set: an        *)
(* immediate event is scheduled.                                           *)
(***************************************************************************)
BindSend(l, p, anon) ==
  /\ UNCHANGED <<rounds, bound>>
  /\ IF anon
     THEN /\ at' = [at EXCEPT ![l] = "binding"]
          /\ UNCHANGED <<early, gensec, token>>
     ELSE \E answer \in FirstAnswers :
            /\ gensec' = [gensec EXCEPT ![p] = GensecStatus(answer)]
            /\ IF HasToken(answer)
               THEN /\ at' = [at EXCEPT ![l] = "binding"]
                    /\ token' = [token EXCEPT ![p] = "own"]
                    /\ UNCHANGED early
               ELSE /\ at' = [at EXCEPT ![l] = "early"]
                    /\ early' = [early EXCEPT ![l] = BindStatus(answer)]
                    /\ UNCHANGED token

\* continue_auth_auto: SPNEGO that is refused is tried again as NTLMSSP, a wrong
\* password with a new one (newpass), both on a second connection.
Retries(l, st, newpass) ==
  auto[l] /\ (st = "INVALID_PARAMETER" \/ (st = "LOGON_FAILURE" /\ newpass))

\* dcerpc_secondary_connection_send: its context is a sibling of the pipe.
MutSecondParent(p) == Caller
SecondParent(p) == parent[p]

SecondSend(l, p) ==
  /\ parent' = [parent EXCEPT ![Second(l)] = SecondParent(p), ![Pipe2(l)] = Second(l)]
  /\ at' = [at EXCEPT ![l] = "reopening"]
  /\ auto' = [auto EXCEPT ![l] = FALSE]
  /\ UNCHANGED ownerVars

\* The bind of chain l ended with st: dcerpc_bind_auth_recv, then continue_auth,
\* continue_auth_none or continue_auth_auto.
BindEnds(l, st) ==
  LET p == pipe_of[l] IN
  \E newpass \in BOOLEAN :
    IF Retries(l, st, newpass) THEN SecondSend(l, p)
    ELSE AuthEnds(parent, l, p, st = "OK") /\ UNCHANGED auto

(***************************************************************************)
(* bind_auth_next_step with the answer of gensec_update: a token that      *)
(* needs an answer goes out in an alter, a last one with dcerpc_auth3, and *)
(* without a token the bind ends, even if gensec wants more.               *)
(***************************************************************************)
NextStep(l, p, answer) ==
  /\ gensec' = [gensec EXCEPT ![p] = GensecStatus(answer)]
  /\ token' = [token EXCEPT ![p] = IF HasToken(answer) THEN "own" ELSE @]
  /\ IF answer = "more"
     THEN /\ rounds' = [rounds EXCEPT ![p] = @ + 1]
          /\ at' = [at EXCEPT ![l] = "altering"]
          /\ UNCHANGED <<parent, auto, ownerVars>>
     ELSE /\ BindEnds(l, BindStatus(answer))
          /\ UNCHANGED rounds

\* A reply with credentials replaces the token that was sent.
Credentials(p, creds) == IF creds /\ token[p] # "none" THEN "server" ELSE token[p]

\* dcerpc_bind_recv_handler, dcerpc_map_reason, and dcerpc_composite_fail when
\* the connection is lost.
RefusalStatus(reply) ==
  IF reply = "nak_auth_type" THEN "INVALID_PARAMETER" ELSE "ERROR"

MutNeedsMore(p) == FALSE
NeedsMore(p) == gensec[p] = "more"
-----------------------------------------------------------------------------
(***************************************************************************)
(* dcerpc_pipe_connect_b_send for chain l below the object o.              *)
(***************************************************************************)
Started(par, l, o) == [par EXCEPT ![Connect(l)] = o, ![Pipe(l)] = Connect(l)]

ConnectSend(endpoint) ==
  /\ at[1] = "idle"
  /\ LET tree == Started(parent, 1, Caller)
         mapped == [tree EXCEPT ![Epm(1)] = Connect(1)]
     IN  \/ /\ endpoint = "known"
            /\ parent' = tree
            /\ at' = [at EXCEPT ![1] = "opening"]
         \/ /\ endpoint = "default"
            /\ parent' = mapped
            /\ at' = [at EXCEPT ![1] = "mapped"]
         \/ /\ endpoint = "mapper"
            /\ parent' = [Started(mapped, 2, Epm(1)) EXCEPT ![Epm(2)] = Connect(2)]
            /\ at' = [at EXCEPT ![1] = "mapping", ![2] = "mapped"]
  /\ UNCHANGED <<early, pipe_of, anonymous, mute, auto, authVars, ownerVars, dangling>>

\* The immediate event of an epm context that found a default endpoint:
\* continue_map_binding.
MapDefault(l) ==
  /\ at[l] = "mapped"
  /\ Alive(Epm(l))
  /\ Uses(parent, {Connect(l), Pipe(l)})
  /\ parent' = Free(parent, Epm(l))
  /\ at' = [at EXCEPT ![l] = "opening"]
  /\ UNCHANGED <<early, pipe_of, anonymous, mute, auto, authVars, ownerVars>>

(***************************************************************************)
(* The end of dcerpc_pipe_open_tcp_send: continue_pipe_connect, then       *)
(* dcerpc_pipe_auth_send, or the end of the chain.  named: the flags of    *)
(* the binding choose the type of authentication.                          *)
(***************************************************************************)
Anonymous(l) == l = 2 \/ anonymous

OpenDone(l, ok, named) ==
  /\ at[l] = "opening"
  /\ Alive(Pipe(l))
  /\ Uses(parent, {Connect(l)})
  /\ IF ok
     THEN /\ parent' = [parent EXCEPT ![Auth(l)] = parent[Pipe(l)]]
          /\ auto' = [auto EXCEPT ![l] = ~Anonymous(l) /\ ~named]
          /\ BindSend(l, Pipe(l), Anonymous(l))
          /\ UNCHANGED ownerVars
     ELSE /\ ConnectEnds(parent, l, Pipe(l), FALSE)
          /\ UNCHANGED <<early, auto, authVars>>
  /\ UNCHANGED <<pipe_of, anonymous, mute>>

\* The immediate event of a bind that gensec ended before it was sent.
BindTrigger(l) ==
  /\ at[l] = "early"
  /\ Alive(Auth(l))
  /\ Uses(parent, {pipe_of[l]})
  /\ BindEnds(l, early[l])
  /\ UNCHANGED <<early, pipe_of, anonymous, mute, authVars>>

\* The request of a bind or alter is a descendant of the auth context.
Awaits(l, stage) == at[l] = stage /\ Alive(Auth(l))

\* bind_auth_recv_bindreply or continue_auth_none: the server accepts the bind.
BindAck(l, creds) ==
  LET p == pipe_of[l] IN
  /\ Awaits(l, "binding")
  /\ Uses(parent, {p})
  /\ bound' = [bound EXCEPT ![p] = "bound"]
  /\ IF NeedsMore(p)
     THEN \E answer \in Answers(p, Credentials(p, creds)) : NextStep(l, p, answer)
     ELSE /\ token' = [token EXCEPT ![p] = Credentials(p, creds)]
          /\ BindEnds(l, "OK")
          /\ UNCHANGED <<gensec, rounds>>
  /\ UNCHANGED <<early, pipe_of, anonymous, mute>>

\* bind_auth_recv_alter: the server accepts a token that was sent in an alter.
AlterAck(l, creds) ==
  LET p == pipe_of[l] IN
  /\ Awaits(l, "altering")
  /\ Uses(parent, {p})
  /\ \E answer \in Answers(p, Credentials(p, creds)) : NextStep(l, p, answer)
  /\ UNCHANGED <<early, pipe_of, anonymous, mute, bound>>

\* A bind or alter is refused, or the connection is lost.
BindRefused(l, reply) ==
  /\ Awaits(l, "binding") \/ Awaits(l, "altering")
  /\ Uses(parent, {pipe_of[l]})
  /\ bound' = [bound EXCEPT ![pipe_of[l]] = "refused"]
  /\ BindEnds(l, RefusalStatus(reply))
  /\ UNCHANGED <<early, pipe_of, anonymous, mute, gensec, token, rounds>>

(***************************************************************************)
(* continue_pipe_open and dcerpc_secondary_connection_recv; then           *)
(* continue_ntlmssp_connection or continue_spnego_after_wrong_pass: both   *)
(* pipes go to the auth context, and the bind is made on the second one.   *)
(***************************************************************************)
SecondTree(par, l, p) ==
  LET received == Free(Steal(par, p, Pipe2(l)), Second(l)) IN
  Steal(Steal(received, Auth(l), Pipe2(l)), Auth(l), p)

SecondDone(l, ok) ==
  LET p == pipe_of[l] IN
  /\ at[l] = "reopening"
  /\ Alive(Pipe2(l))
  /\ Uses(parent, {Second(l), Auth(l), p})
  /\ IF ok
     THEN /\ parent' = SecondTree(parent, l, p)
          /\ pipe_of' = [pipe_of EXCEPT ![l] = Pipe2(l)]
          /\ BindSend(l, Pipe2(l), FALSE)
          /\ UNCHANGED ownerVars
     ELSE /\ AuthEnds(Free(parent, Second(l)), l, p, FALSE)
          /\ UNCHANGED <<pipe_of, early, authVars>>
  /\ UNCHANGED <<anonymous, mute, auto>>

\* continue_epm_map: the mapper knows the endpoint, or the call fails.
MapReply(ok) ==
  /\ at[1] = "mapcall"
  /\ Alive(Pipe(2))
  /\ Uses(parent, {Epm(1), Connect(1), Pipe(1)})
  /\ IF ok
     THEN /\ parent' = Free(parent, Epm(1))
          /\ at' = [at EXCEPT ![1] = "opening"]
          /\ UNCHANGED ownerVars
     ELSE ConnectEnds(Free(parent, Epm(1)), 1, Pipe(1), FALSE)
  /\ UNCHANGED <<early, pipe_of, anonymous, mute, auto, authVars>>

(***************************************************************************)
(* dcerpc_connect_timeout_handler of chain 1, whose timer is a child of    *)
(* its context.  The timers of chain 2 and of the requests run as long and *)
(* were added later: they are freed here before they can fire.  What the   *)
(* chains wait for goes away only as far as it is freed with the context.  *)
(***************************************************************************)
MutTimed == Alive(Connect(1)) /\ ~Alive(Epm(1))
Timed == Alive(Connect(1))

Timeout ==
  /\ Timed
  /\ CallerTold(parent, Pipe(1), FALSE)
  /\ UNCHANGED <<at, early, pipe_of, anonymous, mute, auto, authVars, dangling>>

Next ==
  \/ \E endpoint \in {"known", "default", "mapper"} : ConnectSend(endpoint)
  \/ \E l \in Chains : MapDefault(l)
  \/ \E l \in Chains, ok, named \in BOOLEAN : OpenDone(l, ok, named)
  \/ \E l \in Chains : BindTrigger(l)
  \/ \E l \in Chains, creds \in BOOLEAN : BindAck(l, creds)
  \/ \E l \in Chains, creds \in BOOLEAN : AlterAck(l, creds)
  \/ \E l \in Chains, reply \in {"nak_auth_type", "refused", "lost"} : BindRefused(l, reply)
  \/ \E l \in Chains, ok \in BOOLEAN : SecondDone(l, ok)
  \/ \E ok \in BOOLEAN : MapReply(ok)
  \/ Timeout

\* The event loop fires the timer; nothing is assumed of the server.
Fairness == WF_vars(Timeout)

Spec == Init /\ [][Next]_vars
FairSpec == Spec /\ Fairness
-----------------------------------------------------------------------------
(***************************************************************************)
(* Correctness                                                             *)
(***************************************************************************)
Allocated == {o \in Objects : parent[o] # None}

\* Of all the contexts and connections of a connect, its endpoint mapping and its
\* second try, what is left when the caller is told is the pipe that it is
\* given, now its own, or nothing after a failure.
OnePipe ==
  /\ result = "OK" => Allocated = {given} /\ parent[given] = Caller
  /\ result = "error" => Allocated = {}

\* No continuation runs on a context or a pipe that was freed, in whatever order
\* replies, immediate events and the timer come.
NoStaleContext == ~dangling

Complete(p) == bound[p] = "bound" /\ (anonymous \/ gensec[p] = "ok")

\* The pipe that a caller with credentials is given is one that the server has
\* bound and whose gensec asks for nothing more: an accepting server does
\* not cut the exchange short, and no token of an earlier try counts.  This
\* is what dcerpc_auth.c asks for at 118 and 298, and it takes a mechanism
\* that is not mute: the exits at 139 and 320 end a bind without a token.
AuthComplete == result = "OK" => mute \/ Complete(given)

\* Every connect ends, and its caller is told once, whatever the server, the
\* endpoint mapper or the second connection leave unanswered.
ConnectAnswered == (at[1] # "idle" ~> told = 1) /\ [](told <= 1)
=============================================================================
