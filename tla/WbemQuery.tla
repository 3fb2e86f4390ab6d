----------------------------- MODULE WbemQuery ------------------------------
(***************************************************************************)
(* A WMI query from the connect to the last object: WBEM_ConnectServer     *)
(* (wmi/wmicore.c), the enumerator with its SmartNext and its Release      *)
(* (wmi/wbemdata.c), and the three programs of the tree that use them:     *)
(* wmic (wmi/wmic.c), the torture test (torture/dcom/dcom.c) and the       *)
(* pysamba event watcher (pysamba/wbem/Query.py, pysamba/test/watcher.py). *)
(*                                                                         *)
(* The remote calls are those of the DCOM proxies: one is answered with    *)
(* its results or fails, which here includes a lost connection and a time  *)
(* out.  What an object holds is left out, except for its class: the       *)
(* server sends a class with the first object of it, and the enumerator    *)
(* keeps it in a cache for the objects that follow.                        *)
(***************************************************************************)
EXTENDS Integers, Sequences, FiniteSets, FiniteSetsExt, SequencesExt

CONSTANTS
  Classes,    \* classes of the objects
  MaxObjects, \* bound: objects that the query finds
  Chunk       \* uCount, the objects that a program asks for at a time

ASSUME ChunkAssumption == MaxObjects \in Nat /\ Chunk \in Nat \ {0}

Programs == {"wmic", "torture", "watcher"}

VARIABLES
  program,
  stage,        \* the call that the program waits for, or "ready" or "ended"
  code,         \* result of the program: "none", "ok" or "error"
  object_data,  \* the enumerator has its IEnumWbemClassObject_data
  pFSE,         \* "null" or "held": the IWbemFetchSmartEnum in it
  pSE,          \* "null" or "held": the IWbemWCOSmartEnum in it
  cache,        \* classes in the cache of the enumerator
  freed,        \* classes whose memory was freed
  Release_send, \* of the vtable that all enumerators share: "plain" or "enum"
  released,     \* references that were given back, {} before the Release
  results,      \* the objects that the query finds: their classes
  served,       \* how many of them the server has sent
  got,          \* indices of the objects that the program got
  lost,         \* indices of those in replies that could not be parsed
  crash,        \* what the process dereferenced: "none", "interface" or "class"
  odd           \* what the server did against the rules, or another query did

enumVars == <<object_data, pFSE, pSE, cache, freed>>
dataVars == <<results, served, got, lost>>
vars == <<program, stage, code, enumVars, Release_send, released, dataVars, crash, odd>>

Odd == {"refused", "s_false", "other_query"}

TypeOK ==
  /\ program \in Programs
  /\ stage \in {"activate", "login", "release_login", "query", "reset", "ready", "query_interface",
                "fetch", "next", "release", "ended"}
  /\ code \in {"none", "ok", "error"}
  /\ object_data \in BOOLEAN
  /\ pFSE \in {"null", "held"} /\ pSE \in {"null", "held"}
  /\ cache \subseteq Classes /\ freed \subseteq Classes
  /\ Release_send \in {"plain", "enum"}
  /\ released \subseteq {"enum", "pFSE", "pSE"}
  /\ results \in BoundedSeq(Classes, MaxObjects)
  /\ served \in 0 .. MaxObjects
  /\ got \in BoundedSeq(1 .. MaxObjects, MaxObjects)
  /\ lost \subseteq 1 .. MaxObjects
  /\ crash \in {"none", "interface", "class"}
  /\ odd \subseteq Odd

Init ==
  /\ program \in Programs
  /\ stage = "activate"
  /\ code = "none"
  /\ object_data = FALSE
  /\ pFSE = "null" /\ pSE = "null"
  /\ cache = {} /\ freed = {}
  /\ Release_send = "plain"
  /\ released = {}
  /\ results \in BoundedSeq(Classes, MaxObjects)
  /\ served = 0
  /\ got = << >>
  /\ lost = {}
  /\ crash = "none"
  /\ odd = {}
-----------------------------------------------------------------------------
Ends(c) == stage' = "ended" /\ code' = c
GoesTo(s) == stage' = s /\ UNCHANGED code
Crashes(what) == crash' = what /\ Ends("error")

(***************************************************************************)
(* WBEM_ConnectServer: activation, NTLMLogin, and the Release of the login *)
(* object, whose result nobody looks at.  The interface in a reply that    *)
(* succeeds is used unseen; "refused" is a reply that does not hold it.    *)
(***************************************************************************)
Activated(reply) ==
  /\ stage = "activate"
  /\ CASE reply = "ok" -> GoesTo("login") /\ UNCHANGED <<crash, odd>>
       [] reply = "refused" -> Crashes("interface") /\ odd' = odd \cup {"refused"}
       [] reply = "failed" -> Ends("error") /\ UNCHANGED <<crash, odd>>
  /\ UNCHANGED <<program, enumVars, Release_send, released, dataVars>>

LoginDone(ok) ==
  /\ stage = "login"
  /\ IF ok THEN GoesTo("release_login") ELSE Ends("error")
  /\ UNCHANGED <<program, enumVars, Release_send, released, dataVars, crash, odd>>

LoginReleased ==
  /\ stage = "release_login"
  /\ GoesTo("query")
  /\ UNCHANGED <<program, enumVars, Release_send, released, dataVars, crash, odd>>

\* ExecQuery, or ExecNotificationQuery of the watcher, which has no Reset.  The
\* enumerator is unmarshalled by dcom_IUnknown_from_OBJREF.
QueryDone(ok) ==
  /\ stage = "query"
  /\ IF ~ok THEN Ends("error") /\ UNCHANGED Release_send
     ELSE /\ GoesTo(IF program = "watcher" THEN "ready" ELSE "reset")
          /\ Release_send' = "plain"
  /\ UNCHANGED <<program, enumVars, released, dataVars, crash, odd>>

\* wmic does not store the result of the Reset: it checks that of the query again.
ResetChecked == program # "wmic"

ResetDone(ok) ==
  /\ stage = "reset"
  /\ IF ResetChecked /\ ~ok THEN Ends("error") ELSE GoesTo("ready")
  /\ UNCHANGED <<program, enumVars, Release_send, released, dataVars, crash, odd>>

\* Another query of the process unmarshals its enumerator.
OtherQuery ==
  /\ stage # "ended"
  /\ Release_send' = "plain"
  /\ odd' = odd \cup {"other_query"}
  /\ UNCHANGED <<program, stage, code, enumVars, released, dataVars, crash>>
-----------------------------------------------------------------------------
(***************************************************************************)
(* IEnumWbemClassObject_SmartNext_send: the first call of an enumerator    *)
(* gets its IWbemFetchSmartEnum and from this its IWbemWCOSmartEnum, the   *)
(* later ones ask the latter for more.                                     *)
(***************************************************************************)
SmartNext_send ==
  /\ stage = "ready"
  /\ object_data' = TRUE
  /\ CASE ~object_data ->
            GoesTo("query_interface") /\ Release_send' = "enum" /\ UNCHANGED crash
       [] object_data /\ pSE = "held" -> GoesTo("next") /\ UNCHANGED <<Release_send, crash>>
       [] object_data /\ pSE = "null" -> Crashes("interface") /\ UNCHANGED Release_send
  /\ UNCHANGED <<program, pFSE, pSE, cache, freed, released, dataVars, odd>>

\* A SmartNext whose context ended in an error, in each program.  S_FALSE of a
\* call other than Next comes back as WERR_BADFUNC, which wmic takes for the end.
SmartNextFails(reply) ==
  Ends(IF program = "wmic" /\ reply = "s_false" THEN "ok" ELSE "error")

\* smart_next_query_interface_continue and smart_next_fetch_enum_continue.
QueryInterfaceDone(reply) ==
  /\ stage = "query_interface"
  /\ CASE reply = "ok" -> GoesTo("fetch") /\ pFSE' = "held" /\ UNCHANGED <<crash, odd>>
       [] reply = "refused" ->
            Crashes("interface") /\ odd' = odd \cup {"refused"} /\ UNCHANGED pFSE
       [] reply \in {"s_false", "failed"} ->
            /\ SmartNextFails(reply)
            /\ odd' = odd \cup ({reply} \cap Odd)
            /\ UNCHANGED <<pFSE, crash>>
  /\ UNCHANGED <<program, object_data, pSE, cache, freed, Release_send, released, dataVars>>

FetchDone(reply) ==
  /\ stage = "fetch"
  /\ CASE reply = "ok" -> GoesTo("next") /\ pSE' = "held" /\ UNCHANGED <<crash, odd>>
       [] reply = "refused" ->
            Crashes("interface") /\ odd' = odd \cup {"refused"} /\ UNCHANGED pSE
       [] reply \in {"s_false", "failed"} ->
            /\ SmartNextFails(reply)
            /\ odd' = odd \cup ({reply} \cap Odd)
            /\ UNCHANGED <<pSE, crash>>
  /\ UNCHANGED <<program, object_data, pFSE, cache, freed, Release_send, released, dataVars>>
-----------------------------------------------------------------------------
(***************************************************************************)
(* WBEMDATA_Parse of the next k objects.  Those before bad are parsed; the *)
(* one at bad is not, if bad <= k, and then none is returned.              *)
(***************************************************************************)
Parsed(k, bad) == {i \in served + 1 .. served + k : i < served + bad}

\* The server sends the class with the first object of it.
WithClass(i) == \A j \in 1 .. i - 1 : results[j] # results[i]

\* add_pair_guid_ptr steals the class from its object, so that it stays when the
\* program frees the object, as the watcher does when it has converted it.
MutOutlives(c) == FALSE
Outlives(c) == TRUE

CacheAfter(parsed) == cache \cup {results[i] : i \in {j \in parsed : WithClass(j)}}
FreedAfter(parsed) ==
  IF program # "watcher" THEN freed
  ELSE freed \cup {results[i] : i \in {j \in parsed : WithClass(j) /\ ~Outlives(results[j])}}

\* get_ptr_by_guid finds no class, or one that is no more.
Classless(parsed) ==
  \E i \in parsed : ~WithClass(i) /\ results[i] \notin CacheAfter({j \in parsed : j < i}) \ freed

(***************************************************************************)
(* What the programs do with the n objects of a reply, or with the error   *)
(* of one that could not be parsed.  An empty reply that still has data is *)
(* NT_STATUS_NOT_IMPLEMENTED to WBEMDATA_Parse, and that is WERR_BADFUNC.  *)
(***************************************************************************)
MutMore(n) == 0 < n /\ n < Chunk
More(n) == n = Chunk

Continues(n, error) ==
  CASE program = "wmic" ->
         IF error = "parse" THEN Ends("error")
         ELSE IF More(n) THEN GoesTo("ready") ELSE Ends("ok")
    [] program = "torture" ->
         IF error # "none" THEN Ends("error")
         ELSE GoesTo(IF n = 0 THEN "release" ELSE "ready")
    [] program = "watcher" -> GoesTo("ready")

\* What Next may return: as much as there is, but less to the watcher, whose
\* time out is not infinite.
Available == Min({Chunk, Len(results) - served})
Returned == IF program = "watcher" THEN 0 .. Available ELSE {Available}

\* smart_next_enum_continue and SmartNext_recv: k objects, with data, that parse
\* up to the one at bad.
NextDone(k, data, bad) ==
  /\ stage = "next"
  /\ k \in Returned
  /\ k > 0 => data
  /\ LET parsed == Parsed(k, bad) IN
     /\ served' = served + k
     /\ cache' = CacheAfter(parsed)
     /\ freed' = FreedAfter(parsed)
     /\ IF Classless(parsed)
        THEN Crashes("class") /\ UNCHANGED <<got, lost>>
        ELSE /\ UNCHANGED crash
             /\ IF bad <= k
                THEN /\ Continues(0, "parse")
                     /\ lost' = lost \cup (served + 1 .. served + k)
                     /\ UNCHANGED got
                ELSE /\ Continues(k, IF k = 0 /\ data THEN "badfunc" ELSE "none")
                     /\ got' = got \o [j \in 1 .. k |-> served + j]
                     /\ UNCHANGED lost
  /\ UNCHANGED <<program, object_data, pFSE, pSE, Release_send, released, results, odd>>

NextFailed ==
  /\ stage = "next"
  /\ SmartNextFails("failed")
  /\ UNCHANGED <<program, enumVars, Release_send, released, dataVars, crash, odd>>

\* References of the enumerator on the server.
Held == {"enum"} \cup (IF pFSE = "held" THEN {"pFSE"} ELSE {})
                 \cup (IF pSE = "held" THEN {"pSE"} ELSE {})

\* dcom_proxy_IEnumWbemClassObject_Release_send or dcom_release_send, whichever the
\* vtable has, and dcom_release_continue.
MutReleaseRefs == IF Release_send = "enum" THEN Held \ {"pSE"} ELSE {"enum"}
ReleaseRefs == IF Release_send = "enum" THEN Held ELSE {"enum"}

ReleaseDone ==
  /\ stage = "release"
  /\ released' = ReleaseRefs
  /\ Ends("ok")
  /\ UNCHANGED <<program, enumVars, Release_send, dataVars, crash, odd>>

Replies == {"ok", "refused", "failed"}

Next ==
  \/ \E reply \in Replies : Activated(reply)
  \/ \E ok \in BOOLEAN : LoginDone(ok) \/ QueryDone(ok) \/ ResetDone(ok)
  \/ LoginReleased
  \/ OtherQuery
  \/ SmartNext_send
  \/ \E reply \in Replies \cup {"s_false"} : QueryInterfaceDone(reply) \/ FetchDone(reply)
  \/ \E k \in 0 .. Chunk, data \in BOOLEAN, bad \in 1 .. Chunk + 1 : NextDone(k, data, bad)
  \/ NextFailed
  \/ ReleaseDone

Spec == Init /\ [][Next]_vars
-----------------------------------------------------------------------------
(***************************************************************************)
(* Correctness                                                             *)
(***************************************************************************)

\* No object is repeated, moved or dropped silently on its way through the
\* chunks: a program has what the server sent, in order, without the replies
\* that it could not parse.  One that succeeds has all the objects, whether or
\* not the last chunk is full, unless a call before Next answered S_FALSE.
AllObjects ==
  /\ crash = "none" =>
       /\ Range(got) = (1 .. served) \ lost
       /\ \A m, n \in DOMAIN got : m < n => got[m] < got[n]
  /\ code = "ok" /\ "s_false" \notin odd => got = [i \in 1 .. Len(results) |-> i]

\* No call goes to an interface that is not there and no object is read without
\* its class, also when a program goes on after an error or has freed the
\* object that brought the class.  The exceptions: a reply that succeeds without
\* its interface, and an earlier reply whose class could not be parsed.
SoundPointers ==
  /\ crash = "interface" => "refused" \in odd
  /\ crash = "class" => lost # {}

\* The Release of an enumerator gives back its own reference and those of the two
\* interfaces that SmartNext got for it, unless another query of the process
\* has since reset the function in the vtable that they share.
ReleasesAll == released # {} /\ "other_query" \notin odd => released = Held
=============================================================================
