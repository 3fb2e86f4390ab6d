-------------------------- MODULE WbemQueryProofs ---------------------------
(***************************************************************************)
(* Safety of a WMI query for any number of objects and classes and for any *)
(* chunk size.                                                             *)
(***************************************************************************)
EXTENDS WbemQuery, SequenceTheorems, WellFoundedInduction, TLAPS

(***************************************************************************)
(* The inductive invariant.                                                *)
(*                                                                         *)
(* The enumerator: it has no interfaces before its first SmartNext, and    *)
(* whoever goes on after that has the IWbemWCOSmartEnum.  The function in  *)
(* the vtable stays that of the enumerator unless another query resets it. *)
(***************************************************************************)
EnumInv ==
  /\ stage \in {"activate", "login", "release_login", "query", "reset"} => ~object_data
  /\ stage \in {"query_interface", "fetch", "next"} => object_data
  /\ ~object_data => pFSE = "null" /\ pSE = "null"
  /\ stage = "next" \/ (stage = "ready" /\ object_data) => pSE = "held"
  /\ object_data /\ "other_query" \notin odd => Release_send = "enum"
  /\ released # {} => stage = "ended" /\ ("other_query" \notin odd => released = Held)
  /\ crash = "interface" => "refused" \in odd

(***************************************************************************)
(* The cache: unless a reply was lost, it has the class of every object    *)
(* that the server has sent, and no class is freed.                        *)
(***************************************************************************)
CacheInv ==
  /\ freed = {}
  /\ served <= Len(results)
  /\ lost = {} => \A i \in 1 .. served : results[i] \in cache
  /\ crash = "class" => lost # {}

(***************************************************************************)
(* The objects: a program that runs on after a reply it could not parse is *)
(* the watcher, which never succeeds; and a program that succeeds has seen *)
(* the end of the objects.                                                 *)
(***************************************************************************)
ObjectInv ==
  /\ lost \subseteq 1 .. served
  /\ Len(got) <= served
  /\ crash = "none" =>
       /\ Range(got) = (1 .. served) \ lost
       /\ \A m, n \in DOMAIN got : m < n => got[m] < got[n]
       /\ lost = {} => got = [i \in 1 .. served |-> i]

ResultInv ==
  /\ stage # "ended" => code = "none" /\ crash = "none"
  /\ lost # {} => program = "watcher" \/ code = "error"
  /\ crash # "none" => code = "error"
  /\ program = "watcher" => stage # "release" /\ code # "ok"
  /\ stage = "release" => served = Len(results)
  /\ code = "ok" /\ "s_false" \notin odd => served = Len(results)

IndInv == TypeOK /\ EnumInv /\ CacheInv /\ ObjectInv /\ ResultInv

\* The parts of the type invariant.
CtlType ==
  /\ program \in Programs
  /\ stage \in {"activate", "login", "release_login", "query", "reset", "ready", "query_interface",
                "fetch", "next", "release", "ended"}
  /\ code \in {"none", "ok", "error"}
  /\ object_data \in BOOLEAN
  /\ pFSE \in {"null", "held"} /\ pSE \in {"null", "held"}
  /\ Release_send \in {"plain", "enum"}
  /\ released \subseteq {"enum", "pFSE", "pSE"}
  /\ crash \in {"none", "interface", "class"}
  /\ odd \subseteq Odd

DataType ==
  /\ cache \subseteq Classes /\ freed \subseteq Classes
  /\ results \in Seq(Classes) /\ Len(results) <= MaxObjects
  /\ served \in 0 .. MaxObjects
  /\ got \in Seq(1 .. MaxObjects) /\ Len(got) <= MaxObjects
  /\ lost \subseteq 1 .. MaxObjects

\* What a sequence of bounded length is.
LEMMA BoundedSeqLemma ==
  ASSUME NEW S, NEW n \in Nat, NEW x
  PROVE  x \in BoundedSeq(S, n) <=> x \in Seq(S) /\ Len(x) <= n
<1>1. ASSUME x \in BoundedSeq(S, n) PROVE x \in Seq(S) /\ Len(x) <= n
  <2>1. PICK m \in 0 .. n : x \in [1 .. m -> S]
    BY <1>1 DEF BoundedSeq, SeqOf
  <2>2. x \in Seq(S)
    BY <2>1, SeqDef
  <2>3. Len(x) = m
    BY <2>1, <2>2, LenProperties
  <2> QED BY <2>2, <2>3
<1>2. ASSUME x \in Seq(S), Len(x) <= n PROVE x \in BoundedSeq(S, n)
  <2>1. Len(x) \in 0 .. n /\ x \in [1 .. Len(x) -> S]
    BY <1>2, LenProperties
  <2> QED BY <2>1 DEF BoundedSeq, SeqOf
<1> QED BY <1>1, <1>2

\* The type invariant, of the control and of the data.
LEMMA TypeParts == TypeOK <=> CtlType /\ DataType
  BY BoundedSeqLemma, ChunkAssumption DEF TypeOK, CtlType, DataType
-----------------------------------------------------------------------------
(***************************************************************************)
(* The enumerator and its interfaces.                                      *)
(***************************************************************************)

\* A reply to Next: the program ends, releases the enumerator or goes on.
LEMMA NextDoneControl ==
  ASSUME CtlType, NEW k \in 0 .. Chunk, NEW data \in BOOLEAN, NEW bad \in 1 .. Chunk + 1,
         NextDone(k, data, bad)
  PROVE  /\ stage' \in {"ended", "release", "ready"} /\ code' \in {code, "ok", "error"}
         /\ crash' \in {crash, "class"}
  BY DEF NextDone, Crashes, Ends, GoesTo, Continues, CtlType, Programs

\* Every step keeps EnumInv.
LEMMA EnumStep ==
  ASSUME CtlType, EnumInv, Next
  PROVE  CtlType' /\ EnumInv'
<1> USE DEF CtlType, EnumInv, Ends, GoesTo, Crashes, enumVars, dataVars
<1>1. ASSUME NEW reply \in Replies, Activated(reply) PROVE CtlType' /\ EnumInv'
  BY <1>1 DEF Activated, Replies, Odd, Held
<1>2. ASSUME NEW ok \in BOOLEAN, LoginDone(ok) PROVE CtlType' /\ EnumInv'
  BY <1>2 DEF LoginDone, Held
<1>3. ASSUME NEW ok \in BOOLEAN, QueryDone(ok) PROVE CtlType' /\ EnumInv'
  BY <1>3 DEF QueryDone, Held
<1>4. ASSUME NEW ok \in BOOLEAN, ResetDone(ok) PROVE CtlType' /\ EnumInv'
  BY <1>4 DEF ResetDone, Held
<1>5. CASE LoginReleased
  BY <1>5 DEF LoginReleased, Held
<1>6. CASE OtherQuery
  BY <1>6 DEF OtherQuery, Held, Odd
<1>7. CASE SmartNext_send
  BY <1>7 DEF SmartNext_send, Held
<1>8. ASSUME NEW reply \in Replies \cup {"s_false"}, QueryInterfaceDone(reply)
      PROVE  CtlType' /\ EnumInv'
  BY <1>8 DEF QueryInterfaceDone, Replies, SmartNextFails, Held, Odd
<1>9. ASSUME NEW reply \in Replies \cup {"s_false"}, FetchDone(reply)
      PROVE  CtlType' /\ EnumInv'
  BY <1>9 DEF FetchDone, Replies, SmartNextFails, Held, Odd
<1>10. ASSUME NEW k \in 0 .. Chunk, NEW data \in BOOLEAN, NEW bad \in 1 .. Chunk + 1,
              NextDone(k, data, bad)
       PROVE  CtlType' /\ EnumInv'
  <2>1. stage' \in {"ended", "release", "ready"} /\ code' \in {code, "ok", "error"}
        /\ crash' \in {crash, "class"}
    BY <1>10, NextDoneControl
  <2>2. stage = "next" /\ UNCHANGED <<program, object_data, pFSE, pSE, Release_send, released, odd>>
    BY <1>10 DEF NextDone
  <2> QED BY <2>1, <2>2 DEF Held
<1>11. CASE NextFailed
  BY <1>11 DEF NextFailed, SmartNextFails, Held
<1>12. CASE ReleaseDone
  BY <1>12 DEF ReleaseDone, ReleaseRefs, Held
<1> HIDE DEF CtlType, EnumInv, Ends, GoesTo, Crashes, enumVars, dataVars
<1> QED BY <1>1, <1>2, <1>3, <1>4, <1>5, <1>6, <1>7, <1>8, <1>9, <1>10, <1>11, <1>12 DEF Next
-----------------------------------------------------------------------------
(***************************************************************************)
(* Lemmas about a reply to Next.                                           *)
(***************************************************************************)

\* The next k objects are some that the server still has.  Only the watcher
\* gets fewer than it asked for before the last ones.
LEMMA ReturnedLemma ==
  ASSUME DataType, served <= Len(results), NEW k \in Returned
  PROVE  /\ k \in Nat /\ served + k <= Len(results)
         /\ program # "watcher" /\ k # Chunk => served + k = Len(results)
<1> DEFINE a == Len(results) - served
           S == {Chunk, a}
<1>1. Len(results) \in Nat /\ served \in Nat /\ Chunk \in Nat
  BY LenProperties, ChunkAssumption DEF DataType
<1>2. a \in Nat /\ served + a = Len(results)
  BY <1>1
<1>3. \E x \in S : \A y \in S : x <= y
  BY <1>1, <1>2
<1>4. Available \in S /\ \A y \in S : Available <= y
  BY <1>3 DEF Available, Min
<1> HIDE DEF a
<1>5. Available \in Nat /\ Available <= a /\ (Available # Chunk => Available = a)
  BY <1>1, <1>2, <1>4
<1>6. k \in Nat /\ k <= a /\ (program # "watcher" => k = Available)
  BY <1>2, <1>5 DEF Returned
<1> QED BY <1>1, <1>2, <1>5, <1>6

\* Of the objects of a class the server sends the class with the first.
LEMMA FirstOfClass ==
  ASSUME DataType, NEW i \in 1 .. Len(results)
  PROVE  \E j \in 1 .. i : results[j] = results[i] /\ WithClass(j)
<1> DEFINE P == {j \in 1 .. i : results[j] = results[i]}
           R == OpToRel(<, Nat)
<1>1. i \in Nat \ {0}
  BY LenProperties DEF DataType
<1>2. P \in SUBSET Nat /\ i \in P
  BY <1>1
<1>3. IsWellFoundedOn(R, Nat)
  BY NatLessThanWellFounded
<1>4. R = {ss \in Nat \X Nat : ss[1] < ss[2]}
  BY DEF OpToRel
<1> HIDE DEF R
<1>5. PICK j \in P : \A m \in P : ~(<<m, j>> \in R)
  BY <1>2, <1>3, WFMin
<1>6. \A m \in P : ~(m < j)
  BY <1>2, <1>4, <1>5
<1>7. \A m \in 1 .. j - 1 : results[m] # results[j]
  BY <1>1, <1>6
<1> QED BY <1>7 DEF WithClass

\* The sequence of the n-th and the following k numbers.
LEMMA AppendNumbers ==
  ASSUME NEW M \in Nat, NEW s \in Seq(1 .. M), NEW n \in Nat, NEW k \in Nat, n + k <= M
  PROVE  LET g == s \o [j \in 1 .. k |-> n + j] IN
         /\ g \in Seq(1 .. M) /\ Len(g) = Len(s) + k
         /\ \A m \in 1 .. Len(s) : g[m] = s[m]
         /\ \A j \in 1 .. k : g[Len(s) + j] = n + j
<1> DEFINE t == [j \in 1 .. k |-> n + j]
           T == 1 .. M
<1>1. t \in [1 .. k -> T]
  OBVIOUS
<1>2. t \in Seq(T) /\ Len(t) = k
  <2>1. t \in Seq(T)
    BY <1>1, SeqDef
  <2>2. DOMAIN t = 1 .. k
    OBVIOUS
  <2> QED BY <2>1, <2>2, LenProperties
<1>3. \A j \in 1 .. k : t[j] = n + j
  OBVIOUS
<1> HIDE DEF t, T
<1>4. s \in Seq(T)
  BY DEF T
<1>5. /\ s \o t \in Seq(T) /\ Len(s \o t) = Len(s) + Len(t)
      /\ \A m \in 1 .. Len(s) + Len(t) :
           (s \o t)[m] = IF m <= Len(s) THEN s[m] ELSE t[m - Len(s)]
  BY <1>2, <1>4, ConcatProperties
<1> DEFINE l == Len(s)
<1>6. l \in Nat
  BY <1>4, LenProperties
<1>7. \A m \in 1 .. l + k : (s \o t)[m] = IF m <= l THEN s[m] ELSE t[m - l]
  BY <1>2, <1>5
<1> HIDE DEF l
<1>8. \A m \in 1 .. l : (s \o t)[m] = s[m]
  <2> TAKE m \in 1 .. l
  <2>1. m \in 1 .. l + k /\ m <= l
    BY <1>6
  <2> QED BY <1>7, <2>1
<1>9. \A j \in 1 .. k : (s \o t)[l + j] = n + j
  <2> TAKE j \in 1 .. k
  <2>1. l + j \in 1 .. l + k /\ ~(l + j <= l) /\ (l + j) - l = j
    BY <1>6
  <2> QED BY <1>3, <1>7, <2>1
<1> QED BY <1>2, <1>5, <1>8, <1>9 DEF t, T, l
-----------------------------------------------------------------------------
(***************************************************************************)
(* The objects of a reply.                                                 *)
(***************************************************************************)

\* Every class that an object needs has come with it, with an earlier object
\* of its reply or with a reply before.
LEMMA CacheStep ==
  ASSUME DataType, CacheInv, NEW k \in Returned, NEW bad \in 1 .. Chunk + 1, lost = {}
  PROVE  /\ ~Classless(Parsed(k, bad))
         /\ bad > k => \A i \in 1 .. served + k : results[i] \in CacheAfter(Parsed(k, bad))
<1> DEFINE P == Parsed(k, bad)
<1>1. k \in Nat /\ served + k <= Len(results)
  BY ReturnedLemma DEF CacheInv
<1>2. served \in Nat /\ Len(results) \in Nat /\ bad \in Nat
  BY LenProperties, ChunkAssumption DEF DataType
<1>3. \A i \in P : i \in served + 1 .. served + k /\ i < served + bad
  BY DEF Parsed
<1>4. \A j \in 1 .. served : results[j] \in cache
  BY DEF CacheInv
<1>5. ASSUME NEW i \in P, ~WithClass(i)
      PROVE  results[i] \in CacheAfter({j \in P : j < i})
  <2>1. i \in 1 .. Len(results) /\ i \in Nat
    BY <1>1, <1>2, <1>3
  <2>2. PICK j \in 1 .. i : results[j] = results[i] /\ WithClass(j)
    BY <2>1, FirstOfClass
  <2>3. j \in Nat /\ j < i
    BY <1>5, <2>1, <2>2
  <2>4. CASE j \in 1 .. served
    BY <1>4, <2>2, <2>4 DEF CacheAfter
  <2>5. CASE j \notin 1 .. served
    <3>1. j \in P
      BY <1>1, <1>2, <1>3, <2>1, <2>2, <2>3, <2>5 DEF Parsed
    <3> QED BY <2>2, <2>3, <3>1 DEF CacheAfter
  <2> QED BY <2>4, <2>5
<1>6. ~Classless(P)
  BY <1>5 DEF Classless, CacheInv
<1>7. ASSUME bad > k, NEW i \in 1 .. served + k
      PROVE  results[i] \in CacheAfter(P)
  <2>1. CASE i \in 1 .. served
    BY <1>4, <2>1 DEF CacheAfter
  <2>2. CASE i \notin 1 .. served
    <3>1. i \in P
      BY <1>1, <1>2, <1>7, <2>2 DEF Parsed
    <3>2. CASE WithClass(i)
      BY <3>1, <3>2 DEF CacheAfter
    <3>3. CASE ~WithClass(i)
      BY <1>5, <3>1, <3>3 DEF CacheAfter
    <3> QED BY <3>2, <3>3
  <2> QED BY <2>1, <2>2
<1> QED BY <1>6, <1>7

\* The objects of a reply are appended to what the program has.
LEMMA GotStep ==
  ASSUME DataType, ObjectInv, CacheInv, NEW k \in Returned, crash = "none",
         NEW g, g = got \o [j \in 1 .. k |-> served + j]
  PROVE  /\ g \in Seq(1 .. MaxObjects) /\ Len(g) <= served + k
         /\ Range(g) = (1 .. served + k) \ lost
         /\ \A m, n \in DOMAIN g : m < n => g[m] < g[n]
         /\ lost = {} => g = [i \in 1 .. served + k |-> i]
<1> DEFINE l == Len(got)
<1>1. k \in Nat /\ served + k <= Len(results)
  BY ReturnedLemma DEF CacheInv
<1>2. /\ served \in Nat /\ Len(results) \in Nat /\ l \in Nat /\ MaxObjects \in Nat
      /\ DOMAIN got = 1 .. l
  BY LenProperties, ChunkAssumption DEF DataType
<1>3. served + k <= MaxObjects
  BY <1>1, <1>2 DEF DataType
<1>4. /\ g \in Seq(1 .. MaxObjects) /\ Len(g) = l + k
      /\ \A m \in 1 .. l : g[m] = got[m]
      /\ \A j \in 1 .. k : g[l + j] = served + j
  BY <1>1, <1>2, <1>3, AppendNumbers DEF DataType
<1>5. /\ Range(got) = (1 .. served) \ lost
      /\ \A m, n \in DOMAIN got : m < n => got[m] < got[n]
      /\ lost = {} => got = [i \in 1 .. served |-> i]
      /\ l <= served /\ lost \subseteq 1 .. served
  BY DEF ObjectInv
<1> HIDE DEF l
<1>6. Len(g) <= served + k /\ DOMAIN g = 1 .. l + k
  BY <1>1, <1>2, <1>4, <1>5, LenProperties
<1>7. \A m \in 1 .. l : g[m] \in 1 .. served
  BY <1>2, <1>4, <1>5 DEF Range
<1>8. \A m \in (l + 1) .. l + k : m - l \in 1 .. k /\ g[m] = served + (m - l)
  <2> TAKE m \in (l + 1) .. l + k
  <2>1. m - l \in 1 .. k /\ l + (m - l) = m
    BY <1>1, <1>2
  <2> QED BY <1>4, <2>1
<1>9. \A m \in 1 .. l + k : m \in 1 .. l \/ m \in (l + 1) .. l + k
  BY <1>1, <1>2
<1>10. Range(g) = (1 .. served + k) \ lost
  <2>1. ASSUME NEW m \in 1 .. l + k PROVE g[m] \in (1 .. served + k) \ lost
    <3>1. CASE m \in 1 .. l
      <4>1. g[m] \in Range(got)
        BY <1>2, <1>4, <3>1 DEF Range
      <4> QED BY <1>1, <1>2, <1>5, <4>1
    <3>2. CASE m \in (l + 1) .. l + k
      <4>1. m - l \in 1 .. k /\ g[m] = served + (m - l)
        BY <1>8, <3>2
      <4> DEFINE d == m - l
      <4> HIDE DEF d
      <4>2. d \in 1 .. k /\ g[m] = served + d
        BY <4>1 DEF d
      <4>3. served + d \in 1 .. served + k /\ served + d \notin 1 .. served
        BY <1>1, <1>2, <4>2
      <4> QED BY <1>5, <4>2, <4>3
    <3> QED BY <1>9, <3>1, <3>2
  <2>2. ASSUME NEW x \in (1 .. served + k) \ lost PROVE \E m \in 1 .. l + k : g[m] = x
    <3>1. CASE x \in 1 .. served
      <4>1. PICK m \in 1 .. l : got[m] = x
        BY <1>2, <1>5, <3>1 DEF Range
      <4>2. m \in 1 .. l + k
        BY <1>1, <1>2
      <4> QED BY <1>4, <4>1, <4>2
    <3>2. CASE x \notin 1 .. served
      <4> DEFINE j == x - served
      <4>1. j \in 1 .. k /\ served + j = x
        BY <1>1, <1>2, <3>2
      <4> HIDE DEF j
      <4>2. l + j \in 1 .. l + k
        BY <1>1, <1>2, <4>1
      <4>3. g[l + j] = served + j
        BY <1>4, <4>1
      <4> QED BY <4>1, <4>2, <4>3
    <3> QED BY <3>1, <3>2
  <2> QED BY <1>6, <2>1, <2>2 DEF Range
<1>11. ASSUME NEW m \in DOMAIN g, NEW n \in DOMAIN g, m < n PROVE g[m] < g[n]
  <2>1. CASE n \in 1 .. l
    <3>1. m \in 1 .. l
      BY <1>1, <1>2, <1>6, <1>11, <2>1
    <3> QED BY <1>2, <1>4, <1>5, <1>11, <2>1, <3>1
  <2>2. CASE n \in (l + 1) .. l + k
    <3> DEFINE d == n - l
    <3>1. d \in 1 .. k /\ g[n] = served + d
      BY <1>8, <2>2
    <3>2. CASE m \in 1 .. l
      <4> HIDE DEF d
      <4>1. g[m] \in 1 .. served
        BY <1>7, <3>2
      <4> QED BY <1>1, <1>2, <3>1, <4>1
    <3>3. CASE m \in (l + 1) .. l + k
      <4> DEFINE e == m - l
      <4>1. e \in 1 .. k /\ g[m] = served + e
        BY <1>8, <3>3
      <4>2. e < d
        BY <1>1, <1>2, <1>6, <1>11
      <4> HIDE DEF d, e
      <4> QED BY <1>1, <1>2, <3>1, <4>1, <4>2
    <3> QED BY <1>6, <1>9, <3>2, <3>3
  <2> QED BY <1>6, <1>9, <2>1, <2>2
<1>12. ASSUME lost = {} PROVE g = [i \in 1 .. served + k |-> i]
  <2>1. DOMAIN got = 1 .. served /\ \A i \in 1 .. served : got[i] = i
    BY <1>5, <1>12
  <2>2. l = served
    BY <1>2, <2>1
  <2>3. \A i \in 1 .. l + k : g[i] = i
    <3> TAKE i \in 1 .. l + k
    <3>1. CASE i \in 1 .. l
      BY <1>4, <2>1, <2>2, <3>1
    <3>2. CASE i \in (l + 1) .. l + k
      <4>1. g[i] = l + (i - l)
        BY <1>8, <2>2, <3>2
      <4> QED BY <1>1, <1>2, <4>1
    <3> QED BY <1>9, <3>1, <3>2
  <2>4. g = [i \in DOMAIN g |-> g[i]]
    <3>1. g \in [1 .. Len(g) -> 1 .. MaxObjects]
      BY <1>4, LenProperties
    <3> QED BY <3>1
  <2> QED BY <1>6, <2>2, <2>3, <2>4
<1> QED BY <1>4, <1>6, <1>10, <1>11, <1>12
-----------------------------------------------------------------------------
(***************************************************************************)
(* The objects and the result of the program, step by step.                *)
(***************************************************************************)
Objects == DataType /\ CacheInv /\ ObjectInv

\* Only a reply to Next changes the objects and the cache.
LEMMA QuietStep ==
  ASSUME Objects, UNCHANGED <<cache, freed, dataVars>>,
         crash' \in {crash, "interface"}, crash # "none" => crash' # "none"
  PROVE  Objects'
<1>1. DataType'
  BY DEF Objects, DataType, dataVars
<1>2. CacheInv'
  BY DEF Objects, CacheInv, dataVars
<1>3. ObjectInv'
  BY DEF Objects, ObjectInv, dataVars
<1> QED BY <1>1, <1>2, <1>3 DEF Objects

\* A call before Next, or one that fails.
LEMMA OtherSteps ==
  ASSUME CtlType, Objects, ResultInv, EnumInv,
         \/ \E reply \in Replies : Activated(reply)
         \/ \E ok \in BOOLEAN : LoginDone(ok) \/ QueryDone(ok) \/ ResetDone(ok)
         \/ LoginReleased
         \/ OtherQuery
         \/ SmartNext_send
         \/ \E reply \in Replies \cup {"s_false"} : QueryInterfaceDone(reply) \/ FetchDone(reply)
         \/ NextFailed
         \/ ReleaseDone
  PROVE  Objects' /\ ResultInv'
<1> USE DEF Ends, GoesTo, Crashes, enumVars, dataVars
<1> DEFINE Quiet == /\ UNCHANGED <<cache, freed, dataVars>> /\ crash = "none"
                    /\ crash' \in {crash, "interface"}
<1>1. ASSUME NEW reply \in Replies, Activated(reply) PROVE Quiet /\ ResultInv'
  BY <1>1 DEF Activated, Replies, CtlType, ResultInv
<1>2. ASSUME NEW ok \in BOOLEAN, LoginDone(ok) PROVE Quiet /\ ResultInv'
  BY <1>2 DEF LoginDone, CtlType, ResultInv
<1>3. ASSUME NEW ok \in BOOLEAN, QueryDone(ok) PROVE Quiet /\ ResultInv'
  BY <1>3 DEF QueryDone, CtlType, ResultInv
<1>4. ASSUME NEW ok \in BOOLEAN, ResetDone(ok) PROVE Quiet /\ ResultInv'
  BY <1>4 DEF ResetDone, CtlType, ResultInv
<1>5. CASE LoginReleased
  <2>1. Quiet /\ ResultInv'
    BY <1>5 DEF LoginReleased, CtlType, ResultInv
  <2> HIDE DEF dataVars
  <2> QED BY <2>1, QuietStep
<1>6. CASE OtherQuery
  <2>1. Quiet /\ ResultInv'
    BY <1>6 DEF OtherQuery, CtlType, ResultInv
  <2> HIDE DEF dataVars
  <2> QED BY <2>1, QuietStep
<1>7. CASE SmartNext_send
  <2>1. Quiet /\ ResultInv'
    BY <1>7 DEF SmartNext_send, CtlType, ResultInv
  <2> HIDE DEF dataVars
  <2> QED BY <2>1, QuietStep
<1>8. ASSUME NEW reply \in Replies \cup {"s_false"}, QueryInterfaceDone(reply)
      PROVE  Quiet /\ ResultInv'
  BY <1>8 DEF QueryInterfaceDone, Replies, SmartNextFails, CtlType, ResultInv, Odd, Programs
<1>9. ASSUME NEW reply \in Replies \cup {"s_false"}, FetchDone(reply)
      PROVE  Quiet /\ ResultInv'
  BY <1>9 DEF FetchDone, Replies, SmartNextFails, CtlType, ResultInv, Odd, Programs
<1>11. CASE NextFailed
  <2>1. Quiet /\ ResultInv'
    BY <1>11 DEF NextFailed, SmartNextFails, CtlType, ResultInv
  <2> HIDE DEF dataVars
  <2> QED BY <2>1, QuietStep
<1>12. CASE ReleaseDone
  <2>1. Quiet /\ ResultInv'
    BY <1>12 DEF ReleaseDone, CtlType, ResultInv
  <2> HIDE DEF dataVars
  <2> QED BY <2>1, QuietStep
<1> HIDE DEF dataVars, enumVars, Ends, GoesTo, Crashes
<1> QED BY <1>1, <1>2, <1>3, <1>4, <1>5, <1>6, <1>7, <1>8, <1>9, <1>11, <1>12, QuietStep

\* The end of IEnumWbemClassObject_SmartNext keeps what is said of the objects.
LEMMA NextDoneStep ==
  ASSUME CtlType, Objects, ResultInv, EnumInv,
         NEW k \in 0 .. Chunk, NEW data \in BOOLEAN, NEW bad \in 1 .. Chunk + 1,
         NextDone(k, data, bad)
  PROVE  Objects' /\ ResultInv'
<1> DEFINE P == Parsed(k, bad)
           g == got \o [j \in 1 .. k |-> served + j]
<1>1. /\ stage = "next" /\ k \in Returned /\ code = "none" /\ crash = "none"
      /\ DataType /\ CacheInv /\ ObjectInv
  BY DEF NextDone, ResultInv, Objects
<1>2. /\ k \in Nat /\ served + k <= Len(results) /\ served \in Nat /\ Len(results) \in Nat
      /\ program # "watcher" /\ k # Chunk => served + k = Len(results)
  BY <1>1, ReturnedLemma, LenProperties DEF CacheInv, DataType
<1>3. /\ served' = served + k /\ cache' = CacheAfter(P) /\ results' = results
      /\ program' = program /\ odd' = odd /\ freed' = FreedAfter(P)
  BY DEF NextDone
<1>4. freed' = {}
  BY <1>1, <1>3 DEF FreedAfter, Outlives, CacheInv
<1>5. \A i \in P : i \in 1 .. Len(results)
  BY <1>2 DEF Parsed
<1>6. CacheAfter(P) \subseteq Classes
  <2>1. \A i \in P : results[i] \in Classes
    BY <1>1, <1>5, ElementOfSeq DEF DataType
  <2> QED BY <1>1, <2>1 DEF CacheAfter, DataType
<1>7. lost = {} => ~Classless(P) /\ (bad > k => \A i \in 1 .. served + k : results[i] \in CacheAfter(P))
  BY <1>1, CacheStep
<1>8. /\ served + k \in 0 .. MaxObjects /\ MaxObjects \in Nat
      /\ \A i \in 1 .. served : i \in 1 .. served + k
      /\ \A i \in 1 .. served + k : i \in 1 .. MaxObjects
  BY <1>1, <1>2, ChunkAssumption DEF DataType
<1>9. Len(got) \in Nat /\ Len(got) <= served /\ Len(got) <= served + k
  BY <1>1, <1>2, LenProperties DEF DataType, ObjectInv
<1>10. CASE Classless(P)
  <2>1. /\ crash' = "class" /\ stage' = "ended" /\ code' = "error"
        /\ UNCHANGED <<got, lost>> /\ lost # {}
    BY <1>7, <1>10 DEF NextDone, Crashes, Ends
  <2>2. DataType'
    BY <1>1, <1>3, <1>4, <1>6, <1>8, <2>1 DEF DataType
  <2>3. CacheInv'
    BY <1>2, <1>3, <1>4, <2>1 DEF CacheInv
  <2>4. ObjectInv'
    BY <1>1, <1>3, <1>8, <1>9, <2>1 DEF ObjectInv
  <2>5. ResultInv'
    BY <1>3, <2>1 DEF ResultInv
  <2> QED BY <2>2, <2>3, <2>4, <2>5 DEF Objects
<1>11. CASE ~Classless(P) /\ bad <= k
  <2>1. /\ crash' = crash /\ got' = got /\ lost' = lost \cup (served + 1 .. served + k)
        /\ Continues(0, "parse")
    BY <1>11 DEF NextDone
  <2>2. \A i \in served + 1 .. served + k : i \in 1 .. served + k /\ i \notin 1 .. served
    BY <1>2
  <2>3. served + 1 \in served + 1 .. served + k
    BY <1>2, <1>11
  <2>4. DataType'
    BY <1>1, <1>3, <1>4, <1>6, <1>8, <2>1, <2>2 DEF DataType
  <2>5. CacheInv'
    BY <1>1, <1>2, <1>3, <1>4, <2>1, <2>3 DEF CacheInv
  <2>6. ObjectInv'
    <3>1. (1 .. served + k) \ lost' = (1 .. served) \ lost
      <4>1. \A i \in 1 .. served + k : i \in 1 .. served \/ i \in served + 1 .. served + k
        BY <1>2
      <4> QED BY <1>8, <2>1, <2>2, <4>1
    <3>2. lost' \subseteq 1 .. served + k /\ lost' # {}
      BY <1>1, <1>8, <2>1, <2>2, <2>3 DEF ObjectInv
    <3> QED BY <1>1, <1>3, <1>9, <2>1, <3>1, <3>2 DEF ObjectInv
  <2>7. ResultInv'
    <3>1. \/ program = "watcher" /\ stage' = "ready" /\ code' = code
          \/ program # "watcher" /\ stage' = "ended" /\ code' = "error"
      BY <2>1 DEF Continues, Ends, GoesTo, CtlType, Programs
    <3> QED BY <1>1, <1>3, <2>1, <3>1 DEF ResultInv
  <2> QED BY <2>4, <2>5, <2>6, <2>7 DEF Objects
<1>12. CASE ~Classless(P) /\ ~(bad <= k)
  <2>1. /\ crash' = crash /\ got' = g /\ lost' = lost
        /\ Continues(k, IF k = 0 /\ data THEN "badfunc" ELSE "none")
    BY <1>12 DEF NextDone
  <2>2. bad > k
    BY <1>2, <1>12, ChunkAssumption
  <2> HIDE DEF g
  <2>3. /\ g \in Seq(1 .. MaxObjects) /\ Len(g) <= served + k
        /\ Range(g) = (1 .. served + k) \ lost
        /\ \A m, n \in DOMAIN g : m < n => g[m] < g[n]
        /\ lost = {} => g = [i \in 1 .. served + k |-> i]
    BY <1>1, GotStep DEF g
  <2>4. DataType'
    <3>1. Len(g) <= MaxObjects
      BY <1>8, <2>3, LenProperties
    <3> QED BY <1>1, <1>3, <1>4, <1>6, <1>8, <2>1, <2>3, <3>1 DEF DataType
  <2>5. CacheInv'
    BY <1>1, <1>2, <1>3, <1>4, <1>7, <2>1, <2>2 DEF CacheInv
  <2>6. ObjectInv'
    BY <1>1, <1>3, <1>8, <2>1, <2>3 DEF ObjectInv
  <2>7. ResultInv'
    <3>1. \/ program = "watcher" /\ stage' = "ready" /\ code' = code
          \/ program # "watcher" /\ stage' = "ready" /\ code' = code
          \/ program # "watcher" /\ stage' = "ended" /\ code' = "error"
          \/ /\ program # "watcher" /\ k # Chunk
             /\ \/ stage' = "ended" /\ code' = "ok"
                \/ stage' = "release" /\ code' = code
      BY <2>1, ChunkAssumption DEF Continues, Ends, GoesTo, CtlType, Programs, More
    <3> QED BY <1>1, <1>2, <1>3, <2>1, <3>1 DEF ResultInv
  <2> QED BY <2>4, <2>5, <2>6, <2>7 DEF Objects
<1> QED BY <1>10, <1>11, <1>12
-----------------------------------------------------------------------------
\* Initially nothing was served.
LEMMA InitInv == Init => IndInv
<1> SUFFICES ASSUME Init PROVE IndInv
  OBVIOUS
<1>1. CtlType /\ EnumInv /\ ResultInv
  BY DEF Init, CtlType, EnumInv, ResultInv, Programs
<1>2. results \in Seq(Classes) /\ Len(results) <= MaxObjects /\ Len(results) \in Nat
  BY BoundedSeqLemma, LenProperties, ChunkAssumption DEF Init
<1>3. Len(got) = 0 /\ got \in Seq(1 .. MaxObjects) /\ DOMAIN got = {} /\ 1 .. 0 = {}
  <2>1. got = <<>>
    BY DEF Init
  <2> QED BY <2>1, EmptySeq
<1>4. served = 0 /\ 0 \in 0 .. MaxObjects /\ MaxObjects \in Nat
  BY ChunkAssumption DEF Init
<1>5. lost = {} /\ cache = {} /\ freed = {} /\ crash = "none" /\ got = <<>>
  BY DEF Init
<1>6. DataType
  BY <1>2, <1>3, <1>4, <1>5 DEF DataType
<1>7. CacheInv
  BY <1>2, <1>3, <1>4, <1>5 DEF CacheInv
<1>8. ObjectInv
  <2>1. Range(got) = {}
    BY <1>3 DEF Range
  <2>2. got = [i \in 1 .. 0 |-> i]
    BY <1>3, <1>5
  <2> QED BY <1>3, <1>4, <1>5, <2>1, <2>2 DEF ObjectInv
<1> QED BY <1>1, <1>6, <1>7, <1>8, TypeParts DEF IndInv

\* Every step keeps the inductive invariant.
LEMMA NextInv == IndInv /\ [Next]_vars => IndInv'
<1> SUFFICES ASSUME IndInv, [Next]_vars PROVE IndInv'
  OBVIOUS
<1>1. CtlType /\ EnumInv /\ Objects /\ ResultInv
  BY TypeParts DEF IndInv, Objects
<1>2. CASE Next
  <2>1. CtlType' /\ EnumInv'
    BY <1>1, <1>2, EnumStep
  <2>2. Objects' /\ ResultInv'
    BY <1>1, <1>2, OtherSteps, NextDoneStep DEF Next
  <2>3. TypeOK'
    BY <2>1, <2>2, BoundedSeqLemma, ChunkAssumption DEF Objects, TypeOK, CtlType, DataType
  <2> QED BY <2>1, <2>2, <2>3 DEF IndInv, Objects
<1>3. CASE UNCHANGED vars
  BY <1>3 DEF vars, enumVars, dataVars, IndInv, TypeOK, EnumInv, Held, CacheInv, ObjectInv, ResultInv
<1> QED BY <1>2, <1>3

\* IndInv holds in every state.
LEMMA Invariance == Spec => []IndInv
  BY InitInv, NextInv, PTL DEF Spec

\* The state of a query keeps its type; in particular no program gets more
\* objects than the query finds.
THEOREM TypeCorrect == Spec => []TypeOK
<1>1. IndInv => TypeOK
  BY DEF IndInv
<1> QED BY <1>1, Invariance, PTL

\* For any number of objects, any chunk size and any mixture of replies, each
\* program has exactly the objects of the replies it could parse, in order,
\* and one that reports success has all of them (IEnumWbemClassObject_SmartNext
\* and the loops of wmic.c, torture/dcom/dcom.c and Query.py).
THEOREM AllObjectsSafe == Spec => []AllObjects
<1>1. ASSUME IndInv PROVE AllObjects
  <2>1. ASSUME code = "ok", "s_false" \notin odd PROVE got = [i \in 1 .. Len(results) |-> i]
    <3>1. crash = "none" /\ lost = {} /\ served = Len(results)
      BY <1>1, <2>1 DEF IndInv, TypeOK, ResultInv
    <3> QED BY <1>1, <3>1 DEF IndInv, ObjectInv
  <2> QED BY <1>1, <2>1 DEF AllObjects, IndInv, ObjectInv
<1>2. IndInv => AllObjects
  BY <1>1
<1> QED BY <1>2, Invariance, PTL

\* SmartNext never calls an interface that is not there unless a reply left it
\* out, and the parser never reads an object without its class unless an
\* earlier reply was lost: the class comes with the first object of it, and
\* add_pair_guid_ptr keeps it when the object is freed.
THEOREM SoundPointersSafe == Spec => []SoundPointers
<1>1. IndInv => SoundPointers
  BY DEF IndInv, EnumInv, CacheInv, SoundPointers
<1> QED BY <1>1, Invariance, PTL

\* The Release of an enumerator gives back all the references it holds, unless
\* another query has reset the function in the shared vtable.
THEOREM ReleasesAllSafe == Spec => []ReleasesAll
<1>1. IndInv => ReleasesAll
  BY DEF IndInv, EnumInv, ReleasesAll
<1> QED BY <1>1, Invariance, PTL
=============================================================================
