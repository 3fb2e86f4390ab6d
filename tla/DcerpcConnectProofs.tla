------------------------ MODULE DcerpcConnectProofs -------------------------
(***************************************************************************)
(* Theorems about DcerpcConnect, for any number of rounds of gensec: what  *)
(* is left of a connect when its caller is told, that no continuation runs *)
(* on a context that was freed, and that the pipe given is authenticated.  *)
(*                                                                         *)
(* The inductive invariant says how the talloc tree looks in every stage.  *)
(***************************************************************************)
EXTENDS DcerpcConnect, FiniteSetTheorems, TLAPS

(***************************************************************************)
(* The trees.                                                              *)
(***************************************************************************)
Trees == [Objects -> Objects \cup {Caller, None}]

\* Nothing is allocated but what is in A.
Only(par, A) == \A x \in Objects \ A : par[x] = None

NoTree(par) == Only(par, {})

\* The context of chain 1 with its pipe, and nothing else.
PlainTree(par) ==
  /\ par[Connect(1)] = Caller
  /\ par[Pipe(1)] = Connect(1)
  /\ Only(par, {Connect(1), Pipe(1)})

\* The endpoint is being mapped, and chain 2 is not there (any more).
MappedTree(par) ==
  /\ par[Connect(1)] = Caller
  /\ par[Pipe(1)] = Connect(1)
  /\ par[Epm(1)] = Connect(1)
  /\ Only(par, {Connect(1), Pipe(1), Epm(1)})

\* Chain 2 is below the mapping of chain 1, with the contexts in A below its own.
MappingTree(par, A) ==
  /\ par[Connect(1)] = Caller
  /\ par[Pipe(1)] = Connect(1)
  /\ par[Epm(1)] = Connect(1)
  /\ par[Connect(2)] = Epm(1)
  /\ par[Pipe(2)] = Connect(2)
  /\ \A x \in A : par[x] = Connect(2)
  /\ Only(par, {Connect(1), Pipe(1), Epm(1), Connect(2), Pipe(2)} \cup A)

\* The pipe to the mapper belongs to the mapping.
MapcallTree(par) ==
  /\ par[Connect(1)] = Caller
  /\ par[Pipe(1)] = Connect(1)
  /\ par[Epm(1)] = Connect(1)
  /\ par[Pipe(2)] = Epm(1)
  /\ Only(par, {Connect(1), Pipe(1), Epm(1), Pipe(2)})

\* The first try to authenticate.
FirstTree(par) ==
  /\ par[Connect(1)] = Caller
  /\ par[Pipe(1)] = Connect(1)
  /\ par[Auth(1)] = Connect(1)
  /\ Only(par, {Connect(1), Pipe(1), Auth(1)})

\* The second connection is being opened.
ReopenTree(par) ==
  /\ par[Connect(1)] = Caller
  /\ par[Pipe(1)] = Connect(1)
  /\ par[Auth(1)] = Connect(1)
  /\ par[Second(1)] = Connect(1)
  /\ par[Pipe2(1)] = Second(1)
  /\ Only(par, {Connect(1), Pipe(1), Auth(1), Second(1), Pipe2(1)})

\* The second try: both pipes belong to the context of the authentication.
AgainTree(par) ==
  /\ par[Connect(1)] = Caller
  /\ par[Auth(1)] = Connect(1)
  /\ par[Pipe(1)] = Auth(1)
  /\ par[Pipe2(1)] = Auth(1)
  /\ Only(par, {Connect(1), Pipe(1), Auth(1), Pipe2(1)})

\* What the caller is left with.
GivenTree(par, p) == par[p] = Caller /\ Only(par, {p})

\* The tree while chain 1 binds on p.
AuthTreeOn(par, p) ==
  \/ p = Pipe(1) /\ FirstTree(par)
  \/ p = Pipe2(1) /\ AgainTree(par)

(***************************************************************************)
(* The inductive invariant.                                                *)
(***************************************************************************)
\* Chain 2 while chain 1 is in continue_epm_recv_binding's wait for it.
MappingInv ==
  \/ at[2] = "mapped" /\ MappingTree(parent, {Epm(2)})
  \/ at[2] = "opening" /\ MappingTree(parent, {})
  \/ at[2] = "binding" /\ MappingTree(parent, {Auth(2)})

\* The bind on pipe p while chain 1 waits in stage for it.
BindInv(stage, p) ==
  /\ stage = "binding" /\ ~anonymous => gensec[p] \in {"more", "ok"}
  /\ stage = "altering" => bound[p] = "bound"
  /\ stage = "early" /\ early[1] = "OK" => mute

PendingInv ==
  \/ at[1] = "idle" /\ pipe_of[1] = Pipe(1) /\ NoTree(parent)
  \/ at[1] = "mapped" /\ pipe_of[1] = Pipe(1) /\ MappedTree(parent)
  \/ at[1] = "mapping" /\ pipe_of[1] = Pipe(1) /\ MappingInv
  \/ /\ at[1] = "mapcall" /\ pipe_of[1] = Pipe(1) /\ MapcallTree(parent)
     /\ at[2] = "ended"
  \/ at[1] = "opening" /\ pipe_of[1] = Pipe(1) /\ PlainTree(parent)
  \/ at[1] \in {"binding", "altering", "early"} /\ AuthTreeOn(parent, pipe_of[1])
                                                /\ BindInv(at[1], pipe_of[1])
  \/ at[1] = "reopening" /\ pipe_of[1] = Pipe(1) /\ ReopenTree(parent) /\ ~auto[1]

\* When the caller was told, no stage of a chain has anything to wait for.
ToldInv ==
  \/ result = "pending" /\ told = 0 /\ PendingInv
  \/ /\ result = "OK" /\ told = 1
     /\ at[1] = "ended" /\ given = pipe_of[1]
     /\ given \in {Pipe(1), Pipe2(1)} /\ GivenTree(parent, given)
  \/ result = "error" /\ told = 1 /\ NoTree(parent) /\ at[1] # "idle"

\* A second try is not followed by a third, and the chain of the endpoint mapper
\* has one pipe and no credentials.
TriesInv ==
  /\ auto[1] => pipe_of[1] = Pipe(1)
  /\ ~auto[2]
  /\ pipe_of[2] = Pipe(2)
  /\ gensec[Pipe(2)] = "none"

IndInv ==
  /\ TypeOK
  /\ ToldInv
  /\ TriesInv
  /\ NoStaleContext
  /\ AuthComplete
-----------------------------------------------------------------------------
(***************************************************************************)
(* The objects                                                             *)
(***************************************************************************)
\* The names of the objects tell them apart.
LEMMA ObjectNames ==
  /\ Connect(1)[1] = "connect" /\ Connect(1)[2] = 1
  /\ Connect(2)[1] = "connect" /\ Connect(2)[2] = 2
  /\ Epm(1)[1] = "epm" /\ Epm(1)[2] = 1
  /\ Epm(2)[1] = "epm" /\ Epm(2)[2] = 2
  /\ Auth(1)[1] = "auth" /\ Auth(1)[2] = 1
  /\ Auth(2)[1] = "auth" /\ Auth(2)[2] = 2
  /\ Second(1)[1] = "second" /\ Second(1)[2] = 1
  /\ Pipe(1)[1] = "pipe" /\ Pipe(1)[2] = 1
  /\ Pipe(2)[1] = "pipe" /\ Pipe(2)[2] = 2
  /\ Pipe2(1)[1] = "pipe2" /\ Pipe2(1)[2] = 1
  /\ Pipe2(2)[1] = "pipe2" /\ Pipe2(2)[2] = 2
  /\ Caller[1] = "caller" /\ Caller[2] = 0
  /\ None[1] = "none" /\ None[2] = 0
BY DEF Connect, Epm, Auth, Second, Pipe, Pipe2, Caller, None

\* The objects that a connect uses, and what is none.
LEMMA ObjectSets ==
  /\ {Connect(1), Connect(2), Epm(1), Epm(2), Auth(1), Auth(2), Second(1),
      Pipe(1), Pipe(2), Pipe2(1), Pipe2(2)} \subseteq Objects
  /\ Caller \notin Objects
  /\ None \notin Objects
  /\ {Pipe(1), Pipe(2), Pipe2(1), Pipe2(2)} \subseteq Pipes
  /\ Pipes \subseteq Objects
  /\ Chains = {1, 2}
BY DEF Objects, Kinds, Pipes, Chains, Connect, Epm, Auth, Second, Pipe, Pipe2, Caller, None

\* There are objects enough for the levels of any tree here.
LEMMA ObjectCount == Cardinality(Objects) \in Nat /\ Cardinality(Objects) >= 3
<1>1. IsFiniteSet(Kinds) /\ IsFiniteSet(Chains)
  <2>1. IsFiniteSet({"connect"})
    BY FS_Singleton
  <2>2. IsFiniteSet({})
    BY FS_EmptySet
  <2>3. \A S, x : IsFiniteSet(S) => IsFiniteSet(S \cup {x})
    BY FS_AddElement
  <2>4. IsFiniteSet(({} \cup {1}) \cup {2})
    BY <2>2, <2>3
  <2>5. IsFiniteSet((((((({} \cup {"connect"}) \cup {"epm"}) \cup {"auth"}) \cup {"second"})
                      \cup {"pipe"}) \cup {"pipe2"}))
    BY <2>2, <2>3
  <2>6. ({} \cup {1}) \cup {2} = Chains
    BY DEF Chains
  <2>7. ((((({} \cup {"connect"}) \cup {"epm"}) \cup {"auth"}) \cup {"second"})
         \cup {"pipe"}) \cup {"pipe2"} = Kinds
    BY DEF Kinds
  <2> QED BY <2>4, <2>5, <2>6, <2>7
<1>2. IsFiniteSet(Objects)
  BY <1>1, FS_Product DEF Objects
<1> DEFINE T == {Connect(1), Epm(1), Auth(1)}
<1>3. T \subseteq Objects
  BY ObjectSets
<1>4. Cardinality({}) = 0 /\ IsFiniteSet({})
  BY FS_EmptySet
<1>5. Cardinality({Connect(1)}) = 1 /\ IsFiniteSet({Connect(1)})
  BY FS_Singleton
<1>6. Epm(1) \notin {Connect(1)} /\ Auth(1) \notin {Connect(1)} \cup {Epm(1)}
  BY ObjectNames
<1>7. /\ IsFiniteSet({Connect(1)} \cup {Epm(1)})
      /\ Cardinality({Connect(1)} \cup {Epm(1)}) = 2
  BY <1>5, <1>6, FS_AddElement
<1>8. Cardinality(({Connect(1)} \cup {Epm(1)}) \cup {Auth(1)}) = 3
  BY <1>6, <1>7, FS_AddElement
<1>9. ({Connect(1)} \cup {Epm(1)}) \cup {Auth(1)} = T
  OBVIOUS
<1>10. Cardinality(T) = 3
  BY <1>8, <1>9
<1> HIDE DEF T
<1>11. Cardinality(T) <= Cardinality(Objects) /\ Cardinality(Objects) \in Nat
  BY <1>2, <1>3, FS_Subset, FS_CardinalityType
<1> QED BY <1>10, <1>11
-----------------------------------------------------------------------------
(***************************************************************************)
(* What is below an object                                                 *)
(***************************************************************************)
\* A set of numbers has a least one.
LEMMA FirstOfSet ==
  ASSUME NEW P \in SUBSET Nat, P # {}
  PROVE  \E i \in P : \A j \in P : i <= j
<1> DEFINE R == OpToRel(<, Nat)
<1>1. IsWellFoundedOn(R, Nat)
  BY NatLessThanWellFounded
<1>2. R = {ss \in Nat \X Nat : ss[1] < ss[2]}
  BY DEF OpToRel
<1> HIDE DEF R
<1>3. PICK i \in P : \A j \in P : ~(<<j, i>> \in R)
  BY <1>1, WFMin
<1>4. \A j \in P : ~(j < i)
  BY <1>2, <1>3
<1> QED BY <1>4

\* The levels of the tree below o, down to m.
Deeper(par, S) == S \cup {x \in Objects : par[x] \in S}

IsLevels(g, m, par, o) ==
  /\ g = [n \in 0 .. m |-> g[n]]
  /\ g[0] = {o}
  /\ \A n \in 1 .. m : g[n] = Deeper(par, g[n - 1])

\* There are levels down to any number.
LEMMA LevelsExist ==
  ASSUME NEW par, NEW o, NEW N \in Nat
  PROVE  \E g : IsLevels(g, N, par, o)
<1> DEFINE T == {m \in 0 .. N : ~ \E g : IsLevels(g, m, par, o)}
<1>0. N \in 0 .. N
  OBVIOUS
<1> SUFFICES ASSUME T # {} PROVE FALSE
  BY <1>0
<1>1. T \in SUBSET Nat
  OBVIOUS
<1>2. PICK m \in T : \A j \in T : m <= j
  BY <1>1, FirstOfSet
<1>3. m \in 0 .. N /\ ~ \E g : IsLevels(g, m, par, o)
  OBVIOUS
<1>4. m # 0
  <2> DEFINE g == [n \in 0 .. 0 |-> {o}]
  <2>1. g = [n \in 0 .. 0 |-> g[n]] /\ g[0] = {o} /\ 1 .. 0 = {}
    OBVIOUS
  <2>2. IsLevels(g, 0, par, o)
    <3> HIDE DEF g
    <3> QED BY <2>1 DEF IsLevels
  <2> QED BY <1>3, <2>2
<1>5. m - 1 \in 0 .. N /\ ~(m <= m - 1)
  BY <1>3, <1>4
<1>6. m - 1 \notin T
  BY <1>2, <1>5
<1>7. PICK g : IsLevels(g, m - 1, par, o)
  BY <1>5, <1>6
<1> DEFINE h == [n \in 0 .. m |-> IF n = m THEN Deeper(par, g[m - 1]) ELSE g[n]]
<1>8. h = [n \in 0 .. m |-> h[n]]
  OBVIOUS
<1>9. h[0] = {o}
  BY <1>3, <1>4, <1>7 DEF IsLevels
<1>10. ASSUME NEW n \in 1 .. m PROVE h[n] = Deeper(par, h[n - 1])
  <2>1. h[n - 1] = g[n - 1] /\ n \in 0 .. m
    BY <1>3, <1>4
  <2>2. CASE n = m
    BY <2>1, <2>2
  <2>3. CASE n # m
    <3>1. n \in 1 .. m - 1
      BY <1>3, <2>3
    <3>2. g[n] = Deeper(par, g[n - 1])
      BY <1>7, <3>1 DEF IsLevels
    <3> QED BY <2>1, <2>3, <3>2
  <2> QED BY <2>2, <2>3
<1>11. IsLevels(h, m, par, o)
  <2> HIDE DEF h
  <2> QED BY <1>8, <1>9, <1>10 DEF IsLevels
<1> QED BY <1>3, <1>11

\* The recursion that defines what is below o.
LEMMA BelowLevels ==
  ASSUME NEW par, NEW o, NEW K, K = Cardinality(Objects)
  PROVE  \E g : IsLevels(g, K, par, o) /\ Below(par, o) = g[K]
<1>0. K \in Nat
  BY ObjectCount
<1> DEFINE F(s) == [n \in 0 .. Cardinality(Objects) |->
                      IF n = 0 THEN {o}
                      ELSE s[n - 1] \cup {x \in Objects : par[x] \in s[n - 1]}]
<1> DEFINE L == CHOOSE s : s = F(s)
<1>1. PICK g : IsLevels(g, K, par, o)
  BY <1>0, LevelsExist
<1>2. g = F(g)
  <2>1. ASSUME NEW n \in 0 .. Cardinality(Objects)
        PROVE  g[n] = IF n = 0 THEN {o}
                      ELSE g[n - 1] \cup {x \in Objects : par[x] \in g[n - 1]}
    <3>1. CASE n = 0
      BY <1>1, <3>1 DEF IsLevels
    <3>2. CASE n # 0
      <4>1. n \in 1 .. K
        BY <3>2, <1>0
      <4>2. g[n] = Deeper(par, g[n - 1])
        BY <1>1, <4>1 DEF IsLevels
      <4> QED BY <3>2, <4>2 DEF Deeper
    <3> QED BY <3>1, <3>2
  <2>2. g = [n \in 0 .. K |-> g[n]]
    BY <1>1 DEF IsLevels
  <2> QED BY <2>1, <2>2
<1>3. L = F(L)
  <2> HIDE DEF F
  <2> QED BY <1>2
<1>4. Below(par, o) = L[K]
  BY DEF Below
<1> HIDE DEF L
<1>5. L[0] = {o} /\ L = [n \in 0 .. K |-> L[n]]
  BY <1>0, <1>3
<1>6. ASSUME NEW n \in 1 .. K PROVE L[n] = Deeper(par, L[n - 1])
  BY <1>0, <1>3 DEF Deeper
<1>7. IsLevels(L, K, par, o)
  BY <1>5, <1>6 DEF IsLevels
<1> QED BY <1>4, <1>7

\* x is o, or at most three steps below it.
Within(par, o, x) ==
  \/ x = o
  \/ par[x] = o
  \/ /\ par[x] \in Objects
     /\ \/ par[par[x]] = o
        \/ par[par[x]] \in Objects /\ par[par[par[x]]] = o

\* The levels find what is within three steps.
LEMMA BelowFinds ==
  ASSUME NEW par, NEW o, NEW x \in Objects, Within(par, o, x)
  PROVE  x \in Below(par, o)
<1> DEFINE K == Cardinality(Objects)
<1>1. K \in Nat /\ K >= 3
  BY ObjectCount
<1>2. PICK g : IsLevels(g, K, par, o) /\ Below(par, o) = g[K]
  BY BelowLevels
<1> HIDE DEF K
<1>3. \A n \in 1 .. K : g[n] = Deeper(par, g[n - 1])
  BY <1>2 DEF IsLevels
<1>4. g[0] = {o} /\ g[1] = Deeper(par, g[0]) /\ g[2] = Deeper(par, g[1])
      /\ g[3] = Deeper(par, g[2])
  <2>1. 1 \in 1 .. K /\ 2 \in 1 .. K /\ 3 \in 1 .. K
    BY <1>1
  <2>2. 1 - 1 = 0 /\ 2 - 1 = 1 /\ 3 - 1 = 2
    OBVIOUS
  <2>3. g[1] = Deeper(par, g[1 - 1]) /\ g[2] = Deeper(par, g[2 - 1])
        /\ g[3] = Deeper(par, g[3 - 1])
    BY <1>3, <2>1
  <2>4. g[0] = {o}
    BY <1>2 DEF IsLevels
  <2> QED BY <2>2, <2>3, <2>4
<1>5. x \in g[3]
  BY <1>4 DEF Within, Deeper
<1> DEFINE T == {m \in 3 .. K : x \notin g[m]}
<1>6. T = {}
  <2> SUFFICES ASSUME T # {} PROVE FALSE
    OBVIOUS
  <2>1. T \in SUBSET Nat
    BY <1>1
  <2>2. PICK m \in T : \A j \in T : m <= j
    BY <2>1, FirstOfSet
  <2>3. m \in 3 .. K /\ x \notin g[m] /\ m # 3
    BY <1>5
  <2>4. m - 1 \in 3 .. K /\ ~(m <= m - 1) /\ m \in 1 .. K
    BY <1>1, <2>3
  <2>5. x \in g[m - 1]
    BY <2>2, <2>4
  <2>6. g[m] = Deeper(par, g[m - 1])
    BY <1>3, <2>4
  <2> QED BY <2>3, <2>5, <2>6 DEF Deeper
<1>7. K \in 3 .. K
  BY <1>1
<1> QED BY <1>2, <1>6, <1>7

\* The levels find nothing outside of a set that holds o and the children of its
\* members.
LEMMA BelowInside ==
  ASSUME NEW par, NEW o, NEW B, o \in B,
         \A x \in Objects : par[x] \in B => x \in B
  PROVE  Below(par, o) \subseteq B
<1> DEFINE K == Cardinality(Objects)
<1>1. K \in Nat
  BY ObjectCount
<1>2. PICK g : IsLevels(g, K, par, o) /\ Below(par, o) = g[K]
  BY BelowLevels
<1> HIDE DEF K
<1> DEFINE T == {m \in 0 .. K : ~(g[m] \subseteq B)}
<1>3. T = {}
  <2> SUFFICES ASSUME T # {} PROVE FALSE
    OBVIOUS
  <2>1. T \in SUBSET Nat
    BY <1>1
  <2>2. PICK m \in T : \A j \in T : m <= j
    BY <2>1, FirstOfSet
  <2>3. m \in 0 .. K /\ ~(g[m] \subseteq B)
    OBVIOUS
  <2>4. m # 0
    BY <1>2, <2>3 DEF IsLevels
  <2>5. m - 1 \in 0 .. K /\ ~(m <= m - 1) /\ m \in 1 .. K
    BY <1>1, <2>3, <2>4
  <2>6. g[m - 1] \subseteq B
    BY <2>2, <2>5
  <2>7. g[m] = Deeper(par, g[m - 1])
    BY <1>2, <2>5 DEF IsLevels
  <2> QED BY <2>3, <2>6, <2>7 DEF Deeper
<1>4. K \in 0 .. K
  BY <1>1
<1> QED BY <1>2, <1>3, <1>4

\* talloc_free of o, when B is what is below o.
LEMMA FreeLemma ==
  ASSUME NEW par \in Trees, NEW o, NEW B, o \in B,
         \A x \in Objects : par[x] \in B => x \in B,
         \A x \in B \cap Objects : Within(par, o, x)
  PROVE  /\ Free(par, o) \in Trees
         /\ \A x \in Objects \cap B : Free(par, o)[x] = None
         /\ \A x \in Objects \ B : Free(par, o)[x] = par[x]
<1>1. Below(par, o) \subseteq B
  BY BelowInside
<1>2. \A x \in B \cap Objects : x \in Below(par, o)
  BY BelowFinds
<1>3. Free(par, o) = [x \in Objects |-> IF x \in Below(par, o) THEN None ELSE par[x]]
  BY DEF Free
<1>4. Free(par, o) \in Trees
  BY <1>3 DEF Trees
<1> QED BY <1>1, <1>2, <1>3, <1>4

\* talloc_steal of an allocated object.
LEMMA StealLemma ==
  ASSUME NEW par \in Trees, NEW new \in Objects \cup {Caller}, NEW o \in Objects, par[o] # None
  PROVE  /\ Steal(par, new, o) \in Trees
         /\ Steal(par, new, o)[o] = new
         /\ \A x \in Objects \ {o} : Steal(par, new, o)[x] = par[x]
BY DEF Steal, Trees
-----------------------------------------------------------------------------
(***************************************************************************)
(* The trees after their parts are freed                                   *)
(***************************************************************************)
\* What is freed with everything below it leaves nothing.
LEMMA FreeAll ==
  ASSUME NEW par \in Trees, NEW o,
         \A x \in Objects : par[x] # None => Within(par, o, x)
  PROVE  Free(par, o) \in Trees /\ NoTree(Free(par, o))
<1>1. \A x \in Objects : par[x] # None => x \in Below(par, o)
  BY BelowFinds
<1>2. Free(par, o) = [x \in Objects |-> IF x \in Below(par, o) THEN None ELSE par[x]]
  BY DEF Free
<1>3. Free(par, o) \in Trees
  BY <1>2 DEF Trees
<1> QED BY <1>1, <1>2, <1>3 DEF NoTree, Only

\* The trees of a connect that is under way.
ConnectTree(par) ==
  \/ PlainTree(par)
  \/ MappedTree(par)
  \/ MappingTree(par, {})
  \/ MappingTree(par, {Epm(2)})
  \/ MappingTree(par, {Auth(2)})
  \/ MapcallTree(par)
  \/ FirstTree(par)
  \/ ReopenTree(par)
  \/ AgainTree(par)

\* Whatever the connect waits for, freeing its context frees all.
LEMMA ConnectFreed ==
  ASSUME NEW par \in Trees, ConnectTree(par)
  PROVE  Free(par, Connect(1)) \in Trees /\ NoTree(Free(par, Connect(1)))
<1> SUFFICES \A x \in Objects : par[x] # None => Within(par, Connect(1), x)
  BY FreeAll
<1>1. CASE PlainTree(par)
  BY <1>1, ObjectNames, ObjectSets DEF PlainTree, Only, Within
<1>2. CASE MappedTree(par)
  BY <1>2, ObjectNames, ObjectSets DEF MappedTree, Only, Within
<1>3. CASE MappingTree(par, {})
  BY <1>3, ObjectNames, ObjectSets DEF MappingTree, Only, Within
<1>4. CASE MappingTree(par, {Epm(2)})
  BY <1>4, ObjectNames, ObjectSets DEF MappingTree, Only, Within
<1>5. CASE MappingTree(par, {Auth(2)})
  BY <1>5, ObjectNames, ObjectSets DEF MappingTree, Only, Within
<1>6. CASE MapcallTree(par)
  BY <1>6, ObjectNames, ObjectSets DEF MapcallTree, Only, Within
<1>7. CASE FirstTree(par)
  BY <1>7, ObjectNames, ObjectSets DEF FirstTree, Only, Within
<1>8. CASE ReopenTree(par)
  BY <1>8, ObjectNames, ObjectSets DEF ReopenTree, Only, Within
<1>9. CASE AgainTree(par)
  BY <1>9, ObjectNames, ObjectSets DEF AgainTree, Only, Within
<1> QED BY <1>1, <1>2, <1>3, <1>4, <1>5, <1>6, <1>7, <1>8, <1>9 DEF ConnectTree

\* A mapping that found a default endpoint is freed.
LEMMA MappedEnds ==
  ASSUME NEW par \in Trees, MappedTree(par)
  PROVE  Free(par, Epm(1)) \in Trees /\ PlainTree(Free(par, Epm(1)))
<1> DEFINE B == {Epm(1)}
<1>1. \A x \in Objects : par[x] \in B => x \in B
  BY ObjectNames, ObjectSets DEF MappedTree, Only
<1>2. \A x \in B \cap Objects : Within(par, Epm(1), x)
  BY ObjectNames, ObjectSets DEF MappedTree, Only, Within
<1>3. /\ Free(par, Epm(1)) \in Trees
      /\ \A x \in Objects \cap B : Free(par, Epm(1))[x] = None
      /\ \A x \in Objects \ B : Free(par, Epm(1))[x] = par[x]
  <2>1. Epm(1) \in B
    OBVIOUS
  <2> HIDE DEF B
  <2> QED BY <1>1, <1>2, <2>1, FreeLemma
<1> QED BY <1>3, ObjectNames, ObjectSets DEF MappedTree, Only, PlainTree

\* A mapping is freed with the pipe to the mapper.
LEMMA MapcallEnds ==
  ASSUME NEW par \in Trees, MapcallTree(par)
  PROVE  Free(par, Epm(1)) \in Trees /\ PlainTree(Free(par, Epm(1)))
<1> DEFINE B == {Epm(1), Pipe(2)}
<1>1. \A x \in Objects : par[x] \in B => x \in B
  BY ObjectNames, ObjectSets DEF MapcallTree, Only
<1>2. \A x \in B \cap Objects : Within(par, Epm(1), x)
  BY ObjectNames, ObjectSets DEF MapcallTree, Only, Within
<1>3. /\ Free(par, Epm(1)) \in Trees
      /\ \A x \in Objects \cap B : Free(par, Epm(1))[x] = None
      /\ \A x \in Objects \ B : Free(par, Epm(1))[x] = par[x]
  <2>1. Epm(1) \in B
    OBVIOUS
  <2> HIDE DEF B
  <2> QED BY <1>1, <1>2, <2>1, FreeLemma
<1> QED BY <1>3, ObjectNames, ObjectSets DEF MapcallTree, Only, PlainTree

\* The mapping of chain 2 is freed.
LEMMA MapperMapped ==
  ASSUME NEW par \in Trees, MappingTree(par, {Epm(2)})
  PROVE  Free(par, Epm(2)) \in Trees /\ MappingTree(Free(par, Epm(2)), {})
<1> DEFINE B == {Epm(2)}
<1>1. \A x \in Objects : par[x] \in B => x \in B
  BY ObjectNames, ObjectSets DEF MappingTree, Only
<1>2. \A x \in B \cap Objects : Within(par, Epm(2), x)
  BY ObjectNames, ObjectSets DEF MappingTree, Only, Within
<1>3. /\ Free(par, Epm(2)) \in Trees
      /\ \A x \in Objects \cap B : Free(par, Epm(2))[x] = None
      /\ \A x \in Objects \ B : Free(par, Epm(2))[x] = par[x]
  <2>1. Epm(2) \in B
    OBVIOUS
  <2> HIDE DEF B
  <2> QED BY <1>1, <1>2, <2>1, FreeLemma
<1> QED BY <1>3, ObjectNames, ObjectSets DEF MappingTree, Only

\* The authentication of chain 2 is freed.
LEMMA MapperAuthEnds ==
  ASSUME NEW par \in Trees, MappingTree(par, {Auth(2)})
  PROVE  Free(par, Auth(2)) \in Trees /\ MappingTree(Free(par, Auth(2)), {})
<1> DEFINE B == {Auth(2)}
<1>1. \A x \in Objects : par[x] \in B => x \in B
  BY ObjectNames, ObjectSets DEF MappingTree, Only
<1>2. \A x \in B \cap Objects : Within(par, Auth(2), x)
  BY ObjectNames, ObjectSets DEF MappingTree, Only, Within
<1>3. /\ Free(par, Auth(2)) \in Trees
      /\ \A x \in Objects \cap B : Free(par, Auth(2))[x] = None
      /\ \A x \in Objects \ B : Free(par, Auth(2))[x] = par[x]
  <2>1. Auth(2) \in B
    OBVIOUS
  <2> HIDE DEF B
  <2> QED BY <1>1, <1>2, <2>1, FreeLemma
<1> QED BY <1>3, ObjectNames, ObjectSets DEF MappingTree, Only

\* Chain 2 is freed with its pipe.
LEMMA MapperFails ==
  ASSUME NEW par \in Trees, MappingTree(par, {})
  PROVE  Free(par, Connect(2)) \in Trees /\ MappedTree(Free(par, Connect(2)))
<1> DEFINE B == {Connect(2), Pipe(2)}
<1>1. \A x \in Objects : par[x] \in B => x \in B
  BY ObjectNames, ObjectSets DEF MappingTree, Only
<1>2. \A x \in B \cap Objects : Within(par, Connect(2), x)
  BY ObjectNames, ObjectSets DEF MappingTree, Only, Within
<1>3. /\ Free(par, Connect(2)) \in Trees
      /\ \A x \in Objects \cap B : Free(par, Connect(2))[x] = None
      /\ \A x \in Objects \ B : Free(par, Connect(2))[x] = par[x]
  <2>1. Connect(2) \in B
    OBVIOUS
  <2> HIDE DEF B
  <2> QED BY <1>1, <1>2, <2>1, FreeLemma
<1> QED BY <1>3, ObjectNames, ObjectSets DEF MappedTree, MappingTree, Only

\* The authentication of chain 1 is freed.
LEMMA FirstEnds ==
  ASSUME NEW par \in Trees, FirstTree(par)
  PROVE  Free(par, Auth(1)) \in Trees /\ PlainTree(Free(par, Auth(1)))
<1> DEFINE B == {Auth(1)}
<1>1. \A x \in Objects : par[x] \in B => x \in B
  BY ObjectNames, ObjectSets DEF FirstTree, Only
<1>2. \A x \in B \cap Objects : Within(par, Auth(1), x)
  BY ObjectNames, ObjectSets DEF FirstTree, Only, Within
<1>3. /\ Free(par, Auth(1)) \in Trees
      /\ \A x \in Objects \cap B : Free(par, Auth(1))[x] = None
      /\ \A x \in Objects \ B : Free(par, Auth(1))[x] = par[x]
  <2>1. Auth(1) \in B
    OBVIOUS
  <2> HIDE DEF B
  <2> QED BY <1>1, <1>2, <2>1, FreeLemma
<1> QED BY <1>3, ObjectNames, ObjectSets DEF FirstTree, Only, PlainTree

\* A second connection that failed is freed with its pipe.
LEMMA ReopenFails ==
  ASSUME NEW par \in Trees, ReopenTree(par)
  PROVE  Free(par, Second(1)) \in Trees /\ FirstTree(Free(par, Second(1)))
<1> DEFINE B == {Second(1), Pipe2(1)}
<1>1. \A x \in Objects : par[x] \in B => x \in B
  BY ObjectNames, ObjectSets DEF ReopenTree, Only
<1>2. \A x \in B \cap Objects : Within(par, Second(1), x)
  BY ObjectNames, ObjectSets DEF ReopenTree, Only, Within
<1>3. /\ Free(par, Second(1)) \in Trees
      /\ \A x \in Objects \cap B : Free(par, Second(1))[x] = None
      /\ \A x \in Objects \ B : Free(par, Second(1))[x] = par[x]
  <2>1. Second(1) \in B
    OBVIOUS
  <2> HIDE DEF B
  <2> QED BY <1>1, <1>2, <2>1, FreeLemma
<1> QED BY <1>3, ObjectNames, ObjectSets DEF FirstTree, Only, ReopenTree
-----------------------------------------------------------------------------
(***************************************************************************)
(* The trees after an authentication, a chain or a second connection ends  *)
(***************************************************************************)
\* The pipe that is to be given is a child of the context, alone.
HandTree(par, p) ==
  /\ par[Connect(1)] = Caller
  /\ par[p] = Connect(1)
  /\ Only(par, {Connect(1), p})

\* The caller steals the pipe and frees the context.
LEMMA PipeGiven ==
  ASSUME NEW par \in Trees, NEW p \in {Pipe(1), Pipe2(1)}, HandTree(par, p)
  PROVE  /\ Received(par, 1, p, TRUE) \in Trees
         /\ GivenTree(Received(par, 1, p, TRUE), p)
<1> DEFINE st == Steal(par, Caller, p)
<1>1. par[p] # None /\ p \in Objects
  BY ObjectNames, ObjectSets DEF HandTree
<1>2. /\ st \in Trees
      /\ st[p] = Caller
      /\ \A x \in Objects \ {p} : st[x] = par[x]
  <2>1. Caller \in Objects \cup {Caller}
    OBVIOUS
  <2> HIDE DEF st
  <2>2. /\ Steal(par, Caller, p) \in Trees
        /\ Steal(par, Caller, p)[p] = Caller
        /\ \A x \in Objects \ {p} : Steal(par, Caller, p)[x] = par[x]
    BY <1>1, <2>1, StealLemma
  <2> QED BY <2>2 DEF st
<1> HIDE DEF st
<1> DEFINE B == {Connect(1)}
<1>3. \A x \in Objects : st[x] \in B => x \in B
  BY <1>2, ObjectNames, ObjectSets DEF HandTree, Only
<1>4. \A x \in B \cap Objects : Within(st, Connect(1), x)
  BY DEF Within
<1>5. /\ Free(st, Connect(1)) \in Trees
      /\ \A x \in Objects \cap B : Free(st, Connect(1))[x] = None
      /\ \A x \in Objects \ B : Free(st, Connect(1))[x] = st[x]
  <2>1. Connect(1) \in B
    OBVIOUS
  <2> HIDE DEF B
  <2> QED BY <1>2, <1>3, <1>4, <2>1, FreeLemma
<1>6. Received(par, 1, p, TRUE) = Free(st, Connect(1))
  BY DEF Received, Owner, st
<1>7. GivenTree(Free(st, Connect(1)), p)
  BY <1>1, <1>2, <1>5, ObjectNames, ObjectSets DEF HandTree, GivenTree, Only
<1> QED BY <1>5, <1>6, <1>7

\* dcerpc_pipe_auth_recv: whichever try succeeded, only its pipe is left.
LEMMA AuthHands ==
  ASSUME NEW par \in Trees, NEW p, AuthTreeOn(par, p)
  PROVE  /\ AuthTree(par, 1, p) \in Trees
         /\ HandTree(AuthTree(par, 1, p), p)
<1> DEFINE st == Steal(par, Connect(1), p)
<1>1. par[p] # None /\ p \in Objects /\ p \in {Pipe(1), Pipe2(1)}
  BY ObjectNames, ObjectSets DEF AuthTreeOn, FirstTree, AgainTree
<1>2. /\ st \in Trees
      /\ st[p] = Connect(1)
      /\ \A x \in Objects \ {p} : st[x] = par[x]
  BY <1>1, ObjectSets, StealLemma
<1> HIDE DEF st
<1>3. AuthTree(par, 1, p) = Free(st, Auth(1))
  BY DEF AuthTree, st
<1>4. CASE p = Pipe(1) /\ FirstTree(par)
  <2>1. FirstTree(st)
    BY <1>2, <1>4, ObjectNames, ObjectSets DEF FirstTree, Only
  <2>2. Free(st, Auth(1)) \in Trees /\ PlainTree(Free(st, Auth(1)))
    BY <1>2, <2>1, FirstEnds
  <2> QED BY <1>3, <1>4, <2>2 DEF PlainTree, HandTree
<1>5. CASE p = Pipe2(1) /\ AgainTree(par)
  <2> DEFINE B == {Auth(1), Pipe(1)}
  <2>1. \A x \in Objects : st[x] \in B => x \in B
    BY <1>2, <1>5, ObjectNames, ObjectSets DEF AgainTree, Only
  <2>2. \A x \in B \cap Objects : Within(st, Auth(1), x)
    BY <1>2, <1>5, ObjectNames, ObjectSets DEF AgainTree, Within
  <2>3. /\ Free(st, Auth(1)) \in Trees
        /\ \A x \in Objects \cap B : Free(st, Auth(1))[x] = None
        /\ \A x \in Objects \ B : Free(st, Auth(1))[x] = st[x]
    <3>1. Auth(1) \in B
      OBVIOUS
    <3> HIDE DEF B
    <3> QED BY <1>2, <2>1, <2>2, <3>1, FreeLemma
  <2>4. HandTree(Free(st, Auth(1)), p)
    BY <1>1, <1>2, <1>5, <2>3, ObjectNames, ObjectSets DEF AgainTree, HandTree, Only
  <2> QED BY <1>3, <2>3, <2>4
<1> QED BY <1>4, <1>5 DEF AuthTreeOn

\* A failed authentication leaves nothing, however many pipes it has tried.
LEMMA AuthFails ==
  ASSUME NEW par \in Trees, NEW p, NEW q, AuthTreeOn(par, p)
  PROVE  /\ Received(Free(par, Auth(1)), 1, q, FALSE) \in Trees
         /\ NoTree(Received(Free(par, Auth(1)), 1, q, FALSE))
<1> DEFINE fr == Free(par, Auth(1))
<1>1. Received(fr, 1, q, FALSE) = Free(fr, Connect(1))
  BY DEF Received
<1>2. CASE FirstTree(par)
  <2>1. fr \in Trees /\ PlainTree(fr)
    BY <1>2, FirstEnds
  <2> QED BY <1>1, <2>1, ConnectFreed DEF ConnectTree
<1>3. CASE AgainTree(par)
  <2> DEFINE B == {Auth(1), Pipe(1), Pipe2(1)}
  <2>1. \A x \in Objects : par[x] \in B => x \in B
    BY <1>3, ObjectNames, ObjectSets DEF AgainTree, Only
  <2>2. \A x \in B \cap Objects : Within(par, Auth(1), x)
    BY <1>3, ObjectNames, ObjectSets DEF AgainTree, Within
  <2>3. /\ fr \in Trees
        /\ \A x \in Objects \cap B : fr[x] = None
        /\ \A x \in Objects \ B : fr[x] = par[x]
    <3>1. Auth(1) \in B
      OBVIOUS
    <3> HIDE DEF B
    <3> QED BY <2>1, <2>2, <3>1, FreeLemma
  <2> HIDE DEF fr
  <2>4. \A x \in Objects : fr[x] # None => Within(fr, Connect(1), x)
    BY <1>3, <2>3, ObjectNames, ObjectSets DEF AgainTree, Only, Within
  <2> QED BY <1>1, <2>3, <2>4, FreeAll DEF fr
<1> QED BY <1>2, <1>3 DEF AuthTreeOn

\* Chain 2 succeeds: its pipe goes to the mapping, and the rest of it is freed.
LEMMA MapperConnected ==
  ASSUME NEW par \in Trees, MappingTree(par, {Auth(2)})
  PROVE  /\ Received(AuthTree(par, 2, Pipe(2)), 2, Pipe(2), TRUE) \in Trees
         /\ MapcallTree(Received(AuthTree(par, 2, Pipe(2)), 2, Pipe(2), TRUE))
<1> DEFINE st == Steal(par, Connect(2), Pipe(2))
<1>1. par[Pipe(2)] # None /\ Pipe(2) \in Objects
  BY ObjectNames, ObjectSets DEF MappingTree
<1>2. /\ st \in Trees
      /\ st[Pipe(2)] = Connect(2)
      /\ \A x \in Objects \ {Pipe(2)} : st[x] = par[x]
  BY <1>1, ObjectSets, StealLemma
<1> HIDE DEF st
<1>3. MappingTree(st, {Auth(2)})
  BY <1>2, ObjectNames, ObjectSets DEF MappingTree, Only
<1> DEFINE au == AuthTree(par, 2, Pipe(2))
<1>4. au = Free(st, Auth(2))
  BY DEF AuthTree, st
<1>5. au \in Trees /\ MappingTree(au, {})
  BY <1>2, <1>3, <1>4, MapperAuthEnds
<1> HIDE DEF au
<1> DEFINE up == Steal(au, Epm(1), Pipe(2))
<1>6. au[Pipe(2)] # None
  BY <1>5, ObjectNames DEF MappingTree
<1>7. /\ up \in Trees
      /\ up[Pipe(2)] = Epm(1)
      /\ \A x \in Objects \ {Pipe(2)} : up[x] = au[x]
  BY <1>5, <1>6, ObjectSets, StealLemma
<1> HIDE DEF up
<1> DEFINE B == {Connect(2)}
<1>8. \A x \in Objects : up[x] \in B => x \in B
  BY <1>5, <1>7, ObjectNames, ObjectSets DEF MappingTree, Only
<1>9. \A x \in B \cap Objects : Within(up, Connect(2), x)
  BY DEF Within
<1>10. /\ Free(up, Connect(2)) \in Trees
       /\ \A x \in Objects \cap B : Free(up, Connect(2))[x] = None
       /\ \A x \in Objects \ B : Free(up, Connect(2))[x] = up[x]
  <2>1. Connect(2) \in B
    OBVIOUS
  <2> HIDE DEF B
  <2> QED BY <1>7, <1>8, <1>9, <2>1, FreeLemma
<1>11. Received(au, 2, Pipe(2), TRUE) = Free(up, Connect(2))
  BY DEF Received, Owner, up
<1>12. MapcallTree(Free(up, Connect(2)))
  BY <1>5, <1>7, <1>10, ObjectNames, ObjectSets DEF MappingTree, MapcallTree, Only
<1> QED BY <1>10, <1>11, <1>12 DEF au

\* Chain 2 fails: continue_epm_recv_binding and continue_map_binding free all.
LEMMA MapperLost ==
  ASSUME NEW par \in Trees, NEW p, NEW q, MappingTree(par, {})
  PROVE  /\ Received(Free(Received(par, 2, p, FALSE), Epm(1)), 1, q, FALSE) \in Trees
         /\ NoTree(Received(Free(Received(par, 2, p, FALSE), Epm(1)), 1, q, FALSE))
<1> DEFINE r2 == Received(par, 2, p, FALSE)
<1>1. r2 = Free(par, Connect(2))
  BY DEF Received
<1>2. r2 \in Trees /\ MappedTree(r2)
  BY <1>1, MapperFails
<1> HIDE DEF r2
<1> DEFINE fr == Free(r2, Epm(1))
<1>3. fr \in Trees /\ PlainTree(fr)
  BY <1>2, MappedEnds
<1> HIDE DEF fr
<1>4. Received(fr, 1, q, FALSE) = Free(fr, Connect(1))
  BY DEF Received
<1>5. Free(fr, Connect(1)) \in Trees /\ NoTree(Free(fr, Connect(1)))
  BY <1>3, ConnectFreed DEF ConnectTree
<1> QED BY <1>4, <1>5 DEF r2, fr

\* The second connection is open: both pipes go to the authentication.
LEMMA SecondOpen ==
  ASSUME NEW par \in Trees, ReopenTree(par)
  PROVE  SecondTree(par, 1, Pipe(1)) \in Trees /\ AgainTree(SecondTree(par, 1, Pipe(1)))
<1> DEFINE st == Steal(par, Pipe(1), Pipe2(1))
           fr == Free(st, Second(1))
           up == Steal(fr, Auth(1), Pipe2(1))
<1>1. par[Pipe2(1)] # None
  BY ObjectNames DEF ReopenTree
<1>2. /\ st \in Trees
      /\ st[Pipe2(1)] = Pipe(1)
      /\ \A x \in Objects \ {Pipe2(1)} : st[x] = par[x]
  BY <1>1, ObjectSets, StealLemma
<1> HIDE DEF st
<1> DEFINE B == {Second(1)}
<1>3. \A x \in Objects : st[x] \in B => x \in B
  BY <1>2, ObjectNames, ObjectSets DEF ReopenTree, Only
<1>4. \A x \in B \cap Objects : Within(st, Second(1), x)
  BY DEF Within
<1>5. /\ fr \in Trees
      /\ \A x \in Objects \cap B : fr[x] = None
      /\ \A x \in Objects \ B : fr[x] = st[x]
  <2>1. Second(1) \in B
    OBVIOUS
  <2> HIDE DEF B
  <2> QED BY <1>2, <1>3, <1>4, <2>1, FreeLemma
<1> HIDE DEF fr
<1>6. fr[Pipe2(1)] = Pipe(1) /\ fr[Pipe(1)] = Connect(1)
  BY <1>2, <1>5, ObjectNames, ObjectSets DEF ReopenTree
<1>7. /\ up \in Trees
      /\ up[Pipe2(1)] = Auth(1)
      /\ \A x \in Objects \ {Pipe2(1)} : up[x] = fr[x]
  <2>1. fr[Pipe2(1)] # None
    BY <1>6, ObjectNames
  <2> QED BY <1>5, <2>1, ObjectSets, StealLemma
<1> HIDE DEF up
<1>8. /\ Steal(up, Auth(1), Pipe(1)) \in Trees
      /\ Steal(up, Auth(1), Pipe(1))[Pipe(1)] = Auth(1)
      /\ \A x \in Objects \ {Pipe(1)} : Steal(up, Auth(1), Pipe(1))[x] = up[x]
  <2>1. up[Pipe(1)] # None
    BY <1>6, <1>7, ObjectNames, ObjectSets
  <2> QED BY <1>7, <2>1, ObjectSets, StealLemma
<1>9. SecondTree(par, 1, Pipe(1)) = Steal(up, Auth(1), Pipe(1))
  BY DEF SecondTree, st, fr, up
<1>10. AgainTree(Steal(up, Auth(1), Pipe(1)))
  BY <1>2, <1>5, <1>7, <1>8, ObjectNames, ObjectSets DEF ReopenTree, AgainTree, Only
<1> QED BY <1>8, <1>9, <1>10
-----------------------------------------------------------------------------
(***************************************************************************)
(* What the invariant says where a continuation runs                       *)
(***************************************************************************)
\* Chain 1 binds.
LEMMA Binding1 ==
  ASSUME ToldInv, at[1] \in {"binding", "altering", "early"}, Alive(Auth(1))
  PROVE  /\ result = "pending" /\ told = 0
         /\ AuthTreeOn(parent, pipe_of[1])
         /\ BindInv(at[1], pipe_of[1])
         /\ parent[pipe_of[1]] # None
<1>1. Auth(1) \in Objects
  BY ObjectSets
<1>2. result = "pending" /\ told = 0 /\ PendingInv
  BY <1>1 DEF ToldInv, NoTree, Only, Alive
<1>3. AuthTreeOn(parent, pipe_of[1]) /\ BindInv(at[1], pipe_of[1])
  BY <1>2 DEF PendingInv
<1>4. parent[pipe_of[1]] # None
  BY <1>3, ObjectNames DEF AuthTreeOn, FirstTree, AgainTree
<1> QED BY <1>2, <1>3, <1>4

\* A tree without chain 2.
Alone(par) ==
  par[Connect(2)] = None /\ par[Epm(2)] = None /\ par[Auth(2)] = None /\ par[Pipe2(2)] = None

\* Chain 2 has a context only while chain 1 waits for it.
LEMMA Mapping2 ==
  ASSUME ToldInv, ~Alone(parent)
  PROVE  /\ result = "pending" /\ told = 0
         /\ at[1] = "mapping" /\ pipe_of[1] = Pipe(1)
         /\ MappingInv
<1>1. NoTree(parent) => Alone(parent)
  BY ObjectSets DEF NoTree, Only, Alone
<1>2. ASSUME NEW p \in {Pipe(1), Pipe2(1)} PROVE GivenTree(parent, p) => Alone(parent)
  BY ObjectNames, ObjectSets DEF GivenTree, Only, Alone
<1>3. result = "pending" /\ told = 0 /\ PendingInv
  BY <1>1, <1>2 DEF ToldInv
<1>4. MappedTree(parent) => Alone(parent)
  BY ObjectNames, ObjectSets DEF MappedTree, Only, Alone
<1>5. MapcallTree(parent) => Alone(parent)
  BY ObjectNames, ObjectSets DEF MapcallTree, Only, Alone
<1>6. PlainTree(parent) => Alone(parent)
  BY ObjectNames, ObjectSets DEF PlainTree, Only, Alone
<1>7. FirstTree(parent) => Alone(parent)
  BY ObjectNames, ObjectSets DEF FirstTree, Only, Alone
<1>8. AgainTree(parent) => Alone(parent)
  BY ObjectNames, ObjectSets DEF AgainTree, Only, Alone
<1>9. ReopenTree(parent) => Alone(parent)
  BY ObjectNames, ObjectSets DEF ReopenTree, Only, Alone
<1> QED
  BY <1>1, <1>3, <1>4, <1>5, <1>6, <1>7, <1>8, <1>9 DEF PendingInv, AuthTreeOn

\* Chain 2 binds, and does not alter, fail early or open a second connection.
LEMMA Binding2 ==
  ASSUME ToldInv, Alive(Auth(2))
  PROVE  /\ result = "pending" /\ told = 0
         /\ at[1] = "mapping" /\ pipe_of[1] = Pipe(1)
         /\ at[2] = "binding" /\ MappingTree(parent, {Auth(2)})
         /\ parent[Pipe(2)] # None
<1>1. ~Alone(parent)
  BY DEF Alone, Alive
<1>2. MappingTree(parent, {}) => ~Alive(Auth(2))
  BY ObjectNames, ObjectSets DEF MappingTree, Only, Alive
<1>3. MappingTree(parent, {Epm(2)}) => ~Alive(Auth(2))
  BY ObjectNames, ObjectSets DEF MappingTree, Only, Alive
<1>4. MappingTree(parent, {Auth(2)}) => parent[Pipe(2)] # None
  BY ObjectNames DEF MappingTree
<1> QED BY <1>1, <1>2, <1>3, <1>4, Mapping2 DEF MappingInv

\* There is no second connection to the endpoint mapper.
LEMMA NoSecond2 ==
  ASSUME ToldInv
  PROVE  ~Alive(Pipe2(2))
<1> SUFFICES ASSUME Alive(Pipe2(2)) PROVE FALSE
  OBVIOUS
<1>1. MappingInv
  BY Mapping2 DEF Alone, Alive
<1>2. MappingTree(parent, {}) => ~Alive(Pipe2(2))
  BY ObjectNames, ObjectSets DEF MappingTree, Only, Alive
<1>3. MappingTree(parent, {Epm(2)}) => ~Alive(Pipe2(2))
  BY ObjectNames, ObjectSets DEF MappingTree, Only, Alive
<1>4. MappingTree(parent, {Auth(2)}) => ~Alive(Pipe2(2))
  BY ObjectNames, ObjectSets DEF MappingTree, Only, Alive
<1> QED BY <1>1, <1>2, <1>3, <1>4 DEF MappingInv

\* Chain 2 maps its endpoint, to the default.
LEMMA Mapped2 ==
  ASSUME ToldInv, at[2] = "mapped", Alive(Epm(2))
  PROVE  /\ result = "pending" /\ told = 0
         /\ at[1] = "mapping" /\ pipe_of[1] = Pipe(1)
         /\ MappingTree(parent, {Epm(2)})
<1>1. ~Alone(parent)
  BY DEF Alone, Alive
<1> QED BY <1>1, Mapping2 DEF MappingInv

\* Chain 1 opens its pipe.
LEMMA Opening1 ==
  ASSUME ToldInv, at[1] = "opening", Alive(Pipe(1))
  PROVE  result = "pending" /\ told = 0 /\ pipe_of[1] = Pipe(1) /\ PlainTree(parent)
<1>1. Pipe(1) \in Objects
  BY ObjectSets
<1>2. result = "pending" /\ told = 0 /\ PendingInv
  BY <1>1 DEF ToldInv, NoTree, Only, Alive
<1> QED BY <1>2 DEF PendingInv

\* Chain 2 opens its pipe.
LEMMA Opening2 ==
  ASSUME ToldInv, at[2] = "opening", Alive(Pipe(2))
  PROVE  /\ result = "pending" /\ told = 0
         /\ at[1] = "mapping" /\ pipe_of[1] = Pipe(1)
         /\ MappingTree(parent, {})
<1>1. Pipe(2) \in Objects /\ Pipe(2) # Pipe(1) /\ Pipe(2) # Pipe2(1)
  BY ObjectSets, ObjectNames
<1>2. result = "pending" /\ told = 0 /\ PendingInv
  BY <1>1 DEF ToldInv, NoTree, GivenTree, Only, Alive
<1>3. NoTree(parent) => ~Alive(Pipe(2))
  BY ObjectNames, ObjectSets DEF NoTree, Only, Alive
<1>4. MappedTree(parent) => ~Alive(Pipe(2))
  BY ObjectNames, ObjectSets DEF MappedTree, Only, Alive
<1>5. PlainTree(parent) => ~Alive(Pipe(2))
  BY ObjectNames, ObjectSets DEF PlainTree, Only, Alive
<1>6. FirstTree(parent) => ~Alive(Pipe(2))
  BY ObjectNames, ObjectSets DEF FirstTree, Only, Alive
<1>7. AgainTree(parent) => ~Alive(Pipe(2))
  BY ObjectNames, ObjectSets DEF AgainTree, Only, Alive
<1>8. ReopenTree(parent) => ~Alive(Pipe(2))
  BY ObjectNames, ObjectSets DEF ReopenTree, Only, Alive
<1> QED
  BY <1>2, <1>3, <1>4, <1>5, <1>6, <1>7, <1>8 DEF PendingInv, AuthTreeOn, MappingInv

\* The timer is there as long as the caller was not told.
LEMMA Timing ==
  ASSUME ToldInv, Alive(Connect(1))
  PROVE  result = "pending" /\ told = 0 /\ ConnectTree(parent) /\ at[1] # "idle"
<1>1. Connect(1) \in Objects /\ Connect(1) # Pipe(1) /\ Connect(1) # Pipe2(1)
  BY ObjectSets, ObjectNames
<1>2. result = "pending" /\ told = 0 /\ PendingInv
  BY <1>1 DEF ToldInv, NoTree, GivenTree, Only, Alive
<1>3. ~NoTree(parent)
  BY <1>1 DEF NoTree, Only, Alive
<1> QED BY <1>2, <1>3 DEF PendingInv, MappingInv, AuthTreeOn, ConnectTree
-----------------------------------------------------------------------------
(***************************************************************************)
(* How a chain ends                                                        *)
(***************************************************************************)
AuthTypes ==
  /\ gensec \in [Pipes -> {"none", "more", "ok", "error"}]
  /\ token \in [Pipes -> {"none", "own", "server"}]
  /\ rounds \in [Pipes -> 0 .. MaxRounds]
  /\ bound \in [Pipes -> {"no", "bound", "refused"}]

AtType == at \in [Chains -> Stages]

\* The caller is told of a failure and left with nothing.
Failed ==
  /\ parent' \in Trees /\ NoTree(parent')
  /\ result' = "error" /\ told' = 1 /\ given' = None
  /\ AtType' /\ at'[1] # "idle"

\* The caller is given pipe p.
Gave(p) ==
  /\ parent' \in Trees /\ GivenTree(parent', p)
  /\ result' = "OK" /\ told' = 1 /\ given' = p
  /\ AtType' /\ at'[1] = "ended"

\* The caller of a failed connect.
LEMMA TellFailed ==
  ASSUME told = 0, NEW par, NEW p, CallerTold(par, p, FALSE), AtType', at'[1] # "idle",
         Received(par, 1, p, FALSE) \in Trees, NoTree(Received(par, 1, p, FALSE))
  PROVE  Failed
<1>1. told + 1 = 1
  OBVIOUS
<1>2. told' = told + 1
  BY DEF CallerTold
<1> QED BY <1>1, <1>2, Zenon DEF CallerTold, Failed

\* Chain 1 ends with a pipe.
LEMMA AuthEnds1 ==
  ASSUME told = 0, parent \in Trees, AtType, NEW p, AuthTreeOn(parent, p),
         AuthEnds(parent, 1, p, TRUE)
  PROVE  Gave(p) /\ p \in {Pipe(1), Pipe2(1)}
<1> DEFINE au == AuthTree(parent, 1, p)
<1>1. au \in Trees /\ HandTree(au, p) /\ p \in {Pipe(1), Pipe2(1)}
  BY AuthHands DEF AuthTreeOn
<1>2. ConnectEnds(au, 1, p, TRUE)
  BY DEF AuthEnds
<1> HIDE DEF au
<1>3. CallerTold(au, p, TRUE) /\ at' = [at EXCEPT ![1] = "ended"]
  BY <1>2 DEF ConnectEnds
<1>4. Received(au, 1, p, TRUE) \in Trees /\ GivenTree(Received(au, 1, p, TRUE), p)
  BY <1>1, PipeGiven
<1>5. AtType' /\ at'[1] = "ended"
  BY <1>3 DEF AtType, Chains, Stages
<1>6. told + 1 = 1
  OBVIOUS
<1> QED BY <1>1, <1>3, <1>4, <1>5, <1>6, Zenon DEF CallerTold, Gave

\* Chain 1 ends without one.
LEMMA AuthEnds1Failed ==
  ASSUME told = 0, NEW par \in Trees, AtType, NEW p, NEW q, AuthTreeOn(par, p),
         AuthEnds(par, 1, q, FALSE)
  PROVE  Failed
<1> DEFINE fr == Free(par, Auth(1))
<1>1. ConnectEnds(fr, 1, q, FALSE)
  BY DEF AuthEnds
<1>2. Received(fr, 1, q, FALSE) \in Trees /\ NoTree(Received(fr, 1, q, FALSE))
  BY AuthFails
<1> HIDE DEF fr
<1>3. CallerTold(fr, q, FALSE) /\ at' = [at EXCEPT ![1] = "ended"]
  BY <1>1 DEF ConnectEnds
<1>4. AtType' /\ at'[1] # "idle"
  BY <1>3 DEF AtType, Chains, Stages
<1> QED BY <1>2, <1>3, <1>4, TellFailed

\* Chain 2 ends with a pipe: the mapper is called.
LEMMA AuthEnds2 ==
  ASSUME parent \in Trees, AtType, MappingTree(parent, {Auth(2)}),
         AuthEnds(parent, 2, Pipe(2), TRUE)
  PROVE  /\ parent' \in Trees /\ MapcallTree(parent')
         /\ AtType' /\ at'[1] = "mapcall" /\ at'[2] = "ended"
         /\ UNCHANGED ownerVars
<1> DEFINE au == AuthTree(parent, 2, Pipe(2))
<1>1. ConnectEnds(au, 2, Pipe(2), TRUE)
  BY DEF AuthEnds
<1>2. Received(au, 2, Pipe(2), TRUE) \in Trees /\ MapcallTree(Received(au, 2, Pipe(2), TRUE))
  BY MapperConnected
<1> HIDE DEF au
<1>3. /\ at' = [at EXCEPT ![1] = "mapcall", ![2] = "ended"]
      /\ parent' = Received(au, 2, Pipe(2), TRUE)
      /\ UNCHANGED ownerVars
  BY <1>1 DEF ConnectEnds
<1>4. AtType' /\ at'[1] = "mapcall" /\ at'[2] = "ended"
  BY <1>3 DEF AtType, Chains, Stages
<1> QED BY <1>2, <1>3, <1>4

\* Chain 2 ends without one, and so does chain 1.
LEMMA ConnectEnds2Failed ==
  ASSUME told = 0, NEW par \in Trees, AtType, MappingTree(par, {}),
         ConnectEnds(par, 2, Pipe(2), FALSE)
  PROVE  Failed
<1> DEFINE fr == Free(Received(par, 2, Pipe(2), FALSE), Epm(1))
<1>1. Received(fr, 1, Pipe(2), FALSE) \in Trees /\ NoTree(Received(fr, 1, Pipe(2), FALSE))
  BY MapperLost
<1>2. CallerTold(fr, Pipe(2), FALSE) /\ at' = [c \in Chains |-> "ended"]
  <2>1. 2 # 1
    OBVIOUS
  <2> QED BY <2>1, Zenon DEF ConnectEnds
<1> HIDE DEF fr
<1>3. AtType' /\ at'[1] # "idle"
  BY <1>2 DEF AtType, Chains, Stages
<1> QED BY <1>1, <1>2, <1>3, TellFailed

\* Chain 1 ends before it authenticates.
LEMMA ConnectEnds1Failed ==
  ASSUME told = 0, NEW par \in Trees, AtType, ConnectTree(par), NEW p,
         ConnectEnds(par, 1, p, FALSE)
  PROVE  Failed
<1>1. Received(par, 1, p, FALSE) = Free(par, Connect(1))
  BY DEF Received
<1>2. Received(par, 1, p, FALSE) \in Trees /\ NoTree(Received(par, 1, p, FALSE))
  BY <1>1, ConnectFreed
<1>3. CallerTold(par, p, FALSE) /\ at' = [at EXCEPT ![1] = "ended"]
  BY DEF ConnectEnds
<1>4. AtType' /\ at'[1] # "idle"
  BY <1>3 DEF AtType, Chains, Stages
<1> QED BY <1>2, <1>3, <1>4, TellFailed
-----------------------------------------------------------------------------
(***************************************************************************)
(* How a bind ends                                                         *)
(***************************************************************************)
\* A second connection is opened beside the first.
Reopened ==
  /\ auto[1] /\ pipe_of[1] = Pipe(1)
  /\ parent' \in Trees /\ ReopenTree(parent')
  /\ AtType' /\ at'[1] = "reopening"
  /\ auto' \in [Chains -> BOOLEAN] /\ ~auto'[1] /\ auto'[2] = auto[2]
  /\ UNCHANGED ownerVars

\* The bind of chain 1 is tried again, or ends the connect.
LEMMA BindEnds1 ==
  ASSUME told = 0, parent \in Trees, AtType, auto \in [Chains -> BOOLEAN],
         AuthTreeOn(parent, pipe_of[1]), auto[1] => pipe_of[1] = Pipe(1),
         NEW st, BindEnds(1, st)
  PROVE  \/ Reopened /\ st # "OK"
         \/ Gave(pipe_of[1]) /\ pipe_of[1] \in {Pipe(1), Pipe2(1)} /\ st = "OK" /\ auto' = auto
         \/ Failed /\ st # "OK" /\ auto' = auto
<1> DEFINE p == pipe_of[1]
<1>1. PICK newpass \in BOOLEAN :
        IF Retries(1, st, newpass) THEN SecondSend(1, p)
        ELSE AuthEnds(parent, 1, p, st = "OK") /\ UNCHANGED auto
  BY DEF BindEnds
<1>2. CASE Retries(1, st, newpass)
  <2>1. SecondSend(1, p) /\ auto[1] /\ p = Pipe(1) /\ st # "OK"
    BY <1>1, <1>2 DEF Retries
  <2>2. FirstTree(parent)
    BY <2>1, ObjectNames DEF AuthTreeOn
  <2>3. /\ parent' = [parent EXCEPT ![Second(1)] = Connect(1), ![Pipe2(1)] = Second(1)]
        /\ at' = [at EXCEPT ![1] = "reopening"]
        /\ auto' = [auto EXCEPT ![1] = FALSE]
        /\ UNCHANGED ownerVars
    BY <2>1, <2>2 DEF SecondSend, SecondParent, FirstTree
  <2>4. parent' \in Trees
    BY <2>3, ObjectSets DEF Trees
  <2>5. ReopenTree(parent')
    BY <2>2, <2>3, ObjectSets, ObjectNames DEF Trees, FirstTree, ReopenTree, Only
  <2>6. AtType' /\ at'[1] = "reopening"
    BY <2>3 DEF AtType, Chains, Stages
  <2>7. auto' \in [Chains -> BOOLEAN] /\ ~auto'[1] /\ auto'[2] = auto[2]
    BY <2>3 DEF Chains
  <2> QED BY <2>1, <2>3, <2>4, <2>5, <2>6, <2>7 DEF Reopened
<1>3. CASE ~Retries(1, st, newpass) /\ st = "OK"
  <2>1. AuthEnds(parent, 1, p, TRUE) /\ auto' = auto
    BY <1>1, <1>3
  <2> QED BY <1>3, <2>1, AuthEnds1
<1>4. CASE ~Retries(1, st, newpass) /\ st # "OK"
  <2>1. AuthEnds(parent, 1, p, FALSE) /\ auto' = auto
    BY <1>1, <1>4
  <2> QED BY <1>4, <2>1, AuthEnds1Failed
<1> QED BY <1>2, <1>3, <1>4

\* The bind of chain 2 ends that chain.
LEMMA BindEnds2 ==
  ASSUME told = 0, parent \in Trees, AtType, MappingTree(parent, {Auth(2)}),
         ~auto[2], pipe_of[2] = Pipe(2), NEW st, BindEnds(2, st)
  PROVE  /\ auto' = auto
         /\ \/ /\ parent' \in Trees /\ MapcallTree(parent')
               /\ AtType' /\ at'[1] = "mapcall" /\ at'[2] = "ended"
               /\ UNCHANGED ownerVars
            \/ Failed
<1>1. AuthEnds(parent, 2, Pipe(2), st = "OK") /\ auto' = auto
  BY DEF BindEnds, Retries
<1>2. CASE st = "OK"
  <2>1. AuthEnds(parent, 2, Pipe(2), TRUE)
    BY <1>1, <1>2
  <2> QED BY <1>1, <2>1, AuthEnds2
<1>3. CASE st # "OK"
  <2>1. AuthEnds(parent, 2, Pipe(2), FALSE)
    BY <1>1, <1>3
  <2> DEFINE fr == Free(parent, Auth(2))
  <2>2. fr \in Trees /\ MappingTree(fr, {}) /\ ConnectEnds(fr, 2, Pipe(2), FALSE)
    BY <2>1, MapperAuthEnds DEF AuthEnds
  <2> HIDE DEF fr
  <2> QED BY <1>1, <2>2, ConnectEnds2Failed
<1> QED BY <1>2, <1>3

\* dcerpc_bind_auth_send on pipe p of chain l.
LEMMA BindSent ==
  ASSUME AtType, AuthTypes, early \in [Chains -> Statuses], NEW l \in Chains, NEW p \in Pipes,
         NEW anon \in BOOLEAN, BindSend(l, p, anon)
  PROVE  /\ AtType' /\ AuthTypes' /\ early' \in [Chains -> Statuses]
         /\ at'[l] \in {"binding", "early"} /\ \A c \in Chains \ {l} : at'[c] = at[c]
         /\ anon => at'[l] = "binding"
         /\ ~anon /\ at'[l] = "binding" => gensec'[p] \in {"more", "ok"}
         /\ at'[l] = "early" /\ early'[l] = "OK" => mute
         /\ \A q \in Pipes \ {p} : gensec'[q] = gensec[q]
         /\ anon => gensec' = gensec
<1>1. CASE anon
  <2>1. at' = [at EXCEPT ![l] = "binding"] /\ UNCHANGED <<early, gensec, token, rounds, bound>>
    BY <1>1 DEF BindSend
  <2>2. AtType' /\ at'[l] = "binding" /\ \A c \in Chains \ {l} : at'[c] = at[c]
    BY <2>1 DEF AtType, Stages
  <2> QED BY <1>1, <2>1, <2>2 DEF AuthTypes
<1>2. CASE ~anon
  <2>1. PICK answer \in FirstAnswers :
          /\ gensec' = [gensec EXCEPT ![p] = GensecStatus(answer)]
          /\ IF HasToken(answer)
             THEN /\ at' = [at EXCEPT ![l] = "binding"]
                  /\ token' = [token EXCEPT ![p] = "own"]
                  /\ early' = early
             ELSE /\ at' = [at EXCEPT ![l] = "early"]
                  /\ early' = [early EXCEPT ![l] = BindStatus(answer)]
                  /\ token' = token
    BY <1>2 DEF BindSend
  <2>2. bound' = bound /\ rounds' = rounds
    BY DEF BindSend
  <2> DEFINE gs == GensecStatus(answer)
             st == BindStatus(answer)
  <2>3. /\ gs \in {"more", "ok", "error"} /\ st \in Statuses
        /\ HasToken(answer) => gs \in {"more", "ok"}
        /\ ~HasToken(answer) /\ st = "OK" => mute
    BY DEF FirstAnswers, GensecStatus, BindStatus, HasToken, Errors, Statuses
  <2>4. /\ gensec' = [gensec EXCEPT ![p] = gs]
        /\ ~HasToken(answer) => early' = [early EXCEPT ![l] = st]
    BY <2>1
  <2> HIDE DEF gs, st
  <2>5. gensec' \in [Pipes -> {"none", "more", "ok", "error"}] /\ gensec'[p] = gs
        /\ \A q \in Pipes \ {p} : gensec'[q] = gensec[q]
    BY <2>3, <2>4 DEF AuthTypes
  <2>6. CASE HasToken(answer)
    <3>1. AtType' /\ at'[l] = "binding" /\ \A c \in Chains \ {l} : at'[c] = at[c]
      BY <2>1, <2>6 DEF AtType, Stages
    <3>2. AuthTypes' /\ early' = early
      BY <2>1, <2>2, <2>5, <2>6 DEF AuthTypes
    <3> QED BY <1>2, <2>3, <2>5, <2>6, <3>1, <3>2
  <2>7. CASE ~HasToken(answer)
    <3>1. AtType' /\ at'[l] = "early" /\ \A c \in Chains \ {l} : at'[c] = at[c]
      BY <2>1, <2>7 DEF AtType, Stages
    <3>2. early' \in [Chains -> Statuses] /\ early'[l] = st
      BY <2>3, <2>7, <2>4
    <3>3. AuthTypes'
      BY <2>1, <2>2, <2>5, <2>7 DEF AuthTypes
    <3> QED BY <1>2, <2>3, <2>5, <2>7, <3>1, <3>2, <3>3
  <2> QED BY <2>6, <2>7
<1> QED BY <1>1, <1>2
-----------------------------------------------------------------------------
(***************************************************************************)
(* The invariant after a step                                              *)
(***************************************************************************)
RestTypes ==
  /\ early \in [Chains -> Statuses]
  /\ pipe_of \in [Chains -> Pipes]
  /\ anonymous \in BOOLEAN /\ mute \in BOOLEAN
  /\ auto \in [Chains -> BOOLEAN]
  /\ AuthTypes

\* The parts of the type invariant.
LEMMA TypeParts ==
  ASSUME TypeOK
  PROVE  /\ parent \in Trees /\ AtType /\ RestTypes
         /\ result \in {"pending", "OK", "error"} /\ told \in Nat /\ given \in Pipes \cup {None}
         /\ dangling \in BOOLEAN
BY Zenon DEF TypeOK, Trees, AtType, RestTypes, AuthTypes

\* The caller was told of a failure.
LEMMA StepFailed ==
  ASSUME Failed, RestTypes', TriesInv', ~dangling', dangling' \in BOOLEAN
  PROVE  IndInv'
<1>1. 1 \in Nat
  OBVIOUS
<1>2. TypeOK'
  BY <1>1, Zenon DEF TypeOK, Failed, Trees, AtType, RestTypes, AuthTypes
<1>3. ToldInv'
  BY Zenon DEF ToldInv, Failed
<1>4. AuthComplete'
  BY DEF AuthComplete, Failed
<1> QED BY <1>2, <1>3, <1>4, Zenon DEF IndInv, NoStaleContext

\* The caller was given a pipe.
LEMMA StepGave ==
  ASSUME NEW p \in {Pipe(1), Pipe2(1)}, Gave(p), p = pipe_of'[1],
         RestTypes', TriesInv', ~dangling', dangling' \in BOOLEAN,
         mute' \/ (bound'[p] = "bound" /\ (anonymous' \/ gensec'[p] = "ok"))
  PROVE  IndInv'
<1>1. 1 \in Nat /\ p \in Pipes
  BY ObjectSets
<1>2. TypeOK'
  BY <1>1, Zenon DEF TypeOK, Gave, Trees, AtType, RestTypes, AuthTypes
<1>3. ToldInv'
  BY Zenon DEF ToldInv, Gave
<1>4. AuthComplete'
  BY Zenon DEF AuthComplete, Complete, Gave
<1> QED BY <1>2, <1>3, <1>4, Zenon DEF IndInv, NoStaleContext

\* The connect goes on.
LEMMA StepPending ==
  ASSUME TypeOK, result = "pending", told = 0, UNCHANGED ownerVars,
         parent' \in Trees, AtType', RestTypes', PendingInv', TriesInv',
         ~dangling', dangling' \in BOOLEAN
  PROVE  IndInv'
<1>1. result' = result /\ told' = told /\ given' = given
  BY DEF ownerVars
<1>2. TypeOK'
  BY <1>1, Zenon DEF TypeOK, Trees, AtType, RestTypes, AuthTypes
<1>3. ToldInv'
  BY <1>1, Zenon DEF ToldInv
<1>4. AuthComplete'
  BY <1>1 DEF AuthComplete
<1> QED BY <1>2, <1>3, <1>4, Zenon DEF IndInv, NoStaleContext

\* A continuation that uses what is there.
LEMMA UsesLemma ==
  ASSUME NoStaleContext, NEW par, NEW used, Uses(par, used), \A o \in used : par[o] # None
  PROVE  ~dangling' /\ dangling' \in BOOLEAN
BY Zenon DEF NoStaleContext, Uses

\* A bind of chain 1 ended.
LEMMA Bind1Step ==
  ASSUME IndInv, result = "pending", told = 0, AuthTreeOn(parent, pipe_of[1]),
         NEW st, BindEnds(1, st), early' \in [Chains -> Statuses],
         UNCHANGED <<pipe_of, anonymous, mute>>, AuthTypes', gensec'[Pipe(2)] = "none",
         ~dangling', dangling' \in BOOLEAN,
         st = "OK" =>
           mute \/ (bound'[pipe_of[1]] = "bound" /\ (anonymous \/ gensec'[pipe_of[1]] = "ok"))
  PROVE  IndInv'
<1>1. TypeOK /\ TriesInv
  BY DEF IndInv
<1>2. /\ parent \in Trees /\ AtType /\ pipe_of \in [Chains -> Pipes] /\ anonymous \in BOOLEAN /\ mute \in BOOLEAN
      /\ auto \in [Chains -> BOOLEAN]
  BY <1>1, TypeParts DEF RestTypes
<1>3. pipe_of' = pipe_of /\ anonymous' = anonymous /\ mute' = mute
  OBVIOUS
<1>4. \/ Reopened /\ st # "OK"
      \/ Gave(pipe_of[1]) /\ pipe_of[1] \in {Pipe(1), Pipe2(1)} /\ st = "OK" /\ auto' = auto
      \/ Failed /\ st # "OK" /\ auto' = auto
  <2>1. auto[1] => pipe_of[1] = Pipe(1)
    BY <1>1 DEF TriesInv
  <2> QED BY <1>2, <2>1, BindEnds1
<1>5. CASE Reopened
  <2>1. RestTypes'
    BY <1>2, <1>3, <1>5 DEF RestTypes, Reopened
  <2>2. TriesInv'
    BY <1>1, <1>3, <1>5 DEF TriesInv, Reopened
  <2>3. PendingInv'
    BY <1>3, <1>5, Zenon DEF PendingInv, Reopened
  <2>4. parent' \in Trees /\ AtType' /\ UNCHANGED ownerVars
    BY <1>5 DEF Reopened
  <2> QED BY <1>1, <2>1, <2>2, <2>3, <2>4, StepPending
<1>6. CASE auto' = auto
  <2>1. RestTypes'
    BY <1>2, <1>3, <1>6, Zenon DEF RestTypes
  <2>2. TriesInv'
    BY <1>1, <1>3, <1>6, Zenon DEF TriesInv
  <2>3. CASE Failed
    BY <2>1, <2>2, <2>3, StepFailed
  <2>4. CASE Gave(pipe_of[1]) /\ pipe_of[1] \in {Pipe(1), Pipe2(1)} /\ st = "OK"
    <3>1. mute' \/ (bound'[pipe_of[1]] = "bound" /\ (anonymous' \/ gensec'[pipe_of[1]] = "ok"))
      <4>1. st = "OK"
        BY <2>4
      <4>2. mute \/ (bound'[pipe_of[1]] = "bound" /\ (anonymous \/ gensec'[pipe_of[1]] = "ok"))
        BY <4>1
      <4>3. (anonymous => anonymous') /\ (mute => mute')
        BY <1>3
      <4> QED BY <4>2, <4>3
    <3>2. pipe_of[1] = pipe_of'[1]
      BY <1>3
    <3> QED BY <2>1, <2>2, <2>4, <3>1, <3>2, StepGave
  <2>5. CASE Reopened
    BY <1>5, <2>5
  <2> QED BY <1>4, <2>3, <2>4, <2>5
<1> QED BY <1>4, <1>5, <1>6

\* A bind of chain 2 ended.
LEMMA Bind2Step ==
  ASSUME IndInv, result = "pending", told = 0, pipe_of[1] = Pipe(1),
         MappingTree(parent, {Auth(2)}),
         NEW st, BindEnds(2, st), early' \in [Chains -> Statuses],
         UNCHANGED <<pipe_of, anonymous, mute>>, AuthTypes', gensec'[Pipe(2)] = "none",
         ~dangling', dangling' \in BOOLEAN
  PROVE  IndInv'
<1>1. TypeOK /\ TriesInv
  BY DEF IndInv
<1>2. /\ parent \in Trees /\ AtType /\ pipe_of \in [Chains -> Pipes] /\ anonymous \in BOOLEAN /\ mute \in BOOLEAN
      /\ auto \in [Chains -> BOOLEAN]
  BY <1>1, TypeParts DEF RestTypes
<1>3. pipe_of' = pipe_of /\ anonymous' = anonymous /\ mute' = mute
  OBVIOUS
<1>4. /\ auto' = auto
      /\ \/ /\ parent' \in Trees /\ MapcallTree(parent')
            /\ AtType' /\ at'[1] = "mapcall" /\ at'[2] = "ended"
            /\ UNCHANGED ownerVars
         \/ Failed
  <2>1. ~auto[2] /\ pipe_of[2] = Pipe(2)
    BY <1>1, Zenon DEF TriesInv
  <2> QED BY <1>2, <2>1, BindEnds2
<1>5. RestTypes'
  BY <1>2, <1>3, <1>4, Zenon DEF RestTypes
<1>6. TriesInv'
  BY <1>1, <1>3, <1>4, Zenon DEF TriesInv
<1>7. CASE Failed
  BY <1>5, <1>6, <1>7, StepFailed
<1>8. CASE ~Failed
  <2>1. PendingInv'
    BY <1>3, <1>4, <1>8, Zenon DEF PendingInv
  <2> QED BY <1>1, <1>4, <1>5, <1>6, <1>8, <2>1, StepPending
<1> QED BY <1>7, <1>8

\* bind_auth_next_step of chain 1.
LEMMA NextStep1 ==
  ASSUME IndInv, result = "pending", told = 0, NEW p, p = pipe_of[1], AuthTreeOn(parent, p),
         NEW tok, NEW answer \in Answers(p, tok), NextStep(1, p, answer),
         UNCHANGED <<early, pipe_of, anonymous, mute>>,
         bound' \in [Pipes -> {"no", "bound", "refused"}], bound'[p] = "bound",
         ~dangling', dangling' \in BOOLEAN
  PROVE  IndInv'
<1>1. TypeOK /\ TriesInv
  BY DEF IndInv
<1>2. parent \in Trees /\ AtType /\ RestTypes
  BY <1>1, TypeParts
<1>3. p \in Pipes /\ Pipe(2) \in Pipes /\ p # Pipe(2)
  <2>1. p \in {Pipe(1), Pipe2(1)}
    BY DEF AuthTreeOn
  <2> QED BY <2>1, ObjectNames, ObjectSets
<1>4. early' = early /\ pipe_of' = pipe_of /\ anonymous' = anonymous /\ mute' = mute
  OBVIOUS
<1>5. CASE answer = "more"
  <2>1. /\ gensec' = [gensec EXCEPT ![p] = "more"]
        /\ token' = [token EXCEPT ![p] = "own"]
        /\ rounds' = [rounds EXCEPT ![p] = rounds[p] + 1]
        /\ at' = [at EXCEPT ![1] = "altering"]
        /\ UNCHANGED <<parent, auto, ownerVars>>
    BY <1>5 DEF NextStep, GensecStatus, HasToken, Errors
  <2>2. rounds[p] < MaxRounds
    BY <1>5 DEF Answers, Errors
  <2>3. rounds[p] + 1 \in 0 .. MaxRounds
    BY <1>2, <1>3, <2>2, RoundsAssumption DEF RestTypes, AuthTypes
  <2>4. AuthTypes'
    BY <1>2, <1>3, <2>1, <2>3 DEF RestTypes, AuthTypes
  <2>5. AtType' /\ at'[1] = "altering"
    BY <1>2, <2>1 DEF AtType, Chains, Stages
  <2>6. gensec'[Pipe(2)] = gensec[Pipe(2)]
    BY <1>2, <1>3, <2>1 DEF RestTypes, AuthTypes
  <2>7. RestTypes'
    BY <1>2, <1>4, <2>1, <2>4, Zenon DEF RestTypes
  <2>8. TriesInv'
    BY <1>1, <1>4, <2>1, <2>6, Zenon DEF TriesInv
  <2>9. BindInv("altering", p)'
    BY DEF BindInv
  <2>10. AuthTreeOn(parent', p)
    BY <2>1
  <2>11. PendingInv'
    BY <1>4, <2>5, <2>9, <2>10 DEF PendingInv
  <2> QED
    BY <1>1, <1>2, <2>1, <2>5, <2>7, <2>8, <2>11, StepPending
<1>6. CASE answer # "more"
  <2> DEFINE st == BindStatus(answer)
             gs == GensecStatus(answer)
             tk == IF HasToken(answer) THEN "own" ELSE token[p]
  <2>1. /\ gensec' = [gensec EXCEPT ![p] = gs]
        /\ token' = [token EXCEPT ![p] = tk]
        /\ BindEnds(1, st)
        /\ rounds' = rounds
    BY <1>6 DEF NextStep
  <2>2. gs \in {"none", "more", "ok", "error"} /\ tk \in {"none", "own", "server"}
    BY <1>2, <1>3 DEF RestTypes, AuthTypes, GensecStatus
  <2>3. st = "OK" => mute \/ gs = "ok"
    BY <1>6 DEF BindStatus, GensecStatus, Answers, Errors
  <2> HIDE DEF st, gs, tk
  <2>4. AuthTypes'
    BY <1>2, <1>3, <2>1, <2>2 DEF RestTypes, AuthTypes
  <2>5. gensec'[Pipe(2)] = gensec[Pipe(2)] /\ gensec'[p] = gs
    BY <1>2, <1>3, <2>1 DEF RestTypes, AuthTypes
  <2>6. gensec'[Pipe(2)] = "none"
    BY <1>1, <2>5 DEF TriesInv
  <2>7. early' \in [Chains -> Statuses]
    BY <1>2, <1>4 DEF RestTypes
  <2>8. st = "OK" =>
          mute \/ (bound'[pipe_of[1]] = "bound" /\ (anonymous \/ gensec'[pipe_of[1]] = "ok"))
    BY <2>3, <2>5
  <2>9. AuthTreeOn(parent, pipe_of[1])
    OBVIOUS
  <2> QED BY <1>4, <2>1, <2>4, <2>6, <2>7, <2>8, <2>9, Bind1Step
<1> QED BY <1>5, <1>6
-----------------------------------------------------------------------------
(***************************************************************************)
(* One lemma for each action                                               *)
(***************************************************************************)
\* The initial states.
LEMMA InitInv ==
  ASSUME Init
  PROVE  IndInv
<1>1. 0 \in 0 .. MaxRounds /\ 0 \in Nat
  BY RoundsAssumption
<1>2. \A l \in Chains : Pipe(l) \in Pipes
  BY DEF Chains, Pipe, Pipes
<1>3. TypeOK
  BY <1>1, <1>2 DEF Init, TypeOK, Stages, Errors, Statuses
<1>4. NoTree(parent) /\ at[1] = "idle" /\ pipe_of[1] = Pipe(1)
  BY DEF Init, NoTree, Only, Chains
<1>5. ToldInv
  BY <1>4 DEF Init, ToldInv, PendingInv
<1>6. TriesInv
  <2>1. auto[1] = FALSE /\ auto[2] = FALSE /\ pipe_of[2] = Pipe(2)
    BY DEF Init, Chains
  <2>2. gensec[Pipe(2)] = "none"
    BY ObjectSets DEF Init
  <2> QED BY <2>1, <2>2 DEF TriesInv
<1>7. NoStaleContext /\ AuthComplete
  BY DEF Init, NoStaleContext, AuthComplete
<1> QED BY <1>3, <1>5, <1>6, <1>7 DEF IndInv

\* The parts of the invariant that concern only what a step leaves alone.
LEMMA Unmoved ==
  ASSUME IndInv, UNCHANGED <<early, pipe_of, anonymous, mute, auto, authVars>>
  PROVE  RestTypes' /\ TriesInv'
<1>1. RestTypes /\ TriesInv
  BY TypeParts DEF IndInv
<1>2. /\ early' = early /\ pipe_of' = pipe_of /\ anonymous' = anonymous /\ mute' = mute /\ auto' = auto
      /\ gensec' = gensec /\ token' = token /\ rounds' = rounds /\ bound' = bound
  BY DEF authVars
<1> QED BY <1>1, <1>2, Zenon DEF RestTypes, AuthTypes, TriesInv

\* dcerpc_pipe_connect_b_send
LEMMA ConnectSendStep ==
  ASSUME IndInv, NEW endpoint, ConnectSend(endpoint)
  PROVE  IndInv'
<1>1. TypeOK /\ ToldInv /\ parent \in Trees /\ AtType /\ ~dangling /\ dangling \in BOOLEAN
  BY TypeParts DEF IndInv, NoStaleContext
<1>2. at[1] = "idle" /\ UNCHANGED <<early, pipe_of, anonymous, mute, auto, authVars, ownerVars, dangling>>
  BY DEF ConnectSend
<1>3. RestTypes' /\ TriesInv' /\ ~dangling' /\ dangling' \in BOOLEAN /\ UNCHANGED ownerVars
  BY <1>1, <1>2, Unmoved
<1>4. result = "pending" /\ told = 0 /\ pipe_of[1] = Pipe(1) /\ NoTree(parent)
  BY <1>1, <1>2 DEF ToldInv, PendingInv
<1>5. pipe_of'[1] = Pipe(1)
  BY <1>2, <1>4
<1> DEFINE tree == Started(parent, 1, Caller)
           mapped == [tree EXCEPT ![Epm(1)] = Connect(1)]
           mapping == [Started(mapped, 2, Epm(1)) EXCEPT ![Epm(2)] = Connect(2)]
<1>6. \/ parent' = tree /\ at' = [at EXCEPT ![1] = "opening"]
      \/ parent' = mapped /\ at' = [at EXCEPT ![1] = "mapped"]
      \/ parent' = mapping /\ at' = [at EXCEPT ![1] = "mapping", ![2] = "mapped"]
  BY Zenon DEF ConnectSend
<1>7. tree \in Trees /\ PlainTree(tree)
  BY <1>1, <1>4, ObjectNames, ObjectSets DEF Started, Trees, PlainTree, NoTree, Only
<1> HIDE DEF tree
<1>8. mapped \in Trees /\ MappedTree(mapped)
  BY <1>7, ObjectNames, ObjectSets DEF Trees, PlainTree, MappedTree, Only
<1> HIDE DEF mapped
<1>9. mapping \in Trees /\ MappingTree(mapping, {Epm(2)})
  BY <1>8, ObjectNames, ObjectSets DEF Started, Trees, MappedTree, MappingTree, Only
<1> HIDE DEF mapping
<1>10. parent' \in Trees /\ AtType'
  BY <1>1, <1>6, <1>7, <1>8, <1>9 DEF AtType, Stages
<1>11. PendingInv'
  <2>1. CASE parent' = tree /\ at' = [at EXCEPT ![1] = "opening"]
    <3>1. at'[1] = "opening" /\ PlainTree(parent')
      BY <1>1, <1>7, <2>1 DEF AtType, Chains
    <3> QED BY <1>5, <3>1, Zenon DEF PendingInv
  <2>2. CASE parent' = mapped /\ at' = [at EXCEPT ![1] = "mapped"]
    <3>1. at'[1] = "mapped" /\ MappedTree(parent')
      BY <1>1, <1>8, <2>2 DEF AtType, Chains
    <3> QED BY <1>5, <3>1, Zenon DEF PendingInv
  <2>3. CASE parent' = mapping /\ at' = [at EXCEPT ![1] = "mapping", ![2] = "mapped"]
    <3>1. at'[1] = "mapping" /\ at'[2] = "mapped" /\ MappingTree(parent', {Epm(2)})
      BY <1>1, <1>9, <2>3 DEF AtType, Chains
    <3> QED BY <1>5, <3>1, Zenon DEF PendingInv, MappingInv
  <2> QED BY <1>6, <2>1, <2>2, <2>3
<1> QED BY <1>1, <1>3, <1>4, <1>10, <1>11, StepPending

\* continue_map_binding after a default endpoint, in either chain
LEMMA MapDefaultStep ==
  ASSUME IndInv, NEW l \in Chains, MapDefault(l)
  PROVE  IndInv'
<1>1. /\ TypeOK /\ ToldInv /\ NoStaleContext /\ parent \in Trees /\ AtType
      /\ pipe_of \in [Chains -> Pipes]
  BY TypeParts DEF IndInv, RestTypes
<1>2. /\ at[l] = "mapped" /\ Alive(Epm(l))
      /\ Uses(parent, {Connect(l), Pipe(l)})
      /\ parent' = Free(parent, Epm(l))
      /\ at' = [at EXCEPT ![l] = "opening"]
      /\ UNCHANGED <<early, pipe_of, anonymous, mute, auto, authVars, ownerVars>>
  BY DEF MapDefault
<1>3. RestTypes' /\ TriesInv' /\ UNCHANGED ownerVars /\ pipe_of' = pipe_of
  BY <1>2, Unmoved
<1>4. AtType' /\ at'[l] = "opening" /\ \A c \in Chains \ {l} : at'[c] = at[c]
  BY <1>1, <1>2 DEF AtType, Stages
<1>5. CASE l = 1
  <2>1. result = "pending" /\ told = 0 /\ pipe_of[1] = Pipe(1) /\ MappedTree(parent)
    <3>1. Epm(1) \in Objects
      BY ObjectSets
    <3>2. result = "pending" /\ told = 0 /\ PendingInv
      BY <1>1, <1>2, <1>5, <3>1 DEF ToldInv, NoTree, Only, Alive
    <3> QED BY <1>2, <1>5, <3>2 DEF PendingInv
  <2>2. parent' \in Trees /\ PlainTree(parent')
    BY <1>1, <1>2, <1>5, <2>1, MappedEnds
  <2>3. ~dangling' /\ dangling' \in BOOLEAN
    <3>1. \A o \in {Connect(1), Pipe(1)} : parent[o] # None
      BY <2>1, ObjectNames DEF MappedTree
    <3> QED BY <1>1, <1>2, <1>5, <3>1, UsesLemma
  <2>4. at'[1] = "opening" /\ pipe_of'[1] = Pipe(1)
    BY <1>3, <1>4, <1>5, <2>1
  <2>5. PendingInv'
    BY <2>2, <2>4, Zenon DEF PendingInv
  <2> QED BY <1>1, <1>3, <1>4, <2>1, <2>2, <2>3, <2>5, StepPending
<1>6. CASE l = 2
  <2>1. /\ result = "pending" /\ told = 0 /\ at[1] = "mapping" /\ pipe_of[1] = Pipe(1)
        /\ MappingTree(parent, {Epm(2)})
    BY <1>1, <1>2, <1>6, Mapped2
  <2>2. parent' \in Trees /\ MappingTree(parent', {})
    BY <1>1, <1>2, <1>6, <2>1, MapperMapped
  <2>3. ~dangling' /\ dangling' \in BOOLEAN
    <3>1. \A o \in {Connect(2), Pipe(2)} : parent[o] # None
      BY <2>1, ObjectNames DEF MappingTree
    <3> QED BY <1>1, <1>2, <1>6, <3>1, UsesLemma
  <2>4. at'[2] = "opening" /\ at'[1] = "mapping" /\ pipe_of'[1] = Pipe(1)
    BY <1>3, <1>4, <1>6, <2>1 DEF Chains
  <2>5. PendingInv'
    BY <2>2, <2>4, Zenon DEF PendingInv, MappingInv
  <2> QED BY <1>1, <1>3, <1>4, <2>1, <2>2, <2>3, <2>5, StepPending
<1> QED BY <1>5, <1>6 DEF Chains

\* continue_pipe_connect when the pipe could not be opened
LEMMA OpenFailsStep ==
  ASSUME IndInv, NEW l \in Chains, NEW named, OpenDone(l, FALSE, named)
  PROVE  IndInv'
<1>1. TypeOK /\ ToldInv /\ NoStaleContext /\ parent \in Trees /\ AtType
  BY TypeParts DEF IndInv
<1>2. /\ at[l] = "opening" /\ Alive(Pipe(l))
      /\ Uses(parent, {Connect(l)})
      /\ ConnectEnds(parent, l, Pipe(l), FALSE)
      /\ UNCHANGED <<early, auto, authVars, pipe_of, anonymous, mute>>
  BY DEF OpenDone
<1>3. RestTypes' /\ TriesInv'
  BY <1>2, Unmoved
<1>4. CASE l = 1
  <2>1. told = 0 /\ PlainTree(parent)
    BY <1>1, <1>2, <1>4, Opening1
  <2>2. Failed
    <3>1. ConnectTree(parent) /\ ConnectEnds(parent, 1, Pipe(1), FALSE)
      BY <1>2, <1>4, <2>1 DEF ConnectTree
    <3> QED BY <1>1, <2>1, <3>1, ConnectEnds1Failed
  <2>3. ~dangling' /\ dangling' \in BOOLEAN
    <3>1. \A o \in {Connect(1)} : parent[o] # None
      BY <2>1, ObjectNames DEF PlainTree
    <3> QED BY <1>1, <1>2, <1>4, <3>1, UsesLemma
  <2> QED BY <1>3, <2>2, <2>3, StepFailed
<1>5. CASE l = 2
  <2>1. told = 0 /\ MappingTree(parent, {})
    BY <1>1, <1>2, <1>5, Opening2
  <2>2. Failed
    <3>1. ConnectEnds(parent, 2, Pipe(2), FALSE)
      BY <1>2, <1>5
    <3> QED BY <1>1, <2>1, <3>1, ConnectEnds2Failed
  <2>3. ~dangling' /\ dangling' \in BOOLEAN
    <3>1. \A o \in {Connect(2)} : parent[o] # None
      BY <2>1, ObjectNames DEF MappingTree
    <3> QED BY <1>1, <1>2, <1>5, <3>1, UsesLemma
  <2> QED BY <1>3, <2>2, <2>3, StepFailed
<1> QED BY <1>4, <1>5 DEF Chains

\* continue_pipe_connect and dcerpc_pipe_auth_send
LEMMA OpenOKStep ==
  ASSUME IndInv, NEW l \in Chains, NEW named \in BOOLEAN, OpenDone(l, TRUE, named)
  PROVE  IndInv'
<1>1. /\ TypeOK /\ ToldInv /\ NoStaleContext /\ TriesInv /\ parent \in Trees /\ AtType
      /\ RestTypes
  BY TypeParts DEF IndInv
<1> DEFINE au == ~Anonymous(l) /\ ~named
<1>2. /\ at[l] = "opening" /\ Alive(Pipe(l))
      /\ Uses(parent, {Connect(l)})
      /\ parent' = [parent EXCEPT ![Auth(l)] = parent[Pipe(l)]]
      /\ auto' = [auto EXCEPT ![l] = au]
      /\ BindSend(l, Pipe(l), Anonymous(l))
      /\ UNCHANGED ownerVars /\ pipe_of' = pipe_of /\ anonymous' = anonymous /\ mute' = mute
  BY DEF OpenDone
<1>3. au \in BOOLEAN /\ Anonymous(l) \in BOOLEAN /\ Pipe(l) \in Pipes
  BY <1>1, ObjectSets DEF Anonymous, RestTypes
<1> HIDE DEF au
<1>4. /\ AtType' /\ AuthTypes' /\ early' \in [Chains -> Statuses]
      /\ at'[l] \in {"binding", "early"} /\ \A c \in Chains \ {l} : at'[c] = at[c]
      /\ Anonymous(l) => at'[l] = "binding"
      /\ ~Anonymous(l) /\ at'[l] = "binding" => gensec'[Pipe(l)] \in {"more", "ok"}
      /\ at'[l] = "early" /\ early'[l] = "OK" => mute
      /\ \A q \in Pipes \ {Pipe(l)} : gensec'[q] = gensec[q]
      /\ Anonymous(l) => gensec' = gensec
  <2>1. early \in [Chains -> Statuses] /\ AuthTypes
    BY <1>1 DEF RestTypes
  <2> QED BY <1>1, <1>2, <1>3, <2>1, BindSent
<1>5. auto' \in [Chains -> BOOLEAN] /\ auto'[l] = au /\ \A c \in Chains \ {l} : auto'[c] = auto[c]
  BY <1>1, <1>2, <1>3 DEF RestTypes
<1>6. RestTypes'
  BY <1>1, <1>2, <1>4, <1>5 DEF RestTypes
<1>7. CASE l = 1
  <2>1. result = "pending" /\ told = 0 /\ pipe_of[1] = Pipe(1) /\ PlainTree(parent)
    BY <1>1, <1>2, <1>7, Opening1
  <2>2. parent' \in Trees /\ FirstTree(parent')
    <3>1. parent' = [parent EXCEPT ![Auth(1)] = Connect(1)]
      BY <1>2, <1>7, <2>1 DEF PlainTree
    <3> QED BY <1>1, <2>1, <3>1, ObjectNames, ObjectSets DEF Trees, PlainTree, FirstTree, Only
  <2>3. ~dangling' /\ dangling' \in BOOLEAN
    <3>1. \A o \in {Connect(1)} : parent[o] # None
      BY <2>1, ObjectNames DEF PlainTree
    <3> QED BY <1>1, <1>2, <1>7, <3>1, UsesLemma
  <2>4. BindInv(at[1], Pipe(1))'
    <3>1. at'[1] \in {"binding", "early"} /\ (at'[1] = "early" /\ early'[1] = "OK" => mute')
      BY <1>2, <1>4, <1>7
    <3>2. CASE anonymous
      BY <1>2, <3>1, <3>2 DEF BindInv
    <3>3. CASE ~anonymous
      <4>1. ~Anonymous(1)
        BY <3>3 DEF Anonymous
      <4>2. at'[1] = "binding" => gensec'[Pipe(1)] \in {"more", "ok"}
        BY <1>4, <1>7, <4>1
      <4> QED BY <3>1, <4>2 DEF BindInv
    <3> QED BY <3>2, <3>3
  <2>5. pipe_of'[1] = Pipe(1) /\ at'[1] \in {"binding", "altering", "early"}
    BY <1>2, <1>4, <1>7, <2>1
  <2>6. PendingInv'
    BY <2>2, <2>4, <2>5 DEF PendingInv, AuthTreeOn
  <2>7. TriesInv'
    <3>1. gensec'[Pipe(2)] = gensec[Pipe(2)]
      BY <1>4, <1>7, ObjectNames, ObjectSets
    <3>2. auto'[2] = auto[2]
      BY <1>5, <1>7 DEF Chains
    <3> QED BY <1>1, <1>2, <2>5, <3>1, <3>2 DEF TriesInv
  <2> QED BY <1>1, <1>2, <1>4, <1>6, <2>1, <2>2, <2>3, <2>6, <2>7, StepPending
<1>8. CASE l = 2
  <2>1. /\ result = "pending" /\ told = 0 /\ at[1] = "mapping" /\ pipe_of[1] = Pipe(1)
        /\ MappingTree(parent, {})
    BY <1>1, <1>2, <1>8, Opening2
  <2>2. parent' \in Trees /\ MappingTree(parent', {Auth(2)})
    <3>1. parent' = [parent EXCEPT ![Auth(2)] = Connect(2)]
      BY <1>2, <1>8, <2>1 DEF MappingTree
    <3> QED BY <1>1, <2>1, <3>1, ObjectNames, ObjectSets DEF Trees, MappingTree, Only
  <2>3. ~dangling' /\ dangling' \in BOOLEAN
    <3>1. \A o \in {Connect(2)} : parent[o] # None
      BY <2>1, ObjectNames DEF MappingTree
    <3> QED BY <1>1, <1>2, <1>8, <3>1, UsesLemma
  <2>4. Anonymous(2)
    BY DEF Anonymous
  <2>5. at'[2] = "binding" /\ at'[1] = "mapping" /\ gensec' = gensec /\ pipe_of'[1] = Pipe(1)
    BY <1>2, <1>4, <1>8, <2>1, <2>4 DEF Chains
  <2>6. PendingInv'
    BY <2>2, <2>5, Zenon DEF PendingInv, MappingInv
  <2>7. TriesInv'
    <3>1. auto'[1] = auto[1] /\ ~auto'[2]
      BY <1>5, <1>8, <2>4 DEF Chains, au
    <3> QED BY <1>1, <1>2, <2>5, <3>1 DEF TriesInv
  <2> QED BY <1>1, <1>2, <1>4, <1>6, <2>1, <2>2, <2>3, <2>6, <2>7, StepPending
<1> QED BY <1>7, <1>8 DEF Chains

\* The immediate event of a bind that gensec ended
LEMMA BindTriggerStep ==
  ASSUME IndInv, NEW l \in Chains, BindTrigger(l)
  PROVE  IndInv'
<1>1. TypeOK /\ ToldInv /\ NoStaleContext /\ TriesInv /\ RestTypes
  BY TypeParts DEF IndInv
<1>2. /\ at[l] = "early" /\ Alive(Auth(l))
      /\ Uses(parent, {pipe_of[l]})
      /\ BindEnds(l, early[l])
      /\ UNCHANGED <<early, pipe_of, anonymous, mute, authVars>>
  BY DEF BindTrigger
<1>3. /\ early' = early /\ pipe_of' = pipe_of /\ anonymous' = anonymous /\ mute' = mute
      /\ gensec' = gensec /\ token' = token /\ rounds' = rounds /\ bound' = bound
  BY <1>2 DEF authVars
<1>4. l = 1
  <2>1. l # 2
    BY <1>1, <1>2, Binding2
  <2> QED BY <2>1 DEF Chains
<1>5. /\ result = "pending" /\ told = 0 /\ AuthTreeOn(parent, pipe_of[1])
      /\ BindInv("early", pipe_of[1]) /\ parent[pipe_of[1]] # None
  <2>1. at[1] = "early" /\ Alive(Auth(1))
    BY <1>2, <1>4
  <2> QED BY <1>1, <2>1, Binding1
<1>6. ~dangling' /\ dangling' \in BOOLEAN
  <2>1. \A o \in {pipe_of[1]} : parent[o] # None
    BY <1>5
  <2> QED BY <1>1, <1>2, <1>4, <2>1, UsesLemma
<1>7. AuthTypes' /\ early' \in [Chains -> Statuses] /\ gensec'[Pipe(2)] = "none"
  BY <1>1, <1>3, Zenon DEF RestTypes, AuthTypes, TriesInv
<1>8. early[1] = "OK" => mute
  BY <1>5 DEF BindInv
<1> QED BY <1>2, <1>3, <1>4, <1>5, <1>6, <1>7, <1>8, Bind1Step

\* bind_auth_recv_bindreply and continue_auth_none
LEMMA BindAckStep ==
  ASSUME IndInv, NEW l \in Chains, NEW creds \in BOOLEAN, BindAck(l, creds)
  PROVE  IndInv'
<1>1. TypeOK /\ ToldInv /\ NoStaleContext /\ TriesInv /\ RestTypes
  BY TypeParts DEF IndInv
<1> DEFINE p == pipe_of[l]
           tk == Credentials(p, creds)
<1>2. /\ at[l] = "binding" /\ Alive(Auth(l))
      /\ Uses(parent, {p})
      /\ bound' = [bound EXCEPT ![p] = "bound"]
      /\ IF NeedsMore(p)
         THEN \E answer \in Answers(p, tk) : NextStep(l, p, answer)
         ELSE /\ token' = [token EXCEPT ![p] = tk]
              /\ BindEnds(l, "OK")
              /\ UNCHANGED <<gensec, rounds>>
      /\ UNCHANGED <<early, pipe_of, anonymous, mute>>
  BY DEF BindAck, Awaits
<1>3. p \in Pipes /\ tk \in {"none", "own", "server"}
  BY <1>1 DEF RestTypes, AuthTypes, Credentials
<1> HIDE DEF tk
<1>4. bound' \in [Pipes -> {"no", "bound", "refused"}] /\ bound'[p] = "bound"
  BY <1>1, <1>2, <1>3 DEF RestTypes, AuthTypes
<1>5. ASSUME parent[p] # None PROVE ~dangling' /\ dangling' \in BOOLEAN
  <2>1. \A o \in {p} : parent[o] # None
    BY <1>5
  <2> QED BY <1>1, <1>2, <2>1, UsesLemma
<1>6. ASSUME ~NeedsMore(p)
      PROVE  /\ BindEnds(l, "OK") /\ gensec' = gensec
             /\ AuthTypes' /\ early' \in [Chains -> Statuses] /\ gensec'[Pipe(2)] = "none"
  <2>1. /\ token' = [token EXCEPT ![p] = tk] /\ BindEnds(l, "OK")
        /\ gensec' = gensec /\ rounds' = rounds /\ early' = early
    BY <1>2, <1>6
  <2>2. AuthTypes'
    BY <1>1, <1>3, <1>4, <2>1 DEF RestTypes, AuthTypes
  <2> QED BY <1>1, <2>1, <2>2 DEF RestTypes, TriesInv
<1>7. CASE l = 1
  <2>1. /\ result = "pending" /\ told = 0 /\ AuthTreeOn(parent, pipe_of[1])
        /\ BindInv("binding", pipe_of[1]) /\ parent[pipe_of[1]] # None
    <3>1. at[1] = "binding" /\ Alive(Auth(1))
      BY <1>2, <1>7
    <3> QED BY <1>1, <3>1, Binding1
  <2>2. ~dangling' /\ dangling' \in BOOLEAN
    BY <1>5, <1>7, <2>1
  <2>3. CASE NeedsMore(p)
    <3>1. PICK answer \in Answers(p, tk) : NextStep(1, p, answer)
      BY <1>2, <1>7, <2>3
    <3> QED BY <1>2, <1>4, <1>7, <2>1, <2>2, <3>1, NextStep1
  <2>4. CASE ~NeedsMore(p)
    <3>1. anonymous \/ gensec[p] = "ok"
      BY <1>7, <2>1, <2>4 DEF BindInv, NeedsMore
    <3>2. anonymous \/ gensec'[pipe_of[1]] = "ok"
      BY <1>6, <1>7, <2>4, <3>1
    <3>3. bound'[pipe_of[1]] = "bound"
      BY <1>4, <1>7
    <3>4. BindEnds(1, "OK")
      BY <1>6, <1>7, <2>4
    <3> QED BY <1>2, <1>6, <2>1, <2>2, <2>4, <3>2, <3>3, <3>4, Bind1Step
  <2> QED BY <2>3, <2>4
<1>8. CASE l = 2
  <2>1. /\ result = "pending" /\ told = 0 /\ pipe_of[1] = Pipe(1)
        /\ MappingTree(parent, {Auth(2)}) /\ parent[Pipe(2)] # None
    BY <1>1, <1>2, <1>8, Binding2
  <2>2. p = Pipe(2) /\ ~NeedsMore(p)
    BY <1>1, <1>8 DEF TriesInv, NeedsMore
  <2>3. ~dangling' /\ dangling' \in BOOLEAN
    BY <1>5, <2>1, <2>2
  <2>4. BindEnds(2, "OK")
    BY <1>6, <1>8, <2>2
  <2> QED BY <1>2, <1>6, <2>1, <2>2, <2>3, <2>4, Bind2Step
<1> QED BY <1>7, <1>8 DEF Chains

\* bind_auth_recv_alter
LEMMA AlterAckStep ==
  ASSUME IndInv, NEW l \in Chains, NEW creds \in BOOLEAN, AlterAck(l, creds)
  PROVE  IndInv'
<1>1. TypeOK /\ ToldInv /\ NoStaleContext /\ RestTypes
  BY TypeParts DEF IndInv
<1> DEFINE p == pipe_of[l]
<1>2. /\ at[l] = "altering" /\ Alive(Auth(l))
      /\ Uses(parent, {p})
      /\ \E answer \in Answers(p, Credentials(p, creds)) : NextStep(l, p, answer)
      /\ UNCHANGED <<early, pipe_of, anonymous, mute, bound>>
  BY DEF AlterAck, Awaits
<1>3. l = 1
  <2>1. l # 2
    BY <1>1, <1>2, Binding2
  <2> QED BY <2>1 DEF Chains
<1>4. /\ result = "pending" /\ told = 0 /\ AuthTreeOn(parent, pipe_of[1])
      /\ BindInv("altering", pipe_of[1]) /\ parent[pipe_of[1]] # None
  <2>1. at[1] = "altering" /\ Alive(Auth(1))
    BY <1>2, <1>3
  <2> QED BY <1>1, <2>1, Binding1
<1>5. ~dangling' /\ dangling' \in BOOLEAN
  <2>1. \A o \in {p} : parent[o] # None
    BY <1>3, <1>4
  <2> QED BY <1>1, <1>2, <2>1, UsesLemma
<1>6. bound' \in [Pipes -> {"no", "bound", "refused"}] /\ bound'[p] = "bound"
  BY <1>1, <1>2, <1>3, <1>4 DEF RestTypes, AuthTypes, BindInv
<1>7. PICK answer \in Answers(p, Credentials(p, creds)) : NextStep(1, p, answer)
  BY <1>2, <1>3
<1>8. UNCHANGED <<early, pipe_of, anonymous, mute>>
  BY <1>2
<1> QED BY <1>3, <1>4, <1>5, <1>6, <1>7, <1>8, NextStep1

\* A bind or alter that is refused, or lost with the connection
LEMMA BindRefusedStep ==
  ASSUME IndInv, NEW l \in Chains, NEW reply, BindRefused(l, reply)
  PROVE  IndInv'
<1>1. TypeOK /\ ToldInv /\ NoStaleContext /\ TriesInv /\ RestTypes
  BY TypeParts DEF IndInv
<1> DEFINE p == pipe_of[l]
           st == RefusalStatus(reply)
<1>2. /\ at[l] \in {"binding", "altering"} /\ Alive(Auth(l))
      /\ Uses(parent, {p})
      /\ bound' = [bound EXCEPT ![p] = "refused"]
      /\ BindEnds(l, st)
      /\ UNCHANGED <<early, pipe_of, anonymous, mute, gensec, token, rounds>>
  BY DEF BindRefused, Awaits
<1>3. p \in Pipes /\ st # "OK"
  BY <1>1 DEF RestTypes, RefusalStatus
<1> HIDE DEF st
<1>4. AuthTypes' /\ early' \in [Chains -> Statuses] /\ gensec'[Pipe(2)] = "none"
  BY <1>1, <1>2, <1>3 DEF RestTypes, AuthTypes, TriesInv
<1>5. ASSUME parent[p] # None PROVE ~dangling' /\ dangling' \in BOOLEAN
  <2>1. \A o \in {p} : parent[o] # None
    BY <1>5
  <2> QED BY <1>1, <1>2, <2>1, UsesLemma
<1>6. UNCHANGED <<pipe_of, anonymous, mute>>
  BY <1>2
<1>7. CASE l = 1
  <2>1. /\ result = "pending" /\ told = 0 /\ AuthTreeOn(parent, pipe_of[1])
        /\ parent[pipe_of[1]] # None
    BY <1>1, <1>2, <1>7, Binding1
  <2>2. ~dangling' /\ dangling' \in BOOLEAN
    BY <1>5, <1>7, <2>1
  <2>3. BindEnds(1, st)
    BY <1>2, <1>7
  <2> QED BY <1>3, <1>4, <1>6, <2>1, <2>2, <2>3, Bind1Step
<1>8. CASE l = 2
  <2>1. /\ result = "pending" /\ told = 0 /\ pipe_of[1] = Pipe(1)
        /\ MappingTree(parent, {Auth(2)}) /\ parent[Pipe(2)] # None
    BY <1>1, <1>2, <1>8, Binding2
  <2>2. p = Pipe(2)
    BY <1>1, <1>8 DEF TriesInv
  <2>3. ~dangling' /\ dangling' \in BOOLEAN
    BY <1>5, <2>1, <2>2
  <2>4. BindEnds(2, st)
    BY <1>2, <1>8
  <2> QED BY <1>4, <1>6, <2>1, <2>3, <2>4, Bind2Step
<1> QED BY <1>7, <1>8 DEF Chains

\* The second connection
LEMMA SecondDoneStep ==
  ASSUME IndInv, NEW l \in Chains, NEW ok \in BOOLEAN, SecondDone(l, ok)
  PROVE  IndInv'
<1>1. /\ TypeOK /\ ToldInv /\ NoStaleContext /\ TriesInv /\ parent \in Trees /\ AtType
      /\ RestTypes
  BY TypeParts DEF IndInv
<1>2. at[l] = "reopening" /\ Alive(Pipe2(l))
  BY DEF SecondDone
<1>3. l = 1
  <2>1. l # 2
    BY <1>1, <1>2, NoSecond2
  <2> QED BY <2>1 DEF Chains
<1>4. /\ result = "pending" /\ told = 0 /\ pipe_of[1] = Pipe(1) /\ ReopenTree(parent)
      /\ ~auto[1]
  <2>1. Pipe2(1) \in Objects
    BY ObjectSets
  <2>2. result = "pending" /\ told = 0 /\ PendingInv
    BY <1>1, <1>2, <1>3, <2>1 DEF ToldInv, NoTree, Only, Alive
  <2> QED BY <1>2, <1>3, <2>2 DEF PendingInv
<1>5. /\ Uses(parent, {Second(1), Auth(1), Pipe(1)})
      /\ IF ok
         THEN /\ parent' = SecondTree(parent, 1, Pipe(1))
              /\ pipe_of' = [pipe_of EXCEPT ![1] = Pipe2(1)]
              /\ BindSend(1, Pipe2(1), FALSE)
              /\ UNCHANGED ownerVars
         ELSE /\ AuthEnds(Free(parent, Second(1)), 1, Pipe(1), FALSE)
              /\ UNCHANGED <<pipe_of, early, authVars>>
      /\ anonymous' = anonymous /\ mute' = mute /\ auto' = auto
  BY <1>3, <1>4 DEF SecondDone
<1>6. ~dangling' /\ dangling' \in BOOLEAN
  <2>1. \A o \in {Second(1), Auth(1), Pipe(1)} : parent[o] # None
    BY <1>4, ObjectNames DEF ReopenTree
  <2> QED BY <1>1, <1>5, <2>1, UsesLemma
<1>7. CASE ok
  <2>1. parent' \in Trees /\ AgainTree(parent')
    BY <1>1, <1>4, <1>5, <1>7, SecondOpen
  <2>2. pipe_of' \in [Chains -> Pipes] /\ pipe_of'[1] = Pipe2(1) /\ pipe_of'[2] = pipe_of[2]
    <3>1. pipe_of' = [pipe_of EXCEPT ![1] = Pipe2(1)]
      BY <1>5, <1>7
    <3> QED BY <1>1, <3>1, ObjectSets DEF RestTypes, Chains
  <2>3. /\ AtType' /\ AuthTypes' /\ early' \in [Chains -> Statuses]
        /\ at'[1] \in {"binding", "early"}
        /\ at'[1] = "binding" => gensec'[Pipe2(1)] \in {"more", "ok"}
        /\ at'[1] = "early" /\ early'[1] = "OK" => mute
        /\ \A q \in Pipes \ {Pipe2(1)} : gensec'[q] = gensec[q]
    <3>1. /\ early \in [Chains -> Statuses] /\ AuthTypes /\ 1 \in Chains /\ Pipe2(1) \in Pipes
          /\ BindSend(1, Pipe2(1), FALSE)
      BY <1>1, <1>5, <1>7, ObjectSets DEF RestTypes
    <3> QED BY <1>1, <3>1, BindSent
  <2>4. RestTypes'
    BY <1>1, <1>5, <2>2, <2>3 DEF RestTypes
  <2>5. TriesInv'
    <3>1. gensec'[Pipe(2)] = gensec[Pipe(2)]
      BY <2>3, ObjectNames, ObjectSets
    <3> QED BY <1>1, <1>4, <1>5, <2>2, <3>1 DEF TriesInv
  <2>6. BindInv(at[1], Pipe2(1))'
    BY <1>5, <2>3 DEF BindInv
  <2>7. PendingInv'
    BY <2>1, <2>2, <2>3, <2>6 DEF PendingInv, AuthTreeOn
  <2>8. UNCHANGED ownerVars
    BY <1>5, <1>7
  <2> QED BY <1>1, <1>4, <1>6, <2>1, <2>3, <2>4, <2>5, <2>7, <2>8, StepPending
<1>8. CASE ~ok
  <2> DEFINE fr == Free(parent, Second(1))
  <2>1. AuthEnds(fr, 1, Pipe(1), FALSE) /\ UNCHANGED <<early, pipe_of, anonymous, mute, auto, authVars>>
    BY <1>5, <1>8
  <2>2. fr \in Trees /\ AuthTreeOn(fr, Pipe(1))
    BY <1>1, <1>4, ReopenFails DEF AuthTreeOn
  <2> HIDE DEF fr
  <2>3. Failed
    BY <1>1, <1>4, <2>1, <2>2, AuthEnds1Failed
  <2>4. RestTypes' /\ TriesInv'
    BY <2>1, Unmoved
  <2> QED BY <1>6, <2>3, <2>4, StepFailed
<1> QED BY <1>7, <1>8

\* continue_epm_map
LEMMA MapReplyStep ==
  ASSUME IndInv, NEW ok \in BOOLEAN, MapReply(ok)
  PROVE  IndInv'
<1>1. TypeOK /\ ToldInv /\ NoStaleContext /\ parent \in Trees /\ AtType
  BY TypeParts DEF IndInv
<1>2. /\ at[1] = "mapcall" /\ Alive(Pipe(2))
      /\ Uses(parent, {Epm(1), Connect(1), Pipe(1)})
      /\ IF ok
         THEN /\ parent' = Free(parent, Epm(1))
              /\ at' = [at EXCEPT ![1] = "opening"]
              /\ UNCHANGED ownerVars
         ELSE ConnectEnds(Free(parent, Epm(1)), 1, Pipe(1), FALSE)
      /\ UNCHANGED <<early, pipe_of, anonymous, mute, auto, authVars>>
  BY DEF MapReply
<1>3. result = "pending" /\ told = 0 /\ pipe_of[1] = Pipe(1) /\ MapcallTree(parent)
  <2>1. Pipe(2) \in Objects
    BY ObjectSets
  <2>2. result = "pending" /\ told = 0 /\ PendingInv
    BY <1>1, <1>2, <2>1 DEF ToldInv, NoTree, Only, Alive
  <2> QED BY <1>2, <2>2 DEF PendingInv
<1>4. ~dangling' /\ dangling' \in BOOLEAN
  <2>1. \A o \in {Epm(1), Connect(1), Pipe(1)} : parent[o] # None
    BY <1>3, ObjectNames DEF MapcallTree
  <2> QED BY <1>1, <1>2, <2>1, UsesLemma
<1>5. RestTypes' /\ TriesInv' /\ pipe_of' = pipe_of
  BY <1>2, Unmoved
<1> DEFINE fr == Free(parent, Epm(1))
<1>6. fr \in Trees /\ PlainTree(fr)
  BY <1>1, <1>3, MapcallEnds
<1> HIDE DEF fr
<1>7. CASE ok
  <2>1. parent' = fr /\ at' = [at EXCEPT ![1] = "opening"] /\ UNCHANGED ownerVars
    BY <1>2, <1>7 DEF fr
  <2>2. AtType' /\ at'[1] = "opening" /\ pipe_of'[1] = Pipe(1)
    BY <1>1, <1>3, <1>5, <2>1 DEF AtType, Chains, Stages
  <2>3. PendingInv'
    BY <1>6, <2>1, <2>2, Zenon DEF PendingInv
  <2> QED BY <1>1, <1>3, <1>4, <1>5, <1>6, <2>1, <2>2, <2>3, StepPending
<1>8. CASE ~ok
  <2>1. ConnectEnds(fr, 1, Pipe(1), FALSE) /\ ConnectTree(fr)
    BY <1>2, <1>6, <1>8 DEF fr, ConnectTree
  <2>2. Failed
    BY <1>1, <1>3, <1>6, <2>1, ConnectEnds1Failed
  <2> QED BY <1>4, <1>5, <2>2, StepFailed
<1> QED BY <1>7, <1>8

\* dcerpc_connect_timeout_handler
LEMMA TimeoutStep ==
  ASSUME IndInv, Timeout
  PROVE  IndInv'
<1>1. /\ TypeOK /\ ToldInv /\ NoStaleContext /\ parent \in Trees /\ AtType
      /\ dangling \in BOOLEAN
  BY TypeParts DEF IndInv
<1>2. /\ Alive(Connect(1)) /\ CallerTold(parent, Pipe(1), FALSE)
      /\ UNCHANGED <<at, early, pipe_of, anonymous, mute, auto, authVars, dangling>>
  BY DEF Timeout, Timed
<1>3. told = 0 /\ ConnectTree(parent) /\ at[1] # "idle"
  BY <1>1, <1>2, Timing
<1>4. RestTypes' /\ TriesInv' /\ ~dangling' /\ dangling' \in BOOLEAN
  BY <1>1, <1>2, Unmoved DEF NoStaleContext
<1>5. AtType' /\ at'[1] # "idle"
  BY <1>1, <1>2, <1>3 DEF AtType
<1>6. Received(parent, 1, Pipe(1), FALSE) = Free(parent, Connect(1))
  BY DEF Received
<1>7. /\ Received(parent, 1, Pipe(1), FALSE) \in Trees
      /\ NoTree(Received(parent, 1, Pipe(1), FALSE))
  BY <1>1, <1>3, <1>6, ConnectFreed
<1>8. Failed
  BY <1>2, <1>3, <1>5, <1>7, TellFailed
<1> QED BY <1>4, <1>8, StepFailed

\* No variable changes.
LEMMA StutterStep ==
  ASSUME IndInv, UNCHANGED vars
  PROVE  IndInv'
<1>1. /\ parent' = parent /\ at' = at /\ early' = early /\ pipe_of' = pipe_of
      /\ anonymous' = anonymous /\ mute' = mute /\ auto' = auto /\ dangling' = dangling
      /\ gensec' = gensec /\ token' = token /\ rounds' = rounds /\ bound' = bound
      /\ result' = result /\ told' = told /\ given' = given
  BY DEF vars, authVars, ownerVars
<1>2. TypeOK' /\ NoStaleContext' /\ AuthComplete' /\ TriesInv'
  BY <1>1, Zenon DEF IndInv, TypeOK, NoStaleContext, AuthComplete, Complete, TriesInv
<1>3. PendingInv => PendingInv'
  BY <1>1, Zenon DEF PendingInv, MappingInv, BindInv
<1>4. ToldInv'
  BY <1>1, <1>3, Zenon DEF IndInv, ToldInv
<1> QED BY <1>2, <1>4 DEF IndInv

\* Every step keeps the invariant.
LEMMA NextInv ==
  ASSUME IndInv, [Next]_vars
  PROVE  IndInv'
<1>1. ASSUME NEW endpoint \in {"known", "default", "mapper"}, ConnectSend(endpoint) PROVE IndInv'
  BY <1>1, ConnectSendStep
<1>2. ASSUME NEW l \in Chains, MapDefault(l) PROVE IndInv'
  BY <1>2, MapDefaultStep
<1>3. ASSUME NEW l \in Chains, NEW ok \in BOOLEAN, NEW named \in BOOLEAN, OpenDone(l, ok, named)
      PROVE  IndInv'
  <2>1. CASE ok = TRUE
    BY <1>3, <2>1, OpenOKStep
  <2>2. CASE ok = FALSE
    BY <1>3, <2>2, OpenFailsStep
  <2> QED BY <2>1, <2>2
<1>4. ASSUME NEW l \in Chains, BindTrigger(l) PROVE IndInv'
  BY <1>4, BindTriggerStep
<1>5. ASSUME NEW l \in Chains, NEW creds \in BOOLEAN, BindAck(l, creds) PROVE IndInv'
  BY <1>5, BindAckStep
<1>6. ASSUME NEW l \in Chains, NEW creds \in BOOLEAN, AlterAck(l, creds) PROVE IndInv'
  BY <1>6, AlterAckStep
<1>7. ASSUME NEW l \in Chains, NEW reply \in {"nak_auth_type", "refused", "lost"},
             BindRefused(l, reply)
      PROVE  IndInv'
  BY <1>7, BindRefusedStep
<1>8. ASSUME NEW l \in Chains, NEW ok \in BOOLEAN, SecondDone(l, ok) PROVE IndInv'
  BY <1>8, SecondDoneStep
<1>9. ASSUME NEW ok \in BOOLEAN, MapReply(ok) PROVE IndInv'
  BY <1>9, MapReplyStep
<1>10. CASE Timeout
  BY <1>10, TimeoutStep
<1>11. CASE UNCHANGED vars
  BY <1>11, StutterStep
<1> QED
  BY <1>1, <1>2, <1>3, <1>4, <1>5, <1>6, <1>7, <1>8, <1>9, <1>10, <1>11 DEF Next
-----------------------------------------------------------------------------
(***************************************************************************)
(* Theorems                                                                *)
(***************************************************************************)
\* In every stage of a connect the talloc tree has the one shape that its
\* continuations rely on, whatever replies, immediate events and the timer of
\* dcerpc_connect.c have come before.
THEOREM Invariance == Spec => []IndInv
<1>1. Init => IndInv
  BY InitInv
<1>2. IndInv /\ [Next]_vars => IndInv'
  BY NextInv
<1> QED BY <1>1, <1>2, PTL DEF Spec

\* Every variable of a connect keeps its type; in particular the exchange with
\* gensec stays within its rounds.
THEOREM TypeCorrect == Spec => []TypeOK
<1>1. IndInv => TypeOK
  BY DEF IndInv
<1> QED BY <1>1, Invariance, PTL

\* dcerpc_pipe_connect_b_recv leaves the caller with the pipe that it is given and
\* nothing else, and with nothing after a failure: no context, no first pipe of
\* a second try and no pipe to the endpoint mapper outlives the connect.
THEOREM OnePipeSafe == Spec => []OnePipe
<1>1. IndInv => OnePipe
  <2> SUFFICES ASSUME IndInv PROVE OnePipe
    OBVIOUS
  <2>1. ToldInv
    BY DEF IndInv
  <2>2. ASSUME result = "OK" PROVE Allocated = {given} /\ parent[given] = Caller
    <3>1. given \in {Pipe(1), Pipe2(1)} /\ GivenTree(parent, given)
      BY <2>1, <2>2 DEF ToldInv
    <3> QED BY <3>1, ObjectNames, ObjectSets DEF GivenTree, Only, Allocated
  <2>3. ASSUME result = "error" PROVE Allocated = {}
    BY <2>1, <2>3 DEF ToldInv, NoTree, Only, Allocated
  <2> QED BY <2>2, <2>3 DEF OnePipe
<1> QED BY <1>1, Invariance, PTL

\* No continuation of the connect runs on a context or a pipe that was freed: the
\* timer and a failure free everything whose callbacks could still come.
THEOREM NoStaleContextSafe == Spec => []NoStaleContext
<1>1. IndInv => NoStaleContext
  BY DEF IndInv
<1> QED BY <1>1, Invariance, PTL

\* Whatever number of rounds bind_auth_next_step takes, and on the first or the second
\* connection, a caller with credentials is given a pipe only when the server
\* has bound it and gensec has accepted the server's last token.  What that
\* asks of gensec is that no mechanism is mute: the exits of dcerpc_auth.c at
\* 139 and 320 are the only ways around it.
THEOREM AuthCompleteSafe == Spec => []AuthComplete
<1>1. IndInv => AuthComplete
  BY DEF IndInv
<1> QED BY <1>1, Invariance, PTL

\* The owner of the connect is told at most once: the timer does not tell it again
\* of a connect that has ended, nor a late reply of one that has timed out.
THEOREM ToldAtMostOnce == Spec => [](told <= 1)
<1>1. IndInv => told <= 1
  BY DEF IndInv, ToldInv
<1> QED BY <1>1, Invariance, PTL

\* A step is possible only while the caller waits.
LEMMA PendingStep ==
  ASSUME IndInv, Next
  PROVE  result = "pending"
<1>1. ToldInv
  BY DEF IndInv
<1>2. ASSUME NEW endpoint, ConnectSend(endpoint) PROVE result = "pending"
  BY <1>1, <1>2 DEF ConnectSend, ToldInv
<1>3. ASSUME NEW x \in Objects, Alive(x), at[1] # "ended" PROVE result = "pending"
  BY <1>1, <1>3 DEF ToldInv, NoTree, Only, Alive
<1>4. ASSUME NEW l \in Chains, MapDefault(l) PROVE result = "pending"
  <2>1. at[l] = "mapped" /\ Alive(Epm(l))
    BY <1>4 DEF MapDefault
  <2>2. CASE l = 1
    BY <1>3, <2>1, <2>2, ObjectSets
  <2>3. CASE l = 2
    BY <1>1, <2>1, <2>3, Mapped2
  <2> QED BY <2>2, <2>3 DEF Chains
<1>5. ASSUME NEW l \in Chains, NEW ok \in BOOLEAN, NEW named \in BOOLEAN, OpenDone(l, ok, named)
      PROVE  result = "pending"
  <2>1. at[l] = "opening" /\ Alive(Pipe(l))
    BY <1>5 DEF OpenDone
  <2>2. CASE l = 1
    BY <1>1, <2>1, <2>2, Opening1
  <2>3. CASE l = 2
    BY <1>1, <2>1, <2>3, Opening2
  <2> QED BY <2>2, <2>3 DEF Chains
<1>6. ASSUME NEW l \in Chains, Alive(Auth(l)), at[l] \in {"binding", "altering", "early"}
      PROVE  result = "pending"
  <2>1. CASE l = 1
    BY <1>1, <1>6, <2>1, Binding1
  <2>2. CASE l = 2
    BY <1>1, <1>6, <2>2, Binding2
  <2> QED BY <2>1, <2>2 DEF Chains
<1>7. ASSUME NEW l \in Chains, BindTrigger(l) PROVE result = "pending"
  BY <1>6, <1>7 DEF BindTrigger
<1>8. ASSUME NEW l \in Chains, NEW creds \in BOOLEAN, BindAck(l, creds) \/ AlterAck(l, creds)
      PROVE  result = "pending"
  BY <1>6, <1>8 DEF BindAck, AlterAck, Awaits
<1>9. ASSUME NEW l \in Chains, NEW reply, BindRefused(l, reply) PROVE result = "pending"
  BY <1>6, <1>9 DEF BindRefused, Awaits
<1>10. ASSUME NEW l \in Chains, NEW ok \in BOOLEAN, SecondDone(l, ok) PROVE result = "pending"
  <2>1. at[l] = "reopening" /\ Alive(Pipe2(l))
    BY <1>10 DEF SecondDone
  <2>2. l = 1
    BY <1>1, <2>1, NoSecond2 DEF Chains
  <2> QED BY <1>3, <2>1, <2>2, ObjectSets
<1>11. ASSUME NEW ok \in BOOLEAN, MapReply(ok) PROVE result = "pending"
  BY <1>3, <1>11, ObjectSets DEF MapReply
<1>12. ASSUME Timeout PROVE result = "pending"
  BY <1>1, <1>12, Timing DEF Timeout, Timed
<1> QED
  BY <1>2, <1>4, <1>5, <1>7, <1>8, <1>9, <1>10, <1>11, <1>12 DEF Next

\* Once the caller is told, nothing of the connect runs any more: every event, reply
\* and timer that dcerpc_connect.c left behind went with the context.
THEOREM QuietWhenTold == Spec => [][result = "pending"]_vars
<1>1. IndInv /\ [Next]_vars => [result = "pending"]_vars
  BY PendingStep
<1> QED BY <1>1, Invariance, PTL DEF Spec

(***************************************************************************)
(* The safety half of ConnectAnswered: an owner that waits has a timer.    *)
(***************************************************************************)
\* The timer of dcerpc_pipe_connect_b_send is a child of the context of the connect.
TimerArmed == at[1] # "idle" /\ result = "pending" => Timed

\* In no stage of the connect, also when the pipes have changed hands or chain 2 is
\* gone, is the owner left waiting without the timer of dcerpc_pipe_connect_b_send:
\* nothing but the end of the connect takes the context that it hangs on.
THEOREM TimerArmedSafe == Spec => []TimerArmed
<1>1. IndInv => TimerArmed
  <2> SUFFICES ASSUME IndInv, at[1] # "idle", result = "pending" PROVE Timed
    BY DEF TimerArmed
  <2>1. PendingInv
    BY DEF IndInv, ToldInv
  <2>2. parent[Connect(1)] = Caller
    BY <2>1 DEF PendingInv, MappedTree, MappingInv, MappingTree, MapcallTree, PlainTree,
                FirstTree, ReopenTree, AgainTree, AuthTreeOn
  <2> QED BY <2>2, ObjectNames, ObjectSets DEF Timed, Alive
<1> QED BY <1>1, Invariance, PTL
=============================================================================
