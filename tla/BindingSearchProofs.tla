------------------------ MODULE BindingSearchProofs -------------------------
(***************************************************************************)
(* The search for a string binding makes one pass, and stays inside the    *)
(* array of bindings unless a shorter one replaces it, for arrays of any   *)
(* length and any number of replacements.                                  *)
(***************************************************************************)
EXTENDS BindingSearch, NaturalsInduction, WellFoundedInduction, SequenceTheorems, TLAPS

\* Between two connects, the index counts the bindings that the pass has seen.
IndexInv ==
  state = "connecting" =>
    current_binding_index \in 0 .. MaxBindings /\ current_binding_offset \in 0 .. MaxBindings

\* As long as no shorter array came, index and offset are inside the array.
ArrayInv ==
  ~shorter => /\ ~strayed
              /\ state = "connecting" => /\ current_binding_offset < NULL
                                         /\ current_binding_index <= NULL

\* As long as the array stays, the offset is the place that the index says, and the
\* bindings up to there were tried.
PassInv ==
  replaced = 0 =>
    /\ state = "idle" => tried = << >>
    /\ state \in {"connecting", "done"} =>
         /\ similar_binding_index = find_similar_binding
         /\ current_binding_index \in 1 .. NULL
         /\ current_binding_offset \in 0 .. NULL - 1
         /\ Place(current_binding_offset) = current_binding_index - 1
         /\ Passed(current_binding_index)
    /\ state = "failed" => Passed(NULL)
    /\ state # "undefined"

IndInv == TypeOK /\ IndexInv /\ ArrayInv /\ PassInv
-----------------------------------------------------------------------------
(***************************************************************************)
(* The loop of try_next_binding, a function defined by recursion.          *)
(***************************************************************************)

\* A set of naturals that is not empty has a least element.
LEMMA LeastOfSet ==
  ASSUME NEW P \in SUBSET Nat, P # {}
  PROVE  \E i \in P : \A j \in P : i <= j
<1> DEFINE R == OpToRel(<, Nat)
<1>1. IsWellFoundedOn(R, Nat)
  BY NatLessThanWellFounded
<1>2. R = {ss \in Nat \X Nat : ss[1] < ss[2]}
  BY DEF OpToRel
<1> HIDE DEF R
<1>3. PICK i \in P : \A j \in P : ~(<<j, i>> \in R)
  BY <1>1, WFMin
<1>4. \A j \in P : ~(j < i)
  BY <1>2, <1>3
<1> QED BY <1>4

\* The variables of the loop before it, and after one more turn if it goes on.
First(o, i) == [offset |-> o, index |-> i, verdict |-> "go"]
More(c, similar) == IF c.verdict = "go" THEN Turn(c, similar) ELSE c

\* The variables of the loop after each of m turns.
IsLoop(g, m, o, i, similar) ==
  /\ g = [n \in 0 .. m |-> g[n]]
  /\ g[0] = First(o, i)
  /\ \A n \in 1 .. m : g[n] = More(g[n - 1], similar)

\* The loop can make any number of turns.
LEMMA LoopExists ==
  ASSUME NEW o, NEW i, NEW similar, NEW N \in Nat
  PROVE  \E g : IsLoop(g, N, o, i, similar)
<1> DEFINE T == {m \in 0 .. N : ~ \E g : IsLoop(g, m, o, i, similar)}
<1>0. N \in 0 .. N
  OBVIOUS
<1> SUFFICES ASSUME T # {} PROVE FALSE
  BY <1>0
<1>1. T \in SUBSET Nat
  OBVIOUS
<1>2. PICK m \in T : \A j \in T : m <= j
  BY <1>1, LeastOfSet
<1>3. m \in 0 .. N /\ ~ \E g : IsLoop(g, m, o, i, similar)
  OBVIOUS
<1>4. m # 0
  <2> DEFINE g == [n \in 0 .. 0 |-> First(o, i)]
  <2>1. g = [n \in 0 .. 0 |-> g[n]] /\ g[0] = First(o, i) /\ 1 .. 0 = {}
    OBVIOUS
  <2>2. IsLoop(g, 0, o, i, similar)
    <3> HIDE DEF g
    <3> QED BY <2>1 DEF IsLoop
  <2> QED BY <1>3, <2>2
<1>5. m - 1 \in 0 .. N /\ ~(m <= m - 1)
  BY <1>3, <1>4
<1>6. m - 1 \notin T
  BY <1>2, <1>5
<1>7. PICK g : IsLoop(g, m - 1, o, i, similar)
  BY <1>5, <1>6
<1> DEFINE h == [n \in 0 .. m |-> IF n = m THEN More(g[m - 1], similar) ELSE g[n]]
<1>8. h = [n \in 0 .. m |-> h[n]]
  OBVIOUS
<1>9. h[0] = First(o, i)
  BY <1>3, <1>4, <1>7 DEF IsLoop
<1>10. ASSUME NEW n \in 1 .. m PROVE h[n] = More(h[n - 1], similar)
  <2>1. h[n - 1] = g[n - 1] /\ n \in 0 .. m
    BY <1>3, <1>4
  <2>2. CASE n = m
    BY <2>1, <2>2
  <2>3. CASE n # m
    <3>1. n \in 1 .. m - 1
      BY <1>3, <2>3
    <3>2. g[n] = More(g[n - 1], similar)
      BY <1>7, <3>1 DEF IsLoop
    <3> QED BY <2>1, <2>3, <3>2
  <2> QED BY <2>2, <2>3
<1>11. IsLoop(h, m, o, i, similar)
  <2> HIDE DEF h
  <2> QED BY <1>8, <1>9, <1>10 DEF IsLoop
<1> QED BY <1>3, <1>11

\* The recursion that defines the loop.
LEMMA LoopLemma ==
  ASSUME NEW o, NEW i, NEW similar
  PROVE  \E g : /\ IsLoop(g, MaxBindings + 1, o, i, similar)
                /\ Loop(o, i, similar) = g[MaxBindings + 1]
<1> DEFINE K == MaxBindings + 1
<1>0. K \in Nat
  BY BoundsAssumption
<1> DEFINE F(s) == [n \in 0 .. MaxBindings + 1 |->
                      IF n = 0 THEN [offset |-> o, index |-> i, verdict |-> "go"]
                      ELSE IF s[n - 1].verdict = "go" THEN Turn(s[n - 1], similar) ELSE s[n - 1]]
<1> DEFINE L == CHOOSE s : s = F(s)
<1>1. PICK g : IsLoop(g, K, o, i, similar)
  BY <1>0, LoopExists
<1>2. g = F(g)
  <2>1. ASSUME NEW n \in 0 .. MaxBindings + 1
        PROVE  g[n] = IF n = 0 THEN [offset |-> o, index |-> i, verdict |-> "go"]
                      ELSE IF g[n - 1].verdict = "go" THEN Turn(g[n - 1], similar) ELSE g[n - 1]
    <3>1. CASE n = 0
      BY <1>1, <3>1 DEF IsLoop, First
    <3>2. CASE n # 0
      <4>1. n \in 1 .. K
        BY <3>2, <1>0
      <4>2. g[n] = More(g[n - 1], similar)
        BY <1>1, <4>1 DEF IsLoop
      <4> QED BY <3>2, <4>2 DEF More
    <3> QED BY <3>1, <3>2
  <2>2. g = [n \in 0 .. MaxBindings + 1 |-> g[n]]
    BY <1>1 DEF IsLoop
  <2> QED BY <2>1, <2>2
<1>3. Loop(o, i, similar) = L[MaxBindings + 1]
  BY DEF Loop
<1>4. L = F(L)
  <2> HIDE DEF F
  <2> QED BY <1>2
<1> HIDE DEF L
<1>5. IsLoop(L, K, o, i, similar)
  <2>1. L = [n \in 0 .. K |-> L[n]]
    BY <1>4
  <2>2. L[0] = First(o, i)
    <3>1. 0 \in 0 .. MaxBindings + 1
      BY <1>0
    <3> QED BY <1>4, <3>1 DEF First
  <2>3. ASSUME NEW n \in 1 .. K PROVE L[n] = More(L[n - 1], similar)
    <3>1. n \in 0 .. MaxBindings + 1 /\ n # 0
      BY <1>0
    <3> QED BY <1>4, <3>1 DEF More
  <2> QED BY <2>1, <2>2, <2>3 DEF IsLoop
<1> QED BY <1>3, <1>5
-----------------------------------------------------------------------------
(***************************************************************************)
(* What a turn of the loop does.                                           *)
(***************************************************************************)

\* The array has its NULL after its bindings, and the similar one is in it.
LEMMA ArrayLemma ==
  ASSUME bindings \in Arrays
  PROVE  /\ NULL \in 0 .. MaxBindings /\ NULL \in Nat
         /\ find_similar_binding \in 0 .. NULL
         /\ find_similar_binding < NULL => At(find_similar_binding) = "similar"
<1>1. PICK n \in 0 .. MaxBindings : bindings \in [1 .. n -> Bindings]
  BY DEF Arrays
<1>2. Len(bindings) = n /\ n \in Nat
  BY <1>1, BoundsAssumption
<1>3. NULL \in 0 .. MaxBindings /\ NULL \in Nat
  BY <1>1, <1>2 DEF NULL
<1> DEFINE found == {i \in 0 .. NULL - 1 : At(i) = "similar"}
<1>4. CASE found = {}
  <2>1. find_similar_binding = NULL
    BY <1>4 DEF find_similar_binding
  <2> QED BY <1>3, <2>1
<1>5. CASE found # {}
  <2>1. found \in SUBSET Nat
    BY <1>3
  <2>2. \E i \in found : \A j \in found : i <= j
    BY <2>1, <1>5, LeastOfSet
  <2>3. find_similar_binding = CHOOSE i \in found : \A j \in found : i <= j
    BY <1>5 DEF find_similar_binding
  <2>4. find_similar_binding \in found
    BY <2>2, <2>3
  <2> QED BY <1>3, <2>4
<1> QED BY <1>4, <1>5

\* Places in numbers: the pass from b in an array of length l.
Spot(b, l, x) == IF b <= x THEN x - b ELSE l - b + x

\* Each binding has a place of its own.
LEMMA SpotLemma ==
  ASSUME NEW l \in Nat, NEW b \in 0 .. l, l > 0 => b < l
  PROVE  /\ \A x \in 0 .. l - 1 : Spot(b, l, x) \in 0 .. l - 1
         /\ \A x, y \in 0 .. l - 1 : Spot(b, l, x) = Spot(b, l, y) => x = y
BY DEF Spot

\* The place after a place.
LEMMA SpotNext ==
  ASSUME NEW l \in Nat, NEW b \in 0 .. l, NEW k \in 1 .. l - 1, b < l,
         NEW x \in 0 .. l - 1, Spot(b, l, x) = k - 1
  PROVE  /\ x + 1 = l => Spot(b, l, 0) = k
         /\ x + 1 # l => Spot(b, l, x + 1) = k /\ x + 1 \in 0 .. l - 1
BY DEF Spot

\* Place says the same of the array and of its best binding.
LEMMA PlaceLemma ==
  ASSUME bindings \in Arrays
  PROVE  /\ Best \in 0 .. NULL /\ (NULL > 0 => Best < NULL)
         /\ \A x : Place(x) = Spot(Best, NULL, x)
         /\ \A x \in 0 .. NULL - 1 : Place(x) \in 0 .. NULL - 1
         /\ \A x, y \in 0 .. NULL - 1 : Place(x) = Place(y) => x = y
<1>1. Best \in 0 .. NULL /\ (NULL > 0 => Best < NULL)
  BY ArrayLemma DEF Best
<1>2. \A x : Place(x) = Spot(Best, NULL, x)
  BY DEF Place, Spot
<1> QED BY <1>1, <1>2, SpotLemma, ArrayLemma

\* The loop variables c are those of the pass: index bindings were seen.
Stands(c) ==
  /\ c.index \in 0 .. NULL
  /\ c.index = 0 => c.offset = find_similar_binding - 1
  /\ c.index > 0 => c.offset \in 0 .. NULL - 1 /\ Place(c.offset) = c.index - 1

\* The next binding of the pass is the one in the next place.
LEMMA NextPlace ==
  ASSUME bindings \in Arrays, NEW c, Stands(c), c.index < NULL
  PROVE  NextOffset(c.offset) \in 0 .. NULL - 1 /\ Place(NextOffset(c.offset)) = c.index
<1>1. NULL \in Nat /\ find_similar_binding \in 0 .. NULL
  BY ArrayLemma
<1>2. CASE c.index = 0
  <2>1. NULL > 0 /\ c.offset + 1 = find_similar_binding
    BY <1>1, <1>2 DEF Stands
  <2>2. NextOffset(c.offset) = Best
    BY <2>1 DEF NextOffset, Best
  <2>3. Best \in 0 .. NULL - 1
    BY <2>1, <1>1, PlaceLemma
  <2>4. Place(Best) = 0
    BY <2>3 DEF Place
  <2> QED BY <1>2, <2>2, <2>3, <2>4
<1>3. CASE c.index # 0
  <2> DEFINE l == NULL
             b == Best
             k == c.index
             x == c.offset
  <2>1. l \in Nat /\ k \in 1 .. l - 1 /\ x \in 0 .. l - 1 /\ Place(x) = k - 1
    BY <1>1, <1>3 DEF Stands
  <2>2. b \in 0 .. l /\ b < l /\ Spot(b, l, x) = k - 1
    BY <1>1, <2>1, PlaceLemma
  <2> HIDE DEF l, b, k, x
  <2>3. /\ x + 1 = l => Spot(b, l, 0) = k
        /\ x + 1 # l => Spot(b, l, x + 1) = k /\ x + 1 \in 0 .. l - 1
    BY <2>1, <2>2, SpotNext
  <2>4. NextOffset(x) = IF x + 1 = l THEN 0 ELSE x + 1
    BY DEF NextOffset, l
  <2>5. NextOffset(x) \in 0 .. l - 1 /\ Spot(b, l, NextOffset(x)) = k
    BY <2>1, <2>3, <2>4
  <2> QED BY <2>5, PlaceLemma DEF l, b, k, x
<1> QED BY <1>2, <1>3

LoopVars ==
  [offset : -1 .. MaxBindings, index : 0 .. MaxBindings + 1,
   verdict : {"go", "try", "none", "stray"}]

\* Of the bindings from place i on, the loop has found none but the one to try.
Seen(c, i) ==
  /\ c.verdict # "stray"
  /\ c.verdict \in {"go", "try"} => Stands(c) /\ i <= c.index
  /\ c.verdict = "try" => IsTcp(At(c.offset)) /\ i < c.index
  /\ c.verdict = "none" => c.index = NULL + 1
  /\ \A x \in 0 .. NULL - 1 : (IsTcp(At(x)) /\ i <= Place(x) /\ Place(x) < c.index) =>
       c.verdict = "try" /\ x = c.offset

\* The variables c after n turns from o and i: the loop counts its turns and stays
\* in the array if it began there, and on the pass if it began on it.
TurnInv(c, n, o, i, similar) ==
  /\ c \in LoopVars
  /\ c.verdict = "go" => c.index = i + n /\ (n > 0 => c.index <= NULL)
  /\ c.verdict = "try" => c.offset \in 0 .. NULL - 1 /\ c.index \in 1 .. NULL
  /\ o < NULL /\ i <= NULL => /\ c.verdict # "stray"
                              /\ c.verdict = "go" => c.offset < NULL /\ c.index <= NULL
  /\ Stands(First(o, i)) /\ similar = find_similar_binding => Seen(c, i)

\* The four ends of a turn.
LEMMA TurnCases ==
  ASSUME NEW c \in LoopVars, c.verdict = "go", NEW similar, bindings \in Arrays
  PROVE  LET d == Turn(c, similar)
             off == NextOffset(c.offset)
         IN  /\ d = [offset |-> d.offset, index |-> d.index, verdict |-> d.verdict]
             /\ \/ /\ c.index > NULL
                   /\ d.offset = c.offset /\ d.index = c.index /\ d.verdict = "stray"
                \/ /\ c.index = NULL
                   /\ d.offset = c.offset /\ d.index = c.index + 1 /\ d.verdict = "none"
                \/ /\ c.index < NULL /\ off >= NULL
                   /\ d.offset = c.offset /\ d.index = c.index /\ d.verdict = "stray"
                \/ /\ c.index < NULL /\ off < NULL
                   /\ d.offset = off /\ d.index = c.index + 1
                   /\ d.verdict = IF (off = similar \/ IsTcp(At(off))) /\ Parses(At(off))
                                  THEN "try" ELSE "go"
<1>1. NULL \in Nat
  BY ArrayLemma
<1>2. c.index \in Int /\ c.offset \in Int
  BY BoundsAssumption DEF LoopVars
<1> DEFINE off == NextOffset(c.offset)
           nxt == [offset |-> off, index |-> c.index + 1, verdict |-> "go"]
<1>3. off \in Int
  BY <1>1, <1>2 DEF NextOffset
<1> HIDE DEF off
<1>4. CASE c.index > NULL
  <2>1. Turn(c, similar) = [c EXCEPT !.verdict = "stray"]
    BY <1>1, <1>2, <1>4 DEF Turn
  <2> QED BY <1>4, <2>1 DEF LoopVars
<1>5. CASE c.index = NULL
  <2>1. ~(c.index > NULL)
    BY <1>1, <1>5
  <2>2. Turn(c, similar) = [c EXCEPT !.verdict = "none", !.index = @ + 1]
    BY <1>1, <1>2, <1>5, <2>1 DEF Turn
  <2> QED BY <1>5, <2>2 DEF LoopVars
<1>6. CASE c.index < NULL /\ off >= NULL
  <2>1. ~(c.index > NULL) /\ c.index # NULL
    BY <1>1, <1>2, <1>6
  <2>2. Turn(c, similar) = [c EXCEPT !.verdict = "stray"]
    BY <1>6, <2>1 DEF Turn, off
  <2> QED BY <1>6, <2>2 DEF LoopVars, off
<1>7. CASE c.index < NULL /\ off < NULL
  <2>1. ~(c.index > NULL) /\ c.index # NULL /\ ~(off >= NULL)
    BY <1>1, <1>2, <1>3, <1>7
  <2>2. Turn(c, similar) = IF (off = similar \/ IsTcp(At(off))) /\ Parses(At(off))
                           THEN [nxt EXCEPT !.verdict = "try"] ELSE nxt
    BY <1>7, <2>1 DEF Turn, off
  <2> QED BY <1>7, <2>2 DEF off
<1> QED BY <1>1, <1>2, <1>3, <1>4, <1>5, <1>6, <1>7

\* A turn on the pass looks at the next binding of it.
LEMMA TurnSeen ==
  ASSUME bindings \in Arrays, NEW i \in Nat, NEW c \in LoopVars, c.verdict = "go", Seen(c, i)
  PROVE  Seen(Turn(c, find_similar_binding), i)
<1> DEFINE similar == find_similar_binding
           d == Turn(c, similar)
           off == NextOffset(c.offset)
           l == NULL
<1>1. l \in Nat /\ similar \in 0 .. l /\ (similar < l => At(similar) = "similar")
  BY ArrayLemma
<1>2. Stands(c) /\ i <= c.index /\ c.index \in 0 .. l
  BY DEF Seen, Stands
<1>3. \A x \in 0 .. l - 1 : ~(IsTcp(At(x)) /\ i <= Place(x) /\ Place(x) < c.index)
  BY DEF Seen
<1>4. \A x \in 0 .. l - 1 : Place(x) \in 0 .. l - 1
  BY PlaceLemma
<1>5. CASE c.index = l
  <2>1. d.index = c.index + 1 /\ d.verdict = "none"
    BY <1>1, <1>2, <1>5, TurnCases
  <2> HIDE DEF d
  <2>2. \A x \in 0 .. l - 1 : ~(IsTcp(At(x)) /\ i <= Place(x))
    BY <1>1, <1>3, <1>4, <1>5
  <2> QED BY <1>5, <2>1, <2>2 DEF Seen, d
<1>6. CASE c.index < l
  <2>1. off \in 0 .. l - 1 /\ Place(off) = c.index
    BY <1>2, <1>6, NextPlace
  <2>2. /\ d.offset = off /\ d.index = c.index + 1
        /\ d.verdict = IF (off = similar \/ IsTcp(At(off))) /\ Parses(At(off))
                       THEN "try" ELSE "go"
    BY <1>1, <1>2, <1>6, <2>1, TurnCases
  <2>3. d.verdict = IF IsTcp(At(off)) THEN "try" ELSE "go"
    BY <1>1, <2>1, <2>2 DEF IsTcp, Parses
  <2> HIDE DEF d, off
  <2>4. Stands(d) /\ i <= d.index /\ i < d.index
    BY <1>1, <1>2, <1>6, <2>1, <2>2 DEF Stands
  <2>5. ASSUME NEW x \in 0 .. l - 1, IsTcp(At(x)), i <= Place(x), Place(x) < d.index
        PROVE  d.verdict = "try" /\ x = d.offset
    <3>1. Place(x) \in Int /\ c.index \in Int
      BY <1>1, <1>2, <1>4
    <3>2. Place(x) = c.index
      BY <1>3, <2>2, <2>5, <3>1
    <3>3. x = off
      BY <2>1, <3>2, PlaceLemma
    <3> QED BY <2>2, <2>3, <2>5, <3>3
  <2>6. d.verdict \in {"go", "try"} /\ (d.verdict = "try" => IsTcp(At(d.offset)))
    BY <2>2, <2>3
  <2>7. Seen(d, i)
    BY <2>4, <2>5, <2>6 DEF Seen
  <2> QED BY <2>7 DEF d
<1> QED BY <1>1, <1>2, <1>5, <1>6

\* Every turn keeps TurnInv.
LEMMA TurnKeeps ==
  ASSUME bindings \in Arrays, NEW o \in Int, NEW i \in 0 .. MaxBindings, NEW similar,
         NEW n \in Nat, NEW c, TurnInv(c, n, o, i, similar), c.verdict = "go"
  PROVE  TurnInv(Turn(c, similar), n + 1, o, i, similar)
<1> DEFINE d == Turn(c, similar)
           off == NextOffset(c.offset)
           l == NULL
<1>1. l \in Nat /\ l \in 0 .. MaxBindings /\ MaxBindings \in Nat
  BY ArrayLemma, BoundsAssumption
<1>2. /\ c \in LoopVars /\ c.index = i + n /\ c.index \in 0 .. MaxBindings + 1
      /\ c.offset \in -1 .. MaxBindings
  BY DEF TurnInv, LoopVars
<1>3. /\ d = [offset |-> d.offset, index |-> d.index, verdict |-> d.verdict]
      /\ \/ /\ c.index > l
            /\ d.offset = c.offset /\ d.index = c.index /\ d.verdict = "stray"
         \/ /\ c.index = l
            /\ d.offset = c.offset /\ d.index = c.index + 1 /\ d.verdict = "none"
         \/ /\ c.index < l /\ off >= l
            /\ d.offset = c.offset /\ d.index = c.index /\ d.verdict = "stray"
         \/ /\ c.index < l /\ off < l
            /\ d.offset = off /\ d.index = c.index + 1 /\ d.verdict \in {"try", "go"}
  BY <1>2, TurnCases
<1>4. /\ off \in 0 .. MaxBindings + 1
      /\ c.offset < l /\ l > 0 => off < l
  BY <1>1, <1>2 DEF NextOffset
<1>5. Stands(First(o, i)) /\ similar = find_similar_binding => Seen(d, i)
  BY <1>2, TurnSeen DEF TurnInv
<1>6. o < l /\ i <= l => c.offset < l /\ c.index <= l
  BY DEF TurnInv
<1> HIDE DEF d, off, l
<1>7. d.offset \in -1 .. MaxBindings /\ d.index \in 0 .. MaxBindings + 1
      /\ d.verdict \in {"go", "try", "none", "stray"}
  BY <1>1, <1>2, <1>3, <1>4
<1>8. d \in LoopVars
  BY <1>3, <1>7 DEF LoopVars
<1>9. d.verdict = "go" => d.index = i + (n + 1) /\ d.index <= l
  BY <1>1, <1>2, <1>3
<1>10. d.verdict = "try" => d.offset \in 0 .. l - 1 /\ d.index \in 1 .. l
  BY <1>1, <1>2, <1>3, <1>4
<1>11. o < l /\ i <= l => /\ d.verdict # "stray"
                          /\ d.verdict = "go" => d.offset < l /\ d.index <= l
  BY <1>1, <1>2, <1>3, <1>4, <1>6
<1>12. TurnInv(d, n + 1, o, i, similar)
  BY <1>5, <1>8, <1>9, <1>10, <1>11 DEF TurnInv, l
<1> QED BY <1>12 DEF d

\* Where the loop of try_next_binding ends: it does not run out of turns, it stays
\* in the array, and on the pass it stops at the next binding to try.
LEMMA LoopWhat ==
  ASSUME bindings \in Arrays, NEW o \in -1 .. MaxBindings, NEW i \in 0 .. MaxBindings,
         NEW similar
  PROVE  LET c == Loop(o, i, similar)
         IN  /\ c \in LoopVars
             /\ c.verdict # "go"
             /\ c.verdict = "try" => c.offset \in 0 .. NULL - 1 /\ c.index \in 1 .. NULL
             /\ o < NULL /\ i <= NULL => c.verdict # "stray"
             /\ Stands(First(o, i)) /\ similar = find_similar_binding => Seen(c, i)
<1> DEFINE K == MaxBindings + 1
<1>1. /\ K \in Nat /\ NULL \in Nat /\ NULL <= MaxBindings /\ MaxBindings \in Nat
      /\ o \in Int /\ i \in Nat
  BY ArrayLemma, BoundsAssumption
<1>2. PICK g : IsLoop(g, K, o, i, similar) /\ Loop(o, i, similar) = g[K]
  BY LoopLemma
<1> DEFINE T == {n \in 0 .. K : ~TurnInv(g[n], n, o, i, similar)}
<1>3. TurnInv(g[0], 0, o, i, similar)
  <2> DEFINE c == First(o, i)
  <2>1. g[0] = c /\ c.offset = o /\ c.index = i /\ c.verdict = "go"
    BY <1>2 DEF IsLoop, First
  <2>2. c \in LoopVars
    BY <1>1 DEF First, LoopVars
  <2>3. Stands(c) => Seen(c, i)
    <3>1. \A x \in 0 .. NULL - 1 : Place(x) \in Int
      BY <1>1, PlaceLemma
    <3> HIDE DEF c
    <3> QED BY <1>1, <2>1, <3>1 DEF Seen
  <2>4. i = i + 0 /\ ~(0 > 0)
    BY <1>1
  <2> HIDE DEF c
  <2>5. TurnInv(c, 0, o, i, similar)
    BY <2>1, <2>2, <2>3, <2>4 DEF TurnInv, c
  <2> QED BY <2>1, <2>5
<1>4. T = {}
  <2> SUFFICES ASSUME T # {} PROVE FALSE
    OBVIOUS
  <2>1. T \in SUBSET Nat
    BY <1>1
  <2>2. PICK n \in T : \A j \in T : n <= j
    BY <2>1, LeastOfSet
  <2>3. n \in 0 .. K /\ ~TurnInv(g[n], n, o, i, similar)
    OBVIOUS
  <2>4. n # 0
    BY <1>3, <2>3
  <2>5. n - 1 \in 0 .. K /\ ~(n <= n - 1) /\ n \in 1 .. K /\ n - 1 \in Nat /\ (n - 1) + 1 = n
    BY <1>1, <2>3, <2>4
  <2>6. TurnInv(g[n - 1], n - 1, o, i, similar)
    BY <2>2, <2>5
  <2>7. g[n] = More(g[n - 1], similar)
    BY <1>2, <2>5 DEF IsLoop
  <2>8. CASE g[n - 1].verdict = "go"
    <3>1. TurnInv(Turn(g[n - 1], similar), (n - 1) + 1, o, i, similar)
      BY <1>1, <2>5, <2>6, <2>8, TurnKeeps
    <3> QED BY <2>3, <2>5, <2>7, <2>8, <3>1 DEF More
  <2>9. CASE g[n - 1].verdict # "go"
    <3>1. g[n] = g[n - 1]
      BY <2>7, <2>9 DEF More
    <3>2. TurnInv(g[n - 1], n, o, i, similar)
      BY <2>6, <2>9 DEF TurnInv
    <3> QED BY <2>3, <3>1, <3>2
  <2> QED BY <2>8, <2>9
<1>5. TurnInv(g[K], K, o, i, similar)
  BY <1>1, <1>4
<1> DEFINE c == Loop(o, i, similar)
<1>6. TurnInv(c, K, o, i, similar)
  BY <1>2, <1>5
<1> HIDE DEF c
<1>7. c.verdict # "go"
  <2> SUFFICES ASSUME c.verdict = "go" PROVE FALSE
    OBVIOUS
  <2>1. c.index = i + K /\ c.index <= NULL
    BY <1>1, <1>6 DEF TurnInv
  <2> QED BY <1>1, <2>1
<1> QED BY <1>6, <1>7 DEF TurnInv, c
-----------------------------------------------------------------------------
(***************************************************************************)
(* The steps of the search.                                                *)
(***************************************************************************)

\* Passed, of a sequence t of offsets.
PassedBy(t, n) ==
  /\ Range(t) = {o \in 0 .. NULL - 1 : IsTcp(At(o)) /\ Place(o) < n}
  /\ \A j, k \in DOMAIN t : j < k => Place(t[j]) < Place(t[k])

\* What is said of the array stays as long as the array does.
LEMMA SameArray ==
  ASSUME UNCHANGED bindings
  PROVE  /\ NULL' = NULL
         /\ find_similar_binding' = find_similar_binding
         /\ Best' = Best
         /\ Place(current_binding_offset)' = Place(current_binding_offset')
         /\ \A n : Passed(n)' <=> PassedBy(tried', n)
<1>1. NULL' = NULL /\ \A x : At(x)' = At(x)
  BY DEF NULL, At
<1>2. find_similar_binding' = find_similar_binding
  BY <1>1 DEF find_similar_binding, NULL, At
<1>3. Best' = Best
  BY <1>1, <1>2 DEF Best
<1>4. \A x : Place(x)' = Place(x)
  BY <1>1, <1>3 DEF Place
<1>5. Place(current_binding_offset)' = Place(current_binding_offset')
  BY <1>1, <1>3 DEF Place
<1>6. \A n : Passed(n)' <=> PassedBy(tried', n)
  BY <1>1, <1>3 DEF Passed, PassedBy, Place, IsTcp, At, Range
<1> QED BY <1>1, <1>2, <1>3, <1>5, <1>6

\* The elements of a sequence to which one is appended, and their order.
LEMMA PassedAppend ==
  ASSUME bindings \in Arrays, NEW t \in Seq(0 .. MaxBindings), NEW i \in Nat, PassedBy(t, i),
         NEW c, Seen(c, i), c.verdict = "try"
  PROVE  PassedBy(Append(t, c.offset), c.index)
<1> DEFINE u == Append(t, c.offset)
           m == Len(t)
           o == c.offset
           N == c.index
<1>1. /\ m \in Nat /\ DOMAIN t = 1 .. m /\ DOMAIN u = 1 .. m + 1
      /\ \A k \in 1 .. m : u[k] = t[k]
      /\ u[m + 1] = o
  BY AppendProperties, LenProperties
<1>2. /\ o \in 0 .. NULL - 1 /\ Place(o) = N - 1 /\ IsTcp(At(o)) /\ i < N /\ N \in 0 .. NULL
  BY ArrayLemma DEF Seen, Stands
<1>3. /\ NULL \in Nat
      /\ \A x \in 0 .. NULL - 1 : Place(x) \in 0 .. NULL - 1
  BY ArrayLemma, PlaceLemma
<1>4. \A x \in 0 .. NULL - 1 : IsTcp(At(x)) /\ i <= Place(x) /\ Place(x) < N => x = o
  BY DEF Seen
<1>5. /\ Range(t) = {x \in 0 .. NULL - 1 : IsTcp(At(x)) /\ Place(x) < i}
      /\ \A j, k \in DOMAIN t : j < k => Place(t[j]) < Place(t[k])
  BY DEF PassedBy
<1> HIDE DEF u, m, o, N
<1>6. Range(u) = Range(t) \cup {o}
  <2>1. \A x \in Range(u) : x \in Range(t) \cup {o}
    BY <1>1 DEF Range
  <2>2. \A k \in 1 .. m : k \in 1 .. m + 1
    BY <1>1
  <2>3. m + 1 \in 1 .. m + 1
    BY <1>1
  <2>4. \A x \in Range(t) \cup {o} : x \in Range(u)
    BY <1>1, <2>2, <2>3 DEF Range
  <2> QED BY <2>1, <2>4
<1>7. ASSUME NEW x \in 0 .. NULL - 1, IsTcp(At(x))
      PROVE  Place(x) < N <=> Place(x) < i \/ x = o
  <2>1. Place(x) \in Int /\ N \in Int /\ i \in Int /\ Place(o) < N
    BY <1>2, <1>3
  <2> QED BY <1>2, <1>4, <1>7, <2>1
<1>8. Range(u) = {x \in 0 .. NULL - 1 : IsTcp(At(x)) /\ Place(x) < N}
  BY <1>2, <1>5, <1>6, <1>7
<1>9. ASSUME NEW j \in DOMAIN u, NEW k \in DOMAIN u, j < k PROVE Place(u[j]) < Place(u[k])
  <2>1. j \in 1 .. m /\ u[j] = t[j]
    BY <1>1, <1>9
  <2>2. CASE k = m + 1
    <3>1. t[j] \in Range(t)
      BY <1>1, <2>1 DEF Range
    <3>2. Place(t[j]) < i /\ t[j] \in 0 .. NULL - 1
      BY <1>5, <3>1
    <3>3. Place(t[j]) \in Int /\ N \in Int
      BY <1>2, <1>3, <3>2
    <3>4. Place(t[j]) < N - 1
      BY <1>2, <3>2, <3>3
    <3> QED BY <1>1, <1>2, <2>1, <2>2, <3>4
  <2>3. CASE k # m + 1
    <3>1. k \in 1 .. m /\ u[k] = t[k]
      BY <1>1, <2>3
    <3> QED BY <1>1, <1>5, <1>9, <2>1, <3>1
  <2> QED BY <2>2, <2>3
<1> QED BY <1>8, <1>9 DEF PassedBy, u, o, N

\* A pass that has come to the NULL has tried every TCP binding.
LEMMA PassedAll ==
  ASSUME bindings \in Arrays, NEW t, NEW i \in Nat, PassedBy(t, i),
         NEW c, Seen(c, i), c.verdict = "none", i <= NULL
  PROVE  PassedBy(t, NULL)
<1>1. NULL \in Nat /\ \A x \in 0 .. NULL - 1 : Place(x) \in 0 .. NULL - 1
  BY ArrayLemma, PlaceLemma
<1>2. c.index = NULL + 1
  BY DEF Seen
<1>3. ASSUME NEW x \in 0 .. NULL - 1, IsTcp(At(x)) PROVE Place(x) < NULL <=> Place(x) < i
  <2>1. ~(i <= Place(x) /\ Place(x) < c.index)
    BY <1>3 DEF Seen
  <2>2. Place(x) \in 0 .. NULL - 1
    BY <1>1
  <2> QED BY <1>1, <1>2, <2>1, <2>2
<1> QED BY <1>3 DEF PassedBy

\* try_next_binding keeps the invariant if its caller has an offset and an index
\* that are good.
LEMMA TryKeeps ==
  ASSUME TypeOK, NEW o \in -1 .. MaxBindings, NEW i \in 0 .. MaxBindings,
         NEW similar \in 0 .. MaxBindings, NEW before \in BOOLEAN,
         try_next_binding(o, i, similar, before),
         similar_binding_index' = similar,
         UNCHANGED <<bindings, replaced, shorter>>,
         ~shorter => ~before /\ o < NULL /\ i <= NULL,
         replaced = 0 => /\ Stands(First(o, i)) /\ similar = find_similar_binding
                         /\ PassedBy(tried, i)
  PROVE  IndInv'
<1> DEFINE c == Loop(o, i, similar)
<1>1. bindings \in Arrays /\ tried \in Seq(0 .. MaxBindings)
  BY DEF TypeOK
<1>2. /\ c \in LoopVars
      /\ c.verdict # "go"
      /\ c.verdict = "try" => c.offset \in 0 .. NULL - 1 /\ c.index \in 1 .. NULL
      /\ o < NULL /\ i <= NULL => c.verdict # "stray"
      /\ Stands(First(o, i)) /\ similar = find_similar_binding => Seen(c, i)
  BY <1>1, LoopWhat
<1>3. /\ current_binding_offset' = c.offset
      /\ current_binding_index' = c.index
      /\ state' = CASE c.verdict = "try" -> "connecting"
                    [] c.verdict = "none" -> "failed"
                    [] c.verdict = "stray" -> "undefined"
      /\ tried' = IF c.verdict = "try" THEN Append(tried, c.offset) ELSE tried
      /\ strayed' = (c.verdict = "stray" \/ before)
  BY DEF try_next_binding
<1> HIDE DEF c
<1>4. /\ NULL \in Nat /\ NULL \in 0 .. MaxBindings /\ MaxBindings \in Nat /\ i \in Nat
      /\ NULL' = NULL /\ find_similar_binding' = find_similar_binding
      /\ Place(current_binding_offset)' = Place(current_binding_offset')
      /\ \A n : Passed(n)' <=> PassedBy(tried', n)
  BY <1>1, ArrayLemma, SameArray, BoundsAssumption
<1>5. /\ c.offset \in -1 .. MaxBindings /\ c.index \in 0 .. MaxBindings + 1
      /\ c.verdict \in {"try", "none", "stray"}
  BY <1>2 DEF LoopVars
<1>6. c.verdict = "try" => c.offset \in 0 .. MaxBindings /\ c.index \in 0 .. MaxBindings
  BY <1>2, <1>4
<1>7. /\ c.verdict = "try" => state' = "connecting"
      /\ c.verdict = "none" => state' = "failed"
      /\ c.verdict = "stray" => state' = "undefined"
  BY <1>3
<1>8. TypeOK'
  <2>1. state' \in {"idle", "connecting", "done", "failed", "undefined"}
    BY <1>5, <1>7
  <2>2. tried' \in Seq(0 .. MaxBindings)
    <3>1. CASE c.verdict = "try"
      <4>1. c.offset \in 0 .. MaxBindings
        BY <1>6, <3>1
      <4>2. Append(tried, c.offset) \in Seq(0 .. MaxBindings)
        BY <1>1, <4>1, AppendProperties
      <4> QED BY <1>3, <3>1, <4>2
    <3>2. CASE c.verdict # "try"
      BY <1>1, <1>3, <3>2
    <3> QED BY <3>1, <3>2
  <2>3. strayed' \in BOOLEAN
    BY <1>3
  <2> QED BY <1>3, <1>5, <2>1, <2>2, <2>3 DEF TypeOK
<1>9. IndexInv'
  BY <1>3, <1>5, <1>6, <1>7 DEF IndexInv
<1>10. ArrayInv'
  <2> SUFFICES ASSUME ~shorter
               PROVE  /\ ~strayed'
                      /\ state' = "connecting" => /\ current_binding_offset' < NULL
                                                  /\ current_binding_index' <= NULL
    BY <1>4 DEF ArrayInv
  <2>1. ~strayed'
    BY <1>2, <1>3
  <2>2. c.verdict = "try" => c.offset < NULL /\ c.index <= NULL
    BY <1>2, <1>4
  <2> QED BY <1>3, <1>5, <1>7, <2>1, <2>2
<1>11. PassInv'
  <2> DEFINE P ==
        /\ state' = "idle" => tried' = << >>
        /\ state' \in {"connecting", "done"} =>
             /\ similar_binding_index' = find_similar_binding
             /\ current_binding_index' \in 1 .. NULL
             /\ current_binding_offset' \in 0 .. NULL - 1
             /\ Place(current_binding_offset') = current_binding_index' - 1
             /\ PassedBy(tried', current_binding_index')
        /\ state' = "failed" => PassedBy(tried', NULL)
        /\ state' # "undefined"
  <2>1. SUFFICES ASSUME replaced = 0 PROVE P
    BY <1>4 DEF PassInv
  <2>2. Seen(c, i) /\ similar = find_similar_binding /\ PassedBy(tried, i) /\ i <= NULL
    BY <1>2, <2>1 DEF Stands, First
  <2>3. CASE c.verdict = "try"
    <3>1. PassedBy(tried', c.index)
      BY <1>1, <1>3, <1>4, <2>2, <2>3, PassedAppend
    <3>2. c.index \in 1 .. NULL /\ c.offset \in 0 .. NULL - 1 /\ Place(c.offset) = c.index - 1
      BY <1>2, <1>4, <2>2, <2>3 DEF Seen, Stands
    <3> QED BY <1>3, <1>7, <2>2, <2>3, <3>1, <3>2
  <2>4. CASE c.verdict = "none"
    <3>1. PassedBy(tried', NULL)
      BY <1>1, <1>3, <1>4, <2>2, <2>4, PassedAll
    <3> QED BY <1>7, <2>4, <3>1
  <2>5. c.verdict # "stray"
    BY <2>2 DEF Seen
  <2> QED BY <1>5, <2>3, <2>4, <2>5
<1> QED BY <1>8, <1>9, <1>10, <1>11 DEF IndInv

\* The search begins on the pass, before its first place.
LEMMA BindNewPipeInv == IndInv /\ bind_new_pipe => IndInv'
<1> SUFFICES ASSUME IndInv, bind_new_pipe PROVE IndInv'
  OBVIOUS
<1> DEFINE f == find_similar_binding
           o == FirstOffset(f)
<1>1. TypeOK /\ bindings \in Arrays /\ strayed \in BOOLEAN /\ MaxBindings \in Nat
  BY BoundsAssumption DEF IndInv, TypeOK
<1>2. /\ NULL \in Nat /\ NULL \in 0 .. MaxBindings /\ f \in 0 .. NULL
      /\ 0 \in 0 .. MaxBindings
  BY <1>1, ArrayLemma
<1>3. /\ state = "idle" /\ similar_binding_index' = f
      /\ try_next_binding(o, 0, f, strayed)
      /\ UNCHANGED <<bindings, replaced, shorter>>
  BY DEF bind_new_pipe
<1>4. o = f - 1
  BY DEF FirstOffset
<1> HIDE DEF f, o
<1>5. o \in -1 .. MaxBindings /\ o < NULL /\ 0 <= NULL /\ f \in 0 .. MaxBindings
  BY <1>1, <1>2, <1>4
<1>6. ~shorter => ~strayed
  BY DEF IndInv, ArrayInv
<1>7. replaced = 0 => Stands(First(o, 0)) /\ PassedBy(tried, 0)
  <2> SUFFICES ASSUME replaced = 0 PROVE Stands(First(o, 0)) /\ PassedBy(tried, 0)
    OBVIOUS
  <2>1. tried = << >>
    BY <1>3 DEF IndInv, PassInv
  <2>2. Range(<< >>) = {} /\ DOMAIN << >> = {}
    BY DEF Range
  <2>3. \A x \in 0 .. NULL - 1 : ~(Place(x) < 0)
    BY <1>1, <1>2, PlaceLemma
  <2>4. PassedBy(tried, 0)
    BY <2>1, <2>2, <2>3 DEF PassedBy
  <2>5. Stands(First(o, 0))
    BY <1>2, <1>4 DEF Stands, First, f
  <2> QED BY <2>4, <2>5
<1> QED BY <1>1, <1>2, <1>3, <1>5, <1>6, <1>7, TryKeeps DEF f

\* A connect that succeeds ends the search where it is.
LEMMA ConnectDoneInv == IndInv /\ ConnectDone => IndInv'
<1> SUFFICES ASSUME IndInv, ConnectDone PROVE IndInv'
  OBVIOUS
<1>1. /\ state = "connecting" /\ state' = "done" /\ strayed' = ReadsTried
      /\ UNCHANGED <<bindings, search, tried, replaced, shorter>>
  BY DEF ConnectDone
<1>2. TypeOK /\ bindings \in Arrays
  BY DEF IndInv, TypeOK
<1>3. /\ NULL \in Nat /\ NULL' = NULL /\ find_similar_binding' = find_similar_binding
      /\ Place(current_binding_offset)' = Place(current_binding_offset')
      /\ \A n : Passed(n)' <=> PassedBy(tried', n)
  BY <1>1, <1>2, ArrayLemma, SameArray
<1>4. current_binding_offset \in Int
  BY <1>2, BoundsAssumption DEF TypeOK
<1>5. TypeOK'
  <2>1. strayed' \in BOOLEAN
    BY <1>1 DEF ReadsTried
  <2> QED BY <1>1, <1>2, <2>1 DEF TypeOK, search
<1>6. IndexInv'
  BY <1>1 DEF IndexInv
<1>7. ArrayInv'
  <2>1. ~shorter => ~strayed /\ current_binding_offset < NULL
    BY <1>1 DEF IndInv, ArrayInv
  <2>2. ~shorter => ~(current_binding_offset > NULL)
    BY <1>3, <1>4, <2>1
  <2> QED BY <1>1, <2>1, <2>2 DEF ArrayInv, ReadsTried
<1>8. PassInv'
  <2>1. \A n : Passed(n) <=> PassedBy(tried, n)
    BY DEF Passed, PassedBy
  <2> QED BY <1>1, <1>3, <2>1 DEF IndInv, PassInv, search
<1> QED BY <1>5, <1>6, <1>7, <1>8 DEF IndInv

\* A connect that fails goes on from the place that it has tried.
LEMMA ConnectFailedInv == IndInv /\ ConnectFailed => IndInv'
<1> SUFFICES ASSUME IndInv, ConnectFailed PROVE IndInv'
  OBVIOUS
<1> DEFINE o == current_binding_offset
           i == current_binding_index
           f == similar_binding_index
<1>1. /\ state = "connecting" /\ try_next_binding(o, i, f, ReadsTried)
      /\ UNCHANGED <<bindings, similar_binding_index, replaced, shorter>>
  BY DEF ConnectFailed
<1>2. /\ TypeOK /\ bindings \in Arrays /\ f \in 0 .. MaxBindings
      /\ i \in 0 .. MaxBindings /\ o \in 0 .. MaxBindings
  BY <1>1 DEF IndInv, TypeOK, IndexInv
<1>3. o \in -1 .. MaxBindings /\ o \in Int /\ i \in Int
  BY <1>2, BoundsAssumption
<1>4. NULL \in Nat
  BY <1>2, ArrayLemma
<1>5. ReadsTried \in BOOLEAN
  BY DEF ReadsTried
<1>6. ~shorter => ~ReadsTried /\ o < NULL /\ i <= NULL
  <2>1. ~shorter => ~strayed /\ o < NULL /\ i <= NULL
    BY <1>1 DEF IndInv, ArrayInv
  <2>2. ~shorter => ~(o > NULL)
    BY <1>3, <1>4, <2>1
  <2> QED BY <2>1, <2>2 DEF ReadsTried
<1>7. replaced = 0 => Stands(First(o, i)) /\ f = find_similar_binding /\ PassedBy(tried, i)
  <2> SUFFICES ASSUME replaced = 0
               PROVE  Stands(First(o, i)) /\ f = find_similar_binding /\ PassedBy(tried, i)
    OBVIOUS
  <2>1. /\ f = find_similar_binding /\ i \in 1 .. NULL /\ o \in 0 .. NULL - 1
        /\ Place(o) = i - 1 /\ Passed(i)
    BY <1>1 DEF IndInv, PassInv
  <2>2. PassedBy(tried, i)
    BY <2>1 DEF Passed, PassedBy
  <2> HIDE DEF o, i, f
  <2>3. Stands(First(o, i))
    BY <1>4, <2>1 DEF Stands, First
  <2> QED BY <2>1, <2>2, <2>3
<1> HIDE DEF o, i
<1> QED BY <1>1, <1>2, <1>3, <1>5, <1>6, <1>7, TryKeeps

\* A new array leaves the search in it unless it is shorter.
LEMMA UpdateOxidInv ==
  ASSUME IndInv, NEW array \in Arrays, UpdateOxid(array) PROVE IndInv'
<1>1. /\ replaced < MaxReplaced /\ bindings' = array /\ replaced' = replaced + 1
      /\ shorter' = (shorter \/ (state = "connecting" /\ Len(array) < Len(bindings)))
      /\ UNCHANGED <<search, state, tried, strayed>>
  BY DEF UpdateOxid
<1>2. TypeOK /\ replaced \in 0 .. MaxReplaced /\ MaxReplaced \in Nat /\ bindings \in Arrays
  BY BoundsAssumption DEF IndInv, TypeOK
<1>3. Len(array) \in Nat /\ Len(bindings) \in Nat
  <2>1. \A a \in Arrays : Len(a) \in Nat
    <3> TAKE a \in Arrays
    <3>1. PICK n \in 0 .. MaxBindings : a \in [1 .. n -> Bindings]
      BY DEF Arrays
    <3> QED BY <3>1, BoundsAssumption
  <2> QED BY <1>2, <2>1
<1>4. replaced' \in 0 .. MaxReplaced /\ replaced' # 0
  <2> DEFINE r == replaced
  <2>1. r \in 0 .. MaxReplaced /\ r < MaxReplaced
    BY <1>1, <1>2
  <2> HIDE DEF r
  <2>2. r + 1 \in 0 .. MaxReplaced /\ r + 1 # 0
    BY <1>2, <2>1
  <2> QED BY <1>1, <2>2 DEF r
<1>5. TypeOK'
  <2>1. shorter' \in BOOLEAN
    BY <1>1, <1>2 DEF TypeOK
  <2> QED BY <1>1, <1>2, <1>4, <2>1 DEF TypeOK, search
<1>6. IndexInv'
  BY <1>1 DEF IndInv, IndexInv, search
<1>7. ArrayInv'
  <2> SUFFICES ASSUME ~shorter'
               PROVE  /\ ~strayed'
                      /\ state' = "connecting" => /\ current_binding_offset' < NULL'
                                                  /\ current_binding_index' <= NULL'
    BY DEF ArrayInv
  <2>1. ~shorter /\ (state = "connecting" => ~(Len(array) < Len(bindings)))
    BY <1>1
  <2>2. /\ ~strayed
        /\ state = "connecting" => /\ current_binding_offset < Len(bindings)
                                   /\ current_binding_index <= Len(bindings)
    BY <2>1 DEF IndInv, ArrayInv, NULL
  <2>3. NULL' = Len(array)
    BY <1>1 DEF NULL
  <2> DEFINE o == current_binding_offset
             i == current_binding_index
             l == Len(bindings)
             m == Len(array)
  <2>4. o \in Int /\ i \in Int
    BY <1>2, BoundsAssumption DEF TypeOK
  <2>5. o < l /\ i <= l /\ ~(m < l) => o < m /\ i <= m
    <3>1. l \in Int /\ m \in Int
      BY <1>3
    <3> HIDE DEF o, i, l, m
    <3> QED BY <2>4, <3>1
  <2> QED BY <1>1, <2>1, <2>2, <2>3, <2>5 DEF search
<1>8. PassInv'
  BY <1>4 DEF PassInv
<1> QED BY <1>5, <1>6, <1>7, <1>8 DEF IndInv
-----------------------------------------------------------------------------
(***************************************************************************)
(* The theorems.                                                           *)
(***************************************************************************)

\* Initially nothing was tried.
LEMMA InitInv == Init => IndInv
<1> SUFFICES ASSUME Init PROVE IndInv
  OBVIOUS
<1>1. MaxBindings \in Nat /\ MaxReplaced \in Nat
  BY BoundsAssumption
<1>2. << >> \in Seq(0 .. MaxBindings)
  OBVIOUS
<1>3. 0 \in 0 .. MaxBindings /\ 0 \in -1 .. MaxBindings /\ 0 \in 0 .. MaxBindings + 1
      /\ 0 \in 0 .. MaxReplaced
  BY <1>1
<1>4. TypeOK
  BY <1>2, <1>3 DEF Init, TypeOK
<1> QED BY <1>4 DEF Init, IndInv, IndexInv, ArrayInv, PassInv

\* Every step keeps the inductive invariant.
LEMMA NextInv == IndInv /\ [Next]_vars => IndInv'
<1> SUFFICES ASSUME IndInv, [Next]_vars PROVE IndInv'
  OBVIOUS
<1>1. CASE UNCHANGED vars
  <2>1. /\ UNCHANGED bindings /\ UNCHANGED <<similar_binding_index, current_binding_offset>>
        /\ UNCHANGED <<current_binding_index, state, tried, strayed, replaced, shorter>>
    BY <1>1 DEF vars, search
  <2>2. /\ NULL' = NULL /\ find_similar_binding' = find_similar_binding
        /\ Place(current_binding_offset)' = Place(current_binding_offset')
        /\ \A n : Passed(n)' <=> PassedBy(tried', n)
    BY <2>1, SameArray
  <2>3. \A n : Passed(n) <=> PassedBy(tried, n)
    BY DEF Passed, PassedBy
  <2>4. TypeOK'
    BY <2>1 DEF IndInv, TypeOK
  <2>5. IndexInv' /\ ArrayInv'
    BY <2>1, <2>2 DEF IndInv, IndexInv, ArrayInv
  <2>6. PassInv'
    BY <2>1, <2>2, <2>3 DEF IndInv, PassInv
  <2> QED BY <2>4, <2>5, <2>6 DEF IndInv
<1> QED
  BY <1>1, BindNewPipeInv, ConnectDoneInv, ConnectFailedInv, UpdateOxidInv DEF Next

\* IndInv holds in every state.
LEMMA Invariance == Spec => []IndInv
  BY InitInv, NextInv, PTL DEF Spec

\* The index and the offset of the search stay in the range of the array and one
\* past it, and try_next_binding always comes to an end of its loop.
THEOREM TypeCorrect == Spec => []TypeOK
<1>1. IndInv => TypeOK
  BY DEF IndInv
<1> QED BY <1>1, Invariance, PTL

\* bind_new_pipe and bind_new_pipe_continue make one pass over an array of any
\* length: while the array stays, try_next_binding has connected to the TCP
\* bindings of the first places of the pass, each once and in order, and the
\* search fails only after all of them.
THEOREM OnePassSafe == Spec => []OnePass
<1>1. IndInv => OnePass
  <2> SUFFICES ASSUME IndInv, replaced = 0
               PROVE  \E n \in 0 .. NULL : Passed(n) /\ (state = "failed" => n = NULL)
    BY DEF OnePass
  <2>1. bindings \in Arrays /\ state \in {"idle", "connecting", "done", "failed"}
    BY DEF IndInv, TypeOK, PassInv
  <2>2. NULL \in Nat
    BY <2>1, ArrayLemma
  <2>3. CASE state = "idle"
    <3>1. tried = << >>
      BY <2>3 DEF IndInv, PassInv
    <3>2. Range(<< >>) = {} /\ DOMAIN << >> = {}
      BY DEF Range
    <3>3. \A x \in 0 .. NULL - 1 : ~(Place(x) < 0)
      BY <2>1, <2>2, PlaceLemma
    <3>4. Passed(0)
      BY <3>1, <3>2, <3>3 DEF Passed
    <3> QED BY <2>2, <2>3, <3>4
  <2>4. CASE state \in {"connecting", "done"}
    <3>1. current_binding_index \in 1 .. NULL /\ Passed(current_binding_index)
      BY <2>4 DEF IndInv, PassInv
    <3>2. current_binding_index \in 0 .. NULL
      BY <2>2, <3>1
    <3> QED BY <2>4, <3>1, <3>2
  <2>5. CASE state = "failed"
    <3>1. Passed(NULL)
      BY <2>5 DEF IndInv, PassInv
    <3> QED BY <2>2, <3>1
  <2> QED BY <2>1, <2>3, <2>4, <2>5
<1> QED BY <1>1, Invariance, PTL

\* try_next_binding and bind_new_pipe_continue read only inside the array of
\* ox->bindings, however often object_exporter_update_oxid replaces it between
\* two connects, unless by a shorter one.
THEOREM InArraySafe == Spec => []InArray
<1>1. IndInv => InArray
  BY DEF IndInv, ArrayInv, InArray
<1> QED BY <1>1, Invariance, PTL
=============================================================================
