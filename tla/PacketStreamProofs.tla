------------------------- MODULE PacketStreamProofs -------------------------
(***************************************************************************)
(* Safety of the packet stream for packets of any number and length, sent  *)
(* and received in pieces of any size, and for callbacks that run the      *)
(* event loop to any depth.                                                *)
(***************************************************************************)
EXTENDS PacketStream, SequenceTheorems, WellFoundedInduction, TLAPS

N == Len(InLens)

(***************************************************************************)
(* The inductive invariant.                                                *)
(*                                                                         *)
(* Receiving: the packets given away are the first ones of the stream, the *)
(* buffer starts where the last of them ends, and a length that is known   *)
(* is the one of the next packet.                                          *)
(***************************************************************************)
RecvInv ==
  /\ Len(given) <= N
  /\ \A k \in DOMAIN given : given[k] = <<Start[k], InLens[k]>>
  /\ Start[Len(given) + 1] + num_read + avail + coming = Total
  /\ packet_size # 0 => Len(given) < N /\ packet_size = InLens[Len(given) + 1]

(***************************************************************************)
(* The fd event: after an error struck a context with a callback or an     *)
(* immediate event under way, and only then, its fd event can be used      *)
(* again.                                                                  *)
(***************************************************************************)
FdeInv ==
  /\ AliveInCallback
  /\ FdEventAlive
  /\ sock = "error" /\ (Busy \/ next_events > 0) => nested_error

(***************************************************************************)
(* Sending: the queue holds the packets that were queued last, all but the *)
(* first untouched, and the last piece that was written ends where the     *)
(* queue goes on.                                                          *)
(***************************************************************************)
Last == IF wire = <<>> THEN <<0, 0, 0>> ELSE wire[Len(wire)]
Done == queued - Len(send_queue)

SendInv ==
  /\ Done >= 0
  /\ \A i \in DOMAIN send_queue :
       /\ send_queue[i].id = Done + i
       /\ send_queue[i].nsent < OutLens[send_queue[i].id]
       /\ i # 1 => send_queue[i].nsent = 0
  /\ \/ /\ send_queue # <<>> /\ send_queue[1].nsent > 0
        /\ Last[1] = Done + 1 /\ Last[2] + Last[3] = send_queue[1].nsent
     \/ /\ send_queue # <<>> => send_queue[1].nsent = 0
        /\ Last[1] = Done
        /\ Done # 0 => Last[2] + Last[3] = OutLens[Done]

IndInv == TypeOK /\ RecvInv /\ FdeInv /\ SendInv /\ WireOrder
-----------------------------------------------------------------------------
(***************************************************************************)
(* The offsets of the packets.  Start is defined by recursion; that such a *)
(* function exists, and that it increases, is shown by looking at a least  *)
(* counterexample.                                                         *)
(***************************************************************************)

\* A set of naturals that is not empty has a least element.
LEMMA SmallestOfSet ==
  ASSUME NEW P \in SUBSET Nat, P # {}
  PROVE  \E i \in P : \A j \in P : i <= j
<1> DEFINE R == OpToRel(<, Nat)
<1>1. IsWellFoundedOn(R, Nat)
  BY NatLessThanWellFounded
<1>2. R = {ss \in Nat \X Nat : ss[1] < ss[2]}
  BY DEF OpToRel
<1> HIDE DEF R
<1>3. PICK i \in P : \A j \in P : ~(<<j, i>> \in R)
  BY <1>1, WFMin
<1>4. \A j \in P : ~(j < i)
  BY <1>2, <1>3
<1> QED BY <1>4

\* The lengths of the packets that come.
LEMMA LensLemma ==
  /\ N \in Nat /\ DOMAIN InLens = 1 .. N
  /\ \A k \in 1 .. N : InLens[k] \in Nat \ {0} /\ HdrLen <= InLens[k]
  BY LensAssumption, LenProperties, ElementOfSeq DEF N

\* The offsets of the first m packets and of the end of the last one.
IsStart(g, m) ==
  /\ g \in [1 .. m + 1 -> Nat]
  /\ g[1] = 0
  /\ \A k \in 1 .. m : g[k + 1] = g[k] + InLens[k]

\* There is a function that satisfies the recursion of Start.
LEMMA StartExists == \E g : IsStart(g, N)
<1> DEFINE T == {m \in 0 .. N : ~ \E g : IsStart(g, m)}
<1>0. N \in 0 .. N
  BY LensLemma
<1> SUFFICES ASSUME T # {} PROVE FALSE
  BY <1>0
<1>1. T \in SUBSET Nat
  BY LensLemma
<1>2. PICK m \in T : \A j \in T : m <= j
  BY <1>1, SmallestOfSet
<1>3. m \in 0 .. N /\ ~ \E g : IsStart(g, m)
  OBVIOUS
<1>4. m # 0
  <2> DEFINE g == [k \in 1 .. 1 |-> 0]
  <2>1. g \in [1 .. 0 + 1 -> Nat] /\ g[1] = 0 /\ 1 .. 0 = {}
    OBVIOUS
  <2>2. IsStart(g, 0)
    BY <2>1 DEF IsStart
  <2> QED BY <1>3, <2>2
<1>5. m - 1 \in 0 .. N /\ ~(m <= m - 1)
  BY <1>3, <1>4, LensLemma
<1>6. m - 1 \notin T
  BY <1>2, <1>5
<1>7. PICK g : IsStart(g, m - 1)
  BY <1>5, <1>6
<1> DEFINE h == [k \in 1 .. m + 1 |-> IF k = m + 1 THEN g[m] + InLens[m] ELSE g[k]]
<1>8. m \in 1 .. N /\ InLens[m] \in Nat /\ m \in Nat
  BY <1>3, <1>4, LensLemma
<1>9. g \in [1 .. m -> Nat] /\ g[1] = 0 /\ \A k \in 1 .. m - 1 : g[k + 1] = g[k] + InLens[k]
  BY <1>7, <1>8 DEF IsStart
<1>10. h \in [1 .. m + 1 -> Nat] /\ h[1] = 0
  BY <1>8, <1>9
<1>11. ASSUME NEW k \in 1 .. m PROVE h[k + 1] = h[k] + InLens[k]
  <2>1. CASE k = m
    BY <2>1, <1>8
  <2>2. CASE k # m
    <3>1. k \in 1 .. m - 1 /\ k + 1 # m + 1 /\ k + 1 \in 1 .. m + 1 /\ k # m + 1
      BY <2>2, <1>8
    <3> QED BY <3>1, <1>9
  <2> QED BY <2>1, <2>2
<1>12. IsStart(h, m)
  <2> HIDE DEF h
  <2> QED BY <1>10, <1>11 DEF IsStart
<1> QED BY <1>3, <1>12

\* The recursion that defines Start.
LEMMA StartLemma ==
  /\ Start \in [1 .. N + 1 -> Nat]
  /\ Start[1] = 0
  /\ \A k \in 1 .. N : Start[k + 1] = Start[k] + InLens[k]
<1>1. PICK g : IsStart(g, N)
  BY StartExists
<1> DEFINE F(s) == [k \in 1 .. N + 1 |-> IF k = 1 THEN 0 ELSE s[k - 1] + InLens[k - 1]]
<1>2. g = F(g)
  <2>1. ASSUME NEW k \in 1 .. N + 1
        PROVE  g[k] = IF k = 1 THEN 0 ELSE g[k - 1] + InLens[k - 1]
    <3>1. CASE k = 1
      BY <1>1, <3>1 DEF IsStart
    <3>2. CASE k # 1
      <4>1. k - 1 \in 1 .. N /\ (k - 1) + 1 = k
        BY <3>2, LensLemma
      <4>2. g[(k - 1) + 1] = g[k - 1] + InLens[k - 1]
        BY <1>1, <4>1 DEF IsStart
      <4> QED BY <3>2, <4>1, <4>2
    <3> QED BY <3>1, <3>2
  <2> QED BY <1>1, <2>1 DEF IsStart
<1>3. Start = CHOOSE s : s = F(s)
  BY DEF Start, N
<1>4. Start = F(Start)
  <2> HIDE DEF F
  <2> QED BY <1>2, <1>3
<1> HIDE DEF F
<1>5. /\ Start = [k \in 1 .. N + 1 |-> Start[k]]
      /\ \A k \in 1 .. N + 1 : Start[k] = IF k = 1 THEN 0 ELSE Start[k - 1] + InLens[k - 1]
  <2> DEFINE t == Start
  <2>1. t = F(t)
    BY <1>4
  <2> HIDE DEF t
  <2>2. /\ t = [k \in 1 .. N + 1 |-> t[k]]
        /\ \A k \in 1 .. N + 1 : t[k] = IF k = 1 THEN 0 ELSE t[k - 1] + InLens[k - 1]
    BY <2>1 DEF F
  <2> QED BY <2>2 DEF t
<1>6. Start[1] = 0 /\ \A k \in 1 .. N : Start[k + 1] = Start[k] + InLens[k]
  <2>1. 1 \in 1 .. N + 1
    BY LensLemma
  <2>2. ASSUME NEW k \in 1 .. N PROVE Start[k + 1] = Start[k] + InLens[k]
    <3>1. k + 1 \in 1 .. N + 1 /\ k + 1 # 1 /\ (k + 1) - 1 = k
      BY LensLemma
    <3> QED BY <3>1, <1>5
  <2> QED BY <1>5, <2>1, <2>2
<1>7. \A k \in 1 .. N + 1 : Start[k] \in Nat
  <2> DEFINE T == {k \in 1 .. N + 1 : Start[k] \notin Nat}
  <2> SUFFICES ASSUME T # {} PROVE FALSE
    OBVIOUS
  <2>1. T \in SUBSET Nat
    BY LensLemma
  <2>2. PICK k \in T : \A j \in T : k <= j
    BY <2>1, SmallestOfSet
  <2>3. k # 1
    BY <1>6
  <2>4. k - 1 \in 1 .. N /\ (k - 1) + 1 = k /\ ~(k <= k - 1) /\ k - 1 \in 1 .. N + 1
    BY <2>3, LensLemma
  <2>5. Start[k - 1] \in Nat
    BY <2>2, <2>4
  <2>6. Start[k] = Start[k - 1] + InLens[k - 1] /\ InLens[k - 1] \in Nat
    BY <1>6, <2>4, LensLemma
  <2> QED BY <2>5, <2>6
<1>8. Start \in [1 .. N + 1 -> Nat]
  BY <1>5, <1>7
<1> QED BY <1>6, <1>8

\* Packets start one after the other: no two at the same offset, and none
\* after the end of the stream.
LEMMA StartIncreases ==
  \A j, k \in 1 .. N + 1 : j < k => Start[j] < Start[k]
<1> DEFINE T == {k \in 1 .. N + 1 : \E j \in 1 .. N + 1 : j < k /\ ~(Start[j] < Start[k])}
<1> SUFFICES ASSUME T # {} PROVE FALSE
  OBVIOUS
<1>1. T \in SUBSET Nat
  BY LensLemma
<1>2. PICK k \in T : \A i \in T : k <= i
  BY <1>1, SmallestOfSet
<1>3. PICK j \in 1 .. N + 1 : j < k /\ ~(Start[j] < Start[k])
  OBVIOUS
<1>4. k - 1 \in 1 .. N /\ (k - 1) + 1 = k /\ ~(k <= k - 1) /\ k - 1 \in 1 .. N + 1
  BY <1>3, LensLemma
<1>5. Start[k] = Start[k - 1] + InLens[k - 1] /\ InLens[k - 1] \in Nat \ {0}
      /\ Start[k - 1] \in Nat /\ Start[j] \in Nat
  BY <1>4, StartLemma, LensLemma
<1>6. j = k - 1 \/ j < k - 1
  BY <1>3, <1>4
<1>7. j < k - 1 => Start[j] < Start[k - 1]
  BY <1>2, <1>4
<1> QED BY <1>3, <1>5, <1>6, <1>7

\* full_request finds the length of the packet that starts at the offset.
LEMMA SizeLemma ==
  ASSUME NEW k \in 1 .. N
  PROVE  SizeAt(Start[k]) = InLens[k]
<1>1. DOMAIN InLens = 1 .. N
  BY LensLemma
<1>2. ASSUME NEW j \in 1 .. N, Start[j] = Start[k] PROVE j = k
  <2>1. j \in 1 .. N + 1 /\ k \in 1 .. N + 1 /\ j \in Nat /\ k \in Nat
    BY LensLemma
  <2>2. Start[j] \in Nat /\ Start[k] \in Nat
    BY <2>1, StartLemma
  <2> QED BY <1>2, <2>1, <2>2, StartIncreases
<1>3. (CHOOSE j \in DOMAIN InLens : Start[j] = Start[k]) = k
  BY <1>1, <1>2
<1> QED BY <1>1, <1>3 DEF SizeAt
-----------------------------------------------------------------------------
(***************************************************************************)
(* Receiving.                                                              *)
(***************************************************************************)
RecvType ==
  /\ coming \in 0 .. Total /\ avail \in 0 .. Total
  /\ num_read \in 0 .. Total /\ packet_size \in 0 .. Total
  /\ given \in Seq(Nat \X Nat)

\* The stream is as long as its packets.
LEMMA TotalLemma ==
  /\ Total = Start[N + 1] /\ Total \in Nat
  /\ \A k \in 1 .. N : InLens[k] <= Total
<1>1. Total = Start[N + 1] /\ Total \in Nat
  BY StartLemma, LensLemma DEF Total, N
<1>2. ASSUME NEW k \in 1 .. N PROVE InLens[k] <= Total
  <2>1. k \in 1 .. N + 1 /\ k + 1 \in 1 .. N + 1 /\ N + 1 \in 1 .. N + 1
    BY LensLemma
  <2>2. /\ Start[k + 1] = Start[k] + InLens[k] /\ Start[k] \in Nat /\ Start[k + 1] \in Nat
        /\ InLens[k] \in Nat
    BY <2>1, StartLemma, LensLemma
  <2>3. k + 1 = N + 1 \/ k + 1 < N + 1
    BY LensLemma
  <2>4. Start[k + 1] <= Total
    BY <1>1, <2>1, <2>2, <2>3, StartIncreases
  <2> QED BY <1>1, <2>2, <2>4
<1> QED BY <1>1, <1>2

\* The numbers of the invariant, and the offset of the buffer.
LEMMA RecvNumbers ==
  ASSUME RecvType, RecvInv
  PROVE  /\ Len(given) \in 0 .. N /\ DOMAIN given = 1 .. Len(given)
         /\ Start[Len(given) + 1] \in Nat /\ Offset = Start[Len(given) + 1]
         /\ coming \in Nat /\ avail \in Nat /\ num_read \in Nat /\ packet_size \in Nat
         /\ Total \in Nat
<1>1. Len(given) \in Nat /\ DOMAIN given = 1 .. Len(given)
  BY LenProperties DEF RecvType
<1>2. Len(given) \in 0 .. N
  BY <1>1, LensLemma DEF RecvInv
<1>3. Len(given) + 1 \in 1 .. N + 1
  BY <1>2, LensLemma
<1>4. Start[Len(given) + 1] \in Nat
  BY <1>3, StartLemma
<1>5. coming \in Nat /\ avail \in Nat /\ num_read \in Nat /\ packet_size \in Nat
  BY TotalLemma DEF RecvType
<1>6. Offset = Start[Len(given) + 1]
  <2> DEFINE p == Start[Len(given) + 1]
             c == coming
             a == avail
             b == num_read
             t == Total
  <2>1. p + b + a + c = t /\ Offset = t - c - a - b
    BY DEF Offset, RecvInv
  <2>2. p \in Int /\ a \in Int /\ b \in Int /\ c \in Int /\ t \in Int
    BY <1>4, <1>5, TotalLemma
  <2> HIDE DEF p, a, b, c, t
  <2>3. t - c - a - b = p
    BY <2>1, <2>2
  <2> QED BY <2>1, <2>3 DEF p
<1> QED BY <1>1, <1>2, <1>4, <1>5, <1>6, TotalLemma

\* full_request on what is buffered of the next packet: the length it stores
\* is the one of that packet, if any.
LEMMA FullRequestLemma ==
  ASSUME RecvType, RecvInv, NEW n \in Nat, NEW size \in Nat,
         n <= num_read + avail,
         size # 0 => Len(given) < N /\ size = InLens[Len(given) + 1]
  PROVE  /\ FullRequest(Offset, n, size).size \in 0 .. Total
         /\ FullRequest(Offset, n, size).size # 0 =>
              /\ Len(given) < N
              /\ FullRequest(Offset, n, size).size = InLens[Len(given) + 1]
         /\ FullRequest(Offset, n, size).full =>
              /\ FullRequest(Offset, n, size).size # 0
              /\ FullRequest(Offset, n, size).size <= n
<1> DEFINE m == Len(given)
           f == FullRequest(Offset, n, size)
<1>1. /\ m \in 0 .. N /\ Start[m + 1] \in Nat /\ Offset = Start[m + 1]
      /\ coming \in Nat /\ avail \in Nat /\ num_read \in Nat /\ Total \in Nat
  BY RecvNumbers
<1>2. m < N => m + 1 \in 1 .. N /\ InLens[m + 1] \in Nat \ {0} /\ InLens[m + 1] <= Total
  BY <1>1, LensLemma, TotalLemma
<1>3. CASE n < HdrLen
  <2>1. f = [full |-> FALSE, size |-> size]
    BY <1>3 DEF FullRequest
  <2>2. f.size = size /\ f.full = FALSE
    BY <2>1
  <2>3. size \in 0 .. Total
    BY <1>1, <1>2
  <2>4. size # 0 => m < N /\ size = InLens[m + 1]
    OBVIOUS
  <2> HIDE DEF f, m
  <2>5. /\ f.size \in 0 .. Total
        /\ f.size # 0 => m < N /\ f.size = InLens[m + 1]
        /\ f.full => f.size # 0 /\ f.size <= n
    BY <2>2, <2>3, <2>4
  <2> QED BY <2>5 DEF f, m
<1>4. CASE ~(n < HdrLen)
  <2>1. n > 0
    BY <1>4, LensAssumption
  <2>2. m < N
    <3>1. ASSUME m = N PROVE FALSE
      <4>1. Start[m + 1] + num_read + avail + coming = Start[N + 1]
        BY TotalLemma DEF RecvInv
      <4> QED BY <1>1, <2>1, <3>1, <4>1
    <3> QED BY <1>1, <3>1, LensLemma
  <2>3. SizeAt(Offset) = InLens[m + 1]
    BY <1>1, <1>2, <2>2, SizeLemma
  <2>4. f = [full |-> InLens[m + 1] <= n, size |-> InLens[m + 1]]
    BY <1>4, <2>3 DEF FullRequest
  <2> HIDE DEF f, m
  <2>5. f.size = InLens[m + 1] /\ (f.full = (InLens[m + 1] <= n))
    BY <2>4
  <2>6. f.size \in 0 .. Total /\ f.size # 0
    BY <1>1, <1>2, <2>2, <2>5
  <2>7. /\ f.size \in 0 .. Total
        /\ f.size # 0 => m < N /\ f.size = InLens[m + 1]
        /\ f.full => f.size # 0 /\ f.size <= n
    BY <2>2, <2>5, <2>6
  <2> QED BY <2>7 DEF f, m
<1> QED BY <1>3, <1>4

\* The bytes before, in and after the buffer: a read, and a packet that leaves.
LEMMA ReadBytes ==
  ASSUME NEW a \in Nat, NEW n \in Nat, NEW l \in Nat, NEW r \in Nat, NEW v \in Nat,
         NEW c \in Nat, NEW t \in Nat, n + l = r + v, a + r + v + c = t
  PROVE  a + n + l + c = t
  OBVIOUS

\* Handing over z of the n bytes that were read loses none.
LEMMA GivenBytes ==
  ASSUME NEW a \in Nat, NEW n \in Nat, NEW l \in Nat, NEW z \in Nat,
         NEW c \in Nat, NEW t \in Nat, z <= n, a + n + l + c = t
  PROVE  /\ n - z \in 0 .. t /\ l \in 0 .. t /\ c \in 0 .. t /\ 0 \in 0 .. t /\ n \in 0 .. t
         /\ (a + z) + (n - z) + l + c = t
  OBVIOUS

\* The end of packet_recv: a packet that is given away is the next one.
LEMMA NextPartialInv ==
  ASSUME RecvType, RecvInv, NEW n \in Nat,
         NextPartial(Offset, n, packet_size),
         coming' = coming, avail' \in Nat, n + avail' = num_read + avail
  PROVE  RecvType' /\ RecvInv' /\ processing' \in {0, 1}
<1> DEFINE m == Len(given)
           f == FullRequest(Offset, n, packet_size)
           left == avail'
<1>1. /\ m \in 0 .. N /\ Start[m + 1] \in Nat /\ Offset = Start[m + 1]
      /\ coming \in Nat /\ avail \in Nat /\ num_read \in Nat /\ packet_size \in Nat
      /\ Total \in Nat /\ DOMAIN given = 1 .. m
  BY RecvNumbers
<1>a. left \in Nat /\ n + left = num_read + avail
  OBVIOUS
<1> HIDE DEF m, left
<1>2. n <= num_read + avail
  BY <1>1, <1>a
<1>3. /\ f.size \in 0 .. Total
      /\ f.size # 0 => m < N /\ f.size = InLens[m + 1]
      /\ f.full => f.size # 0 /\ f.size <= n
  <2>1. packet_size # 0 => m < N /\ packet_size = InLens[m + 1]
    BY DEF RecvInv, m
  <2> QED BY <1>1, <1>2, <2>1, FullRequestLemma DEF m
<1>4. Start[m + 1] + n + left + coming = Total
  <2>1. Start[m + 1] + num_read + avail + coming = Total
    BY DEF RecvInv, m
  <2> DEFINE st == Start[m + 1]
  <2>2. st \in Nat /\ st + num_read + avail + coming = Total
    BY <1>1, <2>1
  <2>3. num_read \in Nat /\ avail \in Nat /\ coming \in Nat /\ Total \in Nat
    BY <1>1
  <2> HIDE DEF st
  <2>4. st + n + left + coming = Total
    BY <1>a, <2>2, <2>3, ReadBytes
  <2> QED BY <2>4 DEF st
<1>5. CASE f.full
  <2>1. /\ given' = Append(given, <<Offset, f.size>>)
        /\ num_read' = n - f.size /\ packet_size' = 0 /\ processing' = 1
    BY <1>5 DEF NextPartial
  <2> HIDE DEF f
  <2>2. m < N /\ f.size = InLens[m + 1] /\ f.size <= n /\ f.size \in Nat
    BY <1>1, <1>3, <1>5
  <2>3. /\ given' \in Seq(Nat \X Nat) /\ Len(given') = m + 1
        /\ \A k \in 1 .. m : given'[k] = given[k]
        /\ given'[m + 1] = <<Offset, f.size>>
        /\ DOMAIN given' = 1 .. m + 1
    <3>1. <<Offset, f.size>> \in Nat \X Nat
      BY <1>1, <2>2
    <3> DEFINE e == <<Offset, f.size>>
               T == Nat \X Nat
    <3> HIDE DEF e, T
    <3>2. e \in T /\ given \in Seq(T) /\ given' = Append(given, e)
      BY <2>1, <3>1 DEF RecvType, e, T
    <3>3. /\ given' \in Seq(T) /\ Len(given') = m + 1
          /\ \A k \in 1 .. m : given'[k] = given[k]
          /\ given'[m + 1] = e
      BY <3>2, AppendProperties DEF m
    <3>4. DOMAIN given' = 1 .. m + 1
      BY <3>3, LenProperties
    <3> QED BY <3>3, <3>4 DEF e, T
  <2>4. Start[m + 2] = Start[m + 1] + f.size
    <3>1. m + 1 \in 1 .. N /\ (m + 1) + 1 = m + 2
      BY <1>1, <2>2, LensLemma
    <3>2. Start[(m + 1) + 1] = Start[m + 1] + InLens[m + 1]
      BY <3>1, StartLemma
    <3> QED BY <3>1, <3>2, <2>2
  <2> DEFINE nr == n - f.size
  <2>5. /\ nr \in 0 .. Total /\ left \in 0 .. Total /\ coming \in 0 .. Total /\ 0 \in 0 .. Total
        /\ (Start[m + 1] + f.size) + nr + left + coming = Total
    <3> DEFINE st == Start[m + 1]
               z == f.size
    <3>1. st \in Nat /\ z \in Nat /\ z <= n /\ coming \in Nat /\ Total \in Nat /\ nr = n - z
      BY <1>1, <2>2
    <3>2. st + n + left + coming = Total
      BY <1>4
    <3> HIDE DEF st, z
    <3>3. /\ n - z \in 0 .. Total /\ left \in 0 .. Total /\ coming \in 0 .. Total
          /\ 0 \in 0 .. Total
          /\ (st + z) + (n - z) + left + coming = Total
      BY <1>a, <3>1, <3>2, GivenBytes
    <3> QED BY <3>3 DEF st, z
  <2>6. num_read' = nr /\ avail' = left /\ coming' = coming
    BY <2>1 DEF left
  <2> HIDE DEF nr
  <2>7. RecvType'
    BY <2>1, <2>3, <2>5, <2>6 DEF RecvType, Total
  <2>8. \A k \in DOMAIN given' : given'[k] = <<Start[k], InLens[k]>>
    <3> SUFFICES ASSUME NEW k \in DOMAIN given'
                 PROVE  given'[k] = <<Start[k], InLens[k]>>
      OBVIOUS
    <3>1. CASE k = m + 1
      BY <3>1, <1>1, <2>2, <2>3
    <3>2. CASE k # m + 1
      <4>1. k \in 1 .. m
        BY <3>2, <2>3, <1>1
      <4> QED BY <4>1, <1>1, <2>3 DEF RecvInv
    <3> QED BY <3>1, <3>2
  <2>9. Len(given') <= N /\ Len(given') + 1 = m + 2
    BY <1>1, <2>2, <2>3, LensLemma
  <2>10. Start[Len(given') + 1] + num_read' + avail' + coming' = Total
    BY <2>4, <2>5, <2>6, <2>9
  <2> QED BY <2>1, <2>7, <2>8, <2>9, <2>10 DEF RecvInv, N, Total
<1>6. CASE ~f.full
  <2>1. given' = given /\ num_read' = n /\ packet_size' = f.size /\ processing' = 0
    BY <1>6 DEF NextPartial
  <2> HIDE DEF f
  <2>2. n \in 0 .. Total /\ left \in 0 .. Total /\ coming \in 0 .. Total
    <3>1. 0 \in Nat /\ 0 <= n
      OBVIOUS
    <3> QED BY <1>1, <1>a, <1>4, <3>1, GivenBytes
  <2>3. RecvType'
    BY <1>3, <2>1, <2>2 DEF RecvType, Total, left
  <2>4. Start[Len(given') + 1] + num_read' + avail' + coming' = Total
    BY <1>4, <2>1 DEF m, left
  <2>5. packet_size' # 0 => Len(given') < N /\ packet_size' = InLens[Len(given') + 1]
    BY <1>3, <2>1 DEF m
  <2> QED BY <2>1, <2>3, <2>4, <2>5 DEF RecvInv, N, Total
<1> QED BY <1>5, <1>6

\* packet_recv on what was read already keeps RecvInv.
LEMMA RecvBufferedInv ==
  ASSUME RecvType, RecvInv, RecvBuffered
  PROVE  RecvType' /\ RecvInv' /\ processing' \in {0, 1}
<1>1. num_read \in Nat /\ avail \in Nat
  BY RecvNumbers
<1>2. NextPartial(Offset, num_read, packet_size) /\ coming' = coming /\ avail' = avail
  BY DEF RecvBuffered, inVars
<1> QED BY <1>1, <1>2, NextPartialInv

\* So does packet_recv when it reads from the socket.
LEMMA RecvReadInv ==
  ASSUME RecvType, RecvInv, NEW n \in 1 .. avail, RecvRead(n)
  PROVE  RecvType' /\ RecvInv' /\ processing' \in {0, 1}
<1>1. num_read \in Nat /\ avail \in Nat
  BY RecvNumbers
<1>2. NextPartial(Offset, num_read + n, packet_size) /\ coming' = coming /\ avail' = avail - n
  BY DEF RecvRead
<1>3. num_read + n \in Nat /\ avail - n \in Nat /\ num_read + n + (avail - n) = num_read + avail
  BY <1>1
<1> QED BY <1>2, <1>3, NextPartialInv

\* Nothing of the stream is touched.
LEMMA RecvSame ==
  ASSUME RecvType, RecvInv, UNCHANGED <<inVars, recvVars>>
  PROVE  RecvType' /\ RecvInv'
  BY DEF RecvType, RecvInv, inVars, recvVars, N, Total

\* Bytes that arrive change nothing that was read.
LEMMA ArriveInv ==
  ASSUME RecvType, RecvInv, Arrive
  PROVE  RecvType' /\ RecvInv'
<1>1. PICK n \in 1 .. coming : coming' = coming - n /\ avail' = avail + n
  BY DEF Arrive
<1>2. UNCHANGED recvVars
  BY DEF Arrive
<1> DEFINE m == Len(given)
           st == Start[m + 1]
<1>3. /\ st \in Nat /\ coming \in Nat /\ avail \in Nat /\ num_read \in Nat /\ Total \in Nat
      /\ st + num_read + avail + coming = Total
  BY RecvNumbers DEF RecvInv
<1> HIDE DEF st
<1>4. /\ coming - n \in 0 .. Total /\ avail + n \in 0 .. Total
      /\ st + num_read + (avail + n) + (coming - n) = Total
  BY <1>3
<1>5. RecvType'
  BY <1>1, <1>2, <1>4 DEF RecvType, recvVars, Total
<1>6. Start[Len(given') + 1] + num_read' + avail' + coming' = Total
  BY <1>1, <1>2, <1>4 DEF recvVars, st
<1>7. RecvInv'
  BY <1>2, <1>6 DEF RecvInv, recvVars, N, Total
<1> QED BY <1>5, <1>7

\* The callback returns: the length it finds is the one of the next packet.
LEMMA CallbackReturnInv ==
  ASSUME RecvType, RecvInv, CallbackReturn
  PROVE  RecvType' /\ RecvInv'
<1>1. CASE UNCHANGED recvVars
  BY <1>1, RecvSame DEF CallbackReturn
<1>2. CASE packet_size' = FullRequest(Offset, num_read, 0).size /\ UNCHANGED <<num_read, given>>
  <2> DEFINE z == FullRequest(Offset, num_read, 0).size
  <2>1. num_read \in Nat /\ num_read <= num_read + avail
    BY RecvNumbers
  <2>2. z \in 0 .. Total /\ (z # 0 => Len(given) < N /\ z = InLens[Len(given) + 1])
    BY <2>1, FullRequestLemma
  <2> HIDE DEF z
  <2>3. packet_size' = z /\ UNCHANGED <<coming, avail, num_read, given>>
    BY <1>2 DEF CallbackReturn, inVars, z
  <2> QED BY <2>2, <2>3 DEF RecvType, RecvInv, N, Total
<1> QED BY <1>1, <1>2 DEF CallbackReturn

\* Every step keeps RecvInv.
LEMMA RecvNext ==
  ASSUME RecvType, RecvInv, [Next]_vars
  PROVE  RecvType' /\ RecvInv'
<1>1. CASE Arrive
  BY <1>1, ArriveInv
<1>2. CASE Readable
  BY <1>2, RecvSame, RecvBufferedInv, RecvReadInv DEF Readable, RecvRefused
<1>3. CASE NextEvent
  BY <1>3, RecvSame, RecvBufferedInv DEF NextEvent, RecvRefused
<1>4. CASE CallbackReturn
  BY <1>4, CallbackReturnInv
<1>5. CASE RecvError \/ CallbackFails \/ Disable \/ Enable \/ Free \/ Send \/ QueueRun
           \/ WriteError \/ UNCHANGED vars
  BY <1>5, RecvSame DEF RecvError, CallbackFails, Disable, Enable, Free, Send, QueueRun,
                        WriteError, vars
<1> QED BY <1>1, <1>2, <1>3, <1>4, <1>5 DEF Next
-----------------------------------------------------------------------------
(***************************************************************************)
(* The callback and the fd event.                                          *)
(***************************************************************************)
CtlType ==
  /\ recv_disable \in BOOLEAN /\ fd_read \in BOOLEAN /\ fd_write \in BOOLEAN
  /\ processing \in Nat /\ next_events \in Nat
  /\ destructor_called \in BOOLEAN
  /\ sock \in {"open", "error", "freed"}
  /\ initial_read \in InitialReads
  /\ nested_error \in BOOLEAN /\ misused \in BOOLEAN

\* What RecvRefused does to the context.
LEMMA RefusedCtl ==
  ASSUME CtlType, FdeInv, RecvRefused, sock # "freed",
         sock = "error" => next_events > 0, nested_error' = nested_error,
         next_events' \in Nat, next_events' <= next_events, initial_read' = initial_read
  PROVE  CtlType' /\ FdeInv'
<1>1. /\ processing' \in Nat /\ (processing' > 0 => Busy)
  <2>1. processing' = IF Busy THEN processing + 1 ELSE 0
    BY DEF RecvRefused
  <2> QED BY <2>1 DEF CtlType
<1>2. misused' \in BOOLEAN /\ fd_read' = FALSE
  BY DEF RecvRefused, Touched, CtlType
<1>3. UNCHANGED <<recv_disable, destructor_called, sock, fd_write>>
  BY DEF RecvRefused, sendVars
<1>4. CtlType'
  BY <1>1, <1>2, <1>3 DEF CtlType
<1>5. FdeInv'
  <2>1. AliveInCallback'
    BY <1>3 DEF AliveInCallback
  <2>2. FdEventAlive'
    BY DEF FdEventAlive, FdeInv, RecvRefused, Touched
  <2>3. sock' = "error" => nested_error'
    BY <1>3 DEF FdeInv
  <2> QED BY <2>1, <2>2, <2>3 DEF FdeInv
<1> QED BY <1>4, <1>5

\* A step that leaves the fd event alone, in a context whose error, if any,
\* struck at the wrong time.
LEMMA QuietCtl ==
  ASSUME FdeInv, sock # "freed", sock' = sock,
         misused' = misused, nested_error' = nested_error,
         sock = "error" => nested_error
  PROVE  FdeInv'
  BY DEF FdeInv, AliveInCallback, FdEventAlive

\* packet_recv keeps the fd event and the busy flag in order.
LEMMA ReadableCtl ==
  ASSUME RecvType, RecvInv, CtlType, FdeInv, Readable
  PROVE  CtlType' /\ FdeInv'
<1>1. /\ sock = "open" /\ next_events' = next_events /\ nested_error' = nested_error
      /\ initial_read' = initial_read /\ next_events \in Nat
  BY DEF Readable, CtlType
<1>2. CASE RecvRefused
  BY <1>1, <1>2, RefusedCtl
<1>3. CASE RecvBuffered \/ \E n \in 1 .. avail : RecvRead(n)
  <2>1. processing' \in {0, 1}
    BY <1>3, RecvBufferedInv, RecvReadInv
  <2>2. UNCHANGED <<recv_disable, fd_read, destructor_called, sock, fd_write, misused>>
    BY <1>3 DEF RecvBuffered, RecvRead, sendVars
  <2>3. CtlType'
    BY <1>1, <2>1, <2>2 DEF CtlType
  <2> QED BY <1>1, <2>2, <2>3, QuietCtl
<1> QED BY <1>2, <1>3 DEF Readable

\* So does packet_next_event,
LEMMA NextEventCtl ==
  ASSUME RecvType, RecvInv, CtlType, FdeInv, NextEvent
  PROVE  CtlType' /\ FdeInv'
<1>1. /\ sock # "freed" /\ next_events > 0 /\ next_events \in Nat
      /\ next_events' = next_events - 1 /\ nested_error' = nested_error
      /\ initial_read' = initial_read
  BY DEF NextEvent, CtlType
<1>2. next_events' \in Nat /\ next_events' <= next_events
  BY <1>1
<1>3. sock = "error" => nested_error
  BY <1>1 DEF FdeInv
<1>4. CASE RecvRefused
  BY <1>1, <1>2, <1>4, RefusedCtl
<1>5. CASE RecvBuffered
  <2>1. processing' \in {0, 1}
    BY <1>5, RecvBufferedInv
  <2>2. UNCHANGED <<recv_disable, fd_read, destructor_called, sock, fd_write, misused>>
    BY <1>5 DEF RecvBuffered, sendVars
  <2>3. CtlType'
    BY <1>1, <1>2, <2>1, <2>2 DEF CtlType
  <2> QED BY <1>1, <1>3, <2>2, <2>3, QuietCtl
<1>6. CASE UNCHANGED <<inVars, recvVars, recv_disable, fd_read, processing,
                       destructor_called, sock, sendVars, misused>>
  <2>1. UNCHANGED <<recv_disable, fd_read, processing, destructor_called, sock, fd_write, misused>>
    BY <1>6 DEF sendVars
  <2>2. CtlType'
    BY <1>1, <1>2, <2>1 DEF CtlType
  <2> QED BY <1>1, <1>3, <2>1, <2>2, QuietCtl
<1> QED BY <1>4, <1>5, <1>6 DEF NextEvent

\* the return of the callback,
LEMMA CallbackReturnCtl ==
  ASSUME RecvType, RecvInv, CtlType, FdeInv, CallbackReturn
  PROVE  CtlType' /\ FdeInv'
<1>1. /\ Busy /\ sock # "freed" /\ nested_error' = nested_error /\ initial_read' = initial_read
      /\ processing' = 0
  BY DEF CallbackReturn
<1>2. sock = "error" => nested_error
  BY <1>1 DEF FdeInv
<1>3. CASE destructor_called
  <2>1. /\ sock' = "freed" /\ fd_read' = FALSE
        /\ UNCHANGED <<recv_disable, destructor_called, next_events, fd_write, misused>>
    BY <1>3 DEF CallbackReturn, sendVars
  <2>2. CtlType'
    BY <1>1, <2>1 DEF CtlType
  <2>3. FdeInv'
    BY <1>1, <2>1 DEF FdeInv, AliveInCallback, FdEventAlive, Busy
  <2> QED BY <2>2, <2>3
<1>4. CASE ~destructor_called
  <2>1. /\ fd_read' = Rewatched /\ misused' = (misused \/ (processing > 1 /\ Touched))
        /\ UNCHANGED <<recv_disable, destructor_called, sock, fd_write>>
    BY <1>4 DEF CallbackReturn, sendVars
  <2>2. next_events' \in Nat
    <3>1. Schedule(Offset, num_read) \in {0, 1}
      BY DEF Schedule
    <3>2. \/ next_events' = next_events
          \/ next_events' = next_events + Schedule(Offset, num_read)
      BY <1>4 DEF CallbackReturn
    <3> QED BY <3>1, <3>2 DEF CtlType
  <2>3. fd_read' \in BOOLEAN /\ misused' \in BOOLEAN
    BY <2>1 DEF CtlType, Rewatched
  <2>4. CtlType'
    BY <1>1, <2>1, <2>2, <2>3 DEF CtlType
  <2>5. misused' => nested_error
    BY <1>2, <2>1 DEF FdeInv, FdEventAlive, Touched
  <2>6. FdeInv'
    BY <1>1, <1>2, <2>1, <2>5 DEF FdeInv, AliveInCallback, FdEventAlive
  <2> QED BY <2>4, <2>6
<1> QED BY <1>3, <1>4

\* packet_error,
LEMMA ErrorCtl ==
  ASSUME CtlType, FdeInv, RecvError \/ WriteError
  PROVE  CtlType' /\ FdeInv'
<1>1. /\ sock' = "error" /\ nested_error' = (nested_error \/ Busy \/ next_events > 0)
      /\ fd_read' = FALSE /\ fd_write' = FALSE
      /\ UNCHANGED <<recv_disable, processing, destructor_called, next_events, initial_read,
                     misused>>
  BY DEF RecvError, WriteError, PacketError
<1>2. nested_error' \in BOOLEAN
  BY <1>1 DEF CtlType
<1>3. CtlType'
  BY <1>1, <1>2 DEF CtlType
<1>4. FdeInv'
  BY <1>1 DEF FdeInv, AliveInCallback, FdEventAlive, Busy
<1> QED BY <1>3, <1>4

\* a callback that fails,
LEMMA CallbackFailsCtl ==
  ASSUME CtlType, FdeInv, CallbackFails
  PROVE  CtlType' /\ FdeInv'
<1>1. /\ sock' = "error" /\ nested_error' = (nested_error \/ next_events > 0)
      /\ fd_read' = FALSE /\ fd_write' = FALSE /\ processing' = 0
      /\ UNCHANGED <<recv_disable, destructor_called, next_events, initial_read, misused>>
  BY DEF CallbackFails
<1>2. nested_error' \in BOOLEAN
  BY <1>1 DEF CtlType
<1>3. CtlType'
  BY <1>1, <1>2 DEF CtlType
<1>4. FdeInv'
  <2>1. ~Busy' /\ sock' # "freed"
    BY <1>1 DEF Busy
  <2>2. misused' => nested_error'
    BY <1>1 DEF FdeInv, FdEventAlive
  <2>3. next_events' > 0 => nested_error'
    BY <1>1
  <2> QED BY <2>1, <2>2, <2>3 DEF FdeInv, AliveInCallback, FdEventAlive
<1> QED BY <1>3, <1>4

\* packet_recv_disable and packet_recv_enable.
LEMMA SwitchCtl ==
  ASSUME CtlType, FdeInv, Disable \/ Enable
  PROVE  CtlType' /\ FdeInv'
<1>1. /\ Usable /\ misused' = Touched /\ fd_read' \in BOOLEAN /\ recv_disable' \in BOOLEAN
      /\ UNCHANGED <<processing, destructor_called, sock, fd_write, initial_read, nested_error>>
  BY DEF Disable, Enable, sendVars
<1>2. next_events' \in Nat
  <2>1. next_events' = next_events \/ next_events' = next_events + 1
    BY DEF Disable, Enable
  <2> QED BY <2>1 DEF CtlType
<1>3. sock # "freed" /\ (sock = "error" => nested_error)
  BY <1>1 DEF Usable, FdeInv
<1>4. misused' \in BOOLEAN
  BY <1>1 DEF Touched, CtlType
<1>5. CtlType'
  BY <1>1, <1>2, <1>4 DEF CtlType
<1>6. FdeInv'
  <2>1. Touched => nested_error
    BY <1>3 DEF FdeInv, FdEventAlive, Touched
  <2>2. sock' = sock /\ nested_error' = nested_error /\ misused' = Touched
    BY <1>1
  <2> QED BY <1>3, <2>1, <2>2 DEF FdeInv, AliveInCallback, FdEventAlive
<1> QED BY <1>5, <1>6

\* and packet_destructor.
LEMMA FreeCtl ==
  ASSUME CtlType, FdeInv, Free
  PROVE  CtlType' /\ FdeInv'
<1>1. /\ sock = "open" /\ fd_read' = FALSE /\ fd_write' = FALSE /\ FreeContext
      /\ UNCHANGED <<recv_disable, processing, next_events, initial_read, nested_error, misused>>
  BY DEF Free, fdeVars
<1>2. destructor_called' \in BOOLEAN /\ sock' \in {"open", "freed"} /\ (Busy => sock' = "open")
  BY <1>1 DEF FreeContext, CtlType
<1>3. CtlType'
  BY <1>1, <1>2 DEF CtlType
<1>4. FdeInv'
  <2>1. Busy' => sock' # "freed"
    BY <1>1, <1>2 DEF Busy
  <2>2. misused' => nested_error'
    BY <1>1 DEF FdeInv, FdEventAlive
  <2> QED BY <1>2, <2>1, <2>2 DEF FdeInv, AliveInCallback, FdEventAlive
<1> QED BY <1>3, <1>4

\* A step that changes at most what is watched for writing.
LEMMA SendCtl ==
  ASSUME CtlType, FdeInv, fd_write' \in BOOLEAN,
         UNCHANGED <<ctlVars, sock, initial_read, fdeVars>>
  PROVE  CtlType' /\ FdeInv'
<1>1. CtlType'
  BY DEF CtlType, ctlVars, fdeVars
<1>2. FdeInv'
  BY DEF FdeInv, AliveInCallback, FdEventAlive, Busy, ctlVars, fdeVars
<1> QED BY <1>1, <1>2

\* Every step keeps FdeInv.
LEMMA CtlNext ==
  ASSUME RecvType, RecvInv, CtlType, FdeInv, [Next]_vars
  PROVE  CtlType' /\ FdeInv'
<1>1. CASE Arrive
  <2>1. fd_write' \in BOOLEAN
    BY <1>1 DEF Arrive, sendVars, CtlType
  <2> QED BY <1>1, <2>1, SendCtl DEF Arrive
<1>2. CASE Readable
  BY <1>2, ReadableCtl
<1>3. CASE RecvError \/ WriteError
  BY <1>3, ErrorCtl
<1>4. CASE NextEvent
  BY <1>4, NextEventCtl
<1>5. CASE CallbackReturn
  BY <1>5, CallbackReturnCtl
<1>6. CASE CallbackFails
  BY <1>6, CallbackFailsCtl
<1>7. CASE Disable \/ Enable
  BY <1>7, SwitchCtl
<1>8. CASE Free
  BY <1>8, FreeCtl
<1>9. CASE Send
  <2>1. fd_write' \in BOOLEAN
    BY <1>9 DEF Send, Watch
  <2> QED BY <1>9, <2>1, SendCtl DEF Send
<1>10. CASE QueueRun
  <2>1. fd_write' \in BOOLEAN
    BY <1>10 DEF QueueRun
  <2> QED BY <1>10, <2>1, SendCtl DEF QueueRun
<1>11. CASE UNCHANGED vars
  <2>1. fd_write' \in BOOLEAN
    BY <1>11 DEF vars, sendVars, CtlType
  <2> QED BY <1>11, <2>1, SendCtl DEF vars
<1> QED BY <1>1, <1>2, <1>3, <1>4, <1>5, <1>6, <1>7, <1>8, <1>9, <1>10, <1>11 DEF Next
-----------------------------------------------------------------------------
(***************************************************************************)
(* Sending.                                                                *)
(***************************************************************************)
QueueType == [id : DOMAIN OutLens, nsent : Nat]
PieceType == (DOMAIN OutLens) \X Nat \X Nat

SendType ==
  /\ send_queue \in Seq(QueueType)
  /\ queued \in 0 .. Len(OutLens)
  /\ wire \in Seq(PieceType)

\* The lengths of the packets that are sent.
LEMMA OutLemma ==
  /\ Len(OutLens) \in Nat /\ DOMAIN OutLens = 1 .. Len(OutLens)
  /\ \A k \in DOMAIN OutLens : OutLens[k] \in Nat \ {0}
<1>1. OutLens \in Seq(Nat \ {0})
  BY LensAssumption
<1> QED BY <1>1, LenProperties, ElementOfSeq

\* The queue, its first element and the numbers in it.
LEMMA QueueLemma ==
  ASSUME SendType
  PROVE  /\ Len(send_queue) \in Nat /\ DOMAIN send_queue = 1 .. Len(send_queue)
         /\ queued \in Nat /\ queued <= Len(OutLens) /\ Done \in Int
         /\ \A i \in DOMAIN send_queue :
              /\ send_queue[i] \in QueueType
              /\ send_queue[i].id \in DOMAIN OutLens /\ send_queue[i].nsent \in Nat
<1>1. Len(send_queue) \in Nat /\ DOMAIN send_queue = 1 .. Len(send_queue)
  BY LenProperties DEF SendType
<1>2. queued \in Nat /\ queued <= Len(OutLens)
  BY OutLemma DEF SendType
<1>3. \A i \in DOMAIN send_queue : send_queue[i] \in QueueType
  BY <1>1, ElementOfSeq DEF SendType
<1>4. Done \in Int
  BY <1>1, <1>2 DEF Done
<1> QED BY <1>1, <1>2, <1>3, <1>4 DEF QueueType

\* A step that sends nothing keeps SendInv and WireOrder.
LEMMA SendSame ==
  ASSUME SendType, SendInv, WireOrder, UNCHANGED <<send_queue, queued, wire>>
  PROVE  SendType' /\ SendInv' /\ WireOrder'
  BY DEF SendType, SendInv, WireOrder, Done, Last, QueueType, PieceType

\* A packet joins the queue.
LEMMA SendStep ==
  ASSUME SendType, SendInv, WireOrder, Send
  PROVE  SendType' /\ SendInv' /\ WireOrder'
<1> DEFINE q == send_queue
           el == [id |-> queued + 1, nsent |-> 0]
           r == Append(q, el)
           d == Done
<1>1. /\ queued < Len(OutLens) /\ queued' = queued + 1
      /\ send_queue' = r /\ wire' = wire
  BY DEF Send, QueueEnd
<1>2. /\ Len(q) \in Nat /\ DOMAIN q = 1 .. Len(q) /\ queued \in Nat /\ Len(OutLens) \in Nat
      /\ d \in Int /\ d = queued - Len(q)
  BY QueueLemma, OutLemma DEF Done
<1>3. el \in QueueType /\ el.id = queued + 1 /\ el.nsent = 0 /\ OutLens[el.id] > 0
  <2>1. queued + 1 \in DOMAIN OutLens
    BY <1>1, <1>2, OutLemma
  <2> QED BY <2>1, OutLemma DEF QueueType
<1> HIDE DEF el
<1>4. /\ r \in Seq(QueueType) /\ Len(r) = Len(q) + 1
      /\ \A i \in 1 .. Len(q) : r[i] = q[i]
      /\ r[Len(q) + 1] = el
  BY <1>3, AppendProperties DEF SendType
<1>5. DOMAIN r = 1 .. Len(q) + 1
  BY <1>4, LenProperties
<1> HIDE DEF r
<1>6. Done' = d
  <2>1. Done' = (queued + 1) - (Len(q) + 1)
    BY <1>1, <1>4 DEF Done
  <2> QED BY <1>2, <2>1
<1>7. Last' = Last
  BY <1>1 DEF Last
<1>8. SendType'
  <2>1. queued + 1 \in 0 .. Len(OutLens)
    BY <1>1, <1>2
  <2> QED BY <1>1, <1>4, <2>1 DEF SendType, QueueType, PieceType
<1> DEFINE OK(s, i) == /\ s[i].id = d + i
                       /\ s[i].nsent < OutLens[s[i].id]
                       /\ i # 1 => s[i].nsent = 0
<1>9. \A i \in DOMAIN r : OK(r, i)
  <2> SUFFICES ASSUME NEW i \in DOMAIN r PROVE OK(r, i)
    OBVIOUS
  <2>1. CASE i = Len(q) + 1
    <3>1. r[i] = el /\ d + i = queued + 1
      BY <2>1, <1>2, <1>4
    <3> QED BY <3>1, <1>3
  <2>2. CASE i # Len(q) + 1
    <3>1. i \in DOMAIN q /\ r[i] = q[i]
      BY <2>2, <1>2, <1>4, <1>5
    <3> QED BY <3>1 DEF SendInv
  <2> QED BY <2>1, <2>2
<1>10. r # <<>> /\ (q # <<>> => r[1] = q[1]) /\ (q = <<>> => r[1].nsent = 0)
  <2>1. r # <<>>
    BY <1>2, <1>4
  <2>2. q # <<>> => 1 \in 1 .. Len(q)
    BY <1>2, EmptySeq DEF SendType
  <2>3. q = <<>> => r[1] = el
    BY <1>4
  <2> QED BY <2>1, <2>2, <2>3, <1>3, <1>4
<1> DEFINE Ends(s) ==
      \/ /\ s # <<>> /\ s[1].nsent > 0
         /\ Last[1] = d + 1 /\ Last[2] + Last[3] = s[1].nsent
      \/ /\ s # <<>> => s[1].nsent = 0
         /\ Last[1] = d
         /\ d # 0 => Last[2] + Last[3] = OutLens[d]
<1>11. d >= 0 /\ Ends(q)
  BY DEF SendInv
<1>12. Ends(r)
  BY <1>10, <1>11
<1>13. SendInv'
  <2> HIDE DEF d
  <2> QED BY <1>1, <1>6, <1>7, <1>9, <1>11, <1>12 DEF SendInv
<1>14. WireOrder'
  BY <1>1 DEF WireOrder
<1> QED BY <1>8, <1>13, <1>14

\* A piece is written: it goes on where the last one ended.
LEMMA QueueRunStep ==
  ASSUME SendType, SendInv, WireOrder, QueueRun
  PROVE  SendType' /\ SendInv' /\ WireOrder'
<1> DEFINE q == send_queue
           el == q[1]
           d == Done
           L == Last
<1>1. PICK n \in 1 .. OutLens[el.id] - el.nsent :
        wire' = Append(wire, <<el.id, el.nsent, n>>) /\ send_queue' = AfterWrite(q, n)
  BY DEF QueueRun
<1>2. q # <<>> /\ queued' = queued
  BY DEF QueueRun
<1>3. /\ Len(q) \in Nat /\ DOMAIN q = 1 .. Len(q) /\ queued \in Nat /\ 1 \in DOMAIN q
      /\ d \in Int /\ d = queued - Len(q)
  BY <1>2, QueueLemma, EmptySeq DEF Done, SendType
<1>4. /\ el \in QueueType /\ el.id \in DOMAIN OutLens /\ el.nsent \in Nat
      /\ el.id = d + 1 /\ el.nsent < OutLens[el.id] /\ d >= 0
      /\ OutLens[el.id] \in Nat
  BY <1>3, QueueLemma, OutLemma DEF SendInv
<1>5. n \in Nat \ {0} /\ el.nsent + n \in Nat /\ el.nsent + n <= OutLens[el.id]
  BY <1>4
<1> DEFINE p == <<el.id, el.nsent, n>>
           w == Append(wire, p)
<1>6. p \in PieceType /\ p[1] = el.id /\ p[2] = el.nsent /\ p[3] = n
  BY <1>4, <1>5 DEF PieceType
<1> HIDE DEF p
<1>7. /\ w \in Seq(PieceType) /\ Len(w) = Len(wire) + 1 /\ Len(wire) \in Nat
      /\ \A i \in 1 .. Len(wire) : w[i] = wire[i]
      /\ w[Len(wire) + 1] = p
  BY <1>6, AppendProperties, LenProperties DEF SendType
<1>8. wire' = w /\ DOMAIN w = 1 .. Len(wire) + 1 /\ DOMAIN wire = 1 .. Len(wire)
  BY <1>1, <1>7, LenProperties DEF p, SendType
<1> HIDE DEF w
<1>9. Last' = p
  <2>1. w # <<>>
    BY <1>7
  <2> QED BY <1>7, <1>8, <2>1 DEF Last
<1>10. \/ L[1] = el.id /\ el.nsent = L[2] + L[3]
       \/ el.id = L[1] + 1 /\ el.nsent = 0 /\ (L[1] # 0 => L[2] + L[3] = OutLens[L[1]])
  BY <1>2, <1>4 DEF SendInv
<1>11. WireOrder'
  <2> DEFINE prev(s, i) == IF i = 1 THEN <<0, 0, 0>> ELSE s[i - 1]
             Good(x, y) == \/ x[1] = y[1] /\ x[2] = y[2] + y[3]
                           \/ /\ x[1] = y[1] + 1 /\ x[2] = 0
                              /\ y[1] # 0 => y[2] + y[3] = OutLens[y[1]]
  <2>1. \A i \in DOMAIN wire : Good(wire[i], prev(wire, i))
    BY DEF WireOrder
  <2>2. ASSUME NEW i \in DOMAIN w PROVE Good(w[i], prev(w, i))
    <3>1. CASE i = Len(wire) + 1
      <4>1. w[i] = p
        BY <3>1, <1>7
      <4>2. prev(w, i) = L
        <5>1. CASE Len(wire) = 0
          <6>1. wire = <<>>
            BY <5>1, EmptySeq DEF SendType
          <6> QED BY <3>1, <5>1, <6>1 DEF Last
        <5>2. CASE Len(wire) # 0
          <6>1. wire # <<>> /\ i # 1 /\ i - 1 = Len(wire) /\ Len(wire) \in 1 .. Len(wire)
            BY <3>1, <5>2, <1>7
          <6>2. w[i - 1] = wire[Len(wire)]
            BY <6>1, <1>7
          <6> QED BY <6>1, <6>2 DEF Last
        <5> QED BY <5>1, <5>2
      <4>3. Good(p, L)
        <5> HIDE DEF L, el
        <5> QED BY <1>6, <1>10
      <4> HIDE DEF prev, Good, L
      <4> QED BY <4>1, <4>2, <4>3
    <3>2. CASE i # Len(wire) + 1
      <4>1. i \in 1 .. Len(wire) /\ w[i] = wire[i]
        BY <3>2, <1>7, <1>8
      <4>2. prev(w, i) = prev(wire, i)
        <5>1. i # 1 => i - 1 \in 1 .. Len(wire)
          BY <4>1, <1>7
        <5> QED BY <5>1, <1>7
      <4>3. Good(wire[i], prev(wire, i))
        BY <4>1, <2>1, <1>8
      <4> HIDE DEF prev, Good
      <4> QED BY <4>1, <4>2, <4>3
    <3> QED BY <3>1, <3>2
  <2> QED BY <2>2, <1>8 DEF WireOrder
<1> DEFINE z == AfterWrite(q, n)
<1>12. CASE el.nsent + n = OutLens[el.id]
  <2>1. z = Tail(q)
    BY <1>12 DEF AfterWrite
  <2>2. /\ z \in Seq(QueueType) /\ Len(z) = Len(q) - 1
        /\ \A i \in 1 .. Len(z) : z[i] = q[i + 1]
    BY <1>2, <2>1, HeadTailProperties DEF SendType
  <2>3. DOMAIN z = 1 .. Len(q) - 1
    BY <2>2, LenProperties
  <2>4. send_queue' = z
    BY <1>1
  <2> HIDE DEF z
  <2>5. Done' = d + 1
    <3>1. Done' = queued - (Len(q) - 1)
      BY <1>2, <2>2, <2>4 DEF Done
    <3> QED BY <1>3, <3>1
  <2>6. ASSUME NEW i \in DOMAIN z
        PROVE  /\ z[i].id = (d + 1) + i /\ z[i].nsent < OutLens[z[i].id]
               /\ z[i].nsent = 0
    <3>1. i + 1 \in DOMAIN q /\ i + 1 # 1 /\ z[i] = q[i + 1] /\ i \in Nat
      BY <1>3, <2>2, <2>3
    <3>2. /\ q[i + 1].id = d + (i + 1) /\ q[i + 1].nsent < OutLens[q[i + 1].id]
          /\ q[i + 1].nsent = 0
      BY <3>1 DEF SendInv
    <3>3. d + (i + 1) = (d + 1) + i
      BY <1>3, <3>1
    <3> QED BY <3>1, <3>2, <3>3
  <2>7. z # <<>> => z[1].nsent = 0
    <3>1. z # <<>> => 1 \in DOMAIN z
      BY <1>3, <2>2, <2>3, EmptySeq
    <3> QED BY <3>1, <2>6
  <2>8. SendType'
    BY <1>2, <1>7, <1>8, <2>2, <2>4 DEF SendType, QueueType, PieceType
  <2>9. p[1] = d + 1 /\ p[2] + p[3] = OutLens[d + 1] /\ d + 1 >= 0
    BY <1>3, <1>4, <1>6, <1>12
  <2>10. SendInv'
    <3> HIDE DEF d, el
    <3> QED BY <1>9, <2>4, <2>5, <2>6, <2>7, <2>9 DEF SendInv
  <2> QED BY <1>11, <2>8, <2>10
<1>13. CASE el.nsent + n # OutLens[el.id]
  <2> DEFINE e == [el EXCEPT !.nsent = el.nsent + n]
  <2>1. z = <<e>> \o Tail(q)
    BY <1>13 DEF AfterWrite
  <2>2. e \in QueueType /\ e.id = el.id /\ e.nsent = el.nsent + n
    BY <1>4, <1>5 DEF QueueType
  <2> HIDE DEF e
  <2>3. /\ z \in Seq(QueueType) /\ Len(z) = Len(q) /\ z[1] = e
        /\ \A i \in 1 .. Len(q) : i # 1 => z[i] = q[i]
    <3>1. q \in Seq(QueueType)
      BY DEF SendType
    <3> HIDE DEF q
    <3> QED BY <1>2, <2>1, <2>2, <3>1
  <2>4. send_queue' = z
    BY <1>1
  <2> HIDE DEF z
  <2>5. DOMAIN z = DOMAIN q
    BY <1>3, <2>3, LenProperties
  <2>6. Done' = d
    BY <1>2, <2>3, <2>4 DEF Done
  <2>7. ASSUME NEW i \in DOMAIN z
        PROVE  /\ z[i].id = d + i /\ z[i].nsent < OutLens[z[i].id]
               /\ i # 1 => z[i].nsent = 0
    <3>1. CASE i = 1
      <4>1. el.nsent + n < OutLens[el.id]
        BY <1>4, <1>5, <1>13
      <4> QED BY <3>1, <4>1, <1>4, <2>2, <2>3
    <3>2. CASE i # 1
      BY <3>2, <1>3, <2>3, <2>5 DEF SendInv
    <3> QED BY <3>1, <3>2
  <2>8. SendType'
    BY <1>2, <1>7, <1>8, <2>3, <2>4 DEF SendType, QueueType, PieceType
  <2>9. /\ p[1] = d + 1 /\ p[2] + p[3] = z[1].nsent /\ z[1].nsent > 0
        /\ d >= 0 /\ z # <<>>
    <3>1. z # <<>>
      BY <1>3, <2>3
    <3>2. z[1].nsent = el.nsent + n /\ el.nsent + n > 0
      BY <1>4, <1>5, <2>2, <2>3
    <3> QED BY <3>1, <3>2, <1>4, <1>6
  <2>10. SendInv'
    <3> HIDE DEF d, el
    <3> QED BY <1>9, <2>4, <2>6, <2>7, <2>9 DEF SendInv
  <2> QED BY <1>11, <2>8, <2>10
<1> QED BY <1>12, <1>13

\* Every step keeps SendInv and WireOrder.
LEMMA SendNext ==
  ASSUME SendType, SendInv, WireOrder, [Next]_vars
  PROVE  SendType' /\ SendInv' /\ WireOrder'
<1>1. CASE Send
  BY <1>1, SendStep
<1>2. CASE QueueRun
  BY <1>2, QueueRunStep
<1>3. CASE ~Send /\ ~QueueRun
  <2>1. UNCHANGED <<send_queue, queued, wire>>
    BY <1>3 DEF Next, Arrive, Readable, RecvRefused, RecvBuffered, RecvRead, RecvError,
                NextEvent, CallbackReturn, CallbackFails, Disable, Enable, Free, WriteError,
                sendVars, vars
  <2> QED BY <2>1, SendSame
<1> QED BY <1>1, <1>2, <1>3
-----------------------------------------------------------------------------
\* Initially nothing was read or sent.
LEMMA InitInv == Init => IndInv
<1> SUFFICES ASSUME Init PROVE IndInv
  OBVIOUS
<1> USE DEF Init
<1>1. 1 \in 1 .. N + 1 /\ 0 \in 0 .. Total /\ Total \in 0 .. Total /\ Total \in Nat
  BY TotalLemma, LensLemma
<1>2. TypeOK
  <2>1. recv_disable \in BOOLEAN /\ fd_read \in BOOLEAN
    OBVIOUS
  <2>2. /\ given \in Seq(Nat \X Nat) /\ wire \in Seq(PieceType)
        /\ send_queue \in Seq(QueueType)
    BY EmptySeq
  <2>3. queued \in 0 .. Len(OutLens)
    BY OutLemma
  <2>4. coming \in 0 .. Total /\ avail \in 0 .. Total /\ num_read \in 0 .. Total
        /\ packet_size \in 0 .. Total
    BY <1>1
  <2> QED BY <2>1, <2>2, <2>3, <2>4 DEF TypeOK, QueueType, PieceType
<1>3. RecvInv
  BY <1>1, StartLemma, LensLemma DEF RecvInv
<1>4. FdeInv
  BY DEF FdeInv, AliveInCallback, FdEventAlive, Busy
<1>5. SendInv
  <2>1. Len(send_queue) = 0 /\ Done = 0 /\ Last = <<0, 0, 0>>
    <3>1. send_queue = <<>> /\ queued = 0 /\ wire = <<>>
      OBVIOUS
    <3>2. Len(send_queue) = 0
      BY <3>1, EmptySeq
    <3> DEFINE l == Len(send_queue)
    <3>a. queued = 0 /\ l = 0 /\ Done = queued - l
      BY <3>2 DEF Done
    <3> HIDE DEF Init, l
    <3>3. Done = 0
      BY <3>a
    <3>4. Last = <<0, 0, 0>>
      BY <3>1 DEF Last
    <3> QED BY <3>2, <3>3, <3>4
  <2> QED BY <2>1 DEF SendInv
<1>6. WireOrder
  BY DEF WireOrder
<1> QED BY <1>2, <1>3, <1>4, <1>5, <1>6 DEF IndInv

\* The type invariant, in the parts that the sides of the stream keep.
LEMMA TypeParts == TypeOK <=> RecvType /\ CtlType /\ SendType
  BY DEF TypeOK, RecvType, CtlType, SendType, QueueType, PieceType

\* Every step of the socket, the callback and the users keeps the invariant.
LEMMA NextInv == IndInv /\ [Next]_vars => IndInv'
<1> SUFFICES ASSUME IndInv, [Next]_vars PROVE IndInv'
  OBVIOUS
<1>1. RecvType /\ CtlType /\ SendType /\ RecvInv /\ FdeInv /\ SendInv /\ WireOrder
  BY TypeParts DEF IndInv
<1>2. RecvType' /\ RecvInv'
  BY <1>1, RecvNext
<1>3. CtlType' /\ FdeInv'
  BY <1>1, CtlNext
<1>4. SendType' /\ SendInv' /\ WireOrder'
  BY <1>1, SendNext
<1>5. TypeOK'
  BY <1>2, <1>3, <1>4 DEF TypeOK, RecvType, CtlType, SendType, QueueType, PieceType
<1> QED BY <1>2, <1>3, <1>4, <1>5 DEF IndInv

\* IndInv holds in every state.
LEMMA Invariance == Spec => []IndInv
  BY InitInv, NextInv, PTL DEF Spec

\* The fields of a packet_context keep their types, and no counter of bytes
\* exceeds what the peer sends (packet.c).
THEOREM TypeCorrect == Spec => []TypeOK
<1>1. IndInv => TypeOK
  BY DEF IndInv
<1> QED BY <1>1, Invariance, PTL

\* The callback gets the packets of the peer, each one whole and alone, in
\* order and once, for packets of any lengths cut into reads of any sizes
\* (packet_recv).
THEOREM FramingSafe == Spec => []Framing
<1>1. IndInv => Framing
  <2> SUFFICES ASSUME IndInv, NEW k \in DOMAIN given
               PROVE  k \in DOMAIN InLens /\ given[k] = <<Start[k], InLens[k]>>
    BY DEF Framing
  <2>1. Len(given) \in 0 .. N /\ DOMAIN given = 1 .. Len(given)
    BY RecvNumbers, TypeParts DEF IndInv
  <2>2. k \in DOMAIN InLens
    BY <2>1, LensLemma
  <2> QED BY <2>2 DEF IndInv, RecvInv
<1> QED BY <1>1, Invariance, PTL

\* The context stays alive as long as a callback of it runs, however the
\* callback or a loop nested in it frees it (packet_destructor).
THEOREM AliveInCallbackSafe == Spec => []AliveInCallback
<1>1. IndInv => AliveInCallback
  BY DEF IndInv, FdeInv
<1> QED BY <1>1, Invariance, PTL

\* The freed fd event is used only after an error that struck inside a callback
\* or before an immediate event (packet_error, packet_recv).
THEOREM FdEventAliveSafe == Spec => []FdEventAlive
<1>1. IndInv => FdEventAlive
  BY DEF IndInv, FdeInv
<1> QED BY <1>1, Invariance, PTL

\* The queued packets go out one after the other, each from its first to its
\* last byte, in pieces of any size (packet_queue_run).
THEOREM WireOrderSafe == Spec => []WireOrder
<1>1. IndInv => WireOrder
  BY DEF IndInv
<1> QED BY <1>1, Invariance, PTL
-----------------------------------------------------------------------------
(***************************************************************************)
(* The safety half of AllWritten: no queued packet is forgotten.           *)
(***************************************************************************)
Running == sock = "open" /\ ~destructor_called

\* The last byte of packet k was written.
Written(k, w) == \E i \in DOMAIN w : w[i][1] = k /\ w[i][2] + w[i][3] = OutLens[k]

\* A packet that was queued is out, or it is in the queue and the socket is watched
\* for writing.
WriteNotLost ==
  Running => \A k \in 1 .. queued :
    \/ Written(k, wire)
    \/ fd_write /\ \E i \in DOMAIN send_queue : send_queue[i].id = k

WriteInv ==
  /\ Running /\ send_queue # <<>> => fd_write
  /\ \A k \in 1 .. Done : Written(k, wire)

\* A connection that runs has run before.
LEMMA RunningStep ==
  ASSUME [Next]_vars, Running'
  PROVE  Running
  BY DEF Running, Next, Arrive, Readable, RecvRefused, RecvBuffered, RecvRead, RecvError,
         PacketError, NextEvent, CallbackReturn, CallbackFails, Disable, Enable, Free,
         FreeContext, Send, QueueRun, WriteError, ctlVars, vars

\* A piece more leaves what is written.
LEMMA WrittenAppend ==
  ASSUME NEW w \in Seq(PieceType), NEW p \in PieceType, NEW k,
         \/ Written(k, w)
         \/ p[1] = k /\ p[2] + p[3] = OutLens[k]
  PROVE  Written(k, Append(w, p))
<1> DEFINE v == Append(w, p)
<1>1. /\ v \in Seq(PieceType) /\ Len(v) = Len(w) + 1 /\ Len(w) \in Nat
      /\ \A i \in 1 .. Len(w) : v[i] = w[i]
      /\ v[Len(w) + 1] = p
  BY AppendProperties, LenProperties
<1>2. DOMAIN v = 1 .. Len(w) + 1 /\ DOMAIN w = 1 .. Len(w)
  BY <1>1, LenProperties
<1> HIDE DEF v
<1>3. CASE Written(k, w)
  <2>1. PICK i \in DOMAIN w : w[i][1] = k /\ w[i][2] + w[i][3] = OutLens[k]
    BY <1>3 DEF Written
  <2>2. i \in DOMAIN v /\ v[i] = w[i]
    BY <1>1, <1>2
  <2>3. Written(k, v)
    BY <2>1, <2>2 DEF Written
  <2> QED BY <2>3 DEF v
<1>4. CASE p[1] = k /\ p[2] + p[3] = OutLens[k]
  <2>1. Len(w) + 1 \in DOMAIN v
    BY <1>1, <1>2
  <2>2. Written(k, v)
    BY <1>1, <1>4, <2>1 DEF Written
  <2> QED BY <2>2 DEF v
<1> QED BY <1>3, <1>4

\* One turn of packet_queue_run.
LEMMA QueueRunWritten ==
  ASSUME SendType, SendInv, WriteInv, QueueRun
  PROVE  \A k \in 1 .. Done' : Written(k, wire')
<1> DEFINE q == send_queue
           el == q[1]
           d == Done
<1>1. PICK n \in 1 .. OutLens[el.id] - el.nsent :
        wire' = Append(wire, <<el.id, el.nsent, n>>) /\ send_queue' = AfterWrite(q, n)
  BY DEF QueueRun
<1>2. q # <<>> /\ queued' = queued
  BY DEF QueueRun
<1>3. /\ Len(q) \in Nat /\ DOMAIN q = 1 .. Len(q) /\ queued \in Nat /\ 1 \in DOMAIN q
      /\ d \in Int /\ d = queued - Len(q)
  BY <1>2, QueueLemma, EmptySeq DEF Done, SendType
<1>4. /\ el \in QueueType /\ el.id \in DOMAIN OutLens /\ el.nsent \in Nat
      /\ el.id = d + 1 /\ OutLens[el.id] \in Nat /\ d >= 0
  BY <1>3, QueueLemma, OutLemma DEF SendInv
<1> DEFINE p == <<el.id, el.nsent, n>>
<1>5. p \in PieceType /\ p[1] = el.id /\ p[2] = el.nsent /\ p[3] = n
  BY <1>4 DEF PieceType
<1>6. wire' = Append(wire, p) /\ wire \in Seq(PieceType)
  BY <1>1 DEF SendType
<1> HIDE DEF p
<1>7. ASSUME NEW k \in 1 .. d PROVE Written(k, wire')
  <2>1. Written(k, wire)
    BY DEF WriteInv
  <2> QED BY <1>5, <1>6, <2>1, WrittenAppend
<1> DEFINE z == AfterWrite(q, n)
<1>8. CASE el.nsent + n = OutLens[el.id]
  <2>1. z = Tail(q)
    BY <1>8 DEF AfterWrite
  <2>2. Len(z) = Len(q) - 1
    BY <1>2, <2>1, HeadTailProperties DEF SendType
  <2>3. Done' = queued - (Len(q) - 1)
    BY <1>1, <1>2, <2>2 DEF Done
  <2>4. Done' = d + 1
    BY <1>3, <2>3
  <2>5. Written(d + 1, wire')
    <3>1. p[1] = d + 1 /\ p[2] + p[3] = OutLens[d + 1]
      BY <1>4, <1>5, <1>8
    <3> HIDE DEF d
    <3> QED BY <1>5, <1>6, <3>1, WrittenAppend
  <2>6. \A k \in 1 .. d + 1 : k = d + 1 \/ k \in 1 .. d
    BY <1>3
  <2> HIDE DEF d
  <2> QED BY <1>7, <2>4, <2>5, <2>6
<1>9. CASE el.nsent + n # OutLens[el.id]
  <2> DEFINE e == [el EXCEPT !.nsent = el.nsent + n]
  <2>1. z = <<e>> \o Tail(q)
    BY <1>9 DEF AfterWrite
  <2>2. e \in QueueType
    BY <1>4 DEF QueueType
  <2> HIDE DEF e
  <2>3. Len(z) = Len(q)
    <3>1. q \in Seq(QueueType)
      BY DEF SendType
    <3> HIDE DEF q
    <3> QED BY <1>2, <2>1, <2>2, <3>1
  <2>4. Done' = d
    BY <1>1, <1>2, <2>3 DEF Done
  <2> HIDE DEF d
  <2> QED BY <1>7, <2>4
<1> QED BY <1>8, <1>9

\* Every step keeps WriteInv.
LEMMA WriteNext ==
  ASSUME IndInv, WriteInv, [Next]_vars
  PROVE  WriteInv'
<1>1. SendType /\ SendInv
  BY TypeParts DEF IndInv
<1>2. CASE QueueRun
  <2>1. send_queue' # <<>> => fd_write'
    BY <1>2 DEF QueueRun
  <2> QED BY <1>1, <1>2, <2>1, QueueRunWritten DEF WriteInv
<1>3. CASE Send
  <2>1. fd_write' /\ wire' = wire
    BY <1>3 DEF Send, Watch
  <2>2. Done' = Done
    <3> DEFINE l == Len(send_queue)
               el == [id |-> queued + 1, nsent |-> 0]
    <3>1. queued' = queued + 1 /\ send_queue' = Append(send_queue, el) /\ queued < Len(OutLens)
      BY <1>3 DEF Send, QueueEnd
    <3>2. el \in QueueType
      BY <1>1, <3>1, OutLemma, QueueLemma DEF QueueType
    <3> HIDE DEF el
    <3>3. Len(send_queue') = l + 1
      BY <1>1, <3>1, <3>2, AppendProperties DEF SendType
    <3>4. l \in Nat /\ queued \in Nat
      BY <1>1, QueueLemma
    <3>5. Done' = (queued + 1) - (l + 1) /\ Done = queued - l
      BY <3>1, <3>3 DEF Done
    <3> HIDE DEF l
    <3> QED BY <3>4, <3>5
  <2> QED BY <2>1, <2>2 DEF WriteInv
<1>4. CASE ~QueueRun /\ ~Send
  <2>1. UNCHANGED <<send_queue, queued, wire>>
    BY <1>4 DEF Next, Arrive, Readable, RecvRefused, RecvBuffered, RecvRead, RecvError,
                NextEvent, CallbackReturn, CallbackFails, Disable, Enable, Free, WriteError,
                sendVars, vars
  <2>2. Running' => fd_write' = fd_write
    BY <1>4 DEF Running, Next, Arrive, Readable, RecvRefused, RecvBuffered, RecvRead,
                RecvError, PacketError, NextEvent, CallbackReturn, CallbackFails, Disable,
                Enable, Free, FreeContext, WriteError, sendVars, vars
  <2>3. Running' => Running
    BY RunningStep
  <2>4. Done' = Done
    BY <2>1 DEF Done
  <2> QED BY <2>1, <2>2, <2>3, <2>4 DEF WriteInv
<1> QED BY <1>2, <1>3, <1>4

\* As long as the connection runs, a packet that packet_send has queued is written to
\* its last byte, or waits in the queue of a socket that is watched for writing:
\* packet_queue_run never stops watching too early, in pieces of whatever size.
THEOREM WriteNotLostSafe == Spec => []WriteNotLost
<1>1. Init => WriteInv
  <2> SUFFICES ASSUME Init PROVE WriteInv
    OBVIOUS
  <2>1. send_queue = <<>> /\ queued = 0
    BY DEF Init
  <2> DEFINE l == Len(send_queue)
  <2>2. l = 0 /\ Done = queued - l
    BY <2>1, EmptySeq DEF Done
  <2> HIDE DEF l
  <2>3. Done = 0
    BY <2>1, <2>2
  <2>4. 1 .. 0 = {}
    OBVIOUS
  <2> QED BY <2>1, <2>3, <2>4 DEF WriteInv
<1>2. IndInv /\ WriteInv => WriteNotLost
  <2> SUFFICES ASSUME IndInv, WriteInv, Running, NEW k \in 1 .. queued,
                      ~Written(k, wire)
               PROVE  fd_write /\ \E i \in DOMAIN send_queue : send_queue[i].id = k
    BY DEF WriteNotLost
  <2> DEFINE d == Done
             l == Len(send_queue)
  <2>1. SendType /\ SendInv
    BY TypeParts DEF IndInv
  <2>2. /\ l \in Nat /\ DOMAIN send_queue = 1 .. l /\ queued \in Nat /\ d \in Int
        /\ d = queued - l /\ d >= 0
    BY <2>1, QueueLemma DEF Done, SendInv
  <2>3. k \notin 1 .. d
    BY DEF WriteInv
  <2> HIDE DEF d, l
  <2>4. k - d \in 1 .. l /\ d + (k - d) = k
    BY <2>2, <2>3
  <2>5. send_queue[k - d].id = k
    BY <2>1, <2>2, <2>4 DEF SendInv, d
  <2>6. send_queue # <<>>
    BY <2>2, <2>4
  <2> QED BY <2>2, <2>4, <2>5, <2>6 DEF WriteInv
<1> QED BY <1>1, <1>2, WriteNext, Invariance, PTL DEF Spec
-----------------------------------------------------------------------------
(***************************************************************************)
(* The safety half of Delivered: no buffered packet is forgotten.          *)
(***************************************************************************)
\* The next packet is in the buffer, and its length.
Due == InLens[Len(given) + 1]
Whole == Len(given) < N /\ Due <= num_read

(***************************************************************************)
(* While receiving is on, the socket is watched, or a callback runs that   *)
(* will watch it when it returns; and a whole packet that no callback      *)
(* holds up has its length known and an immediate event that gives it      *)
(* away.                                                                   *)
(***************************************************************************)
ReadNotLost ==
  Running /\ ~recv_disable =>
    /\ Busy => fd_read \/ processing > 1
    /\ ~Busy => fd_read
    /\ ~Busy /\ Whole => packet_size = Due /\ next_events > 0

\* The first read of a user of packet_set_initial_read is no longer than any of its
\* packets: dcerpc_sock.c asks for the header that every PDU has.
ShortInitialRead ==
  \A n \in InitialReads, k \in DOMAIN InLens : n <= InLens[k]

(***************************************************************************)
(* A user with an initial read never has bytes of a second packet in its   *)
(* buffer.  That is why for it the test of packet_recv_enable, which is    *)
(* the reverse of the other one, is enough.                                *)
(***************************************************************************)
NoSurplus ==
  initial_read # 0 /\ Len(given) < N => num_read <= Due

SizeKnown == Running /\ ~Busy /\ Whole => packet_size = Due

ReadInv == NoSurplus /\ SizeKnown /\ ReadNotLost

\* full_request finds the next packet complete when it is, and knows its length then.
LEMMA FullWhole ==
  ASSUME RecvType, RecvInv, NEW n \in Nat, NEW size, n <= num_read + avail
  PROVE  /\ FullRequest(Offset, n, size).full <=> Len(given) < N /\ Due <= n
         /\ Len(given) < N /\ Due <= n => FullRequest(Offset, n, size).size = Due
<1> DEFINE m == Len(given)
           f == FullRequest(Offset, n, size)
<1>1. /\ m \in 0 .. N /\ Start[m + 1] \in Nat /\ Offset = Start[m + 1]
      /\ coming \in Nat /\ avail \in Nat /\ num_read \in Nat /\ Total \in Nat
  BY RecvNumbers
<1>2. m < N => /\ m + 1 \in 1 .. N /\ Due \in Nat \ {0} /\ HdrLen <= Due
               /\ SizeAt(Offset) = Due
  BY <1>1, LensLemma, SizeLemma DEF Due
<1>3. HdrLen \in Nat \ {0} /\ N \in Nat
  BY LensAssumption, LensLemma
<1>4. n # 0 => m < N
  <2>1. Start[m + 1] + num_read + avail + coming = Start[N + 1]
    BY TotalLemma DEF RecvInv
  <2>2. ASSUME m = N PROVE n = 0
    BY <1>1, <2>1, <2>2
  <2> QED BY <1>1, <1>3, <2>2
<1>5. CASE n < HdrLen
  <2>1. f = [full |-> FALSE, size |-> size]
    BY <1>5 DEF FullRequest
  <2>2. f.full = FALSE
    BY <2>1
  <2>3. m < N => ~(Due <= n)
    <3> HIDE DEF m, f
    <3> QED BY <1>2, <1>3, <1>5
  <2> QED BY <2>2, <2>3
<1>6. CASE ~(n < HdrLen)
  <2>1. m < N
    <3>1. n # 0
      BY <1>3, <1>6
    <3> QED BY <1>4, <3>1
  <2>2. f = [full |-> Due <= n, size |-> Due]
    BY <1>2, <1>6, <2>1 DEF FullRequest
  <2>3. f.full = (Due <= n) /\ f.size = Due
    BY <2>2
  <2> HIDE DEF f, m
  <2>4. (f.full <=> m < N /\ Due <= n) /\ (m < N /\ Due <= n => f.size = Due)
    BY <2>1, <2>3
  <2> QED BY <2>4 DEF f, m
<1> QED BY <1>5, <1>6

\* What the end of packet_recv does to a buffer of n bytes.
LEMMA PartialWhat ==
  ASSUME RecvType, RecvInv, NEW n \in Nat, n <= num_read + avail,
         NextPartial(Offset, n, packet_size)
  PROVE  \/ /\ given' = given /\ num_read' = n /\ processing' = 0
            /\ ~(Len(given) < N /\ Due <= n)
         \/ /\ processing' = 1 /\ num_read' = n - Due
            /\ Len(given) < N /\ Due <= n /\ Len(given') = Len(given) + 1
<1> DEFINE f == FullRequest(Offset, n, packet_size)
<1>1. /\ f.full <=> Len(given) < N /\ Due <= n
      /\ Len(given) < N /\ Due <= n => f.size = Due
  BY FullWhole
<1>2. CASE f.full
  <2>1. /\ given' = Append(given, <<Offset, f.size>>)
        /\ num_read' = n - f.size /\ processing' = 1
    BY <1>2 DEF NextPartial
  <2>2. Len(given) < N /\ Due <= n /\ f.size = Due
    BY <1>1, <1>2
  <2> DEFINE e == <<Offset, f.size>>
             T == Nat \X Nat
  <2>3. e \in T /\ given \in Seq(T)
    <3>1. Due \in Nat
      <4>1. Len(given) + 1 \in 1 .. N
        BY <2>2, RecvNumbers, LensLemma
      <4> QED BY <4>1, LensLemma DEF Due
    <3> QED BY <2>2, <3>1, RecvNumbers DEF RecvType
  <2> HIDE DEF e, T
  <2>4. given' = Append(given, e)
    BY <2>1 DEF e
  <2>5. Len(given') = Len(given) + 1
    BY <2>3, <2>4, AppendProperties
  <2> HIDE DEF f
  <2> QED BY <2>1, <2>2, <2>5
<1>3. CASE ~f.full
  <2>1. given' = given /\ num_read' = n /\ processing' = 0
    BY <1>3 DEF NextPartial
  <2> HIDE DEF f
  <2> QED BY <1>1, <1>3, <2>1
<1> QED BY <1>2, <1>3

\* A step that leaves the buffer and the callback alone.
LEMMA ReadSame ==
  ASSUME ReadInv, UNCHANGED <<recvVars, recv_disable, initial_read, processing>>,
         Running' => Running /\ fd_read' = fd_read /\ next_events' = next_events
  PROVE  ReadInv'
<1>1. /\ Len(given') = Len(given) /\ num_read' = num_read /\ packet_size' = packet_size
      /\ recv_disable' = recv_disable /\ initial_read' = initial_read
      /\ Due' = Due /\ (Whole' <=> Whole) /\ (Busy' <=> Busy) /\ processing' = processing
  BY DEF recvVars, Due, Whole, Busy, N
<1>2. NoSurplus'
  BY <1>1 DEF ReadInv, NoSurplus, N
<1>3. SizeKnown'
  BY <1>1 DEF ReadInv, SizeKnown
<1>4. ReadNotLost'
  BY <1>1 DEF ReadInv, ReadNotLost
<1> QED BY <1>2, <1>3, <1>4 DEF ReadInv

\* A step after which the connection does not run.
LEMMA ReadStopped ==
  ASSUME ReadInv, UNCHANGED <<recvVars, recv_disable, initial_read>>, ~Running'
  PROVE  ReadInv'
<1>1. NoSurplus'
  BY DEF ReadInv, NoSurplus, Due, N, recvVars
<1> QED BY <1>1 DEF ReadInv, SizeKnown, ReadNotLost

\* packet_recv is refused: by a running callback, which is noted, or while it is disabled.
LEMMA ReadRefused ==
  ASSUME CtlType, ReadInv, RecvRefused, initial_read' = initial_read
  PROVE  ReadInv'
<1>1. /\ UNCHANGED <<recv_disable, destructor_called, sock, num_read, packet_size, given>>
      /\ processing' = IF Busy THEN processing + 1 ELSE 0
      /\ Busy \/ recv_disable
  BY DEF RecvRefused, recvVars, CanRecv
<1>2. /\ Due' = Due /\ (Whole' <=> Whole) /\ (Running' <=> Running)
  BY <1>1 DEF Due, Whole, Running, N
<1>3. (Busy' <=> Busy) /\ (Busy => processing' > 1)
  <2>1. processing \in Nat
    BY DEF CtlType
  <2>2. CASE Busy
    <3>1. processing + 1 > 1
      BY <2>1, <2>2 DEF Busy
    <3>2. processing' = processing + 1
      BY <1>1, <2>2
    <3> QED BY <2>1, <2>2, <3>1, <3>2 DEF Busy
  <2>3. CASE ~Busy
    BY <1>1, <2>3 DEF Busy
  <2> QED BY <2>2, <2>3
<1>4. NoSurplus'
  BY <1>1, <1>2 DEF ReadInv, NoSurplus, N
<1>5. SizeKnown'
  BY <1>1, <1>2, <1>3 DEF ReadInv, SizeKnown
<1>6. ReadNotLost'
  BY <1>1, <1>3 DEF ReadNotLost
<1> QED BY <1>4, <1>5, <1>6 DEF ReadInv

\* packet_recv goes on to next_partial with n bytes in the buffer.
LEMMA ReadPartial ==
  ASSUME RecvType, RecvInv, ReadInv, CanRecv, NEW n \in Nat, n <= num_read + avail,
         NextPartial(Offset, n, packet_size),
         initial_read # 0 /\ Len(given) < N => n <= Due,
         UNCHANGED <<recv_disable, fd_read, destructor_called, sock, initial_read>>
  PROVE  ReadInv'
<1>1. ~Busy /\ ~recv_disable /\ (Running' <=> Running)
  BY DEF CanRecv, Running
<1>2. Running => fd_read
  BY <1>1 DEF ReadInv, ReadNotLost
<1>3. CASE /\ given' = given /\ num_read' = n /\ processing' = 0
           /\ ~(Len(given) < N /\ Due <= n)
  <2>1. Due' = Due /\ ~Whole' /\ ~Busy'
    BY <1>3 DEF Due, Whole, Busy, N
  <2>2. NoSurplus'
    BY <1>1, <1>3, <2>1 DEF NoSurplus, N
  <2>3. SizeKnown' /\ ReadNotLost'
    BY <1>1, <1>2, <2>1 DEF SizeKnown, ReadNotLost
  <2> QED BY <2>2, <2>3 DEF ReadInv
<1>4. CASE /\ processing' = 1 /\ num_read' = n - Due
           /\ Len(given) < N /\ Due <= n /\ Len(given') = Len(given) + 1
  <2>1. Busy'
    BY <1>4 DEF Busy
  <2>2. ASSUME initial_read # 0, Len(given') < N PROVE num_read' <= Due'
    <3>1. n <= Due /\ Len(given) + 1 < N
      BY <1>4, <2>2 DEF N
    <3>2. Len(given) + 1 \in 1 .. N /\ (Len(given) + 1) + 1 \in 1 .. N
      BY <3>1, RecvNumbers, LensLemma
    <3>3. Due \in Nat /\ InLens[(Len(given) + 1) + 1] \in Nat
      BY <3>2, LensLemma DEF Due
    <3>4. n - Due = 0
      BY <1>4, <3>1, <3>3
    <3>5. num_read' = 0
      BY <1>4, <3>4
    <3>6. Due' = InLens[(Len(given) + 1) + 1]
      BY <1>4 DEF Due
    <3> QED BY <3>3, <3>5, <3>6
  <2>3. NoSurplus'
    BY <1>1, <2>2 DEF NoSurplus, N
  <2>4. SizeKnown' /\ ReadNotLost'
    BY <1>1, <1>2, <2>1 DEF SizeKnown, ReadNotLost
  <2> QED BY <2>3, <2>4 DEF ReadInv
<1> QED BY <1>3, <1>4, PartialWhat

\* The length that is known is the one of the next packet.
LEMMA DueLemma ==
  ASSUME RecvType, RecvInv
  PROVE  /\ Len(given) < N => Due \in Nat \ {0}
         /\ packet_size # 0 => packet_size = Due /\ Len(given) < N
<1>1. Len(given) < N => Len(given) + 1 \in 1 .. N
  BY RecvNumbers, LensLemma
<1> QED BY <1>1, LensLemma DEF Due, RecvInv

\* packet_recv on a buffer that holds the next packet.
LEMMA ReadBuffered ==
  ASSUME RecvType, RecvInv, ReadInv, RecvBuffered, initial_read' = initial_read
  PROVE  ReadInv'
<1>1. /\ CanRecv /\ NextPartial(Offset, num_read, packet_size)
      /\ UNCHANGED <<recv_disable, fd_read, destructor_called, sock>>
  BY DEF RecvBuffered
<1>2. num_read \in Nat /\ num_read <= num_read + avail
  BY RecvNumbers
<1>3. initial_read # 0 /\ Len(given) < N => num_read <= Due
  BY DEF ReadInv, NoSurplus
<1> QED BY <1>1, <1>2, <1>3, ReadPartial

\* packet_recv that reads: with an initial read never beyond the next packet.
LEMMA ReadMore ==
  ASSUME ShortInitialRead, RecvType, RecvInv, CtlType, ReadInv, NEW n \in 1 .. avail,
         RecvRead(n), initial_read' = initial_read
  PROVE  ReadInv'
<1>1. /\ CanRecv /\ NextPartial(Offset, num_read + n, packet_size) /\ n <= Wanted
      /\ UNCHANGED <<recv_disable, fd_read, destructor_called, sock>>
  BY DEF RecvRead
<1>2. /\ num_read \in Nat /\ avail \in Nat /\ n \in Nat /\ packet_size \in Nat
      /\ num_read + n \in Nat /\ num_read + n <= num_read + avail
  BY RecvNumbers
<1>3. initial_read \in Nat
  BY LensAssumption DEF CtlType
<1>4. ASSUME initial_read # 0, Len(given) < N PROVE num_read + n <= Due
  <2>1. Len(given) + 1 \in DOMAIN InLens
    BY <1>4, RecvNumbers, LensLemma
  <2>2. initial_read <= Due /\ Due \in Nat
    BY <1>4, <2>1, DueLemma DEF ShortInitialRead, CtlType, Due
  <2>3. CASE packet_size # 0
    <3>1. Wanted = packet_size - num_read /\ packet_size = Due
      BY <2>3, DueLemma DEF Wanted
    <3> QED BY <1>1, <1>2, <2>2, <3>1
  <2>4. CASE packet_size = 0
    <3>1. Wanted = initial_read - num_read
      BY <1>4, <2>4 DEF Wanted
    <3> QED BY <1>1, <1>2, <1>3, <2>2, <3>1
  <2> QED BY <2>3, <2>4
<1> QED BY <1>1, <1>2, <1>4, ReadPartial

\* An immediate event that finds no whole packet was not the one that it needs.
LEMMA ReadNextEvent ==
  ASSUME RecvType, RecvInv, CtlType, ReadInv, NextEvent
  PROVE  ReadInv'
<1>1. initial_read' = initial_read
  BY DEF NextEvent
<1>2. CASE RecvRefused
  BY <1>1, <1>2, ReadRefused
<1>3. CASE RecvBuffered
  BY <1>1, <1>3, ReadBuffered
<1>4. CASE ~(packet_size # 0 /\ packet_size <= num_read)
  <2>1. /\ UNCHANGED <<recv_disable, fd_read, destructor_called, sock, processing>>
        /\ UNCHANGED <<num_read, packet_size, given>>
    BY <1>4 DEF NextEvent, recvVars
  <2>2. /\ Due' = Due /\ (Whole' <=> Whole) /\ (Running' <=> Running) /\ (Busy' <=> Busy)
    BY <2>1 DEF Due, Whole, Running, Busy, N
  <2>3. ~(Running /\ ~Busy /\ Whole)
    <3>1. ASSUME Running, ~Busy, Whole PROVE FALSE
      <4>1. packet_size = Due /\ Len(given) < N /\ Due <= num_read
        BY <3>1 DEF ReadInv, SizeKnown, Whole
      <4>2. Due # 0
        BY <4>1, DueLemma
      <4> QED BY <1>4, <4>1, <4>2
    <3> QED BY <3>1
  <2>4. NoSurplus'
    BY <1>1, <2>1, <2>2 DEF ReadInv, NoSurplus, N
  <2>5. SizeKnown'
    BY <2>2, <2>3 DEF SizeKnown
  <2>6. ReadNotLost'
    BY <2>1, <2>2, <2>3 DEF ReadInv, ReadNotLost
  <2> QED BY <2>4, <2>5, <2>6 DEF ReadInv
<1> QED BY <1>2, <1>3, <1>4 DEF NextEvent

\* The callback returns: the socket is watched again, and a whole packet that is left in
\* the buffer gets its immediate event.
LEMMA ReadReturn ==
  ASSUME RecvType, RecvInv, CtlType, ReadInv, CallbackReturn
  PROVE  ReadInv'
<1>1. initial_read' = initial_read /\ Busy
  BY DEF CallbackReturn
<1>2. CASE destructor_called
  <2>1. sock' = "freed" /\ UNCHANGED <<recvVars, recv_disable>>
    BY <1>2 DEF CallbackReturn
  <2>2. ~Running'
    BY <2>1 DEF Running
  <2> QED BY <1>1, <2>1, <2>2, ReadStopped
<1>3. CASE ~destructor_called
  <2>1. /\ fd_read' = Rewatched /\ processing' = 0
        /\ UNCHANGED <<recv_disable, destructor_called, sock, num_read, given>>
    BY <1>3 DEF CallbackReturn, recvVars
  <2>2. Due' = Due /\ (Whole' <=> Whole) /\ (Running' <=> Running) /\ ~Busy'
    BY <2>1 DEF Due, Whole, Running, Busy, N
  <2>3. Running /\ ~recv_disable => fd_read'
    BY <1>1, <2>1 DEF ReadInv, ReadNotLost, Rewatched, Running
  <2>4. ASSUME Whole PROVE packet_size' = Due /\ next_events' > 0
    <3>1. num_read \in Nat /\ num_read <= num_read + avail /\ next_events \in Nat
      BY RecvNumbers DEF CtlType
    <3>2. Len(given) < N /\ Due <= num_read /\ num_read # 0
      BY <2>4, <3>1, DueLemma DEF Whole
    <3>3. /\ FullRequest(Offset, num_read, 0).full
          /\ FullRequest(Offset, num_read, 0).size = Due
      BY <3>1, <3>2, FullWhole
    <3>4. /\ packet_size' = FullRequest(Offset, num_read, 0).size
          /\ next_events' = next_events + Schedule(Offset, num_read)
      BY <1>3, <3>2 DEF CallbackReturn
    <3>5. Schedule(Offset, num_read) = 1
      BY <3>3 DEF Schedule
    <3>6. next_events + 1 > 0
      BY <3>1
    <3> QED BY <3>3, <3>4, <3>5, <3>6
  <2>5. NoSurplus'
    BY <1>1, <2>1, <2>2 DEF ReadInv, NoSurplus, N
  <2>6. SizeKnown'
    BY <2>2, <2>4 DEF SizeKnown
  <2>7. ReadNotLost'
    BY <2>1, <2>2, <2>3, <2>4 DEF ReadNotLost
  <2> QED BY <2>5, <2>6, <2>7 DEF ReadInv
<1> QED BY <1>2, <1>3

\* packet_recv_disable and packet_recv_enable.
LEMMA ReadSwitch ==
  ASSUME RecvType, RecvInv, CtlType, ReadInv, NoneStopsOnSurplus, Disable \/ Enable
  PROVE  ReadInv'
<1>1. /\ UNCHANGED <<num_read, packet_size, given, processing, destructor_called, sock>>
      /\ initial_read' = initial_read
  BY DEF Disable, Enable, recvVars
<1>2. Due' = Due /\ (Whole' <=> Whole) /\ (Running' <=> Running) /\ (Busy' <=> Busy)
  BY <1>1 DEF Due, Whole, Running, Busy, N
<1>3. SizeKnown'
  BY <1>1, <1>2 DEF ReadInv, SizeKnown
<1>4. CASE Disable
  <2>1. recv_disable'
    BY <1>4 DEF Disable
  <2>2. NoSurplus'
    BY <1>1, <1>2, <2>1 DEF ReadInv, NoSurplus, N
  <2>3. ReadNotLost'
    BY <2>1 DEF ReadNotLost
  <2> QED BY <1>3, <2>2, <2>3 DEF ReadInv
<1>5. CASE Enable
  <2>1. recv_disable /\ ~recv_disable' /\ (Running' => fd_read')
    BY <1>5 DEF Enable, Running
  <2>2. initial_read = 0 /\ packet_size # 0 => ~(num_read > packet_size)
    BY <2>1 DEF NoneStopsOnSurplus, Surplus
  <2>3. NoSurplus'
    BY <1>1, <1>2, <2>1 DEF ReadInv, NoSurplus, N
  <2>4. ASSUME Running, ~Busy, Whole PROVE packet_size = Due /\ next_events' > 0
    <3>1. packet_size = Due /\ Len(given) < N /\ Due <= num_read
      BY <2>4 DEF ReadInv, SizeKnown, Whole
    <3>2. Due \in Nat \ {0} /\ num_read \in Nat /\ next_events \in Nat
      BY <3>1, DueLemma, RecvNumbers DEF CtlType
    <3>30. num_read <= Due
      <4>1. CASE initial_read # 0
        BY <3>1, <4>1 DEF ReadInv, NoSurplus
      <4>2. CASE initial_read = 0
        <5>1. ~(num_read > Due)
          BY <2>2, <3>1, <3>2, <4>2
        <5> QED BY <3>2, <5>1
      <4> QED BY <4>1, <4>2
    <3>3. num_read # 0 /\ packet_size >= num_read
      BY <3>1, <3>2, <3>30
    <3>4. next_events' = next_events + 1
      BY <1>5, <3>3 DEF Enable
    <3>5. next_events + 1 > 0
      BY <3>2
    <3> QED BY <3>1, <3>4, <3>5
  <2>5. ReadNotLost'
    BY <1>1, <1>2, <2>1, <2>4 DEF ReadNotLost
  <2> QED BY <1>3, <2>3, <2>5 DEF ReadInv
<1> QED BY <1>4, <1>5

\* Every step keeps ReadInv.
LEMMA ReadNext ==
  ASSUME ShortInitialRead, IndInv, ReadInv, NoneStopsOnSurplus, [Next]_vars
  PROVE  ReadInv'
<1>1. RecvType /\ CtlType /\ RecvInv
  BY TypeParts DEF IndInv
<1>2. CASE Readable
  <2>1. initial_read' = initial_read
    BY <1>2 DEF Readable
  <2> QED BY <1>1, <1>2, <2>1, ReadRefused, ReadBuffered, ReadMore DEF Readable
<1>3. CASE NextEvent
  BY <1>1, <1>3, ReadNextEvent
<1>4. CASE CallbackReturn
  BY <1>1, <1>4, ReadReturn
<1>5. CASE Disable \/ Enable
  BY <1>1, <1>5, ReadSwitch
<1>6. CASE RecvError \/ WriteError \/ CallbackFails
  <2>1. UNCHANGED <<recvVars, recv_disable, initial_read>> /\ sock' = "error"
    BY <1>6 DEF RecvError, WriteError, CallbackFails, PacketError
  <2>2. ~Running'
    BY <2>1 DEF Running
  <2> QED BY <2>1, <2>2, ReadStopped
<1>7. CASE Free
  <2>1. UNCHANGED <<recvVars, recv_disable, initial_read>>
    BY <1>7 DEF Free
  <2>2. ~Running'
    BY <1>7 DEF Free, FreeContext, Running
  <2> QED BY <2>1, <2>2, ReadStopped
<1>8. CASE Arrive \/ Send \/ QueueRun \/ UNCHANGED vars
  <2>1. /\ UNCHANGED <<recvVars, recv_disable, initial_read, processing>>
        /\ fd_read' = fd_read /\ next_events' = next_events
    BY <1>8 DEF Arrive, Send, QueueRun, vars, ctlVars
  <2>2. Running' => Running
    BY RunningStep
  <2> QED BY <2>1, <2>2, ReadSame
<1> QED BY <1>2, <1>3, <1>4, <1>5, <1>6, <1>7, <1>8 DEF Next

\* As long as the connection runs and receiving is on, packet_recv has not lost its
\* wakeup: the socket is watched or will be when the callback returns, and a whole
\* packet in the buffer has its immediate event, also after packet_recv_enable,
\* whose test of the buffer is the reverse of the one of packet_next_event: an
\* initial read that takes in several short packets would make that test wrong,
\* and so would a user without one that disables receiving on a surplus.
THEOREM ReadNotLostSafe ==
  ASSUME ShortInitialRead
  PROVE  Spec /\ []NoneStopsOnSurplus => []ReadNotLost
<1>1. Init => ReadInv
  <2> SUFFICES ASSUME Init PROVE ReadInv
    OBVIOUS
  <2>0. num_read = 0 /\ processing = 0 /\ recv_disable = (initial_read # 0)
    BY DEF Init
  <2>1. num_read = 0 /\ ~Busy /\ (recv_disable <=> initial_read # 0)
    <3>1. ~Busy
      BY <2>0 DEF Busy
    <3> QED BY <2>0, <3>1, Zenon
  <2>2. RecvType /\ RecvInv
    BY InitInv, TypeParts DEF IndInv
  <2>3. ~Whole /\ (Len(given) < N => num_read <= Due)
    BY <2>1, <2>2, DueLemma DEF Whole
  <2>4. ~recv_disable => fd_read
    BY DEF Init
  <2> QED BY <2>1, <2>3, <2>4 DEF ReadInv, NoSurplus, SizeKnown, ReadNotLost
<1>2. ReadInv => ReadNotLost
  BY DEF ReadInv
<1>3. IndInv /\ ReadInv /\ NoneStopsOnSurplus /\ [Next]_vars => ReadInv'
  BY ReadNext
<1> QED BY <1>1, <1>2, <1>3, Invariance, PTL DEF Spec
=============================================================================
