----------------------------- MODULE SackProofs ------------------------------
(***************************************************************************)
(* Theorems about SackFlow for every number of packets, window, threshold,  *)
(* number of SACK blocks and number of losses: what the scoreboard and the  *)
(* blocks under way say is true, and the sink forgets an island of packets  *)
(* only when its stack is full.                                             *)
(*                                                                          *)
(* The sink and the sender are taken apart: SinkOK holds of the one between *)
(* events, SenderOK of the other.  What each needs of the other is Network, *)
(* which speaks of the acknowledgements between them.                       *)
(***************************************************************************)
EXTENDS SackFlow, DataTheorems, SequenceTheorems

Packet == 0 .. N - 1

LEMMA Bounds ==
  /\ N \in Nat /\ N >= 2 /\ W \in Nat \ {0} /\ Thresh \in Nat /\ Thresh >= 2
  /\ NBlocks \in Nat \ {0} /\ MaxDrops \in Nat /\ MaxEarly \in Nat
  BY SackFlowAssumption DEF SackFlowAssumption

-----------------------------------------------------------------------------
(* The sink *)

\* A block of packets: l is the first and r the one after the last
Edges == [l : 0 .. N, r : 0 .. N]

SinkTypes ==
  /\ next \in 0 .. N /\ seen \subseteq next + 1 .. N - 1 /\ delayed \in -1 .. N - 1
  /\ blocks \in Seq(Edges) /\ Len(blocks) <= NBlocks

\* Only a packet that leaves no gap waits for the delay timer
DelayCalm == delayed # -1 => seen = {} /\ delayed < next

SinkOK == SinkTypes /\ SackIslands /\ DelayCalm

\* i is the island of seq among the packets g
IslandOf(g, seq, i) ==
  /\ i \in Edges /\ i.l <= seq /\ seq < i.r /\ Packets(i) \subseteq g
  /\ i.l - 1 \notin g /\ i.r \notin g

\* n is the first packet missing from g
FirstMissing(g, n) == n \in 0 .. N /\ 0 .. n - 1 \subseteq g /\ n \notin g

LEMMA NextOfIs ==
  ASSUME NEW g \in SUBSET Packet
  PROVE  FirstMissing(g, NextOf(g))
<1> DEFINE T == {m \in 0 .. N : m \notin g}
<1>1. N \in Nat /\ N \in T /\ T \in SUBSET Nat
  BY Bounds DEF Packet
<1>2. PICK n \in T : \A m \in T : n <= m
  <2> HIDE DEF T
  <2> QED BY <1>1, LeastElement
<1>3. n \in 0 .. N /\ n \notin g
  BY <1>2
<1>4. ASSUME NEW m \in 0 .. n - 1 PROVE m \in g
  <2>1. m \in 0 .. N /\ ~(n <= m)
    BY <1>1, <1>3
  <2> QED BY <2>1, <1>2
<1>5. \E k \in 0 .. N : 0 .. k - 1 \subseteq g /\ k \notin g
  BY <1>3, <1>4
<1> QED BY <1>5 DEF NextOf, FirstMissing

LEMMA FirstMissingIsLeast ==
  ASSUME NEW g \in SUBSET Packet, NEW n, FirstMissing(g, n), NEW m \in Nat, m \notin g
  PROVE  n <= m
  BY DEF FirstMissing

LEMMA IslandIs ==
  ASSUME NEW g \in SUBSET Packet, NEW seq \in g
  PROVE  IslandOf(g, seq, Island(g, seq))
<1>1. N \in Nat /\ seq \in Packet /\ -1 \notin g /\ N \notin g
  BY Bounds DEF Packet
<1>2. \E l \in 0 .. seq : l .. seq \subseteq g /\ l - 1 \notin g
  <2> DEFINE T == {l \in 0 .. seq : l .. seq \subseteq g}
  <2>1. seq \in T /\ T \in SUBSET Nat
    BY <1>1 DEF Packet
  <2>2. PICK l \in T : \A m \in T : l <= m
    <3> HIDE DEF T
    <3> QED BY <2>1, LeastElement
  <2>3. l \in 0 .. seq /\ l .. seq \subseteq g
    BY <2>2
  <2>4. ASSUME l - 1 \in g PROVE FALSE
    <3>1. l - 1 \in 0 .. seq /\ l - 1 .. seq \subseteq g
      BY <1>1, <2>3, <2>4 DEF Packet
    <3>2. l - 1 \in T
      BY <3>1
    <3>3. l <= l - 1
      <4> HIDE DEF T
      <4> QED BY <2>2, <3>2
    <3> QED BY <3>3, <2>3
  <2> QED BY <2>3, <2>4
<1>3. \E r \in seq + 1 .. N : seq .. r - 1 \subseteq g /\ r \notin g
  <2> DEFINE T == {r \in seq + 1 .. N : r \notin g}
  <2>1. N \in T /\ T \in SUBSET Nat
    BY <1>1 DEF Packet
  <2>2. PICK r \in T : \A m \in T : r <= m
    <3> HIDE DEF T
    <3> QED BY <2>1, LeastElement
  <2>3. r \in seq + 1 .. N /\ r \notin g
    BY <2>2
  <2>4. ASSUME NEW m \in seq .. r - 1 PROVE m \in g
    <3>1. m = seq \/ m \in seq + 1 .. N
      BY <1>1, <2>3 DEF Packet
    <3>2. m \notin T
      <4>1. ~(r <= m)
        BY <1>1, <2>3 DEF Packet
      <4> HIDE DEF T
      <4> QED BY <2>2, <4>1
    <3> QED BY <3>1, <3>2
  <2> QED BY <2>3, <2>4
<1>4. PICK i : i = Island(g, seq)
  OBVIOUS
<1>5. i.l \in 0 .. seq /\ i.l .. seq \subseteq g /\ i.l - 1 \notin g
  BY <1>2, <1>4 DEF Island
<1>6. i.r \in seq + 1 .. N /\ seq .. i.r - 1 \subseteq g /\ i.r \notin g
  BY <1>3, <1>4 DEF Island
<1>7. i = [l |-> i.l, r |-> i.r]
  BY <1>4 DEF Island
<1>8. i \in Edges
  BY <1>1, <1>5, <1>6, <1>7 DEF Edges, Packet
<1>9. Packets(i) \subseteq g
  BY <1>1, <1>5, <1>6 DEF Packets, Packet
<1> QED BY <1>1, <1>4, <1>5, <1>6, <1>8, <1>9 DEF IslandOf, Packet

\* b is a whole island of g above n
Whole(b, g, n) ==
  /\ b.l < b.r /\ Packets(b) \subseteq {x \in g : x > n}
  /\ b.l - 1 \notin g /\ b.r \notin g

\* What append_ack makes of the stack when the sink has the packets g
Rebuilt(B, g, n, seq) ==
  /\ B \in Seq(Edges) /\ Len(B) <= NBlocks
  /\ \A k \in 1..Len(B) : Whole(B[k], g, n)
  /\ Distinct(B)
  /\ seq > n => \E k \in 1..Len(B) : seq \in Packets(B[k])
  /\ Len(B) < NBlocks =>
       \A k \in 1..Len(blocks) : \A x \in Packets(blocks[k]) :
         x > n => \E j \in 1..Len(B) : x \in Packets(B[j])

CoveredBy(i, n, seq) == {b \in ToSet(blocks) : b.r <= i.r /\ (seq < n \/ i.l <= b.l)}

\* The blocks append_ack reports before it counts them
StackKept(i, n, seq) ==
  (IF seq >= n THEN <<i>> ELSE <<>>) \o Without(blocks, CoveredBy(i, n, seq))

LEMMA BlocksUnfolds ==
  ASSUME NEW g, NEW n, NEW seq
  PROVE  LET all == StackKept(Island(g, seq), n, seq)
         IN  Blocks(g, n, seq) =
               IF \A x \in g : x < n THEN <<>>
               ELSE SubSeq(all, 1, MinOf(NBlocks, Len(all)))
  BY DEF Blocks, StackKept, CoveredBy

LEMMA BlockFields ==
  ASSUME NEW b \in Edges
  PROVE  b.l \in 0 .. N /\ b.r \in 0 .. N /\ b.l \in Int /\ b.r \in Int
  BY Bounds DEF Edges

\* A block that the new island does not cover is still a whole island
LEMMA StillWhole ==
  ASSUME SinkTypes, NEW seq \in Packet, NEW g, g = Have \cup {seq},
         NEW n, FirstMissing(g, n), NEW i, IslandOf(g, seq, i),
         NEW b \in Edges, b.l < b.r, Packets(b) \subseteq seen,
         b.l - 1 \notin Have, b.r \notin Have,
         ~(b.r <= i.r /\ (seq < n \/ i.l <= b.l))
  PROVE  Whole(b, g, n)
<1>1. /\ N \in Nat /\ next \in 0 .. N /\ seen \subseteq next + 1 .. N - 1 /\ seq \in 0 .. N - 1
      /\ n \in 0 .. N /\ b.l \in 0 .. N /\ b.r \in 0 .. N /\ i.l \in 0 .. N /\ i.r \in 0 .. N
  BY Bounds, BlockFields DEF SinkTypes, Packet, FirstMissing, IslandOf
<1>2. b.l \in Packets(b) /\ b.l \in seen /\ next < b.l
  BY <1>1 DEF Packets
<1>3. \A x : x \in g <=> x \in 0 .. next - 1 \/ x \in seen \/ x = seq
  BY DEF Have
<1>4. b.l - 1 \in Nat /\ b.r \in Nat
  BY <1>1, <1>2
<1>5. ASSUME seq = b.r PROVE FALSE
  <2>1. b.l - 1 \notin g
    BY <1>1, <1>5 DEF Have
  <2>2. n <= b.l - 1
    BY <2>1, <1>1, <1>2, <1>4 DEF FirstMissing
  <2>3. i.l <= b.l
    <3> SUFFICES ASSUME b.l < i.l PROVE FALSE
      BY <1>1
    <3>1. i.l - 1 \in Packets(b) \/ i.l - 1 = seq
      BY <1>1, <1>5 DEF IslandOf, Packets
    <3> QED BY <3>1, <1>3 DEF IslandOf
  <2>4. b.r <= i.r
    BY <1>1, <1>5 DEF IslandOf
  <2> QED BY <2>3, <2>4
<1>6. ASSUME seq = b.l - 1 PROVE FALSE
  <2>1. b.r <= i.r
    <3> SUFFICES ASSUME i.r < b.r PROVE FALSE
      BY <1>1
    <3>1. i.r \in Packets(b)
      BY <1>1, <1>6 DEF IslandOf, Packets
    <3> QED BY <3>1, <1>3 DEF IslandOf
  <2>2. i.l <= b.l
    BY <1>1, <1>6 DEF IslandOf
  <2> QED BY <2>1, <2>2
<1>7. b.l - 1 \notin g /\ b.r \notin g
  BY <1>5, <1>6
<1>8. n <= b.l - 1
  BY <1>7, <1>1, <1>4 DEF FirstMissing
<1>9. ASSUME NEW x \in Packets(b) PROVE x \in g /\ x > n
  BY <1>1, <1>3, <1>8 DEF Packets
<1> QED BY <1>7, <1>9 DEF Whole

\* A block that the new island covers lies in it or below n
LEMMA CoveredInside ==
  ASSUME NEW n, NEW g \in SUBSET Packet, FirstMissing(g, n), NEW seq \in g,
         NEW i, IslandOf(g, seq, i), NEW b \in Edges, NEW x \in Packets(b), x > n,
         b.r <= i.r, seq < n \/ i.l <= b.l
  PROVE  seq > n /\ x \in Packets(i)
<1>1. /\ N \in Nat /\ seq \in 0 .. N - 1 /\ n \in 0 .. N /\ n \notin g
      /\ b.l \in 0 .. N /\ b.r \in 0 .. N /\ i.l \in 0 .. N /\ i.r \in 0 .. N
  BY Bounds, BlockFields DEF Packet, FirstMissing, IslandOf
<1>2. seq # n
  BY <1>1
<1>3. CASE seq < n
  <2>1. n \in Packets(i)
    BY <1>1, <1>3 DEF IslandOf, Packets
  <2> QED BY <1>1, <2>1 DEF IslandOf
<1>4. CASE seq > n
  BY <1>1, <1>4 DEF Packets
<1> QED BY <1>1, <1>2, <1>3, <1>4

\* The blocks kept, before they are counted
StackOf(g, n, seq, i, all) ==
  /\ all \in Seq(Edges) /\ Distinct(all)
  /\ \A k \in 1..Len(all) : (all[k] = i /\ seq >= n) \/
        (all[k] \in ToSet(blocks) /\ all[k] \notin CoveredBy(i, n, seq))
  /\ seq >= n => Len(all) >= 1 /\ all[1] = i
  /\ \A b \in ToSet(blocks) : b \in CoveredBy(i, n, seq) \/ \E k \in 1..Len(all) : all[k] = b

LEMMA StackIs ==
  ASSUME SinkTypes, SackIslands, NEW g \in SUBSET Packet, NEW seq \in g,
         NEW n, FirstMissing(g, n), NEW i, IslandOf(g, seq, i)
  PROVE  StackOf(g, n, seq, i, StackKept(i, n, seq))
<1>1. PICK gone : gone = CoveredBy(i, n, seq)
  OBVIOUS
<1>2. PICK old : old = Without(blocks, gone)
  OBVIOUS
<1>3. blocks \in Seq(Edges) /\ i \in Edges
  BY DEF SinkTypes, IslandOf
<1>4. old \in Seq(Edges) /\ ToSet(old) = ToSet(blocks) \ gone
  BY <1>2, <1>3, WithoutIs DEF Sifted
<1>5. Distinct(old)
  <2>1. Distinct(blocks)
    BY <1>3 DEF SackIslands, IsInjective, Distinct
  <2>2. Listing(blocks, blocks)
    BY <2>1 DEF Listing
  <2> QED BY <1>2, <1>3, <2>2, SiftedListing DEF Listing
<1>6. \A x : x \in ToSet(old) <=> \E k \in 1..Len(old) : old[k] = x
  BY <1>4, ToSetIs
<1>7. PICK all : all = StackKept(i, n, seq)
  OBVIOUS
<1>8. CASE seq >= n
  <2>1. all = <<i>> \o old
    BY <1>1, <1>2, <1>7, <1>8 DEF StackKept
  <2>2. <<i>> \in Seq(Edges) /\ Len(<<i>>) = 1 /\ <<i>>[1] = i
    BY <1>3
  <2>3. /\ all \in Seq(Edges) /\ Len(all) = Len(old) + 1 /\ all[1] = i
        /\ Len(old) \in Nat
        /\ \A k \in 1..Len(old) : all[k + 1] = old[k]
    BY <2>1, <2>2, <1>4
  <2>4. i \notin ToSet(old)
    <3>1. i \in ToSet(blocks) => i \in gone
      BY <1>1, <1>3, BlockFields DEF CoveredBy
    <3> QED BY <3>1, <1>4
  <2>5. \A k \in 2..Len(all) : k - 1 \in 1..Len(old) /\ all[k] = old[k - 1]
    <3> SUFFICES ASSUME NEW k \in 2..Len(all)
                 PROVE  k - 1 \in 1..Len(old) /\ all[k] = old[k - 1]
      OBVIOUS
    <3>1. k - 1 \in 1..Len(old) /\ (k - 1) + 1 = k
      BY <2>3
    <3> QED BY <3>1, <2>3
  <2>6. Distinct(all)
    <3> SUFFICES ASSUME NEW j \in 1..Len(all), NEW k \in 1..Len(all), all[j] = all[k]
                 PROVE  j = k
      BY DEF Distinct
    <3>1. CASE j = 1 /\ k # 1
      <4>1. k \in 2..Len(all)
        BY <3>1, <2>3
      <4>2. i = old[k - 1] /\ k - 1 \in 1..Len(old)
        BY <3>1, <4>1, <2>3, <2>5
      <4> QED BY <4>2, <2>4, <1>6
    <3>2. CASE k = 1 /\ j # 1
      <4>1. j \in 2..Len(all)
        BY <3>2, <2>3
      <4>2. i = old[j - 1] /\ j - 1 \in 1..Len(old)
        BY <3>2, <4>1, <2>3, <2>5
      <4> QED BY <4>2, <2>4, <1>6
    <3>3. CASE j # 1 /\ k # 1
      <4>1. j \in 2..Len(all) /\ k \in 2..Len(all)
        BY <3>3, <2>3
      <4>2. j - 1 = k - 1
        BY <4>1, <2>5, <1>5 DEF Distinct
      <4> QED BY <4>1, <4>2
    <3> QED BY <3>1, <3>2, <3>3
  <2>7. ASSUME NEW k \in 1..Len(all), k # 1 PROVE all[k] \in ToSet(old)
    <3>1. k \in 2..Len(all)
      BY <2>7, <2>3
    <3> QED BY <3>1, <2>5, <1>6
  <2>8. ASSUME NEW b \in ToSet(old) PROVE \E k \in 1..Len(all) : all[k] = b
    <3>1. PICK k \in 1..Len(old) : old[k] = b
      BY <1>6, <2>8
    <3>2. k + 1 \in 1..Len(all)
      BY <2>3
    <3> QED BY <3>1, <3>2, <2>3
  <2>9. \A k \in 1..Len(all) : (all[k] = i /\ seq >= n) \/
          (all[k] \in ToSet(blocks) /\ all[k] \notin CoveredBy(i, n, seq))
    BY <1>1, <1>4, <1>8, <2>3, <2>7
  <2>10. \A b \in ToSet(blocks) : b \in CoveredBy(i, n, seq) \/ \E k \in 1..Len(all) : all[k] = b
    BY <1>1, <1>4, <2>8
  <2>11. Len(all) >= 1
    BY <2>3
  <2> QED BY <1>7, <2>3, <2>6, <2>9, <2>10, <2>11 DEF StackOf
<1>9. CASE ~(seq >= n)
  <2>1. all = old
    BY <1>1, <1>2, <1>4, <1>7, <1>9 DEF StackKept
  <2> QED BY <1>1, <1>4, <1>5, <1>6, <1>7, <1>9, <2>1 DEF StackOf
<1> QED BY <1>8, <1>9

\* append_ack keeps whole islands, reports the packet just received, and forgets
\* an island only when the stack is full
LEMMA StackRebuilt ==
  ASSUME SinkTypes, SackIslands, NEW seq \in Packet, NEW g, g = Have \cup {seq},
         NEW n, FirstMissing(g, n)
  PROVE  Rebuilt(Blocks(g, n, seq), g, n, seq)
<1>1. /\ N \in Nat /\ NBlocks \in Nat \ {0} /\ next \in 0 .. N
      /\ seen \subseteq next + 1 .. N - 1 /\ n \in 0 .. N /\ seq \in 0 .. N - 1
  BY Bounds DEF SinkTypes, FirstMissing, Packet
<1>2. g \in SUBSET Packet /\ seq \in g
  BY <1>1 DEF Have, Packet
<1>3. PICK i : i = Island(g, seq)
  OBVIOUS
<1>4. IslandOf(g, seq, i)
  BY <1>2, <1>3, IslandIs
<1>5. PICK all : all = StackKept(i, n, seq)
  OBVIOUS
<1>6. StackOf(g, n, seq, i, all)
  BY <1>2, <1>4, <1>5, StackIs
<1>7. PICK B : B = Blocks(g, n, seq)
  OBVIOUS
<1>8. B = IF \A x \in g : x < n THEN <<>> ELSE SubSeq(all, 1, MinOf(NBlocks, Len(all)))
  BY <1>3, <1>5, <1>7, BlocksUnfolds
<1>9. all \in Seq(Edges) /\ Len(all) \in Nat
  BY <1>6 DEF StackOf
<1>10. CASE \A x \in g : x < n
  <2>1. B = <<>> /\ Len(B) = 0 /\ B \in Seq(Edges)
    BY <1>8, <1>10
  <2>2. seq < n
    BY <1>2, <1>10
  <2>3. \A k \in 1..Len(blocks) : \A x \in Packets(blocks[k]) : x < n
    <3> SUFFICES ASSUME NEW k \in 1..Len(blocks), NEW x \in Packets(blocks[k]) PROVE x < n
      OBVIOUS
    <3>1. x \in seen
      BY DEF SackIslands, SinkTypes
    <3> QED BY <3>1, <1>10 DEF Have
  <2>4. \A k \in 1..Len(blocks) : \A x \in Packets(blocks[k]) : ~(x > n)
    <3> SUFFICES ASSUME NEW k \in 1..Len(blocks), NEW x \in Packets(blocks[k]) PROVE ~(x > n)
      OBVIOUS
    <3>1. x \in Int
      <4>1. blocks[k] \in Edges
        BY DEF SinkTypes
      <4> QED BY <4>1, BlockFields DEF Packets
    <3> QED BY <3>1, <2>3, <1>1
  <2>5. ~(seq > n) /\ Len(B) <= NBlocks /\ \A k \in 1..Len(B) : FALSE
    BY <1>1, <2>1, <2>2
  <2>6. Distinct(B)
    BY <2>5, Zenon DEF Distinct
  <2> QED BY <1>7, <2>1, <2>4, <2>5, <2>6, Zenon DEF Rebuilt
<1>11. CASE ~\A x \in g : x < n
  <2>1. PICK m : m = MinOf(NBlocks, Len(all))
    OBVIOUS
  <2>2. m \in 0..Len(all) /\ m <= NBlocks /\ (m < NBlocks => m = Len(all))
        /\ (Len(all) >= 1 => m >= 1)
    BY <1>1, <1>9, <2>1 DEF MinOf
  <2>3. B \in Seq(Edges) /\ Len(B) = m /\ \A k \in 1..m : B[k] = all[k]
    BY <1>8, <1>9, <1>11, <2>1, <2>2, PrefixOf
  <2>4. ASSUME NEW k \in 1..Len(B) PROVE Whole(B[k], g, n)
    <3>1. k \in 1..Len(all) /\ B[k] = all[k]
      BY <2>2, <2>3
    <3>2. CASE all[k] = i /\ seq >= n
      <4>1. seq > n
        BY <1>1, <1>2, <3>2 DEF FirstMissing
      <4>2. ASSUME NEW x \in Packets(i) PROVE x \in g /\ x > n
        <5>1. x \in g /\ x \in Int /\ i.l \in Int /\ i.r \in Int /\ i.l <= x /\ x < i.r
          BY <1>4, BlockFields DEF IslandOf, Packets
        <5>2. ~(x <= n)
          <6> SUFFICES ASSUME x <= n PROVE FALSE
            OBVIOUS
          <6>1. n \in Packets(i)
            BY <1>1, <1>4, <4>1, <5>1 DEF IslandOf, Packets
          <6> QED BY <6>1, <1>4 DEF IslandOf, FirstMissing
        <5> QED BY <5>1, <5>2, <1>1
      <4>3. i.l < i.r /\ i.l - 1 \notin g /\ i.r \notin g
        BY <1>1, <1>4, BlockFields DEF IslandOf
      <4> QED BY <3>1, <3>2, <4>2, <4>3 DEF Whole
    <3>3. CASE all[k] \in ToSet(blocks) /\ all[k] \notin CoveredBy(i, n, seq)
      <4>1. PICK j \in 1..Len(blocks) : blocks[j] = all[k]
        BY <3>3, ToSetIs DEF SinkTypes
      <4>2. /\ blocks[j] \in Edges /\ blocks[j].l < blocks[j].r
            /\ Packets(blocks[j]) \subseteq seen
            /\ blocks[j].l - 1 \notin Have /\ blocks[j].r \notin Have
        BY DEF SackIslands, SinkTypes
      <4>3. ~(blocks[j].r <= i.r /\ (seq < n \/ i.l <= blocks[j].l))
        BY <3>3, <4>1 DEF CoveredBy
      <4> QED BY <1>4, <3>1, <4>1, <4>2, <4>3, StillWhole
    <3> QED BY <1>6, <3>1, <3>2, <3>3 DEF StackOf
  <2>5. Distinct(B)
    BY <1>6, <2>2, <2>3 DEF Distinct, StackOf
  <2>6. ASSUME seq > n PROVE \E k \in 1..Len(B) : seq \in Packets(B[k])
    <3>1. 1 \in 1..Len(B) /\ B[1] = i
      BY <1>1, <1>6, <2>2, <2>3, <2>6 DEF StackOf
    <3>2. seq \in Packets(i)
      BY <1>1, <1>4, BlockFields DEF IslandOf, Packets
    <3> QED BY <3>1, <3>2
  <2>7. ASSUME Len(B) < NBlocks, NEW k \in 1..Len(blocks), NEW x \in Packets(blocks[k]), x > n
        PROVE  \E j \in 1..Len(B) : x \in Packets(B[j])
    <3>1. Len(B) = Len(all)
      BY <2>2, <2>3, <2>7
    <3>2. blocks[k] \in Edges /\ blocks[k] \in ToSet(blocks)
      BY ToSetIs DEF SinkTypes
    <3>3. CASE blocks[k] \in CoveredBy(i, n, seq)
      <4>1. blocks[k].r <= i.r /\ (seq < n \/ i.l <= blocks[k].l)
        BY <3>3 DEF CoveredBy
      <4>2. seq > n /\ x \in Packets(i)
        BY <1>2, <1>4, <2>7, <3>2, <4>1, CoveredInside
      <4>3. 1 \in 1..Len(B) /\ B[1] = i
        BY <1>1, <1>6, <2>2, <2>3, <4>2 DEF StackOf
      <4> QED BY <4>2, <4>3
    <3>4. CASE blocks[k] \notin CoveredBy(i, n, seq)
      <4>1. PICK j \in 1..Len(all) : all[j] = blocks[k]
        BY <1>6, <3>2, <3>4 DEF StackOf
      <4> QED BY <2>3, <2>7, <3>1, <4>1
    <3> QED BY <3>3, <3>4
  <2> QED BY <1>7, <2>2, <2>3, <2>4, <2>5, <2>6, <2>7 DEF Rebuilt
<1> QED BY <1>10, <1>11

-----------------------------------------------------------------------------
(* Steps of the sink *)

\* What SackKeeps says of a step
Keeps ==
  /\ seen' \ seen \subseteq Told'
  /\ Len(blocks') < NBlocks => Told \cap seen' \subseteq Told'

\* A step of the sink keeps what it has and may add one acknowledgement, of
\* everything it has
SinkStep ==
  /\ SinkOK' /\ Have \subseteq Have' /\ next <= next' /\ Keeps
  /\ acks' = acks \/ acks' = Append(acks, [ack |-> next' - 1, sack |-> blocks'])

LEMMA HaveParts ==
  ASSUME SinkTypes
  PROVE  /\ Have \in SUBSET Packet /\ FirstMissing(Have, next)
         /\ seen = {x \in Have : x > next} /\ next \in Nat
<1>1. N \in Nat /\ next \in 0 .. N /\ seen \subseteq next + 1 .. N - 1
  BY Bounds DEF SinkTypes
<1>2. \A x : x \in Have <=> x \in 0 .. next - 1 \/ x \in seen
  BY DEF Have
<1>3. \A x \in seen : x \in 0 .. N - 1 /\ x > next
  BY <1>1
<1>4. \A x \in 0 .. next - 1 : x \in 0 .. N - 1 /\ ~(x > next)
  BY <1>1
<1>5. Have \in SUBSET Packet
  BY <1>2, <1>3, <1>4 DEF Packet
<1>6. next \notin Have /\ next \in Nat
  BY <1>1, <1>2, <1>3
<1>7. seen = {x \in Have : x > next}
  BY <1>2, <1>3, <1>4
<1> QED BY <1>1, <1>2, <1>5, <1>6, <1>7 DEF FirstMissing

\* The acknowledgement for seq leaves the stack as it should
LEMMA AckSent ==
  ASSUME SinkOK, NEW seq \in Packet, SendAck(seq), Have' = Have \cup {seq},
         FirstMissing(Have', next'), seen' = {x \in Have' : x > next'}, next <= next',
         delayed' = -1
  PROVE  SinkStep
<1>1. PICK g : g = Have \cup {seq}
  OBVIOUS
<1>2. PICK n : n = next'
  OBVIOUS
<1>3. PICK B : B = Blocks(g, n, seq)
  OBVIOUS
<1>4. Rebuilt(B, g, n, seq)
  BY <1>1, <1>2, <1>3, StackRebuilt DEF SinkOK
<1>5. 0 .. next' - 1 \cup seen' = g
  BY <1>1 DEF Have
<1>6. blocks' = B /\ acks' = Append(acks, [ack |-> next' - 1, sack |-> blocks'])
  BY <1>2, <1>3, <1>5 DEF SendAck
<1>7. Have' = g /\ g \in SUBSET Packet /\ n \in 0 .. N /\ N \in Nat
  BY <1>1, <1>2, HaveParts, Bounds DEF SinkOK, FirstMissing
<1>8. SinkTypes'
  <2>1. seen' \subseteq next' + 1 .. N - 1
    <3> SUFFICES ASSUME NEW x \in seen' PROVE x \in n + 1 .. N - 1
      BY <1>2
    <3>1. x \in g /\ x > n
      BY <1>2, <1>7
    <3> QED BY <1>7, <3>1 DEF Packet
  <2>2. blocks' \in Seq(Edges) /\ Len(blocks') <= NBlocks
    BY <1>4, <1>6 DEF Rebuilt
  <2> QED BY <1>2, <1>7, <2>1, <2>2 DEF SinkTypes, Edges
<1>9. SackIslands'
  <2>1. \A k \in 1..Len(B) : Whole(B[k], g, n)
    BY <1>4 DEF Rebuilt
  <2>2. IsInjective(blocks')
    BY <1>4, <1>6 DEF Rebuilt, Distinct, IsInjective
  <2>3. ASSUME NEW k \in DOMAIN blocks'
        PROVE  /\ blocks'[k].l < blocks'[k].r /\ Packets(blocks'[k]) \subseteq seen'
               /\ {blocks'[k].l - 1, blocks'[k].r} \cap Have' = {}
    <3>1. k \in 1..Len(B) /\ blocks'[k] = B[k]
      BY <1>4, <1>6 DEF Rebuilt
    <3>2. Whole(B[k], g, n)
      BY <2>1, <3>1
    <3> QED BY <1>2, <1>7, <3>1, <3>2 DEF Whole
  <2> QED BY <2>2, <2>3 DEF SackIslands, Packets
<1>10. DelayCalm'
  BY DEF DelayCalm
<1>11. Keeps
  <2>1. ASSUME NEW x \in seen' \ seen PROVE x \in Told'
    <3>1. x = seq /\ seq > n
      <4>1. x \in g /\ x > n /\ x \notin seen /\ x \in Nat
        BY <1>2, <1>7, <2>1 DEF Packet
      <4>2. next \in Nat /\ n \in Nat /\ next <= n /\ seen = {y \in Have : y > next}
        BY <1>2, <1>7, HaveParts DEF SinkOK
      <4> QED BY <1>1, <4>1, <4>2
    <3>2. PICK k \in 1..Len(B) : seq \in Packets(B[k])
      BY <1>4, <3>1 DEF Rebuilt
    <3>3. k \in DOMAIN blocks' /\ x \in Packets(blocks'[k])
      BY <1>4, <1>6, <3>1, <3>2 DEF Rebuilt
    <3> QED BY <3>3 DEF Told, Packets
  <2>2. ASSUME Len(blocks') < NBlocks, NEW x \in Told, x \in seen' PROVE x \in Told'
    <3>1. PICK k \in DOMAIN blocks : x \in Packets(blocks[k])
      BY <2>2 DEF Told
    <3>2. k \in 1..Len(blocks) /\ x > n
      BY <1>2, <2>2, <3>1 DEF SinkOK, SinkTypes
    <3>3. PICK j \in 1..Len(B) : x \in Packets(B[j])
      BY <1>4, <1>6, <2>2, <3>1, <3>2 DEF Rebuilt
    <3>4. j \in DOMAIN blocks' /\ x \in Packets(blocks'[j])
      BY <1>4, <1>6, <3>3 DEF Rebuilt
    <3> QED BY <3>4 DEF Told, Packets
  <2> QED BY <2>1, <2>2 DEF Keeps
<1> QED BY <1>1, <1>6, <1>7, <1>8, <1>9, <1>10, <1>11 DEF SinkStep, SinkOK

\* Without a gap nothing is remembered
LEMMA NothingTold ==
  ASSUME SinkTypes, SackIslands, seen = {}
  PROVE  blocks = <<>>
<1> SUFFICES ASSUME blocks # <<>> PROVE FALSE
  OBVIOUS
<1>1. 1 \in DOMAIN blocks /\ blocks[1] \in Edges
  BY DEF SinkTypes
<1>2. blocks[1].l < blocks[1].r /\ Packets(blocks[1]) \subseteq {}
  BY <1>1 DEF SackIslands
<1>3. blocks[1].l \in Packets(blocks[1])
  BY <1>1, <1>2, BlockFields DEF Packets
<1> QED BY <1>2, <1>3

LEMMA RecvDataStep ==
  ASSUME SinkOK, data \in Seq(Packet), RecvData
  PROVE  SinkStep /\ data' \in Seq(Packet)
<1>1. PICK seq : seq = Head(data)
  OBVIOUS
<1>2. seq \in Packet /\ data' \in Seq(Packet)
  BY <1>1 DEF RecvData
<1>3. PICK g : g = Have \cup {seq}
  OBVIOUS
<1>4. /\ next' = NextOf(g) /\ seen' = {x \in g : x > next'}
      /\ Delay(seq) \/ (SendAck(seq) /\ delayed' = -1)
  BY <1>1, <1>3 DEF RecvData
<1>5. g \in SUBSET Packet /\ FirstMissing(Have, next) /\ next \in Nat
  BY <1>2, <1>3, HaveParts DEF SinkOK
<1>6. FirstMissing(g, next')
  BY <1>4, <1>5, NextOfIs
<1>7. Have' = g
  <2>1. \A x \in g : x \in Nat
    BY <1>5 DEF Packet
  <2>2. \A x \in g : x \in 0 .. next' - 1 \/ x > next'
    BY <1>6, <2>1, Bounds DEF FirstMissing
  <2> QED BY <1>4, <1>6, <2>2 DEF Have, FirstMissing
<1>8. next <= next'
  <2>1. next' \in Nat /\ next' \notin g
    BY <1>6, Bounds DEF FirstMissing
  <2>2. next' \notin Have
    BY <1>3, <2>1
  <2> QED BY <1>5, <2>1, <2>2, FirstMissingIsLeast, HaveParts DEF SinkOK
<1>9. CASE SendAck(seq) /\ delayed' = -1
  BY <1>2, <1>3, <1>4, <1>6, <1>7, <1>8, <1>9, AckSent
<1>10. CASE Delay(seq)
  <2>1. /\ delayed = -1 /\ seq = next' - 1 /\ seen' = {} /\ delayed' = seq
        /\ blocks' = blocks /\ acks' = acks
    BY <1>10 DEF Delay
  <2>0. PICK n : n = next'
    OBVIOUS
  <2>2. N \in Nat /\ n \in 0 .. N /\ seq = n - 1 /\ seq \in Int
    BY <1>2, <1>6, <2>0, <2>1, Bounds DEF FirstMissing, Packet
  <2>3. seen = {}
    <3>1. \A x \in seen : x \in Have /\ x > next /\ x \in Nat
      BY HaveParts DEF SinkOK, Packet
    <3>2. g = 0 .. n - 1
      BY <1>7, <2>0, <2>1 DEF Have
    <3>3. ASSUME NEW x \in seen PROVE FALSE
      <4>1. x \in Have /\ x > next /\ x \in Nat /\ x \in 0 .. n - 1
        BY <1>3, <3>1, <3>2, <3>3
      <4>2. next \in 0 .. n - 1
        BY <1>5, <2>2, <4>1
      <4>3. next = seq
        BY <1>3, <1>5, <3>2, <4>2 DEF FirstMissing
      <4>4. x > n - 1 /\ x <= n - 1
        BY <2>2, <4>1, <4>3
      <4> QED BY <2>2, <4>1, <4>4
    <3> QED BY <3>3
  <2>4. blocks = <<>>
    BY <2>3, NothingTold DEF SinkOK
  <2>5. SinkTypes'
    <3>1. blocks' \in Seq(Edges) /\ Len(blocks') <= NBlocks
      BY <2>1, <2>4, Bounds
    <3>2. delayed' \in -1 .. N - 1
      BY <2>1, <2>2
    <3> QED BY <2>0, <2>1, <2>2, <3>1, <3>2 DEF SinkTypes
  <2>6. SackIslands'
    BY <2>1, <2>4 DEF SackIslands, IsInjective
  <2>7. DelayCalm'
    <3>1. seq < n
      BY <2>2
    <3> QED BY <2>0, <2>1, <3>1 DEF DelayCalm
  <2>8. Keeps
    <3>1. Told = {}
      BY <2>4 DEF Told
    <3> QED BY <2>1, <3>1 DEF Keeps
  <2> QED BY <1>2, <1>3, <1>7, <1>8, <2>1, <2>5, <2>6, <2>7, <2>8 DEF SinkStep, SinkOK
<1> QED BY <1>2, <1>4, <1>9, <1>10

LEMMA DelayTimerStep ==
  ASSUME SinkOK, DelayTimer
  PROVE  SinkStep
<1>1. /\ delayed # -1 /\ delayed' = -1 /\ next' = next /\ seen' = seen
      /\ SendAck(delayed)
  BY DEF DelayTimer
<1>2. seen = {} /\ delayed < next /\ delayed \in -1 .. N - 1 /\ next \in 0 .. N
  BY <1>1 DEF SinkOK, DelayCalm, SinkTypes
<1>3. delayed \in Packet /\ delayed \in Have
  BY <1>1, <1>2, Bounds DEF Packet, Have
<1>4. Have' = Have /\ Have' = Have \cup {delayed}
  BY <1>1, <1>3 DEF Have
<1>5. FirstMissing(Have', next') /\ seen' = {x \in Have' : x > next'}
  BY <1>1, <1>4, HaveParts DEF SinkOK
<1>6. next <= next'
  BY <1>1, <1>2, Bounds
<1> QED BY <1>1, <1>3, <1>4, <1>5, <1>6, AckSent

-----------------------------------------------------------------------------
(* The scoreboard *)

Boards == [fifo : Seq(Blk), lifo : Seq(Blk), nxt : Int]

\* A scoreboard with something on it
Scored(q) == Waiting(q, N) /\ ~HasFlag(q.fifo)

\* A scoreboard that was updated for the acknowledgement "high" or cleared before
Fits(q, high) ==
  /\ q \in Boards /\ q.nxt \in -1 .. high + 1
  /\ \/ q.fifo = <<>> /\ q.lifo = <<>>
     \/ q.nxt = high + 1 /\ Scored(q)

\* The same before the update, when the acknowledgement may have moved on
Behind(q, high) ==
  /\ q \in Boards /\ q.nxt \in -1 .. high + 1
  /\ (q.fifo = <<>> /\ q.lifo = <<>>) \/ Scored(q)

LEMMA EmptyBoard ==
  ASSUME NEW q \in Boards, q.fifo = <<>>, q.lifo = <<>>, q.nxt \in Nat
  PROVE  q \in Queues /\ Scored(q) /\ Good(q, N)
<1>1. q \in Queues
  BY DEF Boards, Queues
<1>2. \A k \in 1..Len(q.fifo) : FALSE
  BY EmptySeq
<1>3. Listing(q.lifo, q.fifo)
  <2>1. \A k \in 1..Len(q.lifo) : FALSE
    BY EmptySeq
  <2> QED BY <1>2, <2>1, Zenon DEF Listing, Distinct
<1>4. Apart(q.fifo, N)
  BY <1>2, Zenon DEF Apart
<1>5. Good(q, N)
  BY <1>1, <1>3, <1>4, Zenon DEF Good
<1>6. FlagsAtTop(q.fifo, N) /\ Ahead(q) /\ ~HasFlag(q.fifo)
  BY <1>2, Zenon DEF FlagsAtTop, Ahead, HasFlag
<1> QED BY <1>1, <1>5, <1>6, Zenon DEF Scored, Waiting

\* cleartonxt when rcv_nxt_ is in no block: the blocks below it go
LEMMA ClearGap ==
  ASSUME NEW top \in Nat, NEW u, Good(u, top), FlagsAtTop(u.fifo, top),
         ~Covers(u.fifo, u.nxt), ~HasFlag(u.fifo)
  PROVE  /\ Waiting(Clearto(u).queue, top) /\ Clearto(u).queue.nxt = u.nxt
         /\ ~HasFlag(Clearto(u).queue.fifo)
         /\ \A y : Covers(Clearto(u).queue.fifo, y) => Covers(u.fifo, y)
<1>1. u \in Queues
  BY DEF Good
<1>2. PICK gone : gone = {x \in ToSet(u.fifo) : x.e <= u.nxt}
  OBVIOUS
<1>3. PICK r : r = Drop(u, gone)
  OBVIOUS
<1>4. Good(r, top) /\ r.nxt = u.nxt /\ ToSet(r.fifo) = ToSet(u.fifo) \ gone
  BY <1>3, DropGood
<1>5. r \in Queues
  BY <1>4 DEF Good
<1>6. ASSUME NEW j \in 1..Len(r.fifo)
      PROVE  /\ \E k \in 1..Len(u.fifo) : u.fifo[k] = r.fifo[j]
             /\ r.nxt < r.fifo[j].s
  <2>1. r.fifo[j] \in ToSet(r.fifo)
    BY <1>5, QueueParts, ToSetIs
  <2>2. r.fifo[j] \in ToSet(u.fifo) /\ r.fifo[j] \notin gone
    BY <1>4, <2>1
  <2>3. PICK k \in 1..Len(u.fifo) : u.fifo[k] = r.fifo[j]
    BY <1>1, <2>2, QueueParts, ToSetIs
  <2>4. ~(u.fifo[k].e <= u.nxt)
    BY <1>2, <2>2, <2>3
  <2>5. u.fifo[k].s \in Nat /\ u.fifo[k].e \in Nat /\ u.nxt \in Nat
    BY <1>1, QueueParts
  <2>6. ~(u.fifo[k].s <= u.nxt /\ u.nxt < u.fifo[k].e)
    BY Zenon DEF Covers
  <2>7. u.nxt < u.fifo[k].s
    BY <2>4, <2>5, <2>6
  <2> QED BY <1>4, <2>3, <2>7
<1>7. ~(r.fifo # <<>> /\ r.fifo[1].s <= r.nxt)
  <2> SUFFICES ASSUME r.fifo # <<>> PROVE ~(r.fifo[1].s <= r.nxt)
    OBVIOUS
  <2>1. 1 \in 1..Len(r.fifo)
    <3>1. r.fifo \in Seq(Blk)
      BY <1>5, QueueParts
    <3> QED BY <3>1
  <2>2. r.nxt < r.fifo[1].s /\ r.nxt \in Nat /\ r.fifo[1].s \in Nat
    BY <1>5, <1>6, <2>1, QueueParts
  <2> QED BY <2>2
<1>8. ~(r.fifo # <<>> /\ r.fifo[1].s <= u.nxt)
  BY <1>4, <1>7
<1>9. Clearto(u) = Result(r, \E x \in gone : x.f)
  BY <1>2, <1>3, <1>8, Zenon DEF Clearto
<1>10. Clearto(u).queue = r
  BY <1>9 DEF Result
<1>11. \A y : Covers(r.fifo, y) => Covers(u.fifo, y)
  BY <1>6, Zenon DEF Covers
<1>12. ~HasFlag(r.fifo)
  BY <1>6, Zenon DEF HasFlag
<1>13. FlagsAtTop(r.fifo, top)
  BY <1>12, Zenon DEF FlagsAtTop, HasFlag
<1>14. Ahead(r)
  BY <1>6, Zenon DEF Ahead
<1> QED BY <1>4, <1>10, <1>11, <1>12, <1>13, <1>14, Zenon DEF Waiting

\* UpdateScoreBoard clears what is acknowledged
LEMMA AckedBoardIs ==
  ASSUME NEW s, s.high \in -1 .. N - 1, Behind(s.q, s.high),
         ~Covers(s.q.fifo, s.high + 1)
  PROVE  /\ Scored(AckedBoard(s)) /\ AckedBoard(s).nxt = s.high + 1
         /\ \A y : Covers(AckedBoard(s).fifo, y) => Covers(s.q.fifo, y)
<1>1. PICK q : q = s.q
  OBVIOUS
<1>2. PICK high : high = s.high
  OBVIOUS
<1>3. /\ high \in Int /\ high + 1 \in Nat /\ high >= -1 /\ N \in Nat
      /\ q \in Boards /\ q.nxt \in -1 .. high + 1
      /\ (q.fifo = <<>> /\ q.lifo = <<>>) \/ Scored(q)
      /\ ~Covers(q.fifo, high + 1)
  BY <1>1, <1>2, Bounds DEF Behind
<1>4. CASE q.nxt > high
  <2>1. q.nxt = high + 1
    BY <1>3, <1>4
  <2>2. AckedBoard(s) = q
    BY <1>1, <1>2, <1>4 DEF AckedBoard
  <2>3. Scored(q)
    BY <1>3, <2>1, EmptyBoard
  <2> QED BY <1>1, <1>2, <2>1, <2>2, <2>3, Zenon
<1>5. CASE ~(q.nxt > high)
  <2>1. PICK u : u = [q EXCEPT !.nxt = high + 1]
    OBVIOUS
  <2>2. /\ u \in Queues /\ u \in Boards /\ u.fifo = q.fifo /\ u.lifo = q.lifo
        /\ u.nxt = high + 1
    BY <1>3, <2>1 DEF Boards, Queues
  <2>3. Good(u, N) /\ ~HasFlag(u.fifo)
    <3>1. CASE q.fifo = <<>> /\ q.lifo = <<>>
      BY <1>3, <2>2, <3>1, EmptyBoard DEF Scored
    <3>2. CASE Scored(q)
      BY <2>2, <3>2 DEF Scored, Waiting, Good
    <3> QED BY <1>3, <3>1, <3>2
  <2>4. FlagsAtTop(u.fifo, N)
    BY <2>3, Zenon DEF FlagsAtTop, HasFlag
  <2>5. ~Covers(u.fifo, u.nxt)
    BY <1>3, <2>2
  <2>6. PICK r : r = Clearto(u).queue
    OBVIOUS
  <2>7. /\ Waiting(r, N) /\ r.nxt = u.nxt /\ ~HasFlag(r.fifo)
        /\ \A y : Covers(r.fifo, y) => Covers(u.fifo, y)
    BY <1>3, <2>3, <2>4, <2>5, <2>6, ClearGap
  <2>8. AckedBoard(s) = r
    BY <1>1, <1>2, <1>5, <2>1, <2>6 DEF AckedBoard
  <2> QED BY <1>1, <1>2, <2>2, <2>7, <2>8, Zenon DEF Scored
<1> QED BY <1>4, <1>5

\* One block of an acknowledgement is added
LEMMA BlockAdded ==
  ASSUME NEW q, Scored(q), NEW b \in Edges, b.l < b.r, q.nxt < b.l
  PROVE  /\ Scored(Add(q, Block(b.l, b.r, FALSE)).queue)
         /\ Add(q, Block(b.l, b.r, FALSE)).queue.nxt = q.nxt
         /\ \A y \in Nat : Covers(Add(q, Block(b.l, b.r, FALSE)).queue.fifo, y) =>
                            Covers(q.fifo, y) \/ y \in Packets(b)
<1>1. PICK c : c = Block(b.l, b.r, FALSE)
  OBVIOUS
<1>2. /\ N \in Nat /\ b.l \in 0 .. N /\ b.r \in 0 .. N
      /\ b.l \in Nat /\ b.r \in Nat /\ FALSE \in BOOLEAN
  BY Bounds, BlockFields
<1>3. c \in Blk /\ c.s = b.l /\ c.e = b.r /\ c.f = FALSE
  BY <1>1, <1>2, BlockIs, Zenon
<1>4. Sound(c, N)
  BY <1>2, <1>3 DEF Sound
<1>5. PICK u : u = Add(q, c).queue
  OBVIOUS
<1>6. Extends(q, u, c, N) /\ Waiting(u, N) /\ u.nxt = q.nxt
  BY <1>2, <1>3, <1>4, <1>5, AddAhead DEF Scored
<1>7. ~HasFlag(u.fifo)
  BY <1>3, <1>6, Zenon DEF Extends, Scored
<1>8. \A y \in Nat : Covers(u.fifo, y) => Covers(q.fifo, y) \/ y \in Packets(b)
  <2> SUFFICES ASSUME NEW y \in Nat, Covers(u.fifo, y)
               PROVE  Covers(q.fifo, y) \/ y \in Packets(b)
    OBVIOUS
  <2>1. Covers(q.fifo, y) \/ Within(y, c)
    BY <1>6, Zenon DEF Extends
  <2>2. Within(y, c) => y \in Packets(b)
    BY <1>2, <1>3 DEF Within, Packets
  <2> QED BY <2>1, <2>2
<1> QED BY <1>1, <1>5, <1>6, <1>7, <1>8, Zenon DEF Scored

\* The blocks of an acknowledgement that lie ahead of the scoreboard are added
LEMMA BlocksAdded ==
  ASSUME NEW q, Scored(q), NEW sack \in Seq(Edges),
         \A k \in 1..Len(sack) : sack[k].l < sack[k].r /\ q.nxt < sack[k].l
  PROVE  /\ Scored(AddBlocks(q, sack)) /\ AddBlocks(q, sack).nxt = q.nxt
         /\ \A y \in Nat : Covers(AddBlocks(q, sack).fifo, y) =>
              Covers(q.fifo, y) \/ \E k \in 1..Len(sack) : y \in Packets(sack[k])
<1> DEFINE V == {u \in Queues :
                   /\ Scored(u) /\ u.nxt = q.nxt
                   /\ \A y \in Nat : Covers(u.fifo, y) =>
                        Covers(q.fifo, y) \/ \E k \in 1..Len(sack) : y \in Packets(sack[k])}
           n == Len(sack)
           Step(i, u) == Add(u, Block(sack[i].l, sack[i].r, FALSE)).queue
           F == [p \in (1..n) \X V |-> Step(p[1], p[2])]
           D(f) == [i \in 0..n |-> IF i = 0 THEN q ELSE Step(i, f[i - 1])]
<1>1. n \in Nat /\ \A i \in 1..n : sack[i] \in Edges
  OBVIOUS
<1>2. q \in V
  BY Zenon DEF Scored, Waiting, Good
<1>3. ASSUME NEW i \in 1..n, NEW u \in V PROVE Step(i, u) \in V
  <2>1. Scored(u) /\ u.nxt = q.nxt /\ sack[i] \in Edges /\ sack[i].l < sack[i].r
    BY <1>1
  <2>2. u.nxt < sack[i].l
    BY <2>1
  <2>3. /\ Scored(Step(i, u)) /\ Step(i, u).nxt = u.nxt
        /\ \A y \in Nat : Covers(Step(i, u).fifo, y) =>
                           Covers(u.fifo, y) \/ y \in Packets(sack[i])
    BY <2>1, <2>2, BlockAdded
  <2>4. PICK w : w = Step(i, u)
    OBVIOUS
  <2> HIDE DEF Step
  <2>5. w \in Queues
    BY <2>3, <2>4, Zenon DEF Scored, Waiting, Good
  <2>6. \A y \in Nat : Covers(w.fifo, y) =>
           Covers(q.fifo, y) \/ \E k \in 1..Len(sack) : y \in Packets(sack[k])
    BY <2>3, <2>4
  <2> QED BY <2>1, <2>3, <2>4, <2>5, <2>6
<1>4. F \in [(1..n) \X V -> V]
  <2> HIDE DEF V, Step
  <2> QED BY <1>3
<1>5. \A i \in 1..n, u \in V : F[<<i, u>>] = Step(i, u)
  <2> HIDE DEF V, Step
  <2> QED OBVIOUS
<1> HIDE DEF V, F, Step, n
<1>6. PICK g \in [0..n -> V] : Recursive(g, q, n, F)
  BY <1>1, <1>2, <1>4, PrimitiveRecursion
<1>7. \A i \in 0..n : i # 0 => i \in 1..n /\ i - 1 \in 0..n
  BY <1>1
<1>8. g = D(g)
  <2>1. \A i \in 0..n : g[i] = IF i = 0 THEN q ELSE Step(i, g[i - 1])
    BY <1>5, <1>6, <1>7, ZenonT(30) DEF Recursive
  <2> QED BY <2>1
<1> DEFINE k == CHOOSE f : f = D(f)
<1>9. k = D(k)
  <2> HIDE DEF D
  <2> QED BY <1>8
<1>10. AddBlocks(q, sack) = k[n]
  BY Zenon DEF AddBlocks, n, Step
<1> HIDE DEF k
<1>11. \A i \in 0..n : k[i] = IF i = 0 THEN q ELSE Step(i, k[i - 1])
  BY <1>9, Zenon
<1> DEFINE T == {i \in 0..n : k[i] \in V}
<1>12. 0 \in T
  BY <1>1, <1>2, <1>11
<1>13. ASSUME NEW i \in 1..n, i - 1 \in T PROVE i \in T
  <2>1. i \in 0..n /\ i # 0 /\ k[i - 1] \in V
    BY <1>1, <1>13
  <2>2. k[i] = Step(i, k[i - 1])
    BY <1>11, <2>1
  <2> QED BY <1>3, <2>1, <2>2
<1>14. n \in T
  <2> HIDE DEF T
  <2>1. 0..n \subseteq T
    BY <1>1, <1>12, <1>13, IntervalInduction
  <2> QED BY <1>1, <2>1
<1>15. AddBlocks(q, sack) \in V
  BY <1>10, <1>14
<1> QED BY <1>15 DEF V

LEMMA UpdatedBoard ==
  ASSUME NEW s, s.high \in -1 .. N - 1, Behind(s.q, s.high), ~Covers(s.q.fifo, s.high + 1),
         NEW sack \in Seq(Edges),
         \A k \in 1..Len(sack) : sack[k].l < sack[k].r /\ s.high + 1 < sack[k].l
  PROVE  LET u == AddBlocks(AckedBoard(s), sack)
         IN  /\ Scored(u) /\ u.nxt = s.high + 1
             /\ \A y \in Nat : Covers(u.fifo, y) =>
                  Covers(s.q.fifo, y) \/ \E k \in 1..Len(sack) : y \in Packets(sack[k])
<1>1. PICK q : q = AckedBoard(s)
  OBVIOUS
<1>2. /\ Scored(q) /\ q.nxt = s.high + 1
      /\ \A y : Covers(q.fifo, y) => Covers(s.q.fifo, y)
  BY <1>1, AckedBoardIs
<1>3. \A k \in 1..Len(sack) : sack[k].l < sack[k].r /\ q.nxt < sack[k].l
  BY <1>2
<1>4. PICK u : u = AddBlocks(q, sack)
  OBVIOUS
<1>5. /\ Scored(u) /\ u.nxt = q.nxt
      /\ \A y \in Nat : Covers(u.fifo, y) =>
           Covers(q.fifo, y) \/ \E k \in 1..Len(sack) : y \in Packets(sack[k])
  BY <1>2, <1>3, <1>4, BlocksAdded
<1> QED BY <1>1, <1>2, <1>4, <1>5, Zenon

-----------------------------------------------------------------------------
(* The sender *)

Senders ==
  [t : 0 .. N, max : -1 .. N - 1, high : -1 .. N - 1, last : -1 .. N - 1, rtx : BOOLEAN,
   cwnd : 0 .. W, dup : 0 .. Thresh + 1, recover : Int, tmo : BOOLEAN, fast : BOOLEAN, pipe : Int,
   q : Boards, h : Int, more : BOOLEAN, out : Seq(Packet)]

SenderParts(s) ==
  /\ s.t \in 0 .. N /\ s.max \in -1 .. N - 1 /\ s.high \in -1 .. N - 1
  /\ s.last \in -1 .. N - 1 /\ s.cwnd \in 0 .. W /\ s.dup \in 0 .. Thresh + 1
  /\ s.recover \in Int
  /\ s.pipe \in Int /\ s.q \in Boards /\ s.h \in Int /\ s.out \in Seq(Packet)
  /\ s.rtx \in BOOLEAN /\ s.tmo \in BOOLEAN /\ s.fast \in BOOLEAN /\ s.more \in BOOLEAN

SenderShape(s) ==
  s = [t |-> s.t, max |-> s.max, high |-> s.high, last |-> s.last, rtx |-> s.rtx,
       cwnd |-> s.cwnd, dup |-> s.dup, recover |-> s.recover, tmo |-> s.tmo,
       fast |-> s.fast, pipe |-> s.pipe, q |-> s.q, h |-> s.h, more |-> s.more,
       out |-> s.out]

\* The windows and counters that the sender can be set to
LEMMA Windows ==
  W \in Nat /\ Thresh \in Nat /\ 1 \in 0 .. W /\ 0 \in 0 .. Thresh + 1
  BY SackFlowAssumption

LEMMA SenderFields ==
  ASSUME NEW s \in Senders
  PROVE  SenderParts(s)
  BY DEF Senders, SenderParts

\* A record of the right fields, each of its type, is a sender
LEMMA SenderMade ==
  ASSUME NEW s, SenderParts(s), SenderShape(s)
  PROVE  s \in Senders
  BY DEF Senders, SenderParts, SenderShape

\* A hole below something that was selectively acknowledged is a packet
LEMMA HoleBelow ==
  ASSUME NEW q, q.fifo = <<>> \/ Scored(q), NEW seq \in Int,
         NEW r, r = Nexthole(q, seq), r.seq > 0, r.above > 0
  PROVE  r.seq \in Packet
<1> DEFINE I == {j \in 1..Len(q.fifo) : q.fifo[j].e >= seq}
<1>1. PICK i : i = IF I # {} THEN Min(I) ELSE 0
  OBVIOUS
<1>2. r = IF i = 0 THEN [seq |-> -1, above |-> 0]
          ELSE IF q.fifo[i].s > seq THEN [seq |-> seq, above |-> Len(q.fifo) - i + 1]
          ELSE [seq |-> q.fifo[i].e, above |-> Len(q.fifo) - i]
  BY <1>1, Zenon DEF Nexthole, SelectInSeq
<1>3. i # 0
  BY <1>2
<1>4. I # {} /\ i = Min(I)
  <2> HIDE DEF I
  <2> QED BY <1>1, <1>3
<1>5. q.fifo # <<>>
  BY <1>4, EmptySeq
<1>6. Scored(q) /\ q \in Queues /\ Apart(q.fifo, N)
  BY <1>5, Zenon DEF Scored, Waiting, Good
<1>7. /\ Len(q.fifo) \in Nat
      /\ \A k \in 1..Len(q.fifo) : q.fifo[k].s \in Nat /\ q.fifo[k].e \in Nat
  BY <1>6, QueueParts
<1>8. i \in 1..Len(q.fifo)
  <2>1. I \in SUBSET Nat
    OBVIOUS
  <2>2. i \in I
    <3> HIDE DEF I
    <3> QED BY <1>4, <2>1, MinIs
  <2> QED BY <2>2
<1>9. CASE q.fifo[i].s > seq
  <2>1. r.seq = seq
    BY <1>2, <1>3, <1>9
  <2>2. q.fifo[i].s <= N
    BY <1>6, <1>7, <1>8, Bounds DEF Apart, Sound
  <2> QED BY <1>7, <1>8, <1>9, <2>1, <2>2, Bounds DEF Packet
<1>10. CASE ~(q.fifo[i].s > seq)
  <2>1. r.seq = q.fifo[i].e /\ r.above = Len(q.fifo) - i
    BY <1>2, <1>3, <1>10
  <2>2. i + 1 \in 1..Len(q.fifo) /\ i < i + 1
    BY <1>7, <1>8, <2>1
  <2>3. q.fifo[i].e < q.fifo[i + 1].s /\ q.fifo[i + 1].s <= q.fifo[i + 1].e /\ q.fifo[i + 1].e <= N
    BY <1>6, <1>8, <2>2 DEF Apart, Sound
  <2> QED BY <1>7, <1>8, <2>1, <2>2, <2>3, Bounds DEF Packet
<1> QED BY <1>9, <1>10

LEMMA NextRetranIs ==
  ASSUME NEW s \in Senders, s.q.fifo = <<>> \/ Scored(s.q)
  PROVE  /\ NextRetran(s).h \in Int
         /\ NextRetran(s).seq = -1 \/ NextRetran(s).seq \in Packet
<1>1. s.h \in Int /\ s.q.nxt \in Int
  BY SenderFields DEF SenderParts, Boards
<1>2. PICK h : h = MaxOf(s.h, s.q.nxt)
  OBVIOUS
<1>3. h \in Int
  BY <1>1, <1>2 DEF MaxOf
<1>4. PICK r : r = Nexthole(s.q, h)
  OBVIOUS
<1>5. NextRetran(s) = IF r.seq > 0 /\ r.above > 0 THEN [seq |-> r.seq, h |-> MaxOf(h, r.seq)]
                      ELSE [seq |-> -1, h |-> h]
  BY <1>2, <1>4 DEF NextRetran
<1>6. CASE r.seq > 0 /\ r.above > 0
  <2>1. r.seq \in Packet
    BY <1>3, <1>4, <1>6, HoleBelow
  <2>2. MaxOf(h, r.seq) \in Int
    BY <1>3, <2>1 DEF MaxOf, Packet
  <2> QED BY <1>5, <1>6, <2>1, <2>2
<1>7. CASE ~(r.seq > 0 /\ r.above > 0)
  BY <1>3, <1>5, <1>7
<1> QED BY <1>6, <1>7

\* What sending leaves alone
Sending(s, u) ==
  /\ u \in Senders /\ u.q = s.q /\ u.high = s.high /\ u.last = s.last /\ u.fast = s.fast

LEMMA SendOneKeeps ==
  ASSUME NEW s \in Senders, s.q.fifo = <<>> \/ Scored(s.q)
  PROVE  Sending(s, SendOne(s))
<1>1. PICK g : g = NextRetran(s)
  OBVIOUS
<1>2. g.h \in Int /\ (g.seq = -1 \/ g.seq \in Packet)
  BY <1>1, NextRetranIs
<1>3. PICK s1 : s1 = [s EXCEPT !.h = g.h]
  OBVIOUS
<1>4. s1 \in Senders /\ Sending(s, s1)
  BY <1>2, <1>3 DEF Senders, Sending
<1>5. PICK seq : seq = IF g.seq = -1 THEN s.t ELSE g.seq
  OBVIOUS
<1>6. PICK s2 : s2 = IF g.seq = -1 THEN s1 ELSE Marked(s1, seq)
  OBVIOUS
<1>7. PICK sent : sent = [Output(s2, seq)
                 EXCEPT !.t = MaxOf(@, seq + 1), !.pipe = IF s.fast THEN @ + 1 ELSE 0]
  OBVIOUS
<1>8. /\ Sending(s, [s EXCEPT !.more = FALSE]) /\ Sending(s, [s1 EXCEPT !.more = FALSE])
      /\ Sending(s, s)
  BY <1>4 DEF Senders, Sending
<1>9. ASSUME seq \in Packet PROVE Sending(s, sent)
  <2>1. N \in Nat /\ seq \in Int /\ seq + 1 \in 0 .. N /\ seq \in -1 .. N - 1
    BY <1>9, Bounds DEF Packet
  <2>2. s2 \in Senders /\ Sending(s, s2)
    <3>1. (IF seq >= s1.h THEN seq + 1 ELSE s1.h) \in Int
      BY <1>4, <2>1, SenderFields DEF SenderParts
    <3>2. Marked(s1, seq) \in Senders /\ Sending(s, Marked(s1, seq))
      BY <1>4, <3>1 DEF Senders, Sending, Marked
    <3> QED BY <1>4, <1>6, <3>2
  <2>3. PICK o : o = Output(s2, seq)
    OBVIOUS
  <2>4. o \in Senders /\ Sending(s, o)
    <3>1. MaxOf(s2.max, seq) \in -1 .. N - 1
      BY <2>1, <2>2, SenderFields DEF SenderParts, MaxOf
    <3>2. Append(s2.out, seq) \in Seq(Packet)
      BY <1>9, <2>2, SenderFields DEF SenderParts
    <3> QED BY <2>2, <2>3, <3>1, <3>2 DEF Senders, Sending, Output
  <2>5. MaxOf(o.t, seq + 1) \in 0 .. N
    BY <2>1, <2>4, SenderFields DEF SenderParts, MaxOf
  <2>6. (IF s.fast THEN o.pipe + 1 ELSE 0) \in Int
    BY <2>4, SenderFields DEF SenderParts
  <2>7. sent = [o EXCEPT !.t = MaxOf(@, seq + 1), !.pipe = IF s.fast THEN @ + 1 ELSE 0]
    BY <1>7, <2>3
  <2> QED BY <2>4, <2>5, <2>6, <2>7 DEF Senders, Sending
<1>10. PICK may : may = IF g.seq = -1
              THEN s.t <= s.high + (IF s.fast THEN W ELSE s.cwnd) /\ s.t < N
              ELSE s.recover > 0 /\ seq <= s.high + W
  OBVIOUS
<1>11. may => seq \in Packet
  <2> SUFFICES ASSUME may PROVE seq \in Packet
    OBVIOUS
  <2>1. s.t \in 0 .. N /\ N \in Nat
    BY SenderFields, Bounds DEF SenderParts
  <2>2. CASE g.seq = -1
    <3>1. seq = s.t /\ s.t < N
      BY <1>5, <1>10, <2>2
    <3> QED BY <2>1, <3>1 DEF Packet
  <2>3. CASE g.seq # -1
    BY <1>2, <1>5, <2>3
  <2> QED BY <2>2, <2>3
<1>12. \/ SendOne(s) = s \/ SendOne(s) = [s EXCEPT !.more = FALSE]
       \/ SendOne(s) = [s1 EXCEPT !.more = FALSE] \/ (may /\ SendOne(s) = sent)
  BY <1>1, <1>3, <1>5, <1>6, <1>7, <1>10, Zenon DEF SendOne
<1> QED BY <1>8, <1>9, <1>11, <1>12

LEMMA SendMuchKeeps ==
  ASSUME NEW s \in Senders, s.q.fifo = <<>> \/ Scored(s.q)
  PROVE  Sending(s, SendMuch(s))
<1> DEFINE V == {u \in Senders : Sending(s, u)}
           n == 2 * N
           c == [s EXCEPT !.more = TRUE]
           F == [p \in (1..n) \X V |-> SendOne(p[2])]
           D(f) == [i \in 0..n |-> IF i = 0 THEN c ELSE SendOne(f[i - 1])]
<1>1. n \in Nat
  BY Bounds
<1>2. c \in V
  BY DEF Senders, Sending
<1>3. ASSUME NEW u \in V PROVE SendOne(u) \in V
  <2>1. u \in Senders /\ Sending(s, u) /\ (u.q.fifo = <<>> \/ Scored(u.q))
    BY DEF Sending
  <2>2. Sending(u, SendOne(u))
    BY <2>1, SendOneKeeps
  <2> QED BY <2>1, <2>2 DEF Sending
<1>4. F \in [(1..n) \X V -> V]
  <2> HIDE DEF V
  <2> QED BY <1>3
<1>5. \A i \in 1..n, u \in V : F[<<i, u>>] = SendOne(u)
  <2> HIDE DEF V
  <2> QED OBVIOUS
<1> HIDE DEF V, F, n, c
<1>6. PICK g \in [0..n -> V] : Recursive(g, c, n, F)
  BY <1>1, <1>2, <1>4, PrimitiveRecursion
<1>7. \A i \in 0..n : i # 0 => i \in 1..n /\ i - 1 \in 0..n
  BY <1>1
<1>8. g = D(g)
  <2>1. \A i \in 0..n : g[i] = IF i = 0 THEN c ELSE SendOne(g[i - 1])
    BY <1>5, <1>6, <1>7, ZenonT(30) DEF Recursive
  <2> QED BY <2>1
<1> DEFINE k == CHOOSE f : f = D(f)
<1>9. k = D(k)
  <2> HIDE DEF D
  <2> QED BY <1>8
<1>10. SendMuch(s) = k[n]
  BY Zenon DEF SendMuch, n, c
<1> HIDE DEF k
<1>11. \A i \in 0..n : k[i] = IF i = 0 THEN c ELSE SendOne(k[i - 1])
  BY <1>9, Zenon
<1> DEFINE T == {i \in 0..n : k[i] \in V}
<1>12. 0 \in T
  BY <1>1, <1>2, <1>11
<1>13. ASSUME NEW i \in 1..n, i - 1 \in T PROVE i \in T
  <2>1. i \in 0..n /\ i # 0 /\ k[i - 1] \in V
    BY <1>1, <1>13
  <2>2. k[i] = SendOne(k[i - 1])
    BY <1>11, <2>1
  <2> QED BY <1>3, <2>1, <2>2
<1>14. n \in T
  <2> HIDE DEF T
  <2>1. 0..n \subseteq T
    BY <1>1, <1>12, <1>13, IntervalInduction
  <2> QED BY <1>1, <2>1
<1>15. SendMuch(s) \in V
  BY <1>10, <1>14
<1> QED BY <1>15 DEF V

\* What holds of the sender between events
SenderOK(s) ==
  /\ s \in Senders /\ Fits(s.q, s.high) /\ s.last <= s.high
  /\ ~s.fast => s.last = s.high

AckTypes == [ack : -1 .. N - 1, sack : Seq(Edges)]

\* p is an acknowledgement that the sender s can come to take
Timely(s, p) ==
  /\ p \in AckTypes /\ s.high <= p.ack /\ ~Covers(s.q.fifo, p.ack + 1)
  /\ \A k \in 1..Len(p.sack) : p.sack[k].l < p.sack[k].r /\ p.ack + 1 < p.sack[k].l

\* From s to u the sender has learned nothing that p does not say
Learned(s, u, p) ==
  /\ SenderOK(u) /\ u.high \in {s.high, p.ack}
  /\ \A y \in Nat : Covers(u.q.fifo, y) =>
       Covers(s.q.fifo, y) \/ \E k \in 1..Len(p.sack) : y \in Packets(p.sack[k])

LEMMA FitsParts ==
  ASSUME NEW q, NEW high \in Int, Fits(q, high)
  PROVE  Behind(q, high) /\ (q.fifo = <<>> \/ Scored(q))
  BY DEF Fits, Behind

LEMMA AfterSending ==
  ASSUME NEW s, SenderOK(s)
  PROVE  SenderOK(SendMuch(s)) /\ SendMuch(s).q = s.q /\ SendMuch(s).high = s.high
<1>1. s \in Senders /\ s.high \in Int /\ Fits(s.q, s.high)
  BY SenderFields DEF SenderParts, SenderOK
<1>2. s.q.fifo = <<>> \/ Scored(s.q)
  BY <1>1, FitsParts
<1>3. PICK u : u = SendMuch(s)
  OBVIOUS
<1>4. Sending(s, u)
  BY <1>1, <1>2, <1>3, SendMuchKeeps
<1>5. SenderOK(u)
  BY <1>4, Zenon DEF Sending, SenderOK
<1> QED BY <1>3, <1>4, <1>5, Zenon DEF Sending

\* The scoreboard is cleared whenever new data is acknowledged and on a timeout
LEMMA AfterClearing ==
  ASSUME NEW s \in Senders, s.q.nxt \in -1 .. s.high + 1, s.last = s.high
  PROVE  SenderOK(Cleared(s)) /\ Cleared(s).high = s.high /\ Cleared(s).q.fifo = <<>>
<1>1. s.high \in -1 .. N - 1 /\ s.q.nxt \in Int /\ N \in Nat
  BY SenderFields, Bounds DEF SenderParts
<1>2. PICK q : q = EmptyQueue(s.q.nxt)
  OBVIOUS
<1>3. q = [fifo |-> <<>>, lifo |-> <<>>, nxt |-> s.q.nxt]
  BY <1>2 DEF EmptyQueue
<1>4. q \in Boards
  BY <1>1, <1>3 DEF Boards
<1>5. Fits(q, s.high)
  BY <1>3, <1>4 DEF Fits
<1>6. PICK u : u = Cleared(s)
  OBVIOUS
<1>7. u = [[s EXCEPT !.q = q] EXCEPT !.h = -1]
  BY <1>2, <1>6 DEF Cleared, Senders
<1>8. u \in Senders
  <2>1. SenderParts(u)
    BY <1>4, <1>7 DEF Senders, SenderParts
  <2>2. SenderShape(u)
    BY <1>7 DEF Senders, SenderShape
  <2> QED BY <2>1, <2>2, SenderMade
<1>10. u.q = q /\ u.high = s.high /\ u.last = s.last /\ u.fast = s.fast
  BY <1>7 DEF Senders
<1>9. SenderOK(u)
  BY <1>1, <1>5, <1>8, <1>10 DEF SenderOK
<1> QED BY <1>3, <1>6, <1>9, <1>10

LEMMA NothingCovered ==
  ASSUME NEW fifo, fifo = <<>>, NEW y
  PROVE  ~Covers(fifo, y)
<1>1. \A k \in 1..Len(fifo) : FALSE
  BY EmptySeq
<1> QED BY <1>1, Zenon DEF Covers

\* newack and what follows it, whatever else is set
LEMMA AckTaken ==
  ASSUME NEW s, SenderOK(s), NEW p, Timely(s, p),
         NEW u \in Senders, u.q = s.q, u.high = p.ack, u.last = p.ack
  PROVE  Learned(s, SendMuch(Cleared(u)), p)
<1>1. s.high \in Int /\ p.ack \in Int /\ s.high <= p.ack /\ s.q.nxt \in -1 .. s.high + 1
  BY SenderFields DEF SenderParts, SenderOK, Timely, AckTypes, Fits
<1>2. u.q.nxt \in -1 .. u.high + 1
  BY <1>1
<1>3. PICK c : c = Cleared(u)
  OBVIOUS
<1>4. SenderOK(c) /\ c.high = p.ack /\ c.q.fifo = <<>>
  BY <1>2, <1>3, AfterClearing
<1>5. PICK v : v = SendMuch(c)
  OBVIOUS
<1>6. SenderOK(v) /\ v.high = p.ack /\ v.q.fifo = <<>>
  BY <1>4, <1>5, AfterSending
<1>7. \A y \in Nat : ~Covers(v.q.fifo, y)
  BY <1>6, NothingCovered
<1> QED BY <1>3, <1>5, <1>6, <1>7 DEF Learned

LEMMA AckedFields ==
  ASSUME NEW s \in Senders, NEW a \in -1 .. N - 1
  PROVE  /\ Acked(s, a) \in Senders /\ Acked(s, a).q = s.q
         /\ Acked(s, a).high = a /\ Acked(s, a).last = a
<1>1. a + 1 \in 0 .. N /\ s.t \in 0 .. N
  BY Bounds, SenderFields DEF SenderParts
<1>2. MaxOf(s.t, a + 1) \in 0 .. N
  BY <1>1, Bounds DEF MaxOf
<1>3. PICK u : u = Acked(s, a)
  OBVIOUS
<1>4. u.q = s.q /\ u.high = a /\ u.last = a
  BY <1>3 DEF Acked, Senders
<1>5. SenderParts(u)
  BY <1>2, <1>3, Windows DEF Acked, Senders, SenderParts
<1>6. SenderShape(u)
  BY <1>3 DEF Acked, Senders, SenderShape
<1> QED BY <1>3, <1>4, <1>5, <1>6, SenderMade

LEMMA NewAckLearns ==
  ASSUME NEW s, SenderOK(s), NEW p, Timely(s, p), NewAck(s, p)
  PROVE  Learned(s, snd', p)
<1>1. s \in Senders /\ p.ack \in -1 .. N - 1 /\ s.cwnd \in 0 .. W
  BY SenderFields DEF SenderParts, SenderOK, Timely, AckTypes
<1>2. PICK c \in Opened(s, p.ack) :
        snd' = SendMuch(Cleared([Acked(s, p.ack) EXCEPT !.tmo = FALSE, !.cwnd = c]))
  BY DEF NewAck
<1>3. c \in 0 .. W
  BY <1>1, <1>2, Windows DEF Opened, MinOf
<1>4. PICK a : a = Acked(s, p.ack)
  OBVIOUS
<1>5. a \in Senders /\ a.q = s.q /\ a.high = p.ack /\ a.last = p.ack
  BY <1>1, <1>4, AckedFields
<1>6. PICK u : u = [a EXCEPT !.tmo = FALSE, !.cwnd = c]
  OBVIOUS
<1>7. u \in Senders /\ u.q = s.q /\ u.high = p.ack /\ u.last = p.ack
  BY <1>3, <1>5, <1>6 DEF Senders
<1>8. Learned(s, SendMuch(Cleared(u)), p)
  BY <1>7, AckTaken
<1> QED BY <1>2, <1>4, <1>6, <1>8, Zenon

LEMMA FullAckLearns ==
  ASSUME NEW s, SenderOK(s), NEW p, Timely(s, p), FullAck(s, p)
  PROVE  Learned(s, snd', p)
<1>1. s \in Senders /\ p.ack \in -1 .. N - 1
  BY DEF SenderOK, Timely, AckTypes
<1>2. PICK a : a = Acked(s, p.ack)
  OBVIOUS
<1>3. a \in Senders /\ a.q = s.q /\ a.high = p.ack /\ a.last = p.ack
  BY <1>1, <1>2, AckedFields
<1>4. PICK u : u = [a EXCEPT !.recover = 0, !.fast = FALSE, !.pipe = 0, !.tmo = FALSE]
  OBVIOUS
<1>5. u \in Senders /\ u.q = s.q /\ u.high = p.ack /\ u.last = p.ack
  <2>1. SenderParts(u)
    BY <1>3, <1>4 DEF Senders, SenderParts
  <2>2. SenderShape(u)
    BY <1>4, <1>3 DEF Senders, SenderShape
  <2>3. u.q = s.q /\ u.high = p.ack /\ u.last = p.ack
    BY <1>3, <1>4 DEF Senders
  <2> QED BY <2>1, <2>2, <2>3, SenderMade
<1>6. Learned(s, SendMuch(Cleared(u)), p)
  BY <1>5, AckTaken
<1> QED BY <1>2, <1>4, <1>6, Zenon DEF FullAck

\* An acknowledgement of the packets up to high_ updates the scoreboard only
Informed(s, u, p) ==
  /\ SenderParts(u) /\ SenderShape(u) /\ Scored(u.q) /\ u.q.nxt = s.high + 1
  /\ u.high = s.high /\ u.last = s.last /\ u.fast = s.fast /\ u.max = s.max /\ u.t = s.t
  /\ \A y \in Nat : Covers(u.q.fifo, y) =>
       Covers(s.q.fifo, y) \/ \E k \in 1..Len(p.sack) : y \in Packets(p.sack[k])

LEMMA UpdatedIs ==
  ASSUME NEW s \in Senders, Behind(s.q, s.high), NEW p, Timely(s, p), p.ack = s.high
  PROVE  Informed(s, Updated(s, p), p)
<1>1. s.high \in -1 .. N - 1 /\ p.sack \in Seq(Edges)
  BY SenderFields DEF SenderParts, Timely, AckTypes
<1>2. ~Covers(s.q.fifo, s.high + 1)
  BY DEF Timely
<1>3. \A k \in 1..Len(p.sack) : p.sack[k].l < p.sack[k].r /\ s.high + 1 < p.sack[k].l
  BY DEF Timely
<1>4. PICK q : q = AddBlocks(AckedBoard(s), p.sack)
  OBVIOUS
<1>5. /\ Scored(q) /\ q.nxt = s.high + 1
      /\ \A y \in Nat : Covers(q.fifo, y) =>
           Covers(s.q.fifo, y) \/ \E k \in 1..Len(p.sack) : y \in Packets(p.sack[k])
  BY <1>1, <1>2, <1>3, <1>4, UpdatedBoard
<1>6. q \in Queues
  BY <1>5, Zenon DEF Scored, Waiting, Good
<1>7. q \in Boards
  BY <1>6 DEF Queues, Boards
<1>8. PICK u : u = Updated(s, p)
  OBVIOUS
<1>9. u = [s EXCEPT !.q = q]
  BY <1>4, <1>8, Zenon DEF Updated
<1>10. SenderParts(u) /\ u.q = q
  BY <1>7, <1>9 DEF Senders, SenderParts
<1>11. SenderShape(u)
  BY <1>9 DEF Senders, SenderShape
<1>12. u.high = s.high /\ u.last = s.last /\ u.fast = s.fast /\ u.max = s.max /\ u.t = s.t
  BY <1>9 DEF Senders
<1> QED BY <1>5, <1>8, <1>10, <1>11, <1>12 DEF Informed

LEMMA InformedOK ==
  ASSUME NEW s, s.last <= s.high, ~s.fast => s.last = s.high,
         NEW p, NEW u, Informed(s, u, p)
  PROVE  SenderOK(u)
<1>1. u \in Senders
  BY SenderMade DEF Informed
<1>2. u.q \in Boards /\ u.high \in Int /\ u.high >= -1
  BY <1>1, SenderFields DEF SenderParts
<1>3. Fits(u.q, u.high)
  BY <1>2 DEF Informed, Fits
<1> QED BY <1>1, <1>3 DEF Informed, SenderOK

\* From a sender that has learned what p says, sending adds nothing
LEMMA LearnsBySending ==
  ASSUME NEW s, NEW u, NEW p, Learned(s, u, p)
  PROVE  Learned(s, SendMuch(u), p)
<1>1. PICK v : v = SendMuch(u)
  OBVIOUS
<1>2. SenderOK(u)
  BY DEF Learned
<1>3. SenderOK(v) /\ v.q = u.q /\ v.high = u.high
  BY <1>1, <1>2, AfterSending
<1>4. Learned(s, v, p)
  BY <1>3, Zenon DEF Learned
<1> QED BY <1>1, <1>4

LEMMA InformedLearns ==
  ASSUME NEW s, SenderOK(s), NEW p, NEW u, Informed(s, u, p)
  PROVE  Learned(s, u, p)
  BY InformedOK DEF Informed, Learned, SenderOK

LEMMA AfterTimeoutLearns ==
  ASSUME NEW s, SenderOK(s), NEW p, AfterTimeout(s, p)
  PROVE  Learned(s, snd', p)
<1>1. Learned(s, s, p)
  BY DEF Learned
<1>2. snd' = SendMuch(s)
  BY DEF AfterTimeout
<1> QED BY <1>1, <1>2, LearnsBySending

\* What may change in a sender that has been told something
SameBoard(u, v) ==
  /\ v \in Senders /\ v.q = u.q /\ v.high = u.high /\ v.last = u.last
  /\ ~v.fast => ~u.fast

LEMMA KeptOK ==
  ASSUME NEW s, NEW p, NEW u, Learned(s, u, p), NEW v, SameBoard(u, v)
  PROVE  Learned(s, v, p)
<1>1. SenderOK(u)
  BY DEF Learned
<1>2. SenderOK(v)
  BY <1>1 DEF SenderOK, SameBoard
<1> QED BY <1>2, Zenon DEF Learned, SameBoard

\* A packet is missing below what is on the scoreboard
LEMMA Beyond ==
  ASSUME NEW q, Scored(q), q.fifo # <<>>
  PROVE  q.nxt < N
<1>1. q \in Queues /\ Apart(q.fifo, N) /\ Ahead(q)
  BY Zenon DEF Scored, Waiting, Good
<1>2. 1 \in 1..Len(q.fifo)
  <2>1. q.fifo \in Seq(Blk)
    BY <1>1, QueueParts
  <2> QED BY <2>1
<1>3. q.nxt \in Nat /\ q.fifo[1].s \in Nat /\ q.fifo[1].e \in Nat
  BY <1>1, <1>2, QueueParts
<1>4. q.nxt < q.fifo[1].s
  BY <1>1, <1>2 DEF Ahead
<1>5. Sound(q.fifo[1], N)
  BY <1>1, <1>2 DEF Apart
<1> QED BY <1>3, <1>4, <1>5, Bounds DEF Sound

LEMMA FastRetransmitKeeps ==
  ASSUME NEW u \in Senders, u.last + 1 \in Packet
  PROVE  SameBoard(u, FastRetransmit(u))
<1>1. /\ u.last \in Int /\ u.high \in Int /\ u.max \in -1 .. N - 1 /\ u.h \in Int
      /\ u.out \in Seq(Packet) /\ u.cwnd \in 0 .. W /\ Thresh \in Int /\ N \in Nat
      /\ u.last + 1 \in -1 .. N - 1
  BY SenderFields, Bounds DEF SenderParts, Packet
<1>2. PICK a : a = [u EXCEPT !.recover = u.max, !.pipe = u.max - u.high - Thresh,
                             !.fast = TRUE, !.cwnd = @ \div 2]
  OBVIOUS
<1>3. a \in Senders /\ a.q = u.q /\ a.high = u.high /\ a.last = u.last /\ a.fast = TRUE
  <2>1. u.max - u.high - Thresh \in Int /\ u.max \in Int
    BY <1>1
  <2>2. \A c \in 0 .. W : c \div 2 \in 0 .. W
    BY Windows
  <2>3. u.cwnd \div 2 \in 0 .. W
    BY <1>1, <2>2
  <2>4. SenderParts(a)
    BY <1>2, <2>1, <2>3 DEF Senders, SenderParts
  <2>5. SenderShape(a)
    BY <1>2 DEF Senders, SenderShape
  <2>6. a.q = u.q /\ a.high = u.high /\ a.last = u.last /\ a.fast = TRUE
    BY <1>2 DEF Senders
  <2> QED BY <2>4, <2>5, <2>6, SenderMade
<1>4. PICK b : b = Marked(a, u.high + 1)
  OBVIOUS
<1>5. b \in Senders /\ b.q = u.q /\ b.high = u.high /\ b.last = u.last /\ b.fast = TRUE
  <2>1. (IF u.high + 1 >= a.h THEN u.high + 1 + 1 ELSE a.h) \in Int
    BY <1>1, <1>3, SenderFields DEF SenderParts
  <2> QED BY <1>3, <1>4, <2>1 DEF Senders, Marked
<1>6. PICK v : v = Output(b, u.last + 1)
  OBVIOUS
<1>7. v \in Senders /\ v.q = u.q /\ v.high = u.high /\ v.last = u.last /\ v.fast = TRUE
  <2>1. MaxOf(b.max, u.last + 1) \in -1 .. N - 1
    BY <1>1, <1>5, SenderFields DEF SenderParts, MaxOf
  <2>2. Append(b.out, u.last + 1) \in Seq(Packet)
    BY <1>5, SenderFields DEF SenderParts
  <2>3. SenderParts(v)
    BY <1>5, <1>6, <2>1, <2>2 DEF Senders, SenderParts, Output
  <2>4. SenderShape(v)
    BY <1>5, <1>6 DEF Senders, SenderShape, Output
  <2>5. v.q = u.q /\ v.high = u.high /\ v.last = u.last /\ v.fast = TRUE
    BY <1>5, <1>6 DEF Senders, Output
  <2> QED BY <2>3, <2>4, <2>5, SenderMade
<1>8. FastRetransmit(u) = IF ~CanRecover(u) THEN u ELSE v
  BY <1>2, <1>4, <1>6, Zenon DEF FastRetransmit
<1> QED BY <1>7, <1>8 DEF SameBoard

LEMMA LimitedTransmitKeeps ==
  ASSUME NEW u \in Senders
  PROVE  SameBoard(u, LimitedTransmit(u))
<1>1. u.t \in 0 .. N /\ u.max \in -1 .. N - 1 /\ N \in Nat /\ u.out \in Seq(Packet)
  BY SenderFields, Bounds DEF SenderParts
<1>2. PICK v : v = [Output(u, u.t) EXCEPT !.t = @ + 1]
  OBVIOUS
<1>3. ASSUME u.t < N PROVE SameBoard(u, v)
  <2>1. u.t \in Packet /\ u.t + 1 \in 0 .. N /\ u.t \in -1 .. N - 1
    BY <1>1, <1>3 DEF Packet
  <2>2. MaxOf(u.max, u.t) \in -1 .. N - 1
    BY <1>1, <2>1 DEF MaxOf
  <2>3. Append(u.out, u.t) \in Seq(Packet)
    BY <1>1, <2>1
  <2>4. PICK o : o = Output(u, u.t)
    OBVIOUS
  <2>5. SenderParts(o) /\ o.t = u.t
    BY <2>2, <2>3, <2>4 DEF Senders, SenderParts, Output
  <2>6. SenderShape(o)
    BY <2>4 DEF Senders, SenderShape, Output
  <2>7. o \in Senders /\ o.q = u.q /\ o.high = u.high /\ o.last = u.last /\ o.fast = u.fast
    <3>1. o.q = u.q /\ o.high = u.high /\ o.last = u.last /\ o.fast = u.fast
      BY <2>4 DEF Senders, Output
    <3> QED BY <2>5, <2>6, <3>1, SenderMade
  <2>8. v = [o EXCEPT !.t = u.t + 1]
    BY <1>2, <2>4, <2>5
  <2> QED BY <2>1, <2>7, <2>8 DEF Senders, SameBoard
<1>4. (LimitedTransmit(u) = v /\ u.t < N) \/ LimitedTransmit(u) = u
  BY <1>2 DEF LimitedTransmit
<1> QED BY <1>3, <1>4 DEF SameBoard

LEMMA CountedKeeps ==
  ASSUME NEW u \in Senders
  PROVE  SameBoard(u, Counted(u))
<1>1. MinOf(u.dup + 1, Thresh + 1) \in 0 .. Thresh + 1
  BY SenderFields, Windows DEF SenderParts, MinOf
<1>2. PICK v : v = Counted(u)
  OBVIOUS
<1>3. v = [u EXCEPT !.dup = MinOf(u.dup + 1, Thresh + 1)]
  BY <1>2 DEF Counted
<1>4. SenderParts(v)
  BY <1>1, <1>3 DEF Senders, SenderParts
<1>5. SenderShape(v)
  BY <1>3 DEF Senders, SenderShape
<1>6. v.q = u.q /\ v.high = u.high /\ v.last = u.last /\ v.fast = u.fast
  BY <1>3 DEF Senders
<1> QED BY <1>2, <1>4, <1>5, <1>6, SenderMade DEF SameBoard

\* When the scoreboard was told something, a packet is missing
LEMMA MissingPacket ==
  ASSUME NEW s, SenderOK(s), NEW p, NEW u, Informed(s, u, p), Changed(s, u)
  PROVE  u.last + 1 \in Packet
<1>1. /\ s.last \in -1 .. N - 1 /\ s.high \in -1 .. N - 1 /\ s.last <= s.high
      /\ u.last = s.last /\ N \in Nat
  BY SenderFields, Bounds DEF SenderParts, SenderOK, Informed
<1>2. s.q.fifo # <<>> \/ u.q.fifo # <<>>
  <2> SUFFICES ASSUME s.q.fifo = <<>>, u.q.fifo = <<>> PROVE FALSE
    OBVIOUS
  <2>1. Total(u.q) = Total(s.q)
    BY DEF Total
  <2> QED BY <2>1 DEF Changed
<1>3. s.high + 1 < N
  <2>1. CASE s.q.fifo # <<>>
    <3>1. Scored(s.q) /\ s.q.nxt = s.high + 1
      BY <2>1 DEF SenderOK, Fits
    <3> QED BY <2>1, <3>1, Beyond
  <2>2. CASE u.q.fifo # <<>>
    <3>1. Scored(u.q) /\ u.q.nxt = s.high + 1
      BY DEF Informed
    <3> QED BY <2>2, <3>1, Beyond
  <2> QED BY <1>2, <2>1, <2>2
<1> QED BY <1>1, <1>3 DEF Packet

LEMMA DupAckLearns ==
  ASSUME NEW s, SenderOK(s), NEW p, Timely(s, p), DupAck(s, p)
  PROVE  Learned(s, snd', p)
<1>1. s \in Senders /\ p.ack = s.high /\ Behind(s.q, s.high)
  BY SenderFields, FitsParts DEF SenderParts, SenderOK, DupAck
<1>2. PICK u : u = Updated(s, p)
  OBVIOUS
<1>3. Informed(s, u, p)
  BY <1>1, <1>2, UpdatedIs
<1>4. Learned(s, u, p) /\ u \in Senders
  BY <1>3, InformedLearns, SenderMade DEF Informed
<1>5. \/ ~Changed(s, u) /\ snd' = IF u.dup = 0 THEN SendMuch(u) ELSE u
      \/ /\ Changed(s, u)
         /\ \E c \in {Counted(u)} :
              snd' = IF c.dup = Thresh THEN FastRetransmit(c)
                     ELSE IF c.dup < Thresh THEN LimitedTransmit(c) ELSE c
  BY <1>2, Zenon DEF DupAck
<1>6. CASE ~Changed(s, u) /\ snd' = IF u.dup = 0 THEN SendMuch(u) ELSE u
  <2>1. Learned(s, SendMuch(u), p)
    BY <1>4, LearnsBySending
  <2> QED BY <1>4, <1>6, <2>1
<1>7. CASE /\ Changed(s, u)
           /\ \E c \in {Counted(u)} :
                snd' = IF c.dup = Thresh THEN FastRetransmit(c)
                       ELSE IF c.dup < Thresh THEN LimitedTransmit(c) ELSE c
  <2>1. PICK c : c = Counted(u) /\ (snd' = FastRetransmit(c) \/ snd' = LimitedTransmit(c) \/ snd' = c)
    BY <1>7
  <2>2. SameBoard(u, c)
    BY <1>4, <2>1, CountedKeeps
  <2>3. c \in Senders /\ c.last = u.last /\ Learned(s, c, p)
    BY <1>4, <2>2, KeptOK DEF SameBoard
  <2>4. c.last + 1 \in Packet
    BY <1>3, <1>7, <2>3, MissingPacket
  <2>5. Learned(s, FastRetransmit(c), p)
    BY <2>3, <2>4, FastRetransmitKeeps, KeptOK
  <2>6. Learned(s, LimitedTransmit(c), p)
    BY <2>3, LimitedTransmitKeeps, KeptOK
  <2> QED BY <2>1, <2>3, <2>5, <2>6
<1> QED BY <1>5, <1>6, <1>7

LEMMA PartialAckLearns ==
  ASSUME NEW s, SenderOK(s), NEW p, Timely(s, p), PartialAck(s, p)
  PROVE  Learned(s, snd', p)
<1>1. /\ s \in Senders /\ p.ack \in -1 .. N - 1 /\ s.high \in -1 .. N - 1 /\ s.fast
      /\ s.last \in -1 .. N - 1 /\ s.last <= s.high /\ s.high <= p.ack /\ N \in Nat
      /\ s.pipe \in Int
  BY SenderFields, Bounds DEF SenderParts, SenderOK, PartialAck, Timely, AckTypes
<1>2. PICK u : u = [s EXCEPT !.high = p.ack, !.pipe = @ - 2, !.rtx = TRUE]
  OBVIOUS
<1>3. u \in Senders /\ u.q = s.q /\ u.high = p.ack /\ u.last = s.last /\ u.fast = s.fast
  <2>1. SenderParts(u)
    BY <1>1, <1>2 DEF Senders, SenderParts
  <2>2. SenderShape(u)
    BY <1>1, <1>2 DEF Senders, SenderShape
  <2>3. u.q = s.q /\ u.high = p.ack /\ u.last = s.last /\ u.fast = s.fast
    BY <1>1, <1>2 DEF Senders
  <2> QED BY <2>1, <2>2, <2>3, SenderMade
<1>4. Timely(u, p)
  <2>1. u.high <= p.ack
    BY <1>1, <1>3
  <2> QED BY <1>3, <2>1 DEF Timely
<1>5. Behind(u.q, u.high)
  <2>1. Behind(s.q, s.high)
    BY <1>1, FitsParts DEF SenderOK
  <2> QED BY <1>1, <1>3, <2>1 DEF Behind
<1>6. PICK w : w = Updated(u, p)
  OBVIOUS
<1>7. Informed(u, w, p)
  BY <1>3, <1>4, <1>5, <1>6, UpdatedIs
<1>8. SenderOK(w)
  <2>1. u.last <= u.high /\ u.fast
    BY <1>1, <1>3
  <2> QED BY <1>7, <2>1, InformedOK
<1>9. Learned(s, w, p)
  BY <1>3, <1>7, <1>8, Zenon DEF Learned, Informed
<1>10. snd' = SendMuch(w)
  BY <1>2, <1>6, Zenon DEF PartialAck
<1> QED BY <1>9, <1>10, LearnsBySending

LEMMA RecoveryDupLearns ==
  ASSUME NEW s, SenderOK(s), NEW p, Timely(s, p), RecoveryDup(s, p)
  PROVE  Learned(s, snd', p)
<1>1. /\ s \in Senders /\ p.ack \in Int /\ s.high \in Int /\ s.high <= p.ack /\ p.ack <= s.high
      /\ s.fast
  BY SenderFields DEF SenderParts, SenderOK, Timely, AckTypes, RecoveryDup
<1>2. Behind(s.q, s.high)
  BY <1>1, FitsParts DEF SenderOK
<1>3. PICK u : u = Updated(s, p)
  OBVIOUS
<1>4. Informed(s, u, p)
  BY <1>1, <1>2, <1>3, UpdatedIs
<1>5. Learned(s, u, p) /\ u \in Senders /\ u.fast
  BY <1>1, <1>4, InformedLearns, SenderMade DEF Informed
<1>6. PICK d : d = IF Changed(s, u) THEN Counted(u).dup ELSE u.dup
  OBVIOUS
<1>7. d \in 0 .. Thresh + 1 /\ u.pipe \in Int
  <2>1. Counted(u) \in Senders
    BY <1>5, CountedKeeps DEF SameBoard
  <2> QED BY <1>5, <1>6, <2>1, SenderFields DEF SenderParts
<1>8. PICK v : v = [u EXCEPT !.pipe = @ - 1, !.dup = d]
  OBVIOUS
<1>9. SameBoard(u, v)
  <2>1. SenderParts(v)
    BY <1>5, <1>7, <1>8 DEF Senders, SenderParts
  <2>2. SenderShape(v)
    BY <1>5, <1>8 DEF Senders, SenderShape
  <2>3. v.q = u.q /\ v.high = u.high /\ v.last = u.last /\ v.fast = u.fast
    BY <1>5, <1>8 DEF Senders
  <2> QED BY <1>5, <2>1, <2>2, <2>3, SenderMade DEF SameBoard
<1>10. Learned(s, v, p)
  BY <1>5, <1>9, KeptOK
<1>11. snd' = SendMuch(v)
  BY <1>3, <1>6, <1>8, Zenon DEF RecoveryDup
<1> QED BY <1>10, <1>11, LearnsBySending

LEMMA SenderEmptied ==
  ASSUME SenderOK(snd)
  PROVE  SenderOK(Sender) /\ Sender.q = snd.q /\ Sender.high = snd.high
<1>1. snd \in Senders
  BY DEF SenderOK
<1>2. PICK s : s = Sender
  OBVIOUS
<1>3. /\ s \in Senders /\ s.q = snd.q /\ s.high = snd.high /\ s.last = snd.last
      /\ s.fast = snd.fast
  <2>1. SenderParts(s)
    BY <1>1, <1>2 DEF Sender, Senders, SenderParts
  <2>2. SenderShape(s)
    BY <1>1, <1>2 DEF Sender, Senders, SenderShape
  <2>3. s.q = snd.q /\ s.high = snd.high /\ s.last = snd.last /\ s.fast = snd.fast
    BY <1>1, <1>2 DEF Sender, Senders
  <2> QED BY <2>1, <2>2, <2>3, SenderMade
<1>4. SenderOK(s)
  BY <1>3 DEF SenderOK
<1> QED BY <1>2, <1>3, <1>4

\* An acknowledgement taken
LEMMA TakenLearns ==
  ASSUME SenderOK(snd), NEW p, Timely(snd, p),
         \/ NewAck(Sender, p) \/ DupAck(Sender, p) \/ AfterTimeout(Sender, p)
         \/ FullAck(Sender, p) \/ PartialAck(Sender, p) \/ RecoveryDup(Sender, p)
  PROVE  Learned(snd, snd', p)
<1>1. PICK s : s = Sender
  OBVIOUS
<1>2. SenderOK(s) /\ s.q = snd.q /\ s.high = snd.high
  BY <1>1, SenderEmptied
<1>3. Timely(s, p)
  BY <1>2 DEF Timely
<1>4. \/ NewAck(s, p) \/ DupAck(s, p) \/ AfterTimeout(s, p)
      \/ FullAck(s, p) \/ PartialAck(s, p) \/ RecoveryDup(s, p)
  BY <1>1
<1>5. Learned(s, snd', p)
  BY <1>2, <1>3, <1>4, NewAckLearns, DupAckLearns, AfterTimeoutLearns, FullAckLearns,
     PartialAckLearns, RecoveryDupLearns
<1> QED BY <1>2, <1>5, Zenon DEF Learned

LEMMA TimeoutClears ==
  ASSUME SenderOK(snd), Timeout
  PROVE  SenderOK(snd') /\ snd'.high = snd.high /\ snd'.q.fifo = <<>>
<1>1. PICK s : s = Sender
  OBVIOUS
<1>2. SenderOK(s) /\ s.q = snd.q /\ s.high = snd.high /\ s \in Senders
  BY <1>1, SenderEmptied DEF SenderOK
<1>3. /\ s.high \in -1 .. N - 1 /\ N \in Nat /\ snd.max \in -1 .. N - 1
      /\ s.q.nxt \in -1 .. s.high + 1
  BY <1>2, SenderFields, Bounds DEF SenderParts, SenderOK, Fits
<1>4. PICK u : u = [s EXCEPT !.dup = 0, !.fast = FALSE, !.pipe = 0, !.tmo = TRUE,
                             !.recover = snd.max, !.last = snd.high, !.cwnd = 1,
                             !.t = snd.high + 1]
  OBVIOUS
<1>5. u \in Senders /\ u.q = s.q /\ u.high = s.high /\ u.last = s.high
  <2>1. snd.high + 1 \in 0 .. N /\ snd.max \in Int /\ snd.high \in -1 .. N - 1
    BY <1>2, <1>3
  <2>2. SenderParts(u)
    BY <1>2, <1>4, <2>1, Windows DEF Senders, SenderParts
  <2>3. SenderShape(u)
    BY <1>2, <1>4 DEF Senders, SenderShape
  <2>4. u.q = s.q /\ u.high = s.high /\ u.last = s.high
    BY <1>2, <1>4 DEF Senders
  <2> QED BY <2>2, <2>3, <2>4, SenderMade
<1>6. PICK c : c = Cleared(u)
  OBVIOUS
<1>7. SenderOK(c) /\ c.high = s.high /\ c.q.fifo = <<>>
  BY <1>3, <1>5, <1>6, AfterClearing
<1>8. snd' = SendMuch(c)
  BY <1>1, <1>4, <1>6, Zenon DEF Timeout
<1> QED BY <1>2, <1>7, <1>8, AfterSending

LEMMA StartSends ==
  ASSUME SenderOK(snd), Start
  PROVE  SenderOK(snd') /\ snd'.high = snd.high /\ snd'.q = snd.q
<1>1. PICK s : s = Sender
  OBVIOUS
<1>2. SenderOK(s) /\ s.q = snd.q /\ s.high = snd.high
  BY <1>1, SenderEmptied
<1>3. snd' = SendMuch(s)
  BY <1>1 DEF Start
<1> QED BY <1>2, <1>3, AfterSending

-----------------------------------------------------------------------------
(* The flow: n and g stand for next_ and the packets the sink has, s for the *)
(* acknowledgements under way, q and high for the scoreboard and             *)
(* highest_ack_.                                                             *)

\* Every block of a lies above what a acknowledges and was received
AckTrue(a, n, g) ==
  /\ a.ack < n
  /\ \A k \in 1..Len(a.sack) :
       /\ a.sack[k].l < a.sack[k].r /\ a.ack + 1 < a.sack[k].l
       /\ Packets(a.sack[k]) \subseteq g

\* b was sent after a: it acknowledges no less, and the packet that b says is
\* missing was missing when a was sent
InTurn(a, b) ==
  a.ack <= b.ack /\ \A k \in 1..Len(a.sack) : b.ack + 1 \notin Packets(a.sack[k])

AcksTrue(s, n, g) ==
  /\ s \in Seq(AckTypes)
  /\ \A i \in 1..Len(s) : AckTrue(s[i], n, g)
  /\ \A j, i \in 1..Len(s) : j < i => InTurn(s[j], s[i])

\* No acknowledgement under way is older than what the sender knows
UpToDate(s, q, high) ==
  \A i \in 1..Len(s) : high <= s[i].ack /\ ~Covers(q.fifo, s[i].ack + 1)

\* What the sender takes for received was received
BoardTrue(q, high, n, g) == high < n /\ \A y \in Nat : Covers(q.fifo, y) => y \in g

Network(s, n, g, q, high) ==
  AcksTrue(s, n, g) /\ UpToDate(s, q, high) /\ BoardTrue(q, high, n, g)

IInv ==
  /\ SinkOK /\ data \in Seq(Packet) /\ SenderOK(snd)
  /\ Network(acks, next, Have, snd.q, snd.high)

LEMMA AckFields ==
  ASSUME NEW s \in Seq(AckTypes)
  PROVE  /\ Len(s) \in Nat
         /\ \A i \in 1..Len(s) : /\ s[i] \in AckTypes /\ s[i].ack \in -1 .. N - 1
                                /\ s[i].ack \in Int /\ s[i].sack \in Seq(Edges)
<1>1. Len(s) \in Nat /\ \A i \in 1..Len(s) : s[i] \in AckTypes
  OBVIOUS
<1>2. \A a \in AckTypes : a.ack \in -1 .. N - 1 /\ a.ack \in Int /\ a.sack \in Seq(Edges)
  BY DEF AckTypes
<1> QED BY <1>1, <1>2

\* The first acknowledgement leaves the network
LEMMA TailTrue ==
  ASSUME NEW s, NEW n, NEW g, AcksTrue(s, n, g), s # <<>>
  PROVE  /\ AcksTrue(Tail(s), n, g)
         /\ \A i \in 1..Len(Tail(s)) : \E j \in 1..Len(s) : j > 1 /\ Tail(s)[i] = s[j]
<1>1. s \in Seq(AckTypes)
  BY DEF AcksTrue
<1>2. PICK t : t = Tail(s)
  OBVIOUS
<1>3. /\ t \in Seq(AckTypes) /\ Len(t) = Len(s) - 1 /\ Len(t) \in Nat
      /\ \A i \in 1..Len(t) : i + 1 \in 1..Len(s) /\ i + 1 > 1 /\ t[i] = s[i + 1]
  BY <1>1, <1>2
<1>4. \A i \in 1..Len(t) : AckTrue(t[i], n, g)
  BY <1>3 DEF AcksTrue
<1>5. ASSUME NEW j \in 1..Len(t), NEW i \in 1..Len(t), j < i PROVE InTurn(t[j], t[i])
  <2>1. j + 1 \in 1..Len(s) /\ i + 1 \in 1..Len(s) /\ j + 1 < i + 1
    BY <1>3, <1>5
  <2>2. InTurn(s[j + 1], s[i + 1])
    BY <2>1 DEF AcksTrue
  <2> QED BY <1>3, <2>2
<1>6. \A i \in 1..Len(t) : \E j \in 1..Len(s) : j > 1 /\ t[i] = s[j]
  BY <1>3
<1> QED BY <1>2, <1>3, <1>4, <1>5, <1>6 DEF AcksTrue

LEMMA AckLost ==
  ASSUME NEW s, NEW n, NEW g, NEW q, NEW high, Network(s, n, g, q, high), s # <<>>
  PROVE  Network(Tail(s), n, g, q, high)
<1>1. AcksTrue(s, n, g) /\ UpToDate(s, q, high)
  BY DEF Network
<1>2. UpToDate(Tail(s), q, high)
  BY <1>1, TailTrue DEF UpToDate
<1> QED BY <1>1, <1>2, TailTrue DEF Network

LEMMA HeadTimely ==
  ASSUME NEW u, NEW s, NEW n, NEW g, Network(s, n, g, u.q, u.high), s # <<>>
  PROVE  Timely(u, Head(s))
<1>1. PICK p : p = Head(s)
  OBVIOUS
<1>2. s \in Seq(AckTypes)
  BY DEF Network, AcksTrue
<1>3. 1 \in 1..Len(s) /\ p = s[1] /\ p \in AckTypes
  BY <1>1, <1>2
<1>4. AckTrue(p, n, g) /\ u.high <= p.ack /\ ~Covers(u.q.fifo, p.ack + 1)
  BY <1>3 DEF Network, AcksTrue, UpToDate
<1> QED BY <1>1, <1>3, <1>4 DEF Timely, AckTrue

\* The first acknowledgement is taken
LEMMA AckedTrue ==
  ASSUME NEW u, NEW v, NEW s, NEW n, NEW g, Network(s, n, g, u.q, u.high), s # <<>>,
         Learned(u, v, Head(s)), n \in Nat, u.high \in Int
  PROVE  Network(Tail(s), n, g, v.q, v.high)
<1>1. PICK p : p = Head(s)
  OBVIOUS
<1>2. s \in Seq(AckTypes) /\ AcksTrue(s, n, g)
  BY DEF Network, AcksTrue
<1>3. 1 \in 1..Len(s) /\ p = s[1] /\ p.ack \in Int
  BY <1>1, <1>2, AckFields
<1>4. AckTrue(p, n, g) /\ u.high <= p.ack
  BY <1>2, <1>3 DEF Network, AcksTrue, UpToDate
<1>5. /\ v.high \in {u.high, p.ack}
      /\ \A y \in Nat : Covers(v.q.fifo, y) =>
           Covers(u.q.fifo, y) \/ \E k \in 1..Len(p.sack) : y \in Packets(p.sack[k])
  BY <1>1, Zenon DEF Learned
<1>6. v.high \in Int /\ v.high <= p.ack
  BY <1>3, <1>4, <1>5
<1>7. BoardTrue(v.q, v.high, n, g)
  <2>1. v.high < n
    BY <1>3, <1>4, <1>6 DEF AckTrue
  <2>2. ASSUME NEW y \in Nat, Covers(v.q.fifo, y) PROVE y \in g
    BY <1>4, <1>5, <2>2 DEF AckTrue, Network, BoardTrue
  <2> QED BY <2>1, <2>2 DEF BoardTrue
<1>8. ASSUME NEW j \in 1..Len(s), j > 1
      PROVE  v.high <= s[j].ack /\ ~Covers(v.q.fifo, s[j].ack + 1)
  <2>1. PICK a : a = s[j]
    OBVIOUS
  <2>2. a.ack \in -1 .. N - 1 /\ N \in Nat
    BY <1>2, <2>1, AckFields, Bounds
  <2>3. InTurn(p, a) /\ ~Covers(u.q.fifo, a.ack + 1)
    BY <1>2, <1>3, <1>8, <2>1 DEF AcksTrue, Network, UpToDate
  <2>4. v.high <= a.ack
    BY <1>3, <1>6, <2>2, <2>3 DEF InTurn
  <2>5. ~Covers(v.q.fifo, a.ack + 1)
    <3>1. a.ack + 1 \in Nat
      BY <2>2
    <3> QED BY <1>5, <2>3, <3>1 DEF InTurn
  <2> QED BY <2>1, <2>4, <2>5
<1>9. UpToDate(Tail(s), v.q, v.high)
  BY <1>2, <1>8, TailTrue DEF UpToDate
<1> QED BY <1>2, <1>7, <1>9, TailTrue DEF Network

\* The sender forgets, or sends
LEMMA BoardShrinks ==
  ASSUME NEW s, NEW n, NEW g, NEW q, NEW high, Network(s, n, g, q, high),
         NEW r, \A y : Covers(r.fifo, y) => Covers(q.fifo, y)
  PROVE  Network(s, n, g, r, high)
<1>1. UpToDate(s, r, high)
  BY DEF Network, UpToDate
<1>2. BoardTrue(r, high, n, g)
  BY DEF Network, BoardTrue
<1> QED BY <1>1, <1>2 DEF Network

\* The sink moves on from n and g to m and f
LEMMA SinkMoves ==
  ASSUME NEW s, NEW n \in Nat, NEW g, NEW q, NEW high \in Int, Network(s, n, g, q, high),
         NEW m \in 0 .. N, n <= m, NEW f, g \subseteq f
  PROVE  Network(s, m, f, q, high)
<1>1. s \in Seq(AckTypes) /\ AcksTrue(s, n, g) /\ m \in Nat
  BY Bounds DEF Network, AcksTrue
<1>2. ASSUME NEW i \in 1..Len(s) PROVE AckTrue(s[i], m, f)
  <2>1. PICK a : a = s[i]
    OBVIOUS
  <2>2. AckTrue(a, n, g) /\ a.ack \in Int
    BY <1>1, <2>1, AckFields DEF AcksTrue
  <2>3. a.ack < m
    BY <1>1, <2>2 DEF AckTrue
  <2>4. AckTrue(a, m, f)
    BY <2>2, <2>3 DEF AckTrue
  <2> QED BY <2>1, <2>4
<1>3. AcksTrue(s, m, f)
  BY <1>1, <1>2 DEF AcksTrue
<1>4. BoardTrue(q, high, m, f)
  <2>1. high < n /\ \A y \in Nat : Covers(q.fifo, y) => y \in g
    BY DEF Network, BoardTrue
  <2>2. high < m
    BY <1>1, <2>1
  <2> QED BY <2>1, <2>2 DEF BoardTrue
<1> QED BY <1>3, <1>4 DEF Network

\* The sink sends an acknowledgement of all it has
LEMMA AckAdded ==
  ASSUME NEW s, NEW n \in 0 .. N, NEW g, NEW q, NEW high \in Int, Network(s, n, g, q, high),
         n \notin g, NEW b \in Seq(Edges),
         \A k \in 1..Len(b) : b[k].l < b[k].r /\ n < b[k].l /\ Packets(b[k]) \subseteq g
  PROVE  Network(Append(s, [ack |-> n - 1, sack |-> b]), n, g, q, high)
<1>1. s \in Seq(AckTypes) /\ AcksTrue(s, n, g) /\ n \in Nat /\ N \in Nat /\ Len(s) \in Nat
  BY Bounds, AckFields DEF Network, AcksTrue
<1>2. PICK a : a = [ack |-> n - 1, sack |-> b]
  OBVIOUS
<1>3. a.ack = n - 1 /\ a.sack = b /\ a.ack + 1 = n
  BY <1>1, <1>2
<1>4. a \in AckTypes
  <2>1. n - 1 \in -1 .. N - 1
    BY <1>1
  <2> QED BY <1>2, <2>1 DEF AckTypes
<1>5. AckTrue(a, n, g)
  BY <1>1, <1>3 DEF AckTrue
<1>6. PICK t : t = Append(s, a)
  OBVIOUS
<1>7. /\ t \in Seq(AckTypes) /\ Len(t) = Len(s) + 1
      /\ \A i \in 1..Len(t) : (i \in 1..Len(s) /\ t[i] = s[i]) \/ (i = Len(s) + 1 /\ t[i] = a)
  BY <1>1, <1>4, <1>6
<1>8. \A i \in 1..Len(t) : AckTrue(t[i], n, g)
  BY <1>1, <1>5, <1>7 DEF AcksTrue
<1>9. ASSUME NEW j \in 1..Len(s) PROVE InTurn(s[j], a)
  <2>1. PICK c : c = s[j]
    OBVIOUS
  <2>2. AckTrue(c, n, g) /\ c.ack \in Int
    BY <1>1, <2>1, AckFields DEF AcksTrue
  <2>3. c.ack <= a.ack
    BY <1>1, <1>3, <2>2 DEF AckTrue
  <2>4. \A k \in 1..Len(c.sack) : a.ack + 1 \notin Packets(c.sack[k])
    BY <1>3, <2>2 DEF AckTrue
  <2> QED BY <2>1, <2>3, <2>4 DEF InTurn
<1>10. ASSUME NEW j \in 1..Len(t), NEW i \in 1..Len(t), j < i PROVE InTurn(t[j], t[i])
  <2>1. j \in 1..Len(s) /\ t[j] = s[j]
    BY <1>1, <1>7, <1>10
  <2>2. CASE i \in 1..Len(s)
    <3>1. t[i] = s[i]
      BY <1>1, <1>7, <2>2
    <3> QED BY <1>1, <1>10, <2>1, <2>2, <3>1 DEF AcksTrue
  <2>3. CASE i = Len(s) + 1
    <3>1. t[i] = a
      BY <1>1, <1>7, <2>3
    <3> QED BY <1>9, <2>1, <3>1
  <2> QED BY <1>7, <2>2, <2>3
<1>11. high <= a.ack /\ ~Covers(q.fifo, a.ack + 1)
  <2>1. high < n
    BY DEF Network, BoardTrue
  <2>2. ~Covers(q.fifo, n)
    BY <1>1 DEF Network, BoardTrue
  <2> QED BY <1>1, <1>3, <2>1, <2>2
<1>12. UpToDate(t, q, high)
  BY <1>7, <1>11 DEF Network, UpToDate
<1>13. AcksTrue(t, n, g)
  BY <1>7, <1>8, <1>10 DEF AcksTrue
<1> QED BY <1>2, <1>6, <1>12, <1>13 DEF Network

-----------------------------------------------------------------------------
(* The steps *)

LEMMA Numbers ==
  ASSUME IInv
  PROVE  /\ snd.high \in -1 .. N - 1 /\ snd.high \in Int /\ next \in 0 .. N /\ next \in Nat
         /\ N \in Nat /\ snd \in Senders
<1>1. snd \in Senders /\ next \in 0 .. N
  BY DEF IInv, SenderOK, SinkOK, SinkTypes
<1> QED BY <1>1, SenderFields, Bounds DEF SenderParts

\* Nothing moves at the sink
LEMMA SinkRests ==
  ASSUME IInv, UNCHANGED sink
  PROVE  SinkOK' /\ Have' = Have /\ next' = next /\ Keeps
<1>1. next' = next /\ seen' = seen /\ blocks' = blocks /\ delayed' = delayed
  BY DEF sink
<1>2. Have' = Have
  BY <1>1 DEF Have
<1>3. SinkTypes' /\ DelayCalm'
  BY <1>1 DEF IInv, SinkOK, SinkTypes, DelayCalm
<1>4. SackIslands'
  BY <1>1, <1>2, Zenon DEF IInv, SinkOK, SackIslands
<1>5. Keeps
  BY <1>1 DEF Keeps, Told
<1> QED BY <1>1, <1>2, <1>3, <1>4, <1>5 DEF SinkOK

LEMMA EmittedPackets ==
  ASSUME data \in Seq(Packet), SenderOK(snd'), Emit
  PROVE  data' \in Seq(Packet)
<1>1. snd' \in Senders
  BY DEF SenderOK
<1>2. snd'.out \in Seq(Packet)
  BY <1>1, SenderFields DEF SenderParts
<1> QED BY <1>2, Joined DEF Emit

\* A step of the sender that takes no acknowledgement
LEMMA SenderStep ==
  ASSUME IInv, UNCHANGED sink, acks' = acks, SenderOK(snd'), Emit, snd'.high = snd.high,
         \A y : Covers(snd'.q.fifo, y) => Covers(snd.q.fifo, y)
  PROVE  IInv' /\ Keeps
<1>1. Network(acks, next, Have, snd.q, snd.high)
  BY DEF IInv
<1>2. Network(acks, next, Have, snd'.q, snd.high)
  BY <1>1, BoardShrinks
<1>3. SinkOK' /\ Have' = Have /\ next' = next /\ Keeps
  BY SinkRests
<1>4. data' \in Seq(Packet)
  BY EmittedPackets DEF IInv
<1>5. Network(acks, next, Have, snd.q, snd.high)'
  BY <1>2, <1>3
<1>6. SenderOK(snd)'
  OBVIOUS
<1> QED BY <1>3, <1>4, <1>5, <1>6 DEF IInv

LEMMA StartStep ==
  ASSUME IInv, Start
  PROVE  IInv' /\ Keeps
<1>1. SenderOK(snd') /\ snd'.high = snd.high /\ snd'.q = snd.q
  BY StartSends DEF IInv
<1>2. \A y : Covers(snd'.q.fifo, y) => Covers(snd.q.fifo, y)
  BY <1>1
<1>3. UNCHANGED sink /\ acks' = acks /\ Emit
  BY DEF Start
<1> QED BY <1>1, <1>2, <1>3, SenderStep

LEMMA TimeoutStep ==
  ASSUME IInv, Timeout
  PROVE  IInv' /\ Keeps
<1>1. SenderOK(snd') /\ snd'.high = snd.high /\ snd'.q.fifo = <<>>
  BY TimeoutClears DEF IInv
<1>2. \A y : Covers(snd'.q.fifo, y) => Covers(snd.q.fifo, y)
  BY <1>1, NothingCovered
<1>3. UNCHANGED sink /\ acks' = acks /\ Emit
  BY DEF Timeout
<1> QED BY <1>1, <1>2, <1>3, SenderStep

LEMMA RecvAckStep ==
  ASSUME IInv, RecvAck
  PROVE  IInv' /\ Keeps
<1>1. /\ acks # <<>> /\ acks' = Tail(acks) /\ Emit /\ UNCHANGED sink
      /\ Network(acks, next, Have, snd.q, snd.high) /\ SenderOK(snd)
  BY DEF RecvAck, IInv
<1>2. PICK p : p = Head(acks)
  OBVIOUS
<1>3. Timely(snd, p)
  BY <1>1, <1>2, HeadTimely
<1>4. \/ NewAck(Sender, p) \/ DupAck(Sender, p) \/ AfterTimeout(Sender, p)
      \/ FullAck(Sender, p) \/ PartialAck(Sender, p) \/ RecoveryDup(Sender, p)
  BY <1>2 DEF RecvAck
<1>5. Learned(snd, snd', p)
  BY <1>1, <1>3, <1>4, TakenLearns
<1>6. Network(Tail(acks), next, Have, snd'.q, snd'.high)
  BY <1>1, <1>2, <1>5, AckedTrue, Numbers
<1>7. SinkOK' /\ Have' = Have /\ next' = next /\ Keeps
  BY <1>1, SinkRests
<1>8. SenderOK(snd')
  BY <1>5 DEF Learned
<1>9. data' \in Seq(Packet)
  BY <1>1, <1>8, EmittedPackets DEF IInv
<1>10. Network(acks, next, Have, snd.q, snd.high)'
  BY <1>1, <1>6, <1>7
<1>11. SenderOK(snd)'
  BY <1>8
<1> QED BY <1>7, <1>9, <1>10, <1>11 DEF IInv

\* The sink takes a packet, or sends the acknowledgement it delayed
LEMMA SinkMovesOn ==
  ASSUME IInv, SinkStep, snd' = snd, data' \in Seq(Packet)
  PROVE  IInv' /\ Keeps
<1>1. PICK m : m = next'
  OBVIOUS
<1>2. PICK f : f = Have'
  OBVIOUS
<1>3. PICK b : b = blocks'
  OBVIOUS
<1>4. /\ m \in 0 .. N /\ b \in Seq(Edges) /\ Have \subseteq f /\ next <= m
      /\ acks' = acks \/ acks' = Append(acks, [ack |-> m - 1, sack |-> b])
  BY <1>1, <1>2, <1>3 DEF SinkStep, SinkOK, SinkTypes
<1>5. Network(acks, next, Have, snd.q, snd.high)
  BY DEF IInv
<1>6. Network(acks, m, f, snd.q, snd.high)
  BY <1>4, <1>5, SinkMoves, Numbers
<1>7. seen' \subseteq m + 1 .. N - 1 /\ f = 0 .. m - 1 \cup seen'
  BY <1>1, <1>2 DEF SinkStep, SinkOK, SinkTypes, Have
<1>8. m \notin f
  BY <1>4, <1>7, Bounds
<1>9. ASSUME NEW k \in 1..Len(b)
      PROVE  b[k].l < b[k].r /\ m < b[k].l /\ Packets(b[k]) \subseteq f
  <2>1. k \in DOMAIN blocks' /\ b[k] \in Edges
    BY <1>3, <1>4
  <2>2. SackIslands'
    BY DEF SinkStep, SinkOK
  <2>3. blocks'[k].l < blocks'[k].r /\ Packets(blocks'[k]) \subseteq seen'
    BY <2>1, <2>2 DEF SackIslands, Packets
  <2>4. b[k].l < b[k].r /\ Packets(b[k]) \subseteq seen'
    BY <1>3, <2>3
  <2>5. b[k].l \in Packets(b[k])
    BY <2>1, <2>4, BlockFields DEF Packets
  <2>6. b[k].l \in m + 1 .. N - 1
    BY <1>7, <2>4, <2>5
  <2>7. m < b[k].l
    BY <1>4, <2>6, Bounds
  <2> QED BY <1>7, <2>4, <2>7
<1>10. Network(Append(acks, [ack |-> m - 1, sack |-> b]), m, f, snd.q, snd.high)
  BY <1>4, <1>6, <1>8, <1>9, AckAdded, Numbers
<1>11. Network(acks', m, f, snd.q, snd.high)
  BY <1>4, <1>6, <1>10
<1>12. Network(acks, next, Have, snd.q, snd.high)'
  BY <1>1, <1>2, <1>11
<1>13. SinkOK' /\ Keeps
  BY DEF SinkStep
<1>14. SenderOK(snd)'
  BY DEF IInv
<1> QED BY <1>12, <1>13, <1>14 DEF IInv

LEMMA LoseStep ==
  ASSUME IInv, Lose
  PROVE  IInv' /\ Keeps
<1>1. snd' = snd /\ UNCHANGED sink
  BY DEF Lose
<1>2. SinkOK' /\ Have' = Have /\ next' = next /\ Keeps
  BY <1>1, SinkRests
<1>3. SenderOK(snd)'
  BY <1>1 DEF IInv
<1>4. Network(acks, next, Have, snd.q, snd.high) /\ data \in Seq(Packet)
  BY DEF IInv
<1>5. Network(acks', next, Have, snd.q, snd.high) /\ data' \in Seq(Packet)
  <2>1. CASE data # <<>> /\ data' = Tail(data) /\ acks' = acks
    BY <1>4, <2>1
  <2>2. CASE acks # <<>> /\ acks' = Tail(acks) /\ data' = data
    BY <1>4, <2>2, AckLost
  <2> QED BY <2>1, <2>2 DEF Lose
<1>6. Network(acks, next, Have, snd.q, snd.high)'
  BY <1>1, <1>2, <1>5
<1> QED BY <1>2, <1>3, <1>5, <1>6 DEF IInv

LEMMA StutterStep ==
  ASSUME IInv, UNCHANGED vars
  PROVE  IInv' /\ Keeps
<1>1. UNCHANGED sink /\ snd' = snd /\ data' = data /\ acks' = acks
  BY DEF vars
<1>2. SinkOK' /\ Have' = Have /\ next' = next /\ Keeps
  BY <1>1, SinkRests
<1>3. Network(acks, next, Have, snd.q, snd.high)' /\ SenderOK(snd)' /\ (data \in Seq(Packet))'
  BY <1>1, <1>2 DEF IInv
<1> QED BY <1>2, <1>3 DEF IInv

LEMMA Step ==
  ASSUME IInv, [Next]_vars
  PROVE  IInv' /\ Keeps
<1>1. CASE RecvData
  <2>1. SinkStep /\ data' \in Seq(Packet)
    BY <1>1, RecvDataStep DEF IInv
  <2>2. snd' = snd
    BY <1>1 DEF RecvData
  <2> QED BY <2>1, <2>2, SinkMovesOn
<1>2. CASE DelayTimer
  <2>1. SinkStep
    BY <1>2, DelayTimerStep DEF IInv
  <2>2. snd' = snd /\ data' \in Seq(Packet)
    BY <1>2 DEF DelayTimer, IInv
  <2> QED BY <2>1, <2>2, SinkMovesOn
<1> QED BY <1>1, <1>2, StartStep, TimeoutStep, RecvAckStep, LoseStep, StutterStep DEF Next

LEMMA Initially ==
  ASSUME Init
  PROVE  IInv
<1>1. PICK q : q = EmptyQueue(-1)
  OBVIOUS
<1>2. q = [fifo |-> <<>>, lifo |-> <<>>, nxt |-> -1]
  BY <1>1 DEF EmptyQueue
<1>3. q \in Boards /\ q.fifo = <<>> /\ q.lifo = <<>> /\ q.nxt = -1
  BY <1>2 DEF Boards
<1>4. Fits(q, -1)
  BY <1>3 DEF Fits
<1>w. PICK c : c = InitialWindow
  OBVIOUS
<1>c. c \in 0 .. W
  BY <1>w, Bounds DEF InitialWindow, MinOf
<1>5. snd = [t |-> 0, max |-> -1, high |-> -1, last |-> -1, rtx |-> FALSE, cwnd |-> c,
             dup |-> 0, recover |-> 0, tmo |-> FALSE, fast |-> FALSE, pipe |-> 0,
             q |-> q, h |-> -1, more |-> FALSE, out |-> <<>>]
  BY <1>w, <1>1 DEF Init
<1>6. SenderParts(snd)
  BY <1>3, <1>5, <1>c, Bounds DEF SenderParts
<1>7. SenderShape(snd) /\ snd.q = q /\ snd.high = -1 /\ snd.last = -1
  BY <1>5 DEF SenderShape
<1>8. SenderOK(snd)
  BY <1>4, <1>6, <1>7, SenderMade DEF SenderOK
<1>9. next = 0 /\ seen = {} /\ blocks = <<>> /\ delayed = -1 /\ data = <<>> /\ acks = <<>>
  BY DEF Init
<1>10. SinkOK
  <2>1. SinkTypes
    BY <1>9, Bounds DEF SinkTypes
  <2>2. SackIslands
    BY <1>9 DEF SackIslands, IsInjective
  <2> QED BY <1>9, <2>1, <2>2 DEF SinkOK, DelayCalm
<1>11. Network(acks, next, Have, snd.q, snd.high)
  <2>1. \A i \in 1..Len(acks) : FALSE
    BY <1>9, EmptySeq
  <2>2. acks \in Seq(AckTypes)
    BY <1>9
  <2>3. \A y \in Nat : ~Covers(snd.q.fifo, y)
    BY <1>3, <1>7, NothingCovered
  <2>4. AcksTrue(acks, next, Have) /\ UpToDate(acks, snd.q, snd.high)
    BY <2>1, <2>2, Zenon DEF AcksTrue, UpToDate
  <2>5. BoardTrue(snd.q, snd.high, next, Have)
    BY <1>7, <1>9, <2>3 DEF BoardTrue
  <2> QED BY <2>4, <2>5 DEF Network
<1>12. data \in Seq(Packet)
  BY <1>9
<1> QED BY <1>8, <1>10, <1>11, <1>12 DEF IInv

LEMMA IsScoreTruth ==
  ASSUME IInv
  PROVE  ScoreTruth
<1>1. Network(acks, next, Have, snd.q, snd.high) /\ SackIslands
  BY DEF IInv, SinkOK
<1>2. ASSUME NEW i \in DOMAIN snd.q.fifo PROVE Covered(snd.q.fifo[i]) \subseteq Have
  <2>1. snd.q.fifo \in Seq(Blk)
    BY Numbers, SenderFields DEF SenderParts, Boards
  <2>2. PICK x : x = snd.q.fifo[i]
    OBVIOUS
  <2>3. i \in 1..Len(snd.q.fifo) /\ x.s \in Nat /\ x.e \in Nat
    BY <2>1, <2>2, BlocksAre
  <2>4. ASSUME NEW y \in x.s .. x.e - 1 PROVE y \in Have
    <3>1. y \in Nat /\ x.s <= y /\ y < x.e
      BY <2>3
    <3>2. Covers(snd.q.fifo, y)
      BY <2>2, <2>3, <3>1 DEF Covers
    <3> QED BY <1>1, <3>1, <3>2 DEF Network, BoardTrue
  <2> QED BY <2>2, <2>4 DEF Covered
<1>3. snd.q.nxt <= next /\ snd.high < next
  <2>1. snd.high < next
    BY <1>1 DEF Network, BoardTrue
  <2>2. snd.q.nxt \in -1 .. snd.high + 1
    BY DEF IInv, SenderOK, Fits
  <2> QED BY <2>1, <2>2, Numbers
<1>4. ASSUME NEW i \in DOMAIN acks, NEW k \in DOMAIN acks[i].sack
      PROVE  /\ acks[i].ack < acks[i].sack[k].l - 1
             /\ Packets(acks[i].sack[k]) \subseteq Have
  <2>1. acks \in Seq(AckTypes)
    BY <1>1 DEF Network, AcksTrue
  <2>2. PICK a : a = acks[i]
    OBVIOUS
  <2>3. i \in 1..Len(acks) /\ a.ack \in Int /\ a.sack \in Seq(Edges)
    BY <2>1, <2>2, AckFields
  <2>4. k \in 1..Len(a.sack) /\ a.sack[k] \in Edges
    BY <2>2, <2>3
  <2>5. a.ack + 1 < a.sack[k].l /\ Packets(a.sack[k]) \subseteq Have
    BY <1>1, <2>2, <2>3, <2>4 DEF Network, AcksTrue, AckTrue
  <2>6. a.ack < a.sack[k].l - 1
    BY <2>3, <2>4, <2>5, BlockFields
  <2> QED BY <2>2, <2>5, <2>6
<1> QED BY <1>1, <1>2, <1>3, <1>4 DEF ScoreTruth

\* Nothing is sent or acknowledged beyond the flow, and cwnd_, the count of
\* duplicates and the stack of blocks stay within their limits.
THEOREM SackTypes == Spec => []TypeOK
<1>1. Init => IInv
  BY Initially
<1>2. IInv /\ [Next]_vars => IInv'
  BY Step
<1>3. IInv => TypeOK
  BY SenderFields DEF IInv, SenderOK, SenderParts, SinkOK, SinkTypes, TypeOK
<1> QED BY <1>1, <1>2, <1>3, PTL DEF Spec

\* The sender takes for received only what the sink has, whatever is lost and
\* however blocks are merged, forgotten and reported again.
THEOREM SackTruth == Spec => []ScoreTruth
<1>1. Init => IInv
  BY Initially
<1>2. IInv /\ [Next]_vars => IInv'
  BY Step
<1>3. IInv => ScoreTruth
  BY IsScoreTruth
<1> QED BY <1>1, <1>2, <1>3, PTL DEF Spec

\* The packet just received is reported if it lies above a gap, and an island is
\* forgotten only when the stack is full.
THEOREM IslandsKept == Spec => SackKeeps
<1> DEFINE Step1 == /\ seen' \ seen \subseteq Told'
                    /\ Len(blocks') < NBlocks => Told \cap seen' \subseteq Told'
<1>1. Init => IInv
  BY Initially
<1>2. IInv /\ [Next]_vars => IInv'
  BY Step
<1>3. IInv /\ [Next]_vars => [Step1]_vars
  BY Step DEF Keeps
<1> QED BY <1>1, <1>2, <1>3, PTL DEF Spec, SackKeeps
=============================================================================
