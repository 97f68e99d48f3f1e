----------------------------- MODULE NccsProofs ------------------------------
(***************************************************************************)
(* Theorems about the NCCS scripts.                                         *)
(*                                                                          *)
(* A flow (IAFlow), for every number of packets, window, initial window,    *)
(* threshold and number of losses: type correctness, the order of           *)
(* acknowledgements, the respect of the advertised window, and that nothing *)
(* is retransmitted for duplicates when nothing is lost.                    *)
(*                                                                          *)
(* The controller (NccsController), for every number of flows, every block, *)
(* packet size and cap: type correctness, that the application is finished  *)
(* only when every flow is complete, and the pacing of SYNs and flows.      *)
(***************************************************************************)
EXTENDS IAFlow, NccsController, SequenceTheorems, FiniteSetTheorems, TLAPS

Data == INSTANCE DataTheorems

-----------------------------------------------------------------------------
(* The invariant of a flow *)

\* Nothing beyond maxseq_ is in flight or kept by the client, and a timer is
\* pending only when something was sent
SentBound ==
  /\ \A i \in DOMAIN data : data[i] <= maxseq
  /\ \A n \in seen : n <= maxseq
  /\ rtx => maxseq >= 0

\* Acknowledgements arrive in the order of their numbers
AcksSorted == \A i, j \in DOMAIN acks : i < j => acks[i].ackno <= acks[j].ackno

Inv == TypeOK /\ AckOrder /\ WindowRespected /\ SentBound /\ AcksSorted

-----------------------------------------------------------------------------
(* Sequences and sets of numbers *)

\* A sequence whose elements all belong to T is a sequence over T
LEMMA SeqOver ==
  ASSUME NEW U, NEW s \in Seq(U), NEW T, \A i \in 1..Len(s) : s[i] \in T
  PROVE  s \in Seq(T)
<1>1. Len(s) \in Nat /\ s \in [1..Len(s) -> U]
  BY LenProperties
<1>2. s \in [1..Len(s) -> T]
  BY <1>1
<1> QED BY <1>1, <1>2, SeqDef

\* What remains of a sequence when its i-th element is lost
LEMMA RemoveAtFacts ==
  ASSUME NEW U, NEW s \in Seq(U), NEW i \in DOMAIN s
  PROVE  /\ RemoveAt(s, i) \in Seq(U)
         /\ Len(RemoveAt(s, i)) = Len(s) - 1
         /\ \A j \in 1..Len(s) - 1 : RemoveAt(s, i)[j] = s[IF j < i THEN j ELSE j + 1]
<1> DEFINE a == SubSeq(s, 1, i - 1)
           b == SubSeq(s, i + 1, Len(s))
<1>1. Len(s) \in Nat /\ i \in 1..Len(s)
  OBVIOUS
<1>2. /\ a \in Seq(U) /\ Len(a) = i - 1
      /\ \A j \in 1..i - 1 : a[j] = s[j]
  BY <1>1
<1>3. /\ b \in Seq(U) /\ Len(b) = Len(s) - i
      /\ \A j \in 1..Len(s) - i : b[j] = s[j + i]
  BY <1>1
<1>4. RemoveAt(s, i) = a \o b
  BY DEF RemoveAt
<1> HIDE DEF a, b
<1>5. RemoveAt(s, i) \in Seq(U) /\ Len(RemoveAt(s, i)) = Len(s) - 1
  BY <1>1, <1>2, <1>3, <1>4
<1> DEFINE c == a \o b
<1>6. \A j \in 1..Len(a) + Len(b) : c[j] = IF j <= Len(a) THEN a[j] ELSE b[j - Len(a)]
  BY <1>2, <1>3, ConcatProperties
<1> HIDE DEF c
<1>7. ASSUME NEW j \in 1..Len(s) - 1
      PROVE  RemoveAt(s, i)[j] = s[IF j < i THEN j ELSE j + 1]
  <2>1. CASE j < i
    <3>1. j \in 1..Len(a) + Len(b) /\ j <= Len(a) /\ j \in 1..i - 1
      BY <1>1, <1>2, <1>3, <2>1
    <3> QED BY <1>2, <1>4, <1>6, <2>1, <3>1 DEF c
  <2>2. CASE ~(j < i)
    <3>1. j - (i - 1) \in 1..Len(s) - i /\ (j - (i - 1)) + i = j + 1
      BY <1>1, <2>2
    <3>2. j \in 1..Len(a) + Len(b) /\ j > Len(a) /\ j - Len(a) = j - (i - 1)
      BY <1>1, <1>2, <1>3, <2>2
    <3>3. c[j] = b[j - Len(a)]
      BY <1>2, <1>6, <3>2
    <3>4. b[j - (i - 1)] = s[j + 1]
      BY <1>3, <3>1
    <3> QED BY <1>4, <2>2, <3>2, <3>3, <3>4 DEF c
  <2> QED BY <2>1, <2>2
<1> QED BY <1>5, <1>7

\* next_ is a packet, or the end of the flow, up to which everything was seen
LEMMA NextMissingFacts ==
  ASSUME NEW got \in SUBSET (0..N-1)
  PROVE  /\ NextMissing(got) \in 0..N /\ NextMissing(got) \notin got
         /\ 0..NextMissing(got)-1 \subseteq got
<1>1. N \in Nat
  BY IAFlowAssumption DEF IAFlowAssumption
<1>2. PICK n \in (0..N) \ got : \A m \in (0..N) \ got : n <= m
  <2> DEFINE T == (0..N) \ got
  <2>1. T \in SUBSET Nat /\ T # {}
    <3>1. N \in T
      BY <1>1
    <3> QED BY <3>1
  <2>2. \E n \in T : \A m \in T : n <= m
    <3> HIDE DEF T
    <3> QED BY <2>1, Data!LeastElement
  <2> QED BY <2>2
<1>3. ASSUME NEW k \in 0..n-1 PROVE k \in got
  BY <1>1, <1>2, <1>3
<1>4. n \in 0..N /\ n \notin got /\ 0..n-1 \subseteq got
  BY <1>2, <1>3
<1> QED BY <1>4 DEF NextMissing

-----------------------------------------------------------------------------
(* Sending *)

\* A burst of send_much consists of packets between its first and its last
LEMMA BurstFacts ==
  ASSUME NEW t \in Nat, NEW n \in Nat
  PROVE  /\ n = 0 => Burst(t, n) = <<>>
         /\ n > 0 => Burst(t, n) \in Seq(t..t+n-1)
<1>1. MaxDupSyn \in Nat \ {0}
  BY IAFlowAssumption DEF IAFlowAssumption
<1> DEFINE extra == IF t = 0 /\ n > 0 THEN MaxDupSyn - 1 ELSE 0
<1>2. extra \in Nat /\ (n = 0 => extra = 0)
  BY <1>1
<1>3. Burst(t, n) = [i \in 1..n + extra |-> MaxOf(t, t + i - 1 - extra)]
  BY DEF Burst
<1> HIDE DEF extra
<1>4. CASE n = 0
  BY <1>2, <1>3, <1>4
<1>5. CASE n > 0
  <2>1. \A i \in 1..n + extra : MaxOf(t, t + i - 1 - extra) \in t..t+n-1
    BY <1>2, <1>5 DEF MaxOf
  <2>2. n + extra \in Nat
    BY <1>2
  <2> QED BY <1>3, <1>5, <2>1, <2>2
<1> QED BY <1>4, <1>5

\* A call of send_much that starts at packet t and acknowledges up to h keeps
\* to the packets of the flow and to the advertised window
LEMMA SendMuchFacts ==
  ASSUME NEW t \in 0..N, NEW h \in -1..N-1, NEW win \in 0..W, NEW maxburst \in Nat,
         NEW timer \in BOOLEAN, NEW sent \in -1..N-1,
         TypeOK, SentBound, maxseq <= h + W, sent <= h + 1, timer => maxseq >= 0,
         SendMuch(t, h, win, maxburst, timer, sent)
  PROVE  /\ t_seqno' \in 0..N /\ maxseq' \in -1..N-1 /\ rtx' \in BOOLEAN
         /\ data' \in Seq(0..N-1)
         /\ maxseq <= maxseq' /\ maxseq' <= h + W
         /\ \A i \in DOMAIN data' : data'[i] <= maxseq'
         /\ rtx' => maxseq' >= 0
<1> DEFINE room == MaxOf(0, MinOf(h + win, N - 1) - t + 1)
           n    == IF maxburst > 0 THEN MinOf(room, maxburst) ELSE room
           last == IF n > 0 THEN t + n - 1 ELSE -1
           own  == IF sent >= 0 THEN <<sent>> ELSE <<>>
<1>1. N \in Nat /\ N >= 2 /\ W \in Nat \ {0}
  BY IAFlowAssumption DEF IAFlowAssumption
<1>2. /\ maxseq \in -1..N-1 /\ data \in Seq(0..N-1)
      /\ \A i \in DOMAIN data : data[i] <= maxseq
  BY DEF TypeOK, SentBound
<1>3. room \in Nat /\ (room > 0 => t + room - 1 <= h + win /\ t + room - 1 <= N - 1)
  BY <1>1 DEF MaxOf, MinOf
<1>4. n \in Nat /\ n <= room
  BY <1>3 DEF MinOf
<1>5. n > 0 => t + n - 1 <= h + win /\ t + n - 1 <= N - 1
  <2> HIDE DEF room, n
  <2> QED BY <1>1, <1>3, <1>4
<1>6. /\ t_seqno' = t + n
      /\ maxseq' = MaxOf(maxseq, MaxOf(sent, last))
      /\ rtx' = (timer \/ n > 0 \/ sent >= 0)
      /\ data' = data \o own \o Burst(t, n)
  BY DEF SendMuch
<1> HIDE DEF room, n
<1>7. t_seqno' \in 0..N
  <2>1. room = 0 \/ t + room <= N
    BY <1>1, <1>3
  <2> QED BY <1>1, <1>3, <1>4, <1>6, <2>1
<1>8. last \in -1..N-1 /\ last <= h + W
  BY <1>1, <1>4, <1>5
<1>9. /\ maxseq' \in -1..N-1 /\ maxseq <= maxseq' /\ sent <= maxseq' /\ last <= maxseq'
      /\ maxseq' <= h + W
  BY <1>1, <1>2, <1>6, <1>8, SMTT(20) DEF MaxOf
<1>10. rtx' \in BOOLEAN /\ (rtx' => maxseq' >= 0)
  BY <1>1, <1>2, <1>4, <1>6, <1>9
<1> DEFINE P == 0..maxseq'
<1>11. data \in Seq(P)
  <2>1. \A i \in 1..Len(data) : data[i] \in P
    BY <1>1, <1>2, <1>9, ElementOfSeq
  <2> HIDE DEF P
  <2> QED BY <1>2, <2>1, SeqOver
<1>12. own \in Seq(P)
  <2>1. sent >= 0 => sent \in P
    BY <1>1, <1>9
  <2>2. <<>> \in Seq(P)
    BY EmptySeq
  <2> HIDE DEF P
  <2> QED BY <2>1, <2>2
<1>13. Burst(t, n) \in Seq(P)
  <2>1. CASE n = 0
    <3>1. Burst(t, n) = <<>>
      BY <1>1, <2>1, BurstFacts
    <3> QED BY <3>1, EmptySeq
  <2>2. CASE n > 0
    <3>1. Burst(t, n) \in Seq(t..t+n-1)
      BY <1>1, <1>4, <2>2, BurstFacts
    <3>2. t..t+n-1 \subseteq P
      BY <1>1, <1>4, <1>9, <2>2
    <3> HIDE DEF P
    <3> QED BY <3>1, <3>2, SeqMonotonic
  <2> QED BY <1>4, <2>1, <2>2
<1>14. data' \in Seq(P)
  <2> HIDE DEF P, own
  <2> QED BY <1>6, <1>11, <1>12, <1>13, ConcatProperties
<1>15. P \subseteq 0..N-1
  BY <1>1, <1>9
<1>16. data' \in Seq(0..N-1) /\ \A i \in DOMAIN data' : data'[i] <= maxseq'
  <2>1. \A i \in DOMAIN data' : data'[i] \in P
    <3> HIDE DEF P
    <3> QED BY <1>14, LenProperties, ElementOfSeq
  <2>2. data' \in Seq(0..N-1)
    BY <1>14, <1>15, SeqMonotonic
  <2> QED BY <1>1, <1>9, <2>1, <2>2
<1> QED BY <1>7, <1>9, <1>10, <1>16

\* The window send_much is called with is within the advertised one
LEMMA WindowBound ==
  ASSUME NEW c \in Nat, NEW d \in Nat
  PROVE  Window(c, d) \in 0..W
BY IAFlowAssumption DEF IAFlowAssumption, Window, MinOf

-----------------------------------------------------------------------------
(* The steps of the server *)

\* What the first acknowledgement and the others have in common
LEMMA HeadFacts ==
  ASSUME Inv, acks # <<>>
  PROVE  /\ Head(acks) \in Ack /\ Tail(acks) \in Seq(Ack)
         /\ highest_ack <= Head(acks).ackno /\ Head(acks).ackno < next
         /\ \A i \in DOMAIN Tail(acks) : /\ Head(acks).ackno <= Tail(acks)[i].ackno
                                         /\ Tail(acks)[i].ackno < next
         /\ \A i, j \in DOMAIN Tail(acks) : i < j => Tail(acks)[i].ackno <= Tail(acks)[j].ackno
<1>1. acks \in Seq(Ack) /\ Len(acks) \in Nat /\ Len(acks) > 0
  BY EmptySeq, LenProperties DEF Inv, TypeOK
<1>2. /\ Head(acks) \in Ack /\ Tail(acks) \in Seq(Ack) /\ Len(Tail(acks)) = Len(acks) - 1
      /\ \A i \in 1..Len(Tail(acks)) : Tail(acks)[i] = acks[i + 1]
  BY <1>1, HeadTailProperties
<1>3. DOMAIN acks = 1..Len(acks) /\ DOMAIN Tail(acks) = 1..Len(acks) - 1
  BY <1>1, <1>2, LenProperties
<1>4. Head(acks) = acks[1] /\ 1 \in DOMAIN acks
  BY <1>1, <1>3
<1>5. /\ \A i \in DOMAIN acks : highest_ack <= acks[i].ackno /\ acks[i].ackno < next
      /\ \A i, j \in DOMAIN acks : i < j => acks[i].ackno <= acks[j].ackno
  BY DEF Inv, AckOrder, AcksSorted
<1>6. ASSUME NEW i \in DOMAIN Tail(acks)
      PROVE  i + 1 \in DOMAIN acks /\ Tail(acks)[i] = acks[i + 1] /\ 1 < i + 1
  BY <1>1, <1>2, <1>3
<1>7. ASSUME NEW i \in DOMAIN Tail(acks), NEW j \in DOMAIN Tail(acks), i < j
      PROVE  Tail(acks)[i].ackno <= Tail(acks)[j].ackno
  <2>1. i + 1 < j + 1
    BY <1>3, <1>7
  <2> QED BY <1>5, <1>6, <2>1
<1> QED BY <1>2, <1>4, <1>5, <1>6, <1>7

LEMMA Between ==
  ASSUME NEW h \in Int, NEW a \in Int, NEW n \in Int, NEW m \in Int, NEW k \in Int,
         h <= a, a < n, n <= m + 1, m <= k
  PROVE  h < n /\ n <= k + 1
OBVIOUS

\* An acknowledgement that moves highest_ack_ to its number, or leaves it, and
\* sends within the window preserves the invariant
LEMMA ServerStep ==
  ASSUME Inv, acks # <<>>, acks' = Tail(acks), UNCHANGED <<sinkVars, netVars>>,
         highest_ack' = highest_ack \/ highest_ack' = Head(acks).ackno,
         t_seqno' \in 0..N, maxseq' \in -1..N-1, rtx' \in BOOLEAN,
         cwnd' \in 0..W, dupwnd' \in Nat, dupacks' \in 0..Thresh+1,
         recover' \in 0..N-1, wait' \in BOOLEAN, data' \in Seq(0..N-1),
         maxseq <= maxseq', maxseq' <= highest_ack' + W,
         \A i \in DOMAIN data' : data'[i] <= maxseq', rtx' => maxseq' >= 0
  PROVE  Inv'
<1>1. N \in Nat /\ W \in Nat
  BY IAFlowAssumption DEF IAFlowAssumption
<1>2. TypeOK /\ AckOrder /\ SentBound
  BY DEF Inv
<1>3. UNCHANGED <<next, seen, active, activated, drops, early>>
  BY DEF sinkVars, netVars
<1>4. highest_ack \in -1..N-1 /\ maxseq \in -1..N-1 /\ next \in 0..N /\ seen \subseteq 0..N-1
  BY <1>2 DEF TypeOK
<1>5. /\ Head(acks).ackno \in -1..N-1
      /\ highest_ack <= Head(acks).ackno /\ Head(acks).ackno < next
  BY HeadFacts DEF Ack
<1>6. highest_ack' \in -1..N-1 /\ highest_ack' <= Head(acks).ackno /\ highest_ack <= highest_ack'
  BY <1>4, <1>5, SMTT(20)
<1>7. TypeOK'
  BY <1>2, <1>3, <1>6, HeadFacts DEF TypeOK
<1>8. AckOrder'
  <2>1. highest_ack' < next' /\ next' <= maxseq' + 1
    <3>1. next <= maxseq + 1 /\ next' = next
      BY <1>2, <1>3 DEF AckOrder
    <3>2. maxseq <= maxseq' /\ maxseq' \in Int /\ maxseq \in Int /\ next \in Int
      BY <1>1, <1>4
    <3>3. highest_ack' \in Int /\ Head(acks).ackno \in Int
      BY <1>1, <1>5, <1>6
    <3>4. highest_ack' <= Head(acks).ackno /\ Head(acks).ackno < next
      BY <1>5, <1>6
    <3>5. highest_ack' < next /\ next <= maxseq' + 1
      BY <3>1, <3>2, <3>3, <3>4, Between, Zenon
    <3> QED BY <3>1, <3>5
  <2>2. ASSUME NEW i \in DOMAIN acks'
        PROVE  highest_ack' <= acks'[i].ackno /\ acks'[i].ackno < next'
    <3>1. acks'[i] \in Ack
      BY HeadFacts, LenProperties, ElementOfSeq
    <3>2. acks'[i].ackno \in -1..N-1
      BY <3>1 DEF Ack
    <3>3. Head(acks).ackno <= acks'[i].ackno /\ acks'[i].ackno < next
      BY HeadFacts
    <3> QED BY <1>3, <1>5, <1>6, <3>2, <3>3, SMTT(20)
  <2> QED BY <2>1, <2>2 DEF AckOrder
<1>9. WindowRespected'
  BY DEF WindowRespected
<1>10. SentBound'
  BY <1>1, <1>2, <1>3, <1>4 DEF SentBound
<1>11. AcksSorted'
  BY HeadFacts DEF AcksSorted
<1> QED BY <1>7, <1>8, <1>9, <1>10, <1>11 DEF Inv

\* The facts about the server that every step starts from
LEMMA ServerFacts ==
  ASSUME Inv
  PROVE  /\ N \in Nat /\ N >= 2 /\ W \in Nat \ {0} /\ Thresh \in Nat /\ Thresh >= 2
         /\ t_seqno \in 0..N /\ maxseq \in -1..N-1 /\ highest_ack \in -1..N-1
         /\ rtx \in BOOLEAN /\ cwnd \in 0..W /\ dupwnd \in Nat /\ dupacks \in 0..Thresh+1
         /\ recover \in 0..N-1 /\ wait \in BOOLEAN /\ data \in Seq(0..N-1)
         /\ TypeOK /\ SentBound
         /\ highest_ack <= maxseq /\ maxseq <= highest_ack + W
         /\ \A i \in DOMAIN data : data[i] <= maxseq
         /\ rtx => maxseq >= 0
BY IAFlowAssumption DEF IAFlowAssumption, Inv, TypeOK, AckOrder, WindowRespected, SentBound

LEMMA ZeroWindowStep ==
  ASSUME Inv, acks # <<>>, acks' = Tail(acks), UNCHANGED <<sinkVars, netVars>>,
         ZeroWindow(Head(acks))
  PROVE  Inv'
<1>1. /\ wait' = TRUE /\ rtx' = FALSE
      /\ UNCHANGED <<t_seqno, maxseq, data, highest_ack, cwnd, dupwnd, dupacks, recover>>
  BY DEF ZeroWindow
<1>2. maxseq <= maxseq'
  BY <1>1, ServerFacts
<1> QED BY <1>1, <1>2, ServerFacts, ServerStep

LEMMA NewAckStep ==
  ASSUME Inv, acks # <<>>, acks' = Tail(acks), UNCHANGED <<sinkVars, netVars>>,
         NewAck(Head(acks))
  PROVE  Inv'
<1> DEFINE a == Head(acks).ackno
           t == MaxOf(t_seqno, a + 1)
<1>1. a \in -1..N-1 /\ a < next /\ next \in 0..N /\ next <= maxseq + 1
  BY HeadFacts DEF Ack, Inv, TypeOK, AckOrder
<1>2. /\ a > highest_ack /\ highest_ack' = a /\ wait' = FALSE /\ dupacks' = 0 /\ dupwnd' = 0
      /\ cwnd' \in Opened(a) /\ recover' = recover
      /\ SendMuch(t, a, Window(cwnd', 0), 0, TRUE, -1)
  BY DEF NewAck
<1> HIDE DEF a
<1>s. /\ N \in Nat /\ N >= 2 /\ W \in Nat \ {0} /\ Thresh \in Nat
      /\ t_seqno \in 0..N /\ maxseq \in -1..N-1 /\ highest_ack \in -1..N-1
      /\ cwnd \in 0..W /\ recover \in 0..N-1
      /\ maxseq <= highest_ack + W
  BY ServerFacts
<1>3. cwnd' \in 0..W
  BY <1>2, <1>s DEF Opened, MinOf
<1>4. Window(cwnd', 0) \in 0..W
  BY <1>3, <1>s, WindowBound
<1>5. t \in 0..N
  BY <1>1, <1>s DEF MaxOf
<1> HIDE DEF t
<1>6. maxseq <= a + W /\ -1 <= a + 1 /\ maxseq >= 0 /\ -1 \in -1..N-1
  BY <1>1, <1>2, <1>s
<1>7. /\ t_seqno' \in 0..N /\ maxseq' \in -1..N-1 /\ rtx' \in BOOLEAN /\ data' \in Seq(0..N-1)
      /\ maxseq <= maxseq' /\ maxseq' <= a + W
      /\ \A i \in DOMAIN data' : data'[i] <= maxseq'
      /\ rtx' => maxseq' >= 0
  BY <1>1, <1>2, <1>4, <1>5, <1>6, ServerFacts, SendMuchFacts
<1>8. dupwnd' \in Nat /\ dupacks' \in 0..Thresh+1 /\ recover' \in 0..N-1
  BY <1>2, <1>s
<1>9. wait' \in BOOLEAN
  BY <1>2
<1> QED BY <1>2, <1>3, <1>7, <1>8, <1>9, ServerStep DEF a

LEMMA PartialAckStep ==
  ASSUME Inv, acks # <<>>, acks' = Tail(acks), UNCHANGED <<sinkVars, netVars>>,
         PartialAck(Head(acks))
  PROVE  Inv'
<1> DEFINE a == Head(acks).ackno
           t == MaxOf(t_seqno, a + 1)
<1>1. a \in -1..N-1 /\ a < next /\ next \in 0..N /\ next <= maxseq + 1
  BY HeadFacts DEF Ack, Inv, TypeOK, AckOrder
<1>2. /\ a > highest_ack /\ highest_ack' = a /\ dupwnd > 0 /\ a < recover
      /\ UNCHANGED <<dupacks, recover, wait>>
      /\ SendMuch(t, a, Window(cwnd', dupwnd'), 2, TRUE, a + 1)
  BY DEF PartialAck, IsPartial
<1>3. IF dupwnd > a - highest_ack
      THEN dupwnd' = dupwnd - ((a - highest_ack) - 1) /\ cwnd' = MaxOf(1, cwnd)
      ELSE dupwnd' = 1 /\ cwnd' = MaxOf(1, cwnd - ((a - highest_ack) - dupwnd))
  BY DEF PartialAck
<1> HIDE DEF a
<1>s. /\ N \in Nat /\ N >= 2 /\ W \in Nat \ {0} /\ Thresh \in Nat
      /\ t_seqno \in 0..N /\ maxseq \in -1..N-1 /\ highest_ack \in -1..N-1
      /\ cwnd \in 0..W /\ dupwnd \in Nat /\ recover \in 0..N-1
      /\ maxseq <= highest_ack + W
  BY ServerFacts
<1>4. cwnd' \in 0..W /\ dupwnd' \in Nat
  BY <1>1, <1>2, <1>3, <1>s DEF MaxOf
<1>5. Window(cwnd', dupwnd') \in 0..W
  BY <1>4, <1>s, WindowBound
<1>6. t \in 0..N
  BY <1>1, <1>s DEF MaxOf
<1> HIDE DEF t
<1>7. maxseq <= a + W /\ a + 1 <= a + 1 /\ maxseq >= 0 /\ a + 1 \in -1..N-1
  BY <1>1, <1>2, <1>s
<1>8. /\ t_seqno' \in 0..N /\ maxseq' \in -1..N-1 /\ rtx' \in BOOLEAN /\ data' \in Seq(0..N-1)
      /\ maxseq <= maxseq' /\ maxseq' <= a + W
      /\ \A i \in DOMAIN data' : data'[i] <= maxseq'
      /\ rtx' => maxseq' >= 0
  BY <1>1, <1>2, <1>5, <1>6, <1>7, ServerFacts, SendMuchFacts
<1>9. dupacks' \in 0..Thresh+1 /\ recover' \in 0..N-1
  BY <1>2, ServerFacts
<1>10. wait' \in BOOLEAN
  BY <1>2, ServerFacts
<1> QED BY <1>2, <1>4, <1>8, <1>9, <1>10, ServerStep DEF a

LEMMA DupAckStep ==
  ASSUME Inv, acks # <<>>, acks' = Tail(acks), UNCHANGED <<sinkVars, netVars>>,
         DupAck(Head(acks))
  PROVE  Inv'
<1> DEFINE sends == dupacks + 1 >= Thresh
<1>1. /\ dupacks' = MinOf(dupacks + 1, Thresh + 1)
      /\ dupwnd' = IF dupacks + 1 > Thresh /\ dupwnd > 0 THEN dupwnd + 1 ELSE dupwnd
      /\ UNCHANGED <<highest_ack, cwnd, recover, wait>>
  BY DEF DupAck
<1>2. IF sends THEN SendMuch(t_seqno, highest_ack, Window(cwnd, dupwnd'), 2, rtx, -1)
      ELSE UNCHANGED sendVars
  BY DEF DupAck
<1> HIDE DEF sends
<1>s. /\ N \in Nat /\ N >= 2 /\ W \in Nat \ {0} /\ Thresh \in Nat
      /\ t_seqno \in 0..N /\ maxseq \in -1..N-1 /\ highest_ack \in -1..N-1
      /\ cwnd \in 0..W /\ dupwnd \in Nat /\ dupacks \in 0..Thresh+1 /\ recover \in 0..N-1
      /\ maxseq <= highest_ack + W /\ rtx \in BOOLEAN /\ (rtx => maxseq >= 0)
  BY ServerFacts
<1>3. dupacks' \in 0..Thresh+1 /\ dupwnd' \in Nat /\ cwnd' \in 0..W /\ recover' \in 0..N-1
  BY <1>1, <1>s DEF MinOf
<1>4. wait' \in BOOLEAN
  BY <1>1, ServerFacts
<1>5. /\ t_seqno' \in 0..N /\ maxseq' \in -1..N-1 /\ rtx' \in BOOLEAN /\ data' \in Seq(0..N-1)
      /\ maxseq <= maxseq' /\ maxseq' <= highest_ack + W
      /\ \A i \in DOMAIN data' : data'[i] <= maxseq'
      /\ rtx' => maxseq' >= 0
  <2>1. CASE sends
    <3>1. Window(cwnd, dupwnd') \in 0..W
      <4>1. cwnd \in Nat /\ dupwnd' \in Nat
        BY <1>3, <1>s
      <4> QED BY <4>1, WindowBound
    <3>2. -1 <= highest_ack + 1 /\ -1 \in -1..N-1
      BY <1>s
    <3> QED BY <1>2, <1>s, <2>1, <3>1, <3>2, ServerFacts, SendMuchFacts
  <2>2. CASE ~sends
    <3>1. UNCHANGED <<t_seqno, maxseq, rtx, data>>
      BY <1>2, <2>2 DEF sendVars
    <3>2. maxseq <= maxseq
      BY <1>s
    <3> QED BY <3>1, <3>2, ServerFacts
  <2> QED BY <2>1, <2>2
<1> QED BY <1>1, <1>3, <1>4, <1>5, ServerStep

LEMMA FastRetransmitStep ==
  ASSUME Inv, acks # <<>>, acks' = Tail(acks), UNCHANGED <<sinkVars, netVars>>,
         FastRetransmit(Head(acks))
  PROVE  Inv'
<1>1. dupacks' = Thresh /\ UNCHANGED <<highest_ack, wait>>
  BY DEF FastRetransmit
<1>2. CanFastRetransmit =>
        /\ recover' = maxseq /\ cwnd' = Window(cwnd, dupwnd) \div 2 /\ dupwnd' = Thresh
        /\ SendMuch(t_seqno, highest_ack, Window(cwnd', dupwnd'), 2, TRUE, highest_ack + 1)
  BY DEF FastRetransmit
<1>3. ~CanFastRetransmit =>
        /\ UNCHANGED <<recover, cwnd, dupwnd>>
        /\ SendMuch(t_seqno, highest_ack, Window(cwnd, dupwnd), 2, rtx, -1)
  BY DEF FastRetransmit
<1>s. /\ N \in Nat /\ N >= 2 /\ W \in Nat \ {0} /\ Thresh \in Nat
      /\ t_seqno \in 0..N /\ maxseq \in -1..N-1 /\ highest_ack \in -1..N-1
      /\ highest_ack <= maxseq
      /\ cwnd \in 0..W /\ dupwnd \in Nat /\ recover \in 0..N-1
      /\ maxseq <= highest_ack + W /\ rtx \in BOOLEAN /\ (rtx => maxseq >= 0)
  BY ServerFacts
<1>4. Window(cwnd, dupwnd) \in 0..W
  <2>1. cwnd \in Nat /\ dupwnd \in Nat
    BY <1>s
  <2> QED BY <2>1, WindowBound
<1>5. dupacks' \in 0..Thresh+1
  BY <1>1, <1>s
<1>6. wait' \in BOOLEAN
  BY <1>1, ServerFacts
<1>7. CASE CanFastRetransmit
  <2>1. N > highest_ack + 1 /\ highest_ack >= 0
    BY <1>7, <1>s DEF CanFastRetransmit
  <2>2. cwnd' \in 0..W /\ dupwnd' \in Nat /\ recover' \in 0..N-1
    BY <1>2, <1>4, <1>7, <1>s, <2>1
  <2>3. Window(cwnd', dupwnd') \in 0..W
    BY <2>2, <1>s, WindowBound
  <2>4. highest_ack + 1 <= highest_ack + 1 /\ highest_ack + 1 \in -1..N-1 /\ maxseq >= 0
    BY <1>s, <2>1
  <2>5. /\ t_seqno' \in 0..N /\ maxseq' \in -1..N-1 /\ rtx' \in BOOLEAN /\ data' \in Seq(0..N-1)
        /\ maxseq <= maxseq' /\ maxseq' <= highest_ack + W
        /\ \A i \in DOMAIN data' : data'[i] <= maxseq'
        /\ rtx' => maxseq' >= 0
    BY <1>2, <1>7, <1>s, <2>3, <2>4, ServerFacts, SendMuchFacts
  <2> QED BY <1>1, <1>5, <1>6, <2>2, <2>5, ServerStep
<1>8. CASE ~CanFastRetransmit
  <2>1. -1 <= highest_ack + 1 /\ -1 \in -1..N-1
    BY <1>s
  <2>2. /\ t_seqno' \in 0..N /\ maxseq' \in -1..N-1 /\ rtx' \in BOOLEAN /\ data' \in Seq(0..N-1)
        /\ maxseq <= maxseq' /\ maxseq' <= highest_ack + W
        /\ \A i \in DOMAIN data' : data'[i] <= maxseq'
        /\ rtx' => maxseq' >= 0
    BY <1>3, <1>4, <1>8, <1>s, <2>1, ServerFacts, SendMuchFacts, SMTT(20)
  <2>3. cwnd' \in 0..W /\ dupwnd' \in Nat /\ recover' \in 0..N-1
    BY <1>3, <1>8, <1>s
  <2> QED BY <1>1, <1>5, <1>6, <2>2, <2>3, ServerStep
<1> QED BY <1>7, <1>8

LEMMA RecvAckStep == Inv /\ RecvAck => Inv'
<1> SUFFICES ASSUME Inv, RecvAck PROVE Inv'
  OBVIOUS
<1>1. acks # <<>> /\ acks' = Tail(acks) /\ UNCHANGED <<sinkVars, netVars>>
  BY DEF RecvAck
<1>2. CASE ZeroWindow(Head(acks))
  BY <1>1, <1>2, ZeroWindowStep
<1>3. CASE NewAck(Head(acks))
  BY <1>1, <1>3, NewAckStep
<1>4. CASE PartialAck(Head(acks))
  BY <1>1, <1>4, PartialAckStep
<1>5. CASE DupAck(Head(acks))
  BY <1>1, <1>5, DupAckStep
<1>6. CASE FastRetransmit(Head(acks))
  BY <1>1, <1>6, FastRetransmitStep
<1> QED BY <1>2, <1>3, <1>4, <1>5, <1>6 DEF RecvAck

\* A step of the server that no acknowledgement causes
LEMMA SourceStep ==
  ASSUME Inv, UNCHANGED <<highest_ack, wait, sinkVars, acks, drops>>,
         t_seqno' \in 0..N, maxseq' \in -1..N-1, rtx' \in BOOLEAN,
         cwnd' \in 0..W, dupwnd' \in Nat, dupacks' \in 0..Thresh+1,
         recover' \in 0..N-1, early' \in 0..MaxEarly, data' \in Seq(0..N-1),
         maxseq <= maxseq', maxseq' <= highest_ack + W,
         \A i \in DOMAIN data' : data'[i] <= maxseq', rtx' => maxseq' >= 0
  PROVE  Inv'
<1>1. N \in Nat /\ W \in Nat
  BY IAFlowAssumption DEF IAFlowAssumption
<1>2. UNCHANGED <<highest_ack, wait, next, seen, active, activated, acks, drops>>
  BY DEF sinkVars
<1>3. highest_ack \in -1..N-1 /\ maxseq \in -1..N-1 /\ next \in 0..N /\ seen \subseteq 0..N-1
  BY DEF Inv, TypeOK
<1>4. TypeOK'
  BY <1>2 DEF TypeOK, Inv
<1>5. AckOrder'
  <2>1. highest_ack < next /\ next <= maxseq + 1
    BY DEF Inv, AckOrder
  <2>2. next <= maxseq' + 1
    <3>1. maxseq <= maxseq' /\ maxseq \in Int /\ maxseq' \in Int /\ next \in Int
      BY <1>1, <1>3
    <3>2. highest_ack \in Int /\ highest_ack <= highest_ack
      BY <1>1, <1>3
    <3> QED BY <2>1, <3>1, <3>2, Between, Zenon
  <2> QED BY <1>2, <2>1, <2>2 DEF AckOrder, Inv
<1>6. WindowRespected'
  BY <1>2 DEF WindowRespected
<1>7. SentBound'
  BY <1>1, <1>2, <1>3 DEF SentBound, Inv
<1>8. AcksSorted'
  BY <1>2 DEF AcksSorted, Inv
<1> QED BY <1>4, <1>5, <1>6, <1>7, <1>8 DEF Inv

LEMMA StartStep == Inv /\ Start => Inv'
<1> SUFFICES ASSUME Inv, Start PROVE Inv'
  OBVIOUS
<1>1. /\ SendMuch(t_seqno, highest_ack, Window(cwnd, dupwnd), 0, FALSE, -1)
      /\ UNCHANGED <<highest_ack, cwnd, dupwnd, dupacks, recover, wait, early>>
      /\ UNCHANGED <<highest_ack, wait, sinkVars, acks, drops>>
  BY DEF Start, ctlVars, netVars
<1>2. /\ N \in Nat /\ N >= 2 /\ highest_ack \in -1..N-1 /\ t_seqno \in 0..N
      /\ cwnd \in 0..W /\ W \in Nat /\ dupwnd \in Nat /\ maxseq <= highest_ack + W
  BY ServerFacts
<1>3. Window(cwnd, dupwnd) \in 0..W /\ -1 <= highest_ack + 1 /\ -1 \in -1..N-1
  BY <1>2, WindowBound
<1>4. /\ t_seqno' \in 0..N /\ maxseq' \in -1..N-1 /\ rtx' \in BOOLEAN /\ data' \in Seq(0..N-1)
      /\ maxseq <= maxseq' /\ maxseq' <= highest_ack + W
      /\ \A i \in DOMAIN data' : data'[i] <= maxseq'
      /\ rtx' => maxseq' >= 0
  BY <1>1, <1>2, <1>3, ServerFacts, SendMuchFacts
<1>5. cwnd' \in 0..W /\ dupwnd' \in Nat /\ dupacks' \in 0..Thresh+1 /\ recover' \in 0..N-1
  BY <1>1, ServerFacts
<1>6. early' \in 0..MaxEarly
  BY <1>1 DEF Inv, TypeOK
<1> QED BY <1>1, <1>4, <1>5, <1>6, SourceStep

LEMMA TimeoutStep == Inv /\ Timeout => Inv'
<1> SUFFICES ASSUME Inv, Timeout PROVE Inv'
  OBVIOUS
<1>1. /\ SendMuch(highest_ack + 1, highest_ack, Window(1, 0), 0, TRUE, -1)
      /\ rtx /\ dupwnd' = 0 /\ dupacks' = 0 /\ cwnd' = 1 /\ recover' = maxseq
      /\ UNCHANGED <<highest_ack, wait, sinkVars, acks, drops>>
  BY DEF Timeout
<1>2. /\ N \in Nat /\ N >= 2 /\ highest_ack \in -1..N-1 /\ maxseq \in -1..N-1
      /\ W \in Nat \ {0} /\ Thresh \in Nat /\ maxseq <= highest_ack + W /\ maxseq >= 0
  BY <1>1, ServerFacts
<1>3. Window(1, 0) \in 0..W
  BY WindowBound
<1>4. highest_ack + 1 \in 0..N /\ -1 <= highest_ack + 1 /\ -1 \in -1..N-1
  BY <1>2
<1>5. /\ t_seqno' \in 0..N /\ maxseq' \in -1..N-1 /\ rtx' \in BOOLEAN /\ data' \in Seq(0..N-1)
      /\ maxseq <= maxseq' /\ maxseq' <= highest_ack + W
      /\ \A i \in DOMAIN data' : data'[i] <= maxseq'
      /\ rtx' => maxseq' >= 0
  BY <1>1, <1>2, <1>3, <1>4, ServerFacts, SendMuchFacts
<1>6. cwnd' \in 0..W /\ dupwnd' \in Nat /\ dupacks' \in 0..Thresh+1 /\ recover' \in 0..N-1
  BY <1>1, <1>2
<1>7. early' \in 0..MaxEarly
  <2>1. early \in 0..MaxEarly /\ MaxEarly \in Nat
    BY IAFlowAssumption DEF IAFlowAssumption, Inv, TypeOK
  <2>2. early' = early \/ (early < MaxEarly /\ early' = early + 1)
    BY DEF Timeout
  <2> QED BY <2>1, <2>2
<1> QED BY <1>1, <1>5, <1>6, <1>7, SourceStep

-----------------------------------------------------------------------------
(* The steps of the client and of the network *)

\* A step that leaves the server's own state alone
LEMMA ClientStep ==
  ASSUME Inv, UNCHANGED <<t_seqno, maxseq, rtx, ctlVars, early>>,
         data' \in Seq(0..N-1), \A i \in DOMAIN data' : data'[i] <= maxseq,
         next' \in 0..N, next <= next', next' <= maxseq + 1,
         seen' \subseteq 0..N-1, \A n \in seen' : n <= maxseq,
         active' \in BOOLEAN, activated' \in BOOLEAN, drops' \in 0..MaxDrops,
         acks' \in Seq(Ack), AcksSorted',
         \A i \in DOMAIN acks' : highest_ack <= acks'[i].ackno /\ acks'[i].ackno < next'
  PROVE  Inv'
<1>1. UNCHANGED <<t_seqno, maxseq, highest_ack, rtx, cwnd, dupwnd, dupacks, recover, wait, early>>
  BY DEF ctlVars
<1>2. TypeOK'
  BY <1>1 DEF TypeOK, Inv
<1>3. AckOrder'
  <2>1. highest_ack < next' /\ next' <= maxseq + 1
    <3>1. highest_ack < next /\ highest_ack \in Int /\ next \in Int /\ next' \in Int
      BY IAFlowAssumption DEF IAFlowAssumption, Inv, TypeOK, AckOrder
    <3> QED BY <3>1
  <2> QED BY <1>1, <2>1 DEF AckOrder
<1>4. WindowRespected'
  BY <1>1 DEF WindowRespected, Inv
<1>5. SentBound'
  BY <1>1 DEF SentBound, Inv
<1> QED BY <1>2, <1>3, <1>4, <1>5 DEF Inv

\* The facts about the client that its steps start from
LEMMA ClientFacts ==
  ASSUME Inv
  PROVE  /\ N \in Nat /\ next \in 0..N /\ seen \subseteq 0..N-1
         /\ maxseq \in -1..N-1 /\ next <= maxseq + 1 /\ \A n \in seen : n <= maxseq
         /\ data \in Seq(0..N-1) /\ \A i \in DOMAIN data : data[i] <= maxseq
         /\ active \in BOOLEAN /\ activated \in BOOLEAN /\ drops \in 0..MaxDrops
         /\ acks \in Seq(Ack) /\ AcksSorted
         /\ \A i \in DOMAIN acks : highest_ack <= acks[i].ackno /\ acks[i].ackno < next
         /\ highest_ack \in -1..N-1 /\ highest_ack < next
BY IAFlowAssumption DEF IAFlowAssumption, Inv, TypeOK, AckOrder, SentBound

\* An acknowledgement of next_ - 1 goes behind all others
LEMMA AppendFacts ==
  ASSUME Inv, NEW k \in 0..N, next <= k, NEW a \in Ack, a.ackno = k - 1
  PROVE  /\ Append(acks, a) \in Seq(Ack)
         /\ \A i \in DOMAIN Append(acks, a) :
              highest_ack <= Append(acks, a)[i].ackno /\ Append(acks, a)[i].ackno < k
         /\ \A i, j \in DOMAIN Append(acks, a) :
              i < j => Append(acks, a)[i].ackno <= Append(acks, a)[j].ackno
<1> DEFINE b == Append(acks, a)
<1>1. /\ acks \in Seq(Ack) /\ N \in Nat /\ next \in 0..N
      /\ highest_ack \in -1..N-1 /\ highest_ack < next
      /\ \A i \in DOMAIN acks : highest_ack <= acks[i].ackno /\ acks[i].ackno < next
      /\ \A i, j \in DOMAIN acks : i < j => acks[i].ackno <= acks[j].ackno
  BY ClientFacts DEF AcksSorted
<1>2. /\ Len(acks) \in Nat /\ DOMAIN acks = 1..Len(acks)
      /\ b \in Seq(Ack) /\ Len(b) = Len(acks) + 1 /\ DOMAIN b = 1..Len(acks) + 1
      /\ \A i \in 1..Len(acks) : b[i] = acks[i]
      /\ b[Len(acks) + 1] = a
  BY <1>1, LenProperties, AppendProperties
<1> HIDE DEF b
<1>3. ASSUME NEW i \in 1..Len(acks)
      PROVE  /\ b[i].ackno \in Int /\ highest_ack <= b[i].ackno
             /\ b[i].ackno < k /\ b[i].ackno <= k - 1
  <2>1. b[i] \in Ack /\ b[i] = acks[i]
    BY <1>1, <1>2, ElementOfSeq
  <2>2. b[i].ackno \in -1..N-1
    BY <2>1 DEF Ack
  <2>3. highest_ack <= b[i].ackno /\ b[i].ackno < next
    BY <1>1, <1>2, <2>1
  <2> QED BY <1>1, <2>2, <2>3
<1>4. highest_ack <= k - 1 /\ k - 1 < k
  BY <1>1
<1>5. ASSUME NEW i \in DOMAIN b PROVE highest_ack <= b[i].ackno /\ b[i].ackno < k
  <2>1. i \in 1..Len(acks) \/ i = Len(acks) + 1
    BY <1>2
  <2> QED BY <1>2, <1>3, <1>4, <2>1
<1>6. ASSUME NEW i \in DOMAIN b, NEW j \in DOMAIN b, i < j
      PROVE  b[i].ackno <= b[j].ackno
  <2>1. i \in 1..Len(acks) /\ (j \in 1..Len(acks) \/ j = Len(acks) + 1)
    BY <1>2, <1>6
  <2>2. CASE j \in 1..Len(acks)
    BY <1>1, <1>2, <1>6, <2>1, <2>2
  <2>3. CASE j = Len(acks) + 1
    BY <1>2, <1>3, <2>1, <2>3
  <2> QED BY <2>1, <2>2, <2>3
<1> QED BY <1>2, <1>5, <1>6 DEF b

LEMMA RecvDataStep == Inv /\ RecvData => Inv'
<1> SUFFICES ASSUME Inv, RecvData PROVE Inv'
  OBVIOUS
<1> DEFINE got == seen \cup (0..next-1) \cup {Head(data)}
           n   == NextMissing(got)
           a   == [ackno |-> next' - 1, open |-> active', update |-> FALSE]
<1>1. /\ data # <<>> /\ data' = Tail(data) /\ next' = n /\ seen' = {m \in got : m > next'}
      /\ active' = (active \/ next' - 1 > 0) /\ acks' = Append(acks, a)
      /\ UNCHANGED <<t_seqno, maxseq, rtx, ctlVars, early>> /\ UNCHANGED <<activated, drops>>
  BY DEF RecvData, netVars
<1>c. /\ N \in Nat /\ next \in 0..N /\ seen \subseteq 0..N-1
      /\ maxseq \in -1..N-1 /\ next <= maxseq + 1 /\ \A m \in seen : m <= maxseq
      /\ data \in Seq(0..N-1) /\ \A i \in DOMAIN data : data[i] <= maxseq
      /\ active \in BOOLEAN /\ activated \in BOOLEAN /\ drops \in 0..MaxDrops
  BY ClientFacts
<1>2. /\ Head(data) \in 0..N-1 /\ Head(data) <= maxseq
      /\ data' \in Seq(0..N-1) /\ \A i \in DOMAIN data' : data'[i] <= maxseq
  <2>1. Len(data) \in Nat \ {0} /\ DOMAIN data = 1..Len(data) /\ Head(data) = data[1]
    BY <1>1, <1>c, EmptySeq, LenProperties
  <2>2. /\ Head(data) \in 0..N-1 /\ Tail(data) \in Seq(0..N-1)
        /\ Len(Tail(data)) = Len(data) - 1
        /\ \A i \in 1..Len(Tail(data)) : Tail(data)[i] = data[i + 1]
    BY <1>1, <1>c, HeadTailProperties
  <2>3. DOMAIN Tail(data) = 1..Len(data) - 1
    BY <2>2, LenProperties
  <2>4. ASSUME NEW i \in DOMAIN Tail(data) PROVE Tail(data)[i] <= maxseq
    <3>1. i + 1 \in DOMAIN data /\ Tail(data)[i] = data[i + 1]
      BY <2>1, <2>2, <2>3
    <3> QED BY <1>c, <3>1
  <2>5. Head(data) <= maxseq
    BY <1>c, <2>1
  <2> QED BY <1>1, <2>2, <2>4, <2>5
<1>3. got \in SUBSET (0..N-1) /\ \A m \in got : m <= maxseq
  <2>1. ASSUME NEW m \in got PROVE m \in 0..N-1 /\ m <= maxseq
    <3>1. CASE m \in seen
      BY <1>c, <3>1
    <3>2. CASE m \in 0..next-1
      BY <1>c, <3>2
    <3>3. CASE m = Head(data)
      BY <1>2, <3>3
    <3> QED BY <3>1, <3>2, <3>3
  <2> QED BY <2>1
<1> HIDE DEF got
<1>4. n \in 0..N /\ n \notin got /\ 0..n-1 \subseteq got
  BY <1>3, NextMissingFacts
<1>5. next <= n
  <2>1. 0..next-1 \subseteq got
    BY DEF got
  <2> QED BY <1>c, <1>4, <2>1
<1>6. n <= maxseq + 1
  <2>1. n = 0 \/ n - 1 \in got
    BY <1>4
  <2> QED BY <1>c, <1>3, <1>4, <2>1
<1> HIDE DEF n
<1>7. active' \in BOOLEAN
  BY <1>1
<1>8. a \in Ack /\ a.ackno = n - 1
  BY <1>1, <1>4, <1>7, <1>c DEF Ack
<1> HIDE DEF a
<1>9. /\ acks' \in Seq(Ack) /\ AcksSorted'
      /\ \A i \in DOMAIN acks' : highest_ack <= acks'[i].ackno /\ acks'[i].ackno < next'
  BY <1>1, <1>4, <1>5, <1>8, AppendFacts DEF AcksSorted
<1>10. seen' \subseteq 0..N-1 /\ \A m \in seen' : m <= maxseq
  BY <1>1, <1>3
<1>11. next' \in 0..N /\ next <= next' /\ next' <= maxseq + 1
  BY <1>1, <1>4, <1>5, <1>6
<1>12. activated' \in BOOLEAN /\ drops' \in 0..MaxDrops
  BY <1>1, <1>c
<1> QED BY <1>1, <1>2, <1>7, <1>9, <1>10, <1>11, <1>12, ClientStep

LEMMA ActivateStep == Inv /\ Activate => Inv'
<1> SUFFICES ASSUME Inv, Activate PROVE Inv'
  OBVIOUS
<1> DEFINE a == [ackno |-> next - 1, open |-> TRUE, update |-> TRUE]
<1>1. /\ activated' = TRUE /\ active' = TRUE /\ UNCHANGED <<data, next, seen, drops>>
      /\ acks' = IF next - 1 > -1 THEN Append(acks, a) ELSE acks
      /\ UNCHANGED <<t_seqno, maxseq, rtx, ctlVars, early>>
  BY DEF Activate, sendVars, netVars
<1>c. N \in Nat /\ next \in 0..N /\ next <= next
  BY ClientFacts
<1>2. a \in Ack /\ a.ackno = next - 1
  BY <1>c DEF Ack
<1> HIDE DEF a
<1>3. /\ acks' \in Seq(Ack) /\ AcksSorted'
      /\ \A i \in DOMAIN acks' : highest_ack <= acks'[i].ackno /\ acks'[i].ackno < next'
  <2>1. CASE acks' = Append(acks, a)
    BY <1>1, <1>2, <1>c, <2>1, AppendFacts DEF AcksSorted
  <2>2. CASE acks' = acks
    BY <1>1, <2>2, ClientFacts DEF AcksSorted
  <2> QED BY <1>1, <2>1, <2>2
<1>4. /\ data' \in Seq(0..N-1) /\ \A i \in DOMAIN data' : data'[i] <= maxseq
      /\ next' \in 0..N /\ next <= next' /\ next' <= maxseq + 1
      /\ seen' \subseteq 0..N-1 /\ \A n \in seen' : n <= maxseq
      /\ active' \in BOOLEAN /\ activated' \in BOOLEAN /\ drops' \in 0..MaxDrops
  BY <1>1, <1>c, ClientFacts
<1> QED BY <1>1, <1>3, <1>4, ClientStep

\* One more packet may be lost
LEMMA DropCounted ==
  ASSUME Inv, drops < MaxDrops, drops' = drops + 1
  PROVE  drops' \in 0..MaxDrops
<1>1. drops \in 0..MaxDrops /\ MaxDrops \in Nat
  BY IAFlowAssumption DEF IAFlowAssumption, Inv, TypeOK
<1> QED BY <1>1

LEMMA LoseDataStep == Inv /\ LoseData => Inv'
<1> SUFFICES ASSUME Inv, LoseData PROVE Inv'
  OBVIOUS
<1>1. PICK k \in DOMAIN data : data' = RemoveAt(data, k)
  BY DEF LoseData
<1>2. /\ UNCHANGED <<t_seqno, maxseq, rtx, ctlVars, early>>
      /\ UNCHANGED <<next, seen, active, activated, acks>>
      /\ drops < MaxDrops /\ drops' = drops + 1
  BY DEF LoseData, sinkVars
<1>3. data \in Seq(0..N-1) /\ \A i \in DOMAIN data : data[i] <= maxseq
  BY ClientFacts
<1>4. /\ data' \in Seq(0..N-1) /\ Len(data') = Len(data) - 1
      /\ \A j \in 1..Len(data) - 1 : data'[j] = data[IF j < k THEN j ELSE j + 1]
  BY <1>1, <1>3, RemoveAtFacts
<1>5. ASSUME NEW j \in DOMAIN data' PROVE data'[j] <= maxseq
  <2>1. Len(data) \in Nat /\ DOMAIN data = 1..Len(data) /\ DOMAIN data' = 1..Len(data')
    BY <1>3, <1>4, LenProperties
  <2>2. j \in 1..Len(data) - 1 /\ (IF j < k THEN j ELSE j + 1) \in DOMAIN data
    BY <1>4, <2>1
  <2> QED BY <1>3, <1>4, <2>2
<1>6. /\ next' \in 0..N /\ next <= next' /\ next' <= maxseq + 1
      /\ seen' \subseteq 0..N-1 /\ \A n \in seen' : n <= maxseq
      /\ active' \in BOOLEAN /\ activated' \in BOOLEAN
  BY <1>2, ClientFacts
<1>7. /\ acks' \in Seq(Ack) /\ AcksSorted'
      /\ \A i \in DOMAIN acks' : highest_ack <= acks'[i].ackno /\ acks'[i].ackno < next'
  BY <1>2, ClientFacts DEF AcksSorted
<1>8. drops' \in 0..MaxDrops
  BY <1>2, DropCounted
<1> QED BY <1>2, <1>4, <1>5, <1>6, <1>7, <1>8, ClientStep

LEMMA LoseAckStep == Inv /\ LoseAck => Inv'
<1> SUFFICES ASSUME Inv, LoseAck PROVE Inv'
  OBVIOUS
<1>1. PICK k \in DOMAIN acks : acks' = RemoveAt(acks, k)
  BY DEF LoseAck
<1>2. /\ UNCHANGED <<t_seqno, maxseq, rtx, ctlVars, early>>
      /\ UNCHANGED <<data, next, seen, active, activated>>
      /\ drops < MaxDrops /\ drops' = drops + 1
  BY DEF LoseAck, sendVars, sinkVars
<1>3. /\ acks \in Seq(Ack)
      /\ \A i \in DOMAIN acks : highest_ack <= acks[i].ackno /\ acks[i].ackno < next
      /\ \A i, j \in DOMAIN acks : i < j => acks[i].ackno <= acks[j].ackno
  BY ClientFacts DEF AcksSorted
<1>4. /\ acks' \in Seq(Ack) /\ Len(acks') = Len(acks) - 1
      /\ \A j \in 1..Len(acks) - 1 : acks'[j] = acks[IF j < k THEN j ELSE j + 1]
  BY <1>1, <1>3, RemoveAtFacts
<1>5. /\ Len(acks) \in Nat /\ DOMAIN acks = 1..Len(acks)
      /\ DOMAIN acks' = 1..Len(acks) - 1
  BY <1>3, <1>4, LenProperties
<1> DEFINE Old(j) == IF j < k THEN j ELSE j + 1
<1>6. ASSUME NEW j \in DOMAIN acks' PROVE Old(j) \in DOMAIN acks /\ acks'[j] = acks[Old(j)]
  BY <1>4, <1>5
<1>7. \A i, j \in DOMAIN acks' : i < j => Old(i) < Old(j)
  BY <1>5
<1> HIDE DEF Old
<1>8. AcksSorted'
  BY <1>3, <1>6, <1>7 DEF AcksSorted
<1>9. \A i \in DOMAIN acks' : highest_ack <= acks'[i].ackno /\ acks'[i].ackno < next'
  BY <1>2, <1>3, <1>6
<1>10. /\ data' \in Seq(0..N-1) /\ \A i \in DOMAIN data' : data'[i] <= maxseq
       /\ next' \in 0..N /\ next <= next' /\ next' <= maxseq + 1
       /\ seen' \subseteq 0..N-1 /\ \A n \in seen' : n <= maxseq
       /\ active' \in BOOLEAN /\ activated' \in BOOLEAN
  BY <1>2, ClientFacts
<1>11. drops' \in 0..MaxDrops
  BY <1>2, DropCounted
<1> QED BY <1>2, <1>4, <1>8, <1>9, <1>10, <1>11, ClientStep

-----------------------------------------------------------------------------
(* The theorems *)

LEMMA InitInv == Init => Inv
<1> SUFFICES ASSUME Init PROVE Inv
  OBVIOUS
<1>1. /\ N \in Nat /\ N >= 2 /\ W \in Nat \ {0} /\ IW \in Nat \ {0}
      /\ Thresh \in Nat /\ MaxDrops \in Nat /\ MaxEarly \in Nat
  BY IAFlowAssumption DEF IAFlowAssumption
<1>2. data = <<>> /\ acks = <<>> /\ DOMAIN data = {} /\ DOMAIN acks = {}
  BY DEF Init
<1>3. data \in Seq(0..N-1) /\ acks \in Seq(Ack)
  BY <1>2, EmptySeq
<1>4. TypeOK
  <2>1. cwnd \in 0..W /\ dupwnd \in Nat /\ dupacks \in 0..Thresh+1 /\ recover \in 0..N-1
    BY <1>1 DEF Init, MinOf
  <2>2. t_seqno \in 0..N /\ maxseq \in -1..N-1 /\ highest_ack \in -1..N-1 /\ next \in 0..N
    BY <1>1 DEF Init
  <2>3. drops \in 0..MaxDrops /\ early \in 0..MaxEarly /\ seen \subseteq 0..N-1
    BY <1>1 DEF Init
  <2>4. rtx \in BOOLEAN /\ wait \in BOOLEAN /\ active \in BOOLEAN /\ activated \in BOOLEAN
    BY DEF Init
  <2> QED BY <1>3, <2>1, <2>2, <2>3, <2>4 DEF TypeOK
<1>5. AckOrder
  BY <1>2 DEF Init, AckOrder
<1>6. WindowRespected /\ SentBound /\ AcksSorted
  BY <1>1, <1>2 DEF Init, WindowRespected, SentBound, AcksSorted
<1> QED BY <1>4, <1>5, <1>6 DEF Inv

LEMMA NextInv == Inv /\ [Next]_vars => Inv'
<1> SUFFICES ASSUME Inv, [Next]_vars PROVE Inv'
  OBVIOUS
<1>1. CASE Next
  BY <1>1, StartStep, TimeoutStep, RecvAckStep, RecvDataStep, ActivateStep,
     LoseDataStep, LoseAckStep DEF Next
<1>2. CASE UNCHANGED vars
  BY <1>2 DEF vars, sendVars, ctlVars, sinkVars, netVars, Inv, TypeOK, AckOrder,
     WindowRespected, SentBound, AcksSorted
<1> QED BY <1>1, <1>2

\* The invariant of which the theorems are parts
LEMMA InvHolds == Spec => []Inv
<1>1. Init => Inv
  BY InitInv
<1>2. Inv /\ [Next]_vars => Inv'
  BY NextInv
<1> QED BY <1>1, <1>2, PTL DEF Spec

\* Every variable of a flow keeps its type (TcpAgent, TcpIASink)
THEOREM FlowTypeCorrect == Spec => []TypeOK
<1>1. Inv => TypeOK
  BY DEF Inv
<1> QED BY <1>1, InvHolds, PTL

\* The server takes for acknowledged only what the client has received, the
\* client has only what was sent, and acknowledgements arrive in order, however
\* packets, copies of the SYN and window updates are lost or delayed (recv of
\* TcpIASink and IANewRenoTcpAgent)
THEOREM FlowAckOrder == Spec => []AckOrder
<1>1. Inv => AckOrder
  BY DEF Inv
<1> QED BY <1>1, InvHolds, PTL

\* The server never has more outstanding than the advertised window, in fast
\* recovery too (window, send_much, partialnewack_helper)
THEOREM WindowKept == Spec => []WindowRespected
<1>1. Inv => WindowRespected
  BY DEF Inv
<1> QED BY <1>1, InvHolds, PTL

-----------------------------------------------------------------------------
(* When nothing is lost and no timeout is premature *)

Quiet == drops = 0 /\ early = 0

\* How often the acknowledgement number k is repeated: by the copies of the SYN,
\* and once by the window update, which repeats the last number sent
Repeats(k) == IF k = 0 THEN MaxDupSyn - 1 ELSE IF activated THEN 1 ELSE 0

\* The packets d, the last of which is top, continue what the client has up to
\* nx - 1; only the SYN is repeated
Line(d, top, nx) ==
  /\ \A i \in 1..Len(d)-1 : d[i+1] = d[i] + 1 \/ (d[i] = 0 /\ d[i+1] = 0)
  /\ d # <<>> => d[Len(d)] = top /\ (d[1] = nx \/ (d[1] = 0 /\ nx = 1))
  /\ d = <<>> => nx = top + 1
  /\ \A i, j \in 1..Len(d) : i <= j /\ d[j] = 0 => d[i] = 0

InLine == Line(data, maxseq, next) /\ seen = {} /\ t_seqno = maxseq + 1 /\ dupwnd = 0

\* Acknowledgements with an open window follow those with a closed one; equal
\* numbers follow one another and are as few as Repeats says, the SYNs still
\* under way included
AcksInLine ==
  /\ ~activated /\ next <= 1 => ~active
  /\ ~active => \A j \in 1..Len(acks) : ~acks[j].open
  /\ \A a, j \in 1..Len(acks) : a <= j /\ acks[a].open => acks[j].open
  /\ \A j \in 1..Len(acks) : acks[j].ackno >= 0
  /\ acks # <<>> => acks[Len(acks)].ackno = next - 1
  /\ \A a, j \in 1..Len(acks) :
       a <= j /\ acks[a].open /\ acks[a].ackno = acks[j].ackno => j - a <= Repeats(acks[j].ackno)
  /\ \A i \in 1..Len(data) : data[i] = 0 =>
       /\ i <= MaxDupSyn /\ next <= 1 /\ (next = 1 => i <= MaxDupSyn - 1)
       /\ \A a \in 1..Len(acks) : acks[a].open => Len(acks) - a + i <= MaxDupSyn - 1

\* The same of the number the server has, counting what it has seen of it
ServerInLine ==
  /\ ~active => highest_ack = -1
  /\ highest_ack >= 0 => \A j \in 1..Len(acks) : acks[j].open
  /\ rtx /\ data = <<>> /\ acks = <<>> => highest_ack = next - 1
  /\ \A j \in 1..Len(acks) : acks[j].ackno = highest_ack => dupacks + j <= Repeats(highest_ack)
  /\ dupacks <= (IF highest_ack < 0 THEN 0 ELSE Repeats(highest_ack))
  /\ \A i \in 1..Len(data) :
       data[i] = 0 /\ highest_ack = 0 => dupacks + Len(acks) + i <= MaxDupSyn - 1

CalmInv == Quiet => InLine /\ AcksInLine /\ ServerInLine

LEMMA TailIs ==
  ASSUME NEW U, NEW s \in Seq(U), s # <<>>
  PROVE  /\ Tail(s) \in Seq(U) /\ Len(s) \in Nat /\ Len(s) >= 1 /\ Head(s) = s[1]
         /\ Len(Tail(s)) = Len(s) - 1
         /\ \A i \in 1..Len(s)-1 : Tail(s)[i] = s[i+1]
  BY EmptySeq, LenProperties, HeadTailProperties

\* The packets b are n consecutive ones from t on, and repetitions of the SYN
LineFrom(b, t, n) ==
  /\ b \in Seq(Nat) /\ Len(b) >= 1 /\ b[1] = t /\ b[Len(b)] = t + n - 1
  /\ \A i \in 1..Len(b)-1 : b[i+1] = b[i] + 1 \/ (b[i] = 0 /\ b[i+1] = 0)
  /\ \A i \in 1..Len(b) : b[i] = 0 => t = 0 /\ i <= MaxDupSyn
  /\ \A i, j \in 1..Len(b) : i <= j /\ b[j] = 0 => b[i] = 0

\* A burst of send_much is a line, and so is what it is appended to.  Only the
\* first burst of the flow holds the SYN.
LEMMA BurstLine ==
  ASSUME NEW t \in Nat, NEW n \in Nat, n > 0, NEW b, b = Burst(t, n)
  PROVE  LineFrom(b, t, n)
<1>1. MaxDupSyn \in Nat \ {0}
  BY IAFlowAssumption DEF IAFlowAssumption
<1>2. PICK x : x = IF t = 0 /\ n > 0 THEN MaxDupSyn - 1 ELSE 0
  OBVIOUS
<1>3. x \in Nat /\ (t = 0 => x = MaxDupSyn - 1) /\ (t # 0 => x = 0)
  BY <1>1, <1>2
<1>4. b = [i \in 1..n + x |-> MaxOf(t, t + i - 1 - x)]
  BY <1>2 DEF Burst
<1>5. n + x \in Nat
  BY <1>3
<1>6. \A i \in 1..n + x : b[i] = IF t <= t + i - 1 - x THEN t + i - 1 - x ELSE t
  BY <1>3, <1>4 DEF MaxOf
<1>7. b \in Seq(Nat) /\ Len(b) = n + x
  <2>1. \A i \in 1..n + x : MaxOf(t, t + i - 1 - x) \in Nat
    BY <1>3 DEF MaxOf
  <2> QED BY <1>4, <1>5, <2>1
<1>8. b[1] = t /\ b[n + x] = t + n - 1
  BY <1>3, <1>6
<1>9. ASSUME NEW i \in 1..Len(b)-1
      PROVE  b[i+1] = b[i] + 1 \/ (b[i] = 0 /\ b[i+1] = 0)
  <2>1. i \in 1..n + x /\ i + 1 \in 1..n + x /\ i \in Nat
    BY <1>3, <1>7
  <2>2. /\ b[i] = IF t <= t + i - 1 - x THEN t + i - 1 - x ELSE t
        /\ b[i+1] = IF t <= t + (i + 1) - 1 - x THEN t + (i + 1) - 1 - x ELSE t
    BY <1>6, <2>1
  <2> QED BY <1>3, <2>1, <2>2
<1>10. ASSUME NEW i \in 1..Len(b), b[i] = 0 PROVE t = 0 /\ i <= MaxDupSyn
  <2>1. i \in 1..n + x /\ i \in Nat
    BY <1>3, <1>7
  <2>2. b[i] = IF t <= t + i - 1 - x THEN t + i - 1 - x ELSE t
    BY <1>6, <2>1
  <2> QED BY <1>1, <1>3, <1>10, <2>1, <2>2
<1>11. ASSUME NEW i \in 1..Len(b), NEW j \in 1..Len(b), i <= j, b[j] = 0
       PROVE  b[i] = 0
  <2>1. i \in 1..n + x /\ i \in Nat /\ j \in 1..n + x /\ j \in Nat
    BY <1>3, <1>7
  <2>2. /\ b[i] = IF t <= t + i - 1 - x THEN t + i - 1 - x ELSE t
        /\ b[j] = IF t <= t + j - 1 - x THEN t + j - 1 - x ELSE t
    BY <1>6, <2>1
  <2> QED BY <1>3, <1>11, <2>1, <2>2
<1>12. Len(b) >= 1 /\ b[Len(b)] = t + n - 1
  BY <1>3, <1>7, <1>8
<1> QED BY <1>7, <1>8, <1>9, <1>10, <1>11, <1>12 DEF LineFrom

\* The SYNs of e are those of d, unless nothing was sent before
SynsOf(e, d, top) ==
  \A i \in 1..Len(e) : e[i] = 0 => \/ i \in 1..Len(d) /\ d[i] = 0
                                   \/ top = -1 /\ i <= MaxDupSyn

LEMMA LineGrows ==
  ASSUME NEW d \in Seq(Nat), NEW top \in Nat \cup {-1}, NEW nx \in Nat, Line(d, top, nx),
         NEW n \in Nat, top >= 0 \/ d = <<>>
  PROVE  /\ Line(d \o Burst(top + 1, n), top + n, nx)
         /\ n > 0 => d \o Burst(top + 1, n) # <<>>
         /\ SynsOf(d \o Burst(top + 1, n), d, top)
<1> SUFFICES ASSUME NEW e, e = d \o Burst(top + 1, n)
             PROVE  Line(e, top + n, nx) /\ (n > 0 => e # <<>>) /\ SynsOf(e, d, top)
  OBVIOUS
<1>1. PICK b : b = Burst(top + 1, n)
  OBVIOUS
<1>2. Len(d) \in Nat /\ DOMAIN d = 1..Len(d)
  BY LenProperties
<1>6. PICK t \in Nat : t = top + 1
  OBVIOUS
<1>3. CASE n = 0
  <2>1. b = <<>>
    BY <1>1, <1>6, <1>3, BurstFacts
  <2>2. e = d
    BY <1>1, <2>1, ConcatEmptySeq
  <2>3. top + n = top
    BY <1>3
  <2>4. Line(e, top + n, nx)
    BY <2>2, <2>3, Zenon
  <2>5. \A i \in 1..Len(e) : e[i] = 0 => i \in 1..Len(d) /\ d[i] = 0
    BY <2>2
  <2>6. e \in Seq(Nat)
    BY <2>2
  <2> QED BY <1>3, <2>2, <2>4, <2>5, <2>6 DEF SynsOf
<1>4. CASE n > 0
  <2>1. /\ b \in Seq(Nat) /\ Len(b) >= 1 /\ b[1] = top + 1 /\ b[Len(b)] = (top + 1) + n - 1
        /\ \A i \in 1..Len(b)-1 : b[i+1] = b[i] + 1 \/ (b[i] = 0 /\ b[i+1] = 0)
        /\ \A i \in 1..Len(b) : b[i] = 0 => top + 1 = 0 /\ i <= MaxDupSyn
        /\ \A i, j \in 1..Len(b) : i <= j /\ b[j] = 0 => b[i] = 0
    <3>1. b = Burst(t, n)
      BY <1>1, <1>6
    <3>2. LineFrom(b, t, n)
      BY <1>4, <3>1, BurstLine, Zenon
    <3>3. LineFrom(b, top + 1, n)
      BY <1>6, <3>2, Zenon
    <3> QED BY <3>3 DEF LineFrom
  <2>2. Len(b) \in Nat
    BY <2>1, LenProperties
  <2>3. /\ e \in Seq(Nat) /\ Len(e) = Len(d) + Len(b)
        /\ \A k \in 1..Len(d) + Len(b) : e[k] = IF k <= Len(d) THEN d[k] ELSE b[k - Len(d)]
    BY <1>1, <2>1, ConcatProperties
  <2>4. \A k \in 1..Len(d) : k \in 1..Len(e) /\ e[k] = d[k]
    BY <1>2, <2>2, <2>3
  <2>5. ASSUME NEW k \in 1..Len(b) PROVE Len(d) + k \in 1..Len(e) /\ e[Len(d) + k] = b[k]
    <3>1. Len(d) + k \in 1..Len(d) + Len(b) /\ ~(Len(d) + k <= Len(d)) /\ (Len(d) + k) - Len(d) = k
      BY <1>2, <2>2
    <3>2. e[Len(d) + k] = b[(Len(d) + k) - Len(d)]
      BY <2>3, <3>1
    <3> QED BY <2>3, <3>1, <3>2
  <2>6. Len(e) >= 1 /\ Len(e) \in Nat /\ e # <<>>
    BY <1>2, <2>1, <2>2, <2>3, EmptySeq
  <2>7. e[Len(e)] = top + n
    <3>1. Len(b) \in 1..Len(b)
      BY <2>1, <2>2
    <3>2. e[Len(d) + Len(b)] = b[Len(b)]
      BY <2>5, <3>1
    <3> QED BY <1>2, <2>1, <2>3, <3>2
  <2>8. e[1] = nx \/ (e[1] = 0 /\ nx = 1)
    <3>1. CASE d = <<>>
      <4>1. Len(d) = 0 /\ 1 \in 1..Len(b) /\ nx = top + 1
        BY <3>1, <2>1, <2>2, EmptySeq DEF Line
      <4>2. Len(d) + 1 = 1 /\ e[Len(d) + 1] = b[1]
        BY <2>5, <4>1
      <4>3. e[1] = top + 1
        BY <2>1, <4>2
      <4> QED BY <4>1, <4>3
    <3>2. CASE d # <<>>
      <4>1. 1 \in 1..Len(d)
        BY <3>2, <1>2, EmptySeq
      <4>2. d[1] = nx \/ (d[1] = 0 /\ nx = 1)
        BY <3>2 DEF Line
      <4> QED BY <2>4, <4>1, <4>2
    <3> QED BY <3>1, <3>2
  <2>9. ASSUME NEW k \in 1..Len(e)-1
        PROVE  e[k+1] = e[k] + 1 \/ (e[k] = 0 /\ e[k+1] = 0)
    <3>1. CASE k < Len(d)
      <4>1. k \in 1..Len(d) /\ k + 1 \in 1..Len(d) /\ k \in 1..Len(d)-1
        BY <3>1, <1>2, <2>6
      <4>2. e[k] = d[k] /\ e[k+1] = d[k+1]
        BY <2>4, <4>1
      <4> QED BY <4>1, <4>2 DEF Line
    <3>2. CASE k = Len(d)
      <4>1. d # <<>> /\ k \in 1..Len(d) /\ 1 \in 1..Len(b)
        BY <3>2, <1>2, <2>1, <2>2, <2>6, EmptySeq
      <4>2. e[k] = top
        BY <2>4, <3>2, <4>1 DEF Line
      <4>3. e[k+1] = top + 1
        BY <2>1, <2>5, <3>2, <4>1
      <4> QED BY <4>2, <4>3
    <3>3. CASE k > Len(d)
      <4>1. PICK m \in 1..Len(b)-1 : k = Len(d) + m
        <5>1. k \in Int /\ k <= Len(d) + Len(b) - 1
          BY <1>2, <2>2, <2>3
        <5>2. k - Len(d) \in 1..Len(b)-1 /\ k = Len(d) + (k - Len(d))
          BY <3>3, <1>2, <2>2, <5>1
        <5> QED BY <5>2
      <4>2. m \in 1..Len(b) /\ m + 1 \in 1..Len(b) /\ k + 1 = Len(d) + (m + 1)
        BY <4>1, <1>2, <2>2
      <4>3. e[k] = b[m] /\ e[k+1] = b[m+1]
        BY <2>5, <4>1, <4>2
      <4>4. b[m+1] = b[m] + 1 \/ (b[m] = 0 /\ b[m+1] = 0)
        BY <2>1
      <4> QED BY <4>3, <4>4
    <3>4. k \in Int
      BY <1>2, <2>2, <2>3
    <3>5. k < Len(d) \/ k = Len(d) \/ k > Len(d)
      <4>1. ASSUME NEW l \in Int PROVE k < l \/ k = l \/ k > l
        BY <3>4
      <4>2. Len(d) \in Int
        BY <1>2
      <4> QED BY <4>1, <4>2, Zenon
    <3> QED BY <3>1, <3>2, <3>3, <3>5, Zenon
  <2>10. ASSUME NEW k \in 1..Len(e), e[k] = 0
         PROVE  (k \in 1..Len(d) /\ d[k] = 0) \/ (top = -1 /\ k <= MaxDupSyn)
    <3>1. CASE k <= Len(d)
      <4>1. k \in 1..Len(d)
        BY <3>1, <1>2
      <4> QED BY <4>1, <2>4, <2>10
    <3>2. CASE k > Len(d)
      <4>1. PICK m \in 1..Len(b) : k = Len(d) + m
        <5>1. k \in Int /\ k <= Len(d) + Len(b)
          BY <1>2, <2>2, <2>3
        <5>2. k - Len(d) \in 1..Len(b) /\ k = Len(d) + (k - Len(d))
          BY <3>2, <1>2, <2>2, <5>1
        <5> QED BY <5>2
      <4>2. b[m] = 0
        BY <2>5, <2>10, <4>1
      <4>3. top + 1 = 0 /\ m <= MaxDupSyn
        BY <2>1, <4>2
      <4>4. d = <<>> /\ top = -1
        BY <4>3
      <4>5. Len(d) = 0
        BY <4>4, EmptySeq
      <4> QED BY <4>1, <4>3, <4>4, <4>5
    <3> QED BY <3>1, <3>2, <1>2
  <2>11. ASSUME NEW k \in 1..Len(e), NEW l \in 1..Len(e), k <= l, e[l] = 0
         PROVE  e[k] = 0
    <3>1. CASE l \in 1..Len(d) /\ d[l] = 0
      <4>1. k \in 1..Len(d)
        BY <3>1, <2>6, <2>11, <1>2
      <4>2. d[k] = 0
        BY <3>1, <2>11, <4>1 DEF Line
      <4> QED BY <2>4, <4>1, <4>2
    <3>2. CASE top = -1
      <4>1. d = <<>>
        BY <3>2
      <4>2. Len(d) = 0
        BY <4>1, EmptySeq
      <4>3. /\ k \in 1..Len(b) /\ l \in 1..Len(b)
            /\ Len(d) + k = k /\ Len(d) + l = l
        BY <4>2, <2>2, <2>3
      <4>4. e[k] = b[k] /\ e[l] = b[l]
        BY <2>5, <4>3
      <4> QED BY <2>1, <2>11, <4>3, <4>4
    <3> QED BY <2>10, <2>11, <3>1, <3>2
  <2>12. Line(e, top + n, nx)
    BY <2>6, <2>7, <2>8, <2>9, <2>11 DEF Line
  <2>13. SynsOf(e, d, top)
    BY <2>10 DEF SynsOf
  <2> QED BY <1>4, <2>3, <2>6, <2>12, <2>13
<1>5. n = 0 \/ n > 0
  OBVIOUS
<1> QED BY <1>3, <1>4, <1>5, Zenon

\* The client takes the first packet
LEMMA LineShrinks ==
  ASSUME NEW d \in Seq(Nat), NEW top, NEW nx \in Nat, Line(d, top, nx), d # <<>>,
         NEW m, m = IF d[1] = nx THEN nx + 1 ELSE nx
  PROVE  /\ Line(Tail(d), top, m)
         /\ \A i \in 1..Len(Tail(d)) : Tail(d)[i] = 0 =>
              i + 1 \in 1..Len(d) /\ d[i+1] = 0 /\ d[1] = 0
<1>0. PICK e : e = Tail(d)
  OBVIOUS
<1>1. /\ e \in Seq(Nat) /\ Len(d) \in Nat /\ Len(d) >= 1
      /\ Len(e) = Len(d) - 1 /\ \A i \in 1..Len(d)-1 : e[i] = d[i+1]
  BY <1>0, TailIs
<1>2. d[Len(d)] = top /\ (d[1] = nx \/ (d[1] = 0 /\ nx = 1))
  BY DEF Line
<1>3. 1 \in 1..Len(d) /\ d[1] \in Nat
  BY <1>1, ElementOfSeq
<1>4. m = d[1] + 1 /\ m \in Nat
  BY <1>2, <1>3
<1>5. \A i \in 1..Len(d)-1 : d[i+1] = d[i] + 1 \/ (d[i] = 0 /\ d[i+1] = 0)
  BY DEF Line
<1>6. ASSUME NEW i \in 1..Len(e)-1
      PROVE  e[i+1] = e[i] + 1 \/ (e[i] = 0 /\ e[i+1] = 0)
  <2>1. i \in 1..Len(d)-1 /\ i + 1 \in 1..Len(d)-1
    BY <1>1
  <2>2. e[i] = d[i+1] /\ e[i+1] = d[(i+1)+1]
    BY <1>1, <2>1
  <2> QED BY <1>5, <2>1, <2>2
<1>7. \A i \in 1..Len(e) : i + 1 \in 1..Len(d) /\ 1 <= i + 1 /\ e[i] = d[i+1] /\ i \in Int
  BY <1>1
<1>8. ASSUME NEW i \in 1..Len(e), NEW j \in 1..Len(e), i <= j, e[j] = 0 PROVE e[i] = 0
  <2>1. i + 1 \in 1..Len(d) /\ j + 1 \in 1..Len(d) /\ i + 1 <= j + 1 /\ d[j+1] = 0
    BY <1>7, <1>8
  <2>2. d[i+1] = 0
    BY <2>1 DEF Line
  <2> QED BY <1>7, <2>2
<1>9. ASSUME NEW i \in 1..Len(e), e[i] = 0
      PROVE  i + 1 \in 1..Len(d) /\ d[i+1] = 0 /\ d[1] = 0
  <2>1. i + 1 \in 1..Len(d) /\ 1 <= i + 1 /\ d[i+1] = 0
    BY <1>7, <1>9
  <2> QED BY <1>3, <2>1 DEF Line
<1>10. e = <<>> => m = top + 1
  <2>1. ASSUME e = <<>> PROVE Len(d) = 1
    BY <1>1, <2>1, EmptySeq
  <2> QED BY <1>2, <1>4, <2>1
<1>11. e # <<>> => e[Len(e)] = top /\ (e[1] = m \/ (e[1] = 0 /\ m = 1))
  <2> SUFFICES ASSUME e # <<>>
               PROVE  e[Len(e)] = top /\ (e[1] = m \/ (e[1] = 0 /\ m = 1))
    OBVIOUS
  <2>1. Len(e) >= 1 /\ Len(e) \in Nat
    BY <1>1, EmptySeq, LenProperties
  <2>2. 1 \in 1..Len(d)-1 /\ Len(e) \in 1..Len(d)-1
    BY <1>1, <2>1
  <2>3. e[1] = d[1+1] /\ e[Len(e)] = d[Len(e)+1] /\ Len(e) + 1 = Len(d)
    BY <1>1, <2>2
  <2>4. d[1+1] = d[1] + 1 \/ (d[1] = 0 /\ d[1+1] = 0)
    BY <1>5, <2>2
  <2>5. e[1] = m \/ (e[1] = 0 /\ m = 1)
    BY <1>3, <1>4, <2>3, <2>4
  <2> QED BY <1>2, <2>3, <2>5
<1>12. Line(e, top, m)
  BY <1>6, <1>8, <1>10, <1>11 DEF Line
<1>13. Line(Tail(d), top, m)
  BY <1>0, <1>12, Zenon
<1> QED BY <1>0, <1>9, <1>13

\* The acknowledgements under way, and what is left of them without the first
LEMMA AckFacts ==
  ASSUME Inv
  PROVE  /\ N \in Nat /\ N >= 2 /\ MaxDupSyn \in Nat /\ MaxDupSyn >= 1
         /\ Len(acks) \in Nat /\ next \in 0..N /\ highest_ack \in -1..N-1 /\ highest_ack < next
         /\ dupacks \in Nat /\ maxseq \in -1..N-1 /\ next <= maxseq + 1
         /\ active \in BOOLEAN /\ activated \in BOOLEAN /\ rtx \in BOOLEAN
         /\ acks \in Seq(Ack) /\ data \in Seq(0..N-1) /\ Len(data) \in Nat
         /\ \A j \in 1..Len(acks) :
              /\ acks[j].ackno \in Int /\ acks[j].open \in BOOLEAN
              /\ highest_ack <= acks[j].ackno /\ acks[j].ackno < next
<1>1. /\ N \in Nat /\ N >= 2 /\ MaxDupSyn \in Nat /\ MaxDupSyn >= 1
      /\ Thresh \in Nat
  BY IAFlowAssumption DEF IAFlowAssumption
<1>2. /\ next \in 0..N /\ highest_ack \in -1..N-1 /\ highest_ack < next
      /\ dupacks \in 0..Thresh+1 /\ maxseq \in -1..N-1 /\ next <= maxseq + 1
      /\ active \in BOOLEAN /\ activated \in BOOLEAN /\ rtx \in BOOLEAN
      /\ acks \in Seq(Ack) /\ data \in Seq(0..N-1)
      /\ \A i \in DOMAIN acks : highest_ack <= acks[i].ackno /\ acks[i].ackno < next
  BY DEF Inv, TypeOK, AckOrder
<1>3. Len(acks) \in Nat /\ DOMAIN acks = 1..Len(acks) /\ Len(data) \in Nat
  BY <1>2, LenProperties
<1>4. dupacks \in Nat
  BY <1>1, <1>2
<1>5. ASSUME NEW j \in 1..Len(acks)
      PROVE  acks[j].ackno \in Int /\ acks[j].open \in BOOLEAN
  <2>1. acks[j] \in Ack
    BY <1>2, ElementOfSeq
  <2> QED BY <1>1, <2>1 DEF Ack
<1> QED BY <1>1, <1>2, <1>3, <1>4, <1>5

LEMMA RestFacts ==
  ASSUME Inv, acks # <<>>
  PROVE  /\ Len(acks) >= 1 /\ Head(acks) = acks[1] /\ 1 \in 1..Len(acks)
         /\ Len(acks) \in 1..Len(acks)
         /\ Len(Tail(acks)) = Len(acks) - 1
         /\ \A j \in 1..Len(acks)-1 : j + 1 \in 1..Len(acks) /\ Tail(acks)[j] = acks[j+1]
<1>1. acks \in Seq(Ack) /\ Len(acks) \in Nat
  BY AckFacts
<1>2. /\ Len(acks) >= 1 /\ Head(acks) = acks[1] /\ Len(Tail(acks)) = Len(acks) - 1
      /\ \A j \in 1..Len(acks)-1 : Tail(acks)[j] = acks[j+1]
  BY <1>1, TailIs
<1> QED BY <1>1, <1>2

LEMMA RepeatsFew ==
  ASSUME Inv, NEW k \in Int
  PROVE  /\ Repeats(k) \in Nat
         /\ MaxDupSyn <= Thresh => Repeats(k) < Thresh
<1>1. MaxDupSyn \in Nat /\ MaxDupSyn >= 1 /\ Thresh \in Nat /\ Thresh >= 2 /\ activated \in BOOLEAN
  BY AckFacts, IAFlowAssumption DEF IAFlowAssumption
<1>2. CASE k = 0
  <2>1. Repeats(k) = MaxDupSyn - 1
    BY <1>2 DEF Repeats
  <2> QED BY <1>1, <2>1
<1>3. CASE k # 0
  <2>1. Repeats(k) = 0 \/ Repeats(k) = 1
    BY <1>3 DEF Repeats
  <2> QED BY <1>1, <2>1
<1> QED BY <1>2, <1>3

\* send_much, called with the next packet that was never sent
LEMMA SendLine ==
  ASSUME Inv, InLine, NEW h \in -1..N-1, NEW win \in 0..W, NEW timer \in BOOLEAN,
         SendMuch(maxseq + 1, h, win, 0, timer, -1), maxseq >= 0 \/ data = <<>>
  PROVE  /\ Line(data', maxseq', next) /\ t_seqno' = maxseq' + 1
         /\ rtx' => timer \/ data' # <<>>
         /\ SynsOf(data', data, maxseq)
<1>1. /\ N \in Nat /\ W \in Nat /\ maxseq \in -1..N-1 /\ next \in 0..N
      /\ data \in Seq(0..N-1) /\ h \in Int /\ win \in Int
  BY AckFacts, IAFlowAssumption DEF IAFlowAssumption
<1>2. PICK n : n = MaxOf(0, MinOf(h + win, N - 1) - (maxseq + 1) + 1)
  OBVIOUS
<1>3. n \in Nat
  BY <1>1, <1>2 DEF MaxOf, MinOf
<1>4. /\ t_seqno' = (maxseq + 1) + n
      /\ maxseq' = MaxOf(maxseq, MaxOf(-1, IF n > 0 THEN (maxseq + 1) + n - 1 ELSE -1))
      /\ rtx' = (timer \/ n > 0 \/ -1 >= 0)
      /\ data' = data \o <<>> \o Burst(maxseq + 1, n)
  BY <1>2 DEF SendMuch
<1>5. maxseq' = maxseq + n
  BY <1>1, <1>3, <1>4 DEF MaxOf
<1>6. data \in Seq(Nat) /\ next \in Nat /\ maxseq \in Nat \cup {-1}
  <2>1. \A i \in DOMAIN data : data[i] \in Nat
    BY <1>1, ElementOfSeq, LenProperties
  <2>2. data \in Seq(Nat)
    BY <1>1, <2>1, SeqOver
  <2> QED BY <1>1, <2>2
<1>7. data \o <<>> = data
  BY <1>6, ConcatEmptySeq
<1>8. data' = data \o Burst(maxseq + 1, n)
  BY <1>4, <1>7
<1>9. Line(data, maxseq, next)
  BY DEF InLine
<1>10. PICK e : e = data'
  OBVIOUS
<1>11. /\ Line(e, maxseq + n, next)
       /\ n > 0 => e # <<>>
       /\ SynsOf(e, data, maxseq)
  <2>1. e = data \o Burst(maxseq + 1, n)
    BY <1>8, <1>10
  <2>3. /\ Line(data \o Burst(maxseq + 1, n), maxseq + n, next)
        /\ n > 0 => data \o Burst(maxseq + 1, n) # <<>>
        /\ SynsOf(data \o Burst(maxseq + 1, n), data, maxseq)
    BY <1>3, <1>6, <1>9, LineGrows
  <2> QED BY <2>1, <2>3, Zenon
<1>12. Line(data', maxseq', next)
  BY <1>5, <1>10, <1>11, Zenon
<1>13. t_seqno' = maxseq' + 1
  BY <1>1, <1>3, <1>4, <1>5
<1>14. rtx' => timer \/ data' # <<>>
  <2>1. rtx' => timer \/ n > 0
    BY <1>4
  <2> QED BY <1>10, <1>11, <2>1
<1> QED BY <1>10, <1>11, <1>12, <1>13, <1>14

\* The first acknowledgement is taken, and no SYN is sent
LEMMA AcksShift ==
  ASSUME Inv, AcksInLine, acks # <<>>, acks' = Tail(acks), UNCHANGED sinkVars,
         \A i \in 1..Len(data') : data'[i] = 0 => i \in 1..Len(data) /\ data[i] = 0
  PROVE  AcksInLine'
<1>1. UNCHANGED <<next, active, activated>>
  BY DEF sinkVars
<1>2. /\ Len(acks) \in Nat /\ Len(acks) >= 1 /\ Len(acks') = Len(acks) - 1
      /\ \A j \in 1..Len(acks') : j + 1 \in 1..Len(acks) /\ acks'[j] = acks[j+1] /\ j \in Int
  BY AckFacts, RestFacts
<1>3. /\ MaxDupSyn \in Nat /\ Len(data) \in Nat
      /\ \A j \in 1..Len(acks) : acks[j].ackno \in Int /\ acks[j].open \in BOOLEAN
  BY AckFacts
<1>5. (~activated /\ next <= 1 => ~active)'
  BY <1>1 DEF AcksInLine
<1>6. ASSUME ~active', NEW j \in 1..Len(acks') PROVE ~acks'[j].open
  BY <1>1, <1>2, <1>6 DEF AcksInLine
<1>7. ASSUME NEW a \in 1..Len(acks'), NEW j \in 1..Len(acks'), a <= j, acks'[a].open
      PROVE  acks'[j].open
  <2>1. a + 1 <= j + 1 /\ acks[a+1].open
    BY <1>2, <1>7
  <2>2. acks[j+1].open
    BY <1>2, <2>1 DEF AcksInLine
  <2> QED BY <1>2, <2>2
<1>8. ASSUME NEW j \in 1..Len(acks') PROVE acks'[j].ackno >= 0
  BY <1>2 DEF AcksInLine
<1>9. acks' # <<>> => acks'[Len(acks')].ackno = next' - 1
  <2> SUFFICES ASSUME acks' # <<>> PROVE acks'[Len(acks')].ackno = next' - 1
    OBVIOUS
  <2>1. acks' \in Seq(Ack)
    BY HeadFacts
  <2>2. Len(acks') \in 1..Len(acks') /\ Len(acks') + 1 = Len(acks)
    BY <1>2, <2>1, EmptySeq
  <2>3. acks'[Len(acks')] = acks[Len(acks)]
    BY <1>2, <2>2
  <2>4. acks[Len(acks)].ackno = next - 1
    BY DEF AcksInLine
  <2> QED BY <1>1, <2>3, <2>4
<1>10. ASSUME NEW a \in 1..Len(acks'), NEW j \in 1..Len(acks'),
              a <= j, acks'[a].open, acks'[a].ackno = acks'[j].ackno
       PROVE  j - a <= Repeats(acks[j].ackno)'
  <2>1. /\ a + 1 \in 1..Len(acks) /\ j + 1 \in 1..Len(acks) /\ a + 1 <= j + 1
        /\ acks[a+1].open /\ acks[a+1].ackno = acks[j+1].ackno /\ (j + 1) - (a + 1) = j - a
    BY <1>2, <1>10
  <2>2. (j + 1) - (a + 1) <= Repeats(acks[j+1].ackno)
    BY <2>1 DEF AcksInLine
  <2>3. j - a <= Repeats(acks'[j].ackno)
    BY <1>2, <2>1, <2>2
  <2> QED BY <1>1, <2>3 DEF Repeats
<1>11. ASSUME NEW i \in 1..Len(data'), data'[i] = 0
       PROVE  /\ i <= MaxDupSyn /\ next' <= 1 /\ (next' = 1 => i <= MaxDupSyn - 1)
              /\ \A a \in 1..Len(acks') : acks'[a].open => Len(acks') - a + i <= MaxDupSyn - 1
  <2>1. i \in 1..Len(data) /\ data[i] = 0
    BY <1>11
  <2>2. /\ i <= MaxDupSyn /\ next <= 1 /\ (next = 1 => i <= MaxDupSyn - 1)
        /\ \A a \in 1..Len(acks) : acks[a].open => Len(acks) - a + i <= MaxDupSyn - 1
    BY <2>1 DEF AcksInLine
  <2>3. ASSUME NEW a \in 1..Len(acks'), acks'[a].open
        PROVE  Len(acks') - a + i <= MaxDupSyn - 1
    <3>1. /\ a + 1 \in 1..Len(acks) /\ acks[a+1].open /\ i \in Int
          /\ Len(acks) - (a + 1) + i = Len(acks') - a + i
      BY <1>2, <1>3, <2>1, <2>3
    <3>2. Len(acks) - (a + 1) + i <= MaxDupSyn - 1
      BY <2>2, <3>1
    <3> QED BY <3>1, <3>2
  <2>4. i <= MaxDupSyn /\ next' <= 1 /\ (next' = 1 => i <= MaxDupSyn - 1)
    BY <1>1, <2>2
  <2> QED BY <2>3, <2>4, Zenon
<1> QED BY <1>5, <1>6, <1>7, <1>8, <1>9, <1>10, <1>11 DEF AcksInLine

\* No SYN appears in data that is a part of what was there
LEMMA SynsStay ==
  ASSUME Inv, InLine, maxseq >= 0, SynsOf(data', data, maxseq)
  PROVE  \A i \in 1..Len(data') : data'[i] = 0 => i \in 1..Len(data) /\ data[i] = 0
<1>1. maxseq # -1
  BY AckFacts
<1> QED BY <1>1 DEF SynsOf

LEMMA CalmZeroWindow ==
  ASSUME Inv, InLine, AcksInLine, ServerInLine, acks # <<>>, acks' = Tail(acks),
         UNCHANGED <<sinkVars, netVars>>, ZeroWindow(Head(acks))
  PROVE  InLine' /\ AcksInLine' /\ ServerInLine'
<1>1. /\ rtx' = FALSE /\ ~acks[1].open
      /\ UNCHANGED <<t_seqno, maxseq, data, highest_ack, dupwnd, dupacks, next, seen, active>>
  BY RestFacts DEF ZeroWindow, sinkVars
<1>2. highest_ack = -1
  <2>1. ~(highest_ack >= 0) /\ highest_ack \in -1..N-1 /\ N \in Nat
    BY <1>1, RestFacts, AckFacts DEF ServerInLine
  <2> QED BY <2>1
<1>3. InLine'
  BY <1>1 DEF InLine, Line
<1>4. AcksInLine'
  <2>1. \A i \in 1..Len(data') : data'[i] = 0 => i \in 1..Len(data) /\ data[i] = 0
    BY <1>1
  <2> QED BY <2>1, AcksShift
<1>5. ASSUME NEW j \in 1..Len(acks') PROVE acks'[j].ackno # highest_ack
  <2>1. acks'[j].ackno >= 0
    BY <1>4 DEF AcksInLine
  <2> QED BY <1>2, <2>1
<1>6. dupacks' <= (IF highest_ack' < 0 THEN 0 ELSE Repeats(highest_ack)')
  BY <1>1, <1>2 DEF ServerInLine
<1> QED BY <1>1, <1>2, <1>3, <1>4, <1>5, <1>6 DEF ServerInLine

LEMMA CalmNewAck ==
  ASSUME Inv, InLine, AcksInLine, ServerInLine, acks # <<>>, acks' = Tail(acks),
         UNCHANGED <<sinkVars, netVars>>, NewAck(Head(acks))
  PROVE  InLine' /\ AcksInLine' /\ ServerInLine'
<1> PICK k : k = acks[1].ackno
  OBVIOUS
<1>1. /\ Len(acks) \in Nat /\ Len(acks) >= 1 /\ 1 \in 1..Len(acks) /\ Head(acks) = acks[1]
      /\ Len(acks') = Len(acks) - 1
      /\ \A j \in 1..Len(acks') : j + 1 \in 1..Len(acks) /\ acks'[j] = acks[j+1] /\ j \in Int
  BY AckFacts, RestFacts
<1>2. /\ acks[1].open /\ highest_ack' = k /\ dupacks' = 0 /\ dupwnd' = 0
      /\ UNCHANGED <<next, seen, active, activated>>
      /\ cwnd' \in Opened(k)
      /\ SendMuch(MaxOf(t_seqno, k + 1), k, Window(cwnd', 0), 0, TRUE, -1)
  BY <1>1 DEF NewAck, sinkVars
<1>3. /\ k \in Int /\ k < next /\ next <= maxseq + 1 /\ next \in Int /\ maxseq \in Int
      /\ k \in -1..N-1 /\ N \in Nat
  BY <1>1, AckFacts
<1>4. k >= 0
  BY <1>1 DEF AcksInLine
<1>5. maxseq >= 0
  BY <1>3, <1>4
<1>6. MaxOf(t_seqno, k + 1) = maxseq + 1
  BY <1>3 DEF InLine, MaxOf
<1>7. cwnd' \in Nat
  <2>1. cwnd \in 0..W /\ W \in Nat
    BY ServerFacts
  <2> QED BY <1>2, <2>1 DEF Opened, MinOf
<1>8. PICK win \in 0..W : win = Window(cwnd', 0)
  BY <1>7, WindowBound
<1>9. SendMuch(maxseq + 1, k, win, 0, TRUE, -1)
  BY <1>2, <1>6, <1>8
<1>10. Line(data', maxseq', next) /\ t_seqno' = maxseq' + 1 /\ SynsOf(data', data, maxseq)
  BY <1>3, <1>5, <1>9, SendLine
<1>11. InLine'
  BY <1>2, <1>10 DEF InLine, Line
<1>12. \A i \in 1..Len(data') : data'[i] = 0 => i \in 1..Len(data) /\ data[i] = 0
  BY <1>5, <1>10, SynsStay
<1>13. AcksInLine'
  BY <1>12, AcksShift
<1>14. active'
  BY <1>1, <1>2 DEF AcksInLine
<1>15. ASSUME NEW j \in 1..Len(acks') PROVE acks'[j].open
  <2>1. 1 <= j + 1
    BY <1>1
  <2>2. acks[j+1].open
    BY <1>1, <1>2, <2>1 DEF AcksInLine
  <2> QED BY <1>1, <2>2
<1>16. acks' = <<>> => k = next - 1
  <2> SUFFICES ASSUME acks' = <<>> PROVE k = next - 1
    OBVIOUS
  <2>1. Len(acks') = 0
    BY EmptySeq, Zenon
  <2>2. Len(acks) = 1 /\ acks # <<>>
    BY <1>1, <2>1
  <2>3. acks[Len(acks)].ackno = next - 1
    BY <2>2 DEF AcksInLine
  <2> QED BY <2>2, <2>3
<1>17. \A i : Repeats(i)' = Repeats(i)
  BY <1>2 DEF Repeats
<1>18. ASSUME NEW j \in 1..Len(acks'), acks'[j].ackno = k PROVE 0 + j <= Repeats(k)
  <2>1. 1 <= j + 1 /\ (j + 1) - 1 = j /\ 0 + j = j
    BY <1>1
  <2>2. (j + 1) - 1 <= Repeats(acks[j+1].ackno)
    BY <1>1, <1>2, <1>18, <2>1 DEF AcksInLine
  <2> QED BY <1>1, <1>18, <2>1, <2>2
<1>19. ASSUME NEW i \in 1..Len(data'), data'[i] = 0, k = 0
       PROVE  0 + Len(acks') + i <= MaxDupSyn - 1
  <2>1. i \in 1..Len(data) /\ data[i] = 0
    BY <1>12, <1>19
  <2>2. Len(acks) - 1 + i <= MaxDupSyn - 1
    BY <1>1, <1>2, <2>1 DEF AcksInLine
  <2>3. 0 + Len(acks') + i = Len(acks) - 1 + i
    BY <1>1, <2>1, AckFacts
  <2> QED BY <2>2, <2>3
<1>20. 0 <= Repeats(k)
  <2>1. Repeats(k) \in Nat
    BY <1>3, RepeatsFew
  <2> QED BY <2>1
<1>21. ServerInLine'
  <2>1. (~active => highest_ack = -1)'
    BY <1>14
  <2>2. (highest_ack >= 0 => \A j \in 1..Len(acks) : acks[j].open)'
    BY <1>15
  <2>3. (rtx /\ data = <<>> /\ acks = <<>> => highest_ack = next - 1)'
    BY <1>2, <1>16
  <2>4. (\A j \in 1..Len(acks) : acks[j].ackno = highest_ack => dupacks + j <= Repeats(highest_ack))'
    BY <1>2, <1>17, <1>18
  <2>5. (dupacks <= (IF highest_ack < 0 THEN 0 ELSE Repeats(highest_ack)))'
    BY <1>2, <1>3, <1>4, <1>17, <1>20
  <2>6. (\A i \in 1..Len(data) :
          data[i] = 0 /\ highest_ack = 0 => dupacks + Len(acks) + i <= MaxDupSyn - 1)'
    BY <1>2, <1>19
  <2> QED BY <2>1, <2>2, <2>3, <2>4, <2>5, <2>6 DEF ServerInLine
<1> QED BY <1>11, <1>13, <1>21

\* A duplicate is one of the few that Repeats allows, so nothing is sent
LEMMA CalmDupAck ==
  ASSUME MaxDupSyn <= Thresh, Inv, InLine, AcksInLine, ServerInLine,
         acks # <<>>, acks' = Tail(acks), UNCHANGED <<sinkVars, netVars>>,
         DupAck(Head(acks))
  PROVE  InLine' /\ AcksInLine' /\ ServerInLine'
<1>1. /\ Len(acks) \in Nat /\ Len(acks) >= 1 /\ 1 \in 1..Len(acks) /\ Head(acks) = acks[1]
      /\ Len(acks') = Len(acks) - 1
      /\ \A j \in 1..Len(acks') : j + 1 \in 1..Len(acks) /\ acks'[j] = acks[j+1] /\ j \in Int
  BY AckFacts, RestFacts
<1>2. /\ highest_ack \in Int /\ dupacks \in Nat /\ next \in Int /\ MaxDupSyn \in Nat
      /\ Thresh \in Nat /\ highest_ack < next
  BY AckFacts, ServerFacts
<1>3. acks[1].open /\ acks[1].ackno = highest_ack
  BY <1>1 DEF DupAck, IsDup
<1>4. highest_ack >= 0
  BY <1>1, <1>3 DEF AcksInLine
<1>5. dupacks + 1 <= Repeats(highest_ack) /\ Repeats(highest_ack) \in Nat
      /\ Repeats(highest_ack) < Thresh
  BY <1>1, <1>2, <1>3, RepeatsFew DEF ServerInLine
<1>6. ~(dupacks + 1 >= Thresh) /\ ~(dupacks + 1 > Thresh)
  BY <1>2, <1>5
<1>7. dupacks' = dupacks + 1
  BY <1>2, <1>6 DEF DupAck, MinOf
<1>8. /\ dupwnd' = dupwnd
      /\ UNCHANGED <<t_seqno, maxseq, rtx, data, highest_ack, next, seen, active, activated>>
  BY <1>6 DEF DupAck, sinkVars, sendVars
<1>9. InLine'
  BY <1>8 DEF InLine, Line
<1>10. AcksInLine'
  <2>1. \A i \in 1..Len(data') : data'[i] = 0 => i \in 1..Len(data) /\ data[i] = 0
    BY <1>8
  <2> QED BY <2>1, AcksShift
<1>11. active
  BY <1>1, <1>3 DEF AcksInLine
<1>12. ASSUME NEW j \in 1..Len(acks') PROVE acks'[j].open
  <2>1. 1 <= j + 1
    BY <1>1
  <2>2. acks[j+1].open
    BY <1>1, <1>3, <2>1 DEF AcksInLine
  <2> QED BY <1>1, <2>2
<1>13. acks' = <<>> => highest_ack = next - 1
  <2> SUFFICES ASSUME acks' = <<>> PROVE highest_ack = next - 1
    OBVIOUS
  <2>1. Len(acks') = 0
    BY EmptySeq, Zenon
  <2>2. Len(acks) = 1
    BY ONLY <1>1, <2>1
  <2>3. acks[Len(acks)].ackno = next - 1
    BY DEF AcksInLine
  <2> QED BY <1>3, <2>2, <2>3
<1>14. ASSUME NEW j \in 1..Len(acks'), acks'[j].ackno = highest_ack
       PROVE  dupacks' + j <= Repeats(highest_ack)
  <2>1. dupacks + (j + 1) <= Repeats(highest_ack)
    BY <1>1, <1>14 DEF ServerInLine
  <2> QED BY <1>1, <1>2, <1>5, <1>7, <2>1
<1>15. ASSUME NEW i \in 1..Len(data'), data'[i] = 0, highest_ack = 0
       PROVE  dupacks' + Len(acks') + i <= MaxDupSyn - 1
  <2>1. i \in 1..Len(data) /\ data[i] = 0 /\ i \in Int
    BY <1>8, <1>15
  <2>2. dupacks + Len(acks) + i <= MaxDupSyn - 1
    BY <1>15, <2>1 DEF ServerInLine
  <2>3. dupacks' + Len(acks') + i = dupacks + Len(acks) + i
    BY <1>1, <1>2, <1>7, <2>1
  <2> QED BY <2>2, <2>3
<1>16. Repeats(highest_ack)' = Repeats(highest_ack)
  BY <1>8 DEF Repeats
<1>17. ServerInLine'
  <2>1. (~active => highest_ack = -1)'
    BY <1>8, <1>11
  <2>2. (highest_ack >= 0 => \A j \in 1..Len(acks) : acks[j].open)'
    BY <1>12
  <2>3. (rtx /\ data = <<>> /\ acks = <<>> => highest_ack = next - 1)'
    BY <1>8, <1>13
  <2>4. (\A j \in 1..Len(acks) : acks[j].ackno = highest_ack => dupacks + j <= Repeats(highest_ack))'
    BY <1>8, <1>14, <1>16
  <2>5. (dupacks <= (IF highest_ack < 0 THEN 0 ELSE Repeats(highest_ack)))'
    BY <1>2, <1>4, <1>5, <1>7, <1>8, <1>16
  <2>6. (\A i \in 1..Len(data) :
          data[i] = 0 /\ highest_ack = 0 => dupacks + Len(acks) + i <= MaxDupSyn - 1)'
    BY <1>8, <1>15
  <2> QED BY <2>1, <2>2, <2>3, <2>4, <2>5, <2>6 DEF ServerInLine
<1> QED BY <1>9, <1>10, <1>17

LEMMA CalmRecvAck ==
  ASSUME MaxDupSyn <= Thresh, Inv, InLine, AcksInLine, ServerInLine, RecvAck
  PROVE  InLine' /\ AcksInLine' /\ ServerInLine'
<1>1. acks # <<>> /\ acks' = Tail(acks) /\ UNCHANGED <<sinkVars, netVars>>
  BY DEF RecvAck
<1> PICK p : p = Head(acks)
  OBVIOUS
<1>2. ZeroWindow(p) \/ NewAck(p) \/ PartialAck(p) \/ DupAck(p) \/ FastRetransmit(p)
  BY DEF RecvAck
<1>3. CASE ZeroWindow(p)
  BY <1>1, <1>3, CalmZeroWindow
<1>4. CASE NewAck(p)
  BY <1>1, <1>4, CalmNewAck
<1>5. CASE PartialAck(p)
  <2>1. dupwnd = 0 /\ dupwnd > 0
    BY <1>5 DEF InLine, PartialAck, IsPartial
  <2> QED BY <2>1
<1>6. CASE DupAck(p)
  BY <1>1, <1>6, CalmDupAck
<1>7. CASE FastRetransmit(p)
  <2>1. p = acks[1] /\ 1 \in 1..Len(acks)
    BY <1>1, RestFacts
  <2>2. acks[1].ackno = highest_ack /\ dupacks + 1 = Thresh
    BY <1>7, <2>1 DEF FastRetransmit, IsDup
  <2>3. dupacks + 1 <= Repeats(highest_ack)
    BY <2>1, <2>2 DEF ServerInLine
  <2>4. highest_ack \in Int /\ dupacks \in Nat /\ Thresh \in Nat
    BY AckFacts, ServerFacts
  <2>5. Repeats(highest_ack) \in Nat /\ Repeats(highest_ack) < Thresh
    BY <2>4, RepeatsFew
  <2> QED BY <2>2, <2>3, <2>4, <2>5
<1> QED BY <1>2, <1>3, <1>4, <1>5, <1>6, <1>7

-----------------------------------------------------------------------------
(* The source *)

LEMMA CalmStart ==
  ASSUME Inv, InLine, AcksInLine, ServerInLine, Start
  PROVE  InLine' /\ AcksInLine' /\ ServerInLine'
<1>1. /\ maxseq = -1 /\ SendMuch(t_seqno, highest_ack, Window(cwnd, dupwnd), 0, FALSE, -1)
      /\ UNCHANGED <<highest_ack, dupwnd, dupacks, next, seen, active, activated, acks>>
  BY DEF Start, ctlVars, sinkVars
<1>2. /\ next \in 0..N /\ N \in Nat /\ highest_ack \in -1..N-1 /\ highest_ack < next
      /\ next <= maxseq + 1 /\ Len(acks) \in Nat /\ acks \in Seq(Ack) /\ data \in Seq(0..N-1)
      /\ \A j \in 1..Len(acks) : acks[j].ackno \in Int /\ acks[j].ackno < next
      /\ dupacks \in Nat /\ MaxDupSyn \in Nat
  BY AckFacts
<1>3. next = 0 /\ highest_ack = -1
  BY <1>1, <1>2
<1>4. acks = <<>>
  <2> SUFFICES ASSUME acks # <<>> PROVE FALSE
    OBVIOUS
  <2>1. 1 \in 1..Len(acks)
    BY RestFacts
  <2>2. acks[1].ackno >= 0
    BY <2>1 DEF AcksInLine
  <2> QED BY <1>2, <1>3, <2>1, <2>2
<1>5. data = <<>>
  <2> SUFFICES ASSUME data # <<>> PROVE FALSE
    OBVIOUS
  <2>1. /\ 1 \in DOMAIN data /\ data[1] \in 0..N-1
    BY <1>2, EmptySeq, LenProperties, ElementOfSeq
  <2>2. data[1] <= maxseq
    BY <2>1, ServerFacts
  <2> QED BY <1>1, <1>2, <2>1, <2>2
<1>6. PICK win \in 0..W : win = Window(cwnd, dupwnd)
  <2>1. cwnd \in 0..W /\ W \in Nat /\ dupwnd \in Nat
    BY ServerFacts
  <2>2. cwnd \in Nat
    BY <2>1
  <2> QED BY <2>1, <2>2, WindowBound
<1>7. SendMuch(maxseq + 1, highest_ack, win, 0, FALSE, -1)
  BY <1>1, <1>6 DEF InLine
<1>8. /\ Line(data', maxseq', next) /\ t_seqno' = maxseq' + 1
      /\ rtx' => FALSE \/ data' # <<>>
      /\ SynsOf(data', data, maxseq)
  BY <1>2, <1>5, <1>7, SendLine
<1>9. InLine'
  BY <1>1, <1>8 DEF InLine, Line
<1>10. Len(acks) = 0 /\ Len(acks') = 0 /\ Len(data) = 0
  BY <1>1, <1>4, <1>5, EmptySeq, Zenon
<1>11. AcksInLine'
  <2>1. ASSUME NEW i \in 1..Len(data'), data'[i] = 0 PROVE i <= MaxDupSyn
    <3>1. i \notin 1..Len(data)
      BY <1>10
    <3> QED BY <1>8, <2>1, <3>1 DEF SynsOf
  <2>2. (~activated /\ next <= 1 => ~active)'
    BY <1>1 DEF AcksInLine
  <2>3. acks' = <<>> /\ next' = 0 /\ 1..Len(acks') = {}
    BY <1>1, <1>3, <1>4, <1>10
  <2> QED BY <2>1, <2>2, <2>3 DEF AcksInLine
<1>12. ServerInLine'
  <2>1. highest_ack' = -1 /\ 1..Len(acks') = {}
    BY <1>1, <1>3, <1>10
  <2>2. dupacks' <= 0
    BY <1>1, <1>3 DEF ServerInLine
  <2> QED BY <1>8, <2>1, <2>2 DEF ServerInLine
<1> QED BY <1>9, <1>11, <1>12

\* The timer fires only when everything sent has been acknowledged
LEMMA CalmTimeout ==
  ASSUME Inv, InLine, AcksInLine, ServerInLine, Timeout, Quiet, Quiet'
  PROVE  InLine' /\ AcksInLine' /\ ServerInLine'
<1>1. /\ rtx /\ dupwnd' = 0 /\ dupacks' = 0
      /\ SendMuch(highest_ack + 1, highest_ack, Window(1, 0), 0, TRUE, -1)
      /\ UNCHANGED <<highest_ack, next, seen, active, activated, acks>>
  BY DEF Timeout, sinkVars
<1>2. data = <<>> /\ acks = <<>>
  BY DEF Timeout, Quiet
<1>3. /\ next \in 0..N /\ N \in Nat /\ highest_ack \in -1..N-1 /\ maxseq \in -1..N-1
      /\ MaxDupSyn \in Nat
  BY AckFacts
<1>4. highest_ack = next - 1
  BY <1>1, <1>2 DEF ServerInLine
<1>5. next = maxseq + 1
  BY <1>2 DEF InLine, Line
<1>6. PICK win \in 0..W : win = Window(1, 0)
  BY WindowBound
<1>7. SendMuch(maxseq + 1, highest_ack, win, 0, TRUE, -1)
  <2>1. highest_ack + 1 = maxseq + 1
    BY <1>3, <1>4, <1>5
  <2> QED BY <1>1, <1>6, <2>1, Zenon
<1>8. Line(data', maxseq', next) /\ t_seqno' = maxseq' + 1 /\ SynsOf(data', data, maxseq)
  BY <1>2, <1>3, <1>7, SendLine
<1>9. InLine'
  BY <1>1, <1>8 DEF InLine, Line
<1>10. Len(acks') = 0 /\ Len(data) = 0
  BY <1>1, <1>2, EmptySeq, Zenon
<1>11. maxseq >= 0
  BY <1>1, ServerFacts
<1>12. \A i \in 1..Len(data') : data'[i] # 0
  <2>1. \A i \in 1..Len(data') : data'[i] = 0 => i \in 1..Len(data) /\ data[i] = 0
    BY <1>8, <1>11, SynsStay
  <2> QED BY <1>10, <2>1
<1>13. 1..Len(acks') = {} /\ acks' = <<>>
  BY <1>1, <1>2, <1>10
<1>14. AcksInLine'
  <2>1. (~activated /\ next <= 1 => ~active)'
    BY <1>1 DEF AcksInLine
  <2> QED BY <1>12, <1>13, <2>1 DEF AcksInLine
<1>15. ServerInLine'
  <2>1. (~active => highest_ack = -1)'
    BY <1>1 DEF ServerInLine
  <2>2. (rtx /\ data = <<>> /\ acks = <<>> => highest_ack = next - 1)'
    BY <1>1, <1>4
  <2>3. (dupacks <= (IF highest_ack < 0 THEN 0 ELSE Repeats(highest_ack)))'
    <3>1. Repeats(highest_ack) \in Nat
      BY <1>3, RepeatsFew
    <3>2. Repeats(highest_ack)' = Repeats(highest_ack)
      BY <1>1 DEF Repeats
    <3> QED BY <1>1, <3>1, <3>2
  <2> QED BY <1>12, <1>13, <2>1, <2>2, <2>3 DEF ServerInLine
<1> QED BY <1>9, <1>14, <1>15

-----------------------------------------------------------------------------
(* The client *)

LEMMA OneMore ==
  ASSUME Inv, NEW q, acks' = Append(acks, q)
  PROVE  /\ Len(acks') = Len(acks) + 1 /\ acks' # <<>> /\ acks'[Len(acks) + 1] = q
         /\ \A j \in 1..Len(acks) : acks'[j] = acks[j]
         /\ \A j \in 1..Len(acks') : j \in 1..Len(acks) \/ j = Len(acks) + 1
<1>1. acks \in Seq(Ack) /\ Len(acks) \in Nat
  BY AckFacts
<1>2. acks \in Seq(Ack \cup {q})
  <2>1. \A i \in 1..Len(acks) : acks[i] \in Ack \cup {q}
    BY <1>1, ElementOfSeq
  <2> QED BY <1>1, <2>1, SeqOver
<1>3. /\ Append(acks, q) \in Seq(Ack \cup {q}) /\ Len(Append(acks, q)) = Len(acks) + 1
      /\ Append(acks, q)[Len(acks) + 1] = q
      /\ \A j \in 1..Len(acks) : Append(acks, q)[j] = acks[j]
  BY <1>2, AppendProperties
<1>4. Append(acks, q) # <<>>
  BY <1>1, <1>3, EmptySeq
<1> QED BY <1>1, <1>3, <1>4

\* What the client takes from the line, and what it then has
LEMMA TakesNext ==
  ASSUME Inv, InLine, RecvData
  PROVE  /\ next' = IF data[1] = next THEN next + 1 ELSE next
         /\ data[1] = next \/ (data[1] = 0 /\ next = 1)
         /\ seen' = {} /\ data \in Seq(Nat) /\ data # <<>> /\ data' = Tail(data)
<1>1. data # <<>> /\ data' = Tail(data)
  BY DEF RecvData
<1>2. data \in Seq(0..N-1) /\ N \in Nat /\ next \in 0..N /\ seen = {}
  BY AckFacts DEF InLine
<1>3. data \in Seq(Nat)
  <2>1. \A i \in 1..Len(data) : data[i] \in Nat
    BY <1>2, ElementOfSeq
  <2> QED BY <1>2, <2>1, SeqOver
<1>4. Head(data) = data[1] /\ data[1] \in 0..N-1
  BY <1>1, <1>2, TailIs, ElementOfSeq
<1>5. data[1] = next \/ (data[1] = 0 /\ next = 1)
  BY <1>1 DEF InLine, Line
<1> PICK got : got = seen \cup (0..next-1) \cup {Head(data)}
  OBVIOUS
<1>6. next' = NextMissing(got) /\ seen' = {n \in got : n > next'}
  BY DEF RecvData
<1>7. PICK m \in Nat : m = IF data[1] = next THEN next + 1 ELSE next
  BY <1>2
<1>8. got = 0..m-1 /\ got \subseteq 0..N-1
  <2>1. CASE data[1] = next
    BY <1>2, <1>4, <1>7, <2>1
  <2>2. CASE data[1] # next
    BY <1>2, <1>4, <1>5, <1>7, <2>2
  <2> QED BY <2>1, <2>2
<1>9. /\ NextMissing(got) \in 0..N /\ NextMissing(got) \notin got
      /\ 0..NextMissing(got)-1 \subseteq got
  BY <1>8, NextMissingFacts
<1>10. NextMissing(got) = m
  <2>1. PICK k : k = NextMissing(got)
    OBVIOUS
  <2>2. k \in Nat /\ k \notin 0..m-1 /\ \A i \in 0..k-1 : i \in 0..m-1
    <3>1. k \in 0..N
      BY <1>9, <2>1, Zenon
    <3>2. k \notin 0..m-1 /\ 0..k-1 \subseteq 0..m-1
      BY <1>8, <1>9, <2>1, Zenon
    <3> QED BY <1>2, <3>1, <3>2
  <2>3. k >= m
    BY <2>2
  <2>4. ~(k > m)
    <3> SUFFICES ASSUME k > m PROVE FALSE
      OBVIOUS
    <3>1. m \in 0..k-1 /\ m \notin 0..m-1
      BY <2>2
    <3> QED BY <2>2, <3>1
  <2> QED BY <2>1, <2>2, <2>3, <2>4
<1>11. seen' = {}
  BY <1>6, <1>8, <1>10
<1> QED BY <1>1, <1>3, <1>5, <1>6, <1>7, <1>10, <1>11

LEMMA CalmRecvData ==
  ASSUME Inv, InLine, AcksInLine, ServerInLine, RecvData
  PROVE  InLine' /\ AcksInLine' /\ ServerInLine'
<1> PICK m : m = IF data[1] = next THEN next + 1 ELSE next
  OBVIOUS
<1> PICK q : q = [ackno |-> next' - 1, open |-> active', update |-> FALSE]
  OBVIOUS
<1>1. /\ next' = m /\ seen' = {} /\ data \in Seq(Nat) /\ data # <<>> /\ data' = Tail(data)
      /\ data[1] = next \/ (data[1] = 0 /\ next = 1)
  BY TakesNext
<1>2. /\ active' = (active \/ next' - 1 > 0) /\ acks' = Append(acks, q)
      /\ UNCHANGED <<t_seqno, maxseq, rtx, highest_ack, dupwnd, dupacks, activated>>
  BY DEF RecvData, ctlVars
<1>3. q.ackno = m - 1 /\ q.open = active'
  BY <1>1
<1>4. /\ next \in Int /\ next >= 0 /\ Len(acks) \in Nat /\ MaxDupSyn \in Nat /\ MaxDupSyn >= 1
      /\ highest_ack \in Int /\ highest_ack < next /\ dupacks \in Nat /\ N \in Nat
      /\ active \in BOOLEAN /\ activated \in BOOLEAN
      /\ \A j \in 1..Len(acks) : acks[j].ackno \in Int /\ acks[j].ackno < next
  BY AckFacts, SMTT(30)
<1>5. /\ Len(acks') = Len(acks) + 1 /\ acks' # <<>> /\ acks'[Len(acks) + 1] = q
      /\ \A j \in 1..Len(acks) : acks'[j] = acks[j]
      /\ \A j \in 1..Len(acks') : j \in 1..Len(acks) \/ j = Len(acks) + 1
  BY <1>2, OneMore
<1>6. Line(data, maxseq, next) /\ next \in Nat
  BY <1>4 DEF InLine
<1>7. /\ Line(data', maxseq, m)
      /\ \A i \in 1..Len(data') : data'[i] = 0 =>
           i + 1 \in 1..Len(data) /\ data[i+1] = 0 /\ data[1] = 0
  <2>1. /\ Line(Tail(data), maxseq, m)
        /\ \A i \in 1..Len(Tail(data)) : Tail(data)[i] = 0 =>
             i + 1 \in 1..Len(data) /\ data[i+1] = 0 /\ data[1] = 0
    BY <1>1, <1>6, LineShrinks
  <2> QED BY <1>1, <2>1
<1>8. InLine'
  BY <1>1, <1>2, <1>7 DEF InLine
<1>9. m \in Int /\ m >= 1 /\ m >= next /\ (data[1] = 0 => m = 1 /\ next <= 1)
  BY <1>1, <1>4
<1>10. 1 \in 1..Len(data) /\ Len(data) \in Nat
  BY <1>1, TailIs
\* A number that an acknowledgement under way, or the server, has already is
\* that of a SYN
<1>11. ASSUME NEW k \in Int, k < next, k = m - 1
       PROVE  data[1] = 0 /\ next = 1 /\ k = 0
  BY <1>1, <1>4, <1>11
<1>12. AcksInLine'
  <2>1. (~activated /\ next <= 1 => ~active)'
    <3> SUFFICES ASSUME ~activated, m <= 1 PROVE ~active'
      BY <1>1, <1>2
    <3>1. next <= 1 /\ ~(m - 1 > 0)
      BY <1>4, <1>9
    <3>2. ~active
      BY <3>1 DEF AcksInLine
    <3> QED BY <1>1, <1>2, <3>1, <3>2
  <2>2. ASSUME ~active', NEW j \in 1..Len(acks') PROVE ~acks'[j].open
    <3>1. ~active
      BY <1>2, <2>2
    <3>2. CASE j \in 1..Len(acks)
      BY <1>5, <3>1, <3>2 DEF AcksInLine
    <3>3. CASE j = Len(acks) + 1
      BY <1>3, <1>5, <2>2, <3>3
    <3> QED BY <1>5, <3>2, <3>3
  <2>3. ASSUME NEW a \in 1..Len(acks'), NEW j \in 1..Len(acks'), a <= j, acks'[a].open
        PROVE  acks'[j].open
    <3>1. CASE j \in 1..Len(acks)
      <4>1. a \in 1..Len(acks)
        BY <1>4, <1>5, <2>3, <3>1
      <4>2. acks[a].open /\ acks'[j] = acks[j]
        BY <1>5, <2>3, <3>1, <4>1
      <4>3. acks[j].open
        BY <2>3, <3>1, <4>1, <4>2 DEF AcksInLine
      <4> QED BY <4>2, <4>3
    <3>2. CASE j = Len(acks) + 1
      <4>1. active'
        BY <2>2, <2>3
      <4> QED BY <1>3, <1>5, <3>2, <4>1
    <3> QED BY <1>5, <3>1, <3>2
  <2>4. ASSUME NEW j \in 1..Len(acks') PROVE acks'[j].ackno >= 0
    <3>1. CASE j \in 1..Len(acks)
      BY <1>5, <3>1 DEF AcksInLine
    <3>2. CASE j = Len(acks) + 1
      BY <1>3, <1>5, <1>9, <3>2
    <3> QED BY <1>5, <3>1, <3>2
  <2>5. acks'[Len(acks')].ackno = next' - 1
    BY <1>1, <1>3, <1>5
  <2>6. ASSUME NEW a \in 1..Len(acks'), NEW j \in 1..Len(acks'),
               a <= j, acks'[a].open, acks'[a].ackno = acks'[j].ackno
        PROVE  j - a <= Repeats(acks[j].ackno)'
    <3>1. CASE j \in 1..Len(acks)
      <4>1. a \in 1..Len(acks)
        BY <1>4, <1>5, <2>6, <3>1
      <4>2. acks[a].open /\ acks[a].ackno = acks[j].ackno /\ acks'[j] = acks[j]
        BY <1>5, <2>6, <3>1, <4>1
      <4>3. j - a <= Repeats(acks[j].ackno)
        BY <2>6, <3>1, <4>1, <4>2 DEF AcksInLine
      <4> QED BY <1>2, <4>2, <4>3 DEF Repeats
    <3>2. CASE j = Len(acks) + 1 /\ a = j
      <4>1. Repeats(acks[j].ackno)' >= 0
        BY <1>4, <1>2 DEF Repeats
      <4> QED BY <1>4, <3>2, <4>1
    <3>3. CASE j = Len(acks) + 1 /\ a \in 1..Len(acks)
      <4>1. acks[a].open /\ acks[a].ackno = m - 1 /\ acks'[j].ackno = m - 1
        BY <1>3, <1>5, <2>6, <3>3
      <4>2. data[1] = 0 /\ m - 1 = 0
        BY <1>4, <1>11, <3>3, <4>1
      <4>3. Len(acks) - a + 1 <= MaxDupSyn - 1
        BY <1>10, <3>3, <4>1, <4>2 DEF AcksInLine
      <4>4. Repeats(acks[j].ackno)' = MaxDupSyn - 1
        BY <4>1, <4>2 DEF Repeats
      <4>5. j - a = Len(acks) - a + 1
        BY <1>4, <3>3
      <4> QED BY <4>3, <4>4, <4>5
    <3> QED BY <1>5, <3>1, <3>2, <3>3
  <2>7. ASSUME NEW i \in 1..Len(data'), data'[i] = 0
        PROVE  /\ i <= MaxDupSyn /\ next' <= 1 /\ (next' = 1 => i <= MaxDupSyn - 1)
               /\ \A a \in 1..Len(acks') : acks'[a].open => Len(acks') - a + i <= MaxDupSyn - 1
    <3>1. i + 1 \in 1..Len(data) /\ data[i+1] = 0 /\ data[1] = 0
      BY <1>7, <2>7
    <3>2. i \in Int
      BY <1>1, <1>10, TailIs
    <3>3. /\ i + 1 <= MaxDupSyn
          /\ \A a \in 1..Len(acks) : acks[a].open => Len(acks) - a + (i + 1) <= MaxDupSyn - 1
      BY <3>1 DEF AcksInLine
    <3>4. i <= MaxDupSyn - 1 /\ i <= MaxDupSyn /\ next' <= 1
      BY <1>1, <1>4, <1>9, <3>1, <3>2, <3>3
    <3>5. ASSUME NEW a \in 1..Len(acks'), acks'[a].open
          PROVE  Len(acks') - a + i <= MaxDupSyn - 1
      <4>1. CASE a \in 1..Len(acks)
        <5>1. Len(acks) - a + (i + 1) <= MaxDupSyn - 1
          BY <1>5, <3>3, <3>5, <4>1
        <5>2. Len(acks') - a + i = Len(acks) - a + (i + 1)
          BY <1>4, <1>5, <3>2, <4>1
        <5> QED BY <5>1, <5>2
      <4>2. CASE a = Len(acks) + 1
        <5>1. Len(acks') - a + i = i
          BY <1>4, <1>5, <3>2, <4>2
        <5> QED BY <3>4, <5>1
      <4> QED BY <1>5, <4>1, <4>2
    <3> QED BY <3>4, <3>5
  <2> QED BY <2>1, <2>2, <2>3, <2>4, <2>5, <2>6, <2>7 DEF AcksInLine
<1>13. ServerInLine'
  <2>1. (~active => highest_ack = -1)'
    BY <1>2 DEF ServerInLine
  <2>2. (highest_ack >= 0 => \A j \in 1..Len(acks) : acks[j].open)'
    <3> SUFFICES ASSUME highest_ack >= 0, NEW j \in 1..Len(acks') PROVE acks'[j].open
      BY <1>2
    <3>1. active
      BY <1>4 DEF ServerInLine
    <3>2. CASE j \in 1..Len(acks)
      BY <1>5, <3>2 DEF ServerInLine
    <3>3. CASE j = Len(acks) + 1
      BY <1>2, <1>3, <1>5, <3>1, <3>3
    <3> QED BY <1>5, <3>2, <3>3
  <2>3. (rtx /\ data = <<>> /\ acks = <<>> => highest_ack = next - 1)'
    BY <1>5
  <2>4. (\A j \in 1..Len(acks) : acks[j].ackno = highest_ack => dupacks + j <= Repeats(highest_ack))'
    <3> SUFFICES ASSUME NEW j \in 1..Len(acks'), acks'[j].ackno = highest_ack
                 PROVE  dupacks + j <= Repeats(highest_ack)'
      BY <1>2
    <3>1. CASE j \in 1..Len(acks)
      <4>1. dupacks + j <= Repeats(highest_ack)
        BY <1>5, <3>1 DEF ServerInLine
      <4> QED BY <1>2, <4>1 DEF Repeats
    <3>2. CASE j = Len(acks) + 1
      <4>1. data[1] = 0 /\ highest_ack = 0
        BY <1>3, <1>4, <1>5, <1>11, <3>2
      <4>2. dupacks + Len(acks) + 1 <= MaxDupSyn - 1
        BY <1>10, <4>1 DEF ServerInLine
      <4>3. Repeats(highest_ack)' = MaxDupSyn - 1
        BY <1>2, <4>1 DEF Repeats
      <4>4. dupacks + j = dupacks + Len(acks) + 1
        BY <1>4, <3>2
      <4> QED BY <4>2, <4>3, <4>4
    <3> QED BY <1>5, <3>1, <3>2
  <2>5. (dupacks <= (IF highest_ack < 0 THEN 0 ELSE Repeats(highest_ack)))'
    <3>1. Repeats(highest_ack)' = Repeats(highest_ack)
      BY <1>2 DEF Repeats
    <3> QED BY <1>2, <3>1 DEF ServerInLine
  <2>6. (\A i \in 1..Len(data) :
          data[i] = 0 /\ highest_ack = 0 => dupacks + Len(acks) + i <= MaxDupSyn - 1)'
    <3> SUFFICES ASSUME NEW i \in 1..Len(data'), data'[i] = 0, highest_ack = 0
                 PROVE  dupacks + Len(acks') + i <= MaxDupSyn - 1
      BY <1>2
    <3>1. i + 1 \in 1..Len(data) /\ data[i+1] = 0
      BY <1>7
    <3>2. dupacks + Len(acks) + (i + 1) <= MaxDupSyn - 1
      BY <3>1 DEF ServerInLine
    <3>3. i \in Int
      BY <1>1, <1>10, TailIs
    <3>4. dupacks + Len(acks') + i = dupacks + Len(acks) + (i + 1)
      BY <1>4, <1>5, <3>3
    <3> QED BY <3>2, <3>4
  <2> QED BY <2>1, <2>2, <2>3, <2>4, <2>5, <2>6 DEF ServerInLine
<1> QED BY <1>8, <1>12, <1>13

\* The window update repeats the last number sent, once
LEMMA CalmActivate ==
  ASSUME Inv, InLine, AcksInLine, ServerInLine, Activate
  PROVE  InLine' /\ AcksInLine' /\ ServerInLine'
<1> PICK q : q = [ackno |-> next - 1, open |-> TRUE, update |-> TRUE]
  OBVIOUS
<1>1. /\ ~activated /\ activated' = TRUE /\ active' = TRUE
      /\ acks' = IF next - 1 > -1 THEN Append(acks, q) ELSE acks
      /\ UNCHANGED <<t_seqno, maxseq, rtx, data, highest_ack, dupwnd, dupacks, next, seen>>
  BY DEF Activate, ctlVars, sendVars
<1>2. /\ next \in Int /\ next >= 0 /\ Len(acks) \in Nat /\ MaxDupSyn \in Nat /\ MaxDupSyn >= 1
      /\ highest_ack \in Int /\ highest_ack < next /\ dupacks \in Nat
      /\ active \in BOOLEAN /\ activated \in BOOLEAN /\ highest_ack >= -1
      /\ Len(data) \in Nat
      /\ \A j \in 1..Len(acks) : acks[j].ackno \in Int /\ acks[j].ackno < next
  BY AckFacts
<1>3. InLine'
  BY <1>1 DEF InLine, Line
<1>4. (~activated /\ next <= 1 => ~active)' /\ active'
  BY <1>1
<1>5. CASE next = 0
  <2>1. acks' = acks /\ highest_ack = -1
    BY <1>1, <1>2, <1>5
  <2>2. Len(acks) = 0
    <3> SUFFICES ASSUME Len(acks) >= 1 PROVE FALSE
      BY <1>2
    <3>1. 1 \in 1..Len(acks)
      BY <1>2
    <3>2. acks[1].ackno >= 0
      BY <3>1 DEF AcksInLine
    <3> QED BY <1>2, <1>5, <3>1, <3>2
  <2>3. 1..Len(acks') = {}
    BY <2>1, <2>2
  <2>4. acks' # <<>> => acks'[Len(acks')].ackno = next' - 1
    BY <1>1, <2>1 DEF AcksInLine
  <2>5. ASSUME NEW i \in 1..Len(data'), data'[i] = 0
        PROVE  i <= MaxDupSyn /\ next' <= 1 /\ (next' = 1 => i <= MaxDupSyn - 1)
    BY <1>1, <2>5 DEF AcksInLine
  <2>6. AcksInLine'
    BY <1>4, <2>3, <2>4, <2>5 DEF AcksInLine
  <2>7. dupacks' <= 0 /\ highest_ack' = -1
    BY <1>1, <2>1 DEF ServerInLine
  <2>8. (rtx /\ data = <<>> /\ acks = <<>> => highest_ack = next - 1)'
    BY <1>1, <2>1 DEF ServerInLine
  <2>9. ServerInLine'
    BY <2>3, <2>7, <2>8 DEF ServerInLine
  <2> QED BY <1>3, <2>6, <2>9
<1>6. CASE next >= 1
  <2>1. acks' = Append(acks, q)
    BY <1>1, <1>2, <1>6
  <2>2. /\ Len(acks') = Len(acks) + 1 /\ acks' # <<>> /\ acks'[Len(acks) + 1] = q
        /\ \A j \in 1..Len(acks) : acks'[j] = acks[j]
        /\ \A j \in 1..Len(acks') : j \in 1..Len(acks) \/ j = Len(acks) + 1
    BY <2>1, OneMore
  <2>3. q.ackno = next - 1 /\ q.open = TRUE
    OBVIOUS
  <2>4. next = 1 => ~active
    BY <1>1 DEF AcksInLine
  <2>5. \A j \in 1..Len(acks) : ~active => ~acks[j].open
    BY DEF AcksInLine
  <2>6. \A k : k # 0 => Repeats(k) = 0 /\ Repeats(k)' = 1
    BY <1>1 DEF Repeats
  <2>7. Repeats(0) = MaxDupSyn - 1 /\ Repeats(0)' = MaxDupSyn - 1
    BY DEF Repeats
  <2>8. AcksInLine'
    <3>1. ASSUME NEW a \in 1..Len(acks'), NEW j \in 1..Len(acks'), a <= j, acks'[a].open
          PROVE  acks'[j].open
      <4>1. CASE j \in 1..Len(acks)
        <5>1. a \in 1..Len(acks)
          BY <1>2, <2>2, <3>1, <4>1
        <5>2. acks[a].open /\ acks'[j] = acks[j]
          BY <2>2, <3>1, <4>1, <5>1
        <5>3. acks[j].open
          BY <3>1, <4>1, <5>1, <5>2 DEF AcksInLine
        <5> QED BY <5>2, <5>3
      <4>2. CASE j = Len(acks) + 1
        BY <2>2, <2>3, <4>2
      <4> QED BY <2>2, <4>1, <4>2
    <3>2. ASSUME NEW j \in 1..Len(acks') PROVE acks'[j].ackno >= 0
      <4>1. CASE j \in 1..Len(acks)
        BY <2>2, <4>1 DEF AcksInLine
      <4>2. CASE j = Len(acks) + 1
        BY <1>2, <1>6, <2>2, <2>3, <4>2
      <4> QED BY <2>2, <4>1, <4>2
    <3>3. acks'[Len(acks')].ackno = next' - 1
      BY <1>1, <2>2, <2>3
    <3>4. ASSUME NEW a \in 1..Len(acks'), NEW j \in 1..Len(acks'),
                 a <= j, acks'[a].open, acks'[a].ackno = acks'[j].ackno
          PROVE  j - a <= Repeats(acks[j].ackno)'
      <4> PICK k : k = acks'[j].ackno
        OBVIOUS
      <4>1. Repeats(acks[j].ackno)' = IF k = 0 THEN MaxDupSyn - 1 ELSE 1
        BY <1>1 DEF Repeats
      <4>2. CASE j \in 1..Len(acks)
        <5>1. a \in 1..Len(acks)
          BY <1>2, <2>2, <3>4, <4>2
        <5>2. acks[a].open /\ acks[a].ackno = acks[j].ackno /\ acks[j].ackno = k
          BY <2>2, <3>4, <4>2, <5>1
        <5>3. j - a <= Repeats(k)
          BY <3>4, <4>2, <5>1, <5>2 DEF AcksInLine
        <5>4. j - a \in Int
          BY <1>2, <4>2, <5>1
        <5> QED BY <2>6, <2>7, <4>1, <5>3, <5>4
      <4>3. CASE j = Len(acks) + 1 /\ a = j
        BY <1>2, <4>1, <4>3
      <4>4. CASE j = Len(acks) + 1 /\ a \in 1..Len(acks)
        <5>1. acks[a].open /\ acks[a].ackno = next - 1 /\ k = next - 1
          BY <2>2, <2>3, <3>4, <4>4
        <5>2. active /\ next # 1
          BY <2>4, <2>5, <4>4, <5>1
        <5>3. k # 0
          BY <1>2, <5>1, <5>2
        <5>4. Len(acks) \in 1..Len(acks) /\ a <= Len(acks) /\ acks # <<>>
          BY <1>2, <4>4, EmptySeq
        <5>5. acks[Len(acks)].ackno = k
          BY <5>1, <5>4 DEF AcksInLine
        <5>6. Len(acks) - a <= Repeats(acks[Len(acks)].ackno)
          BY <4>4, <5>1, <5>4, <5>5 DEF AcksInLine
        <5>7. Len(acks) - a <= 0
          BY <2>6, <5>3, <5>5, <5>6
        <5> QED BY <1>2, <4>1, <4>4, <5>3, <5>7
      <4> QED BY <2>2, <4>2, <4>3, <4>4
    <3>5. ASSUME NEW i \in 1..Len(data'), data'[i] = 0
          PROVE  /\ i <= MaxDupSyn /\ next' <= 1 /\ (next' = 1 => i <= MaxDupSyn - 1)
                 /\ \A a \in 1..Len(acks') : acks'[a].open => Len(acks') - a + i <= MaxDupSyn - 1
      <4>1. i \in 1..Len(data) /\ data[i] = 0 /\ i \in Int
        BY <1>1, <3>5
      <4>2. i <= MaxDupSyn /\ next <= 1 /\ (next = 1 => i <= MaxDupSyn - 1)
        BY <4>1 DEF AcksInLine
      <4>3. next = 1 /\ ~active
        BY <1>2, <1>6, <2>4, <4>2
      <4>4. ASSUME NEW a \in 1..Len(acks'), acks'[a].open
            PROVE  Len(acks') - a + i <= MaxDupSyn - 1
        <5>1. a = Len(acks) + 1
          BY <2>2, <2>5, <4>3, <4>4
        <5>2. Len(acks') - a + i = i
          BY <1>2, <2>2, <4>1, <5>1
        <5> QED BY <4>2, <4>3, <5>2
      <4>5. i <= MaxDupSyn /\ next' <= 1 /\ (next' = 1 => i <= MaxDupSyn - 1)
        BY <1>1, <4>2
      <4> QED BY <4>4, <4>5, Zenon
    <3> QED BY <1>4, <3>1, <3>2, <3>3, <3>4, <3>5 DEF AcksInLine
  <2>9. highest_ack >= 0 => next # 1 /\ active
    BY <1>2, <2>4 DEF ServerInLine
  <2>10. ServerInLine'
    <3>1. (~active => highest_ack = -1)'
      BY <1>4
    <3>2. (highest_ack >= 0 => \A j \in 1..Len(acks) : acks[j].open)'
      <4> SUFFICES ASSUME highest_ack >= 0, NEW j \in 1..Len(acks') PROVE acks'[j].open
        BY <1>1
      <4>1. CASE j \in 1..Len(acks)
        BY <2>2, <4>1 DEF ServerInLine
      <4>2. CASE j = Len(acks) + 1
        BY <2>2, <2>3, <4>2
      <4> QED BY <2>2, <4>1, <4>2
    <3>3. (rtx /\ data = <<>> /\ acks = <<>> => highest_ack = next - 1)'
      BY <2>2
    <3>4. (\A j \in 1..Len(acks) : acks[j].ackno = highest_ack => dupacks + j <= Repeats(highest_ack))'
      <4> SUFFICES ASSUME NEW j \in 1..Len(acks'), acks'[j].ackno = highest_ack
                   PROVE  dupacks + j <= Repeats(highest_ack)'
        BY <1>1
      <4>1. Repeats(highest_ack)' = IF highest_ack = 0 THEN MaxDupSyn - 1 ELSE 1
        BY <1>1 DEF Repeats
      <4>2. Repeats(highest_ack) = IF highest_ack = 0 THEN MaxDupSyn - 1 ELSE 0
        BY <1>1 DEF Repeats
      <4>3. CASE j \in 1..Len(acks)
        <5>1. dupacks + j <= Repeats(highest_ack)
          BY <2>2, <4>3 DEF ServerInLine
        <5>2. dupacks + j \in Int
          BY <1>2, <4>3
        <5> QED BY <1>2, <4>1, <4>2, <5>1, <5>2
      <4>4. CASE j = Len(acks) + 1
        <5>1. highest_ack = next - 1 /\ highest_ack >= 0
          BY <1>2, <1>6, <2>2, <2>3, <4>4
        <5>2. highest_ack > 0 /\ Repeats(highest_ack) = 0
          BY <1>2, <2>9, <4>2, <5>1
        <5>3. dupacks = 0
          BY <1>2, <5>2 DEF ServerInLine
        <5>4. Len(acks) = 0
          <6> SUFFICES ASSUME Len(acks) >= 1 PROVE FALSE
            BY <1>2
          <6>1. Len(acks) \in 1..Len(acks) /\ acks # <<>>
            BY <1>2, EmptySeq
          <6>2. acks[Len(acks)].ackno = highest_ack
            BY <5>1, <6>1 DEF AcksInLine
          <6>3. dupacks + Len(acks) <= 0
            BY <5>2, <6>1, <6>2 DEF ServerInLine
          <6> QED BY <1>2, <5>3, <6>3
        <5> QED BY <4>1, <4>4, <5>2, <5>3, <5>4
      <4> QED BY <2>2, <4>3, <4>4
    <3>5. (dupacks <= (IF highest_ack < 0 THEN 0 ELSE Repeats(highest_ack)))'
      <4>1. Repeats(highest_ack)' = IF highest_ack = 0 THEN MaxDupSyn - 1 ELSE 1
        BY <1>1 DEF Repeats
      <4>2. Repeats(highest_ack) = IF highest_ack = 0 THEN MaxDupSyn - 1 ELSE 0
        BY <1>1 DEF Repeats
      <4>3. dupacks <= (IF highest_ack < 0 THEN 0 ELSE Repeats(highest_ack))
        BY DEF ServerInLine
      <4> QED BY <1>1, <1>2, <4>1, <4>2, <4>3
    <3>6. (\A i \in 1..Len(data) :
            data[i] = 0 /\ highest_ack = 0 => dupacks + Len(acks) + i <= MaxDupSyn - 1)'
      <4> SUFFICES ASSUME NEW i \in 1..Len(data'), data'[i] = 0, highest_ack = 0 PROVE FALSE
        BY <1>1
      <4>1. next <= 1
        BY <1>1 DEF AcksInLine
      <4> QED BY <1>2, <1>6, <2>9, <4>1
    <3> QED BY <3>1, <3>2, <3>3, <3>4, <3>5, <3>6 DEF ServerInLine
  <2> QED BY <1>3, <2>8, <2>10
<1> QED BY <1>2, <1>5, <1>6

-----------------------------------------------------------------------------
LEMMA CalmInit == Init => CalmInv
<1> SUFFICES ASSUME Init PROVE InLine /\ AcksInLine /\ ServerInLine
  BY DEF CalmInv
<1>1. /\ t_seqno = 0 /\ maxseq = -1 /\ highest_ack = -1 /\ rtx = FALSE /\ dupwnd = 0 /\ dupacks = 0
      /\ next = 0 /\ seen = {} /\ active = FALSE /\ data = <<>> /\ acks = <<>>
  BY DEF Init
<1>2. Len(data) = 0 /\ Len(acks) = 0
  BY <1>1, EmptySeq
<1>3. 1..Len(data) = {} /\ 1..Len(acks) = {} /\ 1..Len(data)-1 = {}
  BY <1>2
<1>4. InLine
  BY <1>1, <1>3 DEF InLine, Line
<1>5. AcksInLine
  BY <1>1, <1>3 DEF AcksInLine
<1>6. ServerInLine
  BY <1>1, <1>3 DEF ServerInLine
<1> QED BY <1>4, <1>5, <1>6

LEMMA CalmNext ==
  ASSUME MaxDupSyn <= Thresh
  PROVE  Inv /\ CalmInv /\ [Next]_vars => CalmInv'
<1> SUFFICES ASSUME Inv, CalmInv, [Next]_vars, Quiet'
             PROVE  InLine' /\ AcksInLine' /\ ServerInLine'
  BY DEF CalmInv
<1>1. drops \in Nat /\ early \in Nat
  BY IAFlowAssumption DEF IAFlowAssumption, Inv, TypeOK
<1>2. CASE LoseData
  BY <1>1, <1>2 DEF LoseData, Quiet
<1>3. CASE LoseAck
  BY <1>1, <1>3 DEF LoseAck, Quiet
<1>4. ASSUME Quiet PROVE InLine /\ AcksInLine /\ ServerInLine
  BY <1>4 DEF CalmInv
<1>5. CASE Start
  <2>1. Quiet
    BY <1>5 DEF Start, netVars, Quiet
  <2> QED BY <1>4, <1>5, <2>1, CalmStart
<1>6. CASE Timeout
  <2>1. Quiet
    BY <1>1, <1>6 DEF Timeout, Quiet
  <2> QED BY <1>4, <1>6, <2>1, CalmTimeout
<1>7. CASE RecvAck
  <2>1. Quiet
    BY <1>7 DEF RecvAck, netVars, Quiet
  <2> QED BY <1>4, <1>7, <2>1, CalmRecvAck
<1>8. CASE RecvData
  <2>1. Quiet
    BY <1>8 DEF RecvData, netVars, Quiet
  <2> QED BY <1>4, <1>8, <2>1, CalmRecvData
<1>9. CASE Activate
  <2>1. Quiet
    BY <1>9 DEF Activate, netVars, Quiet
  <2> QED BY <1>4, <1>9, <2>1, CalmActivate
<1>10. CASE UNCHANGED vars
  <2>1. UNCHANGED <<t_seqno, maxseq, rtx, data, highest_ack, dupwnd, dupacks, next, seen, active,
                    activated, acks, drops, early>>
    BY <1>10 DEF vars, sendVars, ctlVars, sinkVars, netVars
  <2>2. Quiet
    BY <2>1 DEF Quiet
  <2>3. InLine'
    BY <1>4, <2>1, <2>2 DEF InLine, Line
  <2>4. AcksInLine'
    BY <1>4, <2>1, <2>2 DEF AcksInLine, Repeats
  <2>5. ServerInLine'
    BY <1>4, <2>1, <2>2 DEF ServerInLine, Repeats
  <2> QED BY <2>3, <2>4, <2>5
<1> QED BY <1>2, <1>3, <1>5, <1>6, <1>7, <1>8, <1>9, <1>10 DEF Next

\* NoSpuriousRetransmit: when nothing is lost and no timeout is premature,
\* dupack_action's threshold is never reached by the copies of the SYN and the
\* window update, as long as maxdupsyn_ does not exceed it
THEOREM NoDuplicateStorm ==
  ASSUME MaxDupSyn <= Thresh
  PROVE  Spec => []NoSpuriousRetransmit
<1>1. Init => CalmInv
  BY CalmInit
<1>2. Inv /\ CalmInv /\ [Next]_vars => CalmInv'
  BY CalmNext
<1>3. Inv /\ CalmInv => NoSpuriousRetransmit
  <2> SUFFICES ASSUME Inv, InLine, AcksInLine, ServerInLine PROVE dupacks < Thresh
    BY DEF CalmInv, NoSpuriousRetransmit, Quiet
  <2>1. highest_ack \in Int /\ dupacks \in Nat /\ Thresh \in Nat /\ Thresh >= 2
    BY AckFacts, ServerFacts
  <2>2. Repeats(highest_ack) \in Nat /\ Repeats(highest_ack) < Thresh
    BY <2>1, RepeatsFew
  <2>3. dupacks <= (IF highest_ack < 0 THEN 0 ELSE Repeats(highest_ack))
    BY DEF ServerInLine
  <2> QED BY <2>1, <2>2, <2>3
<1> QED BY <1>1, <1>2, <1>3, InvHolds, PTL DEF Spec

-----------------------------------------------------------------------------
(* The invariant of the controller *)

Unfinished == \A i \in Flows : rcvd[i] < SRU_trans

\* What every visit of a poll keeps
Good ==
  {st \in [syn : 0..S, next : 0..S, cur : -2*S..S, fin : [Flows -> BOOLEAN]] :
     /\ st.next <= Para + Cardinality({i \in Flows : st.fin[i]})
     /\ \A i \in Flows : st.fin[i] => NearEnd(i)
     /\ st.cur <= st.next
     /\ Unfinished => st.cur = st.next /\ st.next <= Larger(Para, Para * KX)
     /\ Para <= st.syn
     /\ \A i \in Para - 1 .. st.syn - 2 : rcvd[i] > 0}

ControlInv == /\ rcvd \in [Flows -> Levels] /\ is_app_fin \in BOOLEAN
       /\ Now \in Good
       /\ FinMeansAll

-----------------------------------------------------------------------------
(* Arithmetic *)

\* No flow counts more than Whole, which is at most SRU_trans
LEMMA Sizes ==
  /\ S \in Nat \ {0} /\ Para \in 1..S /\ KX \in Nat \ {0}
  /\ HDR \in Nat \ {0} /\ Packets \in Nat /\ Whole \in Nat /\ SRU_trans \in Nat
  /\ Whole <= SRU_trans /\ SSP \div Para \in Nat
  /\ Levels \subseteq 0..Whole /\ 0 \in Levels
  /\ Para * KX \in Nat /\ Flows \subseteq Nat
<1>1. /\ S \in Nat \ {0} /\ PAY \in Nat \ {0} /\ HDR \in Nat \ {0} /\ SRU \in Nat \ {0}
      /\ SSP \in Nat /\ Para \in 1..S /\ KX \in Nat \ {0}
  BY NccsAssumption DEF NccsAssumption
<1>2. SRU \div PAY \in Nat /\ (SRU + PAY - 1) \div PAY \in Nat /\ SSP \div Para \in Nat
  BY <1>1
<1>3. (SRU + PAY - 1) \div PAY <= SRU \div PAY + 1
  BY <1>1
<1> DEFINE p == (SRU + PAY - 1) \div PAY
           q == SRU \div PAY + 1
           c == PAY + HDR
<1>4. p \in Nat /\ q \in Nat /\ c \in Nat /\ p <= q
  BY <1>1, <1>2, <1>3
<1>5. Packets = p /\ Whole = HDR + p * c /\ SRU_trans = q * c + HDR
  BY DEF Packets, Whole, SRU_trans
<1>6. Levels = {0} \cup {HDR + k * c : k \in 0..p}
  BY DEF Levels, Packets
<1> HIDE DEF p, q, c
<1>7. p * c \in Nat /\ q * c \in Nat /\ p * c <= q * c
  BY <1>4, Data!TimesMonotone
<1>8. ASSUME NEW k \in 0..p PROVE HDR + k * c \in 0..HDR + p * c
  <2>1. k \in Nat /\ k <= p /\ k * c \in Nat
    BY <1>4
  <2>2. k * c <= p * c
    BY <2>1, <1>4, Data!TimesMonotone
  <2> QED BY <2>1, <2>2, <1>1, <1>7
<1>9. Para * KX \in Nat /\ Flows \subseteq Nat
  BY <1>1 DEF Flows
<1> QED BY <1>1, <1>2, <1>4, <1>5, <1>6, <1>7, <1>8, <1>9

-----------------------------------------------------------------------------
(* The end of the application *)

\* BytesBelow is the function its recursion describes
LEMMA BytesBelowFacts ==
  ASSUME rcvd \in [Flows -> Levels]
  PROVE  /\ BytesBelow[0] = 0
         /\ \A i \in 1..S : BytesBelow[i] = BytesBelow[i - 1] + rcvd[i - 1]
<1> DEFINE D(f) == [i \in 0..S |-> IF i = 0 THEN 0 ELSE f[i - 1] + rcvd[i - 1]]
           F == [p \in (1..S) \X Nat |-> p[2] + rcvd[p[1] - 1]]
<1>1. S \in Nat /\ \A i \in 1..S : rcvd[i - 1] \in Nat
  <2>1. S \in Nat /\ \A i \in 1..S : i - 1 \in Flows
    BY Sizes DEF Flows
  <2>2. Levels \subseteq Nat
    BY Sizes
  <2> QED BY <2>1, <2>2
<1>2. F \in [(1..S) \X Nat -> Nat]
  BY <1>1
<1>3. \A i \in 1..S, x \in Nat : F[<<i, x>>] = x + rcvd[i - 1]
  OBVIOUS
<1>4. PICK g \in [0..S -> Nat] : Data!Recursive(g, 0, S, F)
  <2> HIDE DEF F
  <2>1. 0 \in Nat /\ S \in Nat
    BY <1>1
  <2> QED BY <2>1, <1>2, Data!PrimitiveRecursion
<1>5. g = D(g)
  <2>1. \A i \in 0..S : i # 0 => i \in 1..S /\ i - 1 \in 0..S
    BY <1>1
  <2>2. \A i \in 0..S : g[i] = IF i = 0 THEN 0 ELSE g[i - 1] + rcvd[i - 1]
    <3> HIDE DEF F
    <3> QED BY <1>3, <1>4, <2>1 DEF Data!Recursive
  <2> QED BY <2>2
<1>6. BytesBelow = D(BytesBelow)
  <2> HIDE DEF F
  <2>1. BytesBelow = CHOOSE f : f = D(f)
    BY DEF BytesBelow
  <2> QED BY <1>5, <2>1
<1>7. 0 \in 0..S /\ \A i \in 1..S : i \in 0..S /\ i # 0
  BY <1>1
<1>8. \A i \in 0..S : BytesBelow[i] = IF i = 0 THEN 0 ELSE BytesBelow[i - 1] + rcvd[i - 1]
  <2> HIDE DEF F
  <2> QED BY <1>6
<1> QED BY <1>7, <1>8

\* A flow that lacks a byte keeps the sum below the block
LEMMA TotalReached ==
  ASSUME rcvd \in [Flows -> Levels], Total >= Block_trans
  PROVE  \A i \in Flows : rcvd[i] = Whole
<1> SUFFICES ASSUME NEW k \in Flows, rcvd[k] # Whole PROVE FALSE
  OBVIOUS
<1> DEFINE less(i) == IF i > k THEN 1 ELSE 0
           T == {i \in 0..S : BytesBelow[i] \in Nat /\ BytesBelow[i] + less(i) <= i * Whole}
<1>1. /\ S \in Nat /\ Whole \in Nat /\ SRU_trans \in Nat /\ Whole <= SRU_trans
      /\ k \in 0..S-1 /\ \A i \in 1..S : rcvd[i - 1] \in 0..Whole
      /\ rcvd[k] \in 0..Whole
  <2>1. \A i \in 1..S : i - 1 \in Flows
    BY Sizes DEF Flows
  <2> QED BY <2>1, Sizes DEF Flows
<1>2. 0 \in T
  <2>1. 0 * Whole = 0 /\ less(0) = 0 /\ 0 \in 0..S
    BY <1>1
  <2> QED BY <2>1, BytesBelowFacts
<1>3. ASSUME NEW i \in 1..S, i - 1 \in T PROVE i \in T
  <2>1. BytesBelow[i - 1] \in Nat /\ BytesBelow[i - 1] + less(i - 1) <= (i - 1) * Whole
    BY <1>3
  <2>2. BytesBelow[i] = BytesBelow[i - 1] + rcvd[i - 1]
    BY BytesBelowFacts
  <2>3. rcvd[i - 1] + less(i) <= Whole + less(i - 1)
    <3>1. CASE i - 1 = k
      BY <3>1, <1>1
    <3>2. CASE i - 1 # k
      BY <3>2, <1>1
    <3> QED BY <3>1, <3>2
  <2>4. i * Whole = (i - 1) * Whole + Whole /\ (i - 1) * Whole \in Int
    BY <1>1, Data!TimesNext
  <2>5. less(i) \in Nat /\ less(i - 1) \in Nat /\ rcvd[i - 1] \in Nat
    BY <1>1
  <2> HIDE DEF less
  <2>6. BytesBelow[i] \in Nat
    BY <2>1, <2>2, <2>5
  <2>7. BytesBelow[i] + less(i) <= i * Whole
    BY <2>1, <2>2, <2>3, <2>4, <2>5, <1>1
  <2> QED BY <2>6, <2>7
<1>4. S \in T
  <2> HIDE DEF T
  <2>1. 0..S \subseteq T
    BY <1>1, <1>2, <1>3, Data!IntervalInduction
  <2> QED BY <2>1, <1>1
<1>5. Total \in Nat /\ Total + 1 <= S * Whole
  BY <1>1, <1>4 DEF Total
<1>6. S * Whole <= S * SRU_trans /\ S * Whole \in Int /\ S * SRU_trans \in Int
  BY <1>1, Data!TimesMonotone
<1>7. Total >= S * SRU_trans
  <2>1. Block_trans = S * SRU_trans
    BY <1>1 DEF Block_trans
  <2> QED BY <2>1
<1> QED BY <1>5, <1>6, <1>7

-----------------------------------------------------------------------------
(* One poll *)

\* What a sink may have counted
LEMMA Counts ==
  ASSUME rcvd \in [Flows -> Levels], NEW i \in Flows
  PROVE  rcvd[i] \in Nat /\ rcvd[i] <= Whole
<1>1. Levels \subseteq 0..Whole /\ Whole \in Nat
  BY Sizes
<1>2. rcvd[i] \in Levels
  OBVIOUS
<1>3. rcvd[i] \in 0..Whole
  BY <1>1, <1>2, Zenon
<1> QED BY <1>1, <1>3

\* Sets of flows are finite
LEMMA FlagsFinite ==
  ASSUME NEW T \in SUBSET Flows
  PROVE  IsFiniteSet(T) /\ Cardinality(T) \in Nat
<1>1. IsFiniteSet(Flows)
  <2>1. 0 \in Int /\ S - 1 \in Int
    BY Sizes
  <2> QED BY <2>1, FS_Interval DEF Flows
<1>2. IsFiniteSet(T)
  BY <1>1, FS_Subset
<1> QED BY <1>2, FS_CardinalityType

\* A SYN is ordered only when the latest one was answered
LEMMA SendNextSynGood ==
  ASSUME rcvd \in [Flows -> Levels], NEW st \in Good, NEW i \in Flows
  PROVE  SendNextSyn(st, i) \in Good
<1>1. CASE i = st.syn - 1 /\ rcvd[i] >= HDR /\ st.syn < S
  <2> DEFINE u == [st EXCEPT !.syn = @ + 1]
  <2>1. SendNextSyn(st, i) = u
    BY <1>1 DEF SendNextSyn
  <2>2. /\ u \in [syn : 0..S, next : 0..S, cur : -2*S..S, fin : [Flows -> BOOLEAN]]
        /\ u.syn = st.syn + 1 /\ u.next = st.next /\ u.cur = st.cur /\ u.fin = st.fin
    BY <1>1, Sizes DEF Good
  <2>3. \A j \in Para - 1 .. u.syn - 2 : rcvd[j] > 0
    <3>1. /\ st.syn \in Int /\ Para \in Int /\ HDR \in Nat \ {0} /\ rcvd[i] \in Nat
          /\ \A j \in Para - 1 .. st.syn - 2 : rcvd[j] > 0
      BY Sizes, Counts DEF Good
    <3>2. \A j \in Para - 1 .. u.syn - 2 : j = i \/ j \in Para - 1 .. st.syn - 2
      BY <3>1, <2>2, <1>1
    <3>3. rcvd[i] > 0
      BY <3>1, <1>1
    <3> HIDE DEF u
    <3> QED BY <3>1, <3>2, <3>3
  <2>4. Para <= u.syn
    BY <2>2, Sizes DEF Good
  <2> HIDE DEF u
  <2>5. u \in Good
    BY <2>2, <2>3, <2>4 DEF Good
  <2> QED BY <2>1, <2>5
<1>2. CASE ~(i = st.syn - 1 /\ rcvd[i] >= HDR /\ st.syn < S)
  <2>1. SendNextSyn(st, i) = st
    BY <1>2 DEF SendNextSyn
  <2> QED BY <2>1
<1> QED BY <1>1, <1>2

\* An activation raises the flag that pays for it
LEMMA ActivateNextGood ==
  ASSUME rcvd \in [Flows -> Levels], NEW st \in Good, NEW i \in Flows
  PROVE  ActivateNext(st, i) \in Good
<1>1. CASE ~st.fin[i] /\ NearEnd(i) /\ st.next < S /\ st.cur < Para * KX
  <2> DEFINE u == [st EXCEPT !.next = @ + 1, !.cur = @ + 1, !.fin[i] = TRUE]
             old == {j \in Flows : st.fin[j]}
  <2>1. ActivateNext(st, i) = u
    BY <1>1 DEF ActivateNext
  <2>2. /\ st \in [syn : 0..S, next : 0..S, cur : -2*S..S, fin : [Flows -> BOOLEAN]]
        /\ st.next <= Para + Cardinality(old) /\ st.cur <= st.next
        /\ \A j \in Flows : st.fin[j] => NearEnd(j)
        /\ Unfinished => st.cur = st.next /\ st.next <= Larger(Para, Para * KX)
        /\ Para <= st.syn /\ \A j \in Para - 1 .. st.syn - 2 : rcvd[j] > 0
    BY DEF Good
  <2>3. /\ u.syn = st.syn /\ u.next = st.next + 1 /\ u.cur = st.cur + 1
        /\ u.fin = [st.fin EXCEPT ![i] = TRUE]
    BY <2>2
  <2>4. u \in [syn : 0..S, next : 0..S, cur : -2*S..S, fin : [Flows -> BOOLEAN]]
    <3>1. st.next + 1 \in 0..S /\ st.cur + 1 \in -2*S..S
      BY <2>2, <1>1, Sizes
    <3> QED BY <2>2, <3>1
  <2> HIDE DEF u
  <2>5. {j \in Flows : u.fin[j]} = old \cup {i}
    BY <2>2, <2>3
  <2>6. Cardinality({j \in Flows : u.fin[j]}) = Cardinality(old) + 1
    <3>1. IsFiniteSet(old) /\ i \notin old
      BY <1>1, FlagsFinite
    <3> HIDE DEF old
    <3> QED BY <3>1, <2>5, FS_AddElement
  <2>7. \A j \in Flows : u.fin[j] => NearEnd(j)
    BY <1>1, <2>2, <2>3
  <2>8. u.next <= Para + Cardinality({j \in Flows : u.fin[j]})
    <3>1. Cardinality(old) \in Nat
      BY FlagsFinite
    <3> HIDE DEF old
    <3> QED BY <3>1, <2>2, <2>3, <2>6, Sizes
  <2>9. u.cur <= u.next
    BY <2>2, <2>3, Sizes
  <2>10. Unfinished => u.cur = u.next /\ u.next <= Larger(Para, Para * KX)
    BY <1>1, <2>2, <2>3, Sizes DEF Larger
  <2>11. u \in Good
    BY <2>2, <2>3, <2>4, <2>7, <2>8, <2>9, <2>10 DEF Good
  <2> QED BY <2>1, <2>11
<1>2. CASE ~(~st.fin[i] /\ NearEnd(i) /\ st.next < S /\ st.cur < Para * KX)
  <2>1. ActivateNext(st, i) = st
    BY <1>2 DEF ActivateNext
  <2> QED BY <2>1
<1> QED BY <1>1, <1>2

\* The count only falls, and only when a flow has finished
LEMMA SubtractGood ==
  ASSUME rcvd \in [Flows -> Levels], NEW st \in Good, NEW i \in Flows
  PROVE  Subtract(st, i) \in Good
<1>1. CASE rcvd[i] >= SRU_trans
  <2> DEFINE u == [st EXCEPT !.cur = Larger(@ - 1, -2 * S)]
  <2>1. Subtract(st, i) = u
    BY <1>1 DEF Subtract
  <2>2. /\ st \in [syn : 0..S, next : 0..S, cur : -2*S..S, fin : [Flows -> BOOLEAN]]
        /\ st.next <= Para + Cardinality({j \in Flows : st.fin[j]})
        /\ st.cur <= st.next /\ \A j \in Flows : st.fin[j] => NearEnd(j)
        /\ Para <= st.syn /\ \A j \in Para - 1 .. st.syn - 2 : rcvd[j] > 0
    BY DEF Good
  <2>3. /\ u.syn = st.syn /\ u.next = st.next /\ u.fin = st.fin
        /\ u.cur = Larger(st.cur - 1, -2 * S)
    BY <2>2
  <2>4. Larger(st.cur - 1, -2 * S) \in -2*S..S /\ Larger(st.cur - 1, -2 * S) <= st.next
    BY <2>2, Sizes DEF Larger
  <2>5. u \in [syn : 0..S, next : 0..S, cur : -2*S..S, fin : [Flows -> BOOLEAN]]
    BY <2>2, <2>4
  <2>6. ~Unfinished
    <3>1. rcvd[i] \in Nat /\ SRU_trans \in Nat
      BY Sizes, Counts
    <3> QED BY <3>1, <1>1 DEF Unfinished
  <2> HIDE DEF u
  <2>7. u \in Good
    BY <2>2, <2>3, <2>4, <2>5, <2>6 DEF Good
  <2> QED BY <2>1, <2>7
<1>2. CASE ~(rcvd[i] >= SRU_trans)
  <2>1. Subtract(st, i) = st
    BY <1>2 DEF Subtract
  <2> QED BY <2>1
<1> QED BY <1>1, <1>2

LEMMA VisitGood ==
  ASSUME rcvd \in [Flows -> Levels], NEW st \in Good, NEW i \in Flows
  PROVE  Visit(i)[st] \in Good
<1>1. Subtract(ActivateNext(SendNextSyn(st, i), i), i) \in Good
  BY SendNextSynGood, ActivateNextGood, SubtractGood
<1>2. st \in Poll
  BY Sizes DEF Good, Poll
<1>3. Visit(i)[st] = Subtract(ActivateNext(SendNextSyn(st, i), i), i)
  BY <1>2 DEF Visit
<1> QED BY <1>1, <1>3

\* A poll keeps what every visit keeps
LEMMA PolledGood ==
  ASSUME rcvd \in [Flows -> Levels], Now \in Good
  PROVE  Polled[S] \in Good
<1> DEFINE D(f) == [i \in 0..S |-> IF i = 0 THEN Now ELSE Visit(i - 1)[f[i - 1]]]
           F == [p \in (1..S) \X Good |-> Visit(p[1] - 1)[p[2]]]
<1>1. S \in Nat /\ \A i \in 1..S : i - 1 \in Flows
  BY Sizes DEF Flows
<1>2. \A i \in 1..S : \A x \in Good : Visit(i - 1)[x] \in Good
  BY <1>1, VisitGood
<1>3. F \in [(1..S) \X Good -> Good]
  BY <1>2
<1>4. \A i \in 1..S, x \in Good : F[<<i, x>>] = Visit(i - 1)[x]
  OBVIOUS
<1>5. PICK g \in [0..S -> Good] : Data!Recursive(g, Now, S, F)
  <2> HIDE DEF F
  <2> QED BY <1>1, <1>3, Data!PrimitiveRecursion
<1>6. \A i \in 0..S : i # 0 => i \in 1..S /\ i - 1 \in 0..S
  BY <1>1
<1>7. g = D(g)
  <2>1. \A i \in 0..S : g[i] = IF i = 0 THEN Now ELSE Visit(i - 1)[g[i - 1]]
    <3> HIDE DEF F
    <3> QED BY <1>4, <1>5, <1>6, ZenonT(30) DEF Data!Recursive
  <2> QED BY <2>1
<1>8. Polled = D(Polled)
  <2> HIDE DEF F
  <2>1. Polled = CHOOSE f : f = D(f)
    BY DEF Polled
  <2> QED BY <1>7, <2>1
<1>9. \A i \in 0..S : Polled[i] = IF i = 0 THEN Now ELSE Visit(i - 1)[Polled[i - 1]]
  <2> HIDE DEF F
  <2> QED BY <1>8
<1> DEFINE T == {i \in 0..S : Polled[i] \in Good}
<1>10. 0 \in T
  BY <1>1, <1>9
<1>11. ASSUME NEW i \in 1..S, i - 1 \in T PROVE i \in T
  <2>1. i \in 0..S /\ i # 0
    BY <1>1
  <2> QED BY <2>1, <1>2, <1>9, <1>11
<1> HIDE DEF T
<1>12. 0..S \subseteq T
  BY <1>1, <1>10, <1>11, Data!IntervalInduction
<1> QED BY <1>1, <1>12 DEF T

-----------------------------------------------------------------------------
(* The steps *)

LEMMA ControlInitInv == ControlInit => ControlInv
<1> SUFFICES ASSUME ControlInit PROVE ControlInv
  OBVIOUS
<1>1. rcvd \in [Flows -> Levels] /\ is_app_fin \in BOOLEAN /\ FinMeansAll
  BY Sizes DEF ControlInit, FinMeansAll
<1>2. Now \in [syn : 0..S, next : 0..S, cur : -2*S..S, fin : [Flows -> BOOLEAN]]
  BY Sizes DEF ControlInit, Now
<1>3. /\ Now.syn = Para /\ Now.next = Para /\ Now.cur = Para
      /\ Now.fin = [i \in Flows |-> FALSE]
  BY DEF ControlInit, Now
<1>4. Cardinality({i \in Flows : Now.fin[i]}) \in Nat
  BY FlagsFinite
<1>5. Para <= Larger(Para, Para * KX)
  BY Sizes DEF Larger
<1>6. Now \in Good
  <2>1. \A i \in Flows : ~Now.fin[i]
    BY <1>3
  <2>2. \A i \in Para - 1 .. Now.syn - 2 : FALSE
    BY <1>3, Sizes
  <2>3. Now.next <= Para + Cardinality({i \in Flows : Now.fin[i]})
    BY <1>3, <1>4, Sizes
  <2>4. Now.cur <= Now.next /\ Para <= Now.syn
    BY <1>3, Sizes
  <2>5. Now.cur = Now.next /\ Now.next <= Larger(Para, Para * KX)
    BY <1>3, <1>5
  <2> QED BY <1>2, <2>1, <2>2, <2>3, <2>4, <2>5 DEF Good
<1> QED BY <1>1, <1>6 DEF ControlInv

LEMMA CheckStep ==
  ASSUME ControlInv, Check
  PROVE  ControlInv'
<1>1. /\ rcvd \in [Flows -> Levels] /\ Now \in Good /\ rcvd' = rcvd
      /\ Now' = Polled[S]
      /\ is_app_fin' = (Total >= Block_trans)
  <2>1. rcvd \in [Flows -> Levels] /\ Now \in Good
    BY DEF ControlInv
  <2>2. Polled[S] \in [syn : 0..S, next : 0..S, cur : -2*S..S, fin : [Flows -> BOOLEAN]]
    BY <2>1, PolledGood DEF Good
  <2> DEFINE after == Polled[S]
  <2>3. /\ next_syn_flowid' = after.syn /\ next_flowid' = after.next
        /\ cur_flow_num' = after.cur /\ is_flow_fin' = after.fin
    BY DEF Check
  <2>4. Now' = [syn |-> after.syn, next |-> after.next, cur |-> after.cur, fin |-> after.fin]
    BY <2>3 DEF Now
  <2>5. after = [syn |-> after.syn, next |-> after.next, cur |-> after.cur, fin |-> after.fin]
    <3> HIDE DEF after
    <3>1. after \in [syn : 0..S, next : 0..S, cur : -2*S..S, fin : [Flows -> BOOLEAN]]
      BY <2>2 DEF after
    <3> QED BY <3>1
  <2>6. Now' = after
    <3> HIDE DEF after
    <3> QED BY <2>4, <2>5
  <2> QED BY <2>1, <2>6 DEF Check
<1>2. Polled[S] \in Good
  BY <1>1, PolledGood
<1>3. Good' = Good
  BY <1>1 DEF Good, Unfinished, NearEnd
<1>4. Now' \in Good'
  BY <1>1, <1>2, <1>3
<1>5. is_app_fin' => \A i \in Flows : rcvd[i] = Whole
  BY <1>1, TotalReached
<1>6. FinMeansAll'
  BY <1>1, <1>5 DEF FinMeansAll
<1> QED BY <1>1, <1>4, <1>6 DEF ControlInv

LEMMA DeliverStep ==
  ASSUME ControlInv, NEW k \in Flows, Deliver(k)
  PROVE  ControlInv'
<1>1. /\ rcvd \in [Flows -> Levels] /\ is_app_fin \in BOOLEAN /\ Now \in Good
      /\ FinMeansAll /\ Now' = Now /\ is_app_fin' = is_app_fin
  BY DEF ControlInv, Deliver, Now
<1>2. PICK n \in Levels : n > rcvd[k] /\ rcvd' = [rcvd EXCEPT ![k] = n]
  BY DEF Deliver
<1>3. /\ n \in Nat /\ n <= Whole
      /\ Whole \in Nat /\ SRU_trans \in Nat /\ SSP \div Para \in Nat
  BY Sizes
<1>4. rcvd' \in [Flows -> Levels]
  BY <1>1, <1>2
<1>5. ASSUME NEW i \in Flows
      PROVE  rcvd[i] \in Nat /\ rcvd'[i] \in Nat /\ rcvd[i] <= rcvd'[i]
  BY <1>1, <1>2, <1>3, Counts
<1>6. \A i \in Flows : NearEnd(i) => NearEnd(i)'
  BY <1>3, <1>5 DEF NearEnd
<1>7. Unfinished' => Unfinished
  BY <1>3, <1>5 DEF Unfinished
<1>8. \A i \in Para - 1 .. Now.syn - 2 : rcvd'[i] > 0
  <2>1. \A i \in Para - 1 .. Now.syn - 2 : rcvd[i] > 0
    BY <1>1 DEF Good
  <2>2. Now.syn \in 0..S
    BY <1>1 DEF Good
  <2>3. \A i \in Para - 1 .. Now.syn - 2 : i \in Flows
    BY <2>2, Sizes DEF Flows
  <2> QED BY <2>1, <2>3, <1>5
<1>9. Now \in Good'
  <2>1. /\ Now \in [syn : 0..S, next : 0..S, cur : -2*S..S, fin : [Flows -> BOOLEAN]]
        /\ Now.next <= Para + Cardinality({j \in Flows : Now.fin[j]})
        /\ \A i \in Flows : Now.fin[i] => NearEnd(i)
        /\ Now.cur <= Now.next /\ Para <= Now.syn
        /\ Unfinished => Now.cur = Now.next /\ Now.next <= Larger(Para, Para * KX)
    BY <1>1 DEF Good
  <2> DEFINE u == Now
  <2>2. u \in Good'
    <3>1. Now = Now' /\ u = Now
      BY <1>1
    <3> HIDE DEF u
    <3> QED BY <3>1, <2>1, <1>6, <1>7, <1>8 DEF Good
  <2> QED BY <2>2
<1>10. FinMeansAll'
  <2>1. ~is_app_fin
    BY <1>1, <1>2, <1>3 DEF FinMeansAll
  <2> QED BY <2>1, <1>1 DEF FinMeansAll
<1> QED BY <1>1, <1>4, <1>9, <1>10 DEF ControlInv

LEMMA ControlNextInv == ControlInv /\ [ControlNext]_controlVars => ControlInv'
<1> SUFFICES ASSUME ControlInv, [ControlNext]_controlVars PROVE ControlInv'
  OBVIOUS
<1>1. CASE Check
  BY <1>1, CheckStep
<1>2. ASSUME NEW i \in Flows, Deliver(i) PROVE ControlInv'
  BY <1>2, DeliverStep
<1>3. CASE UNCHANGED controlVars
  <2>1. /\ rcvd' = rcvd /\ is_app_fin' = is_app_fin /\ Now' = Now
        /\ Good' = Good
    BY <1>3 DEF controlVars, Now, Good, Unfinished, NearEnd
  <2> QED BY <2>1 DEF ControlInv, FinMeansAll
<1> QED BY <1>1, <1>2, <1>3 DEF ControlNext

LEMMA ControlInvHolds == ControlSpec => []ControlInv
  BY ControlInitInv, ControlNextInv, PTL DEF ControlSpec

-----------------------------------------------------------------------------
(* Theorems *)

LEMMA InvTypeOK == ControlInv => ControlTypeOK
<1> SUFFICES ASSUME ControlInv PROVE ControlTypeOK
  OBVIOUS
<1>1. Now \in [syn : 0..S, next : 0..S, cur : -2*S..S, fin : [Flows -> BOOLEAN]]
  BY DEF ControlInv, Good
<1>2. /\ Now.syn = next_syn_flowid /\ Now.next = next_flowid
      /\ Now.cur = cur_flow_num /\ Now.fin = is_flow_fin
  BY DEF Now
<1> QED BY <1>1, <1>2 DEF ControlInv, ControlTypeOK

LEMMA InvPaced == ControlInv => Paced
<1> SUFFICES ASSUME ControlInv PROVE Paced
  OBVIOUS
<1> DEFINE fin == {i \in Flows : is_flow_fin[i]}
           near == {i \in Flows : NearEnd(i)}
           syns == {i \in Flows : i < next_syn_flowid /\ rcvd[i] = 0}
<1>1. rcvd \in [Flows -> Levels] /\ Now \in Good
  BY DEF ControlInv
<1>2. /\ next_syn_flowid \in 0..S /\ next_flowid \in 0..S
      /\ next_flowid <= Para + Cardinality(fin)
      /\ \A i \in Flows : is_flow_fin[i] => NearEnd(i)
      /\ Unfinished => next_flowid <= Larger(Para, Para * KX)
      /\ Para <= next_syn_flowid
      /\ \A i \in Para - 1 .. next_syn_flowid - 2 : rcvd[i] > 0
  <2>1. /\ Now.syn = next_syn_flowid /\ Now.next = next_flowid
        /\ Now.cur = cur_flow_num /\ Now.fin = is_flow_fin
    BY DEF Now
  <2> QED BY <1>1, <2>1 DEF Good
<1>3. next_flowid <= Para + Cardinality(near)
  <2>1. fin \in SUBSET near /\ near \in SUBSET Flows /\ fin \in SUBSET Flows
    BY <1>2
  <2> HIDE DEF fin, near
  <2>2. Cardinality(fin) <= Cardinality(near)
    BY <2>1, FlagsFinite, FS_Subset
  <2>3. Cardinality(fin) \in Nat /\ Cardinality(near) \in Nat
    BY <2>1, FlagsFinite
  <2> QED BY <1>2, <2>2, <2>3, Sizes
<1>4. Cardinality(syns) <= Para
  <2> DEFINE before == 0..Para - 2
             u == before \cup {next_syn_flowid - 1}
  <2>1. Para \in Nat \ {0} /\ 0 \in Int /\ Para - 2 \in Int
    BY Sizes
  <2>2. IsFiniteSet(before) /\ Cardinality(before) = Para - 1
    BY <2>1, FS_Interval
  <2>3. IsFiniteSet(u) /\ Cardinality(u) <= Para
    <3>1. next_syn_flowid - 1 \notin before
      BY <1>2, <2>1
    <3> HIDE DEF before
    <3> QED BY <2>1, <2>2, <3>1, FS_AddElement
  <2>4. syns \subseteq u
    <3>1. ASSUME NEW i \in Flows, i < next_syn_flowid, rcvd[i] = 0
          PROVE  i \in u
      <4>1. i \in Nat /\ next_syn_flowid \in Int /\ Para \in Int
        BY <1>2, Sizes
      <4>2. ~(i \in Para - 1 .. next_syn_flowid - 2)
        BY <1>2, <3>1
      <4> QED BY <4>1, <4>2, <3>1
    <3> QED BY <3>1
  <2> HIDE DEF u, syns
  <2>5. Cardinality(syns) <= Cardinality(u)
    BY <2>3, <2>4, FS_Subset
  <2>6. Cardinality(syns) \in Nat /\ Cardinality(u) \in Nat
    BY <2>3, <2>4, FS_Subset, FS_CardinalityType
  <2> QED BY <2>1, <2>3, <2>5, <2>6
<1> QED BY <1>2, <1>3, <1>4 DEF Paced, Unfinished

\* Every variable keeps its type, and the controller's count of transmitting
\* flows never exceeds their number.
THEOREM NccsTypeCorrect == ControlSpec => []ControlTypeOK
  BY ControlInvHolds, InvTypeOK, PTL

\* The application is finished only when every flow has its whole block, for
\* every block and packet size.
THEOREM NccsFinished == ControlSpec => []FinMeansAll
<1>1. ControlInv => FinMeansAll
  BY DEF ControlInv
<1> QED BY <1>1, ControlInvHolds, PTL

\* Activations are paid for by flows near their end, capped until a flow has
\* finished, and at most para_num SYNs are unanswered.
THEOREM NccsPaced == ControlSpec => []Paced
  BY ControlInvHolds, InvPaced, PTL
==============================================================================
