---------------------------- MODULE AckHoldProofs -----------------------------
(***************************************************************************)
(* Theorems about AckHold for every segment size, block, window, threshold  *)
(* and number of losses.  The inductive invariant adds to TypeOK and        *)
(* AckOrder where the data in flight and in the reassembly queue ends; the  *)
(* last part adds the cells of MSS bytes that ResumeSafe is about.          *)
(***************************************************************************)
EXTENDS AckHold, TLAPS

\* Nothing beyond maxseq_ is in flight or queued
SentBound ==
  /\ \A d \in data : d.seq + d.len <= maxseq
  /\ \A b \in rq : b < maxseq

Inv == TypeOK /\ AckOrder /\ SentBound

\* What a handler has emitted before it calls send_much: at most one segment
AtMostOne(sent) == sent = {} \/ \E x \in Seg : x.seq + x.len <= SRU + 1 /\ sent = {x}

-----------------------------------------------------------------------------
(* Sending *)

\* A segment that foutput sends is no longer than MSS and ends with the block
LEMMA DatalenBound ==
  ASSUME NEW s \in Int, NEW h \in 1..SRU+1, NEW w \in Nat, Datalen(s, h, w) > 0
  PROVE  Datalen(s, h, w) \in 1..MSS /\ s + Datalen(s, h, w) <= SRU + 1
<1> DEFINE win == w * MSS
<1>1. win \in Nat
  BY AckHoldAssumption DEF AckHoldAssumption
<1>2. MSS \in Nat \ {0} /\ SRU \in Nat \ {0}
  BY AckHoldAssumption DEF AckHoldAssumption
<1> HIDE DEF win
<1>3. Datalen(s, h, w) =
        LET buffered == SRU - h + 1
            off      == s - h
            len      == MaxOf(0, MinOf(MinOf(buffered, win) - off, MSS))
        IN  IF IsHA /\ len # 0 /\ buffered - off > MSS THEN MSS ELSE len
  BY DEF Datalen, win
<1> QED BY <1>1, <1>2, <1>3, SMTT(30) DEF MaxOf, MinOf

\* Earlier segments of a burst end where later ones begin
LEMMA BurstOrder ==
  ASSUME NEW t \in Nat, NEW n \in Nat, NEW i \in 0..n-2
  PROVE  t + i * MSS + MSS <= t + (n - 1) * MSS
<1>1. MSS \in Nat
  BY AckHoldAssumption DEF AckHoldAssumption
<1>2. PICK k \in Nat : n - 1 = i + 1 + k
  <2>1. n - 2 - i \in Nat /\ n - 1 = i + 1 + (n - 2 - i)
    OBVIOUS
  <2> QED BY <2>1
<1>3. (n - 1) * MSS = i * MSS + MSS + k * MSS
  BY <1>1, <1>2, SMTT(30)
<1>4. k * MSS \in Nat /\ i * MSS \in Nat /\ (n - 1) * MSS \in Nat
  BY <1>1, <1>2, SMTT(30)
<1> QED BY <1>1, <1>3, <1>4

\* maxseq_ after at most one segment
LEMMA TopFacts ==
  ASSUME TypeOK, NEW sent, AtMostOne(sent)
  PROVE  /\ Top(sent) \in 1..SRU+1 /\ Top(sent) >= maxseq
         /\ \A d \in sent : d \in Seg /\ d.seq + d.len <= Top(sent)
<1>1. maxseq \in 1..SRU+1 /\ SRU \in Nat \ {0} /\ MSS \in Nat \ {0}
  BY AckHoldAssumption DEF TypeOK, AckHoldAssumption
<1>2. CASE sent = {}
  BY <1>1, <1>2 DEF Top
<1>3. CASE \E x \in Seg : x.seq + x.len <= SRU + 1 /\ sent = {x}
  <2>1. PICK x \in Seg : x.seq + x.len <= SRU + 1 /\ sent = {x}
    BY <1>3
  <2>2. (CHOOSE d \in sent : TRUE) = x /\ sent # {}
    BY <2>1
  <2>3. Top(sent) = MaxOf(maxseq, x.seq + x.len)
    BY <2>2 DEF Top
  <2>4. x.seq \in 1..SRU /\ x.len \in 1..MSS
    BY <2>1 DEF Seg
  <2> QED BY <1>1, <2>1, <2>3, <2>4 DEF MaxOf
<1> QED BY <1>2, <1>3 DEF AtMostOne

\* A call of send_much puts only segments of the block in flight and counts
\* their ends in maxseq_.
LEMMA SendMuchFacts ==
  ASSUME TypeOK, \A d \in data : d.seq + d.len <= maxseq,
         NEW t \in Nat \ {0}, NEW h \in 1..SRU+1, NEW w \in Nat,
         NEW force, NEW maxburst, NEW timer \in BOOLEAN,
         NEW sent, AtMostOne(sent),
         SendMuch(t, h, w, force, maxburst, timer, sent)
  PROVE  /\ t_seqno' \in Nat \ {0}
         /\ maxseq' \in 1..SRU+1 /\ maxseq' >= maxseq
         /\ rtx' \in BOOLEAN
         /\ data' \subseteq Seg
         /\ \A d \in data' : d.seq + d.len <= maxseq'
<1> USE AckHoldAssumption DEF AckHoldAssumption
<1>1. PICK n \in 0..SRU :
        /\ \A i \in 0..n-1 : Goes(t + i * MSS, t, h, w, force, Top(sent))
        /\ LET last == t + (n - 1) * MSS
           IN  t_seqno' = IF n = 0 THEN t ELSE last + Datalen(last, h, w)
        /\ maxseq' = IF n = 0 THEN Top(sent) ELSE MaxOf(Top(sent), t_seqno')
        /\ rtx' = (timer \/ n > 0)
        /\ data' = data \cup sent \cup {Segment(t + i * MSS, h, w) : i \in 0..n-1}
  BY DEF SendMuch
<1>2. /\ Top(sent) \in 1..SRU+1 /\ Top(sent) >= maxseq
      /\ \A d \in sent : d \in Seg /\ d.seq + d.len <= Top(sent)
  BY TopFacts
<1>3. maxseq \in 1..SRU+1 /\ data \subseteq Seg
  BY DEF TypeOK
<1>4. CASE n = 0
  <2>1. t_seqno' = t /\ maxseq' = Top(sent) /\ rtx' = timer
    BY <1>1, <1>4
  <2>2. data' = data \cup sent
    BY <1>1, <1>4
  <2>3. \A d \in data : d.seq + d.len \in Int
    BY <1>3 DEF Seg
  <2> QED BY <1>2, <1>3, <2>1, <2>2, <2>3
<1>5. CASE n > 0
  <2> DEFINE at(i)  == t + i * MSS
             len(i) == Datalen(at(i), h, w)
  <2>1. \A i \in 0..n-1 : at(i) \in Nat \ {0} /\ len(i) > 0
    <3> SUFFICES ASSUME NEW i \in 0..n-1
                 PROVE  at(i) \in Nat \ {0} /\ len(i) > 0
      OBVIOUS
    <3>1. i * MSS \in Nat
      BY SMTT(30)
    <3>2. len(i) > 0
      BY <1>1 DEF Goes, Emits
    <3> QED BY <3>1, <3>2
  <2>2. \A i \in 0..n-1 : len(i) \in 1..MSS /\ at(i) + len(i) <= SRU + 1
    BY <2>1, DatalenBound
  <2>3. t_seqno' = at(n-1) + len(n-1)
    BY <1>1, <1>5
  <2>4. t_seqno' \in 1..SRU+1
    BY <1>5, <2>1, <2>2, <2>3
  <2>5. maxseq' \in 1..SRU+1 /\ maxseq' >= Top(sent) /\ maxseq' >= t_seqno'
    BY <1>1, <1>2, <1>5, <2>4 DEF MaxOf
  <2>6. \A i \in 0..n-1 : at(i) + len(i) <= t_seqno'
    <3> SUFFICES ASSUME NEW i \in 0..n-1, i # n - 1
                 PROVE  at(i) + len(i) <= t_seqno'
      BY <2>3, <2>4
    <3>1. at(i) + MSS <= at(n-1)
      BY BurstOrder
    <3>2. len(i) \in 1..MSS /\ len(n-1) \in 1..MSS /\ at(i) \in Nat /\ at(n-1) \in Nat
      BY <1>5, <2>1, <2>2
    <3> QED BY <2>3, <3>1, <3>2
  <2>7. ASSUME NEW i \in 0..n-1
        PROVE  Segment(at(i), h, w) \in Seg
    <3>1. at(i) \in 1..SRU /\ len(i) \in 1..MSS
      BY <2>1, <2>2
    <3> QED BY <3>1 DEF Segment, Seg
  <2>8. ASSUME NEW d \in data'
        PROVE  d \in Seg /\ d.seq + d.len <= maxseq'
    <3>1. CASE d \in data
      <4>1. d \in Seg /\ d.seq + d.len <= maxseq /\ d.seq + d.len \in Int
        BY <1>3, <3>1 DEF Seg
      <4> QED BY <1>2, <1>3, <2>5, <4>1
    <3>2. CASE d \in sent
      <4>1. d \in Seg /\ d.seq + d.len <= Top(sent) /\ d.seq + d.len \in Int
        BY <1>2, <3>2 DEF Seg
      <4> QED BY <1>2, <2>5, <4>1
    <3>3. CASE \E i \in 0..n-1 : d = Segment(at(i), h, w)
      <4>1. PICK i \in 0..n-1 : d = Segment(at(i), h, w)
        BY <3>3
      <4>2. d.seq = at(i) /\ d.len = len(i)
        BY <4>1 DEF Segment
      <4> QED BY <2>1, <2>2, <2>4, <2>5, <2>6, <2>7, <4>1, <4>2
    <3> QED BY <1>1, <3>1, <3>2, <3>3
  <2>9. rtx' \in BOOLEAN
    BY <1>1
  <2> QED BY <1>2, <1>3, <2>4, <2>5, <2>8, <2>9
<1> QED BY <1>4, <1>5

-----------------------------------------------------------------------------
(* The server *)

\* Rounding up yields the sequence number of a byte
LEMMA RoundUpType ==
  ASSUME NEW a \in Nat \ {0}
  PROVE  RoundUp(a) \in Nat \ {0} /\ Resume(a) \in Nat \ {0}
<1> DEFINE q == (a - 2 + MSS) \div MSS
<1>1. MSS \in Nat \ {0}
  BY AckHoldAssumption DEF AckHoldAssumption
<1>2. q \in Nat
  <2>1. a - 2 + MSS \in Nat
    BY <1>1
  <2> HIDE DEF q
  <2> QED BY <1>1, <2>1, SMTT(30) DEF q
<1>3. q * MSS \in Nat
  <2> HIDE DEF q
  <2> QED BY <1>1, <1>2, SMTT(30)
<1>4. RoundUp(a) = q * MSS + 1
  BY DEF RoundUp
<1> HIDE DEF q
<1> QED BY <1>3, <1>4 DEF Resume

\* fast_retransmit sends at most one segment, inside the block
LEMMA RetransmissionFacts ==
  ASSUME NEW h \in 1..SRU+1, NEW w \in Nat
  PROVE  AtMostOne(Retransmission(h, w))
<1> DEFINE r == Resume(h)
<1>1. r \in Nat \ {0}
  BY RoundUpType, AckHoldAssumption DEF AckHoldAssumption
<1>2. CASE ~Emits(r, h, w, maxseq)
  BY <1>2 DEF Retransmission, AtMostOne
<1>3. CASE Emits(r, h, w, maxseq)
  <2>1. Datalen(r, h, w) > 0
    BY <1>3 DEF Emits
  <2>2. Datalen(r, h, w) \in 1..MSS /\ r + Datalen(r, h, w) <= SRU + 1
    BY <1>1, <2>1, DatalenBound
  <2>3. r \in 1..SRU
    BY <1>1, <2>2, AckHoldAssumption DEF AckHoldAssumption
  <2>4. Retransmission(h, w) = {[seq |-> r, len |-> Datalen(r, h, w)]}
    BY <1>3 DEF Retransmission, Segment
  <2> HIDE DEF r
  <2> QED BY <2>2, <2>3, <2>4 DEF AtMostOne, Seg
<1> QED BY <1>2, <1>3

\* What every handler of the server leaves behind, sending and control
SendPost ==
  /\ t_seqno' \in Nat \ {0}
  /\ maxseq' \in 1..SRU+1 /\ maxseq' >= maxseq
  /\ rtx' \in BOOLEAN
  /\ data' \subseteq Seg
  /\ \A d \in data' : d.seq + d.len <= maxseq'

CtlNum ==
  /\ highest_ack' \in 1..SRU+1
  /\ highest_ack <= highest_ack' /\ highest_ack' <= last_ack_sent
  /\ cwnd' \in 1..WND /\ dupacks' \in 0..Thresh+1 /\ recover' \in Int

CtlBool == fastrecov' \in BOOLEAN /\ lastdup' \in BOOLEAN /\ limited' \in BOOLEAN

CtlPost == CtlNum /\ CtlBool

\* The parts of the invariant a handler's arithmetic, and its flags, rest on
LEMMA InvNum ==
  ASSUME Inv
  PROVE  /\ t_seqno \in Nat \ {0} /\ maxseq \in 1..SRU+1 /\ maxseq \in Int
         /\ highest_ack \in 1..SRU+1 /\ last_ack_sent \in 1..SRU+1
         /\ highest_ack <= last_ack_sent
         /\ cwnd \in 1..WND /\ dupacks \in 0..Thresh+1 /\ recover \in Int
         /\ RecoverPoint \in Int
BY AckHoldAssumption DEF AckHoldAssumption, Inv, TypeOK, AckOrder, RecoverPoint

LEMMA InvBool ==
  ASSUME Inv
  PROVE  /\ rtx \in BOOLEAN /\ fastrecov \in BOOLEAN /\ lastdup \in BOOLEAN
         /\ limited \in BOOLEAN
BY Zenon DEF Inv, TypeOK

LEMMA AckFacts ==
  ASSUME Inv, NEW p \in acks
  PROVE  /\ p.ackno \in 1..SRU+1 /\ p.ackno \in Int /\ p.ackno <= last_ack_sent
         /\ p.rtxreq \in BOOLEAN
BY AckHoldAssumption DEF AckHoldAssumption, Inv, TypeOK, AckOrder, Ack

\* Nothing sent
LEMMA IdlePost ==
  ASSUME Inv, UNCHANGED <<t_seqno, maxseq, rtx, data>>
  PROVE  SendPost
<1>1. maxseq \in Int
  BY AckHoldAssumption DEF AckHoldAssumption, Inv, TypeOK
<1> QED BY <1>1 DEF Inv, SentBound, TypeOK, SendPost

\* send_much after any handler
LEMMA SendMuchPost ==
  ASSUME Inv, NEW t \in Nat \ {0}, NEW h \in 1..SRU+1, NEW w \in Nat,
         NEW force, NEW maxburst, NEW timer \in BOOLEAN, NEW sent, AtMostOne(sent),
         SendMuch(t, h, w, force, maxburst, timer, sent)
  PROVE  SendPost
BY SendMuchFacts DEF Inv, SentBound, SendPost

\* timeout_action
LEMMA TimeoutPost ==
  ASSUME Inv, NEW h \in 1..SRU+1, highest_ack <= h, h <= last_ack_sent, TimeoutAction(h)
  PROVE  SendPost /\ CtlPost
<1>1. highest_ack' = h /\ recover' = RecoverPoint /\ limited' = limited
  BY Zenon DEF TimeoutAction
<1>2. CASE h > SRU
  <2>1. /\ rtx' = FALSE
        /\ UNCHANGED <<t_seqno, maxseq, data, cwnd, dupacks, fastrecov, lastdup>>
    BY <1>2 DEF TimeoutAction
  <2>2. SendPost
    <3>1. rtx' \in BOOLEAN
      BY <2>1, Zenon
    <3> QED BY <2>1, <3>1, InvNum DEF Inv, SentBound, TypeOK, SendPost
  <2>3. CtlNum
    BY <1>1, <2>1, InvNum DEF CtlNum
  <2>4. CtlBool
    BY <1>1, <2>1, InvBool, Zenon DEF CtlBool
  <2> QED BY <2>2, <2>3, <2>4, Zenon DEF CtlPost
<1>3. CASE ~(h > SRU)
  <2>1. /\ cwnd' = 1 /\ dupacks' = 0 /\ fastrecov' = FALSE /\ lastdup' = FALSE
        /\ SendMuch(IF h > 1 THEN Resume(h) ELSE h, h, 1, TRUE, MaxBurst, TRUE, {})
    BY <1>3, Zenon DEF TimeoutAction
  <2>2. (IF h > 1 THEN Resume(h) ELSE h) \in Nat \ {0}
    BY RoundUpType, AckHoldAssumption DEF AckHoldAssumption
  <2>3. SendPost
    BY <2>1, <2>2, SendMuchPost DEF AtMostOne
  <2>4. CtlNum
    BY <1>1, <2>1, InvNum, AckHoldAssumption DEF CtlNum, AckHoldAssumption
  <2>5. CtlBool
    BY <1>1, <2>1, InvBool, Zenon DEF CtlBool
  <2> QED BY <2>3, <2>4, <2>5, Zenon DEF CtlPost
<1> QED BY <1>2, <1>3

\* t_seqno_ after newack
LEMMA NextSeqType ==
  ASSUME Inv, NEW a \in 1..SRU+1
  PROVE  NextSeq(a) \in Nat \ {0}
<1>1. t_seqno \in Nat \ {0} /\ a \in Nat \ {0}
  BY InvNum, AckHoldAssumption DEF AckHoldAssumption
<1>2. RoundUp(a) \in Nat \ {0}
  BY <1>1, RoundUpType
<1> QED BY <1>1, <1>2 DEF NextSeq, MaxOf

\* Each reaction to an acknowledgement p
LEMMA PredictedPost ==
  ASSUME Inv, NEW p \in acks, PredictedAck(p)
  PROVE  SendPost /\ CtlPost
<1>1. /\ highest_ack' = p.ackno /\ highest_ack < p.ackno
      /\ SendMuch(NextSeq(p.ackno), p.ackno, cwnd, FALSE, MaxBurst, TRUE, {})
      /\ UNCHANGED <<cwnd, dupacks, fastrecov, recover, lastdup, limited>>
  BY Zenon DEF PredictedAck, Predicted
<1>2. SendPost
  <2>1. /\ NextSeq(p.ackno) \in Nat \ {0} /\ cwnd \in Nat
        /\ AtMostOne({}) /\ TRUE \in BOOLEAN
    BY AckFacts, InvNum, NextSeqType, AckHoldAssumption DEF AtMostOne, AckHoldAssumption
  <2> QED BY <1>1, <2>1, AckFacts, SendMuchPost, Zenon
<1>3. CtlNum
  BY <1>1, InvNum, AckFacts DEF CtlNum
<1>4. CtlBool
  BY <1>1, InvBool, Zenon DEF CtlBool
<1> QED BY <1>2, <1>3, <1>4, Zenon DEF CtlPost

LEMMA OldAckPost ==
  ASSUME Inv, NEW p \in acks, OldAck(p)
  PROVE  SendPost /\ CtlPost
<1>1. /\ dupacks' = 0
      /\ SendMuch(t_seqno, highest_ack, cwnd, FALSE, MaxBurst, rtx, {})
      /\ UNCHANGED <<highest_ack, cwnd, fastrecov, recover, lastdup, limited>>
  BY Zenon DEF OldAck
<1>2. SendPost
  <2>1. /\ t_seqno \in Nat \ {0} /\ highest_ack \in 1..SRU+1 /\ cwnd \in Nat
        /\ AtMostOne({})
    BY InvNum, AckHoldAssumption DEF AtMostOne, AckHoldAssumption
  <2> QED BY <1>1, <2>1, InvBool, SendMuchPost, Zenon
<1>3. CtlNum
  BY <1>1, InvNum, AckHoldAssumption DEF CtlNum, AckHoldAssumption
<1>4. CtlBool
  BY <1>1, InvBool, Zenon DEF CtlBool
<1> QED BY <1>2, <1>3, <1>4, Zenon DEF CtlPost

LEMMA DupAckCountedPost ==
  ASSUME Inv, NEW p \in acks, DupAckCounted(p)
  PROVE  SendPost /\ CtlPost
<1>1. /\ dupacks' = MinOf(dupacks + 1, Thresh + 1)
      /\ cwnd' = IF dupacks + 1 > Thresh THEN MinOf(cwnd + 1, WND) ELSE cwnd
      /\ SendMuch(t_seqno, highest_ack, cwnd', FALSE, MaxBurst, rtx, {})
      /\ UNCHANGED <<highest_ack, fastrecov, recover, lastdup, limited>>
  BY Zenon DEF DupAckCounted
<1>2. CtlNum
  BY <1>1, InvNum, AckHoldAssumption DEF CtlNum, AckHoldAssumption, MinOf
<1>3. SendPost
  <2>1. /\ t_seqno \in Nat \ {0} /\ highest_ack \in 1..SRU+1 /\ cwnd' \in Nat
        /\ AtMostOne({})
    BY <1>2, InvNum, AckHoldAssumption DEF AtMostOne, AckHoldAssumption, CtlNum
  <2> QED BY <1>1, <2>1, InvBool, SendMuchPost, Zenon
<1>4. CtlBool
  BY <1>1, InvBool, Zenon DEF CtlBool
<1> QED BY <1>2, <1>3, <1>4, Zenon DEF CtlPost

LEMMA DupAckThresholdPost ==
  ASSUME Inv, NEW p \in acks, DupAckThreshold(p)
  PROVE  SendPost /\ CtlPost
<1> DEFINE half == cwnd \div 2
           sent == Retransmission(highest_ack, half)
<1>1. /\ dupacks' = Thresh /\ fastrecov' = TRUE
      /\ UNCHANGED <<t_seqno, highest_ack, limited>>
  BY Zenon DEF DupAckThreshold
<1>2. half \in Nat
  BY InvNum, AckHoldAssumption DEF AckHoldAssumption
<1>3. CASE highest_ack > recover \/ lastdup
  <2>1. /\ data' = data \cup sent
        /\ rtx' = (sent # {})
        /\ maxseq' = Top(sent)
        /\ recover' = RecoverPoint
        /\ lastdup' = TRUE
        /\ cwnd' = MinOf(WND, MaxOf(half, 2) + Thresh)
    BY <1>3, Zenon DEF DupAckThreshold
  <2>2. AtMostOne(sent)
    BY <1>2, InvNum, RetransmissionFacts
  <2> HIDE DEF half, sent
  <2>3. /\ Top(sent) \in 1..SRU+1 /\ Top(sent) >= maxseq
        /\ \A d \in sent : d \in Seg /\ d.seq + d.len <= Top(sent)
    BY <2>2, TopFacts DEF Inv
  <2>4. SendPost
    <3>1. rtx' \in BOOLEAN
      BY <2>1, Zenon
    <3>2. \A d \in data' : d \in Seg /\ d.seq + d.len <= maxseq'
      <4>1. ASSUME NEW d \in data PROVE d \in Seg /\ d.seq + d.len <= Top(sent)
        <5>1. d \in Seg /\ d.seq + d.len \in Int /\ d.seq + d.len <= maxseq
          BY DEF Inv, TypeOK, SentBound, Seg
        <5> QED BY <2>3, <5>1, InvNum, AckHoldAssumption DEF AckHoldAssumption
      <4> QED BY <2>1, <2>3, <4>1
    <3> QED BY <1>1, <2>1, <2>3, <3>1, <3>2, InvNum DEF SendPost
  <2>5. CtlNum
    BY <1>1, <1>2, <2>1, InvNum, AckHoldAssumption
    DEF CtlNum, AckHoldAssumption, MinOf, MaxOf
  <2>6. CtlBool
    BY <1>1, <2>1, InvBool, Zenon DEF CtlBool
  <2> QED BY <2>4, <2>5, <2>6, Zenon DEF CtlPost
<1>4. CASE ~(highest_ack > recover \/ lastdup)
  <2>1. UNCHANGED <<data, rtx, maxseq, recover, lastdup, cwnd>>
    BY <1>4, Zenon DEF DupAckThreshold
  <2>2. SendPost
    BY <1>1, <2>1, IdlePost
  <2>3. CtlNum
    BY <1>1, <2>1, InvNum, AckHoldAssumption DEF CtlNum, AckHoldAssumption
  <2>4. CtlBool
    BY <1>1, <2>1, InvBool, Zenon DEF CtlBool
  <2> QED BY <2>2, <2>3, <2>4, Zenon DEF CtlPost
<1> QED BY <1>3, <1>4, Zenon

LEMMA PartialPost ==
  ASSUME Inv, NEW p \in acks, PartialAck(p)
  PROVE  SendPost /\ CtlPost
<1>1. /\ highest_ack' = p.ackno /\ recover' = RecoverPoint
      /\ lastdup' = TRUE /\ limited' = TRUE /\ cwnd' \in 2..WND
      /\ SendMuch(NextSeq(p.ackno), p.ackno, cwnd', FALSE, RecovBurst, TRUE,
                  Retransmission(p.ackno, cwnd))
      /\ UNCHANGED <<dupacks, fastrecov>> /\ highest_ack < p.ackno
  BY Zenon DEF PartialAck, IsFresh
<1>2. cwnd \in Nat /\ cwnd' \in Nat /\ cwnd' \in 1..WND
  BY <1>1, InvNum, AckHoldAssumption DEF AckHoldAssumption
<1>3. AtMostOne(Retransmission(p.ackno, cwnd))
  BY <1>2, AckFacts, RetransmissionFacts
<1>4. NextSeq(p.ackno) \in Nat \ {0}
  BY AckFacts, NextSeqType
<1>5. SendPost
  BY <1>1, <1>2, <1>3, <1>4, AckFacts, SendMuchPost
<1>6. CtlNum
  BY <1>1, <1>2, InvNum, AckFacts DEF CtlNum
<1>7. CtlBool
  BY <1>1, InvBool, Zenon DEF CtlBool
<1> QED BY <1>5, <1>6, <1>7, Zenon DEF CtlPost

LEMMA FullPost ==
  ASSUME Inv, NEW p \in acks, FullAck(p)
  PROVE  SendPost /\ CtlPost
<1>1. /\ highest_ack' = p.ackno /\ dupacks' = 0
      /\ fastrecov' = FALSE /\ limited' = FALSE /\ cwnd' \in Opened
      /\ SendMuch(NextSeq(p.ackno), p.ackno, cwnd', p.ackno = maxseq, 0,
                  p.ackno # maxseq, {})
      /\ UNCHANGED <<recover, lastdup>> /\ highest_ack < p.ackno
  BY Zenon DEF FullAck, IsFresh
<1>2. Opened \subseteq 2..WND
  BY Zenon DEF Opened
<1>3. cwnd' \in Nat /\ cwnd' \in 1..WND
  BY <1>1, <1>2, AckHoldAssumption DEF AckHoldAssumption
<1>4. NextSeq(p.ackno) \in Nat \ {0}
  BY AckFacts, NextSeqType
<1>5. SendPost
  <2>1. AtMostOne({}) /\ (p.ackno # maxseq) \in BOOLEAN
    BY Zenon DEF AtMostOne
  <2> QED BY <1>1, <1>3, <1>4, <2>1, AckFacts, SendMuchPost, Zenon
<1>6. CtlNum
  BY <1>1, <1>3, InvNum, AckFacts, AckHoldAssumption DEF CtlNum, AckHoldAssumption
<1>7. CtlBool
  BY <1>1, InvBool, Zenon DEF CtlBool
<1> QED BY <1>5, <1>6, <1>7, Zenon DEF CtlPost

\* Every step of the server
LEMMA ServerPost ==
  ASSUME Inv, ServerNext
  PROVE  /\ SendPost /\ CtlPost
         /\ UNCHANGED <<rcv_nxt, rq, last_ack_sent, delack, drops>> /\ acks' \subseteq acks
<1>1. CASE Start
  <2>1. /\ SendMuch(t_seqno, highest_ack, cwnd, TRUE, 0, FALSE, {})
        /\ UNCHANGED <<highest_ack, cwnd, dupacks, fastrecov, recover, lastdup, limited>>
        /\ UNCHANGED <<rcv_nxt, rq, last_ack_sent, delack, drops>> /\ acks' = acks
    BY <1>1, Zenon DEF Start, ctlVars, rcvVars
  <2>2. SendPost
    <3>1. /\ cwnd \in Nat /\ AtMostOne({}) /\ FALSE \in BOOLEAN
      BY InvNum, AckHoldAssumption DEF AtMostOne, AckHoldAssumption
    <3> QED BY <2>1, <3>1, InvNum, SendMuchPost, Zenon
  <2>3. CtlNum
    BY <2>1, InvNum DEF CtlNum
  <2>4. CtlBool
    BY <2>1, InvBool, Zenon DEF CtlBool
  <2> QED BY <2>1, <2>2, <2>3, <2>4, Zenon DEF CtlPost
<1>2. CASE Timeout
  <2>1. /\ TimeoutAction(highest_ack)
        /\ UNCHANGED <<rcv_nxt, rq, last_ack_sent, delack, drops>> /\ acks' = acks
    BY <1>2, Zenon DEF Timeout, rcvVars
  <2>2. highest_ack <= highest_ack
    BY InvNum, AckHoldAssumption DEF AckHoldAssumption
  <2> QED BY <2>1, <2>2, InvNum, TimeoutPost, Zenon
<1>3. ASSUME NEW p \in acks, NEW keep \in BOOLEAN, RecvAck(p, keep)
      PROVE  /\ SendPost /\ CtlPost
             /\ UNCHANGED <<rcv_nxt, rq, last_ack_sent, delack, drops>> /\ acks' \subseteq acks
  <2>1. UNCHANGED <<rcv_nxt, rq, last_ack_sent, delack, drops>>
    BY <1>3, Zenon DEF RecvAck, rcvVars
  <2>2. acks' \subseteq acks
    BY <1>3 DEF RecvAck
  <2>3. SendPost /\ CtlPost
    <3>1. CASE RequestOption(p)
      <4>1. highest_ack <= highest_ack
        BY InvNum, AckHoldAssumption DEF AckHoldAssumption
      <4> QED BY <3>1, <4>1, InvNum, TimeoutPost, Zenon DEF RequestOption
    <3>2. CASE OneByteAck(p)
      <4>1. p.ackno = highest_ack + 1 /\ TimeoutAction(p.ackno)
        BY <3>2, Zenon DEF OneByteAck, IsOneByte
      <4>2. highest_ack <= p.ackno
        BY <4>1, InvNum, AckHoldAssumption DEF AckHoldAssumption
      <4> QED BY <4>1, <4>2, AckFacts, TimeoutPost, Zenon
    <3> QED BY <1>3, <3>1, <3>2, PredictedPost, OldAckPost, DupAckCountedPost,
               DupAckThresholdPost, PartialPost, FullPost, Zenon DEF RecvAck
  <2> QED BY <2>1, <2>2, <2>3, Zenon
<1> QED BY <1>1, <1>2, <1>3, Zenon DEF ServerNext

-----------------------------------------------------------------------------
(* The client and the network *)

\* What every step of the client or the network leaves behind
RcvPost ==
  /\ rcv_nxt' \in 1..SRU+1 /\ rcv_nxt <= rcv_nxt' /\ rcv_nxt' <= maxseq
  /\ last_ack_sent' \in 1..SRU+1
  /\ last_ack_sent <= last_ack_sent' /\ last_ack_sent' <= rcv_nxt'
  /\ rq' \subseteq 1..SRU /\ (\A b \in rq' : b < maxseq)
  /\ acks' \subseteq Ack /\ (\A p \in acks' : p.ackno <= last_ack_sent')
  /\ drops' \in 0..MaxDrops

\* The parts of the invariant the client's arithmetic rests on
LEMMA RcvNum ==
  ASSUME Inv
  PROVE  /\ rcv_nxt \in 1..SRU+1 /\ maxseq \in 1..SRU+1
         /\ last_ack_sent \in 1..SRU+1 /\ last_ack_sent <= rcv_nxt /\ rcv_nxt <= maxseq
         /\ rq \subseteq 1..SRU /\ (\A b \in rq : b < maxseq)
         /\ acks \subseteq Ack /\ (\A p \in acks : p.ackno <= last_ack_sent)
         /\ data \subseteq Seg /\ (\A d \in data : d.seq + d.len <= maxseq)
         /\ drops \in 0..MaxDrops
BY DEF Inv, TypeOK, AckOrder, SentBound

\* The acknowledgement a packet carries lies between the last one and rcv_nxt_
LEMMA HeldAckBound ==
  ASSUME Inv, NEW r \in 1..SRU+1, rcv_nxt <= r
  PROVE  HeldAck(r) \in 1..SRU+1 /\ last_ack_sent <= HeldAck(r) /\ HeldAck(r) <= r
<1>1. /\ rcv_nxt \in 1..SRU+1 /\ last_ack_sent \in 1..SRU+1
      /\ last_ack_sent <= rcv_nxt /\ AH \in Nat /\ SRU \in Nat
  BY RcvNum, AckHoldAssumption DEF AckHoldAssumption
<1>2. CASE IsHA /\ r < SRU
  <2>1. HeldAck(r) = MaxOf(r - AH, last_ack_sent)
    BY <1>2 DEF HeldAck
  <2> QED BY <1>1, <2>1 DEF MaxOf
<1>3. CASE ~(IsHA /\ r < SRU)
  <2>1. HeldAck(r) = r
    BY <1>3, Zenon DEF HeldAck
  <2> QED BY <1>1, <2>1
<1> QED BY <1>2, <1>3, Zenon

\* Sending an acknowledgement
LEMMA SendAckPost ==
  ASSUME Inv, NEW r \in 1..SRU+1, rcv_nxt <= r, SendAck(r)
  PROVE  /\ last_ack_sent' \in 1..SRU+1
         /\ last_ack_sent <= last_ack_sent' /\ last_ack_sent' <= r
         /\ acks' \subseteq Ack /\ (\A p \in acks' : p.ackno <= last_ack_sent')
         /\ delack' \in BOOLEAN
<1>1. /\ last_ack_sent' = HeldAck(r)
      /\ acks' = acks \cup {[ackno |-> HeldAck(r), rtxreq |-> FALSE]}
      /\ delack' = FALSE
  BY Zenon DEF SendAck
<1>2. HeldAck(r) \in 1..SRU+1 /\ last_ack_sent <= HeldAck(r) /\ HeldAck(r) <= r
  BY HeldAckBound
<1>3. [ackno |-> HeldAck(r), rtxreq |-> FALSE] \in Ack
  BY <1>2, Zenon DEF Ack
<1>4. ASSUME NEW p \in acks PROVE p.ackno <= HeldAck(r)
  <2>1. p.ackno \in 1..SRU+1 /\ p.ackno <= last_ack_sent
    BY AckFacts
  <2> QED BY <1>2, <2>1, RcvNum, AckHoldAssumption DEF AckHoldAssumption
<1>5. \A p \in acks' : p.ackno <= last_ack_sent'
  BY <1>1, <1>2, <1>4, AckHoldAssumption DEF AckHoldAssumption
<1>6. acks' \subseteq Ack
  BY <1>1, <1>3, RcvNum, Zenon
<1>7. delack' \in BOOLEAN
  BY <1>1, Zenon
<1> QED BY <1>1, <1>2, <1>5, <1>6, <1>7

LEMMA RecvDataPost ==
  ASSUME Inv, NEW d \in data, NEW keep \in BOOLEAN, RecvData(d, keep)
  PROVE  RcvPost /\ delack' \in BOOLEAN /\ data' \subseteq data
<1> DEFINE end == d.seq + d.len
           got == rq \cup (MaxOf(d.seq, rcv_nxt)..end-1)
<1>1. PICK r \in rcv_nxt..SRU+1 :
        /\ NextExpected(r, got)
        /\ rcv_nxt' = r
        /\ rq' = {b \in got : b > r}
        /\ \/ delack' = TRUE /\ UNCHANGED <<last_ack_sent, acks>>
           \/ SendAck(r)
  BY Zenon DEF RecvData
<1>2. UNCHANGED drops /\ data' \subseteq data
  BY DEF RecvData
<1>3. /\ SRU \in Nat /\ rcv_nxt \in 1..SRU+1 /\ maxseq \in 1..SRU+1
      /\ rcv_nxt <= maxseq /\ r \in 1..SRU+1 /\ rcv_nxt <= r
  BY RcvNum, AckHoldAssumption DEF AckHoldAssumption
<1>4. d.seq \in 1..SRU /\ end \in Nat /\ end <= maxseq
  <2>1. d \in Seg /\ d.seq + d.len <= maxseq
    BY RcvNum
  <2>2. MSS \in Nat
    BY AckHoldAssumption DEF AckHoldAssumption
  <2> QED BY <2>1, <2>2 DEF Seg
<1> HIDE DEF end
<1>5. \A b \in got : b \in 1..SRU /\ b < maxseq
  <2>1. \A b \in rq : b \in 1..SRU /\ b < maxseq
    BY RcvNum
  <2>2. ASSUME NEW b \in MaxOf(d.seq, rcv_nxt)..end-1
        PROVE  b \in 1..SRU /\ b < maxseq
    BY <1>3, <1>4 DEF MaxOf
  <2> QED BY <2>1, <2>2
<1> HIDE DEF got
<1>6. r <= maxseq
  <2>1. CASE r = rcv_nxt
    BY <1>3, <2>1
  <2>2. CASE r # rcv_nxt
    <3>1. r - 1 \in rcv_nxt..r-1
      BY <1>3, <2>2
    <3>2. r - 1 \in got
      BY <1>1, <3>1, Zenon DEF NextExpected
    <3>3. r - 1 \in Int /\ r - 1 < maxseq
      BY <1>3, <1>5, <3>2
    <3> QED BY <1>3, <3>3
  <2> QED BY <2>1, <2>2
<1>7. rq' \subseteq 1..SRU /\ \A b \in rq' : b < maxseq
  BY <1>1, <1>5
<1>8. CASE SendAck(r)
  <2>1. /\ last_ack_sent' \in 1..SRU+1
        /\ last_ack_sent <= last_ack_sent' /\ last_ack_sent' <= r
        /\ acks' \subseteq Ack /\ (\A p \in acks' : p.ackno <= last_ack_sent')
        /\ delack' \in BOOLEAN
    BY <1>3, <1>8, SendAckPost
  <2> QED BY <1>1, <1>2, <1>3, <1>6, <1>7, <2>1, RcvNum DEF RcvPost
<1>9. CASE delack' = TRUE /\ UNCHANGED <<last_ack_sent, acks>>
  <2>1. last_ack_sent \in 1..SRU+1 /\ last_ack_sent <= last_ack_sent /\ last_ack_sent <= r
    BY <1>3, RcvNum
  <2>2. RcvPost
    BY <1>1, <1>2, <1>3, <1>6, <1>7, <1>9, <2>1, RcvNum DEF RcvPost
  <2>3. delack' \in BOOLEAN
    BY <1>9, Zenon
  <2> QED BY <1>2, <2>2, <2>3
<1> QED BY <1>1, <1>8, <1>9, Zenon

LEMMA AckOnlyPost ==
  ASSUME Inv, UNCHANGED <<rcv_nxt, rq, drops>>, SendAck(rcv_nxt)
  PROVE  RcvPost /\ delack' \in BOOLEAN
<1>1. rcv_nxt \in 1..SRU+1 /\ rcv_nxt <= rcv_nxt
  BY RcvNum, AckHoldAssumption DEF AckHoldAssumption
<1>2. /\ last_ack_sent' \in 1..SRU+1
      /\ last_ack_sent <= last_ack_sent' /\ last_ack_sent' <= rcv_nxt
      /\ acks' \subseteq Ack /\ (\A p \in acks' : p.ackno <= last_ack_sent')
      /\ delack' \in BOOLEAN
  BY <1>1, SendAckPost
<1> QED BY <1>1, <1>2, RcvNum DEF RcvPost

LEMMA ReqRtxPost ==
  ASSUME Inv, ReqRtx
  PROVE  RcvPost
<1>1. UNCHANGED <<rcv_nxt, rq, delack, drops>>
  BY Zenon DEF ReqRtx
<1>2. /\ rcv_nxt \in 1..SRU+1 /\ last_ack_sent \in 1..SRU+1 /\ SRU \in Nat
      /\ last_ack_sent <= rcv_nxt
  BY RcvNum, AckHoldAssumption DEF AckHoldAssumption
<1>3. /\ last_ack_sent' \in 1..SRU+1
      /\ last_ack_sent <= last_ack_sent' /\ last_ack_sent' <= rcv_nxt
      /\ acks' \subseteq Ack /\ (\A p \in acks' : p.ackno <= last_ack_sent')
  <2>1. CASE /\ last_ack_sent < rcv_nxt - 1
             /\ last_ack_sent' = last_ack_sent + 1
             /\ acks' = acks \cup {[ackno |-> last_ack_sent + 1, rtxreq |-> FALSE]}
    <3>1. last_ack_sent + 1 \in 1..SRU+1 /\ last_ack_sent + 1 <= rcv_nxt
      BY <1>2, <2>1
    <3>2. [ackno |-> last_ack_sent + 1, rtxreq |-> FALSE] \in Ack
      BY <3>1, Zenon DEF Ack
    <3>3. ASSUME NEW p \in acks PROVE p.ackno <= last_ack_sent + 1
      <4>1. p.ackno \in Int /\ p.ackno <= last_ack_sent
        BY AckFacts
      <4> QED BY <1>2, <4>1
    <3>4. acks' \subseteq Ack
      BY <2>1, <3>2, RcvNum, Zenon
    <3>5. last_ack_sent <= last_ack_sent' /\ last_ack_sent' \in 1..SRU+1
      BY <1>2, <2>1, <3>1
    <3> QED BY <2>1, <3>1, <3>3, <3>4, <3>5
  <2>2. CASE /\ acks' = acks \cup {[ackno |-> last_ack_sent, rtxreq |-> TRUE]}
             /\ UNCHANGED last_ack_sent
    <3>1. [ackno |-> last_ack_sent, rtxreq |-> TRUE] \in Ack
      BY <1>2, Zenon DEF Ack
    <3>2. acks' \subseteq Ack
      BY <2>2, <3>1, RcvNum, Zenon
    <3>3. last_ack_sent <= last_ack_sent
      BY <1>2
    <3> QED BY <1>2, <2>2, <3>2, <3>3, RcvNum
  <2> QED BY <2>1, <2>2, Zenon DEF ReqRtx
<1> QED BY <1>1, <1>2, <1>3, RcvNum DEF RcvPost

\* Every step of the client and the network
LEMMA ClientPost ==
  ASSUME Inv, ClientNext \/ LossNext
  PROVE  /\ RcvPost /\ delack' \in BOOLEAN /\ data' \subseteq data
         /\ UNCHANGED <<t_seqno, maxseq, rtx, ctlVars>>
<1>0. delack \in BOOLEAN
  BY Zenon DEF Inv, TypeOK
<1>1. ASSUME NEW d \in data, NEW keep \in BOOLEAN, RecvData(d, keep)
      PROVE  UNCHANGED <<t_seqno, maxseq, rtx, ctlVars>>
  BY <1>1, Zenon DEF RecvData
<1>2. CASE DelAckTimer \/ Activate
  BY <1>2, AckOnlyPost, Zenon DEF DelAckTimer, Activate, sendVars
<1>3. CASE ReqRtx
  <2>1. UNCHANGED <<t_seqno, maxseq, rtx, data, delack, ctlVars>>
    BY <1>3, Zenon DEF ReqRtx, sendVars
  <2> QED BY <1>0, <1>3, <2>1, ReqRtxPost, Zenon
<1>4. CASE LossNext
  <2>1. /\ data' \subseteq data /\ acks' \subseteq acks
        /\ drops < MaxDrops /\ drops' = drops + 1
        /\ UNCHANGED <<rcv_nxt, rq, last_ack_sent, delack>>
        /\ UNCHANGED <<t_seqno, maxseq, rtx, ctlVars>>
    BY <1>4 DEF LossNext, LoseData, LoseAck, sendVars, rcvVars
  <2>2. drops' \in 0..MaxDrops
    BY <2>1, RcvNum, AckHoldAssumption DEF AckHoldAssumption
  <2>3. rcv_nxt <= rcv_nxt /\ last_ack_sent <= last_ack_sent
    BY RcvNum, AckHoldAssumption DEF AckHoldAssumption
  <2>4. RcvPost
    BY <2>1, <2>2, <2>3, RcvNum DEF RcvPost
  <2> QED BY <1>0, <2>1, <2>4, Zenon
<1> QED BY <1>1, <1>2, <1>3, <1>4, RecvDataPost, Zenon DEF ClientNext

-----------------------------------------------------------------------------
(* The inductive invariant *)

LEMMA InitInv ==
  ASSUME Init
  PROVE  Inv
<1>1. TypeOK
  <2>1. /\ t_seqno \in Nat \ {0} /\ maxseq \in 1..SRU+1 /\ highest_ack \in 1..SRU+1
        /\ cwnd \in 1..WND /\ dupacks \in 0..Thresh+1 /\ recover \in Int
        /\ rcv_nxt \in 1..SRU+1 /\ last_ack_sent \in 1..SRU+1 /\ drops \in 0..MaxDrops
    BY AckHoldAssumption DEF Init, AckHoldAssumption
  <2>2. /\ rtx \in BOOLEAN /\ fastrecov \in BOOLEAN /\ lastdup \in BOOLEAN
        /\ limited \in BOOLEAN /\ delack \in BOOLEAN
        /\ rq \subseteq 1..SRU /\ data \subseteq Seg /\ acks \subseteq Ack
    BY Zenon DEF Init
  <2> QED BY <2>1, <2>2, Zenon DEF TypeOK
<1>2. AckOrder /\ SentBound
  BY DEF Init, AckOrder, SentBound
<1> QED BY <1>1, <1>2 DEF Inv

LEMMA ServerInv ==
  ASSUME Inv, ServerNext
  PROVE  Inv'
<1>1. /\ SendPost /\ CtlPost
      /\ UNCHANGED <<rcv_nxt, rq, last_ack_sent, delack, drops>> /\ acks' \subseteq acks
  BY ServerPost
<1>2. TypeOK'
  <2>1. delack \in BOOLEAN
    BY Zenon DEF Inv, TypeOK
  <2>2. rtx' \in BOOLEAN /\ fastrecov' \in BOOLEAN /\ lastdup' \in BOOLEAN /\ limited' \in BOOLEAN
    BY <1>1, Zenon DEF SendPost, CtlPost, CtlBool
  <2>3. /\ t_seqno' \in Nat \ {0} /\ maxseq' \in 1..SRU+1 /\ data' \subseteq Seg
        /\ highest_ack' \in 1..SRU+1 /\ cwnd' \in 1..WND /\ dupacks' \in 0..Thresh+1
        /\ recover' \in Int
    BY <1>1, Zenon DEF SendPost, CtlPost, CtlNum
  <2>4. /\ rcv_nxt' \in 1..SRU+1 /\ rq' \subseteq 1..SRU /\ last_ack_sent' \in 1..SRU+1
        /\ delack' \in BOOLEAN /\ acks' \subseteq Ack /\ drops' \in 0..MaxDrops
    BY <1>1, <2>1, RcvNum, Zenon
  <2> QED BY <2>2, <2>3, <2>4, Zenon DEF TypeOK
<1>3. AckOrder'
  <2>1. rcv_nxt \in Int /\ maxseq \in Int /\ maxseq' \in Int /\ maxseq <= maxseq'
    BY <1>1, RcvNum, AckHoldAssumption DEF SendPost, AckHoldAssumption
  <2>2. rcv_nxt' <= maxseq'
    BY <1>1, <2>1, RcvNum
  <2>3. highest_ack' <= last_ack_sent' /\ last_ack_sent' <= rcv_nxt'
    BY <1>1, RcvNum DEF CtlPost, CtlNum
  <2>4. \A p \in acks' : p.ackno <= last_ack_sent'
    BY <1>1, RcvNum
  <2> QED BY <2>2, <2>3, <2>4, Zenon DEF AckOrder
<1>4. SentBound'
  <2>1. ASSUME NEW b \in rq' PROVE b < maxseq'
    BY <1>1, <2>1, RcvNum, AckHoldAssumption DEF SendPost, AckHoldAssumption
  <2>2. \A d \in data' : d.seq + d.len <= maxseq'
    BY <1>1, Zenon DEF SendPost
  <2> QED BY <2>1, <2>2, Zenon DEF SentBound
<1> QED BY <1>2, <1>3, <1>4, Zenon DEF Inv

LEMMA ClientInv ==
  ASSUME Inv, ClientNext \/ LossNext
  PROVE  Inv'
<1>1. /\ RcvPost /\ delack' \in BOOLEAN /\ data' \subseteq data
      /\ UNCHANGED <<t_seqno, maxseq, rtx, ctlVars>>
  BY ClientPost
<1>2. TypeOK'
  <2>1. /\ t_seqno' \in Nat \ {0} /\ rtx' \in BOOLEAN /\ maxseq' \in 1..SRU+1
        /\ highest_ack' \in 1..SRU+1 /\ cwnd' \in 1..WND /\ dupacks' \in 0..Thresh+1
        /\ fastrecov' \in BOOLEAN /\ lastdup' \in BOOLEAN /\ limited' \in BOOLEAN
        /\ recover' \in Int /\ data' \subseteq Seg
    BY <1>1, Zenon DEF Inv, TypeOK, ctlVars
  <2>2. /\ rcv_nxt' \in 1..SRU+1 /\ rq' \subseteq 1..SRU /\ last_ack_sent' \in 1..SRU+1
        /\ delack' \in BOOLEAN /\ acks' \subseteq Ack /\ drops' \in 0..MaxDrops
    BY <1>1, Zenon DEF RcvPost
  <2> QED BY <2>1, <2>2, Zenon DEF TypeOK
<1>3. AckOrder'
  <2>1. highest_ack' = highest_ack /\ maxseq' = maxseq
    BY <1>1, Zenon DEF ctlVars
  <2>2. highest_ack' <= last_ack_sent'
    BY <1>1, <2>1, InvNum, AckHoldAssumption DEF RcvPost, AckHoldAssumption
  <2>3. last_ack_sent' <= rcv_nxt' /\ rcv_nxt' <= maxseq'
        /\ \A p \in acks' : p.ackno <= last_ack_sent'
    BY <1>1, <2>1 DEF RcvPost
  <2> QED BY <2>2, <2>3, Zenon DEF AckOrder
<1>4. SentBound'
  <2>1. \A d \in data' : d.seq + d.len <= maxseq'
    BY <1>1, RcvNum
  <2>2. \A b \in rq' : b < maxseq'
    BY <1>1 DEF RcvPost
  <2> QED BY <2>1, <2>2, Zenon DEF SentBound
<1> QED BY <1>2, <1>3, <1>4, Zenon DEF Inv

\* Inv is inductive
LEMMA NextInv ==
  ASSUME Inv, [Next]_vars
  PROVE  Inv'
<1>1. CASE Next
  BY <1>1, ServerInv, ClientInv, Zenon DEF Next
<1>2. CASE UNCHANGED vars
  BY <1>2, Zenon DEF vars, sendVars, ctlVars, rcvVars, Inv, TypeOK, AckOrder, SentBound
<1> QED BY <1>1, <1>2

LEMMA Invariance == Spec => []Inv
BY InitInv, NextInv, PTL DEF Spec

-----------------------------------------------------------------------------
(* Theorems *)

\* Every field keeps the range the handlers assume: in particular the queue and
\* the packets in flight hold only bytes of the block.
THEOREM TypeCorrect == Spec => []TypeOK
<1>1. Inv => TypeOK
  BY DEF Inv
<1> QED BY <1>1, Invariance, PTL

\* The server takes for acknowledged only what the client has acknowledged, the
\* client acknowledges only what it has received, and it receives only what was
\* sent (newack, foutput's held acknowledgement, request_retransmission).
THEOREM AckOrderHolds == Spec => []AckOrder
<1>1. Inv => AckOrder
  BY DEF Inv
<1> QED BY <1>1, Invariance, PTL

\* Neither end's acknowledgement point ever moves back, although foutput
\* subtracts AHBYTES from every acknowledgement and newack and timeout_action
\* both assign highest_ack_.
THEOREM AcksMonotone == Spec => AcksNeverRetreat
<1>1. ASSUME Inv, [Next]_vars
      PROVE  [last_ack_sent' >= last_ack_sent /\ highest_ack' >= highest_ack]_vars
  <2>0. /\ last_ack_sent \in Int /\ highest_ack \in Int
    BY <1>1, InvNum, AckHoldAssumption DEF AckHoldAssumption
  <2>1. CASE ServerNext
    <3>1. CtlPost /\ last_ack_sent' = last_ack_sent
      BY <1>1, <2>1, ServerPost, Zenon
    <3>2. highest_ack' \in Int
      BY <3>1, AckHoldAssumption DEF CtlPost, CtlNum, AckHoldAssumption
    <3> QED BY <2>0, <3>1, <3>2 DEF CtlPost, CtlNum
  <2>2. CASE ClientNext \/ LossNext
    <3>1. RcvPost /\ highest_ack' = highest_ack
      BY <1>1, <2>2, ClientPost, Zenon DEF ctlVars
    <3>2. last_ack_sent' \in Int
      BY <3>1, AckHoldAssumption DEF RcvPost, AckHoldAssumption
    <3> QED BY <2>0, <3>1, <3>2 DEF RcvPost
  <2> QED BY <1>1, <2>1, <2>2, Zenon DEF Next
<1> QED BY <1>1, Invariance, PTL DEF Spec, AcksNeverRetreat

\* While two bytes or more are missing the last byte received is never
\* acknowledged, neither by an acknowledgement nor by a request
KeepsHold == IsHA /\ 1 < rcv_nxt /\ rcv_nxt < SRU => last_ack_sent < rcv_nxt

LEMMA HoldKept == Spec => []KeepsHold
<1>1. Init => KeepsHold
  BY DEF Init, KeepsHold
<1>2. ASSUME Inv, KeepsHold, [Next]_vars
      PROVE  KeepsHold'
  <2>0. /\ SRU \in Nat /\ AH \in Nat \ {0} /\ rcv_nxt \in 1..SRU+1
        /\ last_ack_sent \in 1..SRU+1 /\ last_ack_sent <= rcv_nxt
    BY <1>2, RcvNum, AckHoldAssumption DEF AckHoldAssumption
  <2>1. CASE UNCHANGED <<rcv_nxt, last_ack_sent>>
    BY <1>2, <2>1, Zenon DEF KeepsHold
  <2>2. ASSUME NEW r \in 1..SRU+1, rcv_nxt <= r, rcv_nxt' = r, IsHA, 1 < r, r < SRU
        PROVE  last_ack_sent < r /\ HeldAck(r) < r
    <3>1. last_ack_sent < r
      <4>1. CASE rcv_nxt = 1
        BY <2>0, <2>2, <4>1
      <4>2. CASE rcv_nxt # 1
        <5>1. 1 < rcv_nxt /\ rcv_nxt < SRU
          BY <2>0, <2>2, <4>2
        <5>2. last_ack_sent < rcv_nxt
          BY <1>2, <2>2, <5>1, Zenon DEF KeepsHold
        <5> QED BY <2>0, <2>2, <5>2
      <4> QED BY <4>1, <4>2
    <3>2. HeldAck(r) = MaxOf(r - AH, last_ack_sent)
      BY <2>2, Zenon DEF HeldAck
    <3> QED BY <2>0, <3>1, <3>2 DEF MaxOf
  <2>3. ASSUME NEW r \in 1..SRU+1, rcv_nxt <= r, rcv_nxt' = r,
               SendAck(r) \/ UNCHANGED last_ack_sent
        PROVE  KeepsHold'
    <3>1. SUFFICES ASSUME IsHA, 1 < r, r < SRU
                   PROVE  last_ack_sent' < r
      BY <2>3, Zenon DEF KeepsHold
    <3>2. last_ack_sent < r /\ HeldAck(r) < r
      BY <2>2, <2>3, <3>1, Zenon
    <3>3. last_ack_sent' = HeldAck(r) \/ last_ack_sent' = last_ack_sent
      BY <2>3, Zenon DEF SendAck
    <3> QED BY <3>2, <3>3, Zenon
  <2>4. CASE ServerNext
    BY <1>2, <2>1, <2>4, ServerPost, Zenon
  <2>5. ASSUME NEW d \in data, NEW keep \in BOOLEAN, RecvData(d, keep)
        PROVE  KeepsHold'
    <3>1. \E r \in rcv_nxt..SRU+1 :
            rcv_nxt' = r /\ (SendAck(r) \/ UNCHANGED last_ack_sent)
      BY <2>5, Zenon DEF RecvData
    <3>2. PICK r \in rcv_nxt..SRU+1 :
            rcv_nxt' = r /\ (SendAck(r) \/ UNCHANGED last_ack_sent)
      BY <3>1
    <3>3. r \in 1..SRU+1 /\ rcv_nxt <= r
      BY <2>0
    <3> QED BY <2>3, <3>2, <3>3, Zenon
  <2>6. CASE DelAckTimer \/ Activate
    <3>1. SendAck(rcv_nxt) /\ rcv_nxt' = rcv_nxt
      BY <2>6, Zenon DEF DelAckTimer, Activate
    <3>2. rcv_nxt <= rcv_nxt
      BY <2>0
    <3> QED BY <2>0, <2>3, <3>1, <3>2, Zenon
  <2>7. CASE ReqRtx
    <3>1. CASE ~IsHA
      BY <3>1, Zenon DEF KeepsHold
    <3>2. CASE IsHA
      <4>1. /\ rcv_nxt' = rcv_nxt
            /\ last_ack_sent < rcv_nxt - 1 /\ last_ack_sent' = last_ack_sent + 1
        BY <2>7, <3>2, Zenon DEF ReqRtx
      <4>2. last_ack_sent' < rcv_nxt'
        BY <2>0, <4>1
      <4> QED BY <4>2, Zenon DEF KeepsHold
    <3> QED BY <3>1, <3>2
  <2>8. CASE LossNext
    BY <2>1, <2>8 DEF LossNext, LoseData, LoseAck, rcvVars
  <2>9. CASE UNCHANGED vars
    BY <2>1, <2>9, Zenon DEF vars, rcvVars
  <2> QED BY <1>2, <2>4, <2>5, <2>6, <2>7, <2>8, <2>9, Zenon DEF Next, ClientNext
<1> QED BY <1>1, <1>2, Invariance, PTL DEF Spec

\* An acknowledgement sent with two bytes held, or with one and new bytes, leaves
\* two held
LEMMA AckLeavesTwo ==
  ASSUME Inv, KeepsHold, IsHA, AH > 1, NEW r \in 1..SRU+1, 2 < r, r < SRU,
         rcv_nxt < r \/ (rcv_nxt = r /\ CanAsk)
  PROVE  last_ack_sent < r - 1 /\ HeldAck(r) < r - 1
<1>1. /\ SRU \in Nat /\ AH \in Nat /\ rcv_nxt \in 1..SRU+1
      /\ last_ack_sent \in 1..SRU+1 /\ last_ack_sent <= rcv_nxt
  BY RcvNum, AckHoldAssumption DEF AckHoldAssumption
<1>2. last_ack_sent < r - 1
  <2>1. CASE rcv_nxt = r /\ CanAsk
    BY <2>1 DEF CanAsk
  <2>2. CASE rcv_nxt < r /\ rcv_nxt = 1
    BY <1>1, <2>2
  <2>3. CASE rcv_nxt < r /\ 1 < rcv_nxt
    <3>1. rcv_nxt < SRU
      BY <1>1, <2>3
    <3>2. last_ack_sent < rcv_nxt
      BY <2>3, <3>1, Zenon DEF KeepsHold
    <3> QED BY <1>1, <2>3, <3>2
  <2> QED BY <1>1, <2>1, <2>2, <2>3
<1>3. HeldAck(r) = MaxOf(r - AH, last_ack_sent)
  BY Zenon DEF HeldAck
<1> QED BY <1>1, <1>2, <1>3 DEF MaxOf

\* What the client can lose the ability to ask by is its own requests, and in-order
\* bytes restore it, for every block, segment and hold of two bytes or more.
THEOREM AskingKept == Spec => AsksAgain
<1> DEFINE Step == /\ IsHA /\ AH > 1 /\ 2 < rcv_nxt' /\ rcv_nxt' < SRU
                   /\ rcv_nxt < rcv_nxt' \/ CanAsk
                   => CanAsk' \/ ReqRtx
<1>1. ASSUME Inv, KeepsHold, [Next]_vars
      PROVE  [Step]_vars
  <2>0. /\ SRU \in Nat /\ rcv_nxt \in 1..SRU+1
    BY <1>1, RcvNum, AckHoldAssumption DEF AckHoldAssumption
  <2>1. SUFFICES ASSUME Next, IsHA, AH > 1, 2 < rcv_nxt', rcv_nxt' < SRU,
                        rcv_nxt < rcv_nxt' \/ CanAsk, ~ReqRtx
                 PROVE  CanAsk'
    BY <1>1, Zenon
  <2>2. CASE UNCHANGED <<rcv_nxt, last_ack_sent>>
    <3>1. ~(rcv_nxt < rcv_nxt')
      BY <2>0, <2>2
    <3> QED BY <2>1, <2>2, <3>1 DEF CanAsk
  <2>3. ASSUME NEW r \in 1..SRU+1, rcv_nxt <= r, rcv_nxt' = r,
               SendAck(r) \/ UNCHANGED last_ack_sent
        PROVE  CanAsk'
    <3>1. rcv_nxt < r \/ (rcv_nxt = r /\ CanAsk)
      BY <2>0, <2>1, <2>3
    <3>2. last_ack_sent < r - 1 /\ HeldAck(r) < r - 1
      BY <1>1, <2>1, <2>3, <3>1, AckLeavesTwo
    <3>3. last_ack_sent' = HeldAck(r) \/ last_ack_sent' = last_ack_sent
      BY <2>3, Zenon DEF SendAck
    <3> QED BY <2>3, <3>2, <3>3, Zenon DEF CanAsk
  <2>4. CASE ServerNext
    BY <1>1, <2>2, <2>4, ServerPost, Zenon
  <2>5. ASSUME NEW d \in data, NEW keep \in BOOLEAN, RecvData(d, keep)
        PROVE  CanAsk'
    <3>1. \E r \in rcv_nxt..SRU+1 :
            rcv_nxt' = r /\ (SendAck(r) \/ UNCHANGED last_ack_sent)
      BY <2>5, Zenon DEF RecvData
    <3>2. PICK r \in rcv_nxt..SRU+1 :
            rcv_nxt' = r /\ (SendAck(r) \/ UNCHANGED last_ack_sent)
      BY <3>1
    <3>3. r \in 1..SRU+1 /\ rcv_nxt <= r
      BY <2>0
    <3> QED BY <2>3, <3>2, <3>3, Zenon
  <2>6. CASE DelAckTimer \/ Activate
    <3>1. SendAck(rcv_nxt) /\ rcv_nxt' = rcv_nxt
      BY <2>6, Zenon DEF DelAckTimer, Activate
    <3>2. rcv_nxt <= rcv_nxt
      BY <2>0
    <3> QED BY <2>0, <2>3, <3>1, <3>2, Zenon
  <2>7. CASE LossNext
    BY <2>2, <2>7 DEF LossNext, LoseData, LoseAck, rcvVars
  <2> QED BY <2>1, <2>4, <2>5, <2>6, <2>7, Zenon DEF Next, ClientNext
<1> QED BY <1>1, Invariance, HoldKept, PTL DEF Spec, AsksAgain

\* A bound that moves up, as the number of bytes before it
LEMMA Advance ==
  ASSUME NEW a \in Int, NEW b \in Int, NEW d \in Int, a <= b, b <= d + 1, b # a
  PROVE  b - 1 \in (a - 1 + 1)..d
<1>1. a - 1 + 1 = a
  OBVIOUS
<1>2. a <= b - 1 /\ b - 1 <= d
  OBVIOUS
<1> QED BY <1>1, <1>2

\* With held acknowledgements, requests, retransmissions and losses the
\* transfer is still a block transfer: the steps of the server confirm bytes
\* handed over, those of the client hand over more, and the others stutter.
THEOREM Refinement == Spec => ImplementsBlockTransfer
<1>1. Init => BT!Init
  BY DEF Init, BT!Init
<1>2. ASSUME Inv, [Next]_vars
      PROVE  [BT!Next]_(BT!bvars)
  <2>0. /\ SRU \in Nat /\ rcv_nxt \in 1..SRU+1 /\ highest_ack \in 1..SRU+1
        /\ last_ack_sent \in 1..SRU+1 /\ last_ack_sent <= rcv_nxt
    BY <1>2, InvNum, RcvNum, AckHoldAssumption DEF AckHoldAssumption
  <2>1. CASE ServerNext
    <3>1. CtlPost /\ rcv_nxt' = rcv_nxt
      BY <1>2, <2>1, ServerPost, Zenon
    <3>2. /\ highest_ack' \in 1..SRU+1 /\ highest_ack <= highest_ack'
          /\ highest_ack' <= rcv_nxt
      BY <2>0, <3>1 DEF CtlPost, CtlNum
    <3>3. CASE highest_ack' = highest_ack
      BY <3>1, <3>3 DEF BT!bvars
    <3>4. CASE highest_ack' # highest_ack
      <4>1. highest_ack' - 1 \in (highest_ack - 1 + 1)..(rcv_nxt - 1)
        <5>1. /\ highest_ack \in Int /\ highest_ack' \in Int /\ rcv_nxt - 1 \in Int
              /\ highest_ack' <= rcv_nxt - 1 + 1
          BY <2>0, <3>2
        <5> QED BY <3>2, <3>4, <5>1, Advance
      <4> QED BY <3>1, <4>1 DEF BT!Next, BT!Confirm
    <3> QED BY <3>3, <3>4
  <2>2. CASE ClientNext \/ LossNext
    <3>1. RcvPost /\ highest_ack' = highest_ack
      BY <1>2, <2>2, ClientPost, Zenon DEF ctlVars
    <3>2. rcv_nxt' \in 1..SRU+1 /\ rcv_nxt <= rcv_nxt'
      BY <3>1 DEF RcvPost
    <3>3. CASE rcv_nxt' = rcv_nxt
      BY <3>1, <3>3 DEF BT!bvars
    <3>4. CASE rcv_nxt' # rcv_nxt
      <4>1. rcv_nxt' - 1 \in (rcv_nxt - 1 + 1)..SRU
        <5>1. /\ rcv_nxt \in Int /\ rcv_nxt' \in Int /\ SRU \in Int
              /\ rcv_nxt' <= SRU + 1
          BY <2>0, <3>2
        <5> QED BY <3>2, <3>4, <5>1, Advance
      <4> QED BY <3>1, <4>1 DEF BT!Next, BT!Deliver
    <3> QED BY <3>3, <3>4
  <2>3. CASE UNCHANGED vars
    BY <2>3 DEF vars, sendVars, ctlVars, rcvVars, BT!bvars
  <2> QED BY <1>2, <2>1, <2>2, <2>3, Zenon DEF Next
<1> QED BY <1>1, <1>2, Invariance, PTL DEF Spec, ImplementsBlockTransfer, BT!Spec

-----------------------------------------------------------------------------
(***************************************************************************)
(* The point from which an AckHolding server resumes, an acknowledgement    *)
(* rounded up to a segment boundary, lies beyond no byte the client misses, *)
(* provided that need_send() never lets a cut segment pass (SPA # 0).  The  *)
(* argument is about cells, the pieces of MSS bytes the block falls into:   *)
(* the server only ever sends whole cells, so the client has a cell or has  *)
(* nothing of it, and rounding up a point inside a cell the client has      *)
(* stays inside that cell.                                                  *)
(***************************************************************************)

\* The k-th piece of the block
Cell(k) == (k * MSS + 1)..((k + 1) * MSS)

\* T holds all of a cell, as far as the block goes, or none of it
Whole(T) ==
  \A k \in Nat : \A b \in Cell(k), c \in Cell(k) :
    b \in T /\ 1 <= c /\ c <= SRU => c \in T

\* A sequence number at which a cell begins, or behind the block
Aligned(t) == t > SRU \/ \E k \in Nat : t = k * MSS + 1

\* A segment that is a whole cell, or what the block has of its last one
IsCell(d) ==
  \E k \in Nat : d.seq = k * MSS + 1 /\ (d.len = MSS \/ d.seq + d.len = SRU + 1)

\* What the client has
Have == (1..rcv_nxt-1) \cup rq

CellInv ==
  /\ Aligned(t_seqno)
  /\ \A d \in data : IsCell(d)
  /\ Whole(Have) /\ rcv_nxt \notin rq

-----------------------------------------------------------------------------
(* Cells *)

\* A point behind the beginning of one cell and before the end of another
LEMMA CellsInOrder ==
  ASSUME NEW m \in Nat \ {0}, NEW k \in Nat, NEW j \in Nat, NEW b \in Int,
         k * m + 1 <= b, b <= (j + 1) * m
  PROVE  k * m <= j * m
<1>1. CASE k <= j
  <2>1. PICK e \in Nat : j = k + e
    <3>1. j - k \in Nat /\ j = k + (j - k)
      BY <1>1
    <3> QED BY <3>1
  <2>2. j * m = k * m + e * m
    BY <2>1, SMTT(30)
  <2>3. e * m \in Nat /\ k * m \in Nat
    BY SMTT(30)
  <2> QED BY <2>2, <2>3
<1>2. CASE j < k
  <2>1. PICK e \in Nat : k = j + 1 + e
    <3>1. k - j - 1 \in Nat /\ k = j + 1 + (k - j - 1)
      BY <1>2
    <3> QED BY <3>1
  <2>2. k * m = (j + 1) * m + e * m
    BY <2>1, SMTT(30)
  <2>3. e * m \in Nat /\ k * m \in Nat /\ (j + 1) * m \in Nat
    BY SMTT(30)
  <2> QED BY <2>2, <2>3
<1> QED BY <1>1, <1>2

\* The bytes of such a segment make up a cell
LEMMA SegmentWhole ==
  ASSUME NEW d \in Seg, IsCell(d)
  PROVE  Whole(d.seq..d.seq+d.len-1)
<1>0. MSS \in Nat \ {0} /\ SRU \in Nat \ {0}
  BY AckHoldAssumption DEF AckHoldAssumption
<1>1. PICK k \in Nat : d.seq = k * MSS + 1 /\ (d.len = MSS \/ d.seq + d.len = SRU + 1)
  BY DEF IsCell
<1>2. d.seq \in 1..SRU /\ d.len \in 1..MSS
  BY DEF Seg
<1> SUFFICES ASSUME NEW j \in Nat, NEW b \in Cell(j), NEW c \in Cell(j),
                    b \in d.seq..d.seq+d.len-1, 1 <= c, c <= SRU
             PROVE  c \in d.seq..d.seq+d.len-1
  BY Zenon DEF Whole
<1>3. /\ k * MSS \in Nat /\ j * MSS \in Nat
      /\ (j + 1) * MSS = j * MSS + MSS /\ (k + 1) * MSS = k * MSS + MSS
  BY <1>0, SMTT(30)
<1>4. /\ b \in Int /\ c \in Int
      /\ j * MSS + 1 <= b /\ b <= (j + 1) * MSS
      /\ j * MSS + 1 <= c /\ c <= (j + 1) * MSS
  BY <1>3 DEF Cell
<1>5. k * MSS <= j * MSS
  <2>1. k * MSS + 1 <= b
    BY <1>1, <1>2
  <2> QED BY <1>0, <1>4, <2>1, CellsInOrder
<1>6. CASE d.len = MSS
  <2>1. b <= (k + 1) * MSS
    BY <1>0, <1>1, <1>3, <1>6
  <2>2. j * MSS <= k * MSS
    BY <1>0, <1>4, <2>1, CellsInOrder
  <2> QED BY <1>0, <1>1, <1>2, <1>3, <1>4, <1>5, <1>6, <2>2
<1>7. CASE d.seq + d.len = SRU + 1
  BY <1>0, <1>1, <1>2, <1>3, <1>4, <1>5, <1>7
<1> QED BY <1>1, <1>6, <1>7

\* Rounding up gives the beginning of the next cell
LEMMA RoundUpCell ==
  ASSUME NEW a \in Nat \ {0}
  PROVE  \E q \in Nat : /\ RoundUp(a) = q * MSS + 1
                        /\ q * MSS <= a - 2 + MSS /\ a - 2 + MSS < (q + 1) * MSS
<1> DEFINE n == a - 2 + MSS
           q == n \div MSS
<1>0. MSS \in Nat \ {0}
  BY AckHoldAssumption DEF AckHoldAssumption
<1>1. n \in Nat
  BY <1>0
<1>2. RoundUp(a) = q * MSS + 1
  BY DEF RoundUp
<1> HIDE DEF n
<1>3. q \in Nat /\ q * MSS <= n /\ n < (q + 1) * MSS
  BY <1>0, <1>1, SMTT(30)
<1> HIDE DEF q
<1> QED BY <1>2, <1>3 DEF n

-----------------------------------------------------------------------------
(* Sending *)

\* What foutput sends from the beginning of a cell is a cell, and the next
\* byte begins one
LEMMA EmitsCell ==
  ASSUME IsHA, SPA # 0, NEW s \in Nat \ {0}, NEW h \in 1..SRU+1, NEW w \in Nat,
         NEW top, Aligned(s), Emits(s, h, w, top)
  PROVE  IsCell(Segment(s, h, w)) /\ Aligned(s + Datalen(s, h, w))
<1> DEFINE len == Datalen(s, h, w)
<1>0. MSS \in Nat \ {0} /\ SRU \in Nat \ {0} /\ WND \in Nat /\ WND >= 2
  BY AckHoldAssumption DEF AckHoldAssumption
<1>1. len \in 1..MSS /\ s + len <= SRU + 1
  BY DatalenBound DEF Emits
<1>2. len = MSS \/ s + len > SRU \/ 2 * len >= WND * MSS
  BY Zenon DEF Emits
<1>3. Segment(s, h, w).seq = s /\ Segment(s, h, w).len = len
  BY DEF Segment
<1> HIDE DEF len
<1>4. len = MSS \/ s + len = SRU + 1
  <2>1. WND * MSS >= 2 * MSS
    BY <1>0, SMTT(30)
  <2>2. WND * MSS \in Nat
    BY <1>0, SMTT(30)
  <2> QED BY <1>0, <1>1, <1>2, <2>1, <2>2
<1>5. PICK k \in Nat : s = k * MSS + 1
  BY <1>0, <1>1 DEF Aligned
<1>6. k + 1 \in Nat /\ k * MSS \in Nat /\ (k + 1) * MSS = k * MSS + MSS
  BY <1>0, SMTT(30)
<1>7. Aligned(s + len)
  <2>1. CASE len = MSS
    <3>1. s + len = (k + 1) * MSS + 1
      BY <1>0, <1>5, <1>6, <2>1
    <3> QED BY <1>6, <3>1, Zenon DEF Aligned
  <2>2. CASE s + len = SRU + 1
    BY <1>0, <2>2 DEF Aligned
  <2> QED BY <1>4, <2>1, <2>2
<1>8. IsCell(Segment(s, h, w))
  BY <1>3, <1>4, <1>5, Zenon DEF IsCell
<1> QED BY <1>7, <1>8 DEF len

\* send_much from the beginning of a cell
LEMMA SendMuchCell ==
  ASSUME IsHA, SPA # 0, \A d \in data : IsCell(d),
         NEW t \in Nat \ {0}, Aligned(t), NEW h \in 1..SRU+1, NEW w \in Nat,
         NEW force, NEW maxburst, NEW timer,
         NEW sent, \A d \in sent : IsCell(d),
         SendMuch(t, h, w, force, maxburst, timer, sent)
  PROVE  Aligned(t_seqno') /\ \A d \in data' : IsCell(d)
<1>0. MSS \in Nat \ {0} /\ SRU \in Nat \ {0}
  BY AckHoldAssumption DEF AckHoldAssumption
<1>1. PICK n \in 0..SRU :
        /\ \A i \in 0..n-1 : Goes(t + i * MSS, t, h, w, force, Top(sent))
        /\ LET last == t + (n - 1) * MSS
           IN  t_seqno' = IF n = 0 THEN t ELSE last + Datalen(last, h, w)
        /\ data' = data \cup sent \cup {Segment(t + i * MSS, h, w) : i \in 0..n-1}
  BY DEF SendMuch
<1> DEFINE at(i) == t + i * MSS
<1>2. ASSUME NEW i \in 0..n-1
      PROVE  IsCell(Segment(at(i), h, w)) /\ Aligned(at(i) + Datalen(at(i), h, w))
  <2>1. PICK top : Emits(at(i), h, w, top)
    BY <1>1, <1>2 DEF Goes
  <2>2. i \in Nat /\ i * MSS \in Nat /\ at(i) \in Nat \ {0}
    <3>1. i \in Nat /\ i * MSS \in Nat
      BY <1>0, SMTT(30)
    <3> QED BY <3>1
  <2>3. Aligned(at(i))
    <3>1. CASE t > SRU
      <4>1. at(i) > SRU
        BY <1>0, <2>2, <3>1
      <4> QED BY <4>1, Zenon DEF Aligned
    <3>2. CASE \E k \in Nat : t = k * MSS + 1
      <4>1. PICK k \in Nat : t = k * MSS + 1
        BY <3>2
      <4>2. k + i \in Nat /\ (k + i) * MSS = k * MSS + i * MSS /\ k * MSS \in Nat
        BY <1>0, <2>2, SMTT(30)
      <4>3. at(i) = (k + i) * MSS + 1
        BY <2>2, <4>1, <4>2
      <4> QED BY <4>2, <4>3, Zenon DEF Aligned
    <3> QED BY <3>1, <3>2, Zenon DEF Aligned
  <2> HIDE DEF at
  <2> QED BY <2>1, <2>2, <2>3, EmitsCell
<1>3. Aligned(t_seqno')
  <2>1. CASE n = 0
    BY <1>1, <2>1
  <2>2. CASE n # 0
    <3>1. n - 1 \in 0..n-1
      BY <2>2
    <3>2. t_seqno' = at(n-1) + Datalen(at(n-1), h, w)
      BY <1>1, <2>2
    <3> HIDE DEF at
    <3> QED BY <1>2, <3>1, <3>2
  <2> QED BY <2>1, <2>2
<1>4. ASSUME NEW d \in data'
      PROVE  IsCell(d)
  <2>1. CASE d \in data \/ d \in sent
    BY <2>1
  <2>2. CASE \E i \in 0..n-1 : d = Segment(at(i), h, w)
    <3> HIDE DEF at
    <3> QED BY <1>2, <2>2
  <2> QED BY <1>1, <2>1, <2>2
<1> QED BY <1>3, <1>4

\* The points the server resumes from begin cells
LEMMA ResumeAligned ==
  ASSUME IsHA, NEW a \in Nat \ {0}
  PROVE  /\ RoundUp(a) \in Nat \ {0} /\ Aligned(RoundUp(a))
         /\ Resume(a) = RoundUp(a)
<1>1. Aligned(RoundUp(a))
  BY RoundUpCell, Zenon DEF Aligned
<1> QED BY <1>1, RoundUpType DEF Resume

\* fast_retransmit sends a cell
LEMMA RetransmissionCell ==
  ASSUME IsHA, SPA # 0, NEW h \in 1..SRU+1, NEW w \in Nat
  PROVE  \A d \in Retransmission(h, w) : IsCell(d)
<1>1. h \in Nat \ {0}
  BY AckHoldAssumption DEF AckHoldAssumption
<1>2. Resume(h) \in Nat \ {0} /\ Aligned(Resume(h))
  BY <1>1, ResumeAligned
<1>3. CASE Emits(Resume(h), h, w, maxseq)
  <2>1. IsCell(Segment(Resume(h), h, w))
    BY <1>2, <1>3, EmitsCell
  <2> QED BY <1>3, <2>1 DEF Retransmission
<1>4. CASE ~Emits(Resume(h), h, w, maxseq)
  BY <1>4 DEF Retransmission
<1> QED BY <1>3, <1>4

-----------------------------------------------------------------------------
(* The server *)

\* t_seqno_ after newack: rounded up, or at least AHBYTES above the
\* acknowledgement, where it was before
LEMMA NextSeqAligned ==
  ASSUME Inv, IsHA, Aligned(t_seqno), NEW a \in 1..SRU+1
  PROVE  NextSeq(a) \in Nat \ {0} /\ Aligned(NextSeq(a))
<1>1. t_seqno \in Nat \ {0} /\ a \in Nat \ {0} /\ AH \in Nat \ {0}
  BY InvNum, AckHoldAssumption DEF AckHoldAssumption
<1>2. RoundUp(a) \in Nat \ {0} /\ Aligned(RoundUp(a))
  BY <1>1, ResumeAligned
<1>3. NextSeq(a) = RoundUp(a) \/ NextSeq(a) = t_seqno
  BY <1>1 DEF NextSeq, MaxOf
<1> QED BY <1>1, <1>2, <1>3

\* What every handler of the server leaves behind
CellPost == Aligned(t_seqno') /\ \A d \in data' : IsCell(d)

\* send_much after any handler
LEMMA SendMuchAligned ==
  ASSUME CellInv, IsHA, SPA # 0,
         NEW t \in Nat \ {0}, Aligned(t), NEW h \in 1..SRU+1, NEW w \in Nat,
         NEW force, NEW maxburst, NEW timer, SendMuch(t, h, w, force, maxburst, timer, {})
  PROVE  CellPost
<1>1. \A d \in {} : IsCell(d)
  OBVIOUS
<1>2. \A d \in data : IsCell(d)
  BY Zenon DEF CellInv
<1> QED BY <1>1, <1>2, SendMuchCell DEF CellPost

\* timeout_action
LEMMA TimeoutCell ==
  ASSUME CellInv, IsHA, SPA # 0, NEW h \in 1..SRU+1, TimeoutAction(h)
  PROVE  CellPost
<1>0. SRU \in Nat \ {0} /\ MSS \in Nat \ {0} /\ h \in Nat \ {0}
  BY AckHoldAssumption DEF AckHoldAssumption
<1>1. CASE h > SRU
  <2>1. UNCHANGED <<t_seqno, data>>
    BY <1>1, Zenon DEF TimeoutAction
  <2> QED BY <2>1 DEF CellInv, CellPost
<1>2. CASE ~(h > SRU)
  <2> DEFINE t == IF h > 1 THEN Resume(h) ELSE h
  <2>1. SendMuch(t, h, 1, TRUE, MaxBurst, TRUE, {})
    BY <1>2, Zenon DEF TimeoutAction
  <2>2. t \in Nat \ {0} /\ Aligned(t)
    <3>1. CASE h > 1
      BY <1>0, <3>1, ResumeAligned
    <3>2. CASE ~(h > 1)
      <4>1. t = 0 * MSS + 1 /\ 0 \in Nat
        BY <1>0, <3>2
      <4>2. Aligned(t)
        BY <4>1, Zenon DEF Aligned
      <4> QED BY <1>0, <4>1, <4>2
    <3> QED BY <3>1, <3>2
  <2> HIDE DEF t
  <2> QED BY <2>1, <2>2, SendMuchAligned
<1> QED BY <1>1, <1>2

\* The reactions to an acknowledgement p
LEMMA AckCell ==
  ASSUME Inv, CellInv, IsHA, SPA # 0, NEW p \in acks, NEW keep, RecvAck(p, keep)
  PROVE  CellPost
<1>1. p.ackno \in 1..SRU+1 /\ highest_ack \in 1..SRU+1
  BY AckFacts, InvNum
<1>2. /\ cwnd \in Nat /\ t_seqno \in Nat \ {0} /\ cwnd \div 2 \in Nat
      /\ \A c \in 1..WND : c \in Nat
  BY InvNum, AckHoldAssumption DEF AckHoldAssumption
<1>3. NextSeq(p.ackno) \in Nat \ {0} /\ Aligned(NextSeq(p.ackno))
  BY <1>1, NextSeqAligned DEF CellInv
<1>4. Aligned(t_seqno) /\ \A d \in data : IsCell(d)
  BY Zenon DEF CellInv
<1>5. CASE PredictedAck(p)
  <2>1. SendMuch(NextSeq(p.ackno), p.ackno, cwnd, FALSE, MaxBurst, TRUE, {})
    BY <1>5, Zenon DEF PredictedAck
  <2> QED BY <1>1, <1>2, <1>3, <2>1, SendMuchAligned
<1>6. CASE RequestOption(p) \/ OneByteAck(p)
  <2>1. TimeoutAction(highest_ack) \/ TimeoutAction(p.ackno)
    BY <1>6, Zenon DEF RequestOption, OneByteAck
  <2> QED BY <1>1, <2>1, TimeoutCell
<1>7. CASE OldAck(p)
  <2>1. SendMuch(t_seqno, highest_ack, cwnd, FALSE, MaxBurst, rtx, {})
    BY <1>7, Zenon DEF OldAck
  <2> QED BY <1>1, <1>2, <1>4, <2>1, SendMuchAligned
<1>8. CASE DupAckCounted(p)
  <2>1. SendMuch(t_seqno, highest_ack, cwnd', FALSE, MaxBurst, rtx, {})
    BY <1>8, Zenon DEF DupAckCounted
  <2>2. cwnd' \in Nat
    BY <1>2, <1>8, DupAckCountedPost, Zenon DEF CtlPost, CtlNum
  <2> QED BY <1>1, <1>2, <1>4, <2>1, <2>2, SendMuchAligned
<1>9. CASE DupAckThreshold(p)
  <2>1. /\ UNCHANGED t_seqno
        /\ \/ data' = data \cup Retransmission(highest_ack, cwnd \div 2)
           \/ UNCHANGED data
    BY <1>9, Zenon DEF DupAckThreshold
  <2>2. \A d \in Retransmission(highest_ack, cwnd \div 2) : IsCell(d)
    BY <1>1, <1>2, RetransmissionCell
  <2>3. \A d \in data' : IsCell(d)
    BY <1>4, <2>1, <2>2, SMT
  <2> QED BY <1>4, <2>1, <2>3 DEF CellPost
<1>10. CASE PartialAck(p)
  <2>1. SendMuch(NextSeq(p.ackno), p.ackno, cwnd', FALSE, RecovBurst, TRUE,
                 Retransmission(p.ackno, cwnd))
    BY <1>10, Zenon DEF PartialAck
  <2>2. cwnd' \in Nat
    BY <1>2, <1>10, PartialPost, Zenon DEF CtlPost, CtlNum
  <2>3. \A d \in Retransmission(p.ackno, cwnd) : IsCell(d)
    BY <1>1, <1>2, RetransmissionCell
  <2> QED BY <1>1, <1>3, <1>4, <2>1, <2>2, <2>3, SendMuchCell, Zenon DEF CellPost
<1>11. CASE FullAck(p)
  <2>1. PICK f, tm : SendMuch(NextSeq(p.ackno), p.ackno, cwnd', f, 0, tm, {})
    BY <1>11, Zenon DEF FullAck
  <2>2. cwnd' \in Nat
    BY <1>2, <1>11, FullPost, Zenon DEF CtlPost, CtlNum
  <2> QED BY <1>1, <1>3, <2>1, <2>2, SendMuchAligned
<1> QED BY <1>5, <1>6, <1>7, <1>8, <1>9, <1>10, <1>11, Zenon DEF RecvAck

LEMMA ServerCell ==
  ASSUME Inv, CellInv, IsHA, SPA # 0, ServerNext
  PROVE  CellInv'
<1>1. CellPost
  <2>1. highest_ack \in 1..SRU+1 /\ cwnd \in Nat /\ t_seqno \in Nat \ {0}
    BY InvNum, AckHoldAssumption DEF AckHoldAssumption
  <2>2. CASE Start
    <3>1. SendMuch(t_seqno, highest_ack, cwnd, TRUE, 0, FALSE, {})
      BY <2>2, Zenon DEF Start
    <3> QED BY <2>1, <3>1, SendMuchAligned DEF CellInv
  <2>3. CASE Timeout
    <3>1. TimeoutAction(highest_ack)
      BY <2>3, Zenon DEF Timeout
    <3> QED BY <2>1, <3>1, TimeoutCell
  <2> QED BY <2>2, <2>3, AckCell, Zenon DEF ServerNext
<1>2. UNCHANGED <<rcv_nxt, rq>>
  BY ServerPost, Zenon
<1> QED BY <1>1, <1>2, Zenon DEF CellInv, CellPost, Have

-----------------------------------------------------------------------------
(* The client and the network *)

\* Whole cells added to whole cells
LEMMA WholeUnion ==
  ASSUME NEW S, NEW T, Whole(S), Whole(T)
  PROVE  Whole(S \cup T)
<1> SUFFICES ASSUME NEW k \in Nat, NEW b \in Cell(k), NEW c \in Cell(k),
                    b \in S \cup T, 1 <= c /\ c <= SRU
             PROVE  c \in S \cup T
  BY Zenon DEF Whole
<1>1. CASE b \in S
  BY <1>1, Zenon DEF Whole
<1>2. CASE b \in T
  BY <1>2, Zenon DEF Whole
<1> QED BY <1>1, <1>2

\* After a segment the client has what it had and the segment
LEMMA RecvDataHave ==
  ASSUME Inv, NEW d \in data, NEW keep, RecvData(d, keep)
  PROVE  Have' = Have \cup (d.seq..d.seq+d.len-1) /\ rcv_nxt' \notin rq'
<1> DEFINE end == d.seq + d.len
           got == rq \cup (MaxOf(d.seq, rcv_nxt)..end-1)
<1>1. PICK r \in rcv_nxt..SRU+1 :
        /\ NextExpected(r, got)
        /\ rcv_nxt' = r
        /\ rq' = {b \in got : b > r}
  BY Zenon DEF RecvData
<1>2. /\ SRU \in Nat /\ rcv_nxt \in 1..SRU+1 /\ r \in 1..SRU+1 /\ rcv_nxt <= r
      /\ rq \subseteq 1..SRU
  BY <1>1, RcvNum, AckHoldAssumption DEF AckHoldAssumption
<1>3. d.seq \in Nat \ {0} /\ end \in Int
  BY RcvNum, AckHoldAssumption DEF Seg, AckHoldAssumption
<1>4. rcv_nxt..r-1 \subseteq got /\ r \notin got
  BY <1>1, Zenon DEF NextExpected
<1> HIDE DEF end
<1>5. \A b \in got : b \in Int
  BY <1>2, <1>3 DEF MaxOf
<1>6. Have \cup (d.seq..end-1) = (1..rcv_nxt-1) \cup got
  <2>1. (1..rcv_nxt-1) \cup (d.seq..end-1)
          = (1..rcv_nxt-1) \cup (MaxOf(d.seq, rcv_nxt)..end-1)
    BY <1>2, <1>3 DEF MaxOf
  <2> QED BY <2>1 DEF Have
<1> HIDE DEF got
<1>7. Have' = (1..r-1) \cup {b \in got : b > r}
  BY <1>1, Zenon DEF Have
<1>8. (1..r-1) \cup {b \in got : b > r} = (1..rcv_nxt-1) \cup got
  <2>1. ASSUME NEW b \in 1..r-1
        PROVE  b \in (1..rcv_nxt-1) \cup got
    BY <1>2, <1>4
  <2>2. ASSUME NEW b \in 1..rcv_nxt-1
        PROVE  b \in 1..r-1
    BY <1>2
  <2>3. ASSUME NEW b \in got
        PROVE  b \in 1..r-1 \/ b > r \/ b < 1
    BY <1>2, <1>4, <1>5
  <2>4. ASSUME NEW b \in got PROVE b >= 1
    BY <1>2, <1>3 DEF got, MaxOf
  <2>5. ASSUME NEW b \in got PROVE b \in 1..r-1 \/ b > r
    BY <1>5, <2>3, <2>4
  <2> QED BY <2>1, <2>2, <2>5
<1>9. r \notin {b \in got : b > r}
  BY <1>4
<1>10. Have' = Have \cup (d.seq..d.seq+d.len-1)
  <2>1. Have' = Have \cup (d.seq..end-1)
    BY <1>6, <1>7, <1>8
  <2>2. d.seq \in Int /\ d.len \in Int
    BY RcvNum, AckHoldAssumption DEF Seg, AckHoldAssumption
  <2> QED BY <2>1, <2>2 DEF end
<1> QED BY <1>1, <1>9, <1>10, Zenon

LEMMA ClientCell ==
  ASSUME Inv, CellInv, ClientNext \/ LossNext
  PROVE  CellInv'
<1>1. t_seqno' = t_seqno /\ data' \subseteq data
  BY ClientPost, Zenon
<1>2. Aligned(t_seqno') /\ \A d \in data' : IsCell(d)
  BY <1>1, Zenon DEF CellInv
<1>3. Whole(Have') /\ rcv_nxt' \notin rq'
  <2>1. ASSUME NEW d \in data, NEW keep \in BOOLEAN, RecvData(d, keep)
        PROVE  Whole(Have') /\ rcv_nxt' \notin rq'
    <3>1. d \in Seg /\ IsCell(d) /\ Whole(Have)
      BY RcvNum, Zenon DEF CellInv
    <3>2. Whole(d.seq..d.seq+d.len-1)
      BY <3>1, SegmentWhole
    <3> QED BY <2>1, <3>1, <3>2, RecvDataHave, WholeUnion
  <2>2. CASE UNCHANGED <<rcv_nxt, rq>>
    BY <2>2, Zenon DEF CellInv, Have
  <2>3. CASE DelAckTimer \/ Activate \/ ReqRtx
    BY <2>2, <2>3, Zenon DEF DelAckTimer, Activate, ReqRtx
  <2>4. CASE LossNext
    BY <2>2, <2>4, Zenon DEF LossNext, LoseData, LoseAck, rcvVars
  <2> QED BY <2>1, <2>3, <2>4, Zenon DEF ClientNext
<1> QED BY <1>2, <1>3, Zenon DEF CellInv

-----------------------------------------------------------------------------
(* The theorem *)

LEMMA InitCell ==
  ASSUME Init
  PROVE  CellInv
<1>1. t_seqno = 0 * MSS + 1 /\ 0 \in Nat
  BY AckHoldAssumption DEF Init, AckHoldAssumption
<1>2. Aligned(t_seqno)
  BY <1>1, Zenon DEF Aligned
<1>3. Have = {} /\ rcv_nxt \notin rq
  BY DEF Init, Have
<1>4. Whole(Have)
  BY <1>3, Zenon DEF Whole
<1>5. \A d \in data : IsCell(d)
  BY DEF Init
<1> QED BY <1>2, <1>3, <1>4, <1>5 DEF CellInv

\* A client that has whole cells misses nothing below the point resumed from
LEMMA CellsSuffice ==
  ASSUME Inv, IsHA, CellInv
  PROVE  ResumeSafe
<1> SUFFICES ASSUME NEW b \in 1..SRU, b < Resume(highest_ack), b >= rcv_nxt
             PROVE  FALSE
  <2>1. rcv_nxt \in Int
    BY RcvNum, AckHoldAssumption DEF AckHoldAssumption
  <2> QED BY <2>1 DEF ResumeSafe
<1>0. MSS \in Nat \ {0} /\ SRU \in Nat \ {0}
  BY AckHoldAssumption DEF AckHoldAssumption
<1>1. /\ highest_ack \in Nat \ {0} /\ rcv_nxt \in 1..SRU+1
      /\ highest_ack <= rcv_nxt
  BY <1>0, InvNum, RcvNum
<1>2. PICK q \in Nat : /\ RoundUp(highest_ack) = q * MSS + 1
                       /\ q * MSS <= highest_ack - 2 + MSS
  BY <1>1, RoundUpCell
<1>3. q * MSS \in Nat
  BY <1>0, SMTT(30)
<1>4. rcv_nxt <= q * MSS
  <2>1. b < q * MSS + 1
    BY <1>1, <1>2, ResumeAligned
  <2> QED BY <1>1, <1>3, <2>1
<1>5. q # 0
  <2>1. 0 * MSS = 0
    BY <1>0
  <2> QED BY <1>1, <1>4, <2>1
<1>6. q - 1 \in Nat /\ (q - 1) * MSS = q * MSS - MSS /\ (q - 1 + 1) * MSS = q * MSS
      /\ (q - 1) * MSS \in Nat
  BY <1>0, <1>3, <1>5, SMTT(30)
<1>7. highest_ack - 1 \in Cell(q - 1) /\ rcv_nxt \in Cell(q - 1)
  BY <1>0, <1>1, <1>2, <1>3, <1>4, <1>6 DEF Cell
<1>8. highest_ack - 1 \in Have
  <2>1. highest_ack - 1 >= 1
    BY <1>6, <1>7 DEF Cell
  <2> QED BY <1>1, <2>1 DEF Have
<1>9. rcv_nxt \in Have
  <2>1. 1 <= rcv_nxt /\ rcv_nxt <= SRU
    BY <1>0, <1>1
  <2> QED BY <1>6, <1>7, <1>8, <2>1, Zenon DEF CellInv, Whole
<1> QED BY <1>1, <1>9 DEF Have, CellInv

\* However losses, requests, reordering and duplication fall, the server
\* resumes at no byte beyond one the client misses (timeout_action, newack and
\* fast_retransmit round up), if foutput sends no segment for need_send alone.
THEOREM ResumesSafely == SPA # 0 /\ Spec => []ResumeSafe
<1>1. CASE IsHA /\ SPA # 0
  <2>1. ASSUME Inv, CellInv, [Next]_vars
        PROVE  CellInv'
    <3>1. CASE UNCHANGED vars
      BY <2>1, <3>1, Zenon DEF vars, sendVars, rcvVars, CellInv, Have
    <3> QED BY <1>1, <2>1, <3>1, ServerCell, ClientCell, Zenon DEF Next
  <2>2. Inv /\ CellInv => ResumeSafe
    BY <1>1, CellsSuffice
  <2> QED BY <2>1, <2>2, InitCell, Invariance, PTL DEF Spec
<1>2. CASE ~IsHA
  <2>1. Inv => ResumeSafe
    <3> SUFFICES ASSUME Inv PROVE ResumeSafe
      OBVIOUS
    <3>1. rcv_nxt \in Int /\ highest_ack \in Int /\ highest_ack <= rcv_nxt
      BY InvNum, RcvNum, AckHoldAssumption DEF AckHoldAssumption
    <3>2. Resume(highest_ack) = highest_ack
      BY <1>2 DEF Resume
    <3> QED BY <3>1, <3>2 DEF ResumeSafe
  <2> QED BY <2>1, Invariance, PTL
<1> QED BY <1>1, <1>2
=============================================================================
