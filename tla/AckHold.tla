------------------------------- MODULE AckHold -------------------------------
(***************************************************************************)
(* One block transfer between a server (a FullTcpAgent/NewReno sender) and  *)
(* a client (a listening FullTcpAgent), after the handshake, with the       *)
(* AckHolding extension of tcp-full.cc: while the block is incomplete the   *)
(* client acknowledges AH bytes less than it has, so that it can later ask  *)
(* for a retransmission by acknowledging one held byte.  The server rounds  *)
(* such an odd acknowledgement up to a segment boundary before it resumes.  *)
(*                                                                          *)
(* Sequence numbers are those of the code: the SYN is 0, the block is the   *)
(* bytes 1..SRU (curseq_ = sru_bytes_ = SRU).  A handler is one step.       *)
(* Packets in flight are a set per direction: identical packets are one     *)
(* element, so a delivery may leave the element in place (another copy is   *)
(* still in flight).  cwnd_ is an integer saturated at the advertised       *)
(* window; fractional growth is a choice between growing and staying.       *)
(* Time is abstracted: a pending retransmission timer may fire at any time. *)
(***************************************************************************)
EXTENDS Integers, FiniteSets

CONSTANTS
  MSS,         \* maxseg_, bytes per full segment
  AH,          \* AHBYTES, bytes the client holds back
  SRU,         \* bytes of the block, sru_bytes_ and curseq_
  WND,         \* wnd_, advertised window in segments
  SPA,         \* segs_per_ack_
  Thresh,      \* tcprexmtthresh_
  RecovBurst,  \* recov_maxburst_
  IsHA,        \* is_ha_
  IsRtxReq,    \* is_rtxreq_
  NoDelay,     \* nodelay_
  DelAck,      \* interval_ > 0: there is a delayed-ack timer
  MaxDrops     \* bound: how many packets the network may lose

ASSUME AckHoldAssumption ==
  /\ MSS \in Nat \ {0} /\ AH \in Nat \ {0} /\ SRU \in Nat \ {0}
  /\ WND \in Nat /\ WND >= 2
  /\ SPA \in Nat /\ Thresh \in Nat \ {0} /\ RecovBurst \in Nat \ {0}
  /\ IsHA \in BOOLEAN /\ IsRtxReq \in BOOLEAN /\ NoDelay \in BOOLEAN
  /\ DelAck \in BOOLEAN /\ MaxDrops \in Nat

VARIABLES
  t_seqno, maxseq, highest_ack,   \* server: next to send, top sent, acked
  rtx,                            \* server: retransmission timer pending
  cwnd, dupacks,                  \* server: window (segments), dup ack count
  fastrecov, recover, lastdup,    \* server: fast recovery, its target, and
                                  \*   last_cwnd_action_ = CWND_ACTION_DUPACK
  limited,                        \* server: maxburst_ is recov_maxburst_
  rcv_nxt, rq,                    \* client: next expected, bytes queued above
  last_ack_sent,                  \* client: highest_ack_sent_
  delack,                         \* client: TF_DELACK
  data, acks,                     \* network: segments and acknowledgements
  drops                           \* network: packets lost so far

sendVars == <<t_seqno, maxseq, rtx, data>>
ctlVars  == <<highest_ack, cwnd, dupacks, fastrecov, recover, lastdup, limited>>
rcvVars  == <<rcv_nxt, rq, last_ack_sent, delack>>
vars     == <<sendVars, ctlVars, rcvVars, acks, drops>>

MinOf(a, b) == IF a <= b THEN a ELSE b
MaxOf(a, b) == IF a >= b THEN a ELSE b

Seg == [seq : 1..SRU, len : 1..MSS]
Ack == [ackno : 1..SRU+1, rtxreq : BOOLEAN]

-----------------------------------------------------------------------------
(* Sending: foutput, send_allowed and send_much at the server *)

\* Mutant of RoundUp: the SYN's sequence number is forgotten
RoundUpNoSyn(a) == ((a - 1 + MSS) \div MSS) * MSS + 1

\* ceil((a - 1) / maxseg_) * maxseg_ + 1
RoundUp(a) == ((a - 2 + MSS) \div MSS) * MSS + 1

\* The byte a retransmission starts from
Resume(h) == IF IsHA THEN RoundUp(h) ELSE h

\* foutput's datalen for a segment at s, with ack point h and window w
Datalen(s, h, w) ==
  LET buffered == SRU - h + 1
      off      == s - h
      len      == MaxOf(0, MinOf(MinOf(buffered, w * MSS) - off, MSS))
  IN  IF IsHA /\ len # 0 /\ buffered - off > MSS THEN MSS ELSE len

Segment(s, h, w) == [seq |-> s, len |-> Datalen(s, h, w)]

\* foutput sends the segment (silly window avoidance) when maxseq_ is top; the
\* server's own rcv_nxt_ equals its last_ack_sent_, so need_send() holds only
\* for SPA = 0
Emits(s, h, w, top) ==
  LET len == Datalen(s, h, w)
  IN  /\ len > 0
      /\ \/ len = MSS
         \/ (h = top \/ NoDelay) /\ s + len > SRU
         \/ s < top /\ ~IsHA
         \/ 2 * len >= WND * MSS
         \/ SPA = 0

\* send_allowed: s is below the data and below the window
InWindow(s, h, w) == s < MinOf(SRU, h + w * MSS)

\* send_much goes on with the segment at s, having started at t
Goes(s, t, h, w, force, top) ==
  /\ InWindow(s, h, w) \/ (force /\ s = t)
  /\ Emits(s, h, w, IF s = t THEN top ELSE MaxOf(top, s))

\* maxseq_ after the segments of sent, at most one, have been emitted
Top(sent) ==
  IF sent = {} THEN maxseq
  ELSE LET d == CHOOSE d \in sent : TRUE IN MaxOf(maxseq, d.seq + d.len)

\* Mutant of SendMuch: sending does not start the retransmission timer
SendMuchNoTimer(t, h, w, force, maxburst, timer, sent) ==
  \E n \in 0..SRU :
    /\ \A i \in 0..n-1 : Goes(t + i * MSS, t, h, w, force, Top(sent))
    /\ maxburst > 0 => n <= maxburst
    /\ \/ maxburst > 0 /\ n = maxburst
       \/ ~Goes(t + n * MSS, t, h, w, force, Top(sent))
    /\ LET last == t + (n - 1) * MSS
       IN  t_seqno' = IF n = 0 THEN t ELSE last + Datalen(last, h, w)
    /\ maxseq' = IF n = 0 THEN Top(sent) ELSE MaxOf(Top(sent), t_seqno')
    /\ rtx' = timer
    /\ data' = data \cup sent \cup {Segment(t + i * MSS, h, w) : i \in 0..n-1}

\* send_much from sequence number t: consecutive segments until one is not
\* allowed or not worth sending, or maxburst (0: none) is reached.  "sent" is
\* what the handler has emitted before.
SendMuch(t, h, w, force, maxburst, timer, sent) ==
  \E n \in 0..SRU :
    /\ \A i \in 0..n-1 : Goes(t + i * MSS, t, h, w, force, Top(sent))
    /\ maxburst > 0 => n <= maxburst
    /\ \/ maxburst > 0 /\ n = maxburst
       \/ ~Goes(t + n * MSS, t, h, w, force, Top(sent))
    /\ LET last == t + (n - 1) * MSS
       IN  t_seqno' = IF n = 0 THEN t ELSE last + Datalen(last, h, w)
    /\ maxseq' = IF n = 0 THEN Top(sent) ELSE MaxOf(Top(sent), t_seqno')
    /\ rtx' = (timer \/ n > 0)
    /\ data' = data \cup sent \cup {Segment(t + i * MSS, h, w) : i \in 0..n-1}

MaxBurst == IF limited THEN RecovBurst ELSE 0

\* The handling of the SYN-ACK ends with a forced send_much
Start ==
  /\ maxseq = 1
  /\ SendMuch(t_seqno, highest_ack, cwnd, TRUE, 0, FALSE, {})
  /\ UNCHANGED <<ctlVars, rcvVars, acks, drops>>

-----------------------------------------------------------------------------
(* The server's reaction to timeouts and acknowledgements *)

RecoverPoint == IF IsHA THEN maxseq - AH ELSE maxseq

\* timeout_action, with h the acknowledged point
TimeoutAction(h) ==
  /\ highest_ack' = h
  /\ recover' = RecoverPoint
  /\ IF h > SRU
     THEN /\ rtx' = FALSE
          /\ UNCHANGED <<t_seqno, maxseq, data, cwnd, dupacks, fastrecov, lastdup>>
     ELSE /\ cwnd' = 1
          /\ dupacks' = 0
          /\ fastrecov' = FALSE
          /\ lastdup' = FALSE
          /\ SendMuch(IF h > 1 THEN Resume(h) ELSE h, h, 1, TRUE, MaxBurst, TRUE, {})
  /\ UNCHANGED limited

Timeout ==
  /\ rtx
  /\ TimeoutAction(highest_ack)
  /\ UNCHANGED <<rcvVars, acks, drops>>

\* t_seqno_ after newack has moved highest_ack_ to a
NextSeq(a) ==
  LET t == MaxOf(t_seqno, a)
  IN  IF IsHA /\ t < a + AH THEN RoundUp(a) ELSE t

\* fast_retransmit: the segment sent, if any, with ack point h and window w
Retransmission(h, w) ==
  IF Emits(Resume(h), h, w, maxseq) THEN {Segment(Resume(h), h, w)} ELSE {}

\* Header prediction: a new ack while the window is fully open
Predicted(p) ==
  /\ t_seqno = maxseq
  /\ highest_ack < p.ackno /\ p.ackno < maxseq
  /\ cwnd = WND /\ ~fastrecov

PredictedAck(p) ==
  /\ Predicted(p)
  /\ highest_ack' = p.ackno
  /\ SendMuch(NextSeq(p.ackno), p.ackno, cwnd, FALSE, MaxBurst, TRUE, {})
  /\ UNCHANGED <<cwnd, dupacks, fastrecov, recover, lastdup, limited>>

\* The RTXREQ option forces a timeout
RequestOption(p) ==
  /\ ~Predicted(p) /\ p.rtxreq
  /\ TimeoutAction(highest_ack)

\* An ack of exactly one byte is taken for a retransmission request
IsOneByte(p) == IsHA /\ ~p.rtxreq /\ p.ackno = highest_ack + 1

OneByteAck(p) ==
  /\ ~Predicted(p) /\ IsOneByte(p)
  /\ TimeoutAction(p.ackno)

Ordinary(p) == ~Predicted(p) /\ ~p.rtxreq /\ ~IsOneByte(p)

\* oldack: below the ack point, or no timer pending
OldAck(p) ==
  /\ Ordinary(p) /\ p.ackno <= highest_ack
  /\ ~rtx \/ p.ackno < highest_ack
  /\ dupacks' = 0
  /\ SendMuch(t_seqno, highest_ack, cwnd, FALSE, MaxBurst, rtx, {})
  /\ UNCHANGED <<highest_ack, cwnd, fastrecov, recover, lastdup, limited>>

IsDup(p) == Ordinary(p) /\ p.ackno = highest_ack /\ rtx

\* Below the threshold the duplicate is counted; above it the window grows.
\* Bound: the count saturates at Thresh + 1, only its comparison with Thresh
\* is ever used again.
DupAckCounted(p) ==
  /\ IsDup(p) /\ dupacks + 1 # Thresh
  /\ dupacks' = MinOf(dupacks + 1, Thresh + 1)
  /\ cwnd' = IF dupacks + 1 > Thresh THEN MinOf(cwnd + 1, WND) ELSE cwnd
  /\ SendMuch(t_seqno, highest_ack, cwnd', FALSE, MaxBurst, rtx, {})
  /\ UNCHANGED <<highest_ack, fastrecov, recover, lastdup, limited>>

\* dupack_action with bug_fix_ and without ECN: at most one fast retransmit
\* per window, out of a halved window
DupAckThreshold(p) ==
  /\ IsDup(p) /\ dupacks + 1 = Thresh
  /\ dupacks' = Thresh
  /\ fastrecov' = TRUE
  /\ IF highest_ack > recover \/ lastdup
     THEN LET half == cwnd \div 2
              sent == Retransmission(highest_ack, half)
          IN  /\ data' = data \cup sent
              /\ rtx' = (sent # {})
              /\ maxseq' = Top(sent)
              /\ recover' = RecoverPoint
              /\ lastdup' = TRUE
              /\ cwnd' = MinOf(WND, MaxOf(half, 2) + Thresh)
     ELSE UNCHANGED <<data, rtx, maxseq, recover, lastdup, cwnd>>
  /\ UNCHANGED <<t_seqno, highest_ack, limited>>

IsFresh(p) == Ordinary(p) /\ highest_ack < p.ackno /\ p.ackno <= maxseq
IsPartial(p) == fastrecov /\ p.ackno < recover

\* A partial ack in NewReno: fast_retransmit, the window back to ssthresh_,
\* bursts limited until recovery ends, then send_much
PartialAck(p) ==
  /\ IsFresh(p) /\ IsPartial(p)
  /\ highest_ack' = p.ackno
  /\ recover' = RecoverPoint
  /\ lastdup' = TRUE
  /\ limited' = TRUE
  /\ cwnd' \in 2..WND
  /\ SendMuch(NextSeq(p.ackno), p.ackno, cwnd', FALSE, RecovBurst, TRUE,
              Retransmission(p.ackno, cwnd))
  /\ UNCHANGED <<dupacks, fastrecov>>

\* Values of cwnd_ after ack_action and opencwnd (ssthresh_ is at least 2)
Opened == IF fastrecov THEN 2..WND
          ELSE {c \in 2..WND : cwnd <= c /\ c <= cwnd + 1}

FullAck(p) ==
  /\ IsFresh(p) /\ ~IsPartial(p)
  /\ highest_ack' = p.ackno
  /\ dupacks' = 0
  /\ fastrecov' = FALSE
  /\ limited' = FALSE
  /\ cwnd' \in Opened
  /\ SendMuch(NextSeq(p.ackno), p.ackno, cwnd', p.ackno = maxseq, 0,
              p.ackno # maxseq, {})
  /\ UNCHANGED <<recover, lastdup>>

\* An acknowledgement reaches the server after the SYN-ACK has (Start)
RecvAck(p, keep) ==
  /\ p \in acks /\ maxseq > 1
  /\ \/ PredictedAck(p) \/ RequestOption(p) \/ OneByteAck(p) \/ OldAck(p)
     \/ DupAckCounted(p) \/ DupAckThreshold(p) \/ PartialAck(p) \/ FullAck(p)
  /\ acks' = IF keep THEN acks ELSE acks \ {p}
  /\ UNCHANGED <<rcvVars, drops>>

-----------------------------------------------------------------------------
(* The client *)

\* Mutant of HeldAck: the held acknowledgement may fall behind the last one
HeldAckNoFloor(r) == IF IsHA /\ r < SRU THEN r - AH ELSE r

\* Mutant of HeldAck: bytes are held back even when the block is complete
HeldAckAlways(r) == IF IsHA THEN MaxOf(r - AH, last_ack_sent) ELSE r

\* The acknowledgement foutput puts into a packet when rcv_nxt_ is r
HeldAck(r) ==
  IF IsHA /\ r < SRU THEN MaxOf(r - AH, last_ack_sent) ELSE r

SendAck(r) ==
  /\ last_ack_sent' = HeldAck(r)
  /\ acks' = acks \cup {[ackno |-> HeldAck(r), rtxreq |-> FALSE]}
  /\ delack' = FALSE

\* r is the first byte at or above rcv_nxt that is not in got
NextExpected(r, got) ==
  /\ r \in rcv_nxt..SRU+1
  /\ rcv_nxt..r-1 \subseteq got
  /\ r \notin got

\* In-order data with an empty queue may wait for need_send or the delayed-ack
\* timer; duplicates and out-of-order data are acknowledged at once
RecvData(d, keep) ==
  LET end     == d.seq + d.len
      got     == rq \cup (MaxOf(d.seq, rcv_nxt)..end-1)
      inorder == d.seq <= rcv_nxt /\ rcv_nxt < end /\ rq = {}
  IN  /\ d \in data
      /\ \E r \in rcv_nxt..SRU+1 :
           /\ NextExpected(r, got)
           /\ rcv_nxt' = r
           /\ rq' = {b \in got : b > r}
           /\ IF inorder /\ r - last_ack_sent < SPA * MSS
              THEN delack' = TRUE /\ UNCHANGED <<last_ack_sent, acks>>
              ELSE SendAck(r)
      /\ data' = IF keep THEN data ELSE data \ {d}
      /\ UNCHANGED <<t_seqno, maxseq, rtx, ctlVars, drops>>

DelAckTimer ==
  /\ DelAck /\ delack
  /\ SendAck(rcv_nxt)
  /\ UNCHANGED <<sendVars, ctlVars, rcv_nxt, rq, drops>>

\* The "active" command of the client's agent sends an acknowledgement
Activate ==
  /\ SendAck(rcv_nxt)
  /\ UNCHANGED <<sendVars, ctlVars, rcv_nxt, rq, drops>>

\* Mutant of ReqRtx: the test for held bytes is dropped
ReqRtxUnguarded ==
  /\ rcv_nxt < SRU /\ IsHA
  /\ last_ack_sent' = last_ack_sent + 1
  /\ acks' = acks \cup {[ackno |-> last_ack_sent + 1, rtxreq |-> FALSE]}
  /\ UNCHANGED <<sendVars, ctlVars, rcv_nxt, rq, delack, drops>>

\* request_retransmission, called by the controller on an incomplete block
ReqRtx ==
  /\ rcv_nxt < SRU
  /\ \/ /\ IsHA /\ last_ack_sent < rcv_nxt - 1
        /\ last_ack_sent' = last_ack_sent + 1
        /\ acks' = acks \cup {[ackno |-> last_ack_sent + 1, rtxreq |-> FALSE]}
     \/ /\ ~IsHA /\ IsRtxReq
        /\ acks' = acks \cup {[ackno |-> last_ack_sent, rtxreq |-> TRUE]}
        /\ UNCHANGED last_ack_sent
  /\ UNCHANGED <<sendVars, ctlVars, rcv_nxt, rq, delack, drops>>

-----------------------------------------------------------------------------
(* The network *)

LoseData(d) ==
  /\ d \in data /\ drops < MaxDrops
  /\ data' = data \ {d}
  /\ drops' = drops + 1
  /\ UNCHANGED <<t_seqno, maxseq, rtx, ctlVars, rcvVars, acks>>

LoseAck(p) ==
  /\ p \in acks /\ drops < MaxDrops
  /\ acks' = acks \ {p}
  /\ drops' = drops + 1
  /\ UNCHANGED <<sendVars, ctlVars, rcvVars>>

-----------------------------------------------------------------------------
Init ==
  /\ t_seqno = 1 /\ maxseq = 1 /\ highest_ack = 1
  /\ rtx = FALSE /\ cwnd = 2 /\ dupacks = 0
  /\ fastrecov = FALSE /\ recover = 0 /\ lastdup = FALSE /\ limited = FALSE
  /\ rcv_nxt = 1 /\ rq = {} /\ last_ack_sent = 1 /\ delack = FALSE
  /\ data = {} /\ acks = {} /\ drops = 0

ServerNext == Start \/ Timeout \/ \E p \in acks, keep \in BOOLEAN : RecvAck(p, keep)
ClientNext == \/ \E d \in data, keep \in BOOLEAN : RecvData(d, keep)
              \/ DelAckTimer \/ Activate \/ ReqRtx
LossNext   == (\E d \in data : LoseData(d)) \/ (\E p \in acks : LoseAck(p))

Next == ServerNext \/ ClientNext \/ LossNext

Spec == Init /\ [][Next]_vars

\* The scheduler of the simulator runs every pending event: packets arrive and
\* timers fire.  The commands Activate and ReqRtx are never forced.
Fairness ==
  /\ WF_vars(Start) /\ WF_vars(Timeout) /\ WF_vars(DelAckTimer)
  /\ \A d \in Seg : WF_vars(RecvData(d, FALSE))
  /\ \A p \in Ack : WF_vars(RecvAck(p, FALSE))

FairSpec == Spec /\ Fairness

-----------------------------------------------------------------------------
(* Properties *)

\* Type correctness.  recover_ is maxseq_ less the held bytes, so it may be
\* negative.
TypeOK ==
  /\ t_seqno \in Nat \ {0} /\ maxseq \in 1..SRU+1 /\ highest_ack \in 1..SRU+1
  /\ rtx \in BOOLEAN /\ cwnd \in 1..WND /\ dupacks \in 0..Thresh+1
  /\ fastrecov \in BOOLEAN /\ lastdup \in BOOLEAN /\ limited \in BOOLEAN
  /\ recover \in Int
  /\ rcv_nxt \in 1..SRU+1 /\ rq \subseteq 1..SRU
  /\ last_ack_sent \in 1..SRU+1 /\ delack \in BOOLEAN
  /\ data \subseteq Seg /\ acks \subseteq Ack /\ drops \in 0..MaxDrops

\* The server never believes more than the client has: what it takes for
\* acknowledged was acknowledged, what was acknowledged was received, and what
\* was received was sent, whatever is lost, duplicated or reordered
\* (foutput's held ackno, request_retransmission, newack).
AckOrder ==
  /\ highest_ack <= last_ack_sent /\ last_ack_sent <= rcv_nxt
  /\ rcv_nxt <= maxseq
  /\ \A p \in acks : p.ackno <= last_ack_sent

\* The point from which the server would retransmit, an acknowledgement rounded
\* up to a segment boundary, never lies beyond a byte the client misses
\* (timeout_action, newack and fast_retransmit of an AckHolding server).
ResumeSafe == \A b \in 1..SRU : b < Resume(highest_ack) => b < rcv_nxt

\* There is a byte to ask with: one that is received, not acknowledged, and not
\* the last one received
CanAsk == last_ack_sent < rcv_nxt - 1

\* A request spends one held byte, and the last one is never spent, so a client
\* may run out of bytes to ask with.  But only its own requests take the ability
\* to ask away, no acknowledgement that foutput or the delayed-ack timer sends
\* does, and however often it has asked, bytes that arrive in order give it back,
\* while two or more are missing (foutput and request_retransmission together;
\* with AHBYTES of 1 an acknowledgement leaves nothing to ask with).
AsksAgain ==
  [][/\ IsHA /\ AH > 1 /\ 2 < rcv_nxt' /\ rcv_nxt' < SRU
     /\ rcv_nxt < rcv_nxt' \/ CanAsk
     => CanAsk' \/ ReqRtx]_vars

\* A held acknowledgement never takes back an earlier one, at either end
\* (foutput's test of highest_ack_sent_).
AcksNeverRetreat ==
  [][last_ack_sent' >= last_ack_sent /\ highest_ack' >= highest_ack]_vars

\* The transfer is a block transfer: bytes are handed over once and in order,
\* and only bytes handed over are taken for acknowledged.
BT == INSTANCE BlockTransfer WITH N <- SRU, got <- rcv_nxt - 1,
                                  acked <- highest_ack - 1
ImplementsBlockTransfer == BT!Spec

\* The whole block is received and the server learns so, in spite of MaxDrops
\* losses.
AllAcked == <>[](rcv_nxt = SRU + 1 /\ highest_ack = SRU + 1)
=============================================================================
