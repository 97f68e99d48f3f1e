----------------------------- MODULE Connection ------------------------------
(***************************************************************************)
(* Two FullTcp agents that open a connection, exchange data and close it    *)
(* over links that lose packets but keep their order: connect and listen,   *)
(* the SYN states of recv, the closing states, usrclosed, the timer and the *)
(* output routine foutput with the flags of each state.  AckHold has the    *)
(* transfer between open and close in detail; here the data of an end is a  *)
(* few segments.                                                            *)
(*                                                                          *)
(* The state of an agent is a record, and an operator that stands for a     *)
(* function of the agent takes the record before and gives the record       *)
(* after; "out" collects what was sent meanwhile.                           *)
(***************************************************************************)
EXTENDS Integers, Sequences, FiniteSets, SequencesExt, ReassemblyQueue

CONSTANTS
  MSS,       \* maxseg_
  Data,      \* Data[e]: bytes the application at e has to send
  Calls,     \* bound: Calls[e] times it calls sendmsg
  SPA,       \* segs_per_ack_
  Thresh,    \* tcprexmtthresh_
  MaxDrops,  \* bound: packets of one end that are lost
  MaxEarly,  \* bound: timers that fire although an answer is on its way
  CloseIn    \* the states in which an application may call close

ASSUME ConnectionAssumption ==
  /\ MSS \in Nat \ {0} /\ SPA \in Nat
  /\ Data \in [{"A", "B"} -> Nat] /\ Calls \in [{"A", "B"} -> Nat]
  /\ Thresh \in Nat \ {0} /\ MaxDrops \in Nat /\ MaxEarly \in Nat

VARIABLES
  conn,      \* the agents
  net,       \* net[e]: packets on their way to e
  calls,     \* how often the application of an end has called sendmsg
  drops,     \* how many packets of an end were lost
  early      \* how many timers have fired early

vars == <<conn, net, calls, drops, early>>

End == {"A", "B"}
Peer(e) == IF e = "A" THEN "B" ELSE "A"

ISS == 0

MinOf(a, b) == IF a <= b THEN a ELSE b
MaxOf(a, b) == IF a >= b THEN a ELSE b

Packet(seq, ackno, len, flags) ==
  [seq |-> seq, ackno |-> ackno, len |-> len,
   syn |-> "SYN" \in flags, fin |-> "FIN" \in flags, ack |-> "ACK" \in flags]

-----------------------------------------------------------------------------
(* Output *)

outflags(state) ==
  CASE state = "SYN_SENT"     -> {"SYN"}
    [] state = "SYN_RECEIVED" -> {"SYN", "ACK"}
    [] state \in {"FIN_WAIT_1", "CLOSING", "LAST_ACK"} -> {"FIN", "ACK"}
    [] state \in {"CLOSED", "ESTABLISHED", "CLOSE_WAIT", "FIN_WAIT_2"} -> {"ACK"}
    [] OTHER -> {}

rcv_nxt(c) == c.rq.nxt

NeedSend(c) == c.acknow \/ rcv_nxt(c) - c.last_ack_sent >= SPA * MSS

\* foutput: what is buffered at and beyond seq, cut to the window and a segment
Datalen(c, seq) ==
  LET buffered == IF c.highest_ack < 0 THEN c.curseq - ISS
                  ELSE c.curseq - c.highest_ack + 1
      off      == IF c.highest_ack < 0 THEN seq - ISS ELSE seq - c.highest_ack
  IN  IF seq = ISS THEN 0
      ELSE MinOf(MSS, MaxOf(0, MinOf(buffered, c.cwnd * MSS) - off))

Emptying(c, seq) == seq + Datalen(c, seq) > c.curseq \/ seq = ISS

Quiet(c) == c.highest_ack = c.maxseq

\* close_on_empty_: the buffer is emptied while nothing is outstanding
NeedClose(c, seq) ==
  c.close_on_empty /\ Quiet(c) /\ seq # ISS /\ Emptying(c, seq)

\* The flags of the state, FIN only behind the last byte
PacketFlags(c, seq) ==
  IF Emptying(c, seq) THEN outflags(c.state) ELSE outflags(c.state) \ {"FIN"}

\* Silly window avoidance, owed acknowledgements and control packets
Emits(c, seq) ==
  \/ /\ Datalen(c, seq) > 0
     /\ \/ Datalen(c, seq) = MSS
        \/ Quiet(c) /\ Emptying(c, seq)
        \/ seq < c.maxseq
  \/ NeedSend(c) \/ NeedClose(c, seq)
  \/ PacketFlags(c, seq) \cap {"SYN", "FIN"} # {}

Sendpacket(c, p) ==
  [c EXCEPT !.out = Append(@, p), !.last_ack_sent = p.ackno]

\* foutput when it sends: the packet, and what it leaves outstanding
Closes(c, seq) ==
  /\ NeedClose(c, seq)
  /\ c.state \in {"LISTEN", "SYN_SENT", "SYN_RECEIVED", "ESTABLISHED"}
Flags(c, seq) ==
  IF Closes(c, seq) THEN PacketFlags(c, seq) \cup {"FIN"} ELSE PacketFlags(c, seq)
Reliable(c, seq) ==
  Datalen(c, seq) + Cardinality(Flags(c, seq) \cap {"SYN", "FIN"})
Emit(c, seq) ==
  [Sendpacket(c, Packet(seq, rcv_nxt(c), Datalen(c, seq), Flags(c, seq))) EXCEPT
     !.state  = IF Closes(c, seq) THEN "FIN_WAIT_1" ELSE @,
     !.acknow = FALSE, !.delack = FALSE,
     !.maxseq = MaxOf(@, seq + Reliable(c, seq)),
     !.rtx    = @ \/ Reliable(c, seq) > 0]

foutput(c, seq) == IF Emits(c, seq) THEN Emit(c, seq) ELSE c

SendAllowed(c) ==
  c.t_seqno < MinOf(c.curseq, c.highest_ack + c.cwnd * MSS)

\* sent: a FIN is not counted, whether or not this packet carried it
Sent(c, d, seq) ==
  LET amt == Reliable(c, seq) - Cardinality(outflags(d.state) \cap {"FIN"})
  IN  [d EXCEPT !.t_seqno = @ + amt]

\* A turn of send_much's loop: what is sent, and whether the loop goes on
Turn(s) ==
  LET c    == s.c
      seq  == c.t_seqno
      more == Sent(c, foutput(c, seq), seq)
  IN  IF ~s.on \/ (~s.force /\ ~SendAllowed(c)) THEN [s EXCEPT !.on = FALSE]
      ELSE IF ~Emits(c, seq) \/ Reliable(c, seq) = 0
      THEN [c |-> foutput(c, seq), force |-> FALSE, on |-> FALSE]
      ELSE [c |-> more, force |-> FALSE,
            on |-> outflags(more.state) \cap {"SYN", "FIN"} = {}]

\* Every turn but the last sends data, of which at most curseq_ + 1 - t_seqno_
\* bytes are left
SendMuch(c, force) ==
  LET last == 1 + MaxOf(0, c.curseq + 1 - c.t_seqno)
      turn[i \in 0 .. last] ==
        IF i = 0 THEN [c |-> c, force |-> force, on |-> TRUE] ELSE Turn(turn[i - 1])
  IN  turn[last].c

-----------------------------------------------------------------------------
(* Calls of the application *)

CancelTimers(c) == [c EXCEPT !.rtx = FALSE, !.dtimer = FALSE]

Fresh(state, passive) ==
  [state |-> state, passive |-> passive, t_seqno |-> ISS, maxseq |-> -1,
   highest_ack |-> -1, curseq |-> 0, rq |-> EmptyQueue(-1),
   last_ack_sent |-> -1, rtx |-> FALSE, dtimer |-> FALSE, acknow |-> FALSE,
   delack |-> FALSE, close_on_empty |-> FALSE, dupacks |-> 0,
   fastrecov |-> FALSE, recover |-> 0, lastdup |-> FALSE, cwnd |-> 2,
   out |-> <<>>]

Reset(c) == [Fresh(c.state, c.passive) EXCEPT !.out = c.out]

\* connect: the SYN goes out, whatever foutput's other tests say
Connect(c) == SendMuch([c EXCEPT !.state = "SYN_SENT"], TRUE)

\* sendmsg and advance_bytes; before the connection is open the reset forgets
\* the MSG_EOF just noted
AdvanceBytes(c, n, eof) ==
  IF c.state \in {"CLOSED", "LISTEN"} THEN Connect([Reset(c) EXCEPT !.curseq = ISS + n])
  ELSE IF c.state \in {"SYN_SENT", "SYN_RECEIVED"}
  THEN [c EXCEPT !.curseq = MaxOf(@, ISS) + n, !.close_on_empty = @ \/ eof]
  ELSE IF c.state = "ESTABLISHED"
  THEN SendMuch([c EXCEPT !.curseq = MaxOf(@, ISS) + n, !.close_on_empty = @ \/ eof], FALSE)
  ELSE [c EXCEPT !.close_on_empty = @ \/ eof]

\* usrclosed: what is not sent yet never will be
UsrClosed(c) ==
  LET d == [c EXCEPT !.curseq = c.maxseq - 1]
  IN  CASE c.state \in {"CLOSED", "LISTEN"} -> CancelTimers([d EXCEPT !.state = "CLOSED"])
        [] c.state = "SYN_SENT" -> SendMuch([d EXCEPT !.state = "CLOSED"], TRUE)
        [] c.state = "LAST_ACK" -> SendMuch(d, TRUE)
        [] c.state \in {"SYN_RECEIVED", "ESTABLISHED"} ->
             SendMuch([d EXCEPT !.state = "FIN_WAIT_1"], TRUE)
        [] c.state = "CLOSE_WAIT" -> SendMuch([d EXCEPT !.state = "LAST_ACK"], TRUE)
        [] c.state \in {"FIN_WAIT_1", "FIN_WAIT_2", "CLOSING"} -> d

\* timeout_action: an agent that listened never sends anything again.  Left out
\* is its exit for highest_ack_ > sru_bytes_, which no run of data below the
\* default sru_bytes_ of 2^30 meets: with sru_bytes_ set to the bytes of the data
\* (ahtcp.A.tcl:190) the timers would be cancelled and a lost FIN never repeated.
TimeoutAction(c) ==
  LET d == [c EXCEPT !.recover = c.maxseq]
  IN  IF c.passive THEN [d EXCEPT !.rtx = FALSE]
      ELSE SendMuch([d EXCEPT !.cwnd = 1, !.lastdup = FALSE, !.rtx = TRUE,
                              !.t_seqno = IF c.highest_ack < 0 THEN ISS ELSE c.highest_ack,
                              !.fastrecov = FALSE, !.dupacks = 0], TRUE)

-----------------------------------------------------------------------------
(* recv: the end of the handler, from the data of a segment (step6) on *)

HaveRcvdFin(state) == state \in {"CLOSING", "CLOSED", "CLOSE_WAIT"}

\* reass after the block is added: what is now in order is delivered
Cleared(added) ==
  LET clear == Clearto(added.queue)
  IN  Result(clear.queue, added.flag \/ clear.flag)

Reassembled(c, p) ==
  LET added == Add(c.rq, Block(p.seq, p.seq + p.len, p.fin))
  IN  IF p.seq = rcv_nxt(c) THEN Cleared(added) ELSE Result(added.queue, FALSE)

\* A segment out of order goes through the queue and is acknowledged at once
Queued(c, r) ==
  [c |-> [c EXCEPT !.rq = r.queue, !.acknow = TRUE], fin |-> r.flag, out |-> TRUE]

\* Mutant of DataStep: a FIN counts although bytes before it are missing
DataStepEarlyFin(c, p, needoutput) ==
  LET d == [c EXCEPT !.rq.nxt = @ + p.len, !.delack = TRUE]
  IN  IF (p.len = 0 /\ ~p.fin) \/ HaveRcvdFin(c.state)
      THEN [c |-> c, fin |-> FALSE, out |-> needoutput]
      ELSE IF p.seq = rcv_nxt(c) /\ c.rq.fifo = <<>>
      THEN [c |-> d, fin |-> p.fin, out |-> NeedSend(d)]
      ELSE [Queued(c, Reassembled(c, p)) EXCEPT !.fin = p.fin]

\* The data step: the agent, whether a FIN is to be counted, and whether an
\* output is needed
DataStep(c, p, needoutput) ==
  LET d == [c EXCEPT !.rq.nxt = @ + p.len, !.delack = TRUE]
  IN  IF (p.len = 0 /\ ~p.fin) \/ HaveRcvdFin(c.state)
      THEN [c |-> c, fin |-> FALSE, out |-> needoutput]
      ELSE IF p.seq = rcv_nxt(c) /\ c.rq.fifo = <<>>
      THEN [c |-> d, fin |-> p.fin, out |-> NeedSend(d)]
      ELSE Queued(c, Reassembled(c, p))

\* Mutant of FinStep: it enters a state the agent does not have
FinStepTimeWait(c, fin) ==
  LET d == IF HaveRcvdFin(c.state) THEN c
           ELSE [c EXCEPT !.acknow = TRUE, !.rq.nxt = @ + 1]
  IN  IF ~fin THEN c
      ELSE CASE c.state \in {"SYN_RECEIVED", "ESTABLISHED"} -> [d EXCEPT !.state = "CLOSE_WAIT"]
             [] c.state = "FIN_WAIT_1" -> [d EXCEPT !.state = "CLOSING"]
             [] c.state = "FIN_WAIT_2" -> CancelTimers([d EXCEPT !.state = "TIME_WAIT"])
             [] OTHER -> d

\* A FIN is counted and acknowledged
FinStep(c, fin) ==
  LET d == IF HaveRcvdFin(c.state) THEN c
           ELSE [c EXCEPT !.acknow = TRUE, !.rq.nxt = @ + 1]
  IN  IF ~fin THEN c
      ELSE CASE c.state \in {"SYN_RECEIVED", "ESTABLISHED"} -> [d EXCEPT !.state = "CLOSE_WAIT"]
             [] c.state = "FIN_WAIT_1" -> [d EXCEPT !.state = "CLOSING"]
             [] c.state = "FIN_WAIT_2" -> CancelTimers([d EXCEPT !.state = "CLOSED"])
             [] OTHER -> d

\* What is owed goes out; without half-close the agent closes its own side as
\* soon as its data is acknowledged
Answer(c, needoutput) ==
  IF needoutput \/ c.acknow THEN SendMuch(c, TRUE)
  ELSE IF c.curseq >= c.highest_ack THEN SendMuch(c, FALSE) ELSE c

CloseBehind(c) ==
  IF c.state = "CLOSE_WAIT" /\ c.highest_ack = c.maxseq THEN UsrClosed(c) ELSE c

AfterData(d) == CloseBehind(Answer(FinStep(d.c, d.fin), d.out))

Step6(c, p, needoutput) == AfterData(DataStep(c, p, needoutput))

-----------------------------------------------------------------------------
(* recv: acknowledgements *)

\* newack: timers, highest_ack_ and t_seqno_
Newack(c, ackno) ==
  [c EXCEPT !.rtx = IF ackno = c.maxseq THEN FALSE ELSE @ \/ ackno > c.highest_ack,
            !.highest_ack = MaxOf(@, ackno),
            !.t_seqno = MaxOf(@, MaxOf(c.highest_ack, ackno))]

FastRetransmit(c) ==
  foutput([c EXCEPT !.recover = c.maxseq, !.lastdup = TRUE], c.highest_ack)

\* NewReno stays in recovery on a partial acknowledgement
PackAction(c) ==
  IF c.fastrecov /\ c.highest_ack < c.recover
  THEN [FastRetransmit(c) EXCEPT !.cwnd = 2]
  ELSE [c EXCEPT !.fastrecov = FALSE, !.dupacks = 0]

\* process_ACK up to the closing states
ProcessAck(c, ackno, laststate) ==
  LET d == PackAction(Newack(c, ackno))
  IN  IF laststate = "ESTABLISHED" THEN [d EXCEPT !.cwnd = 2] ELSE d

\* ourfinisacked is concluded from the acknowledgement of everything sent
ClosingStep(c) ==
  CASE c.state = "FIN_WAIT_1" -> CancelTimers([c EXCEPT !.state = "FIN_WAIT_2"])
    [] c.state = "CLOSING"    -> CancelTimers([c EXCEPT !.state = "CLOSED"])
    [] OTHER -> c

\* A new acknowledgement, in any of the synchronized states
AfterAck(d, p) ==
  LET all == p.ackno = d.maxseq
      fin == all /\ d.state \in {"FIN_WAIT_1", "CLOSING", "LAST_ACK", "FIN_WAIT_2"}
  IN  IF fin /\ d.state = "LAST_ACK" THEN Reset([d EXCEPT !.state = "CLOSED"])
      ELSE Step6(IF fin THEN ClosingStep(d) ELSE d, p,
                 all /\ ~(fin /\ d.state = "FIN_WAIT_1"))

NewAck(c, p, laststate) == AfterAck(ProcessAck(c, p.ackno, laststate), p)

\* dupack_action with bug_fix_: at most one fast retransmit per window
DupAction(c) ==
  LET d == [c EXCEPT !.dupacks = Thresh, !.fastrecov = TRUE]
  IN  IF c.highest_ack > c.recover \/ c.lastdup \/ c.highest_ack = 0
      THEN [FastRetransmit([d EXCEPT !.cwnd = c.cwnd \div 2, !.rtx = FALSE])
              EXCEPT !.cwnd = 2]
      ELSE d

\* A pure acknowledgement, and one that repeats highest_ack_ while data is out
Pure(p, dupseg) == p.len = 0 /\ ~dupseg
Duplicate(c, p, dupseg) == Pure(p, dupseg) /\ c.rtx /\ p.ackno >= c.highest_ack

\* An acknowledgement that is not new; bound: the count of duplicates saturates
\* at Thresh + 1, only its comparison with Thresh is used again
OldAck(c, p, dupseg) ==
  IF Duplicate(c, p, dupseg) /\ c.dupacks + 1 = Thresh THEN DupAction(c)
  ELSE IF Duplicate(c, p, dupseg) /\ c.dupacks >= Thresh
  THEN SendMuch([c EXCEPT !.dupacks = Thresh + 1, !.cwnd = 2], FALSE)
  ELSE Step6([c EXCEPT !.dupacks = IF Duplicate(c, p, dupseg) THEN @ + 1
                                   ELSE IF Pure(p, dupseg) THEN 0 ELSE @], p, FALSE)

DropAfterAck(c) == SendMuch([c EXCEPT !.acknow = TRUE], TRUE)

\* An acknowledgement of what was never sent is answered and dropped
AckStep(c, p, dupseg, laststate) ==
  IF p.ackno <= c.highest_ack THEN OldAck(c, p, dupseg)
  ELSE IF p.ackno > c.maxseq THEN DropAfterAck(c)
  ELSE NewAck(c, p, laststate)

-----------------------------------------------------------------------------
(* recv: the states *)

\* The reset that cannot be sent is an empty segment
DropWithReset(c, p) ==
  Sendpacket(c, IF p.ack THEN Packet(p.ackno, 0, 0, {})
                ELSE Packet(0, p.seq + p.len - (IF p.syn THEN 1 ELSE 0), 0, {"ACK"}))

\* Trimming: of a SYN first, then of the bytes below rcv_nxt_
Unsyn(c, p) ==
  IF p.syn /\ p.seq < rcv_nxt(c) THEN [p EXCEPT !.syn = FALSE, !.seq = @ + 1] ELSE p

\* Wholly old, and without a FIN right at rcv_nxt_
Covered(c, p) ==
  LET q == Unsyn(c, p)
  IN  /\ p.seq < rcv_nxt(c) /\ (p.syn \/ p.len > 0)
      /\ \/ q.seq + q.len < rcv_nxt(c)
         \/ q.seq + q.len = rcv_nxt(c) /\ ~q.fin

Trimmed(c, p) ==
  LET q == Unsyn(c, p)
  IN  IF Covered(c, p) THEN [q EXCEPT !.seq = @ + q.len, !.len = 0, !.fin = FALSE]
      ELSE IF q.seq < rcv_nxt(c) /\ q.len > 0
      THEN [q EXCEPT !.seq = rcv_nxt(c), !.len = q.seq + q.len - rcv_nxt(c)]
      ELSE q

\* Header prediction of the next data segment; for acknowledgements it needs a
\* window the data of this module does not fill
Predicted(c, p) ==
  /\ c.state = "ESTABLISHED" /\ p.ack /\ ~p.syn /\ ~p.fin
  /\ p.seq = rcv_nxt(c) /\ c.t_seqno = c.maxseq
  /\ p.len > 0 /\ p.ackno = c.highest_ack /\ c.rq.fifo = <<>>

RecvPredicted(c, p) ==
  LET d == [c EXCEPT !.rq.nxt = @ + p.len, !.delack = TRUE]
  IN  IF NeedSend(d) THEN SendMuch(d, TRUE) ELSE d

\* Mutant of RecvClosed: a closed agent does not answer
RecvClosedSilent(c, p) == c

\* Only the loss of an acknowledgement brings a packet to a closed agent
RecvClosed(c, p) == IF p.fin THEN DropAfterAck(c) ELSE c

RecvListen(c, p) ==
  IF p.ack THEN DropWithReset(c, p)
  ELSE IF ~p.syn THEN c
  ELSE Step6([c EXCEPT !.t_seqno = ISS, !.rq.nxt = p.seq + p.len + 1,
                       !.acknow = TRUE, !.state = "SYN_RECEIVED"],
             [p EXCEPT !.seq = @ + 1], FALSE)

\* SYN and ACK: established.  The acknowledgement of the SYN goes out at once,
\* and again with what follows
RecvSynAck(c, p) ==
  LET d == [c EXCEPT !.rq.nxt = p.seq + p.len + 1, !.highest_ack = p.ackno,
                     !.cwnd = 2, !.acknow = TRUE, !.state = "ESTABLISHED"]
  IN  NewAck(Sendpacket(d, Packet(d.t_seqno, rcv_nxt(d), 0, {"ACK"})),
             [p EXCEPT !.seq = @ + 1], "SYN_SENT")

\* Mutant of RecvSyn: a SYN that crosses one's own is ignored
RecvSynIgnored(c, p) == c

\* A SYN alone: simultaneous open
RecvSyn(c, p) ==
  Step6([c EXCEPT !.rq.nxt = p.seq + p.len + 1, !.acknow = TRUE, !.rtx = FALSE,
                  !.state = "SYN_RECEIVED", !.t_seqno = @ - 1],
        [p EXCEPT !.seq = @ + 1], FALSE)

RecvSynSent(c, p) ==
  IF p.ack /\ (p.ackno <= ISS \/ p.ackno > c.maxseq) THEN DropWithReset(c, p)
  ELSE IF ~p.syn THEN c
  ELSE IF p.ack THEN RecvSynAck(c, p) ELSE RecvSyn(c, p)

\* The other states: a packet without ACK is of no use, and in SYN_RECEIVED the
\* acknowledgement of the SYN opens the connection
RecvSynchronized(c, p) ==
  LET q == Trimmed(c, p)
      d == IF Covered(c, p) THEN [c EXCEPT !.acknow = TRUE] ELSE c
      opening == c.state = "SYN_RECEIVED"
  IN  IF q.syn THEN DropWithReset(d, q)
      ELSE IF ~q.ack THEN d
      ELSE IF opening /\ (q.ackno < c.highest_ack \/ q.ackno > c.maxseq)
      THEN DropWithReset(d, q)
      ELSE AckStep(IF opening THEN [d EXCEPT !.state = "ESTABLISHED", !.cwnd = 2] ELSE d,
                   q, Covered(c, p), c.state)

Recv(c, p) ==
  LET d == [c EXCEPT !.dtimer = TRUE]
  IN  CASE c.state = "CLOSED"   -> RecvClosed(c, p)
        [] c.state = "LISTEN"   -> RecvListen(d, p)
        [] c.state = "SYN_SENT" -> RecvSynSent(d, p)
        [] c.state = "LAST_ACK" /\ p.fin -> d
        [] Predicted(c, p)      -> RecvPredicted(d, p)
        [] OTHER                -> RecvSynchronized(d, p)

-----------------------------------------------------------------------------
(* Steps *)

\* The agent at e becomes c, and what it has sent is on its way
Becomes(e, c, arriving) ==
  /\ conn' = [conn EXCEPT ![e] = [c EXCEPT !.out = <<>>]]
  /\ net' = [net EXCEPT ![e] = arriving, ![Peer(e)] = @ \o c.out]

\* An application opens the connection with its first call, and opens it once
Sendmsg(e, n, eof) ==
  /\ calls[e] < Calls[e]
  /\ n = 0 \/ conn[e].curseq <= ISS
  /\ conn[e].state = "CLOSED" => calls[e] = 0 /\ ~conn[e].passive
  /\ Becomes(e, AdvanceBytes(conn[e], n, eof), net[e])
  /\ calls' = [calls EXCEPT ![e] = @ + 1]
  /\ UNCHANGED <<drops, early>>

Close(e) ==
  /\ conn[e].state \in CloseIn
  /\ Becomes(e, UsrClosed(conn[e]), net[e])
  /\ UNCHANGED <<calls, drops, early>>

Deliver(e) ==
  /\ net[e] # <<>>
  /\ Becomes(e, Recv(conn[e], Head(net[e])), Tail(net[e]))
  /\ UNCHANGED <<calls, drops, early>>

Delaying(e) == conn[e].dtimer /\ conn[e].delack

Silent == \A e \in End : net[e] = <<>> /\ ~Delaying(e)

\* The timer fires when nothing is on its way, or, MaxEarly times, too early
Timeout(e) ==
  /\ conn[e].rtx
  /\ IF Silent THEN UNCHANGED early ELSE early < MaxEarly /\ early' = early + 1
  /\ Becomes(e, TimeoutAction(conn[e]), net[e])
  /\ UNCHANGED <<calls, drops>>

DelAckTimer(e) ==
  /\ Delaying(e)
  /\ Becomes(e, SendMuch([conn[e] EXCEPT !.delack = FALSE, !.acknow = TRUE], TRUE), net[e])
  /\ UNCHANGED <<calls, drops, early>>

\* The i-th packet sent by e, of those on their way, is lost
Lose(e, i) ==
  /\ drops["A"] + drops["B"] < MaxDrops
  /\ net' = [net EXCEPT ![Peer(e)] = RemoveAt(@, i)]
  /\ drops' = [drops EXCEPT ![e] = @ + 1]
  /\ UNCHANGED <<conn, calls, early>>

\* B has called listen, or waits to open the connection itself
Init ==
  /\ \E listening \in BOOLEAN :
       conn = [A |-> Fresh("CLOSED", FALSE),
               B |-> Fresh(IF listening THEN "LISTEN" ELSE "CLOSED", listening)]
  /\ net = [e \in End |-> <<>>]
  /\ calls = [e \in End |-> 0] /\ drops = [e \in End |-> 0] /\ early = 0

Next ==
  \E e \in End :
    \/ \E n \in {0, Data[e]}, eof \in BOOLEAN : Sendmsg(e, n, eof)
    \/ Close(e) \/ Timeout(e) \/ DelAckTimer(e)
    \/ Deliver(e)
    \/ \E i \in DOMAIN net[Peer(e)] : Lose(e, i)

Spec == Init /\ [][Next]_vars

\* Whether an application that means to open the connection still can
MayOpen(e) ==
  ~conn[e].passive /\ calls[e] < Calls[e] /\ (conn[e].state = "CLOSED" => calls[e] = 0)

\* Pending events happen.  A timer is disabled whenever a packet is on its way,
\* hence strong fairness: each backs off exponentially, so none starves another
Fairness ==
  \A e \in End :
    /\ []<>~MayOpen(e) \/ []<><<\E n \in {0, Data[e]} : Sendmsg(e, n, FALSE)>>_vars
    /\ []<>(conn[e].state \notin CloseIn) \/ []<><<Close(e)>>_vars
    /\ <>[]~(conn[e].rtx /\ Silent) \/ []<><<Timeout(e)>>_vars
    /\ []<>~Delaying(e) \/ []<><<DelAckTimer(e)>>_vars
    /\ []<>(net[e] = <<>>) \/ []<><<Deliver(e)>>_vars

FairSpec == Spec /\ Fairness

-----------------------------------------------------------------------------
(* Properties *)

\* Type correctness.  Closing before anything was sent leaves curseq_ below the
\* initial sequence number.
TypeOK ==
  LET MaxSeq == MaxOf(Data["A"], Data["B"]) + 2
  IN  /\ \A e \in End :
           /\ conn[e].state \in {"CLOSED", "LISTEN", "SYN_SENT", "SYN_RECEIVED", "ESTABLISHED",
                                 "CLOSE_WAIT", "LAST_ACK", "FIN_WAIT_1", "FIN_WAIT_2", "CLOSING"}
           /\ {conn[e].maxseq, conn[e].highest_ack, conn[e].last_ack_sent, rcv_nxt(conn[e])}
                \subseteq -1 .. MaxSeq
           /\ {conn[e].t_seqno, conn[e].recover} \subseteq 0 .. MaxSeq
           /\ conn[e].curseq \in -2 .. MaxSeq
           /\ conn[e].dupacks \in 0 .. Thresh + 1 /\ conn[e].cwnd \in 1 .. 2
           /\ conn[e].out = <<>>
           /\ \A f \in {"passive", "rtx", "dtimer", "acknow", "delack",
                        "close_on_empty", "fastrecov", "lastdup"} : conn[e][f] \in BOOLEAN
           /\ net[e] \in Seq([seq : 0 .. MaxSeq, ackno : -1 .. MaxSeq, len : 0 .. MSS,
                              syn : BOOLEAN, fin : BOOLEAN, ack : BOOLEAN])
           /\ calls[e] \in 0 .. Calls[e]
      /\ drops["A"] + drops["B"] <= MaxDrops /\ early \in 0 .. MaxEarly

\* What one end has seen acknowledged the other has received, and what that one
\* has received was sent, SYN and FIN included, through opening, data and close,
\* until one of them is CLOSED and may have been reset; and an end that takes the
\* connection as closed by the other side has received everything up to and with
\* the FIN of that side (newack, reass, the data and FIN steps of recv).
AckOrder ==
  \A e \in End :
    LET c == conn[e]
        d == conn[Peer(e)]
    IN  /\ d.state # "CLOSED" => c.highest_ack <= rcv_nxt(d)
        /\ c.state # "CLOSED" => rcv_nxt(d) <= c.maxseq
        /\ c.state \in {"CLOSE_WAIT", "LAST_ACK", "CLOSING"} /\ d.maxseq # -1
             => rcv_nxt(c) = d.maxseq

\* "if our FIN is now acknowledged then enter FIN_WAIT_2" (recv, FIN_WAIT_1): an
\* end waiting for the other's FIN has had its own heard.
FinHeard ==
  \A e \in End :
    conn[e].state = "FIN_WAIT_2"
      => conn[Peer(e)].state \in {"CLOSE_WAIT", "LAST_ACK", "CLOSING", "CLOSED"}

Opening == \E e \in End : conn[e].state = "SYN_SENT"

\* A connection that was called for opens, by three-way handshake or by
\* simultaneous open, if no packet of an end that listens is lost: that end
\* never repeats one (timeout_action, recv in LISTEN and SYN_SENT).
Opens ==
  [](\A e \in End : conn[e].passive => drops[e] = 0) => (Opening ~> ~Opening)

\* A connection that was called for is closed in the end by both sides, whatever
\* is lost; with an end that listens, if nothing is lost or sent again too early
\* (usrclosed, the closing states of recv, the answer of a closed agent).
Finishes ==
  []((\E e \in End : conn[e].passive) => drops["A"] + drops["B"] + early = 0)
    => (Opening ~> (\A e \in End : conn[e].state = "CLOSED"))
==============================================================================
