-------------------------- MODULE ConnectionProofs ---------------------------
(***************************************************************************)
(* The safety of Connection for every segment size, data, number of calls,  *)
(* losses and early timers, if the applications close a connection that is  *)
(* open, and close it once: in FIN_WAIT_1 a second call of usrclosed takes  *)
(* the FIN that was sent for a byte of data.                                *)
(***************************************************************************)
EXTENDS Connection, DataTheorems

\* The assumption on the applications
CloseOnce == CloseIn \subseteq {"ESTABLISHED", "CLOSE_WAIT"}

-----------------------------------------------------------------------------
(* Agents and segments *)

States == {"CLOSED", "LISTEN", "SYN_SENT", "SYN_RECEIVED", "ESTABLISHED", "CLOSE_WAIT",
           "LAST_ACK", "FIN_WAIT_1", "FIN_WAIT_2", "CLOSING"}

Segments == [seq : Int, ackno : Int, len : Int, syn : BOOLEAN, fin : BOOLEAN, ack : BOOLEAN]

RQueues == [fifo : Seq(Blk), lifo : Seq(Blk), nxt : Int]

Agents ==
  [state : States, passive : BOOLEAN, t_seqno : Int, maxseq : Int, highest_ack : Int,
   curseq : Int, rq : RQueues, last_ack_sent : Int, rtx : BOOLEAN, dtimer : BOOLEAN,
   acknow : BOOLEAN, delack : BOOLEAN, close_on_empty : BOOLEAN, dupacks : Int,
   fastrecov : BOOLEAN, recover : Int, lastdup : BOOLEAN, cwnd : Int,
   out : Seq(Segments)]

AgentParts(c) ==
  /\ c.state \in States /\ c.passive \in BOOLEAN /\ c.t_seqno \in Int /\ c.maxseq \in Int
  /\ c.highest_ack \in Int /\ c.curseq \in Int /\ c.rq \in RQueues
  /\ c.last_ack_sent \in Int /\ c.rtx \in BOOLEAN /\ c.dtimer \in BOOLEAN
  /\ c.acknow \in BOOLEAN /\ c.delack \in BOOLEAN /\ c.close_on_empty \in BOOLEAN
  /\ c.dupacks \in Int /\ c.fastrecov \in BOOLEAN /\ c.recover \in Int
  /\ c.lastdup \in BOOLEAN /\ c.cwnd \in Int /\ c.out \in Seq(Segments)
  /\ rcv_nxt(c) \in Int

LEMMA AgentFields ==
  ASSUME NEW c \in Agents
  PROVE  AgentParts(c)
<1>1. c.rq \in RQueues
  BY DEF Agents
<1>2. rcv_nxt(c) \in Int
  BY <1>1 DEF rcv_nxt, RQueues
<1> QED BY <1>1, <1>2 DEF Agents, AgentParts

AgentShape(c) ==
  c = [state |-> c.state, passive |-> c.passive, t_seqno |-> c.t_seqno,
       maxseq |-> c.maxseq, highest_ack |-> c.highest_ack, curseq |-> c.curseq,
       rq |-> c.rq, last_ack_sent |-> c.last_ack_sent, rtx |-> c.rtx,
       dtimer |-> c.dtimer, acknow |-> c.acknow, delack |-> c.delack,
       close_on_empty |-> c.close_on_empty, dupacks |-> c.dupacks,
       fastrecov |-> c.fastrecov, recover |-> c.recover, lastdup |-> c.lastdup,
       cwnd |-> c.cwnd, out |-> c.out]

\* A record of the right fields, each of its type, is an agent
LEMMA AgentMade ==
  ASSUME NEW c, AgentParts(c), AgentShape(c)
  PROVE  c \in Agents
  BY DEF AgentParts, AgentShape, Agents

Most == MaxOf(Data["A"], Data["B"])

LEMMA Bounds ==
  /\ MSS \in Nat /\ MSS >= 1 /\ SPA \in Nat /\ Thresh \in Nat /\ Thresh >= 1
  /\ Most \in Nat /\ \A e \in End : Data[e] \in Nat /\ Data[e] <= Most /\ Calls[e] \in Nat
<1>1. MSS \in Nat \ {0} /\ SPA \in Nat /\ Thresh \in Nat \ {0}
  BY ConnectionAssumption DEF ConnectionAssumption
<1>2. Data \in [{"A", "B"} -> Nat] /\ Calls \in [{"A", "B"} -> Nat]
  BY ConnectionAssumption DEF ConnectionAssumption
<1>3. Data["A"] \in Nat /\ Data["B"] \in Nat
  BY <1>2
<1>4. Most \in Nat /\ Data["A"] <= Most /\ Data["B"] <= Most
  BY <1>3 DEF Most, MaxOf
<1> QED BY <1>1, <1>2, <1>3, <1>4 DEF End

-----------------------------------------------------------------------------
(* What holds of an agent by itself *)

\* Nothing received, and nothing sent that counts
Blank(c) ==
  /\ -1 <= c.maxseq /\ c.maxseq <= 0 /\ c.highest_ack = -1 /\ c.t_seqno = 0
  /\ c.curseq = 0 /\ c.rq = EmptyQueue(-1) /\ ~c.rtx /\ ~c.delack

\* The SYN is out
Calling(c, n) ==
  /\ c.maxseq = 1 /\ c.highest_ack = -1 /\ c.t_seqno = 1 /\ 0 <= c.curseq
  /\ c.rq = EmptyQueue(n) /\ ~c.delack

\* The SYN is acknowledged; what is buffered ends at curseq_
Talking(c) ==
  /\ 1 <= c.highest_ack /\ c.highest_ack <= c.t_seqno /\ c.highest_ack <= c.maxseq
  /\ c.t_seqno <= c.curseq + 1 /\ 1 <= rcv_nxt(c)

Sending(c) == Talking(c) /\ c.t_seqno <= c.maxseq /\ c.maxseq <= c.curseq + 1
\* Nothing will be added: what was sent is all, or all and the FIN
Winding(c) == Talking(c) /\ c.curseq + 1 <= c.maxseq /\ c.maxseq <= c.curseq + 2
Ending(c)  == Winding(c) /\ c.highest_ack < c.maxseq
\* Everything sent is acknowledged
Answered(c) ==
  /\ 1 <= c.maxseq /\ c.highest_ack = c.maxseq /\ c.t_seqno = c.maxseq
  /\ c.curseq + 1 <= c.maxseq /\ c.maxseq <= c.curseq + 2
  /\ 0 <= c.curseq /\ 1 <= rcv_nxt(c)

DataFlows == {"ESTABLISHED", "CLOSE_WAIT"}
FinGoes   == {"FIN_WAIT_1", "CLOSING", "LAST_ACK"}
FinCame   == {"CLOSE_WAIT", "CLOSING", "LAST_ACK"}

Phase(c) ==
  /\ c.state = "LISTEN" => Blank(c)
  /\ c.state = "SYN_SENT" => Calling(c, -1)
  /\ c.state = "SYN_RECEIVED" => Calling(c, 1)
  /\ c.state \in DataFlows => Sending(c)
  /\ c.state \in FinGoes => Ending(c)
  /\ c.state = "FIN_WAIT_2" => Answered(c)
  /\ c.state = "CLOSED" => Blank(c) \/ Answered(c)

Fits(c) ==
  /\ 0 <= c.recover /\ c.recover <= MaxOf(c.maxseq, 0)
  /\ c.curseq <= Most /\ rcv_nxt(c) <= Most + 2
  /\ -1 <= c.last_ack_sent /\ c.last_ack_sent <= rcv_nxt(c)

\* Between the calls of foutput
Tuned(c) == 0 <= c.dupacks /\ c.dupacks <= Thresh + 1 /\ 1 <= c.cwnd /\ c.cwnd <= 2

\* One past the bytes that were sent; FIN takes the next number
Top(c)     == MinOf(c.maxseq, c.curseq + 1)
FinSent(c) == c.maxseq = c.curseq + 2

\* A segment of a connection, and one of the agent c
Framed(p) ==
  /\ p \in Segments
  /\ 0 <= p.seq /\ p.seq <= Most + 2 /\ -1 <= p.ackno /\ p.ackno <= Most + 2
  /\ 0 <= p.len /\ p.len <= MSS
  /\ p.syn => p.seq = 0 /\ p.len = 0 /\ ~p.fin
  /\ p.ack \/ (p.len = 0 /\ ~p.fin)

Truthful(p, c) ==
  /\ p.ack => p.ackno <= rcv_nxt(c)
  /\ (p.len = 0 /\ ~p.fin) \/ p.seq + p.len <= Top(c)
  /\ p.fin => FinSent(c) /\ p.seq + p.len = Top(c)

From(p, c) ==
  /\ Framed(p)
  /\ p.ack => 1 <= p.ackno \/ Blank(c)
  /\ 1 <= c.maxseq => Truthful(p, c)

OutFrom(c) == \A i \in 1..Len(c.out) : From(c.out[i], c)

\* The side that closes last acknowledges the other FIN with its own
OutAck(c, n) == \A i \in 1..Len(c.out) : c.out[i].fin => c.out[i].ackno = n
Tight(c)     == c.state = "LAST_ACK" => OutAck(c, rcv_nxt(c))

\* An agent before or after a call of foutput
Well(c) == c \in Agents /\ Fits(c) /\ OutFrom(c)

\* What an agent said of itself and of the other stays true
Grown(c, x) ==
  \/ Blank(x)
  \/ /\ 1 <= c.maxseq /\ c.maxseq <= x.maxseq /\ rcv_nxt(c) <= rcv_nxt(x)
     /\ Top(c) <= Top(x) /\ (FinSent(c) => FinSent(x) /\ Top(x) = Top(c))

-----------------------------------------------------------------------------
(* One call of foutput *)

LEMMA DatalenIs ==
  ASSUME NEW c \in Agents, NEW seq \in Int
  PROVE  /\ Datalen(c, seq) \in Int /\ 0 <= Datalen(c, seq) /\ Datalen(c, seq) <= MSS
         /\ seq = 0 => Datalen(c, seq) = 0
         /\ 1 <= c.highest_ack /\ seq <= c.curseq + 1 => seq + Datalen(c, seq) <= c.curseq + 1
         /\ 1 <= c.highest_ack /\ c.curseq + 1 <= seq => Datalen(c, seq) = 0
<1>1. c.highest_ack \in Int /\ c.curseq \in Int /\ c.cwnd \in Int /\ MSS \in Int /\ MSS >= 1
  BY AgentFields, Bounds DEF AgentParts
<1>2. PICK w : w = c.cwnd * MSS
  OBVIOUS
<1>3. w \in Int
  BY <1>1, <1>2
<1>4. PICK buffered : buffered = IF c.highest_ack < 0 THEN c.curseq - ISS
                                 ELSE c.curseq - c.highest_ack + 1
  OBVIOUS
<1>5. PICK off : off = IF c.highest_ack < 0 THEN seq - ISS ELSE seq - c.highest_ack
  OBVIOUS
<1>6. Datalen(c, seq) = IF seq = ISS THEN 0
                        ELSE MinOf(MSS, MaxOf(0, MinOf(buffered, w) - off))
  BY <1>2, <1>4, <1>5 DEF Datalen
<1>7. buffered \in Int /\ off \in Int
  BY <1>1, <1>4, <1>5 DEF ISS
<1>8. 1 <= c.highest_ack => buffered = c.curseq - c.highest_ack + 1 /\ off = seq - c.highest_ack
  BY <1>1, <1>4, <1>5
<1> QED BY <1>1, <1>3, <1>6, <1>7, <1>8 DEF ISS, MinOf, MaxOf

\* What foutput makes of the agent c when it sends p, of which k numbers count
Emitted(c, d, p, k, st) ==
  /\ d \in Agents
  /\ d.state = st /\ d.passive = c.passive /\ d.t_seqno = c.t_seqno
  /\ d.maxseq = MaxOf(c.maxseq, p.seq + k) /\ d.highest_ack = c.highest_ack
  /\ d.curseq = c.curseq /\ d.rq = c.rq /\ d.last_ack_sent = p.ackno
  /\ d.delack = FALSE /\ d.dupacks = c.dupacks /\ d.recover = c.recover
  /\ d.cwnd = c.cwnd /\ d.out = Append(c.out, p)
  /\ d.rtx = (c.rtx \/ k > 0)
  /\ d.fastrecov = c.fastrecov /\ d.acknow = FALSE

LEMMA EmitIs ==
  ASSUME NEW c \in Agents, NEW seq \in Int,
         NEW p, p = Packet(seq, rcv_nxt(c), Datalen(c, seq), Flags(c, seq)), p \in Segments,
         p.seq = seq,
         NEW k \in Int, k = Reliable(c, seq),
         NEW st \in States, st = IF Closes(c, seq) THEN "FIN_WAIT_1" ELSE c.state
  PROVE  Emitted(c, Emit(c, seq), p, k, st)
<1>1. AgentParts(c)
  BY AgentFields
<1>2. PICK o : o = Append(c.out, p)
  OBVIOUS
<1>3. PICK m : m = MaxOf(c.maxseq, seq + k)
  OBVIOUS
<1>4. PICK r : r = (c.rtx \/ k > 0)
  OBVIOUS
<1>5. o \in Seq(Segments) /\ m \in Int /\ r \in BOOLEAN /\ p.ackno \in Int
  BY <1>1, <1>2, <1>3, <1>4 DEF AgentParts, MaxOf, Segments
<1>6. PICK d : d = Emit(c, seq)
  OBVIOUS
<1>7. PICK b : b = Sendpacket(c, p)
  OBVIOUS
<1>8. b \in Agents /\ b = [c EXCEPT !.out = o, !.last_ack_sent = p.ackno]
  BY <1>2, <1>5, <1>7 DEF Sendpacket, Agents
<1>9. d = [b EXCEPT !.state = st, !.acknow = FALSE, !.delack = FALSE, !.maxseq = m, !.rtx = r]
  BY <1>3, <1>4, <1>6, <1>7, <1>8 DEF Emit, Agents
<1>10. d \in Agents
  <2>1. AgentShape(d)
    BY <1>8, <1>9 DEF Agents, AgentShape
  <2>2. d.acknow = FALSE /\ d.delack = FALSE /\ d.state = st /\ d.maxseq = m /\ d.rtx = r
    BY <1>8, <1>9 DEF Agents
  <2>3. /\ d.passive = b.passive /\ d.t_seqno = b.t_seqno /\ d.highest_ack = b.highest_ack
        /\ d.curseq = b.curseq /\ d.rq = b.rq /\ d.last_ack_sent = b.last_ack_sent
        /\ d.dtimer = b.dtimer /\ d.close_on_empty = b.close_on_empty
        /\ d.dupacks = b.dupacks /\ d.fastrecov = b.fastrecov /\ d.recover = b.recover
        /\ d.lastdup = b.lastdup /\ d.cwnd = b.cwnd /\ d.out = b.out
    BY <1>8, <1>9 DEF Agents
  <2>4. AgentParts(b)
    BY <1>8, AgentFields
  <2>5. AgentParts(d)
    BY <2>2, <2>3, <2>4, <1>5 DEF AgentParts, rcv_nxt
  <2> QED BY <2>1, <2>5, AgentMade
<1>11. Emitted(c, d, p, k, st)
  BY <1>2, <1>3, <1>4, <1>5, <1>8, <1>9, <1>10 DEF Agents, Emitted
<1> QED BY <1>6, <1>11

LEMMA PacketIs ==
  ASSUME NEW seq \in Int, NEW ackno \in Int, NEW len \in Int, NEW flags,
         NEW p, p = Packet(seq, ackno, len, flags)
  PROVE  /\ p \in Segments /\ p.seq = seq /\ p.ackno = ackno /\ p.len = len
         /\ (p.syn <=> "SYN" \in flags) /\ (p.fin <=> "FIN" \in flags) /\ (p.ack <=> "ACK" \in flags)
<1>1. PICK s : s = ("SYN" \in flags)
  OBVIOUS
<1>2. PICK f : f = ("FIN" \in flags)
  OBVIOUS
<1>3. PICK a : a = ("ACK" \in flags)
  OBVIOUS
<1>4. s \in BOOLEAN /\ f \in BOOLEAN /\ a \in BOOLEAN
  BY <1>1, <1>2, <1>3
<1>5. p = [seq |-> seq, ackno |-> ackno, len |-> len, syn |-> s, fin |-> f, ack |-> a]
  BY <1>1, <1>2, <1>3 DEF Packet
<1>6. p \in Segments
  BY <1>4, <1>5 DEF Segments
<1>7. p.syn = s /\ p.fin = f /\ p.ack = a
  BY <1>5
<1>8. (p.syn <=> "SYN" \in flags) /\ (p.fin <=> "FIN" \in flags) /\ (p.ack <=> "ACK" \in flags)
  BY <1>1, <1>2, <1>3, <1>7, Zenon
<1> QED BY <1>5, <1>6, <1>8

LEMMA OutflagsAre ==
  ASSUME NEW st \in States
  PROVE  /\ st \in DataFlows \cup {"FIN_WAIT_2", "CLOSED"} => outflags(st) = {"ACK"}
         /\ st \in FinGoes => outflags(st) = {"FIN", "ACK"}
         /\ st = "SYN_SENT" => outflags(st) = {"SYN"}
         /\ st = "SYN_RECEIVED" => outflags(st) = {"SYN", "ACK"}
  BY DEF outflags, States, DataFlows, FinGoes

\* SYN and FIN take a sequence number each
LEMMA Counting ==
  /\ Cardinality({}) = 0 /\ Cardinality({"SYN"}) = 1 /\ Cardinality({"FIN"}) = 1
  BY FS_EmptySet, FS_Singleton

\* The segment foutput would send at seq
Output(c, seq) == Packet(seq, rcv_nxt(c), Datalen(c, seq), Flags(c, seq))

OutputOf(c, seq, p, k) ==
  /\ p \in Segments /\ p.seq = seq /\ p.ackno = rcv_nxt(c)
  /\ p.len \in Int /\ 0 <= p.len /\ p.len <= MSS
  /\ k \in Int

LEMMA OutputIs ==
  ASSUME NEW c \in Agents, NEW seq \in Int, NEW p, p = Output(c, seq),
         NEW k, k = Reliable(c, seq), NEW fl, fl = Flags(c, seq),
         fl \cap {"SYN", "FIN"} \in {{}, {"SYN"}, {"FIN"}}
  PROVE  /\ OutputOf(c, seq, p, k) /\ p.len = Datalen(c, seq)
         /\ (p.syn <=> "SYN" \in fl) /\ (p.fin <=> "FIN" \in fl) /\ (p.ack <=> "ACK" \in fl)
         /\ k = p.len + (IF fl \cap {"SYN", "FIN"} = {} THEN 0 ELSE 1)
<1>1. rcv_nxt(c) \in Int
  BY AgentFields DEF AgentParts
<1>2. PICK n : n = Datalen(c, seq)
  OBVIOUS
<1>3. n \in Int /\ 0 <= n /\ n <= MSS
  BY <1>2, DatalenIs
<1>4. p = Packet(seq, rcv_nxt(c), n, fl)
  BY <1>2 DEF Output
<1>5. /\ p \in Segments /\ p.seq = seq /\ p.ackno = rcv_nxt(c) /\ p.len = n
      /\ (p.syn <=> "SYN" \in fl) /\ (p.fin <=> "FIN" \in fl) /\ (p.ack <=> "ACK" \in fl)
  BY <1>1, <1>3, <1>4, PacketIs
<1>6. k = n + Cardinality(fl \cap {"SYN", "FIN"})
  BY <1>2 DEF Reliable
<1>7. Cardinality(fl \cap {"SYN", "FIN"}) = IF fl \cap {"SYN", "FIN"} = {} THEN 0 ELSE 1
  BY Counting
<1> QED BY <1>2, <1>3, <1>5, <1>6, <1>7 DEF OutputOf

\* Data, and the FIN of an agent that closes on empty
LEMMA DataOutput ==
  ASSUME NEW c \in Agents, c.state \in DataFlows, 1 <= c.highest_ack,
         NEW seq \in Int, 1 <= seq, seq <= c.curseq + 1,
         NEW p, p = Output(c, seq), NEW k, k = Reliable(c, seq)
  PROVE  /\ OutputOf(c, seq, p, k) /\ ~p.syn /\ p.ack
         /\ (p.fin <=> Closes(c, seq))
         /\ k = p.len + (IF p.fin THEN 1 ELSE 0)
         /\ p.seq + p.len <= c.curseq + 1
         /\ p.fin => p.seq + p.len = c.curseq + 1 /\ c.state = "ESTABLISHED"
<1>1. PICK fl : fl = Flags(c, seq)
  OBVIOUS
<1>2. PICK x : x = Closes(c, seq)
  OBVIOUS
<1>3. x \in BOOLEAN
  BY <1>2 DEF Closes
<1>4. c.state \in States /\ c.curseq \in Int
  BY AgentFields DEF AgentParts
<1>5. fl = IF x THEN {"ACK", "FIN"} ELSE {"ACK"}
  <2>1. outflags(c.state) = {"ACK"}
    BY <1>4, OutflagsAre
  <2>2. PacketFlags(c, seq) = {"ACK"}
    BY <2>1 DEF PacketFlags
  <2> QED BY <1>1, <1>2, <2>2 DEF Flags
<1>6. fl \cap {"SYN", "FIN"} = IF x THEN {"FIN"} ELSE {}
  BY <1>5
<1>7. /\ OutputOf(c, seq, p, k) /\ p.len = Datalen(c, seq)
      /\ (p.syn <=> "SYN" \in fl) /\ (p.fin <=> "FIN" \in fl) /\ (p.ack <=> "ACK" \in fl)
      /\ k = p.len + (IF fl \cap {"SYN", "FIN"} = {} THEN 0 ELSE 1)
  BY <1>1, <1>6, OutputIs
<1>8. ~p.syn /\ p.ack /\ (p.fin <=> x)
  BY <1>3, <1>5, <1>7
<1>9. k = p.len + (IF x THEN 1 ELSE 0)
  BY <1>3, <1>6, <1>7
<1>10. p.seq = seq /\ p.len \in Int /\ p.seq + p.len <= c.curseq + 1
  BY <1>7, DatalenIs DEF OutputOf
<1>11. x => p.seq + p.len = c.curseq + 1 /\ c.state = "ESTABLISHED"
  <2>1. SUFFICES ASSUME x PROVE p.seq + p.len = c.curseq + 1 /\ c.state = "ESTABLISHED"
    OBVIOUS
  <2>2. Emptying(c, seq) /\ c.state = "ESTABLISHED"
    BY <1>2, <2>1 DEF Closes, NeedClose, DataFlows
  <2>3. seq + p.len > c.curseq
    BY <1>7, <2>2 DEF Emptying, ISS
  <2> QED BY <1>4, <1>10, <2>2, <2>3
<1> QED BY <1>2, <1>7, <1>8, <1>9, <1>10, <1>11

\* What is left of the data, and the FIN behind it
LEMMA FinOutput ==
  ASSUME NEW c \in Agents, c.state \in FinGoes, 1 <= c.highest_ack,
         NEW seq \in Int, 1 <= seq, seq <= c.curseq + 1,
         NEW p, p = Output(c, seq), NEW k, k = Reliable(c, seq)
  PROVE  /\ OutputOf(c, seq, p, k) /\ ~p.syn /\ p.ack
         /\ ~Closes(c, seq)
         /\ k = p.len + (IF p.fin THEN 1 ELSE 0)
         /\ p.seq + p.len <= c.curseq + 1
         /\ p.fin <=> p.seq + p.len = c.curseq + 1
<1>1. PICK fl : fl = Flags(c, seq)
  OBVIOUS
<1>2. PICK x : x = Emptying(c, seq)
  OBVIOUS
<1>3. x \in BOOLEAN
  BY <1>2 DEF Emptying
<1>4. c.state \in States /\ c.curseq \in Int
  BY AgentFields DEF AgentParts
<1>5. ~Closes(c, seq)
  BY DEF Closes, FinGoes
<1>6. fl = IF x THEN {"FIN", "ACK"} ELSE {"ACK"}
  <2>1. outflags(c.state) = {"FIN", "ACK"}
    BY <1>4, OutflagsAre
  <2>2. fl = PacketFlags(c, seq)
    BY <1>1, <1>5 DEF Flags
  <2> QED BY <1>2, <2>1, <2>2 DEF PacketFlags
<1>7. fl \cap {"SYN", "FIN"} = IF x THEN {"FIN"} ELSE {}
  BY <1>6
<1>8. /\ OutputOf(c, seq, p, k) /\ p.len = Datalen(c, seq)
      /\ (p.syn <=> "SYN" \in fl) /\ (p.fin <=> "FIN" \in fl) /\ (p.ack <=> "ACK" \in fl)
      /\ k = p.len + (IF fl \cap {"SYN", "FIN"} = {} THEN 0 ELSE 1)
  BY <1>1, <1>7, OutputIs
<1>9. ~p.syn /\ p.ack /\ (p.fin <=> x)
  BY <1>3, <1>6, <1>8
<1>10. k = p.len + (IF x THEN 1 ELSE 0)
  BY <1>3, <1>7, <1>8
<1>11. p.seq = seq /\ p.len \in Int /\ p.seq + p.len <= c.curseq + 1
  BY <1>8, DatalenIs DEF OutputOf
<1>12. x <=> p.seq + p.len = c.curseq + 1
  <2>1. Emptying(c, seq) <=> seq + p.len > c.curseq
    BY <1>8 DEF Emptying, ISS
  <2>2. seq + p.len > c.curseq <=> p.seq + p.len = c.curseq + 1
    BY <1>4, <1>11
  <2>3. x <=> Emptying(c, seq)
    BY <1>2, <1>3, Zenon
  <2> QED BY <2>1, <2>2, <2>3, Zenon
<1> QED BY <1>5, <1>8, <1>9, <1>10, <1>11, <1>12

\* An agent that has everything acknowledged, or nothing at all, to say
LEMMA QuietOutput ==
  ASSUME NEW c \in Agents, c.state \in {"FIN_WAIT_2", "CLOSED"},
         NEW seq \in Int, seq = 0 \/ (1 <= c.highest_ack /\ c.curseq + 1 <= seq),
         NEW p, p = Output(c, seq), NEW k, k = Reliable(c, seq)
  PROVE  /\ OutputOf(c, seq, p, k) /\ ~p.syn /\ p.ack /\ ~p.fin
         /\ ~Closes(c, seq) /\ p.len = 0 /\ k = 0
<1>1. PICK fl : fl = Flags(c, seq)
  OBVIOUS
<1>2. c.state \in States
  BY AgentFields DEF AgentParts
<1>3. ~Closes(c, seq)
  BY DEF Closes
<1>4. fl = {"ACK"}
  <2>1. outflags(c.state) = {"ACK"}
    BY <1>2, OutflagsAre
  <2> QED BY <1>1, <1>3, <2>1 DEF Flags, PacketFlags
<1>5. fl \cap {"SYN", "FIN"} = {}
  BY <1>4
<1>6. /\ OutputOf(c, seq, p, k) /\ p.len = Datalen(c, seq)
      /\ (p.syn <=> "SYN" \in fl) /\ (p.fin <=> "FIN" \in fl) /\ (p.ack <=> "ACK" \in fl)
      /\ k = p.len + (IF fl \cap {"SYN", "FIN"} = {} THEN 0 ELSE 1)
  BY <1>1, <1>5, OutputIs
<1>7. ~p.syn /\ p.ack /\ ~p.fin
  BY <1>4, <1>6
<1>8. p.len = 0
  BY <1>6, DatalenIs
<1> QED BY <1>3, <1>5, <1>6, <1>7, <1>8

\* SYN, alone or with ACK
LEMMA SynOutput ==
  ASSUME NEW c \in Agents, c.state \in {"SYN_SENT", "SYN_RECEIVED"},
         NEW p, p = Output(c, 0), NEW k, k = Reliable(c, 0)
  PROVE  /\ OutputOf(c, 0, p, k) /\ p.syn /\ ~p.fin
         /\ (p.ack <=> c.state = "SYN_RECEIVED")
         /\ ~Closes(c, 0) /\ p.len = 0 /\ k = 1 /\ Emits(c, 0)
<1>1. PICK fl : fl = Flags(c, 0)
  OBVIOUS
<1>2. c.state \in States /\ 0 \in Int
  BY AgentFields DEF AgentParts
<1>3. ~Closes(c, 0)
  BY DEF Closes, NeedClose, ISS
<1>4. fl = outflags(c.state) /\ PacketFlags(c, 0) = fl
  <2>1. Emptying(c, 0)
    BY DEF Emptying, ISS
  <2> QED BY <1>1, <1>3, <2>1 DEF Flags, PacketFlags
<1>5. fl = IF c.state = "SYN_RECEIVED" THEN {"SYN", "ACK"} ELSE {"SYN"}
  BY <1>2, <1>4, OutflagsAre
<1>6. fl \cap {"SYN", "FIN"} = {"SYN"} /\ {"SYN"} # {}
  BY <1>5
<1>7. /\ OutputOf(c, 0, p, k) /\ p.len = Datalen(c, 0)
      /\ (p.syn <=> "SYN" \in fl) /\ (p.fin <=> "FIN" \in fl) /\ (p.ack <=> "ACK" \in fl)
      /\ k = p.len + (IF fl \cap {"SYN", "FIN"} = {} THEN 0 ELSE 1)
  BY <1>1, <1>2, <1>6, OutputIs
<1>8. p.syn /\ ~p.fin /\ (p.ack <=> c.state = "SYN_RECEIVED")
  BY <1>5, <1>7
<1>9. p.len = 0
  BY <1>2, <1>7, DatalenIs
<1>10. Emits(c, 0)
  BY <1>4, <1>6 DEF Emits
<1> QED BY <1>3, <1>6, <1>7, <1>8, <1>9, <1>10

-----------------------------------------------------------------------------
(* What a call of foutput leaves *)

Ints(c) ==
  /\ c.t_seqno \in Int /\ c.maxseq \in Int /\ c.highest_ack \in Int /\ c.curseq \in Int
  /\ rcv_nxt(c) \in Int /\ c.recover \in Int /\ c.last_ack_sent \in Int
  /\ c.dupacks \in Int /\ c.cwnd \in Int /\ Top(c) \in Int

LEMMA AgentInts ==
  ASSUME NEW c \in Agents
  PROVE  Ints(c)
<1>1. /\ c.t_seqno \in Int /\ c.maxseq \in Int /\ c.highest_ack \in Int /\ c.curseq \in Int
      /\ rcv_nxt(c) \in Int /\ c.recover \in Int /\ c.last_ack_sent \in Int
      /\ c.dupacks \in Int /\ c.cwnd \in Int
  BY AgentFields DEF AgentParts
<1>2. Top(c) \in Int
  BY <1>1 DEF Top, MinOf
<1> QED BY <1>1, <1>2 DEF Ints

\* A segment that was true of an agent is true of it later
LEMMA FromGrown ==
  ASSUME NEW c \in Agents, NEW x \in Agents, Grown(c, x), NEW p, From(p, c)
  PROVE  From(p, x)
<1>1. Ints(c) /\ Ints(x) /\ Framed(p)
  BY AgentInts DEF From
<1>2. p.seq \in Int /\ p.ackno \in Int /\ p.len \in Int
  BY <1>1 DEF Framed, Segments
<1>3. CASE Blank(x)
  BY <1>1, <1>3 DEF From, Blank, Ints
<1>4. CASE ~Blank(x)
  <2>1. /\ 1 <= c.maxseq /\ c.maxseq <= x.maxseq /\ rcv_nxt(c) <= rcv_nxt(x)
        /\ Top(c) <= Top(x) /\ (FinSent(c) => FinSent(x) /\ Top(x) = Top(c))
    BY <1>4 DEF Grown
  <2>2. ~Blank(c)
    BY <2>1, <1>1 DEF Blank, Ints
  <2>3. Truthful(p, c) /\ (p.ack => 1 <= p.ackno)
    BY <2>1, <2>2 DEF From
  <2>4. Top(c) \in Int /\ Top(x) \in Int
    BY <1>1 DEF Ints
  <2>5. rcv_nxt(c) \in Int /\ rcv_nxt(x) \in Int
    BY <1>1 DEF Ints
  <2>6. p.ack => p.ackno <= rcv_nxt(x)
    BY <2>1, <2>3, <2>5, <1>2 DEF Truthful
  <2>7. (p.len = 0 /\ ~p.fin) \/ p.seq + p.len <= Top(x)
    BY <2>1, <2>3, <2>4, <1>2 DEF Truthful
  <2>8. p.fin => FinSent(x) /\ p.seq + p.len = Top(x)
    BY <2>1, <2>3 DEF Truthful
  <2>9. Truthful(p, x)
    BY <2>6, <2>7, <2>8 DEF Truthful
  <2> QED BY <2>3, <2>9, <1>1 DEF From
<1> QED BY <1>3, <1>4

LEMMA OutGrown ==
  ASSUME NEW c \in Agents, NEW x \in Agents, Grown(c, x), OutFrom(c)
  PROVE  /\ x.out = c.out => OutFrom(x)
         /\ \A p \in Segments : x.out = Append(c.out, p) /\ From(p, x) => OutFrom(x)
<1>1. c.out \in Seq(Segments)
  BY AgentFields DEF AgentParts
<1>2. ASSUME x.out = c.out PROVE OutFrom(x)
  BY <1>2, FromGrown DEF OutFrom
<1>3. ASSUME NEW p \in Segments, x.out = Append(c.out, p), From(p, x) PROVE OutFrom(x)
  <2>1. ASSUME NEW i \in 1..Len(x.out) PROVE From(x.out[i], x)
    <3>1. CASE i = Len(c.out) + 1
      BY <3>1, <1>1, <1>3
    <3>2. CASE i # Len(c.out) + 1
      <4>1. i \in 1..Len(c.out) /\ x.out[i] = c.out[i]
        BY <3>2, <2>1, <1>1, <1>3
      <4> QED BY <4>1, FromGrown DEF OutFrom
    <3> QED BY <3>1, <3>2
  <2> QED BY <2>1 DEF OutFrom
<1> QED BY <1>2, <1>3

LEMMA OutAckMore ==
  ASSUME NEW c \in Agents, NEW x, NEW n, OutAck(c, n), NEW p \in Segments,
         x.out = Append(c.out, p), p.ackno = n
  PROVE  OutAck(x, n)
<1>1. c.out \in Seq(Segments)
  BY AgentFields DEF AgentParts
<1>2. ASSUME NEW i \in 1..Len(x.out), x.out[i].fin PROVE x.out[i].ackno = n
  <2>1. CASE i = Len(c.out) + 1
    BY <2>1, <1>1
  <2>2. CASE i # Len(c.out) + 1
    <3>1. i \in 1..Len(c.out) /\ x.out[i] = c.out[i]
      BY <2>2, <1>2, <1>1
    <3> QED BY <3>1, <1>2 DEF OutAck
  <2> QED BY <2>1, <2>2
<1> QED BY <1>2 DEF OutAck

\* What foutput and send_much leave alone
Keeps(c, x) ==
  /\ x.passive = c.passive /\ x.highest_ack = c.highest_ack /\ x.curseq = c.curseq
  /\ x.rq = c.rq /\ x.cwnd = c.cwnd /\ x.dupacks = c.dupacks /\ x.recover = c.recover
  /\ c.maxseq <= x.maxseq
  /\ OutAck(c, rcv_nxt(c)) => OutAck(x, rcv_nxt(c))

\* Data, the FIN of an agent that closes on empty, what follows a close
Flow(c) ==
  \/ c.state \in DataFlows /\ Sending(c)
  \/ c.state \in FinGoes /\ Winding(c)

\* close_on_empty_ is the only way to another state
Forward(c, x) ==
  \/ x.state = c.state
  \/ c.state = "ESTABLISHED" /\ x.state = "FIN_WAIT_1" /\ x.highest_ack < x.maxseq

\* n bytes go out at seq, and perhaps a FIN behind them
Emission(c, x, seq, n, k) ==
  /\ n \in Nat /\ seq + n <= c.curseq + 1 /\ x.maxseq = MaxOf(c.maxseq, seq + k)
  /\ \/ x.state = c.state /\ k = n /\ (c.state \in FinGoes => seq + n <= c.curseq)
     \/ x.state \in FinGoes /\ k = n + 1 /\ seq + n = c.curseq + 1

LEMMA EmittedKept ==
  ASSUME NEW c \in Agents, NEW x, NEW p \in Segments, NEW k \in Int, NEW st,
         Emitted(c, x, p, k, st), p.ackno = rcv_nxt(c)
  PROVE  x \in Agents /\ Keeps(c, x) /\ x.t_seqno = c.t_seqno
<1>1. AgentParts(c) /\ x \in Agents /\ p.seq \in Int
  BY AgentFields DEF Emitted, Segments
<1>2. c.maxseq <= x.maxseq
  BY <1>1 DEF Emitted, MaxOf, AgentParts
<1>3. OutAck(c, rcv_nxt(c)) => OutAck(x, rcv_nxt(c))
  BY OutAckMore DEF Emitted
<1> QED BY <1>1, <1>2, <1>3 DEF Keeps, Emitted

\* With the same curseq_ and rcv_nxt_ an agent grows as maxseq_ does
LEMMA KeptGrown ==
  ASSUME NEW c \in Agents, NEW x \in Agents, Keeps(c, x), 1 <= c.maxseq,
         x.maxseq <= x.curseq + 2
  PROVE  Grown(c, x)
<1>1. Ints(c) /\ Ints(x)
  BY AgentInts
<1>2. rcv_nxt(x) = rcv_nxt(c) /\ x.curseq = c.curseq /\ c.maxseq <= x.maxseq
  BY DEF Keeps, rcv_nxt
<1> QED BY <1>1, <1>2 DEF Grown, Top, FinSent, MinOf, Ints

\* A segment sent in the flow is true of the sender
LEMMA FlowFrom ==
  ASSUME NEW c \in Agents, NEW x \in Agents, Fits(c), Grown(c, x), 1 <= rcv_nxt(c),
         x.rq = c.rq, ~Blank(x), x.curseq = c.curseq,
         NEW seq \in Int, 1 <= seq, NEW k \in Int, NEW p, OutputOf(c, seq, p, k), ~p.syn, p.ack,
         p.seq + p.len <= c.curseq + 1, p.seq + p.len <= x.maxseq,
         p.fin => FinSent(x) /\ p.seq + p.len = c.curseq + 1
  PROVE  From(p, x)
<1>1. Ints(c) /\ Ints(x) /\ Most \in Int
  BY AgentInts, Bounds
<1>2. p.seq = seq /\ p.ackno = rcv_nxt(c) /\ p \in Segments /\ p.len \in Int /\ 0 <= p.len /\ p.len <= MSS
  BY DEF OutputOf
<1>3. rcv_nxt(x) = rcv_nxt(c) /\ rcv_nxt(c) <= Most + 2 /\ c.curseq <= Most
  BY DEF rcv_nxt, Fits
<1>4. 0 <= p.seq /\ p.seq <= Most + 2 /\ -1 <= p.ackno /\ p.ackno <= Most + 2
  BY <1>1, <1>2, <1>3 DEF Ints
<1>5. Framed(p)
  BY <1>2, <1>4 DEF Framed
<1>6. p.seq + p.len <= Top(x)
  BY <1>1, <1>2 DEF Ints, Top, MinOf
<1>7. p.fin => p.seq + p.len = Top(x)
  BY <1>1, <1>2 DEF Ints, Top, MinOf, FinSent
<1>8. p.ackno <= rcv_nxt(x) /\ 1 <= p.ackno
  BY <1>1, <1>2, <1>3 DEF Ints
<1>9. Truthful(p, x)
  BY <1>6, <1>7, <1>8 DEF Truthful
<1> QED BY <1>5, <1>8, <1>9 DEF From

LEMMA FlowOutput ==
  ASSUME NEW c, Well(c), Flow(c), NEW seq \in Int, c.highest_ack <= seq, seq <= c.curseq + 1,
         Emits(c, seq), NEW k, k = Reliable(c, seq), NEW x, x = foutput(c, seq)
  PROVE  /\ Well(x) /\ Flow(x) /\ Keeps(c, x) /\ x.t_seqno = c.t_seqno /\ Forward(c, x)
         /\ \E n \in Nat : Emission(c, x, seq, n, k)
<1>1. c \in Agents /\ Fits(c) /\ OutFrom(c) /\ Ints(c) /\ c.state \in States
  BY AgentInts, AgentFields DEF Well, AgentParts
<1>2. Talking(c) /\ c.maxseq <= c.curseq + 2
  BY <1>1 DEF Flow, Sending, Winding, Ints
<1>3. 1 <= c.highest_ack /\ 1 <= seq /\ 1 <= c.maxseq /\ 1 <= rcv_nxt(c)
  BY <1>1, <1>2 DEF Talking, Ints
<1>4. PICK p : p = Output(c, seq)
  OBVIOUS
<1>5. PICK z : z = Closes(c, seq)
  OBVIOUS
<1>6. /\ OutputOf(c, seq, p, k) /\ ~p.syn /\ p.ack
      /\ k = p.len + (IF p.fin THEN 1 ELSE 0)
      /\ p.seq + p.len <= c.curseq + 1
      /\ p.fin => p.seq + p.len = c.curseq + 1
      /\ Closes(c, seq) => p.fin /\ c.state = "ESTABLISHED"
      /\ c.state \in DataFlows /\ p.fin => Closes(c, seq)
      /\ c.state \in FinGoes => (p.fin <=> p.seq + p.len = c.curseq + 1)
  <2>1. CASE c.state \in DataFlows
    <3>1. c.state \notin FinGoes
      BY <2>1 DEF DataFlows, FinGoes
    <3> QED BY <1>1, <1>3, <1>4, <2>1, <3>1, DataOutput
  <2>2. CASE c.state \in FinGoes
    <3>1. c.state \notin DataFlows
      BY <2>2 DEF DataFlows, FinGoes
    <3> QED BY <1>1, <1>3, <1>4, <2>2, <3>1, FinOutput
  <2> QED BY <2>1, <2>2 DEF Flow
<1>7. PICK st : st = IF Closes(c, seq) THEN "FIN_WAIT_1" ELSE c.state
  OBVIOUS
<1>8. st \in States /\ p \in Segments /\ p.seq = seq /\ p.ackno = rcv_nxt(c) /\ k \in Int /\ p.len \in Nat
  BY <1>1, <1>6, <1>7 DEF OutputOf, States
<1>9. Emitted(c, x, p, k, st)
  BY <1>1, <1>4, <1>7, <1>8, EmitIs DEF foutput, Output
<1>10. x \in Agents /\ Keeps(c, x) /\ x.t_seqno = c.t_seqno
  BY <1>1, <1>8, <1>9, EmittedKept
<1>11. x.maxseq = MaxOf(c.maxseq, seq + k) /\ x.state = st /\ x.out = Append(c.out, p)
       /\ x.curseq = c.curseq /\ x.highest_ack = c.highest_ack /\ x.rq = c.rq /\ x.recover = c.recover
       /\ x.last_ack_sent = rcv_nxt(c)
  BY <1>8, <1>9 DEF Emitted
<1>12. Ints(x) /\ rcv_nxt(x) = rcv_nxt(c)
  BY <1>10, <1>11, AgentInts DEF rcv_nxt
<1>13. x.maxseq <= x.curseq + 2 /\ seq + p.len <= x.maxseq /\ (p.fin => FinSent(x))
  <2>1. k = p.len \/ k = p.len + 1
    BY <1>6, <1>8
  <2>2. (p.fin => k = p.len + 1 /\ seq + p.len = c.curseq + 1)
    BY <1>6, <1>8
  <2>3. seq + p.len <= c.curseq + 1 /\ c.maxseq \in Int /\ c.curseq \in Int /\ c.maxseq <= c.curseq + 2
    BY <1>1, <1>2, <1>6, <1>8 DEF Ints
  <2>4. PICK t : t = x.maxseq
    OBVIOUS
  <2>5. t = MaxOf(c.maxseq, seq + k)
    BY <2>4, <1>11
  <2>6. t <= c.curseq + 2 /\ seq + p.len <= t
        /\ (k = p.len + 1 /\ seq + p.len = c.curseq + 1 => t = c.curseq + 2)
    <3>1. PICK n \in Nat : n = p.len
      BY <1>8
    <3>2. PICK m \in Int : m = c.maxseq
      BY <2>3
    <3>3. PICK last \in Int : last = c.curseq
      BY <2>3
    <3>4. /\ k \in Int /\ (k = n \/ k = n + 1) /\ seq + n <= last + 1 /\ m <= last + 2
          /\ t = MaxOf(m, seq + k)
      BY <3>1, <3>2, <3>3, <2>1, <2>3, <2>5, <1>8
    <3>5. t <= last + 2 /\ seq + n <= t /\ (k = n + 1 /\ seq + n = last + 1 => t = last + 2)
      BY <3>4 DEF MaxOf
    <3> QED BY <3>1, <3>2, <3>3, <3>5
  <2>7. x.curseq = c.curseq
    BY <1>11
  <2> QED BY <2>2, <2>4, <2>6, <2>7 DEF FinSent
<1>14. Grown(c, x)
  BY <1>1, <1>3, <1>10, <1>13, KeptGrown
<1>15. ~Blank(x)
  BY <1>1, <1>3, <1>11, <1>12 DEF Blank, Ints, MaxOf
<1>16. From(p, x)
  BY <1>1, <1>3, <1>6, <1>8, <1>10, <1>11, <1>13, <1>14, <1>15, FlowFrom
<1>17. OutFrom(x)
  BY <1>1, <1>8, <1>10, <1>11, <1>14, <1>16, OutGrown
<1>18. Fits(x)
  <2>1. 0 <= c.recover /\ c.recover <= MaxOf(c.maxseq, 0) /\ c.curseq <= Most
        /\ rcv_nxt(c) <= Most + 2
    BY <1>1 DEF Fits
  <2>2. c.maxseq <= x.maxseq
    BY <1>10 DEF Keeps
  <2>3. c.recover \in Int /\ c.maxseq \in Int /\ x.maxseq \in Int /\ rcv_nxt(c) \in Int
    BY <1>1, <1>12 DEF Ints
  <2>4. x.recover = c.recover /\ x.curseq = c.curseq /\ x.last_ack_sent = rcv_nxt(c)
    BY <1>11
  <2>5. x.recover <= MaxOf(x.maxseq, 0)
    BY <2>1, <2>2, <2>3, <2>4 DEF MaxOf
  <2>6. -1 <= x.last_ack_sent /\ x.last_ack_sent <= rcv_nxt(x)
    BY <2>3, <2>4, <1>3, <1>12
  <2>7. 0 <= x.recover /\ x.curseq <= Most /\ rcv_nxt(x) <= Most + 2
    BY <2>1, <2>4, <1>12
  <2> QED BY <2>5, <2>6, <2>7 DEF Fits
<1>19. Emission(c, x, seq, p.len, k)
  <2>1. CASE p.fin
    <3>1. x.state \in FinGoes
      BY <2>1, <1>6, <1>7, <1>11 DEF Flow, FinGoes
    <3> QED BY <2>1, <3>1, <1>6, <1>8, <1>11 DEF Emission
  <2>2. CASE ~p.fin
    <3>1. x.state = c.state /\ k = p.len
      BY <2>2, <1>6, <1>7, <1>8, <1>11
    <3>2. c.state \in FinGoes => seq + p.len <= c.curseq
      BY <2>2, <1>1, <1>6, <1>8 DEF Ints
    <3> QED BY <3>1, <3>2, <1>6, <1>8, <1>11 DEF Emission
  <2> QED BY <2>1, <2>2
<1>20. Flow(x) /\ Forward(c, x)
  <2>1. Talking(x)
    BY <1>1, <1>2, <1>10, <1>11, <1>12, SMTT(30) DEF Talking, Ints, MaxOf
  <2>2. CASE Closes(c, seq)
    <3>1. x.state = "FIN_WAIT_1" /\ c.state = "ESTABLISHED" /\ p.fin
      BY <2>2, <1>6, <1>7, <1>11
    <3>2. x.maxseq = x.curseq + 2
      BY <3>1, <1>13 DEF FinSent
    <3>3. x.highest_ack < x.maxseq /\ Winding(x)
      BY <3>2, <2>1, <1>12 DEF Winding, Talking, Ints
    <3> QED BY <3>1, <3>3 DEF Flow, Forward, FinGoes
  <2>3. CASE ~Closes(c, seq) /\ c.state \in DataFlows
    <3>1. x.state = c.state /\ ~p.fin
      BY <2>3, <1>6, <1>7, <1>11
    <3>2. Sending(c)
      BY <2>3 DEF Flow, DataFlows, FinGoes
    <3>3. Sending(x)
      BY <3>1, <3>2, <2>1, <1>1, <1>6, <1>8, <1>10, <1>11, <1>12, SMTT(30) DEF Sending, Ints, MaxOf
    <3> QED BY <3>1, <3>3, <2>3 DEF Flow, Forward
  <2>4. CASE ~Closes(c, seq) /\ c.state \in FinGoes
    <3>1. x.state = c.state
      BY <2>4, <1>7, <1>11
    <3>2. Winding(c)
      BY <2>4 DEF Flow, DataFlows, FinGoes
    <3>3. Winding(x)
      BY <3>2, <2>1, <1>1, <1>11, <1>12, <1>13, SMTT(30) DEF Winding, Ints, MaxOf
    <3> QED BY <3>1, <3>3, <2>4 DEF Flow, Forward
  <2> QED BY <2>2, <2>3, <2>4 DEF Flow
<1> QED BY <1>8, <1>10, <1>17, <1>18, <1>19, <1>20 DEF Well

-----------------------------------------------------------------------------
(* send_much *)

\* The turns of send_much from a on
Turns(last, a, f) ==
  [i \in 0..last |-> IF i = 0 THEN a ELSE Turn(f[i - 1])]

LEMMA TurnsExist ==
  ASSUME NEW last \in Nat, NEW V, NEW a \in V, \A s \in V : Turn(s) \in V
  PROVE  \E g \in [0..last -> V] : g = Turns(last, a, g)
<1> DEFINE F == [p \in (1..last) \X V |-> Turn(p[2])]
<1>1. F \in [(1..last) \X V -> V]
  <2>1. ASSUME NEW p \in (1..last) \X V PROVE Turn(p[2]) \in V
    <3>1. p[2] \in V
      OBVIOUS
    <3> QED BY <3>1
  <2> QED BY <2>1
<1>2. PICK g \in [0..last -> V] : Recursive(g, a, last, F)
  <2> HIDE DEF F
  <2> QED BY <1>1, PrimitiveRecursion
<1>3. ASSUME NEW i \in 1..last PROVE g[i] = Turn(g[i - 1])
  <2>1. i - 1 \in 0..last /\ g[i - 1] \in V
    OBVIOUS
  <2>2. <<i, g[i - 1]>> \in (1..last) \X V /\ <<i, g[i - 1]>>[2] = g[i - 1]
    BY <2>1
  <2>3. g[i] = F[<<i, g[i - 1]>>]
    BY <1>2, Zenon DEF Recursive
  <2> QED BY <2>2, <2>3
<1>4. g[0] = a
  BY <1>2 DEF Recursive
<1>5. ASSUME NEW i \in 0..last PROVE g[i] = IF i = 0 THEN a ELSE Turn(g[i - 1])
  <2>1. CASE i = 0
    BY <2>1, <1>4
  <2>2. CASE i # 0
    <3>1. i \in 1..last
      BY <2>2
    <3> QED BY <2>2, <3>1, <1>3
  <2> QED BY <2>1, <2>2
<1>6. g = Turns(last, a, g)
  BY <1>5, Zenon DEF Turns
<1> QED BY <1>6

\* What the first turn establishes and every other turn keeps holds at the end
LEMMA SendMuchIn ==
  ASSUME NEW c \in Agents, NEW force \in BOOLEAN, NEW W,
         Turn([c |-> c, force |-> force, on |-> TRUE]) \in W,
         \A s \in W : Turn(s) \in W
  PROVE  \E s \in W : SendMuch(c, force) = s.c
<1> DEFINE a == [c |-> c, force |-> force, on |-> TRUE]
<1>1. PICK last : last = 1 + MaxOf(0, c.curseq + 1 - c.t_seqno)
  OBVIOUS
<1>2. last \in Nat /\ 1 <= last
  BY <1>1, AgentInts DEF Ints, MaxOf
<1> DEFINE D(f) == [i \in 0..last |-> IF i = 0 THEN a ELSE Turn(f[i - 1])]
           k == CHOOSE f : f = D(f)
<1>3. SendMuch(c, force) = k[last].c
  BY <1>1, Zenon DEF SendMuch
<1>4. Turn(a) \in W
  OBVIOUS
<1> HIDE DEF a
<1>5. PICK g : g = D(g)
  <2> DEFINE V == W \cup {a}
  <2>1. a \in V /\ \A s \in V : Turn(s) \in V
    BY <1>4
  <2> HIDE DEF V
  <2>2. PICK g \in [0..last -> V] : g = Turns(last, a, g)
    BY <2>1, <1>2, TurnsExist
  <2> QED BY <2>2, Zenon DEF Turns
<1>6. k = D(k)
  <2> HIDE DEF D
  <2> QED BY <1>5, Zenon
<1> HIDE DEF k
<1>7. \A i \in 0..last : k[i] = IF i = 0 THEN a ELSE Turn(k[i - 1])
  BY <1>6, Zenon
<1> HIDE DEF D
<1> DEFINE T == {i \in 0..last : i = 0 \/ k[i] \in W}
<1>8. 0 \in T
  BY <1>2
<1>9. ASSUME NEW i \in 1..last, i - 1 \in T PROVE i \in T
  <2>1. i \in 0..last /\ i # 0 /\ i - 1 \in 0..last
    BY <1>2
  <2>2. k[i] = Turn(k[i - 1])
    BY <2>1, <1>7
  <2>3. CASE i = 1
    <3>1. k[0] = a
      BY <1>2, <1>7
    <3>2. k[i] = Turn(a)
      BY <2>2, <2>3, <3>1
    <3> QED BY <2>1, <3>2, <1>4
  <2>4. CASE i # 1
    <3>1. k[i - 1] \in W
      BY <2>1, <2>4, <1>9
    <3> QED BY <2>1, <2>2, <3>1
  <2> QED BY <2>3, <2>4
<1>10. k[last] \in W
  <2> HIDE DEF T
  <2>1. 0..last \subseteq T
    BY <1>2, <1>8, <1>9, IntervalInduction
  <2>2. last \in T
    BY <2>1, <1>2
  <2> USE DEF T
  <2> QED BY <2>2, <1>2
<1> QED BY <1>3, <1>10

Runs == [c : Agents, force : BOOLEAN, on : BOOLEAN]

Pushed(c) == c.state \in FinGoes => c.highest_ack < c.maxseq

Flowed(c, x) == Well(x) /\ Flow(x) /\ Keeps(c, x) /\ Forward(c, x)

LEMMA KeepsTransitive ==
  ASSUME NEW c \in Agents, NEW x \in Agents, NEW y \in Agents, Keeps(c, x), Keeps(x, y)
  PROVE  Keeps(c, y) /\ (Forward(c, x) /\ Forward(x, y) => Forward(c, y))
<1>1. Ints(c) /\ Ints(x) /\ Ints(y)
  BY AgentInts
<1>2. rcv_nxt(x) = rcv_nxt(c)
  BY DEF Keeps, rcv_nxt
<1>3. c.maxseq <= y.maxseq /\ x.maxseq <= y.maxseq
  BY <1>1 DEF Keeps, Ints
<1>4. y.highest_ack = x.highest_ack /\ x.highest_ack = c.highest_ack
  BY DEF Keeps
<1>5. Keeps(c, y)
  BY <1>2, <1>3 DEF Keeps
<1>6. ASSUME Forward(c, x), Forward(x, y) PROVE Forward(c, y)
  <2>1. CASE x.state = c.state
    BY <2>1, <1>6 DEF Forward
  <2>2. CASE x.state # c.state
    <3>1. c.state = "ESTABLISHED" /\ x.state = "FIN_WAIT_1" /\ x.highest_ack < x.maxseq
      BY <2>2, <1>6 DEF Forward
    <3>2. y.state = "FIN_WAIT_1"
      BY <3>1, <1>6 DEF Forward
    <3>3. y.highest_ack < y.maxseq
      BY <3>1, <1>1, <1>3, <1>4 DEF Ints
    <3> QED BY <3>1, <3>2, <3>3 DEF Forward
  <2> QED BY <2>1, <2>2
<1> QED BY <1>5, <1>6

LEMMA KeepsItself ==
  ASSUME NEW c \in Agents
  PROVE  Keeps(c, c) /\ Forward(c, c)
<1>1. c.maxseq <= c.maxseq
  BY AgentInts DEF Ints
<1> QED BY <1>1 DEF Keeps, Forward

\* What the next number to send is between
LEMMA FlowNext ==
  ASSUME NEW c, Well(c), Flow(c)
  PROVE  /\ c \in Agents /\ Ints(c) /\ c.t_seqno \in Int
         /\ c.highest_ack <= c.t_seqno /\ c.t_seqno <= c.curseq + 1
         /\ c.state \in DataFlows \cup FinGoes /\ Talking(c)
         /\ c.state \in FinGoes => Winding(c)
         /\ c.state \in DataFlows => Sending(c)
<1>1. c \in Agents /\ Ints(c)
  BY AgentInts DEF Well
<1>2. Talking(c) /\ c.state \in DataFlows \cup FinGoes
  BY DEF Flow, Sending, Winding
<1>3. (c.state \in FinGoes => Winding(c)) /\ (c.state \in DataFlows => Sending(c))
  BY DEF Flow, DataFlows, FinGoes
<1> QED BY <1>1, <1>2, <1>3 DEF Talking, Ints

\* A call of foutput at t_seqno_ sends the FIN if nothing else is outstanding
LEMMA FlowFoutput ==
  ASSUME NEW c, Well(c), Flow(c), NEW seq \in Int, c.highest_ack <= seq, seq <= c.curseq + 1
  PROVE  /\ Flowed(c, foutput(c, seq)) /\ foutput(c, seq).t_seqno = c.t_seqno
         /\ seq = c.t_seqno \/ Pushed(c) => Pushed(foutput(c, seq))
<1>1. /\ c \in Agents /\ Ints(c) /\ Talking(c) /\ c.state \in DataFlows \cup FinGoes
      /\ c.state \in FinGoes => Winding(c)
  BY FlowNext
<1>2. PICK k : k = Reliable(c, seq)
  OBVIOUS
<1>3. PICK x : x = foutput(c, seq)
  OBVIOUS
<1>4. CASE Emits(c, seq)
  <2>1. /\ Well(x) /\ Flow(x) /\ Keeps(c, x) /\ x.t_seqno = c.t_seqno /\ Forward(c, x)
        /\ \E n \in Nat : Emission(c, x, seq, n, k)
    BY <1>2, <1>3, <1>4, FlowOutput
  <2>2. PICK n \in Nat : Emission(c, x, seq, n, k)
    BY <2>1
  <2>3. ASSUME seq = c.t_seqno \/ Pushed(c), x.state \in FinGoes
        PROVE  x.highest_ack < x.maxseq
    <3>1. Ints(x) /\ x.highest_ack = c.highest_ack /\ c.maxseq <= x.maxseq
      BY <2>1, AgentInts DEF Well, Keeps
    <3>2. CASE k = n + 1 /\ seq + n = c.curseq + 1
      <4>1. x.maxseq = MaxOf(c.maxseq, c.curseq + 2)
        <5>1. seq + k = c.curseq + 2
          BY <3>2, <1>1 DEF Ints
        <5> QED BY <5>1, <2>2 DEF Emission
      <4>2. c.curseq + 2 <= x.maxseq
        BY <4>1, <1>1 DEF Ints, MaxOf
      <4>3. c.highest_ack <= c.curseq + 1
        BY <1>1 DEF Talking, Ints
      <4> QED BY <3>1, <4>2, <4>3, <1>1 DEF Ints
    <3>3. CASE x.state = c.state /\ (c.state \in FinGoes => seq + n <= c.curseq)
      <4>1. c.state \in FinGoes /\ seq + n <= c.curseq /\ Winding(c)
        BY <3>3, <2>3, <1>1
      <4>2. seq < c.maxseq
        BY <4>1, <1>1 DEF Winding, Ints
      <4>3. c.highest_ack < c.maxseq
        BY <4>2, <1>1 DEF Ints
      <4> QED BY <4>3, <3>1, <1>1 DEF Ints
    <3> QED BY <3>2, <3>3, <2>2 DEF Emission
  <2> QED BY <1>3, <2>1, <2>3 DEF Flowed, Pushed
<1>5. CASE ~Emits(c, seq)
  <2>1. x = c
    BY <1>3, <1>5 DEF foutput
  <2>2. Flowed(c, c)
    BY <1>1, KeepsItself DEF Flowed
  <2>3. ASSUME seq = c.t_seqno, c.state \in FinGoes PROVE c.highest_ack < c.maxseq
    <3>1. Winding(c) /\ c.state \in States
      BY <1>1, <2>3, AgentFields DEF AgentParts
    <3>2. ~Emptying(c, seq)
      <4>1. ASSUME Emptying(c, seq) PROVE FALSE
        <5>1. outflags(c.state) = {"FIN", "ACK"}
          BY <2>3, <3>1, OutflagsAre
        <5>2. PacketFlags(c, seq) \cap {"SYN", "FIN"} # {}
          BY <4>1, <5>1 DEF PacketFlags
        <5> QED BY <5>2, <1>5 DEF Emits
      <4> QED BY <4>1
    <3>3. ~(seq + Datalen(c, seq) > c.curseq)
      BY <3>2 DEF Emptying
    <3>4. Datalen(c, seq) \in Int /\ 0 <= Datalen(c, seq)
      BY <1>1, DatalenIs
    <3>5. seq <= c.curseq
      BY <3>3, <3>4, <1>1 DEF Ints
    <3> QED BY <3>1, <3>5, <1>1 DEF Winding, Ints
  <2> QED BY <1>3, <2>1, <2>2, <2>3 DEF Pushed
<1> QED BY <1>4, <1>5

\* Agents that differ in t_seqno_, the timers, the window or what is owed
Alike(c, x) ==
  /\ x.state = c.state /\ x.passive = c.passive /\ x.maxseq = c.maxseq
  /\ x.highest_ack = c.highest_ack /\ x.curseq = c.curseq /\ x.rq = c.rq
  /\ x.last_ack_sent = c.last_ack_sent /\ x.out = c.out

LEMMA AlikeWell ==
  ASSUME NEW c, Well(c), NEW x \in Agents, Alike(c, x), 1 <= c.maxseq,
         x.recover = c.recover \/ x.recover = c.maxseq
  PROVE  Well(x) /\ Grown(c, x) /\ rcv_nxt(x) = rcv_nxt(c)
<1>1. c \in Agents /\ Ints(c) /\ Ints(x) /\ Fits(c) /\ OutFrom(c)
  BY AgentInts DEF Well
<1>2. rcv_nxt(x) = rcv_nxt(c) /\ Top(x) = Top(c) /\ (FinSent(x) <=> FinSent(c))
  BY DEF Alike, rcv_nxt, Top, FinSent
<1>3. Grown(c, x)
  BY <1>1, <1>2 DEF Grown, Ints, Alike
<1>4. OutFrom(x)
  BY <1>1, <1>3, OutGrown DEF Alike
<1>5. x.recover \in Int /\ 0 <= x.recover /\ x.recover <= MaxOf(x.maxseq, 0)
  <2>1. x.maxseq = c.maxseq /\ c.maxseq \in Int /\ c.recover \in Int
    BY <1>1 DEF Alike, Ints
  <2>2. 0 <= c.recover /\ c.recover <= MaxOf(c.maxseq, 0)
    BY <1>1 DEF Fits
  <2> QED BY <2>1, <2>2 DEF MaxOf
<1>6. Fits(x)
  BY <1>1, <1>2, <1>5 DEF Fits, Alike
<1> QED BY <1>1, <1>2, <1>3, <1>4, <1>6 DEF Well

LEMMA SetSeqno ==
  ASSUME NEW c \in Agents, NEW n \in Int, NEW x, x = [c EXCEPT !.t_seqno = n]
  PROVE  /\ x \in Agents /\ x.t_seqno = n /\ Alike(c, x) /\ x.recover = c.recover
         /\ x.cwnd = c.cwnd /\ x.dupacks = c.dupacks
  BY DEF Agents, Alike

\* How far t_seqno_ moves with what was sent at it
LEMMA SentFlow ==
  ASSUME NEW c, Well(c), Flow(c), NEW x, x = foutput(c, c.t_seqno), Emits(c, c.t_seqno),
         Reliable(c, c.t_seqno) # 0, NEW y, y = Sent(c, x, c.t_seqno)
  PROVE  y \in Agents /\ Flowed(c, y) /\ Pushed(y)
<1>1. /\ c \in Agents /\ Ints(c) /\ Talking(c) /\ c.state \in DataFlows \cup FinGoes
      /\ c.highest_ack <= c.t_seqno /\ c.t_seqno <= c.curseq + 1 /\ c.t_seqno \in Int
      /\ c.state \in DataFlows => Sending(c)
  BY FlowNext
<1>2. PICK seq \in Int : seq = c.t_seqno
  BY <1>1
<1>3. PICK k : k = Reliable(c, seq)
  OBVIOUS
<1>4. /\ Well(x) /\ Flow(x) /\ Keeps(c, x) /\ x.t_seqno = c.t_seqno /\ Forward(c, x)
      /\ \E n \in Nat : Emission(c, x, seq, n, k)
  BY <1>1, <1>2, <1>3, FlowOutput
<1>5. PICK n \in Nat : Emission(c, x, seq, n, k)
  BY <1>4
<1>6. Pushed(x)
  BY <1>1, FlowFoutput DEF Pushed
<1>7. x \in Agents /\ Ints(x) /\ Talking(x) /\ x.state \in DataFlows \cup FinGoes /\ x.state \in States
      /\ (x.state \in FinGoes => Winding(x)) /\ (x.state \in DataFlows => Sending(x))
  BY <1>4, FlowNext, AgentFields DEF AgentParts
<1>8. x.curseq = c.curseq /\ x.highest_ack = c.highest_ack
  BY <1>4 DEF Keeps
<1>9. PICK amt : amt = k - Cardinality(outflags(x.state) \cap {"FIN"})
  OBVIOUS
<1>10. amt = k - (IF x.state \in FinGoes THEN 1 ELSE 0)
  <2>1. CASE x.state \in FinGoes
    <3>1. outflags(x.state) \cap {"FIN"} = {"FIN"}
      BY <2>1, <1>7, OutflagsAre
    <3> QED BY <3>1, <2>1, <1>9, Counting
  <2>2. CASE x.state \notin FinGoes
    <3>1. outflags(x.state) \cap {"FIN"} = {}
      BY <2>2, <1>7, OutflagsAre
    <3> QED BY <3>1, <2>2, <1>9, Counting
  <2> QED BY <2>1, <2>2
<1>11. PICK t : t = seq + amt
  OBVIOUS
<1>12. t \in Int /\ seq <= t /\ t <= c.curseq + 1 /\ (x.state \in DataFlows => t <= x.maxseq)
  <2>1. n \in Nat /\ seq + n <= c.curseq + 1 /\ x.maxseq = MaxOf(c.maxseq, seq + k)
    BY <1>5 DEF Emission
  <2>2. CASE k = n + 1 /\ x.state \in FinGoes
    <3>1. x.state \notin DataFlows
      BY <2>2 DEF DataFlows, FinGoes
    <3>2. amt = n
      BY <2>1, <2>2, <1>10
    <3> QED BY <2>1, <3>1, <3>2, <1>1, <1>11 DEF Ints
  <2>3. CASE k = n /\ x.state \in FinGoes
    <3>1. x.state \notin DataFlows
      BY <2>3 DEF DataFlows, FinGoes
    <3>2. amt = n - 1 /\ n # 0
      BY <2>3, <1>2, <1>3, <1>10
    <3> QED BY <2>1, <3>1, <3>2, <1>1, <1>11 DEF Ints
  <2>4. CASE k = n /\ x.state \notin FinGoes
    <3>1. amt = n
      BY <2>1, <2>4, <1>10
    <3> QED BY <2>1, <2>4, <3>1, <1>1, <1>11 DEF Ints, MaxOf
  <2> QED BY <2>2, <2>3, <2>4, <1>5 DEF Emission
<1>13. y = [x EXCEPT !.t_seqno = t]
  BY <1>2, <1>3, <1>4, <1>9, <1>11 DEF Sent
<1>14. /\ y \in Agents /\ y.t_seqno = t /\ Alike(x, y) /\ y.recover = x.recover
       /\ y.cwnd = x.cwnd /\ y.dupacks = x.dupacks
  BY <1>7, <1>12, <1>13, SetSeqno
<1>15. 1 <= x.maxseq
  BY <1>7 DEF Talking, Ints
<1>16. Well(y) /\ rcv_nxt(y) = rcv_nxt(x) /\ Ints(y)
  BY <1>4, <1>14, <1>15, AlikeWell, AgentInts
<1>17. Keeps(x, y) /\ Forward(x, y)
  <2>1. x.maxseq <= y.maxseq
    BY <1>7, <1>14 DEF Alike, Ints
  <2>2. OutAck(x, rcv_nxt(x)) => OutAck(y, rcv_nxt(x))
    BY <1>14 DEF OutAck, Alike
  <2> QED BY <2>1, <2>2, <1>14 DEF Keeps, Forward, Alike
<1>18. Keeps(c, y) /\ Forward(c, y)
  BY <1>1, <1>4, <1>7, <1>14, <1>17, KeepsTransitive
<1>19. Talking(y)
  BY <1>1, <1>2, <1>7, <1>8, <1>12, <1>14, <1>16 DEF Talking, Alike, Ints
<1>20. Flow(y)
  <2>1. CASE x.state \in DataFlows
    BY <2>1, <1>7, <1>12, <1>14, <1>19 DEF Flow, Sending, Alike
  <2>2. CASE x.state \in FinGoes
    BY <2>2, <1>7, <1>14, <1>19 DEF Flow, Winding, Alike
  <2> QED BY <2>1, <2>2, <1>7
<1>21. Pushed(y)
  BY <1>6, <1>14 DEF Pushed, Alike
<1> QED BY <1>14, <1>16, <1>18, <1>20, <1>21 DEF Flowed

LEMMA TurnFlow ==
  ASSUME NEW s \in Runs, Well(s.c), Flow(s.c), NEW y, y = Turn(s)
  PROVE  /\ y \in Runs /\ Flowed(s.c, y.c)
         /\ (s.force /\ s.on) \/ Pushed(s.c) => Pushed(y.c)
<1>1. PICK c : c = s.c
  OBVIOUS
<1>2. c \in Agents /\ s.force \in BOOLEAN /\ s.on \in BOOLEAN /\ Well(c) /\ Flow(c)
  BY <1>1 DEF Runs
<1>3. PICK seq : seq = c.t_seqno
  OBVIOUS
<1>4. seq \in Int /\ c.highest_ack <= seq /\ seq <= c.curseq + 1
  BY <1>2, <1>3, FlowNext
<1>5. PICK x : x = foutput(c, seq)
  OBVIOUS
<1>6. Flowed(c, x) /\ Pushed(x) /\ x \in Agents
  BY <1>2, <1>3, <1>4, <1>5, FlowFoutput DEF Flowed, Well
<1>7. CASE ~s.on \/ (~s.force /\ ~SendAllowed(c))
  <2>1. y = [s EXCEPT !.on = FALSE]
    BY <1>1, <1>7 DEF Turn
  <2>2. y \in Runs /\ y.c = c
    BY <2>1, <1>1 DEF Runs
  <2>3. Flowed(c, c)
    BY <1>2, KeepsItself DEF Flowed
  <2>4. ~(s.force /\ s.on)
    BY <1>7
  <2> QED BY <2>2, <2>3, <2>4, <1>1
<1>8. CASE ~(~s.on \/ (~s.force /\ ~SendAllowed(c)))
  <2>1. CASE ~Emits(c, seq) \/ Reliable(c, seq) = 0
    <3>1. y = [c |-> x, force |-> FALSE, on |-> FALSE]
      BY <1>1, <1>3, <1>5, <1>8, <2>1, Zenon DEF Turn
    <3>2. y \in Runs /\ y.c = x
      BY <3>1, <1>6 DEF Runs
    <3> QED BY <3>2, <1>1, <1>6
  <2>2. CASE ~(~Emits(c, seq) \/ Reliable(c, seq) = 0)
    <3>1. PICK z : z = Sent(c, x, seq)
      OBVIOUS
    <3>2. PICK b : b = (outflags(z.state) \cap {"SYN", "FIN"} = {})
      OBVIOUS
    <3>3. b \in BOOLEAN
      BY <3>2
    <3>4. y = [c |-> z, force |-> FALSE, on |-> b]
      BY <1>1, <1>3, <1>5, <1>8, <2>2, <3>1, <3>2, Zenon DEF Turn
    <3>5. z \in Agents /\ Flowed(c, z) /\ Pushed(z)
      BY <1>2, <1>3, <1>5, <2>2, <3>1, SentFlow
    <3>6. y \in Runs /\ y.c = z
      BY <3>3, <3>4, <3>5 DEF Runs
    <3> QED BY <3>5, <3>6, <1>1
  <2> QED BY <2>1, <2>2
<1> QED BY <1>7, <1>8

LEMMA SendFlow ==
  ASSUME NEW c, Well(c), Flow(c), NEW force \in BOOLEAN, force \/ Pushed(c),
         NEW x, x = SendMuch(c, force)
  PROVE  Flowed(c, x) /\ Pushed(x)
<1> DEFINE W == {s \in Runs : Flowed(c, s.c) /\ Pushed(s.c)}
           a == [c |-> c, force |-> force, on |-> TRUE]
<1>1. c \in Agents
  BY DEF Well
<1>2. a \in Runs /\ a.c = c /\ (a.force <=> force) /\ a.on
  BY <1>1 DEF Runs
<1>3. Turn(a) \in W
  <2> HIDE DEF a
  <2>1. Turn(a) \in Runs /\ Flowed(c, Turn(a).c) /\ Pushed(Turn(a).c)
    BY <1>2, TurnFlow
  <2> QED BY <2>1
<1>4. ASSUME NEW s \in W PROVE Turn(s) \in W
  <2>1. s \in Runs /\ Flowed(c, s.c) /\ Pushed(s.c)
    OBVIOUS
  <2>2. PICK y : y = Turn(s)
    OBVIOUS
  <2>3. y \in Runs /\ Flowed(s.c, y.c) /\ Pushed(y.c)
    BY <2>1, <2>2, TurnFlow DEF Flowed
  <2>4. s.c \in Agents /\ y.c \in Agents
    BY <2>1, <2>3 DEF Runs
  <2>5. Flowed(c, y.c)
    BY <2>1, <2>3, <2>4, <1>1, KeepsTransitive DEF Flowed
  <2> QED BY <2>2, <2>3, <2>5
<1>5. \E s \in W : SendMuch(c, force) = s.c
  <2> HIDE DEF W
  <2> QED BY <1>1, <1>3, <1>4, SendMuchIn
<1> QED BY <1>5

\* An agent that has nothing more to send than acknowledgements
Quietly(c) ==
  \/ c.state \in {"FIN_WAIT_2", "CLOSED"} /\ Answered(c)
  \/ c.state = "CLOSED" /\ Blank(c)

\* Nothing but acknowledgements was sent
Idle(c) == \A i \in 1..Len(c.out) : c.out[i].len = 0 /\ ~c.out[i].fin

Quieted(c, x) ==
  /\ Well(x) /\ Keeps(c, x) /\ x.state = c.state
  /\ Answered(c) => Answered(x)
  /\ Blank(c) => Blank(x)
  /\ Idle(c) => Idle(x)

LEMMA QuietFoutput ==
  ASSUME NEW c, Well(c), Quietly(c), NEW x, x = foutput(c, c.t_seqno)
  PROVE  /\ Quieted(c, x) /\ x.t_seqno = c.t_seqno
         /\ ~Emits(c, c.t_seqno) \/ Reliable(c, c.t_seqno) = 0
<1>1. c \in Agents /\ Fits(c) /\ OutFrom(c) /\ Ints(c) /\ c.state \in States
  BY AgentInts, AgentFields DEF Well, AgentParts
<1>2. PICK seq \in Int : seq = c.t_seqno
  BY <1>1 DEF Ints
<1>3. /\ c.state \in {"FIN_WAIT_2", "CLOSED"} /\ (Answered(c) \/ Blank(c)) /\ ~(Answered(c) /\ Blank(c))
      /\ seq = 0 \/ (1 <= c.highest_ack /\ c.curseq + 1 <= seq)
  BY <1>1, <1>2 DEF Quietly, Answered, Blank, Ints
<1>4. PICK p : p = Output(c, seq)
  OBVIOUS
<1>5. PICK k : k = Reliable(c, seq)
  OBVIOUS
<1>6. /\ OutputOf(c, seq, p, k) /\ ~p.syn /\ p.ack /\ ~p.fin
      /\ ~Closes(c, seq) /\ p.len = 0 /\ k = 0
  BY <1>1, <1>3, <1>4, <1>5, QuietOutput
<1>7. CASE ~Emits(c, seq)
  <2>1. x = c
    BY <1>2, <1>7 DEF foutput
  <2> QED BY <2>1, <1>1, <1>2, <1>7, KeepsItself DEF Quieted
<1>8. CASE Emits(c, seq)
  <2>1. p \in Segments /\ p.seq = seq /\ p.ackno = rcv_nxt(c)
    BY <1>6 DEF OutputOf
  <2>2. Emitted(c, x, p, k, c.state)
    <3>1. x = Emit(c, seq)
      BY <1>2, <1>8 DEF foutput
    <3>2. k \in Int
      BY <1>6
    <3> QED BY <2>1, <3>1, <3>2, <1>1, <1>4, <1>5, <1>6, EmitIs DEF Output
  <2>3. x \in Agents /\ Keeps(c, x) /\ x.t_seqno = c.t_seqno
    BY <2>1, <2>2, <1>1, <1>6, EmittedKept
  <2>4. /\ x.state = c.state /\ x.highest_ack = c.highest_ack /\ x.curseq = c.curseq /\ x.rq = c.rq
        /\ x.maxseq = MaxOf(c.maxseq, seq) /\ x.out = Append(c.out, p)
        /\ x.last_ack_sent = rcv_nxt(c) /\ x.recover = c.recover
        /\ x.delack = FALSE /\ x.rtx = (c.rtx \/ k > 0)
    BY <2>1, <2>2, <1>6 DEF Emitted
  <2>5. Ints(x) /\ rcv_nxt(x) = rcv_nxt(c)
    BY <2>3, <2>4, AgentInts DEF rcv_nxt
  <2>6. ASSUME Blank(c) PROVE Blank(x)
    <3>1. ~x.rtx /\ ~x.delack
      <4>1. ~c.rtx /\ ~(k > 0)
        BY <2>6, <1>6 DEF Blank
      <4> QED BY <4>1, <2>4
    <3>2. -1 <= x.maxseq /\ x.maxseq <= 0
      BY <2>4, <2>6, <1>2, <1>1 DEF Blank, Ints, MaxOf
    <3> QED BY <2>3, <2>4, <2>6, <3>1, <3>2 DEF Blank
  <2>7. ASSUME Answered(c) PROVE Answered(x) /\ x.maxseq = c.maxseq
    <3>1. x.maxseq = c.maxseq
      BY <2>4, <2>7, <1>1, <1>2 DEF Answered, Ints, MaxOf
    <3> QED BY <3>1, <2>3, <2>4, <2>5, <2>7 DEF Answered
  <2>8. Grown(c, x)
    <3>1. CASE Blank(c)
      BY <3>1, <2>6 DEF Grown
    <3>2. CASE Answered(c)
      <4>1. 1 <= c.maxseq /\ x.maxseq <= x.curseq + 2
        BY <3>2, <2>4, <2>7, <1>1 DEF Answered
      <4> QED BY <4>1, <2>3, <1>1, KeptGrown
    <3> QED BY <3>1, <3>2, <1>3
  <2>9. -1 <= rcv_nxt(c) /\ rcv_nxt(c) <= Most + 2 /\ Most \in Nat /\ MSS \in Nat
    <3>1. -1 <= rcv_nxt(c)
      BY <1>1 DEF Fits, Ints
    <3> QED BY <3>1, <1>1, Bounds DEF Fits
  <2>10. Framed(p)
    <3>1. 0 <= seq /\ seq <= Most + 2
      <4>1. CASE Blank(c)
        BY <4>1, <2>9, <1>2 DEF Blank
      <4>2. CASE Answered(c)
        BY <4>2, <2>9, <1>1, <1>2 DEF Answered, Fits, Ints
      <4> QED BY <4>1, <4>2, <1>3
    <3> QED BY <3>1, <2>1, <2>9, <1>6 DEF Framed
  <2>11. From(p, x)
    <3>1. 1 <= p.ackno \/ Blank(x)
      BY <2>1, <2>6, <1>3 DEF Answered
    <3>2. p.ackno <= rcv_nxt(x)
      BY <2>1, <2>5, <1>1 DEF Ints
    <3>3. Truthful(p, x)
      BY <3>2, <1>6 DEF Truthful
    <3> QED BY <2>10, <3>1, <3>3 DEF From
  <2>12. OutFrom(x)
    BY <2>1, <2>3, <2>4, <2>8, <2>11, <1>1, OutGrown
  <2>13. Fits(x)
    <3>1. 0 <= c.recover /\ c.recover <= MaxOf(c.maxseq, 0) /\ c.curseq <= Most
          /\ rcv_nxt(c) <= Most + 2
      BY <1>1 DEF Fits
    <3>2. c.maxseq <= x.maxseq
      BY <2>3 DEF Keeps
    <3>3. x.recover <= MaxOf(x.maxseq, 0)
      BY <3>1, <3>2, <2>4, <2>5, <1>1, SMTT(30) DEF Ints, MaxOf
    <3> QED BY <3>1, <3>3, <2>4, <2>5, <2>9, <1>1 DEF Fits, Ints
  <2>14. Idle(c) => Idle(x)
    <3>1. c.out \in Seq(Segments)
      BY <1>1, AgentFields DEF AgentParts
    <3>2. ASSUME Idle(c), NEW i \in 1..Len(x.out) PROVE x.out[i].len = 0 /\ ~x.out[i].fin
      <4>1. CASE i = Len(c.out) + 1
        BY <4>1, <3>1, <2>4, <1>6
      <4>2. CASE i # Len(c.out) + 1
        <5>1. i \in 1..Len(c.out) /\ x.out[i] = c.out[i]
          BY <4>2, <3>1, <3>2, <2>1, <2>4
        <5> QED BY <5>1, <3>2 DEF Idle
      <4> QED BY <4>1, <4>2
    <3> QED BY <3>2 DEF Idle
  <2> QED BY <2>3, <2>4, <2>6, <2>7, <2>12, <2>13, <2>14, <1>2, <1>5, <1>6 DEF Quieted, Well
<1> QED BY <1>7, <1>8, <1>2

LEMMA SendQuiet ==
  ASSUME NEW c, Well(c), Quietly(c), NEW force \in BOOLEAN, NEW x, x = SendMuch(c, force)
  PROVE  Quieted(c, x)
<1> DEFINE W == {s \in Runs : Quieted(c, s.c)}
           a == [c |-> c, force |-> force, on |-> TRUE]
<1>1. c \in Agents
  BY DEF Well
<1>2. a \in Runs /\ a.c = c
  BY <1>1 DEF Runs
<1>3. Quieted(c, c)
  BY <1>1, KeepsItself DEF Quieted
<1>4. ASSUME NEW s \in W PROVE Turn(s) \in W
  <2>1. s \in Runs /\ Quieted(c, s.c)
    OBVIOUS
  <2>2. PICK u : u = s.c
    OBVIOUS
  <2>3. u \in Agents /\ Quieted(c, u)
    BY <2>1, <2>2 DEF Runs
  <2>4. Well(u) /\ Quietly(u)
    BY <2>3 DEF Quieted, Quietly
  <2>5. PICK seq : seq = u.t_seqno
    OBVIOUS
  <2>6. PICK z : z = foutput(u, seq)
    OBVIOUS
  <2>7. Quieted(u, z) /\ z \in Agents /\ (~Emits(u, seq) \/ Reliable(u, seq) = 0)
    BY <2>4, <2>5, <2>6, QuietFoutput DEF Quieted, Well
  <2>8. Quieted(c, z)
    BY <2>3, <2>7, <1>1, KeepsTransitive DEF Quieted
  <2>9. PICK y : y = Turn(s)
    OBVIOUS
  <2>10. CASE ~s.on \/ (~s.force /\ ~SendAllowed(u))
    <3>1. y = [s EXCEPT !.on = FALSE]
      BY <2>2, <2>9, <2>10 DEF Turn
    <3>2. y \in Runs /\ y.c = u
      BY <3>1, <2>1, <2>2 DEF Runs
    <3> QED BY <3>2, <2>3, <2>9
  <2>11. CASE ~(~s.on \/ (~s.force /\ ~SendAllowed(u)))
    <3>1. y = [c |-> z, force |-> FALSE, on |-> FALSE]
      BY <2>2, <2>5, <2>6, <2>7, <2>9, <2>11, Zenon DEF Turn
    <3>2. y \in Runs /\ y.c = z
      BY <3>1, <2>7 DEF Runs
    <3> QED BY <3>2, <2>8, <2>9
  <2> QED BY <2>10, <2>11
<1>5. Turn(a) \in W
  <2>1. a \in W
    <3> HIDE DEF a
    <3> QED BY <1>2, <1>3
  <2> HIDE DEF a, W
  <2> QED BY <2>1, <1>4
<1>6. \E s \in W : SendMuch(c, force) = s.c
  <2> HIDE DEF W
  <2> QED BY <1>1, <1>4, <1>5, SendMuchIn
<1> QED BY <1>6

\* An agent about to send its SYN for the first time or again
Opener(c, n) ==
  /\ c.out = <<>> /\ c.t_seqno = 0 /\ c.highest_ack = -1
  /\ c.maxseq <= 1 /\ 0 <= c.curseq /\ c.rq = EmptyQueue(n)
  /\ \/ c.state = "SYN_SENT" /\ n = -1
     \/ c.state = "SYN_RECEIVED" /\ n = 1

Opened(c, x) ==
  /\ x.state = c.state /\ x.passive = c.passive /\ x.curseq = c.curseq
  /\ x.cwnd = c.cwnd /\ x.dupacks = c.dupacks

LEMMA SynTurn ==
  ASSUME NEW c, Well(c), NEW n \in Int, Opener(c, n)
  PROVE  LET z == Sent(c, foutput(c, 0), 0)
         IN  /\ Well(z) /\ Calling(z, n) /\ Opened(c, z)
             /\ Emits(c, 0) /\ Reliable(c, 0) = 1 /\ outflags(z.state) \cap {"SYN", "FIN"} # {}
<1>1. c \in Agents /\ Fits(c) /\ Ints(c) /\ c.state \in States
  BY AgentInts, AgentFields DEF Well, AgentParts
<1>2. c.state \in {"SYN_SENT", "SYN_RECEIVED"} /\ c.t_seqno = 0 /\ c.highest_ack = -1
      /\ rcv_nxt(c) = n /\ (c.state = "SYN_RECEIVED" => n = 1) /\ -1 <= n
      /\ c.maxseq <= 1 /\ 0 <= c.curseq
  BY DEF Opener, rcv_nxt, EmptyQueue
<1>3. PICK p : p = Output(c, 0)
  OBVIOUS
<1>4. PICK k : k = Reliable(c, 0)
  OBVIOUS
<1>5. /\ OutputOf(c, 0, p, k) /\ p.syn /\ ~p.fin /\ (p.ack <=> c.state = "SYN_RECEIVED")
      /\ ~Closes(c, 0) /\ p.len = 0 /\ k = 1 /\ Emits(c, 0)
  BY <1>1, <1>2, <1>3, <1>4, SynOutput
<1>6. PICK y : y = foutput(c, 0)
  OBVIOUS
<1>7. p \in Segments /\ p.seq = 0 /\ p.ackno = rcv_nxt(c) /\ k \in Int
  BY <1>5 DEF OutputOf
<1>8. Emitted(c, y, p, k, c.state)
  <2>1. y = Emit(c, 0)
    BY <1>5, <1>6 DEF foutput
  <2> QED BY <2>1, <1>1, <1>3, <1>4, <1>5, <1>7, EmitIs DEF Output
<1>9. /\ y \in Agents /\ y.state = c.state /\ y.passive = c.passive /\ y.maxseq = 1
      /\ y.highest_ack = -1 /\ y.curseq = c.curseq /\ y.rq = c.rq /\ y.out = Append(c.out, p)
      /\ y.last_ack_sent = rcv_nxt(c) /\ y.recover = c.recover /\ y.cwnd = c.cwnd
      /\ y.dupacks = c.dupacks /\ y.delack = FALSE /\ y.t_seqno = 0
  <2>1. MaxOf(c.maxseq, 0 + 1) = 1
    BY <1>1, <1>2 DEF Ints, MaxOf
  <2> QED BY <2>1, <1>2, <1>5, <1>7, <1>8 DEF Emitted
<1>10. PICK z : z = Sent(c, y, 0)
  OBVIOUS
<1>11. outflags(z.state) \cap {"SYN", "FIN"} # {} /\ z = [y EXCEPT !.t_seqno = 1]
  <2>1. outflags(y.state) \in {{"SYN"}, {"SYN", "ACK"}}
    BY <1>1, <1>2, <1>9, OutflagsAre
  <2>2. outflags(y.state) \cap {"FIN"} = {}
    BY <2>1
  <2>3. k - Cardinality(outflags(y.state) \cap {"FIN"}) = 1
    BY <2>2, <1>5, Counting
  <2>4. z = [y EXCEPT !.t_seqno = @ + 1]
    BY <2>3, <1>4, <1>10 DEF Sent
  <2>5. z = [y EXCEPT !.t_seqno = 1]
    BY <2>4, <1>9
  <2>6. z.state = y.state
    BY <2>5, <1>9 DEF Agents
  <2> QED BY <2>1, <2>5, <2>6
<1>12. /\ z \in Agents /\ z.t_seqno = 1 /\ Alike(y, z) /\ z.recover = y.recover
       /\ z.cwnd = y.cwnd /\ z.dupacks = y.dupacks /\ ~z.delack
  <2>1. /\ z \in Agents /\ z.t_seqno = 1 /\ Alike(y, z) /\ z.recover = y.recover
        /\ z.cwnd = y.cwnd /\ z.dupacks = y.dupacks
    <3>1. y \in Agents /\ z = [y EXCEPT !.t_seqno = 1] /\ 1 \in Int
      BY <1>9, <1>11
    <3> QED BY <3>1, SetSeqno
  <2>2. ~z.delack
    BY <1>9, <1>11 DEF Agents
  <2> QED BY <2>1, <2>2
<1>16. z \in Agents /\ z.maxseq = 1 /\ z.highest_ack = -1 /\ z.t_seqno = 1
  BY <1>9, <1>12 DEF Alike
<1>17. /\ z.state = c.state /\ z.curseq = c.curseq /\ z.rq = c.rq /\ z.recover = c.recover
       /\ z.last_ack_sent = rcv_nxt(c) /\ z.passive = c.passive /\ z.cwnd = c.cwnd
       /\ z.dupacks = c.dupacks
  BY <1>9, <1>12 DEF Alike
<1>18. z.out = <<p>>
  <2>1. z.out = Append(c.out, p) /\ c.out = <<>>
    BY <1>9, <1>12 DEF Alike, Opener
  <2>2. Append(<<>>, p) = <<p>>
    OBVIOUS
  <2> QED BY <2>1, <2>2, Zenon
<1>19. Calling(z, n) /\ Opened(c, z)
  <2>1. ~z.delack
    BY <1>12
  <2> QED BY <2>1, <1>2, <1>16, <1>17 DEF Calling, Opened, Opener
<1>20. Ints(z) /\ rcv_nxt(z) = rcv_nxt(c) /\ rcv_nxt(c) = n
  BY <1>2, <1>16, <1>17, AgentInts DEF rcv_nxt
<1>21. Fits(z)
  <2>1. 0 <= c.recover /\ c.recover <= MaxOf(c.maxseq, 0) /\ c.curseq <= Most
        /\ rcv_nxt(c) <= Most + 2
    BY <1>1 DEF Fits
  <2>2. c.recover \in Int /\ c.maxseq \in Int /\ c.maxseq <= 1
    BY <1>1, <1>2 DEF Ints
  <2>3. c.recover <= 1
    BY <2>1, <2>2 DEF MaxOf
  <2>4. z.recover <= MaxOf(z.maxseq, 0)
    BY <2>2, <2>3, <1>16, <1>17 DEF MaxOf
  <2>5. -1 <= n /\ z.last_ack_sent = n /\ rcv_nxt(z) = n
    BY <1>2, <1>17, <1>20
  <2>6. -1 <= z.last_ack_sent /\ z.last_ack_sent <= rcv_nxt(z)
    BY <2>5
  <2> QED BY <2>1, <2>4, <2>6, <1>17, <1>20 DEF Fits
<1>22. From(p, z)
  <2>1. Framed(p)
    <3>1. Most \in Nat /\ MSS \in Nat
      BY Bounds
    <3>2. -1 <= p.ackno /\ p.ackno <= Most + 2
      BY <1>1, <1>2, <1>7 DEF Fits
    <3>3. p.seq = 0 /\ p.len = 0 /\ ~p.fin
      BY <1>5, <1>7
    <3> QED BY <3>1, <3>2, <3>3, <1>7 DEF Framed
  <2>2. Truthful(p, z)
    <3>1. p.ackno = n /\ rcv_nxt(z) = n
      BY <1>7, <1>20
    <3>2. p.ackno <= rcv_nxt(z)
      BY <3>1
    <3>3. p.len = 0 /\ ~p.fin
      BY <1>5
    <3> QED BY <3>2, <3>3 DEF Truthful
  <2>3. p.ack => 1 <= p.ackno
    BY <1>2, <1>5, <1>7
  <2> QED BY <2>1, <2>2, <2>3 DEF From
<1>23. OutFrom(z)
  <2>1. \A i \in 1..Len(<<p>>) : <<p>>[i] = p
    OBVIOUS
  <2> QED BY <2>1, <1>18, <1>22 DEF OutFrom
<1> QED BY <1>4, <1>5, <1>6, <1>10, <1>11, <1>16, <1>19, <1>21, <1>23 DEF Well

LEMMA SendSyn ==
  ASSUME NEW c, Well(c), NEW n \in Int, Opener(c, n)
  PROVE  Well(SendMuch(c, TRUE)) /\ Calling(SendMuch(c, TRUE), n) /\ Opened(c, SendMuch(c, TRUE))
<1>1. c \in Agents /\ c.t_seqno = 0
  BY DEF Well, Opener
<1>2. PICK z : z = Sent(c, foutput(c, 0), 0)
  OBVIOUS
<1>3. /\ Well(z) /\ Calling(z, n) /\ Opened(c, z)
      /\ Emits(c, 0) /\ Reliable(c, 0) = 1 /\ outflags(z.state) \cap {"SYN", "FIN"} # {}
  BY <1>2, SynTurn
<1>4. PICK force \in BOOLEAN : force = TRUE
  OBVIOUS
<1> DEFINE W == {s \in Runs : ~s.on /\ s.c = z}
           a == [c |-> c, force |-> force, on |-> TRUE]
<1>5. Turn(a) \in W
  <2>1. PICK b : b = (outflags(z.state) \cap {"SYN", "FIN"} = {})
    OBVIOUS
  <2>2. b \in BOOLEAN /\ ~b
    BY <2>1, <1>3
  <2>3. a.c = c /\ a.force /\ a.on
    BY <1>4
  <2>4. Reliable(c, 0) # 0
    BY <1>3
  <2> HIDE DEF a
  <2>5. Turn(a) = [c |-> z, force |-> FALSE, on |-> b]
    BY <2>1, <2>3, <2>4, <1>1, <1>2, <1>3, Zenon DEF Turn
  <2>6. PICK t : t = Turn(a)
    OBVIOUS
  <2>7. t \in Runs /\ ~t.on /\ t.c = z
    BY <2>2, <2>5, <2>6, <1>3 DEF Runs, Well
  <2> QED BY <2>6, <2>7
<1>6. ASSUME NEW s \in W PROVE Turn(s) \in W
  <2>1. s \in Runs /\ ~s.on /\ s.c = z
    OBVIOUS
  <2>2. PICK t : t = Turn(s)
    OBVIOUS
  <2>3. t = [s EXCEPT !.on = FALSE]
    BY <2>1, <2>2 DEF Turn
  <2>4. t \in Runs /\ ~t.on /\ t.c = z
    BY <2>1, <2>3 DEF Runs
  <2> QED BY <2>2, <2>4
<1>7. SendMuch(c, force) = z
  <2>1. \E s \in W : SendMuch(c, force) = s.c
    <3> HIDE DEF W
    <3> QED BY <1>1, <1>5, <1>6, SendMuchIn
  <2> QED BY <2>1
<1>8. SendMuch(c, TRUE) = z
  BY <1>4, <1>7, Zenon
<1> QED BY <1>3, <1>8, Zenon

-----------------------------------------------------------------------------
(* The two agents *)

\* No flag, and no block that a later end of the data would make unsound
Open(f) == \A i \in 1..Len(f) : ~f[i].f /\ f[i].s < f[i].e

Flagless(c) == \A i \in 1..Len(c.rq.fifo) : ~c.rq.fifo[i].f

\* What c has received of d
Hears(c, d) ==
  1 <= d.maxseq =>
    /\ rcv_nxt(c) <= d.maxseq
    /\ c.state \in FinCame => FinSent(d) /\ rcv_nxt(c) = d.maxseq
    /\ c.state \notin FinCame \cup {"CLOSED"} =>
         /\ rcv_nxt(c) <= Top(d)
         /\ 1 <= rcv_nxt(c) => Waiting(c.rq, Top(d)) /\ (~FinSent(d) => Open(c.rq.fifo))

\* and what it knows: a side that closes last has taken the FIN of the other,
\* which will not take one from it before its own is acknowledged
Side(c, d) ==
  /\ Hears(c, d)
  /\ d.state # "CLOSED" => c.highest_ack <= rcv_nxt(d)
  /\ c.state \in FinCame => 1 <= d.maxseq
  /\ d.state = "LAST_ACK" => /\ c.state \notin FinCame
                             /\ c.state = "FIN_WAIT_1" => Flagless(c)

Pair(c, d) == Side(c, d) /\ Side(d, c)

\* A queue without flags and empty blocks does not depend on the end of the data
LEMMA OpenWaiting ==
  ASSUME NEW q, NEW top \in Nat, NEW new \in Nat, top <= new, Waiting(q, top), Open(q.fifo)
  PROVE  Waiting(q, new)
<1>1. q \in Queues /\ Apart(q.fifo, top) /\ Listing(q.lifo, q.fifo) /\ Ahead(q)
  BY DEF Waiting, Good
<1>2. ASSUME NEW i \in 1..Len(q.fifo) PROVE Sound(q.fifo[i], new) /\ ~q.fifo[i].f
  <2>1. q.fifo[i].s \in Nat /\ q.fifo[i].e \in Nat
    BY <1>1, QueueParts
  <2>2. Sound(q.fifo[i], top) /\ ~q.fifo[i].f /\ q.fifo[i].s < q.fifo[i].e
    BY <1>1 DEF Apart, Open
  <2> QED BY <2>1, <2>2 DEF Sound
<1>3. Apart(q.fifo, new) /\ FlagsAtTop(q.fifo, new)
  BY <1>1, <1>2 DEF Apart, FlagsAtTop
<1> QED BY <1>1, <1>3 DEF Waiting, Good

\* and it is one, if it can wait for either end
LEMMA WaitingOpen ==
  ASSUME NEW q, NEW top \in Nat, Waiting(q, top), Waiting(q, top + 1)
  PROVE  Open(q.fifo)
<1>1. q \in Queues /\ Apart(q.fifo, top) /\ FlagsAtTop(q.fifo, top)
  BY DEF Waiting, Good
<1>2. Apart(q.fifo, top + 1) /\ FlagsAtTop(q.fifo, top + 1)
  BY DEF Waiting, Good
<1>3. ASSUME NEW i \in 1..Len(q.fifo) PROVE ~q.fifo[i].f /\ q.fifo[i].s < q.fifo[i].e
  <2>1. q.fifo[i].s \in Nat /\ q.fifo[i].e \in Nat
    BY <1>1, QueueParts
  <2>2. Sound(q.fifo[i], top) /\ Sound(q.fifo[i], top + 1)
    BY <1>1, <1>2 DEF Apart
  <2>3. q.fifo[i].f => q.fifo[i].e = top /\ q.fifo[i].e = top + 1
    BY <1>1, <1>2 DEF FlagsAtTop
  <2> QED BY <2>1, <2>2, <2>3 DEF Sound
<1> QED BY <1>3 DEF Open

\* What the other has heard of an agent that grows
LEMMA HearsGrown ==
  ASSUME NEW c \in Agents, NEW d \in Agents, NEW x \in Agents, Hears(d, c), Grown(c, x),
         0 <= c.curseq
  PROVE  Hears(d, x)
<1> SUFFICES ASSUME 1 <= x.maxseq PROVE Hears(d, x)
  BY DEF Hears
<1>1. Ints(c) /\ Ints(d) /\ Ints(x)
  BY AgentInts
<1>2. /\ 1 <= c.maxseq /\ c.maxseq <= x.maxseq
      /\ Top(c) <= Top(x) /\ (FinSent(c) => FinSent(x) /\ Top(x) = Top(c))
  BY <1>1 DEF Grown, Blank, Ints
<1>3. /\ rcv_nxt(d) <= c.maxseq
      /\ d.state \in FinCame => FinSent(c) /\ rcv_nxt(d) = c.maxseq
      /\ d.state \notin FinCame \cup {"CLOSED"} =>
           /\ rcv_nxt(d) <= Top(c)
           /\ 1 <= rcv_nxt(d) => Waiting(d.rq, Top(c)) /\ (~FinSent(c) => Open(d.rq.fifo))
  BY <1>2 DEF Hears
<1>4. rcv_nxt(d) <= x.maxseq
  BY <1>1, <1>2, <1>3 DEF Ints
<1>5. ASSUME d.state \in FinCame PROVE FinSent(x) /\ rcv_nxt(d) = x.maxseq
  <2>1. FinSent(c) /\ FinSent(x) /\ Top(x) = Top(c) /\ rcv_nxt(d) = c.maxseq
    BY <1>2, <1>3, <1>5
  <2>2. c.maxseq = x.maxseq
    BY <2>1, <1>1 DEF Ints, FinSent, Top, MinOf
  <2> QED BY <2>1, <2>2
<1>6. ASSUME d.state \notin FinCame \cup {"CLOSED"}
      PROVE  /\ rcv_nxt(d) <= Top(x)
             /\ 1 <= rcv_nxt(d) => Waiting(d.rq, Top(x)) /\ (~FinSent(x) => Open(d.rq.fifo))
  <2>1. rcv_nxt(d) <= Top(x)
    BY <1>1, <1>2, <1>3, <1>6 DEF Ints
  <2>2. ASSUME 1 <= rcv_nxt(d)
        PROVE  Waiting(d.rq, Top(x)) /\ (~FinSent(x) => Open(d.rq.fifo))
    <3>1. Waiting(d.rq, Top(c)) /\ (~FinSent(c) => Open(d.rq.fifo))
      BY <1>3, <1>6, <2>2
    <3>2. CASE FinSent(c)
      BY <3>1, <3>2, <1>2
    <3>3. CASE ~FinSent(c)
      <4>1. Open(d.rq.fifo)
        BY <3>1, <3>3
      <4>2. Top(c) \in Nat /\ Top(x) \in Nat /\ Top(c) <= Top(x)
        BY <1>1, <1>2 DEF Ints, Top, MinOf
      <4>3. Waiting(d.rq, Top(x))
        BY <3>1, <4>1, <4>2, OpenWaiting
      <4> QED BY <4>1, <4>3
    <3> QED BY <3>2, <3>3
  <2> QED BY <2>1, <2>2
<1> QED BY <1>4, <1>5, <1>6 DEF Hears

\* How a handler changes an agent: what was said stays true, and the closing
\* states are entered from open ones
Turned(c, x) ==
  /\ Grown(c, x) /\ 1 <= x.maxseq /\ x.passive = c.passive
  /\ x.state # "CLOSED" => c.state # "CLOSED"
  /\ x.state = "LAST_ACK" => c.state = "LAST_ACK" \/ ~FinSent(c)
  /\ x.state \in {"SYN_SENT", "SYN_RECEIVED"} => c.state \in {"SYN_SENT", "SYN_RECEIVED"}

LEMMA TurnedTransitive ==
  ASSUME NEW c \in Agents, NEW x \in Agents, NEW y \in Agents, Turned(c, x), Turned(x, y)
  PROVE  Turned(c, y)
<1>1. Ints(c) /\ Ints(x) /\ Ints(y)
  BY AgentInts
<1>2. /\ 1 <= c.maxseq /\ c.maxseq <= x.maxseq /\ rcv_nxt(c) <= rcv_nxt(x)
      /\ Top(c) <= Top(x) /\ (FinSent(c) => FinSent(x) /\ Top(x) = Top(c))
  BY <1>1 DEF Turned, Grown, Blank, Ints
<1>3. /\ 1 <= x.maxseq /\ x.maxseq <= y.maxseq /\ rcv_nxt(x) <= rcv_nxt(y)
      /\ Top(x) <= Top(y) /\ (FinSent(x) => FinSent(y) /\ Top(y) = Top(x))
  BY <1>1 DEF Turned, Grown, Blank, Ints
<1>4. c.maxseq <= y.maxseq /\ rcv_nxt(c) <= rcv_nxt(y) /\ Top(c) <= Top(y)
  BY <1>1, <1>2, <1>3 DEF Ints
<1>5. Grown(c, y) /\ 1 <= y.maxseq
  BY <1>1, <1>2, <1>3, <1>4 DEF Grown, Ints
<1>6. FinSent(c) => FinSent(x)
  BY <1>2
<1> QED BY <1>5, <1>6 DEF Turned

LEMMA TurnedParts ==
  ASSUME NEW c \in Agents, NEW x \in Agents, Turned(c, x)
  PROVE  /\ 1 <= c.maxseq /\ c.maxseq <= x.maxseq /\ rcv_nxt(c) <= rcv_nxt(x)
         /\ Top(c) <= Top(x) /\ (FinSent(c) => FinSent(x) /\ Top(x) = Top(c))
<1>1. Ints(c) /\ Ints(x)
  BY AgentInts
<1> QED BY <1>1 DEF Turned, Grown, Blank, Ints

\* What the other side knows, after a handler
LEMMA SideTurned ==
  ASSUME NEW c \in Agents, NEW d \in Agents, NEW x \in Agents, Phase(d), Side(d, c),
         Turned(c, x), 0 <= c.curseq
  PROVE  Side(d, x)
<1>1. Ints(c) /\ Ints(d) /\ Ints(x)
  BY AgentInts
<1>2. /\ 1 <= c.maxseq /\ c.maxseq <= x.maxseq /\ rcv_nxt(c) <= rcv_nxt(x)
      /\ FinSent(c) => FinSent(x)
  BY TurnedParts
<1>3. Hears(d, x)
  BY HearsGrown DEF Turned, Side
<1>4. x.state # "CLOSED" => d.highest_ack <= rcv_nxt(x)
  BY <1>1, <1>2 DEF Turned, Side, Ints
<1>5. 1 <= x.maxseq
  BY DEF Turned
<1>6. ASSUME x.state = "LAST_ACK", c.state # "LAST_ACK"
      PROVE  d.state \notin FinCame /\ (d.state = "FIN_WAIT_1" => Flagless(d))
  <2>1. ~FinSent(c)
    BY <1>6 DEF Turned
  <2>2. d.state \notin FinCame
    BY <2>1, <1>2 DEF Side, Hears
  <2>3. ASSUME d.state = "FIN_WAIT_1" PROVE Flagless(d)
    <3>1. 1 <= rcv_nxt(d)
      BY <2>3 DEF Phase, FinGoes, Ending, Winding, Talking
    <3>2. Open(d.rq.fifo)
      BY <2>1, <2>2, <2>3, <3>1, <1>2 DEF Side, Hears
    <3> QED BY <3>2 DEF Open, Flagless
  <2> QED BY <2>2, <2>3
<1>7. x.state = "LAST_ACK" => d.state \notin FinCame /\ (d.state = "FIN_WAIT_1" => Flagless(d))
  BY <1>6 DEF Side
<1> QED BY <1>3, <1>4, <1>5, <1>7 DEF Side

\* and the side of an agent that took in nothing
LEMMA SideSame ==
  ASSUME NEW c, NEW d, NEW x, Side(c, d), x.rq = c.rq,
         x.state = c.state \/ (c.state = "ESTABLISHED" /\ x.state = "FIN_WAIT_1"
                                 /\ d.state # "LAST_ACK"),
         x.highest_ack = c.highest_ack \/ (d.state # "CLOSED" => x.highest_ack <= rcv_nxt(d))
  PROVE  Side(x, d)
<1>1. rcv_nxt(x) = rcv_nxt(c)
  BY DEF rcv_nxt
<1>2. /\ x.state \in FinCame <=> c.state \in FinCame
      /\ x.state \in FinCame \cup {"CLOSED"} <=> c.state \in FinCame \cup {"CLOSED"}
  BY DEF FinCame
<1>3. Hears(x, d)
  BY <1>1, <1>2 DEF Side, Hears
<1>4. d.state # "CLOSED" => x.highest_ack <= rcv_nxt(d)
  BY DEF Side
<1>5. d.state = "LAST_ACK" => /\ x.state \notin FinCame
                              /\ x.state = "FIN_WAIT_1" => Flagless(x)
  <2>1. Flagless(x) <=> Flagless(c)
    BY DEF Flagless
  <2> QED BY <2>1, <1>2 DEF Side
<1> QED BY <1>2, <1>3, <1>4, <1>5 DEF Side

\* An agent whose SYN is acknowledged, between the parts of a handler, and what
\* the other agent is meanwhile
Able(c)     == Well(c) /\ Phase(c) /\ Tight(c)
Ready(c, d) == Able(c) /\ Pair(c, d) /\ 1 <= c.highest_ack
Other(d)    == Well(d) /\ Phase(d)

Leads(c, d, x) == Ready(x, d) /\ Turned(c, x) /\ Tuned(x)

\* The facts of the phases
LEMMA ReadyParts ==
  ASSUME NEW c, NEW d, Ready(c, d)
  PROVE  /\ c \in Agents /\ Ints(c) /\ Well(c) /\ Fits(c) /\ OutFrom(c) /\ Pair(c, d)
         /\ c.state \in DataFlows \cup FinGoes \cup {"FIN_WAIT_2", "CLOSED"}
         /\ c.state \in DataFlows => Sending(c)
         /\ c.state \in FinGoes => Ending(c) /\ Winding(c)
         /\ c.state \in {"FIN_WAIT_2", "CLOSED"} => Answered(c)
         /\ 1 <= c.maxseq /\ 1 <= rcv_nxt(c) /\ 0 <= c.curseq /\ c.highest_ack <= c.maxseq
         /\ c.maxseq <= c.curseq + 2 /\ ~Blank(c)
         /\ c.highest_ack <= c.t_seqno
<1>1. /\ c \in Agents /\ Ints(c) /\ Well(c) /\ Fits(c) /\ OutFrom(c) /\ Pair(c, d)
      /\ c.state \in States /\ Phase(c) /\ 1 <= c.highest_ack
  BY AgentInts, AgentFields DEF Ready, Able, Well, AgentParts
<1>2. ~Blank(c) /\ ~Calling(c, -1) /\ ~Calling(c, 1)
  BY <1>1 DEF Blank, Calling
<1>3. c.state \notin {"LISTEN", "SYN_SENT", "SYN_RECEIVED"} /\ (c.state = "CLOSED" => Answered(c))
  BY <1>1, <1>2 DEF Phase
<1>4. c.state \in DataFlows \cup FinGoes \cup {"FIN_WAIT_2", "CLOSED"}
  BY <1>1, <1>3 DEF States, DataFlows, FinGoes
<1>5. /\ c.state \in DataFlows => Sending(c)
      /\ c.state \in FinGoes => Ending(c) /\ Winding(c)
      /\ c.state \in {"FIN_WAIT_2", "CLOSED"} => Answered(c)
  BY <1>1, <1>3 DEF Phase, Ending
<1>6. Sending(c) \/ Winding(c) \/ Answered(c)
  BY <1>4, <1>5
<1>7. /\ 1 <= c.maxseq /\ 1 <= rcv_nxt(c) /\ 0 <= c.curseq /\ c.highest_ack <= c.maxseq
      /\ c.maxseq <= c.curseq + 2 /\ c.highest_ack <= c.t_seqno
  BY <1>1, <1>6 DEF Sending, Winding, Talking, Answered, Ints
<1> QED BY <1>1, <1>2, <1>4, <1>5, <1>7

\* The last FIN says that everything was received, that of the other side too
LEMMA LastAckHeard ==
  ASSUME NEW c, NEW d, Pair(c, d), 1 <= c.maxseq, d.state \in FinCame
  PROVE  FinSent(c) /\ rcv_nxt(d) = c.maxseq
  BY DEF Pair, Side, Hears

-----------------------------------------------------------------------------
(* Sending, between the parts of a handler *)

Lively(c, force) == (Flow(c) /\ (force \/ Pushed(c))) \/ Quietly(c)

Carried(c, x) == Well(x) /\ Phase(x) /\ Keeps(c, x) /\ Forward(c, x) /\ Grown(c, x)

LEMMA FlowedCarried ==
  ASSUME NEW c, Well(c), Flow(c), NEW x, Flowed(c, x), Pushed(x)
  PROVE  Carried(c, x)
<1>1. c \in Agents /\ x \in Agents /\ Ints(c) /\ Ints(x)
  BY AgentInts DEF Flowed, Well
<1>2. Talking(c) /\ Talking(x) /\ x.state \in DataFlows \cup FinGoes
      /\ (x.state \in FinGoes => Winding(x)) /\ (x.state \in DataFlows => Sending(x))
  BY FlowNext DEF Flowed
<1>3. Phase(x)
  BY <1>2 DEF Phase, Ending, Pushed, DataFlows, FinGoes
<1>4. 1 <= c.maxseq
  BY <1>1, <1>2 DEF Talking, Ints
<1>5. x.maxseq <= x.curseq + 2
  BY <1>1, <1>2 DEF Sending, Winding, Ints
<1>6. Grown(c, x)
  BY <1>1, <1>4, <1>5, KeptGrown DEF Flowed
<1> QED BY <1>3, <1>6 DEF Carried, Flowed

LEMMA QuietedCarried ==
  ASSUME NEW c, Well(c), Quietly(c), NEW x, Quieted(c, x)
  PROVE  Carried(c, x)
<1>1. c \in Agents /\ x \in Agents /\ Ints(c) /\ Ints(x)
  BY AgentInts DEF Quieted, Well
<1>2. Forward(c, x)
  BY DEF Quieted, Forward
<1>3. CASE Answered(c)
  <2>1. Answered(x) /\ x.state \in {"FIN_WAIT_2", "CLOSED"}
    BY <1>3 DEF Quieted, Quietly
  <2>2. Phase(x)
    BY <2>1 DEF Phase, DataFlows, FinGoes
  <2>3. 1 <= c.maxseq /\ x.maxseq <= x.curseq + 2
    BY <2>1, <1>3 DEF Answered
  <2>4. Grown(c, x)
    BY <2>3, <1>1, KeptGrown DEF Quieted
  <2> QED BY <2>2, <2>4, <1>2 DEF Carried, Quieted
<1>4. CASE Blank(c)
  <2>1. Blank(x)
    BY <1>4 DEF Quieted
  <2>2. ~Answered(c)
    BY <1>4 DEF Blank, Answered
  <2>3. x.state = "CLOSED"
    BY <2>2 DEF Quieted, Quietly
  <2>4. Phase(x) /\ Grown(c, x)
    BY <2>1, <2>3 DEF Phase, Grown, DataFlows, FinGoes
  <2> QED BY <2>4, <1>2 DEF Carried, Quieted
<1> QED BY <1>3, <1>4 DEF Quietly

LEMMA SendCarries ==
  ASSUME NEW c, Well(c), NEW force \in BOOLEAN, Lively(c, force), NEW x, x = SendMuch(c, force)
  PROVE  Carried(c, x)
<1>1. CASE Flow(c) /\ (force \/ Pushed(c))
  BY <1>1, SendFlow, FlowedCarried DEF Flowed
<1>2. CASE Quietly(c)
  BY <1>2, SendQuiet, QuietedCarried
<1> QED BY <1>1, <1>2 DEF Lively

\* What was sent keeps the pair together
LEMMA CarriedLeads ==
  ASSUME NEW c, Well(c), Tight(c), NEW d, Other(d), Pair(c, d), 1 <= c.highest_ack,
         0 <= c.curseq, 1 <= c.maxseq, c.state = "ESTABLISHED" => ~FinSent(c),
         c.state \notin {"SYN_SENT", "SYN_RECEIVED"},
         NEW x, Carried(c, x)
  PROVE  Ready(x, d) /\ Turned(c, x) /\ (Tuned(c) => Tuned(x))
<1>1. c \in Agents /\ x \in Agents /\ d \in Agents /\ Ints(c) /\ Ints(x) /\ Phase(d)
  BY AgentInts DEF Carried, Well, Other
<1>2. Keeps(c, x) /\ Forward(c, x) /\ Grown(c, x) /\ Phase(x) /\ Well(x)
  BY DEF Carried
<1>3. x.highest_ack = c.highest_ack /\ x.rq = c.rq /\ rcv_nxt(x) = rcv_nxt(c) /\ 1 <= x.maxseq
      /\ x.passive = c.passive
  BY <1>1, <1>2 DEF Keeps, rcv_nxt, Ints
<1>4. Turned(c, x)
  BY <1>2, <1>3 DEF Turned, Forward
<1>5. Side(d, x)
  BY <1>1, <1>4, SideTurned DEF Pair
<1>6. Side(x, d)
  <2>1. c.state = "ESTABLISHED" => d.state # "LAST_ACK"
    <3>1. ASSUME c.state = "ESTABLISHED", d.state = "LAST_ACK" PROVE FALSE
      <4>1. FinSent(c)
        BY <3>1, LastAckHeard DEF FinCame
      <4> QED BY <3>1, <4>1
    <3> QED BY <3>1
  <2>2. x.state = c.state \/ (c.state = "ESTABLISHED" /\ x.state = "FIN_WAIT_1"
                                 /\ d.state # "LAST_ACK")
    BY <2>1, <1>2 DEF Forward
  <2> QED BY <2>2, <1>3, SideSame DEF Pair
<1>7. Tight(x)
  <2>1. ASSUME x.state = "LAST_ACK" PROVE OutAck(x, rcv_nxt(x))
    <3>1. c.state = "LAST_ACK"
      BY <2>1, <1>2 DEF Forward
    <3>2. OutAck(c, rcv_nxt(c))
      BY <3>1 DEF Tight
    <3> QED BY <3>2, <1>2, <1>3 DEF Keeps
  <2> QED BY <2>1 DEF Tight
<1>8. Tuned(c) => Tuned(x)
  BY <1>2 DEF Tuned, Keeps
<1> QED BY <1>2, <1>3, <1>4, <1>5, <1>6, <1>7, <1>8 DEF Ready, Able, Pair

LEMMA ReadyLively ==
  ASSUME NEW c, NEW d, Ready(c, d), NEW force
  PROVE  Lively(c, force) /\ (c.state = "ESTABLISHED" => ~FinSent(c))
         /\ c.state \notin {"SYN_SENT", "SYN_RECEIVED"} /\ Tight(c) /\ Well(c)
<1>1. /\ c.state \in DataFlows \cup FinGoes \cup {"FIN_WAIT_2", "CLOSED"}
      /\ c.state \in DataFlows => Sending(c)
      /\ c.state \in FinGoes => Ending(c) /\ Winding(c)
      /\ c.state \in {"FIN_WAIT_2", "CLOSED"} => Answered(c)
      /\ Ints(c)
  BY ReadyParts
<1>2. Lively(c, force)
  BY <1>1 DEF Lively, Flow, Pushed, Quietly, Ending, DataFlows, FinGoes
<1>3. c.state = "ESTABLISHED" => ~FinSent(c)
  BY <1>1 DEF DataFlows, Sending, FinSent, Ints
<1> QED BY <1>1, <1>2, <1>3 DEF Ready, Able, DataFlows, FinGoes

LEMMA SendLeads ==
  ASSUME NEW c, NEW d, Ready(c, d), Other(d), Tuned(c), NEW force \in BOOLEAN,
         NEW x, x = SendMuch(c, force)
  PROVE  Leads(c, d, x)
<1>1. Lively(c, force) /\ (c.state = "ESTABLISHED" => ~FinSent(c))
      /\ c.state \notin {"SYN_SENT", "SYN_RECEIVED"} /\ Tight(c) /\ Well(c)
  BY ReadyLively
<1>2. Pair(c, d) /\ 1 <= c.highest_ack /\ 0 <= c.curseq /\ 1 <= c.maxseq
  BY ReadyParts DEF Ready
<1>3. Carried(c, x)
  BY <1>1, SendCarries
<1> QED BY <1>1, <1>2, <1>3, CarriedLeads DEF Leads

LEMMA SendNow ==
  ASSUME NEW c, NEW d, Ready(c, d), Other(d), Tuned(c)
  PROVE  Leads(c, d, SendMuch(c, TRUE))
<1>1. PICK force \in BOOLEAN : force = TRUE
  OBVIOUS
<1>2. Leads(c, d, SendMuch(c, force))
  BY SendLeads
<1> QED BY <1>1, <1>2, Zenon

LEMMA SendMay ==
  ASSUME NEW c, NEW d, Ready(c, d), Other(d), Tuned(c)
  PROVE  Leads(c, d, SendMuch(c, FALSE))
<1>1. PICK force \in BOOLEAN : force = FALSE
  OBVIOUS
<1>2. Leads(c, d, SendMuch(c, force))
  BY SendLeads
<1> QED BY <1>1, <1>2, Zenon

\* A segment that is sent again
LEMMA AgainLeads ==
  ASSUME NEW c, NEW d, Ready(c, d), Other(d), NEW x, x = foutput(c, c.highest_ack)
  PROVE  Ready(x, d) /\ Turned(c, x) /\ (Tuned(c) => Tuned(x))
         /\ Keeps(c, x) /\ Forward(c, x)
<1>1. Lively(c, FALSE) /\ (c.state = "ESTABLISHED" => ~FinSent(c))
      /\ c.state \notin {"SYN_SENT", "SYN_RECEIVED"} /\ Tight(c) /\ Well(c)
  BY ReadyLively
<1>2. /\ Pair(c, d) /\ 1 <= c.highest_ack /\ 0 <= c.curseq /\ 1 <= c.maxseq /\ Ints(c)
      /\ ~Blank(c)
  BY ReadyParts DEF Ready
<1>3. Carried(c, x)
  <2>1. CASE Flow(c) /\ Pushed(c)
    <3>1. /\ c.highest_ack \in Int /\ c.highest_ack <= c.highest_ack
          /\ c.highest_ack <= c.curseq + 1
      BY <2>1, <1>1, <1>2, FlowNext DEF Ints
    <3>2. Flowed(c, x) /\ Pushed(x)
      BY <2>1, <3>1, <1>1, FlowFoutput
    <3> QED BY <2>1, <3>2, <1>1, FlowedCarried
  <2>2. CASE Quietly(c)
    <3>1. c.highest_ack = c.t_seqno
      BY <2>2, <1>2 DEF Quietly, Answered
    <3>2. Quieted(c, x)
      BY <2>2, <3>1, <1>1, QuietFoutput
    <3> QED BY <2>2, <3>2, <1>1, QuietedCarried
  <2> QED BY <2>1, <2>2, <1>1 DEF Lively
<1>4. Ready(x, d) /\ Turned(c, x) /\ (Tuned(c) => Tuned(x))
  BY <1>1, <1>2, <1>3, CarriedLeads
<1> QED BY <1>3, <1>4 DEF Carried

\* Changes that leave alone what the phases and the other side depend on
LEMMA LikeReady ==
  ASSUME NEW c, NEW d, Ready(c, d), Other(d), NEW x \in Agents, Alike(c, x),
         x.t_seqno = c.t_seqno \/ x.t_seqno = c.highest_ack,
         x.recover = c.recover \/ x.recover = c.maxseq
  PROVE  Ready(x, d) /\ Turned(c, x)
<1>1. /\ c \in Agents /\ Ints(c) /\ Well(c) /\ Pair(c, d)
      /\ c.state \in DataFlows \cup FinGoes \cup {"FIN_WAIT_2", "CLOSED"}
      /\ c.state \in DataFlows => Sending(c)
      /\ c.state \in FinGoes => Ending(c) /\ Winding(c)
      /\ c.state \in {"FIN_WAIT_2", "CLOSED"} => Answered(c)
      /\ 1 <= c.maxseq /\ 0 <= c.curseq /\ 1 <= c.highest_ack
  BY ReadyParts DEF Ready
<1>2. d \in Agents /\ Phase(d) /\ Ints(x)
  BY AgentInts DEF Other, Well
<1>3. Well(x) /\ Grown(c, x) /\ rcv_nxt(x) = rcv_nxt(c)
  BY <1>1, AlikeWell
<1>4. /\ x.state = c.state /\ x.passive = c.passive /\ x.maxseq = c.maxseq
      /\ x.highest_ack = c.highest_ack /\ x.curseq = c.curseq /\ x.rq = c.rq /\ x.out = c.out
  BY DEF Alike
<1>5. Talking(c) => Talking(x)
  BY <1>1, <1>2, <1>3, <1>4 DEF Talking, Ints
<1>6. Sending(c) => Sending(x)
  BY <1>1, <1>2, <1>4, <1>5 DEF Sending, Talking, Ints
<1>7. Ending(c) => Ending(x)
  BY <1>4, <1>5 DEF Ending, Winding
<1>8. Answered(c) => Answered(x)
  BY <1>3, <1>4 DEF Answered
<1>9. Phase(x)
  BY <1>1, <1>4, <1>6, <1>7, <1>8 DEF Phase, DataFlows, FinGoes
<1>10. Turned(c, x)
  BY <1>1, <1>3, <1>4 DEF Turned
<1>11. Side(x, d)
  BY <1>1, <1>4, SideSame DEF Pair
<1>12. Side(d, x)
  BY <1>1, <1>2, <1>10, SideTurned DEF Pair
<1>13. Tight(x)
  BY <1>3, <1>4 DEF Ready, Able, Tight, OutAck
<1> QED BY <1>1, <1>3, <1>4, <1>9, <1>10, <1>11, <1>12, <1>13 DEF Ready, Able, Pair

LEMMA LikeLeads ==
  ASSUME NEW c, NEW d, Ready(c, d), Other(d), NEW x \in Agents, Alike(c, x),
         x.t_seqno = c.t_seqno, x.recover = c.recover, Tuned(x)
  PROVE  Leads(c, d, x)
  BY LikeReady DEF Leads

LEMMA LeadsTransitive ==
  ASSUME NEW c, c \in Agents, NEW d, NEW x, Leads(c, d, x), NEW y, Leads(x, d, y)
  PROVE  Leads(c, d, y)
<1>1. x \in Agents /\ y \in Agents
  BY DEF Leads, Ready, Able, Well
<1> QED BY <1>1, TurnedTransitive DEF Leads

LEMMA LeadsItself ==
  ASSUME NEW c, NEW d, Ready(c, d), Other(d), Tuned(c)
  PROVE  Leads(c, d, c)
<1>1. c \in Agents
  BY ReadyParts
<1> QED BY <1>1, LikeLeads DEF Alike

LEMMA OweLeads ==
  ASSUME NEW c, NEW d, Ready(c, d), Other(d), Tuned(c)
  PROVE  Leads(c, d, [c EXCEPT !.acknow = TRUE])
<1>1. PICK x : x = [c EXCEPT !.acknow = TRUE]
  OBVIOUS
<1>2. c \in Agents
  BY ReadyParts
<1>3. /\ x \in Agents /\ Alike(c, x) /\ x.t_seqno = c.t_seqno /\ x.recover = c.recover
      /\ x.cwnd = c.cwnd /\ x.dupacks = c.dupacks
  BY <1>1, <1>2 DEF Agents, Alike
<1>4. Leads(c, d, x)
  BY <1>3, LikeLeads DEF Tuned
<1> QED BY <1>1, <1>4, Zenon

LEMMA DropAfterAckLeads ==
  ASSUME NEW c, NEW d, Ready(c, d), Other(d), Tuned(c)
  PROVE  Leads(c, d, DropAfterAck(c))
<1>1. PICK x : x = [c EXCEPT !.acknow = TRUE]
  OBVIOUS
<1>2. Leads(c, d, x)
  BY <1>1, OweLeads
<1>3. Leads(x, d, SendMuch(x, TRUE))
  BY <1>2, SendNow DEF Leads
<1>4. c \in Agents
  BY ReadyParts
<1>5. Leads(c, d, SendMuch(x, TRUE))
  BY <1>2, <1>3, <1>4, LeadsTransitive, Zenon
<1> QED BY <1>1, <1>5, Zenon DEF DropAfterAck

LEMMA AnswerLeads ==
  ASSUME NEW c, NEW d, Ready(c, d), Other(d), Tuned(c), NEW needoutput
  PROVE  Leads(c, d, Answer(c, needoutput))
<1>1. /\ Leads(c, d, SendMuch(c, TRUE)) /\ Leads(c, d, SendMuch(c, FALSE))
      /\ Leads(c, d, c)
  BY SendNow, SendMay, LeadsItself
<1> QED BY <1>1, Zenon DEF Answer

\* usrclosed in the two states in which it sends the FIN
LEMMA UsrClosedLeads ==
  ASSUME NEW c, NEW d, Ready(c, d), Other(d), Tuned(c),
         c.state \in {"ESTABLISHED", "CLOSE_WAIT"}
  PROVE  Leads(c, d, UsrClosed(c))
<1>1. /\ c \in Agents /\ Ints(c) /\ Well(c) /\ Fits(c) /\ OutFrom(c) /\ Pair(c, d)
      /\ Sending(c) /\ 1 <= c.maxseq /\ 1 <= rcv_nxt(c) /\ 0 <= c.curseq /\ 1 <= c.highest_ack
      /\ Tight(c)
  BY ReadyParts DEF Ready, Able, DataFlows
<1>2. d \in Agents /\ Phase(d)
  BY DEF Other, Well
<1>3. PICK st : st = IF c.state = "ESTABLISHED" THEN "FIN_WAIT_1" ELSE "LAST_ACK"
  OBVIOUS
<1>4. PICK last : last = c.maxseq - 1
  OBVIOUS
<1>5. last \in Int /\ st \in States /\ st \in FinGoes
  BY <1>1, <1>3, <1>4 DEF Ints, States, FinGoes
<1>6. PICK y : y = [c EXCEPT !.curseq = last, !.state = st]
  OBVIOUS
<1>7. /\ y \in Agents /\ y.state = st /\ y.curseq = last /\ y.maxseq = c.maxseq
      /\ y.highest_ack = c.highest_ack /\ y.t_seqno = c.t_seqno /\ y.rq = c.rq
      /\ y.out = c.out /\ y.passive = c.passive /\ y.recover = c.recover
      /\ y.last_ack_sent = c.last_ack_sent /\ y.cwnd = c.cwnd /\ y.dupacks = c.dupacks
  BY <1>1, <1>5, <1>6 DEF Agents
<1>8. UsrClosed(c) = SendMuch(y, TRUE)
  <2>1. [[c EXCEPT !.curseq = c.maxseq - 1] EXCEPT !.state = st] = y
    BY <1>1, <1>4, <1>6 DEF Agents
  <2>2. CASE c.state = "ESTABLISHED"
    <3>1. st = "FIN_WAIT_1"
      BY <2>2, <1>3
    <3>2. UsrClosed(c) = SendMuch([[c EXCEPT !.curseq = c.maxseq - 1] EXCEPT !.state = "FIN_WAIT_1"], TRUE)
      BY <2>2 DEF UsrClosed
    <3> QED BY <3>1, <3>2, <2>1, Zenon
  <2>3. CASE c.state = "CLOSE_WAIT"
    <3>1. st = "LAST_ACK"
      BY <2>3, <1>3
    <3>2. UsrClosed(c) = SendMuch([[c EXCEPT !.curseq = c.maxseq - 1] EXCEPT !.state = "LAST_ACK"], TRUE)
      BY <2>3 DEF UsrClosed
    <3> QED BY <3>1, <3>2, <2>1, Zenon
  <2> QED BY <2>2, <2>3
<1>9. Ints(y) /\ rcv_nxt(y) = rcv_nxt(c)
  BY <1>7, AgentInts DEF rcv_nxt
<1>10. Winding(y) /\ Flow(y)
  <2>1. Talking(y)
    BY <1>1, <1>4, <1>7, <1>9 DEF Sending, Talking, Ints
  <2>2. Winding(y)
    BY <2>1, <1>1, <1>4, <1>7 DEF Winding, Ints
  <2> QED BY <2>2, <1>5, <1>7 DEF Flow
<1>11. ~FinSent(c)
  BY <1>1 DEF Sending, FinSent, Ints
<1>12. Top(y) = Top(c)
  BY <1>1, <1>4, <1>7 DEF Top, MinOf, Sending, Ints
<1>13. Turned(c, y)
  <2>1. c.maxseq <= y.maxseq /\ rcv_nxt(c) <= rcv_nxt(y) /\ Top(c) <= Top(y)
    BY <1>1, <1>7, <1>9, <1>12 DEF Ints
  <2>2. Grown(c, y)
    BY <2>1, <1>1, <1>11 DEF Grown
  <2>3. y.state \notin {"SYN_SENT", "SYN_RECEIVED"}
    BY <1>5, <1>7 DEF FinGoes
  <2> QED BY <2>2, <2>3, <1>1, <1>7, <1>11 DEF Turned
<1>14. Well(y)
  <2>1. OutFrom(y)
    BY <1>1, <1>7, <1>13, OutGrown DEF Turned
  <2>2. y.curseq <= Most
    <3>1. last <= c.curseq /\ c.curseq <= Most /\ Most \in Int
      BY <1>1, <1>4, Bounds DEF Sending, Fits, Ints
    <3> QED BY <3>1, <1>1, <1>5, <1>7 DEF Ints
  <2>3. Fits(y)
    BY <2>2, <1>1, <1>7, <1>9 DEF Fits
  <2> QED BY <2>1, <2>3, <1>7 DEF Well
<1>15. Pair(y, d)
  <2>1. Side(d, y)
    BY <1>1, <1>2, <1>7, <1>13, SideTurned DEF Pair
  <2>2. d.state # "LAST_ACK"
    <3>1. ASSUME d.state = "LAST_ACK" PROVE FALSE
      <4>1. FinSent(c)
        BY <3>1, <1>1, LastAckHeard DEF FinCame
      <4> QED BY <4>1, <1>11
    <3> QED BY <3>1
  <2>3. CASE c.state = "ESTABLISHED"
    <3>1. y.state = "FIN_WAIT_1"
      BY <2>3, <1>3, <1>7
    <3>2. Side(y, d)
      BY <2>2, <2>3, <3>1, <1>1, <1>7, SideSame DEF Pair
    <3> QED BY <2>1, <3>2 DEF Pair
  <2>4. CASE c.state = "CLOSE_WAIT"
    <3>1. y.state = "LAST_ACK"
      BY <2>4, <1>3, <1>7
    <3>2. Side(y, d)
      <4>1. Side(c, d)
        BY <1>1 DEF Pair
      <4> QED BY <2>2, <2>4, <3>1, <4>1, <1>7, <1>9 DEF Side, Hears, FinCame
    <3> QED BY <2>1, <3>2 DEF Pair
  <2> QED BY <2>3, <2>4
<1>16. Tight(y)
  <2>1. ASSUME NEW i \in 1..Len(y.out) PROVE ~y.out[i].fin
    BY <2>1, <1>1, <1>7, <1>11 DEF OutFrom, From, Truthful
  <2> QED BY <2>1 DEF Tight, OutAck
<1>17. PICK force \in BOOLEAN : force = TRUE
  OBVIOUS
<1>18. PICK x : x = SendMuch(y, force)
  OBVIOUS
<1>19. Carried(y, x)
  <2>1. Lively(y, force)
    BY <1>10, <1>17 DEF Lively
  <2> QED BY <2>1, <1>14, <1>18, SendCarries
<1>20. Ready(x, d) /\ Turned(y, x) /\ (Tuned(y) => Tuned(x))
  <2>1. y.state \notin {"ESTABLISHED", "SYN_SENT", "SYN_RECEIVED"}
    BY <1>5, <1>7 DEF FinGoes
  <2>2. 0 <= y.curseq /\ 1 <= y.maxseq /\ 1 <= y.highest_ack
    BY <1>1, <1>4, <1>7 DEF Ints
  <2> QED BY <2>1, <2>2, <1>14, <1>15, <1>16, <1>19, CarriedLeads
<1>21. Leads(c, d, x)
  <2>1. x \in Agents
    BY <1>20 DEF Ready, Able, Well
  <2>2. Turned(c, x)
    BY <2>1, <1>1, <1>7, <1>13, <1>20, TurnedTransitive
  <2>3. Tuned(x)
    BY <1>7, <1>20 DEF Tuned
  <2> QED BY <2>2, <2>3, <1>20 DEF Leads
<1> QED BY <1>8, <1>17, <1>18, <1>21, Zenon

LEMMA CloseBehindLeads ==
  ASSUME NEW c, NEW d, Ready(c, d), Other(d), Tuned(c)
  PROVE  Leads(c, d, CloseBehind(c))
<1>1. c.state = "CLOSE_WAIT" => Leads(c, d, UsrClosed(c))
  BY UsrClosedLeads
<1>2. Leads(c, d, c)
  BY LeadsItself
<1> QED BY <1>1, <1>2, Zenon DEF CloseBehind

-----------------------------------------------------------------------------
(* The data of a segment and the queue *)

\* The block t is not below rcv_nxt_
Fills(q, t, top) ==
  /\ Waiting(q, top) /\ t \in Blk /\ Sound(t, top) /\ (t.f => t.e = top) /\ q.nxt <= t.s

\* u is the queue then, and the FIN is counted if flag holds
Filled(q, t, u, flag, top) ==
  /\ Waiting(u, top) /\ q.nxt <= u.nxt /\ u.nxt <= top
  /\ flag => u.nxt = top
  /\ flag \/ HasFlag(u.fifo) => HasFlag(q.fifo) \/ t.f

LEMMA FillsParts ==
  ASSUME NEW top \in Nat, NEW q, NEW t, Fills(q, t, top)
  PROVE  /\ Waiting(q, top) /\ q \in Queues /\ q.nxt \in Nat
         /\ q.fifo \in Seq(Blk) /\ Len(q.fifo) \in Nat
         /\ t \in Blk /\ t.s \in Nat /\ t.e \in Nat /\ t.f \in BOOLEAN
         /\ Sound(t, top) /\ t.s <= t.e /\ t.e <= top /\ (t.s = t.e => t.s = top)
         /\ (t.f => t.e = top) /\ q.nxt <= t.s
<1>1. Waiting(q, top) /\ q \in Queues
  BY DEF Fills, Waiting, Good
<1>2. q.nxt \in Nat /\ q.fifo \in Seq(Blk) /\ Len(q.fifo) \in Nat
  BY <1>1, QueueParts
<1>3. t \in Blk /\ Sound(t, top) /\ (t.f => t.e = top) /\ q.nxt <= t.s
  BY DEF Fills
<1>4. t.s \in Nat /\ t.e \in Nat /\ t.f \in BOOLEAN
  BY <1>3, BlkParts
<1> QED BY <1>1, <1>2, <1>3, <1>4 DEF Sound

LEMMA FillAhead ==
  ASSUME NEW top \in Nat, NEW q, NEW t, Fills(q, t, top), q.nxt # t.s
  PROVE  Filled(q, t, Add(q, t).queue, FALSE, top)
<1>1. /\ Waiting(q, top) /\ q.nxt \in Nat /\ t \in Blk /\ t.s \in Nat /\ t.e \in Nat
      /\ Sound(t, top) /\ t.s <= t.e /\ t.e <= top /\ (t.f => t.e = top) /\ q.nxt < t.s
  BY FillsParts
<1>2. PICK u : u = Add(q, t).queue
  OBVIOUS
<1>3. Extends(q, u, t, top) /\ Waiting(u, top) /\ u.nxt = q.nxt
  BY <1>1, <1>2, AddAhead, Zenon
<1>4. q.nxt <= u.nxt /\ u.nxt <= top
  BY <1>1, <1>3
<1>5. HasFlag(u.fifo) => HasFlag(q.fifo) \/ t.f
  BY <1>3, Zenon DEF Extends
<1> QED BY <1>2, <1>3, <1>4, <1>5, Zenon DEF Filled

LEMMA FillDirect ==
  ASSUME NEW top \in Nat, NEW q, NEW t, Fills(q, t, top), q.nxt = t.s, q.fifo = <<>>
  PROVE  Filled(q, t, [q EXCEPT !.nxt = t.e], t.f, top)
<1>1. /\ Waiting(q, top) /\ q \in Queues /\ t.s \in Nat /\ t.e \in Nat
      /\ t.s <= t.e /\ t.e <= top /\ (t.f => t.e = top)
  BY FillsParts
<1>2. PICK u : u = [q EXCEPT !.nxt = t.e]
  OBVIOUS
<1>3. u \in Queues /\ u.fifo = q.fifo /\ u.lifo = q.lifo /\ u.nxt = t.e
  <2>1. q = [fifo |-> q.fifo, lifo |-> q.lifo, nxt |-> q.nxt]
    BY <1>1 DEF Queues
  <2>2. u = [fifo |-> q.fifo, lifo |-> q.lifo, nxt |-> t.e]
    BY <1>2, <2>1
  <2>3. q.fifo \in Seq(Blk) /\ q.lifo \in Seq(Blk)
    BY <1>1, QueueParts
  <2> QED BY <1>1, <2>2, <2>3 DEF Queues
<1>4. Len(u.fifo) = 0
  BY <1>3
<1>5. Waiting(u, top)
  <2>1. Ahead(u)
    BY <1>4 DEF Ahead
  <2> QED BY <1>1, <1>3, <2>1 DEF Waiting, Good
<1>6. ~HasFlag(u.fifo)
  BY <1>4 DEF HasFlag
<1>7. q.nxt <= u.nxt /\ u.nxt <= top
  BY <1>1, <1>3
<1>8. t.f => u.nxt = top
  BY <1>1, <1>3
<1> QED BY <1>2, <1>5, <1>6, <1>7, <1>8, Zenon DEF Filled

\* Behind a queue the segment has bytes
LEMMA FillsBytes ==
  ASSUME NEW top \in Nat, NEW q, NEW t, Fills(q, t, top), q.nxt = t.s, q.fifo # <<>>
  PROVE  t.s < t.e
<1>1. /\ Waiting(q, top) /\ q \in Queues /\ q.fifo \in Seq(Blk) /\ Len(q.fifo) \in Nat
      /\ q.nxt \in Nat /\ t.s \in Nat /\ t.e \in Nat /\ t.s <= t.e /\ (t.s = t.e => t.s = top)
  BY FillsParts
<1>2. 1 \in 1..Len(q.fifo)
  BY <1>1
<1>3. q.nxt < q.fifo[1].s /\ q.fifo[1].s <= q.fifo[1].e /\ q.fifo[1].e <= top
  BY <1>1, <1>2 DEF Waiting, Ahead, Good, Apart, Sound
<1>4. q.fifo[1].s \in Nat /\ q.fifo[1].e \in Nat
  BY <1>1, <1>2, QueueParts
<1> QED BY <1>1, <1>3, <1>4

LEMMA FillNext ==
  ASSUME NEW top \in Nat, NEW q, NEW t, Fills(q, t, top), q.nxt = t.s, q.fifo # <<>>
  PROVE  Filled(q, t, Clearto(Add(q, t).queue).queue,
                Add(q, t).flag \/ Clearto(Add(q, t).queue).flag, top)
<1>1. /\ Waiting(q, top) /\ q \in Queues /\ q.nxt \in Nat /\ t \in Blk /\ t.s \in Nat /\ t.e \in Nat
      /\ Sound(t, top) /\ t.e <= top /\ (t.f => t.e = top) /\ t.s < t.e
  BY FillsParts, FillsBytes
<1>2. PICK a : a = Add(q, t).queue
  OBVIOUS
<1>3. /\ Extends(q, a, t, top) /\ 1 \in 1..Len(a.fifo) /\ a.fifo[1].s = q.nxt
      /\ a.fifo[1].e = a.nxt /\ (Add(q, t).flag => a.fifo[1].f)
  BY <1>1, <1>2, AddNext, Zenon
<1>4. a \in Queues /\ Apart(a.fifo, top) /\ Good(a, top) /\ FlagsAtTop(a.fifo, top)
  BY <1>3 DEF Extends, Good
<1>5. PICK u : u = Clearto(a).queue
  OBVIOUS
<1>6. /\ Waiting(u, top) /\ u.nxt = a.nxt /\ Clearto(a).flag = a.fifo[1].f
      /\ HasFlag(u.fifo) => HasFlag(a.fifo)
  BY <1>3, <1>4, <1>5, ClearFirst, Zenon
<1>7. q.nxt <= u.nxt /\ u.nxt <= top
  <2>1. a.nxt \in Nat /\ a.fifo[1].s \in Nat /\ a.fifo[1].e \in Nat
    BY <1>3, <1>4, QueueParts
  <2>2. a.fifo[1].s <= a.fifo[1].e /\ a.fifo[1].e <= top
    BY <1>3, <1>4 DEF Apart, Sound
  <2> QED BY <2>1, <2>2, <1>1, <1>3, <1>6
<1>8. Add(q, t).flag \/ Clearto(a).flag => a.fifo[1].f
  BY <1>3, <1>6, Zenon
<1>9. a.fifo[1].f => u.nxt = top
  BY <1>3, <1>4, <1>6, Zenon DEF FlagsAtTop
<1>10. a.fifo[1].f \/ HasFlag(u.fifo) => HasFlag(q.fifo) \/ t.f
  <2>1. a.fifo[1].f => HasFlag(a.fifo)
    BY <1>3, Zenon DEF HasFlag
  <2> QED BY <2>1, <1>3, <1>6, Zenon DEF Extends
<1>11. Filled(q, t, u, Add(q, t).flag \/ Clearto(a).flag, top)
  BY <1>6, <1>7, <1>8, <1>9, <1>10, Zenon DEF Filled
<1> QED BY <1>2, <1>5, <1>11, Zenon

\* What reass does, when the segment is not in order or something is queued
LEMMA ReassembledIs ==
  ASSUME NEW top \in Nat, NEW c, NEW p, NEW t, t = Block(p.seq, p.seq + p.len, p.fin),
         t.s = p.seq, Fills(c.rq, t, top), p.seq # rcv_nxt(c) \/ c.rq.fifo # <<>>
  PROVE  Filled(c.rq, t, Reassembled(c, p).queue, Reassembled(c, p).flag, top)
<1>1. PICK q : q = c.rq
  OBVIOUS
<1>2. CASE p.seq = q.nxt
  <2>1. Reassembled(c, p) = Cleared(Add(q, t))
    BY <1>1, <1>2, Zenon DEF Reassembled, rcv_nxt
  <2>2. PICK a : a = Add(q, t)
    OBVIOUS
  <2>3. Reassembled(c, p) = Result(Clearto(a.queue).queue, a.flag \/ Clearto(a.queue).flag)
    BY <2>1, <2>2, Zenon DEF Cleared
  <2>4. /\ Reassembled(c, p).queue = Clearto(a.queue).queue
        /\ Reassembled(c, p).flag = (a.flag \/ Clearto(a.queue).flag)
    BY <2>3 DEF Result
  <2>5. Filled(q, t, Clearto(a.queue).queue, a.flag \/ Clearto(a.queue).flag, top)
    BY <1>1, <1>2, <2>2, FillNext DEF rcv_nxt
  <2> QED BY <1>1, <2>4, <2>5, Zenon
<1>3. CASE p.seq # q.nxt
  <2>1. Reassembled(c, p) = Result(Add(q, t).queue, FALSE)
    BY <1>1, <1>3, Zenon DEF Reassembled, rcv_nxt
  <2>2. Reassembled(c, p).queue = Add(q, t).queue /\ Reassembled(c, p).flag = FALSE
    BY <2>1 DEF Result
  <2>3. Filled(q, t, Add(q, t).queue, FALSE, top)
    BY <1>1, <1>3, FillAhead
  <2> QED BY <1>1, <2>2, <2>3, Zenon
<1> QED BY <1>2, <1>3

\* The end of the data of the other side
LEMMA TopIs ==
  ASSUME NEW d \in Agents, 1 <= d.maxseq, d.curseq <= Most, 0 <= d.curseq
  PROVE  /\ Top(d) \in Nat /\ 1 <= Top(d) /\ Top(d) <= d.maxseq /\ Top(d) <= Most + 1
         /\ d.maxseq \in Int
         /\ FinSent(d) => d.maxseq = Top(d) + 1
<1>1. Ints(d) /\ Most \in Nat
  BY AgentInts, Bounds
<1> QED BY <1>1 DEF Ints, Top, MinOf, FinSent

LEMMA OtherParts ==
  ASSUME NEW d, Other(d)
  PROVE  /\ d \in Agents /\ Ints(d) /\ Phase(d) /\ d.curseq <= Most
         /\ 1 <= d.maxseq => /\ 0 <= d.curseq
                             /\ d.state \notin {"CLOSED", "LISTEN"} \/ Answered(d)
<1>1. d \in Agents /\ Ints(d) /\ Phase(d) /\ d.curseq <= Most /\ d.state \in States
  BY AgentInts, AgentFields DEF Other, Well, Fits, AgentParts
<1>2. ASSUME 1 <= d.maxseq
      PROVE  0 <= d.curseq /\ (d.state \notin {"CLOSED", "LISTEN"} \/ Answered(d))
  <2>1. ~Blank(d)
    BY <1>1, <1>2 DEF Blank, Ints
  <2>2. /\ d.state # "LISTEN" /\ (d.state = "CLOSED" => Answered(d))
        /\ d.state \in {"SYN_SENT", "SYN_RECEIVED"} => 0 <= d.curseq
        /\ d.state \in DataFlows => Sending(d)
        /\ d.state \in FinGoes => Ending(d)
        /\ d.state = "FIN_WAIT_2" => Answered(d)
    BY <1>1, <2>1 DEF Phase, Calling
  <2>3. d.state \in {"SYN_SENT", "SYN_RECEIVED", "CLOSED", "FIN_WAIT_2"} \cup DataFlows \cup FinGoes
    BY <1>1, <2>2 DEF States, DataFlows, FinGoes
  <2>4. Sending(d) => 0 <= d.curseq
    BY <1>1 DEF Sending, Talking, Ints
  <2>5. Ending(d) => 0 <= d.curseq
    BY <1>1 DEF Ending, Winding, Talking, Ints
  <2>6. Answered(d) => 0 <= d.curseq
    BY DEF Answered
  <2> QED BY <2>2, <2>3, <2>4, <2>5, <2>6
<1> QED BY <1>1, <1>2

\* The agent x is c with another state and another queue, and answers owed
Similar(c, x) ==
  /\ x.passive = c.passive /\ x.maxseq = c.maxseq
  /\ x.highest_ack = c.highest_ack /\ x.t_seqno = c.t_seqno /\ x.curseq = c.curseq
  /\ x.last_ack_sent = c.last_ack_sent /\ x.recover = c.recover /\ x.out = c.out
  /\ x.cwnd = c.cwnd /\ x.dupacks = c.dupacks

TakesIn(c, x) == Similar(c, x) /\ x.state = c.state

Receiving == {"ESTABLISHED", "FIN_WAIT_1", "FIN_WAIT_2"}

\* More received changes nothing else of an agent
LEMMA TakenWell ==
  ASSUME NEW c, NEW d, Ready(c, d), NEW x \in Agents, Similar(c, x),
         rcv_nxt(c) <= rcv_nxt(x), rcv_nxt(x) <= Most + 2
  PROVE  /\ Well(x) /\ Grown(c, x)
         /\ Talking(c) => Talking(x)
         /\ Sending(c) => Sending(x)
         /\ Ending(c) => Ending(x)
         /\ Answered(c) => Answered(x)
         /\ Top(x) = Top(c) /\ (FinSent(x) <=> FinSent(c))
<1>1. /\ c \in Agents /\ Ints(c) /\ Fits(c) /\ OutFrom(c) /\ 1 <= c.maxseq /\ Ints(x)
  BY ReadyParts, AgentInts
<1>2. Top(x) = Top(c) /\ (FinSent(x) <=> FinSent(c))
  BY DEF Similar, Top, FinSent
<1>3. Grown(c, x)
  BY <1>1, <1>2 DEF Grown, Ints, Similar
<1>4. OutFrom(x)
  BY <1>1, <1>3, OutGrown DEF Similar
<1>5. Fits(x)
  <2>1. x.last_ack_sent <= rcv_nxt(x)
    BY <1>1 DEF Fits, Similar, Ints
  <2> QED BY <2>1, <1>1 DEF Fits, Similar
<1>6. Talking(c) => Talking(x)
  BY <1>1 DEF Talking, Similar, Ints
<1>7. Sending(c) => Sending(x)
  BY <1>6 DEF Sending, Similar
<1>8. Ending(c) => Ending(x)
  BY <1>6 DEF Ending, Winding, Similar
<1>9. Answered(c) => Answered(x)
  BY <1>1 DEF Answered, Similar, Ints
<1> QED BY <1>2, <1>3, <1>4, <1>5, <1>6, <1>7, <1>8, <1>9 DEF Well

LEMMA TakeLeads ==
  ASSUME NEW c, NEW d, Ready(c, d), Other(d), Tuned(c), c.state \in Receiving, 1 <= d.maxseq,
         NEW x \in Agents, TakesIn(c, x), Waiting(x.rq, Top(d)),
         rcv_nxt(c) <= rcv_nxt(x), rcv_nxt(x) <= Top(d),
         ~FinSent(d) => Open(x.rq.fifo),
         d.state = "LAST_ACK" /\ c.state = "FIN_WAIT_1" => Flagless(x)
  PROVE  Leads(c, d, x)
<1>1. /\ c \in Agents /\ Ints(c) /\ Ints(x) /\ Pair(c, d) /\ 1 <= c.maxseq /\ 1 <= rcv_nxt(c)
      /\ 0 <= c.curseq /\ 1 <= c.highest_ack
      /\ c.state \in DataFlows => Sending(c)
      /\ c.state \in FinGoes => Ending(c)
      /\ c.state \in {"FIN_WAIT_2", "CLOSED"} => Answered(c)
  BY ReadyParts, AgentInts DEF Ready
<1>2. d \in Agents /\ Ints(d) /\ Phase(d) /\ d.curseq <= Most /\ 0 <= d.curseq
  BY OtherParts
<1>3. Top(d) \in Nat /\ Top(d) <= d.maxseq /\ Top(d) <= Most + 1 /\ d.maxseq \in Int
  BY <1>2, TopIs
<1>4. rcv_nxt(x) \in Int /\ rcv_nxt(x) <= Most + 2 /\ rcv_nxt(x) <= d.maxseq
  BY <1>1, <1>3, Bounds DEF Ints
<1>5. /\ Well(x) /\ Grown(c, x) /\ (Sending(c) => Sending(x)) /\ (Ending(c) => Ending(x))
      /\ (Answered(c) => Answered(x))
  BY <1>4, TakenWell DEF TakesIn
<1>6. Phase(x)
  BY <1>1, <1>5 DEF Phase, Receiving, DataFlows, FinGoes, TakesIn
<1>7. Turned(c, x)
  BY <1>1, <1>5 DEF Turned, TakesIn, Similar, Receiving
<1>8. Side(d, x)
  BY <1>1, <1>2, <1>7, SideTurned DEF Pair
<1>9. Side(x, d)
  <2>1. x.state \notin FinCame
    BY DEF TakesIn, Receiving, FinCame
  <2>2. Hears(x, d)
    BY <2>1, <1>4 DEF Hears
  <2>3. d.state # "CLOSED" => x.highest_ack <= rcv_nxt(d)
    BY <1>1 DEF Pair, Side, TakesIn, Similar
  <2>4. d.state = "LAST_ACK" /\ x.state = "FIN_WAIT_1" => Flagless(x)
    BY DEF TakesIn
  <2> QED BY <2>1, <2>2, <2>3, <2>4 DEF Side
<1>10. Tight(x)
  BY DEF Tight, TakesIn, Receiving
<1>11. Tuned(x)
  BY DEF Tuned, TakesIn, Similar
<1> QED BY <1>1, <1>5, <1>6, <1>7, <1>8, <1>9, <1>10, <1>11 DEF Leads, Ready, Able, Pair, TakesIn, Similar

\* The FIN that the data step returns
Due(c, d) ==
  /\ c.state \in Receiving /\ 1 <= d.maxseq /\ FinSent(d) /\ rcv_nxt(c) = Top(d)
  /\ d.state = "LAST_ACK" => c.state = "FIN_WAIT_2"

\* The three states FinStep may enter.
LEMMA StatesOpen == "CLOSE_WAIT" \in States /\ "CLOSING" \in States /\ "CLOSED" \in States
  BY DEF States

\* rcv_nxt_ and the state when a FIN is counted
LEMMA CountedIs ==
  ASSUME NEW c \in Agents, NEW st \in States, NEW x,
         x = [[c EXCEPT !.acknow = TRUE, !.rq.nxt = @ + 1] EXCEPT !.state = st]
  PROVE  x \in Agents /\ x.state = st /\ rcv_nxt(x) = rcv_nxt(c) + 1 /\ Similar(c, x)
<1>1. c.rq \in RQueues
  BY AgentFields DEF AgentParts
<1>2. PICK u : u = [c.rq EXCEPT !.nxt = @ + 1]
  OBVIOUS
<1>3. u \in RQueues /\ u.nxt = c.rq.nxt + 1
  BY <1>1, <1>2 DEF RQueues
<1>4. PICK y : y = [c EXCEPT !.acknow = TRUE, !.rq = u]
  OBVIOUS
<1>5. y = [c EXCEPT !.acknow = TRUE, !.rq.nxt = @ + 1]
  BY <1>2, <1>4 DEF Agents
<1>6. y \in Agents /\ y.rq = u /\ Similar(c, y)
  BY <1>3, <1>4 DEF Agents, Similar
<1>7. x = [y EXCEPT !.state = st]
  BY <1>5
<1>8. x \in Agents /\ x.state = st /\ x.rq = u /\ Similar(y, x)
  BY <1>6, <1>7 DEF Agents, Similar
<1> QED BY <1>3, <1>6, <1>8 DEF rcv_nxt, Similar

LEMMA CountLeads ==
  ASSUME NEW c, NEW d, Ready(c, d), Other(d), Tuned(c), Due(c, d),
         NEW x \in Agents, Similar(c, x), rcv_nxt(x) = rcv_nxt(c) + 1,
         \/ c.state = "ESTABLISHED" /\ x.state = "CLOSE_WAIT"
         \/ c.state = "FIN_WAIT_1" /\ x.state = "CLOSING"
         \/ c.state = "FIN_WAIT_2" /\ x.state = "CLOSED"
  PROVE  Leads(c, d, x)
<1>1. /\ c \in Agents /\ Ints(c) /\ Ints(x) /\ Pair(c, d) /\ 1 <= c.maxseq /\ 1 <= rcv_nxt(c)
      /\ 0 <= c.curseq /\ 1 <= c.highest_ack
      /\ c.state \in DataFlows => Sending(c)
      /\ c.state \in FinGoes => Ending(c)
      /\ c.state \in {"FIN_WAIT_2", "CLOSED"} => Answered(c)
  BY ReadyParts, AgentInts DEF Ready
<1>2. d \in Agents /\ Ints(d) /\ Phase(d) /\ d.curseq <= Most /\ 0 <= d.curseq /\ 1 <= d.maxseq
  BY OtherParts DEF Due
<1>3. Top(d) \in Nat /\ Top(d) <= Most + 1 /\ d.maxseq = Top(d) + 1
  BY <1>2, TopIs DEF Due
<1>4. rcv_nxt(x) = d.maxseq /\ rcv_nxt(c) <= rcv_nxt(x) /\ rcv_nxt(x) <= Most + 2
  BY <1>1, <1>3, Bounds DEF Due, Ints
<1>5. /\ Well(x) /\ Grown(c, x) /\ (Sending(c) => Sending(x)) /\ (Ending(c) => Ending(x))
      /\ (Answered(c) => Answered(x))
  BY <1>4, TakenWell
<1>6. Phase(x)
  BY <1>1, <1>5 DEF Phase, DataFlows, FinGoes
<1>7. Turned(c, x)
  BY <1>1, <1>5 DEF Turned, Similar
<1>8. Side(d, x)
  BY <1>1, <1>2, <1>7, SideTurned DEF Pair
<1>9. Side(x, d)
  <2>1. Hears(x, d)
    BY <1>1, <1>2, <1>4 DEF Hears, Due, FinCame, Ints
  <2>2. d.state # "CLOSED" => x.highest_ack <= rcv_nxt(d)
    BY <1>1 DEF Pair, Side, Similar
  <2>3. d.state = "LAST_ACK" => x.state \notin FinCame /\ x.state # "FIN_WAIT_1"
    BY DEF Due, FinCame
  <2> QED BY <2>1, <2>2, <2>3, <1>2 DEF Side
<1>10. Tight(x) /\ Tuned(x)
  BY DEF Tight, Tuned, Similar
<1> QED BY <1>1, <1>5, <1>6, <1>7, <1>8, <1>9, <1>10 DEF Leads, Ready, Able, Pair, Similar

\* CancelTimers, in a closing state or another
LEMMA CancelLeads ==
  ASSUME NEW c, NEW d, Ready(c, d), Other(d), Tuned(c)
  PROVE  Leads(c, d, CancelTimers(c))
<1>1. PICK x : x = CancelTimers(c)
  OBVIOUS
<1>2. c \in Agents
  BY ReadyParts
<1>3. /\ x \in Agents /\ Alike(c, x) /\ x.t_seqno = c.t_seqno /\ x.recover = c.recover
      /\ x.cwnd = c.cwnd /\ x.dupacks = c.dupacks
  BY <1>1, <1>2 DEF Agents, Alike, CancelTimers
<1>4. Leads(c, d, x)
  BY <1>3, LikeLeads DEF Tuned
<1> QED BY <1>1, <1>4, Zenon

LEMMA FinStepLeads ==
  ASSUME NEW c, NEW d, Ready(c, d), Other(d), Tuned(c), NEW fin, fin => Due(c, d)
  PROVE  Leads(c, d, FinStep(c, fin))
<1>1. CASE ~fin
  <2>1. FinStep(c, fin) = c
    BY <1>1, Zenon DEF FinStep
  <2> QED BY <2>1, LeadsItself
<1>2. CASE fin
  <2>1. Due(c, d) /\ c \in Agents /\ c.state \in Receiving
    BY <1>2, ReadyParts DEF Due
  <2>2. PICK y : y = [c EXCEPT !.acknow = TRUE, !.rq.nxt = @ + 1]
    OBVIOUS
  <2>3. ~HaveRcvdFin(c.state)
    BY <2>1 DEF HaveRcvdFin, Receiving
  <2>4. CASE c.state = "ESTABLISHED"
    <3>1. PICK x : x = [y EXCEPT !.state = "CLOSE_WAIT"]
      BY Zenon
    <3>2. FinStep(c, fin) = x
      BY <1>2, <2>2, <2>3, <2>4, <3>1 DEF FinStep
    <3>3. /\ x \in Agents /\ x.state = "CLOSE_WAIT" /\ rcv_nxt(x) = rcv_nxt(c) + 1
          /\ Similar(c, x)
      BY <2>1, <2>2, <3>1, StatesOpen, CountedIs, ZenonT(40)
    <3> QED BY <2>1, <2>4, <3>2, <3>3, CountLeads
  <2>5. CASE c.state = "FIN_WAIT_1"
    <3>1. PICK x : x = [y EXCEPT !.state = "CLOSING"]
      OBVIOUS
    <3>2. FinStep(c, fin) = x
      BY <1>2, <2>2, <2>3, <2>5, <3>1 DEF FinStep
    <3>3. /\ x \in Agents /\ x.state = "CLOSING" /\ rcv_nxt(x) = rcv_nxt(c) + 1
          /\ Similar(c, x)
      BY <2>1, <2>2, <3>1, StatesOpen, CountedIs, ZenonT(40)
    <3> QED BY <2>1, <2>5, <3>2, <3>3, CountLeads
  <2>6. CASE c.state = "FIN_WAIT_2"
    <3>1. PICK x : x = [y EXCEPT !.state = "CLOSED"]
      OBVIOUS
    <3>2. FinStep(c, fin) = CancelTimers(x)
      BY <1>2, <2>2, <2>3, <2>6, <3>1 DEF FinStep
    <3>3. /\ x \in Agents /\ x.state = "CLOSED" /\ rcv_nxt(x) = rcv_nxt(c) + 1
          /\ Similar(c, x)
      BY <2>1, <2>2, <3>1, StatesOpen, CountedIs, ZenonT(40)
    <3>4. Leads(c, d, x)
      BY <2>1, <2>6, <3>3, CountLeads
    <3>5. Leads(x, d, CancelTimers(x))
      BY <3>4, CancelLeads DEF Leads
    <3> QED BY <2>1, <3>2, <3>4, <3>5, LeadsTransitive
  <2> QED BY <2>1, <2>4, <2>5, <2>6 DEF Receiving
<1> QED BY <1>1, <1>2

\* What the data step is given: nothing, data for an agent that takes no more,
\* or data of the other side that is not below rcv_nxt_
Wanted(p, c, d) ==
  /\ c.state \in Receiving /\ 1 <= d.maxseq
  /\ rcv_nxt(c) <= p.seq /\ 0 <= p.len /\ (p.len > 0 \/ p.fin) /\ p.seq + p.len <= Top(d)
  /\ p.fin => FinSent(d) /\ p.seq + p.len = Top(d)
  /\ d.state = "LAST_ACK" /\ p.fin => c.state # "FIN_WAIT_1"

Payload(p, c, d) ==
  /\ p \in Segments
  /\ (p.len = 0 /\ ~p.fin) \/ HaveRcvdFin(c.state) \/ Wanted(p, c, d)

LEMMA WantedFills ==
  ASSUME NEW c, NEW d, Ready(c, d), Other(d), NEW p \in Segments, Wanted(p, c, d),
         NEW t, t = Block(p.seq, p.seq + p.len, p.fin)
  PROVE  /\ Fills(c.rq, t, Top(d)) /\ Top(d) \in Nat /\ t.s = p.seq /\ t.e = p.seq + p.len
         /\ (t.f <=> p.fin)
         /\ ~FinSent(d) => /\ Open(c.rq.fifo) /\ ~p.fin /\ t.s < t.e
                           /\ Fills(c.rq, t, Top(d) + 1)
<1>1. /\ c \in Agents /\ Ints(c) /\ Pair(c, d) /\ 1 <= rcv_nxt(c)
  BY ReadyParts
<1>2. d \in Agents /\ Ints(d) /\ d.curseq <= Most /\ 0 <= d.curseq /\ 1 <= d.maxseq
  BY OtherParts DEF Wanted
<1>3. Top(d) \in Nat
  BY <1>2, TopIs
<1>4. p.seq \in Int /\ p.len \in Int /\ p.fin \in BOOLEAN
  BY DEF Segments
<1>5. p.seq \in Nat /\ p.seq + p.len \in Nat
  BY <1>1, <1>4 DEF Wanted, Ints
<1>6. t \in Blk /\ t.s = p.seq /\ t.e = p.seq + p.len /\ t.f = p.fin
  BY <1>4, <1>5, BlockIs
<1>7. c.state \notin FinCame \cup {"CLOSED"}
  BY DEF Wanted, Receiving, FinCame
<1>8. Waiting(c.rq, Top(d)) /\ (~FinSent(d) => Open(c.rq.fifo))
  BY <1>1, <1>2, <1>7 DEF Pair, Side, Hears
<1>9. Sound(t, Top(d)) /\ (t.f => t.e = Top(d))
  BY <1>3, <1>4, <1>5, <1>6 DEF Wanted, Sound
<1>10. Fills(c.rq, t, Top(d))
  BY <1>6, <1>8, <1>9 DEF Fills, Wanted, rcv_nxt
<1>11. ASSUME ~FinSent(d)
       PROVE  Open(c.rq.fifo) /\ ~p.fin /\ t.s < t.e /\ Fills(c.rq, t, Top(d) + 1)
  <2>1. ~p.fin /\ p.len > 0
    BY <1>11 DEF Wanted
  <2>2. t.s < t.e
    BY <2>1, <1>4, <1>6
  <2>3. Sound(t, Top(d) + 1) /\ ~t.f
    BY <2>1, <2>2, <1>3, <1>5, <1>6, <1>9 DEF Sound
  <2>4. Waiting(c.rq, Top(d) + 1)
    <3>1. Top(d) + 1 \in Nat /\ Top(d) <= Top(d) + 1
      BY <1>3
    <3> QED BY <3>1, <1>3, <1>8, <1>11, OpenWaiting
  <2> QED BY <2>1, <2>2, <2>3, <2>4, <1>6, <1>8, <1>11 DEF Fills, Wanted, rcv_nxt
<1> QED BY <1>3, <1>6, <1>10, <1>11

\* An agent with a queue that was filled
LEMMA FilledLeads ==
  ASSUME NEW c, NEW d, Ready(c, d), Other(d), Tuned(c), NEW p \in Segments, Wanted(p, c, d),
         NEW t, t = Block(p.seq, p.seq + p.len, p.fin),
         NEW x \in Agents, TakesIn(c, x),
         NEW flag, Filled(c.rq, t, x.rq, flag, Top(d)),
         ~FinSent(d) => Filled(c.rq, t, x.rq, flag, Top(d) + 1)
  PROVE  Leads(c, d, x) /\ (flag => Due(x, d))
<1>1. /\ Fills(c.rq, t, Top(d)) /\ Top(d) \in Nat /\ (t.f <=> p.fin)
  BY WantedFills
<1>2. /\ Waiting(x.rq, Top(d)) /\ rcv_nxt(c) <= rcv_nxt(x) /\ rcv_nxt(x) <= Top(d)
      /\ flag => rcv_nxt(x) = Top(d)
      /\ flag \/ HasFlag(x.rq.fifo) => HasFlag(c.rq.fifo) \/ p.fin
  BY <1>1, Zenon DEF Filled, rcv_nxt
<1>3. c.state \in Receiving /\ 1 <= d.maxseq
  BY DEF Wanted
<1>4. ~FinSent(d) => Open(x.rq.fifo)
  <2>1. ~FinSent(d) => Waiting(x.rq, Top(d) + 1)
    BY DEF Filled
  <2> QED BY <2>1, <1>1, <1>2, WaitingOpen
<1>5. ~FinSent(d) => ~flag
  <2>1. ASSUME ~FinSent(d), flag PROVE FALSE
    <3>1. x.rq.nxt = Top(d) /\ x.rq.nxt = Top(d) + 1
      BY <2>1 DEF Filled
    <3> QED BY <3>1, <1>1
  <2> QED BY <2>1
<1>6. d.state = "LAST_ACK" /\ c.state = "FIN_WAIT_1" => ~HasFlag(c.rq.fifo) /\ ~p.fin
  <2>1. ASSUME d.state = "LAST_ACK", c.state = "FIN_WAIT_1" PROVE ~HasFlag(c.rq.fifo) /\ ~p.fin
    <3>1. Flagless(c)
      BY <2>1, ReadyParts DEF Pair, Side
    <3>2. ~p.fin
      BY <2>1 DEF Wanted
    <3> QED BY <3>1, <3>2 DEF Flagless, HasFlag
  <2> QED BY <2>1
<1>7. d.state = "LAST_ACK" /\ c.state = "FIN_WAIT_1" => Flagless(x) /\ ~flag
  BY <1>2, <1>6 DEF Flagless, HasFlag
<1>8. Leads(c, d, x)
  BY <1>2, <1>3, <1>4, <1>7, TakeLeads
<1>9. ASSUME flag PROVE Due(x, d)
  <2>1. x.state = c.state
    BY DEF TakesIn
  <2>2. d.state = "LAST_ACK" => c.state # "ESTABLISHED"
    <3>1. ASSUME d.state = "LAST_ACK", c.state = "ESTABLISHED" PROVE FALSE
      <4>1. FinSent(c)
        BY <3>1, LastAckHeard, ReadyParts DEF FinCame
      <4>2. ~FinSent(c)
        BY <3>1, ReadyLively
      <4> QED BY <4>1, <4>2
    <3> QED BY <3>1
  <2> QED BY <2>1, <2>2, <1>2, <1>3, <1>5, <1>7, <1>9 DEF Due, Receiving
<1> QED BY <1>8, <1>9

LEMMA DataStepLeads ==
  ASSUME NEW c, NEW d, Ready(c, d), Other(d), Tuned(c), NEW p, Payload(p, c, d), NEW needoutput
  PROVE  LET s == DataStep(c, p, needoutput)
         IN  Leads(c, d, s.c) /\ (s.fin => Due(s.c, d))
<1>1. PICK s : s = DataStep(c, p, needoutput)
  OBVIOUS
<1>2. CASE (p.len = 0 /\ ~p.fin) \/ HaveRcvdFin(c.state)
  <2>1. s = [c |-> c, fin |-> FALSE, out |-> needoutput]
    BY <1>1, <1>2, Zenon DEF DataStep
  <2>2. s.c = c /\ ~s.fin
    BY <2>1
  <2> QED BY <2>2, <1>1, LeadsItself
<1>3. CASE ~((p.len = 0 /\ ~p.fin) \/ HaveRcvdFin(c.state))
  <2>1. Wanted(p, c, d) /\ p \in Segments
    BY <1>3 DEF Payload
  <2>2. PICK t : t = Block(p.seq, p.seq + p.len, p.fin)
    OBVIOUS
  <2>3. /\ Fills(c.rq, t, Top(d)) /\ Top(d) \in Nat /\ t.s = p.seq /\ t.e = p.seq + p.len
        /\ (t.f <=> p.fin)
        /\ ~FinSent(d) => Fills(c.rq, t, Top(d) + 1)
    BY <2>1, <2>2, WantedFills
  <2>4. Top(d) + 1 \in Nat
    BY <2>3
  <2>5. c \in Agents /\ c.rq \in RQueues
    BY ReadyParts, AgentFields DEF AgentParts
  <2>6. CASE p.seq = rcv_nxt(c) /\ c.rq.fifo = <<>>
    <3>1. PICK u : u = [c.rq EXCEPT !.nxt = t.e]
      OBVIOUS
    <3>2. PICK x : x = [c EXCEPT !.rq = u, !.delack = TRUE]
      OBVIOUS
    <3>3. x = [c EXCEPT !.rq.nxt = @ + p.len, !.delack = TRUE]
      <4>1. c.rq.nxt + p.len = t.e
        BY <2>3, <2>6 DEF rcv_nxt
      <4> QED BY <4>1, <2>5, <3>1, <3>2 DEF Agents
    <3>4. s.c = x /\ s.fin = p.fin
      <4>1. s = [c |-> x, fin |-> p.fin, out |-> NeedSend(x)]
        BY <1>1, <1>3, <2>6, <3>3, Zenon DEF DataStep
      <4> QED BY <4>1
    <3>5. p.fin <=> t.f
      BY <2>3
    <3>6. Filled(c.rq, t, u, t.f, Top(d))
      BY <2>3, <2>6, <3>1, FillDirect DEF rcv_nxt
    <3>7. ~FinSent(d) => Filled(c.rq, t, u, t.f, Top(d) + 1)
      BY <2>3, <2>4, <2>6, <3>1, FillDirect DEF rcv_nxt
    <3>8. u \in RQueues
      BY <3>6 DEF Filled, Waiting, Good, Queues, RQueues
    <3>9. x \in Agents /\ TakesIn(c, x) /\ x.rq = u
      BY <2>5, <3>2, <3>8 DEF Agents, TakesIn, Similar
    <3>10. Leads(c, d, x) /\ (t.f => Due(x, d))
      BY <2>1, <2>2, <3>6, <3>7, <3>9, FilledLeads
    <3> QED BY <1>1, <3>4, <3>5, <3>10
  <2>7. CASE p.seq # rcv_nxt(c) \/ c.rq.fifo # <<>>
    <3>1. PICK r : r = Reassembled(c, p)
      OBVIOUS
    <3>2. PICK u : u = r.queue
      OBVIOUS
    <3>3. PICK flag : flag = r.flag
      OBVIOUS
    <3>4. PICK x : x = [c EXCEPT !.rq = u, !.acknow = TRUE]
      OBVIOUS
    <3>5. s.c = x /\ s.fin = flag
      <4>1. s = Queued(c, r)
        BY <1>1, <1>3, <2>7, <3>1, Zenon DEF DataStep
      <4>2. s = [c |-> x, fin |-> flag, out |-> TRUE]
        BY <4>1, <3>2, <3>3, <3>4, Zenon DEF Queued
      <4> QED BY <4>2
    <3>6. Filled(c.rq, t, u, flag, Top(d))
      BY <2>2, <2>3, <2>7, <3>1, <3>2, <3>3, ReassembledIs
    <3>7. ~FinSent(d) => Filled(c.rq, t, u, flag, Top(d) + 1)
      BY <2>2, <2>3, <2>4, <2>7, <3>1, <3>2, <3>3, ReassembledIs
    <3>8. u \in RQueues
      BY <3>6 DEF Filled, Waiting, Good, Queues, RQueues
    <3>9. x \in Agents /\ TakesIn(c, x) /\ x.rq = u
      BY <2>5, <3>4, <3>8 DEF Agents, TakesIn, Similar
    <3>10. Leads(c, d, x) /\ (flag => Due(x, d))
      BY <2>1, <2>2, <3>6, <3>7, <3>9, FilledLeads
    <3> QED BY <1>1, <3>5, <3>10
  <2> QED BY <2>6, <2>7
<1> QED BY <1>2, <1>3

LEMMA Step6Leads ==
  ASSUME NEW c, NEW d, Ready(c, d), Other(d), Tuned(c), NEW p, Payload(p, c, d), NEW needoutput
  PROVE  Leads(c, d, Step6(c, p, needoutput))
<1>1. PICK s : s = DataStep(c, p, needoutput)
  OBVIOUS
<1>2. Leads(c, d, s.c) /\ (s.fin => Due(s.c, d))
  BY <1>1, DataStepLeads
<1>3. PICK x : x = FinStep(s.c, s.fin)
  OBVIOUS
<1>4. Leads(s.c, d, x)
  BY <1>2, <1>3, FinStepLeads DEF Leads
<1>5. PICK y : y = Answer(x, s.out)
  OBVIOUS
<1>6. Leads(x, d, y)
  BY <1>4, <1>5, AnswerLeads DEF Leads
<1>7. Leads(y, d, CloseBehind(y))
  BY <1>6, CloseBehindLeads DEF Leads
<1>8. c \in Agents /\ s.c \in Agents /\ x \in Agents /\ y \in Agents
  BY <1>2, <1>4, <1>6, ReadyParts DEF Leads
<1>9. Leads(c, d, CloseBehind(y))
  BY <1>2, <1>4, <1>6, <1>7, <1>8, LeadsTransitive
<1>10. Step6(c, p, needoutput) = CloseBehind(y)
  BY <1>1, <1>3, <1>5, Zenon DEF Step6, AfterData
<1> QED BY <1>9, <1>10, Zenon

-----------------------------------------------------------------------------
(* Acknowledgements *)

\* The agent has just been opened by the acknowledgement of its SYN
JustOpen(c, d) ==
  /\ Well(c) /\ Pair(c, d) /\ c.state = "ESTABLISHED" /\ Calling(c, 1)

\* n, which d has received, acknowledges something new
Acks(c, d, n) ==
  /\ n \in Int /\ 1 <= n /\ c.highest_ack <= n /\ n <= c.maxseq
  /\ d.state # "CLOSED" => n <= rcv_nxt(d)
  /\ \/ Ready(c, d) /\ c.state \in DataFlows \cup FinGoes
     \/ JustOpen(c, d)

LEMMA AcksParts ==
  ASSUME NEW c, NEW d, NEW n, Acks(c, d, n)
  PROVE  /\ c \in Agents /\ Ints(c) /\ Well(c) /\ Fits(c) /\ OutFrom(c) /\ Pair(c, d) /\ Tight(c)
         /\ c.state \in DataFlows => Sending(c) \/ Calling(c, 1)
         /\ c.state \in FinGoes => Ending(c) /\ Winding(c)
         /\ c.state \in DataFlows \cup FinGoes
         /\ 1 <= c.maxseq /\ 1 <= rcv_nxt(c) /\ 0 <= c.curseq /\ c.maxseq <= c.curseq + 2
         /\ d.state = "LAST_ACK" => c.state # "ESTABLISHED"
<1>1. CASE Ready(c, d) /\ c.state \in DataFlows \cup FinGoes
  <2>1. d.state = "LAST_ACK" => c.state # "ESTABLISHED"
    <3>1. ASSUME d.state = "LAST_ACK", c.state = "ESTABLISHED" PROVE FALSE
      <4>1. FinSent(c)
        BY <1>1, <3>1, LastAckHeard, ReadyParts DEF FinCame
      <4>2. ~FinSent(c)
        BY <1>1, <3>1, ReadyLively
      <4> QED BY <4>1, <4>2
    <3> QED BY <3>1
  <2>2. Tight(c)
    BY <1>1 DEF Ready, Able
  <2> QED BY <1>1, <2>1, <2>2, ReadyParts
<1>2. CASE JustOpen(c, d)
  <2>1. c \in Agents /\ Ints(c) /\ Well(c) /\ Fits(c) /\ OutFrom(c) /\ Pair(c, d)
        /\ c.state = "ESTABLISHED" /\ Calling(c, 1)
    BY <1>2, AgentInts DEF JustOpen, Well
  <2>2. 1 <= c.maxseq /\ 1 <= rcv_nxt(c) /\ 0 <= c.curseq /\ c.maxseq <= c.curseq + 2
    BY <2>1 DEF Calling, rcv_nxt, EmptyQueue, Ints
  <2>3. d.state # "LAST_ACK"
    <3>1. ASSUME d.state = "LAST_ACK" PROVE FALSE
      <4>1. FinSent(c)
        BY <2>1, <2>2, <3>1, LastAckHeard DEF FinCame
      <4> QED BY <4>1, <2>1 DEF FinSent, Calling, Ints
    <3> QED BY <3>1
  <2> QED BY <2>1, <2>2, <2>3 DEF DataFlows, FinGoes, Tight
<1> QED BY <1>1, <1>2 DEF Acks

LEMMA NewackIs ==
  ASSUME NEW c \in Agents, NEW n \in Int, c.highest_ack <= n, NEW x, x = Newack(c, n)
  PROVE  /\ x \in Agents /\ x.state = c.state /\ x.passive = c.passive /\ x.maxseq = c.maxseq
         /\ x.curseq = c.curseq /\ x.rq = c.rq /\ x.last_ack_sent = c.last_ack_sent
         /\ x.out = c.out /\ x.recover = c.recover /\ x.cwnd = c.cwnd /\ x.dupacks = c.dupacks
         /\ x.highest_ack = n /\ x.t_seqno = MaxOf(c.t_seqno, n)
<1>1. PICK r : r = IF n = c.maxseq THEN FALSE ELSE c.rtx \/ n > c.highest_ack
  OBVIOUS
<1>2. AgentParts(c) /\ Ints(c)
  BY AgentFields, AgentInts
<1>3. r \in BOOLEAN
  BY <1>1, <1>2 DEF AgentParts
<1>4. MaxOf(c.highest_ack, n) = n
  BY <1>2 DEF Ints, MaxOf
<1>5. PICK t : t = MaxOf(c.t_seqno, n)
  OBVIOUS
<1>6. t \in Int
  BY <1>2, <1>5 DEF Ints, MaxOf
<1>7. x = [c EXCEPT !.rtx = r, !.highest_ack = n, !.t_seqno = t]
  BY <1>1, <1>4, <1>5 DEF Newack, Agents
<1> QED BY <1>3, <1>5, <1>6, <1>7, ZenonT(30) DEF Agents

LEMMA NewackLeads ==
  ASSUME NEW c, NEW d, NEW n, Acks(c, d, n), Other(d), Tuned(c), NEW x, x = Newack(c, n)
  PROVE  /\ x \in Agents /\ Turned(c, x) /\ Tuned(x) /\ x.highest_ack = n /\ x.state = c.state
         /\ x.maxseq = c.maxseq /\ x.out = c.out /\ x.rq = c.rq /\ x.recover = c.recover
         /\ c.state \in DataFlows \/ n < c.maxseq => Ready(x, d)
         /\ c.state \in FinGoes /\ n = c.maxseq =>
              Well(x) /\ Tight(x) /\ Pair(x, d) /\ Answered(x)
<1>1. /\ c \in Agents /\ Ints(c) /\ Well(c) /\ Fits(c) /\ OutFrom(c) /\ Pair(c, d) /\ Tight(c)
      /\ c.state \in DataFlows => Sending(c) \/ Calling(c, 1)
      /\ c.state \in FinGoes => Ending(c) /\ Winding(c)
      /\ c.state \in DataFlows \cup FinGoes
      /\ 1 <= c.maxseq /\ 1 <= rcv_nxt(c) /\ 0 <= c.curseq
  BY AcksParts
<1>2. d \in Agents /\ Phase(d)
  BY OtherParts
<1>3. n \in Int /\ 1 <= n /\ c.highest_ack <= n /\ n <= c.maxseq
      /\ (d.state # "CLOSED" => n <= rcv_nxt(d))
  BY DEF Acks
<1>4. /\ x \in Agents /\ x.state = c.state /\ x.passive = c.passive /\ x.maxseq = c.maxseq
      /\ x.curseq = c.curseq /\ x.rq = c.rq /\ x.last_ack_sent = c.last_ack_sent
      /\ x.out = c.out /\ x.recover = c.recover /\ x.cwnd = c.cwnd /\ x.dupacks = c.dupacks
      /\ x.highest_ack = n /\ x.t_seqno = MaxOf(c.t_seqno, n)
  BY <1>1, <1>3, NewackIs
<1>5. Ints(x) /\ rcv_nxt(x) = rcv_nxt(c) /\ Top(x) = Top(c) /\ (FinSent(x) <=> FinSent(c))
  BY <1>4, AgentInts DEF rcv_nxt, Top, FinSent
<1>6. Grown(c, x)
  BY <1>1, <1>4, <1>5 DEF Grown, Ints
<1>7. Turned(c, x)
  BY <1>1, <1>4, <1>6 DEF Turned
<1>8. Well(x)
  <2>1. OutFrom(x)
    BY <1>1, <1>4, <1>6, OutGrown
  <2>2. Fits(x)
    BY <1>1, <1>4, <1>5 DEF Fits
  <2> QED BY <2>1, <2>2, <1>4 DEF Well
<1>9. Pair(x, d)
  <2>1. Side(d, x)
    BY <1>1, <1>2, <1>4, <1>7, SideTurned DEF Pair
  <2>2. Side(x, d)
    BY <1>1, <1>3, <1>4, SideSame DEF Pair
  <2> QED BY <2>1, <2>2 DEF Pair
<1>10. Tight(x) /\ Tuned(x)
  BY <1>1, <1>4, <1>5 DEF Tight, OutAck, Tuned
<1>11. ASSUME c.state \in DataFlows PROVE Sending(x)
  <2>1. CASE Sending(c)
    <3>1. Talking(x)
      BY <2>1, <1>1, <1>3, <1>4, <1>5 DEF Sending, Talking, Ints, MaxOf
    <3> QED BY <2>1, <3>1, <1>1, <1>3, <1>4, <1>5 DEF Sending, Talking, Ints, MaxOf
  <2>2. CASE Calling(c, 1)
    <3>1. c.maxseq = 1 /\ c.t_seqno = 1 /\ n = 1
      BY <2>2, <1>3 DEF Calling
    <3>2. x.t_seqno = 1 /\ x.highest_ack = 1 /\ x.maxseq = 1
      BY <3>1, <1>4 DEF MaxOf
    <3> QED BY <3>2, <1>1, <1>4, <1>5 DEF Sending, Talking, Ints
  <2> QED BY <2>1, <2>2, <1>1, <1>11
<1>12. ASSUME c.state \in FinGoes, n < c.maxseq PROVE Ending(x)
  <2>1. Talking(x)
    BY <1>12, <1>1, <1>3, <1>4, <1>5 DEF Winding, Talking, Ints, MaxOf
  <2> QED BY <2>1, <1>12, <1>1, <1>4 DEF Ending, Winding
<1>13. ASSUME c.state \in FinGoes, n = c.maxseq PROVE Answered(x)
  <2>1. c.t_seqno <= c.maxseq
    BY <1>1, <1>13 DEF Winding, Talking, Ints
  <2>2. x.t_seqno = c.maxseq
    BY <2>1, <1>1, <1>4, <1>13 DEF Ints, MaxOf
  <2> QED BY <2>2, <1>1, <1>4, <1>5, <1>13 DEF Answered, Winding
<1>14. ASSUME c.state \in DataFlows \/ n < c.maxseq PROVE Ready(x, d)
  <2>1. Phase(x)
    BY <1>1, <1>4, <1>11, <1>12, <1>14 DEF Phase, DataFlows, FinGoes
  <2> QED BY <2>1, <1>3, <1>4, <1>8, <1>9, <1>10 DEF Ready, Able
<1> QED BY <1>4, <1>7, <1>8, <1>9, <1>10, <1>13, <1>14

\* What a handler leaves before the data step
Stays(c, x) ==
  /\ x.rq = c.rq /\ x.highest_ack = c.highest_ack
  /\ x.state = c.state \/ (c.state = "ESTABLISHED" /\ x.state = "FIN_WAIT_1")

LEMMA StaysTransitive ==
  ASSUME NEW c, NEW x, NEW y, Stays(c, x), Stays(x, y)
  PROVE  Stays(c, y)
  BY DEF Stays

LEMMA SetWindow ==
  ASSUME NEW c \in Agents, NEW x, x = [c EXCEPT !.cwnd = 2]
  PROVE  /\ x \in Agents /\ Alike(c, x) /\ x.t_seqno = c.t_seqno /\ x.recover = c.recover
         /\ x.cwnd = 2 /\ x.dupacks = c.dupacks
  BY DEF Agents, Alike

LEMMA FastLeads ==
  ASSUME NEW c, NEW d, Ready(c, d), Other(d), 0 <= c.dupacks, c.dupacks <= Thresh + 1,
         NEW x, x = [FastRetransmit(c) EXCEPT !.cwnd = 2]
  PROVE  Leads(c, d, x) /\ Stays(c, x)
<1>1. c \in Agents /\ Ints(c)
  BY ReadyParts
<1>2. PICK m \in Int : m = c.maxseq
  BY <1>1 DEF Ints
<1>3. PICK y : y = [c EXCEPT !.recover = m, !.lastdup = TRUE]
  OBVIOUS
<1>4. /\ y \in Agents /\ Alike(c, y) /\ y.t_seqno = c.t_seqno /\ y.recover = c.maxseq
      /\ y.dupacks = c.dupacks
  BY <1>1, <1>2, <1>3 DEF Agents, Alike
<1>5. Ready(y, d) /\ Turned(c, y)
  BY <1>4, LikeReady
<1>6. PICK z : z = foutput(y, y.highest_ack)
  OBVIOUS
<1>7. Ready(z, d) /\ Turned(y, z) /\ Keeps(y, z) /\ Forward(y, z)
  BY <1>5, <1>6, AgainLeads
<1>8. FastRetransmit(c) = z
  <2>1. y.highest_ack = c.highest_ack
    BY <1>4 DEF Alike
  <2> QED BY <2>1, <1>2, <1>3, <1>6 DEF FastRetransmit
<1>9. z \in Agents /\ x = [z EXCEPT !.cwnd = 2]
  BY <1>7, <1>8, ReadyParts
<1>10. x \in Agents /\ Alike(z, x) /\ x.t_seqno = z.t_seqno /\ x.recover = z.recover
       /\ x.cwnd = 2 /\ x.dupacks = z.dupacks
  BY <1>9, SetWindow
<1>11. Ready(x, d) /\ Turned(z, x)
  BY <1>7, <1>10, LikeReady
<1>12. Turned(c, x)
  BY <1>1, <1>4, <1>5, <1>7, <1>9, <1>10, <1>11, TurnedTransitive
<1>13. Tuned(x)
  BY <1>4, <1>7, <1>10 DEF Tuned, Keeps
<1>14. Stays(c, x)
  BY <1>4, <1>7, <1>10 DEF Stays, Alike, Keeps, Forward
<1> QED BY <1>11, <1>12, <1>13, <1>14 DEF Leads

\* Leaving recovery
CalmIs(c, x) ==
  /\ x \in Agents /\ Alike(c, x) /\ x.t_seqno = c.t_seqno /\ x.recover = c.recover
  /\ x.cwnd = c.cwnd /\ x.dupacks = 0

Calmed(c, b, n) == [c EXCEPT !.fastrecov = b, !.dupacks = n]

LEMMA CalmedIs ==
  ASSUME NEW c \in Agents, NEW b \in BOOLEAN, NEW n \in Int, n = 0
  PROVE  CalmIs(c, Calmed(c, b, n))
<1>1. PICK x : x = Calmed(c, b, n)
  OBVIOUS
<1>2. x \in Agents
  BY <1>1 DEF Agents, Calmed
<1>3. x.dupacks = n
  BY <1>1 DEF Agents, Calmed
<1>4. Alike(c, x) /\ x.t_seqno = c.t_seqno /\ x.recover = c.recover /\ x.cwnd = c.cwnd
  BY <1>1 DEF Agents, Alike, Calmed
<1> QED BY <1>1, <1>2, <1>3, <1>4, Zenon DEF CalmIs

LEMMA PackCalm ==
  ASSUME NEW c \in Agents, ~(c.fastrecov /\ c.highest_ack < c.recover)
  PROVE  CalmIs(c, PackAction(c))
<1>1. PICK b \in BOOLEAN : b = FALSE
  OBVIOUS
<1>2. PICK n \in Int : n = 0
  OBVIOUS
<1>3. PackAction(c) = Calmed(c, b, n)
  BY <1>1, <1>2, Zenon DEF PackAction, Calmed
<1>4. CalmIs(c, Calmed(c, b, n))
  BY <1>2, CalmedIs, Zenon
<1> QED BY <1>3, <1>4, Zenon

LEMMA PackLeads ==
  ASSUME NEW c, NEW d, Ready(c, d), Other(d), Tuned(c)
  PROVE  Leads(c, d, PackAction(c)) /\ Stays(c, PackAction(c))
<1>1. c \in Agents /\ Thresh \in Nat
  BY ReadyParts, Bounds
<1>2. CASE c.fastrecov /\ c.highest_ack < c.recover
  <2>1. PICK x : x = [FastRetransmit(c) EXCEPT !.cwnd = 2]
    OBVIOUS
  <2>2. Leads(c, d, x) /\ Stays(c, x)
    BY <2>1, FastLeads DEF Tuned
  <2>3. PackAction(c) = x
    BY <1>2, <2>1 DEF PackAction
  <2> QED BY <2>2, <2>3, Zenon
<1>3. CASE ~(c.fastrecov /\ c.highest_ack < c.recover)
  <2>1. PICK x : x = PackAction(c)
    OBVIOUS
  <2>2. CalmIs(c, x)
    BY <1>1, <1>3, <2>1, PackCalm
  <2>3. Leads(c, d, x)
    BY <2>2, <1>1, LikeLeads DEF CalmIs, Tuned
  <2>4. Stays(c, x)
    BY <2>2 DEF CalmIs, Alike, Stays
  <2> QED BY <2>1, <2>3, <2>4, Zenon
<1> QED BY <1>2, <1>3

\* The window after an acknowledgement
LEMMA WindowLeads ==
  ASSUME NEW c, NEW d, Ready(c, d), Other(d), Tuned(c), NEW x, x = [c EXCEPT !.cwnd = 2]
  PROVE  Leads(c, d, x) /\ Stays(c, x)
<1>1. c \in Agents
  BY ReadyParts
<1>2. x \in Agents /\ Alike(c, x) /\ x.t_seqno = c.t_seqno /\ x.recover = c.recover
      /\ x.cwnd = 2 /\ x.dupacks = c.dupacks
  BY <1>1, SetWindow
<1>3. Tuned(x)
  BY <1>2 DEF Tuned
<1>4. Leads(c, d, x)
  BY <1>2, <1>3, LikeLeads
<1> QED BY <1>2, <1>4 DEF Alike, Stays

\* process_ACK, while something is outstanding or more may follow
LEMMA ProcessAckLeads ==
  ASSUME NEW c, NEW d, NEW n, Acks(c, d, n), Other(d), Tuned(c), NEW laststate,
         c.state \in DataFlows \/ n < c.maxseq,
         NEW x, x = ProcessAck(c, n, laststate)
  PROVE  /\ Leads(c, d, x) /\ x.rq = c.rq /\ x.highest_ack = n
         /\ x.state = c.state \/ (c.state = "ESTABLISHED" /\ x.state = "FIN_WAIT_1")
<1>1. PICK e : e = Newack(c, n)
  OBVIOUS
<1>2. /\ e \in Agents /\ Turned(c, e) /\ Tuned(e) /\ e.highest_ack = n /\ e.state = c.state
      /\ e.rq = c.rq /\ Ready(e, d) /\ c \in Agents
  BY <1>1, NewackLeads, AcksParts
<1>3. PICK y : y = PackAction(e)
  OBVIOUS
<1>4. Leads(e, d, y) /\ Stays(e, y)
  BY <1>2, <1>3, PackLeads
<1>5. PICK z : z = [y EXCEPT !.cwnd = 2]
  OBVIOUS
<1>6. Leads(y, d, z) /\ Stays(y, z)
  BY <1>4, <1>5, WindowLeads DEF Leads
<1>7. y \in Agents /\ z \in Agents
  BY <1>4, <1>6, ReadyParts DEF Leads
<1>8. Leads(e, d, z) /\ Stays(e, z)
  BY <1>2, <1>4, <1>6, LeadsTransitive, StaysTransitive
<1>9. x = z \/ x = y
  <2>1. ProcessAck(c, n, laststate) = IF laststate = "ESTABLISHED" THEN z ELSE y
    BY <1>1, <1>3, <1>5, Zenon DEF ProcessAck
  <2> QED BY <2>1
<1>10. Leads(e, d, x) /\ Stays(e, x) /\ x \in Agents
  BY <1>4, <1>7, <1>8, <1>9
<1>11. Turned(c, x)
  BY <1>2, <1>10, TurnedTransitive DEF Leads
<1>12. Leads(c, d, x)
  BY <1>10, <1>11 DEF Leads
<1> QED BY <1>2, <1>10, <1>12 DEF Stays

\* process_ACK of everything, the FIN included
LEMMA ProcessAllIs ==
  ASSUME NEW c, NEW d, NEW n, Acks(c, d, n), Other(d), Tuned(c), NEW laststate,
         c.state \in FinGoes, n = c.maxseq, laststate # "ESTABLISHED",
         NEW x, x = ProcessAck(c, n, laststate)
  PROVE  /\ Well(x) /\ Tight(x) /\ Pair(x, d) /\ Answered(x) /\ Turned(c, x) /\ Tuned(x)
         /\ x.rq = c.rq /\ x.highest_ack = n /\ x.state = c.state /\ x.maxseq = c.maxseq
         /\ x.out = c.out
<1>1. PICK e : e = Newack(c, n)
  OBVIOUS
<1>2. /\ e \in Agents /\ Turned(c, e) /\ Tuned(e) /\ e.highest_ack = n /\ e.state = c.state
      /\ e.rq = c.rq /\ e.maxseq = c.maxseq /\ e.out = c.out /\ e.recover = c.recover
      /\ Well(e) /\ Tight(e) /\ Pair(e, d) /\ Answered(e)
  BY <1>1, NewackLeads
<1>3. c \in Agents /\ d \in Agents /\ Phase(d) /\ Ints(e)
  BY <1>2, AcksParts, OtherParts, AgentInts
<1>4. x = PackAction(e)
  BY <1>1 DEF ProcessAck
<1>5. ~(e.highest_ack < e.recover)
  <2>1. e.recover <= MaxOf(e.maxseq, 0) /\ e.highest_ack = e.maxseq /\ 1 <= e.maxseq
    BY <1>2 DEF Well, Fits, Answered
  <2> QED BY <2>1, <1>3 DEF MaxOf, Ints
<1>6. CalmIs(e, x)
  BY <1>2, <1>4, <1>5, PackCalm
<1>7. /\ x \in Agents /\ Alike(e, x) /\ x.t_seqno = e.t_seqno /\ x.recover = e.recover
      /\ x.cwnd = e.cwnd /\ x.dupacks = 0 /\ Thresh \in Nat
  BY <1>6, Bounds DEF CalmIs
<1>8. 1 <= e.maxseq /\ 0 <= e.curseq
  BY <1>2 DEF Answered
<1>9. Well(x) /\ Grown(e, x) /\ rcv_nxt(x) = rcv_nxt(e)
  BY <1>2, <1>7, <1>8, AlikeWell
<1>10. /\ x.rq = e.rq /\ x.highest_ack = e.highest_ack /\ x.state = e.state
       /\ x.maxseq = e.maxseq /\ x.out = e.out /\ x.curseq = e.curseq /\ x.passive = e.passive
  BY <1>7 DEF Alike
<1>11. Turned(e, x)
  BY <1>8, <1>9, <1>10 DEF Turned
<1>12. Pair(x, d)
  <2>1. Side(d, x)
    BY <1>2, <1>3, <1>7, <1>8, <1>11, SideTurned DEF Pair
  <2>2. Side(x, d)
    BY <1>2, <1>10, SideSame DEF Pair
  <2> QED BY <2>1, <2>2 DEF Pair
<1>13. Answered(x) /\ Tight(x) /\ Tuned(x)
  BY <1>2, <1>7, <1>9, <1>10 DEF Answered, Tight, OutAck, Tuned
<1>14. Turned(c, x)
  BY <1>2, <1>3, <1>7, <1>11, TurnedTransitive
<1> QED BY <1>2, <1>9, <1>10, <1>12, <1>13, <1>14

\* The payload of a segment after the acknowledgement in it
LEMMA PayloadKept ==
  ASSUME NEW c, NEW d, NEW x, NEW p, Payload(p, c, d), x.rq = c.rq,
         \/ x.state = c.state
         \/ c.state = "ESTABLISHED" /\ x.state = "FIN_WAIT_1" /\ d.state # "LAST_ACK"
         \/ c.state = "FIN_WAIT_1" /\ x.state = "FIN_WAIT_2"
         \/ c.state = "CLOSING" /\ x.state = "CLOSED"
  PROVE  Payload(p, x, d)
<1>1. rcv_nxt(x) = rcv_nxt(c)
  BY DEF rcv_nxt
<1>2. HaveRcvdFin(c.state) => HaveRcvdFin(x.state)
  BY DEF HaveRcvdFin
<1>3. Wanted(p, c, d) => Wanted(p, x, d)
  BY <1>1 DEF Wanted, Receiving
<1> QED BY <1>2, <1>3 DEF Payload

\* The state in which the acknowledgement of the FIN leaves an agent
LEMMA StateLeads ==
  ASSUME NEW c, NEW d, Well(c), Tight(c), Pair(c, d), Answered(c), Tuned(c), Other(d),
         NEW x, NEW st \in States, x = [c EXCEPT !.state = st],
         \/ c.state = "FIN_WAIT_1" /\ st = "FIN_WAIT_2"
         \/ c.state = "CLOSING" /\ st = "CLOSED"
  PROVE  Leads(c, d, x) /\ x.state = st /\ x.rq = c.rq /\ x.highest_ack = c.highest_ack
<1>1. c \in Agents /\ Ints(c) /\ Fits(c) /\ OutFrom(c) /\ d \in Agents /\ Phase(d)
  BY AgentInts, OtherParts DEF Well
<1>2. /\ x \in Agents /\ x.state = st /\ x.passive = c.passive /\ x.t_seqno = c.t_seqno
      /\ x.maxseq = c.maxseq /\ x.highest_ack = c.highest_ack /\ x.curseq = c.curseq
      /\ x.rq = c.rq /\ x.last_ack_sent = c.last_ack_sent /\ x.recover = c.recover
      /\ x.cwnd = c.cwnd /\ x.dupacks = c.dupacks /\ x.out = c.out
  BY <1>1 DEF Agents
<1>3. rcv_nxt(x) = rcv_nxt(c) /\ Top(x) = Top(c) /\ (FinSent(x) <=> FinSent(c))
  BY <1>2 DEF rcv_nxt, Top, FinSent
<1>4. 1 <= c.maxseq /\ 0 <= c.curseq /\ 1 <= c.highest_ack
  BY DEF Answered
<1>5. Answered(x)
  BY <1>2, <1>3 DEF Answered
<1>6. Grown(c, x)
  BY <1>1, <1>2, <1>3, <1>4 DEF Grown, Ints
<1>7. Turned(c, x)
  BY <1>2, <1>4, <1>6 DEF Turned
<1>8. Well(x)
  <2>1. OutFrom(x)
    BY <1>1, <1>2, <1>6, OutGrown
  <2> QED BY <2>1, <1>1, <1>2, <1>3 DEF Well, Fits
<1>9. Side(d, x)
  BY <1>1, <1>2, <1>4, <1>7, SideTurned DEF Pair
<1>10. Side(x, d)
  <2>1. Side(c, d)
    BY DEF Pair
  <2>2. Hears(x, d)
    BY <2>1, <1>2, <1>3 DEF Side, Hears, FinCame
  <2> QED BY <2>1, <2>2, <1>2 DEF Side, FinCame
<1>11. Phase(x) /\ Tight(x) /\ Tuned(x)
  BY <1>2, <1>5 DEF Phase, Tight, Tuned, DataFlows, FinGoes
<1> QED BY <1>2, <1>4, <1>7, <1>8, <1>9, <1>10, <1>11 DEF Leads, Ready, Able, Pair

LEMMA ClosingStepLeads ==
  ASSUME NEW c, NEW d, Well(c), Tight(c), Pair(c, d), Answered(c), Tuned(c), Other(d),
         c.state \in {"FIN_WAIT_1", "CLOSING"}
  PROVE  /\ Leads(c, d, ClosingStep(c)) /\ ClosingStep(c).rq = c.rq
         /\ c.state = "FIN_WAIT_1" => ClosingStep(c).state = "FIN_WAIT_2"
         /\ c.state = "CLOSING" => ClosingStep(c).state = "CLOSED"
<1>1. PICK st : st = IF c.state = "FIN_WAIT_1" THEN "FIN_WAIT_2" ELSE "CLOSED"
  OBVIOUS
<1>2. st \in States
  BY <1>1 DEF States
<1>3. PICK x : x = [c EXCEPT !.state = st]
  OBVIOUS
<1>4. Leads(c, d, x) /\ x.state = st /\ x.rq = c.rq
  BY <1>1, <1>2, <1>3, StateLeads
<1>5. PICK y : y = CancelTimers(x)
  OBVIOUS
<1>6. Leads(x, d, y)
  BY <1>4, <1>5, CancelLeads DEF Leads
<1>7. x \in Agents /\ y.state = x.state /\ y.rq = x.rq
  <2>1. x \in Agents
    BY <1>4, ReadyParts DEF Leads
  <2> QED BY <2>1, <1>5 DEF CancelTimers, Agents
<1>8. c \in Agents
  BY DEF Well
<1>9. Leads(c, d, y)
  BY <1>4, <1>6, <1>8, LeadsTransitive
<1>10. ClosingStep(c) = y
  <2>1. CASE c.state = "FIN_WAIT_1"
    BY <2>1, <1>1, <1>3, <1>5 DEF ClosingStep
  <2>2. CASE c.state = "CLOSING"
    BY <2>2, <1>1, <1>3, <1>5 DEF ClosingStep
  <2> QED BY <2>1, <2>2
<1>11. (c.state = "FIN_WAIT_1" => y.state = "FIN_WAIT_2") /\ (c.state = "CLOSING" => y.state = "CLOSED")
  BY <1>1, <1>4, <1>7
<1> QED BY <1>4, <1>7, <1>9, <1>10, <1>11, Zenon

\* An agent that closed last is reset
Wiped(c, x) ==
  /\ Well(x) /\ Blank(x) /\ Tuned(x) /\ x.state = "CLOSED" /\ x.passive = c.passive
  /\ x.out = c.out

Renewed(st, b, out) == [Fresh(st, b) EXCEPT !.out = out]

Off(x) ==
  /\ x.rtx = FALSE /\ x.dtimer = FALSE /\ x.acknow = FALSE /\ x.delack = FALSE
  /\ x.close_on_empty = FALSE /\ x.fastrecov = FALSE /\ x.lastdup = FALSE

LEMMA EmptyIs ==
  ASSUME NEW n \in Int
  PROVE  EmptyQueue(n) \in RQueues /\ EmptyQueue(n).nxt = n /\ EmptyQueue(n).fifo = <<>>
         /\ EmptyQueue(n).lifo = <<>>
  BY DEF EmptyQueue, RQueues

LEMMA OffParts ==
  ASSUME NEW x, Off(x), x.state \in States, x.passive \in BOOLEAN, x.out \in Seq(Segments),
         x.t_seqno = 0, x.maxseq = -1, x.highest_ack = -1, x.curseq = 0,
         x.rq = EmptyQueue(-1), x.last_ack_sent = -1, x.dupacks = 0, x.recover = 0, x.cwnd = 2
  PROVE  AgentParts(x) /\ Blank(x) /\ Tuned(x) /\ Fits(x)
<1>1. /\ x.rtx \in BOOLEAN /\ x.dtimer \in BOOLEAN /\ x.acknow \in BOOLEAN
      /\ x.delack \in BOOLEAN /\ x.close_on_empty \in BOOLEAN /\ x.fastrecov \in BOOLEAN
      /\ x.lastdup \in BOOLEAN /\ ~x.rtx /\ ~x.delack
  BY DEF Off
<1>2. -1 \in Int /\ Most \in Nat /\ Thresh \in Nat
  BY Bounds
<1>3. x.rq \in RQueues /\ rcv_nxt(x) = -1
  BY <1>2, EmptyIs DEF rcv_nxt
<1>4. /\ x.t_seqno \in Int /\ x.maxseq \in Int /\ x.highest_ack \in Int /\ x.curseq \in Int
      /\ x.last_ack_sent \in Int /\ x.dupacks \in Int /\ x.recover \in Int /\ x.cwnd \in Int
      /\ rcv_nxt(x) \in Int
  BY <1>3
<1>5. AgentParts(x)
  BY <1>1, <1>3, <1>4, Zenon DEF AgentParts
<1>6. Blank(x)
  BY <1>1 DEF Blank
<1>7. Tuned(x)
  BY <1>2 DEF Tuned
<1>8. Fits(x)
  BY <1>2, <1>3 DEF Fits, MaxOf
<1> QED BY <1>5, <1>6, <1>7, <1>8

LEMMA FreshIs ==
  ASSUME NEW st \in States, NEW b \in BOOLEAN, NEW out \in Seq(Segments),
         NEW x, x = Renewed(st, b, out)
  PROVE  /\ x \in Agents /\ Blank(x) /\ Tuned(x) /\ Fits(x) /\ x.state = st /\ x.passive = b
         /\ x.out = out
<1>1. x.out = out
  BY DEF Fresh, Renewed
<1>2. /\ x.state = st /\ x.t_seqno = 0 /\ x.maxseq = -1 /\ x.highest_ack = -1
      /\ x.curseq = 0 /\ x.rq = EmptyQueue(-1) /\ x.last_ack_sent = -1
      /\ x.dupacks = 0 /\ x.recover = 0 /\ x.cwnd = 2
  BY DEF Fresh, ISS, Renewed
<1>3. x.passive = b
  BY DEF Fresh, Renewed
<1>4. Off(x)
  BY DEF Fresh, Renewed, Off
<1>5. AgentShape(x)
  BY DEF AgentShape, Fresh, Renewed
<1>6. x.state \in States /\ x.passive \in BOOLEAN /\ x.out \in Seq(Segments)
  BY <1>1, <1>2, <1>3, Zenon
<1>7. AgentParts(x) /\ Blank(x) /\ Tuned(x) /\ Fits(x)
  BY <1>2, <1>4, <1>6, OffParts, Zenon
<1>8. x \in Agents
  BY <1>5, <1>7, AgentMade, Zenon
<1> QED BY <1>1, <1>2, <1>3, <1>7, <1>8, Zenon

LEMMA ResetWipes ==
  ASSUME NEW c, Well(c)
  PROVE  Wiped(c, Reset([c EXCEPT !.state = "CLOSED"]))
<1>1. c \in Agents /\ AgentParts(c) /\ OutFrom(c)
  BY AgentFields DEF Well
<1>2. PICK y : y = [c EXCEPT !.state = "CLOSED"]
  OBVIOUS
<1>3. y.state = "CLOSED" /\ y.passive = c.passive /\ y.out = c.out
  BY <1>1, <1>2 DEF Agents
<1>4. PICK x : x = Reset(y)
  OBVIOUS
<1>5. x = Renewed(y.state, y.passive, y.out)
  BY <1>4, Zenon DEF Reset, Renewed
<1>6. y.state \in States /\ y.passive \in BOOLEAN /\ y.out \in Seq(Segments)
  BY <1>1, <1>3 DEF States, AgentParts
<1>7. /\ x \in Agents /\ Blank(x) /\ Tuned(x) /\ Fits(x) /\ x.state = y.state
      /\ x.passive = y.passive /\ x.out = y.out
  BY <1>5, <1>6, FreshIs
<1>8. Grown(c, x) /\ x.out = c.out /\ x.state = "CLOSED" /\ x.passive = c.passive
  BY <1>7, <1>3, Zenon DEF Grown
<1>9. OutFrom(x)
  BY <1>1, <1>7, <1>8, OutGrown
<1>10. Wiped(c, x)
  BY <1>7, <1>8, <1>9, Zenon DEF Wiped, Well
<1> QED BY <1>2, <1>4, <1>10, Zenon

\* What an acknowledged segment brings; the FIN with which the other side closes
\* last acknowledges that of this side
Brings(p, c, d) ==
  \/ Payload(p, c, d)
  \/ /\ c.state = "FIN_WAIT_1" /\ p.ackno = c.maxseq
     /\ \A x \in Agents : x.rq = c.rq /\ x.state = "FIN_WAIT_2" => Payload(p, x, d)

\* The result of a new acknowledgement: the agent goes on, or is reset
Settles(c, d, n, x) ==
  \/ Leads(c, d, x)
  \/ c.state = "LAST_ACK" /\ n = c.maxseq /\ Wiped(c, x)

LEMMA AfterAckGoesOn ==
  ASSUME NEW c, NEW d, Ready(c, d), Other(d), Tuned(c), NEW p, Payload(p, c, d),
         c.state \in DataFlows \cup FinGoes, p.ackno = c.highest_ack
  PROVE  Leads(c, d, AfterAck(c, p))
<1>1. Ints(c) /\ (c.state \in FinGoes => Ending(c))
  BY ReadyParts
<1>2. PICK fin : fin = (p.ackno = c.maxseq /\ c.state \in {"FIN_WAIT_1", "CLOSING", "LAST_ACK", "FIN_WAIT_2"})
  OBVIOUS
<1>3. ~fin
  <2>1. c.state # "FIN_WAIT_2"
    BY DEF DataFlows, FinGoes
  <2>2. c.state \in FinGoes => p.ackno # c.maxseq
    BY <1>1 DEF Ending, Ints
  <2> QED BY <1>2, <2>1, <2>2 DEF FinGoes
<1>4. PICK need : need = (p.ackno = c.maxseq /\ ~(fin /\ c.state = "FIN_WAIT_1"))
  OBVIOUS
<1>5. AfterAck(c, p) = Step6(c, p, need)
  <2>1. AfterAck(c, p) = IF fin /\ c.state = "LAST_ACK" THEN Reset([c EXCEPT !.state = "CLOSED"])
                         ELSE Step6(IF fin THEN ClosingStep(c) ELSE c, p, need)
    BY <1>2, <1>4, Zenon DEF AfterAck
  <2> QED BY <1>3, <2>1, Zenon
<1>6. Leads(c, d, Step6(c, p, need))
  BY Step6Leads
<1> QED BY <1>5, <1>6, Zenon

LEMMA AfterAckCloses ==
  ASSUME NEW c, NEW d, Well(c), Tight(c), Pair(c, d), Answered(c), Tuned(c), Other(d),
         c.state \in {"FIN_WAIT_1", "CLOSING"}, NEW p, p.ackno = c.maxseq, Brings(p, c, d)
  PROVE  Leads(c, d, AfterAck(c, p))
<1>1. PICK y : y = ClosingStep(c)
  OBVIOUS
<1>2. /\ Leads(c, d, y) /\ y.rq = c.rq
      /\ c.state = "FIN_WAIT_1" => y.state = "FIN_WAIT_2"
      /\ c.state = "CLOSING" => y.state = "CLOSED"
  BY <1>1, ClosingStepLeads
<1>3. c \in Agents /\ y \in Agents /\ Ready(y, d) /\ Tuned(y)
  BY <1>2, ReadyParts DEF Well, Leads
<1>4. Payload(p, y, d)
  BY <1>2, <1>3, PayloadKept DEF Brings
<1>5. PICK fin : fin = (p.ackno = c.maxseq /\ c.state \in {"FIN_WAIT_1", "CLOSING", "LAST_ACK", "FIN_WAIT_2"})
  OBVIOUS
<1>6. PICK need : need = (p.ackno = c.maxseq /\ ~(fin /\ c.state = "FIN_WAIT_1"))
  OBVIOUS
<1>7. Leads(y, d, Step6(y, p, need))
  BY <1>3, <1>4, Step6Leads
<1>8. AfterAck(c, p) = Step6(y, p, need)
  <2>1. AfterAck(c, p) = IF fin /\ c.state = "LAST_ACK" THEN Reset([c EXCEPT !.state = "CLOSED"])
                         ELSE Step6(IF fin THEN ClosingStep(c) ELSE c, p, need)
    BY <1>5, <1>6, Zenon DEF AfterAck
  <2>2. fin /\ c.state # "LAST_ACK"
    BY <1>5
  <2> QED BY <1>1, <2>1, <2>2, Zenon
<1>9. Leads(c, d, Step6(y, p, need))
  BY <1>2, <1>3, <1>7, LeadsTransitive
<1> QED BY <1>8, <1>9, Zenon

LEMMA AfterAckResets ==
  ASSUME NEW c, Well(c), c.state = "LAST_ACK", NEW p, p.ackno = c.maxseq
  PROVE  Wiped(c, AfterAck(c, p))
<1>1. PICK y : y = Reset([c EXCEPT !.state = "CLOSED"])
  OBVIOUS
<1>2. AfterAck(c, p) = y
  BY <1>1 DEF AfterAck
<1>3. Wiped(c, y)
  BY <1>1, ResetWipes
<1> QED BY <1>2, <1>3, Zenon

LEMMA NewAckLeads ==
  ASSUME NEW c, NEW d, NEW p, Acks(c, d, p.ackno), Other(d), Tuned(c), Brings(p, c, d),
         NEW laststate, c.state \in FinGoes => laststate # "ESTABLISHED"
  PROVE  Settles(c, d, p.ackno, NewAck(c, p, laststate))
<1>1. PICK x : x = ProcessAck(c, p.ackno, laststate)
  OBVIOUS
<1>2. NewAck(c, p, laststate) = AfterAck(x, p)
  BY <1>1, Zenon DEF NewAck
<1>3. /\ c \in Agents /\ Ints(c) /\ c.state \in DataFlows \cup FinGoes
      /\ p.ackno \in Int /\ p.ackno <= c.maxseq
      /\ d.state = "LAST_ACK" => c.state # "ESTABLISHED"
  BY AcksParts DEF Acks
<1>4. CASE c.state \in DataFlows \/ p.ackno < c.maxseq
  <2>1. /\ Leads(c, d, x) /\ x.rq = c.rq /\ x.highest_ack = p.ackno
        /\ x.state = c.state \/ (c.state = "ESTABLISHED" /\ x.state = "FIN_WAIT_1")
    BY <1>1, <1>4, ProcessAckLeads
  <2>2. Payload(p, c, d)
    BY <1>3, <1>4 DEF Brings, DataFlows, Ints
  <2>3. Payload(p, x, d)
    BY <1>3, <2>1, <2>2, PayloadKept
  <2>4. x.state \in DataFlows \cup FinGoes
    BY <1>3, <2>1 DEF DataFlows, FinGoes
  <2>5. Leads(x, d, AfterAck(x, p))
    BY <2>1, <2>3, <2>4, AfterAckGoesOn DEF Leads
  <2>6. Leads(c, d, AfterAck(x, p))
    BY <1>3, <2>1, <2>5, LeadsTransitive
  <2> QED BY <1>2, <2>6, Zenon DEF Settles
<1>5. CASE c.state \in FinGoes /\ p.ackno = c.maxseq
  <2>1. /\ Well(x) /\ Tight(x) /\ Pair(x, d) /\ Answered(x) /\ Turned(c, x) /\ Tuned(x)
        /\ x.rq = c.rq /\ x.highest_ack = p.ackno /\ x.state = c.state /\ x.maxseq = c.maxseq
        /\ x.out = c.out
    BY <1>1, <1>5, ProcessAllIs
  <2>2. x \in Agents /\ x.passive = c.passive
    BY <2>1 DEF Well, Turned
  <2>3. CASE c.state = "LAST_ACK"
    <3>1. Wiped(x, AfterAck(x, p))
      BY <1>5, <2>1, <2>3, AfterAckResets
    <3>2. Wiped(c, AfterAck(x, p))
      BY <3>1, <2>1, <2>2 DEF Wiped
    <3> QED BY <1>2, <1>5, <2>3, <3>2, Zenon DEF Settles
  <2>4. CASE c.state \in {"FIN_WAIT_1", "CLOSING"}
    <3>1. Brings(p, x, d)
      <4>1. CASE Payload(p, c, d)
        BY <4>1, <2>1, PayloadKept DEF Brings
      <4>2. CASE ~Payload(p, c, d)
        BY <4>2, <2>1 DEF Brings
      <4> QED BY <4>1, <4>2
    <3>2. Leads(x, d, AfterAck(x, p))
      BY <1>5, <2>1, <2>4, <3>1, AfterAckCloses
    <3>3. AfterAck(x, p) \in Agents
      BY <3>2, ReadyParts DEF Leads
    <3>4. Turned(c, AfterAck(x, p))
      BY <1>3, <2>1, <2>2, <3>2, <3>3, TurnedTransitive DEF Leads
    <3>5. Leads(c, d, AfterAck(x, p))
      BY <3>2, <3>4 DEF Leads
    <3> QED BY <1>2, <3>5, Zenon DEF Settles
  <2> QED BY <1>5, <2>3, <2>4 DEF FinGoes
<1> QED BY <1>3, <1>4, <1>5 DEF Ints

\* dupack_action
Struck(c, b, f, m, k) ==
  [c EXCEPT !.dupacks = m, !.fastrecov = b, !.cwnd = k, !.rtx = f]

LEMMA StruckIs ==
  ASSUME NEW c \in Agents, NEW b \in BOOLEAN, NEW f \in BOOLEAN, NEW m \in Int, NEW k \in Int,
         NEW x, x = Struck(c, b, f, m, k)
  PROVE  /\ x \in Agents /\ Alike(c, x) /\ x.t_seqno = c.t_seqno /\ x.recover = c.recover
         /\ x.dupacks = m /\ x.cwnd = k
<1>1. x \in Agents
  BY DEF Agents, Struck
<1>2. Alike(c, x) /\ x.t_seqno = c.t_seqno /\ x.recover = c.recover
  BY DEF Agents, Struck, Alike
<1>3. x.dupacks = m /\ x.cwnd = k
  BY DEF Agents, Struck
<1> QED BY <1>1, <1>2, <1>3, Zenon

LEMMA DupActionLeads ==
  ASSUME NEW c, NEW d, Ready(c, d), Other(d), Tuned(c)
  PROVE  Leads(c, d, DupAction(c))
<1>1. c \in Agents /\ Ints(c) /\ AgentParts(c)
  BY ReadyParts, AgentFields
<1>2. Thresh \in Int /\ 0 <= Thresh /\ Thresh <= Thresh + 1
  BY Bounds
<1>3. PICK b \in BOOLEAN : b = TRUE
  OBVIOUS
<1>4. PICK f \in BOOLEAN : f = FALSE
  OBVIOUS
<1>5. PICK k \in Int : k = c.cwnd \div 2
  BY <1>1 DEF Ints
<1>6. PICK r \in BOOLEAN : r = c.rtx
  BY <1>1 DEF AgentParts
<1>7. PICK w \in Int : w = c.cwnd
  BY <1>1 DEF Ints
<1>8. PICK y : y = Struck(c, b, f, Thresh, k)
  OBVIOUS
<1>9. PICK z : z = Struck(c, b, r, Thresh, w)
  OBVIOUS
<1>10. /\ y \in Agents /\ Alike(c, y) /\ y.t_seqno = c.t_seqno /\ y.recover = c.recover
       /\ y.dupacks = Thresh /\ y.cwnd = k
  BY <1>1, <1>2, <1>8, StruckIs
<1>11. /\ z \in Agents /\ Alike(c, z) /\ z.t_seqno = c.t_seqno /\ z.recover = c.recover
       /\ z.dupacks = Thresh /\ z.cwnd = w
  BY <1>1, <1>2, <1>9, StruckIs
<1>12. Ready(y, d) /\ Turned(c, y)
  BY <1>10, LikeReady
<1>13. PICK x : x = [FastRetransmit(y) EXCEPT !.cwnd = 2]
  OBVIOUS
<1>14. Leads(y, d, x)
  BY <1>2, <1>10, <1>12, <1>13, FastLeads
<1>15. x \in Agents
  BY <1>14, ReadyParts DEF Leads
<1>16. Leads(c, d, x)
  BY <1>1, <1>10, <1>12, <1>14, <1>15, TurnedTransitive DEF Leads
<1>17. Leads(c, d, z)
  BY <1>2, <1>7, <1>11, LikeLeads DEF Tuned
<1>18. DupAction(c) = x \/ DupAction(c) = z
  <2>1. PICK a : a = [c EXCEPT !.dupacks = Thresh, !.fastrecov = TRUE]
    OBVIOUS
  <2>2. [a EXCEPT !.cwnd = c.cwnd \div 2, !.rtx = FALSE] = y
    BY <2>1, <1>3, <1>4, <1>5, <1>8, Zenon DEF Struck
  <2>3. a = z
    BY <2>1, <1>1, <1>3, <1>6, <1>7, <1>9 DEF Struck, Agents
  <2> QED BY <2>1, <2>2, <2>3, <1>13, Zenon DEF DupAction
<1> QED BY <1>16, <1>17, <1>18, Zenon

\* The count of duplicates and the window
Counted(c, m, k) == [c EXCEPT !.dupacks = m, !.cwnd = k]

LEMMA CountedLeads ==
  ASSUME NEW c, NEW d, Ready(c, d), Other(d), NEW m \in Int, NEW k \in Int,
         0 <= m, m <= Thresh + 1, 1 <= k, k <= 2, NEW x, x = Counted(c, m, k)
  PROVE  Leads(c, d, x) /\ x.rq = c.rq /\ x.state = c.state
<1>1. c \in Agents
  BY ReadyParts
<1>2. x \in Agents /\ Alike(c, x) /\ x.t_seqno = c.t_seqno /\ x.recover = c.recover
      /\ x.dupacks = m /\ x.cwnd = k
  BY <1>1 DEF Agents, Counted, Alike
<1>3. Tuned(x)
  BY <1>2 DEF Tuned
<1>4. Leads(c, d, x)
  BY <1>2, <1>3, LikeLeads
<1> QED BY <1>2, <1>4 DEF Alike

LEMMA OldAckLeads ==
  ASSUME NEW c, NEW d, Ready(c, d), Other(d), Tuned(c), NEW p, Payload(p, c, d), NEW dupseg
  PROVE  Leads(c, d, OldAck(c, p, dupseg))
<1>1. c \in Agents /\ Ints(c) /\ Thresh \in Int /\ 1 <= Thresh
  BY ReadyParts, Bounds
<1>2. PICK m : m = c.dupacks
  OBVIOUS
<1>3. PICK k : k = c.cwnd
  OBVIOUS
<1>4. m \in Int /\ 0 <= m /\ m <= Thresh + 1 /\ k \in Int /\ 1 <= k /\ k <= 2
  BY <1>1, <1>2, <1>3 DEF Ints, Tuned
<1>5. CASE Duplicate(c, p, dupseg) /\ c.dupacks + 1 = Thresh
  <2>1. OldAck(c, p, dupseg) = DupAction(c)
    BY <1>5, Zenon DEF OldAck
  <2> QED BY <2>1, DupActionLeads
<1>6. CASE ~(Duplicate(c, p, dupseg) /\ c.dupacks + 1 = Thresh)
           /\ Duplicate(c, p, dupseg) /\ c.dupacks >= Thresh
  <2>1. PICK x : x = Counted(c, Thresh + 1, 2)
    OBVIOUS
  <2>2. Thresh + 1 \in Int /\ 2 \in Int /\ 0 <= Thresh + 1 /\ Thresh + 1 <= Thresh + 1
    BY <1>1
  <2>3. Leads(c, d, x)
    BY <2>1, <2>2, CountedLeads
  <2>4. Leads(x, d, SendMuch(x, FALSE))
    BY <2>3, SendMay DEF Leads
  <2>5. OldAck(c, p, dupseg) = SendMuch(x, FALSE)
    BY <1>6, <2>1, Zenon DEF OldAck, Counted
  <2>6. Leads(c, d, SendMuch(x, FALSE))
    BY <1>1, <2>3, <2>4, LeadsTransitive
  <2> QED BY <2>5, <2>6, Zenon
<1>7. CASE ~(Duplicate(c, p, dupseg) /\ c.dupacks + 1 = Thresh)
           /\ ~(Duplicate(c, p, dupseg) /\ c.dupacks >= Thresh)
  <2>1. PICK j : j = IF Duplicate(c, p, dupseg) THEN c.dupacks + 1
                     ELSE IF Pure(p, dupseg) THEN 0 ELSE c.dupacks
    OBVIOUS
  <2>2. j \in Int /\ 0 <= j /\ j <= Thresh + 1
    BY <1>1, <1>2, <1>4, <1>7, <2>1
  <2>3. PICK x : x = Counted(c, j, k)
    OBVIOUS
  <2>4. Leads(c, d, x) /\ x.rq = c.rq /\ x.state = c.state
    BY <1>4, <2>2, <2>3, CountedLeads
  <2>5. Payload(p, x, d)
    BY <2>4, PayloadKept
  <2>6. PICK b : b = FALSE
    OBVIOUS
  <2>7. Leads(x, d, Step6(x, p, b))
    BY <2>4, <2>5, Step6Leads DEF Leads
  <2>8. x = [c EXCEPT !.dupacks = j]
    BY <1>1, <1>3, <2>3 DEF Counted, Agents
  <2>9. OldAck(c, p, dupseg) = Step6(x, p, b)
    BY <1>7, <2>1, <2>6, <2>8, Zenon DEF OldAck
  <2>10. Leads(c, d, Step6(x, p, b))
    BY <1>1, <2>4, <2>7, LeadsTransitive
  <2> QED BY <2>9, <2>10, Zenon
<1> QED BY <1>5, <1>6, <1>7

\* An acknowledgement that may be one of what was never sent
LEMMA AckStepLeads ==
  ASSUME NEW c, NEW d, Other(d), Tuned(c), NEW p, Brings(p, c, d), NEW dupseg, NEW laststate,
         c.state \in FinGoes => laststate # "ESTABLISHED", c.state # "CLOSED",
         p.ackno \in Int, d.state # "CLOSED" => p.ackno <= rcv_nxt(d),
         Ready(c, d) \/ (JustOpen(c, d) /\ 1 <= p.ackno /\ p.ackno <= c.maxseq)
  PROVE  Settles(c, d, p.ackno, AckStep(c, p, dupseg, laststate))
<1>1. CASE Ready(c, d)
  <2>1. /\ c \in Agents /\ Ints(c) /\ c.highest_ack <= c.maxseq /\ 1 <= c.highest_ack
        /\ c.state \in DataFlows \cup FinGoes \cup {"FIN_WAIT_2"}
        /\ c.state \in FinGoes => Ending(c)
        /\ c.state = "FIN_WAIT_2" => Answered(c)
    BY <1>1, ReadyParts DEF Ready
  <2>2. CASE p.ackno <= c.highest_ack
    <3>1. Payload(p, c, d)
      BY <2>1, <2>2 DEF Brings, Ending, FinGoes, Ints
    <3>2. AckStep(c, p, dupseg, laststate) = OldAck(c, p, dupseg)
      BY <2>2, Zenon DEF AckStep
    <3> QED BY <1>1, <3>1, <3>2, OldAckLeads DEF Settles
  <2>3. CASE ~(p.ackno <= c.highest_ack) /\ p.ackno > c.maxseq
    <3>1. AckStep(c, p, dupseg, laststate) = DropAfterAck(c)
      BY <2>3, Zenon DEF AckStep
    <3> QED BY <1>1, <3>1, DropAfterAckLeads DEF Settles
  <2>4. CASE ~(p.ackno <= c.highest_ack) /\ ~(p.ackno > c.maxseq)
    <3>1. AckStep(c, p, dupseg, laststate) = NewAck(c, p, laststate)
      BY <2>4, Zenon DEF AckStep
    <3>2. 1 <= p.ackno /\ c.highest_ack <= p.ackno /\ p.ackno <= c.maxseq /\ c.highest_ack # c.maxseq
      BY <2>1, <2>4 DEF Ints
    <3>3. c.state \in DataFlows \cup FinGoes
      BY <2>1, <3>2 DEF Answered
    <3>4. Acks(c, d, p.ackno)
      BY <1>1, <3>2, <3>3 DEF Acks
    <3> QED BY <3>1, <3>4, NewAckLeads
  <2> QED BY <2>2, <2>3, <2>4
<1>2. CASE JustOpen(c, d) /\ 1 <= p.ackno /\ p.ackno <= c.maxseq
  <2>1. Ints(c) /\ c.highest_ack = -1
    BY <1>2, AgentInts DEF JustOpen, Well, Calling
  <2>2. ~(p.ackno <= c.highest_ack) /\ ~(p.ackno > c.maxseq) /\ c.highest_ack <= p.ackno
    BY <1>2, <2>1 DEF Ints
  <2>3. AckStep(c, p, dupseg, laststate) = NewAck(c, p, laststate)
    BY <2>2, Zenon DEF AckStep
  <2>4. Acks(c, d, p.ackno)
    BY <1>2, <2>2 DEF Acks
  <2> QED BY <2>3, <2>4, NewAckLeads
<1> QED BY <1>1, <1>2

-----------------------------------------------------------------------------
(* Segments that arrive *)

\* Of the other side, which after it was reset sends nothing that is missing
Stale(p, c) == (p.len = 0 \/ p.seq + p.len <= rcv_nxt(c)) /\ ~p.fin

Arrives(p, c, d) ==
  /\ Framed(p)
  /\ d.state = "LAST_ACK" /\ p.fin => p.ackno = c.maxseq
  /\ \/ 1 <= d.maxseq /\ Truthful(p, d) /\ (p.ack => 1 <= p.ackno)
     \/ /\ d.state = "CLOSED" /\ Blank(d)
        /\ c.state \notin FinCame \cup {"LISTEN", "SYN_SENT", "SYN_RECEIVED"}
        /\ c.state # "CLOSED" => Stale(p, c)

Hearing(c, d) == Ready(c, d) \/ JustOpen(c, d)

LEMMA HearingParts ==
  ASSUME NEW c, NEW d, Hearing(c, d)
  PROVE  c \in Agents /\ Ints(c) /\ Pair(c, d) /\ 1 <= rcv_nxt(c) /\ c.state \in States
<1>1. CASE Ready(c, d)
  BY <1>1, ReadyParts, AgentFields DEF AgentParts
<1>2. CASE JustOpen(c, d)
  <2>1. c \in Agents /\ Pair(c, d) /\ c.rq = EmptyQueue(1)
    BY <1>2 DEF JustOpen, Well, Calling
  <2>2. 1 <= rcv_nxt(c)
    BY <2>1 DEF rcv_nxt, EmptyQueue
  <2> QED BY <2>1, <2>2, AgentInts, AgentFields DEF AgentParts
<1> QED BY <1>1, <1>2 DEF Hearing

\* What trimming leaves of a segment
Cut(q, p, n) ==
  /\ q \in Segments /\ ~q.syn /\ q.ackno = p.ackno /\ (q.ack <=> p.ack)
  /\ \/ q.len = 0 /\ ~q.fin
     \/ /\ ~p.syn /\ q.seq + q.len = p.seq + p.len /\ (q.fin <=> p.fin) /\ 0 <= q.len
        /\ n <= q.seq \/ (q.len = 0 /\ p.seq + p.len < n)
        /\ q.len > 0 => p.len > 0

LEMMA UnsynIs ==
  ASSUME NEW c, NEW p \in Segments, 1 <= rcv_nxt(c), rcv_nxt(c) \in Int, Framed(p)
  PROVE  /\ p.syn => Unsyn(c, p) \in Segments /\ ~Unsyn(c, p).syn /\ Unsyn(c, p).seq = 1
                     /\ Unsyn(c, p).len = 0 /\ ~Unsyn(c, p).fin
                     /\ Unsyn(c, p).ackno = p.ackno /\ Unsyn(c, p).ack = p.ack
         /\ ~p.syn => Unsyn(c, p) = p
<1>1. CASE ~p.syn
  BY <1>1, Zenon DEF Unsyn
<1>2. CASE p.syn
  <2>1. p.seq = 0 /\ p.len = 0 /\ ~p.fin /\ p.seq < rcv_nxt(c)
    BY <1>2 DEF Framed
  <2>2. PICK b \in BOOLEAN : b = FALSE
    OBVIOUS
  <2>3. PICK q : q = [p EXCEPT !.syn = b, !.seq = @ + 1]
    OBVIOUS
  <2>9. p.seq \in Int /\ q.seq = p.seq + 1
    BY <2>3 DEF Segments
  <2>10. /\ q.len = p.len /\ q.ackno = p.ackno /\ q.syn = b /\ q.fin = p.fin /\ q.ack = p.ack
    BY <2>3 DEF Segments
  <2>11. q \in Segments
    <3>1. PICK k \in Int : k = p.seq + 1
      BY <2>9
    <3>2. q = [p EXCEPT !.syn = b, !.seq = k]
      BY <2>3, <3>1, Zenon
    <3> QED BY <3>2 DEF Segments
  <2>4. /\ q \in Segments /\ q.seq = p.seq + 1 /\ q.len = p.len /\ q.ackno = p.ackno
        /\ q.syn = b /\ q.fin = p.fin /\ q.ack = p.ack
    BY <2>9, <2>10, <2>11
  <2>5. Unsyn(c, p) = q
    BY <1>2, <2>1, <2>2, <2>3, Zenon DEF Unsyn
  <2>6. ~q.syn
    BY <2>2, <2>4
  <2>7. q.seq = 1 /\ q.len = 0
    BY <2>1, <2>4
  <2>8. ~q.fin
    BY <2>1, <2>4
  <2> QED BY <1>2, <2>4, <2>5, <2>6, <2>7, <2>8
<1> QED BY <1>1, <1>2

LEMMA TrimIs ==
  ASSUME NEW c, NEW p, 1 <= rcv_nxt(c), rcv_nxt(c) \in Int, Framed(p),
         NEW q, q = Trimmed(c, p)
  PROVE  Cut(q, p, rcv_nxt(c))
<1>1. /\ p \in Segments /\ p.seq \in Int /\ p.len \in Int /\ p.ackno \in Int /\ 0 <= p.len
      /\ p.fin \in BOOLEAN /\ p.syn \in BOOLEAN /\ p.ack \in BOOLEAN
  BY DEF Framed, Segments
<1>2. PICK u : u = Unsyn(c, p)
  OBVIOUS
<1>3. /\ p.syn => /\ u \in Segments /\ ~u.syn /\ u.seq = 1 /\ u.len = 0 /\ ~u.fin
                  /\ u.ackno = p.ackno /\ u.ack = p.ack
      /\ ~p.syn => u = p
  BY <1>1, <1>2, UnsynIs
<1>4. /\ u \in Segments /\ ~u.syn /\ u.ackno = p.ackno /\ u.ack = p.ack /\ u.seq \in Int
      /\ u.len \in Int /\ 0 <= u.len
  BY <1>1, <1>3 DEF Segments
<1>5. CASE Covered(c, p)
  <2>1. PICK k \in Int : k = u.seq + u.len
    BY <1>4
  <2>2. PICK b \in BOOLEAN : b = FALSE
    OBVIOUS
  <2>3. PICK z \in Int : z = 0
    OBVIOUS
  <2>4. q = [u EXCEPT !.seq = k, !.len = z, !.fin = b]
    <3>1. q = [u EXCEPT !.seq = @ + u.len, !.len = z, !.fin = b]
      BY <1>2, <1>5, <2>2, <2>3, Zenon DEF Trimmed
    <3> QED BY <3>1, <2>1, Zenon
  <2>5. q \in Segments
    BY <2>4, <1>4 DEF Segments
  <2>6. q.syn = u.syn /\ q.ackno = u.ackno /\ q.ack = u.ack /\ q.len = z /\ q.fin = b
    BY <2>4, <1>4 DEF Segments
  <2>7. q.len = 0 /\ ~q.syn
    BY <2>3, <2>6, <1>4
  <2>8. ~q.fin
    BY <2>2, <2>6
  <2> QED BY <2>5, <2>6, <2>7, <2>8, <1>4 DEF Cut
<1>6. CASE ~Covered(c, p) /\ u.seq < rcv_nxt(c) /\ u.len > 0
  <2>1. ~p.syn /\ u = p
    BY <1>3, <1>6
  <2>2. PICK k \in Int : k = p.seq + p.len - rcv_nxt(c)
    BY <1>1
  <2>3. PICK n \in Int : n = rcv_nxt(c)
    OBVIOUS
  <2>4. q = [p EXCEPT !.seq = n, !.len = k]
    BY <1>2, <1>6, <2>1, <2>2, <2>3, Zenon DEF Trimmed
  <2>5. 0 <= k
    BY <1>1, <1>2, <1>6, <2>1, <2>2 DEF Covered
  <2>6. q \in Segments
    BY <2>4, <1>1 DEF Segments
  <2>7. q.syn = p.syn /\ q.ackno = p.ackno /\ q.ack = p.ack /\ q.fin = p.fin
    BY <2>4, <1>1 DEF Segments
  <2>8. q.seq = n /\ q.len = k
    BY <2>4, <1>1 DEF Segments
  <2>9. q.seq + q.len = p.seq + p.len /\ 0 <= q.len /\ rcv_nxt(c) <= q.seq /\ p.len > 0
    BY <1>1, <1>6, <2>1, <2>2, <2>3, <2>5, <2>8
  <2> QED BY <2>1, <2>6, <2>7, <2>9 DEF Cut
<1>7. CASE ~Covered(c, p) /\ ~(u.seq < rcv_nxt(c) /\ u.len > 0)
  <2>1. q = u
    BY <1>2, <1>7, Zenon DEF Trimmed
  <2>2. CASE p.syn
    <3>1. q.len = 0 /\ ~q.fin
      BY <1>3, <2>1, <2>2
    <3> QED BY <3>1, <2>1, <1>4 DEF Cut
  <2>3. CASE ~p.syn
    <3>1. q = p
      BY <1>3, <2>1, <2>3
    <3>2. rcv_nxt(c) <= q.seq \/ (q.len = 0 /\ p.seq + p.len < rcv_nxt(c))
      BY <1>1, <1>7, <2>1, <3>1
    <3> QED BY <1>1, <2>3, <3>1, <3>2 DEF Cut
  <2> QED BY <2>2, <2>3
<1> QED BY <1>5, <1>6, <1>7

\* What an agent that hears the other takes from a segment
LEMMA TrimBrings ==
  ASSUME NEW c, NEW d, Hearing(c, d), Other(d), c.state # "CLOSED", NEW p, Arrives(p, c, d),
         ~(c.state = "LAST_ACK" /\ p.fin), NEW q, q = Trimmed(c, p)
  PROVE  /\ Brings(q, c, d) /\ ~q.syn /\ q.ackno = p.ackno /\ (q.ack <=> p.ack)
         /\ q \in Segments
<1>1. /\ c \in Agents /\ Ints(c) /\ Pair(c, d) /\ 1 <= rcv_nxt(c) /\ c.state \in States
      /\ rcv_nxt(c) \in Int
  BY HearingParts DEF Ints
<1>2. /\ p.seq \in Int /\ p.len \in Int /\ 0 <= p.len /\ Framed(p)
  BY DEF Arrives, Framed, Segments
<1>3. Cut(q, p, rcv_nxt(c))
  BY <1>1, <1>2, TrimIs
<1>4. q \in Segments /\ q.seq \in Int /\ q.len \in Int /\ ~q.syn /\ q.ackno = p.ackno /\ (q.ack <=> p.ack)
  BY <1>3 DEF Cut, Segments
<1>5. CASE q.len = 0 /\ ~q.fin
  BY <1>4, <1>5 DEF Brings, Payload
<1>6. CASE ~(q.len = 0 /\ ~q.fin)
  <2>1. /\ ~p.syn /\ q.seq + q.len = p.seq + p.len /\ (q.fin <=> p.fin) /\ 0 <= q.len
        /\ rcv_nxt(c) <= q.seq \/ (q.len = 0 /\ p.seq + p.len < rcv_nxt(c))
        /\ q.len > 0 => p.len > 0
    BY <1>3, <1>6 DEF Cut
  <2>2. q.len > 0 \/ q.fin
    BY <1>4, <1>6, <2>1
  <2>3. 1 <= d.maxseq /\ Truthful(p, d)
    <3>1. ASSUME Stale(p, c) PROVE FALSE
      <4>1. q.len > 0 /\ p.len > 0 /\ ~q.fin
        BY <2>1, <2>2, <3>1 DEF Stale
      <4>2. p.seq + p.len <= rcv_nxt(c)
        BY <3>1, <4>1 DEF Stale
      <4>3. rcv_nxt(c) <= q.seq
        BY <2>1, <4>1
      <4> QED BY <1>1, <1>2, <1>4, <2>1, <4>1, <4>2, <4>3
    <3> QED BY <3>1 DEF Arrives
  <2>4. /\ d \in Agents /\ Ints(d) /\ d.curseq <= Most /\ 0 <= d.curseq
    BY <2>3, OtherParts
  <2>5. Top(d) \in Nat /\ Top(d) <= d.maxseq /\ (FinSent(d) => d.maxseq = Top(d) + 1)
    BY <2>3, <2>4, TopIs
  <2>6. p.seq + p.len <= Top(d) /\ (p.fin => FinSent(d) /\ p.seq + p.len = Top(d))
    BY <2>1, <2>2, <2>3 DEF Truthful
  <2>7. CASE c.state \in FinCame
    <3>1. rcv_nxt(c) = d.maxseq /\ FinSent(d)
      BY <1>1, <2>3, <2>7 DEF Pair, Side, Hears
    <3>2. c.state # "LAST_ACK"
      <4>1. ASSUME c.state = "LAST_ACK" PROVE FALSE
        <5>1. ~q.fin /\ q.len > 0
          BY <2>1, <2>2, <4>1
        <5>2. p.seq + p.len < rcv_nxt(c)
          BY <1>1, <1>2, <2>5, <2>6, <3>1
        <5>3. rcv_nxt(c) <= q.seq
          BY <2>1, <5>1
        <5> QED BY <5>1, <5>2, <5>3, <1>1, <1>2, <1>4, <2>1
      <4> QED BY <4>1
    <3>3. HaveRcvdFin(c.state)
      BY <2>7, <3>2 DEF FinCame, HaveRcvdFin
    <3> QED BY <1>4, <3>3 DEF Brings, Payload
  <2>8. CASE c.state \notin FinCame
    <3>1. c.state \in Receiving
      <4>1. c.state \in DataFlows \cup FinGoes \cup {"FIN_WAIT_2", "CLOSED"}
        <5>1. CASE Ready(c, d)
          BY <5>1, ReadyParts
        <5>2. CASE JustOpen(c, d)
          BY <5>2 DEF JustOpen, DataFlows
        <5> QED BY <5>1, <5>2 DEF Hearing
      <4> QED BY <4>1, <2>8 DEF DataFlows, FinGoes, FinCame, Receiving
    <3>2. rcv_nxt(c) <= Top(d)
      BY <1>1, <2>3, <2>8 DEF Pair, Side, Hears
    <3>3. rcv_nxt(c) <= q.seq
      <4>1. ASSUME q.len = 0, p.seq + p.len < rcv_nxt(c) PROVE FALSE
        <5>1. p.seq + p.len = Top(d)
          BY <1>4, <2>1, <2>2, <2>6, <4>1
        <5> QED BY <1>1, <1>2, <2>5, <3>2, <4>1, <5>1
      <4> QED BY <2>1, <4>1
    <3>4. ASSUME NEW x, x.rq = c.rq, x.state \in Receiving,
                 d.state = "LAST_ACK" /\ q.fin => x.state # "FIN_WAIT_1"
          PROVE  Payload(q, x, d)
      <4>1. rcv_nxt(x) = rcv_nxt(c)
        BY <3>4 DEF rcv_nxt
      <4>2. Wanted(q, x, d)
        BY <1>4, <2>1, <2>2, <2>3, <2>6, <3>3, <3>4, <4>1 DEF Wanted
      <4> QED BY <1>4, <4>2 DEF Payload
    <3>5. CASE d.state = "LAST_ACK" /\ q.fin /\ c.state = "FIN_WAIT_1"
      <4>1. p.ackno = c.maxseq
        BY <2>1, <3>5 DEF Arrives
      <4> QED BY <1>4, <3>4, <3>5, <4>1 DEF Brings, Receiving
    <3>6. CASE ~(d.state = "LAST_ACK" /\ q.fin /\ c.state = "FIN_WAIT_1")
      BY <1>4, <3>1, <3>4, <3>6 DEF Brings
    <3> QED BY <1>4, <3>5, <3>6
  <2> QED BY <2>7, <2>8, <1>4
<1> QED BY <1>5, <1>6

\* The agent x is c but for timers and what it owes
Same(c, x) ==
  /\ x \in Agents /\ Alike(c, x) /\ x.t_seqno = c.t_seqno /\ x.recover = c.recover
  /\ x.delack = c.delack /\ x.rtx = c.rtx /\ x.cwnd = c.cwnd /\ x.dupacks = c.dupacks

LEMMA OwedSame ==
  ASSUME NEW c \in Agents, NEW x, x = [c EXCEPT !.acknow = TRUE]
  PROVE  Same(c, x)
  BY DEF Same, Agents, Alike

LEMMA TimedSame ==
  ASSUME NEW c \in Agents, NEW x, x = [c EXCEPT !.dtimer = TRUE]
  PROVE  Same(c, x)
  BY DEF Same, Agents, Alike

LEMMA SameReady ==
  ASSUME NEW c, NEW d, Ready(c, d), Other(d), Tuned(c), NEW x, Same(c, x)
  PROVE  Leads(c, d, x)
<1>1. Tuned(x)
  BY DEF Same, Tuned
<1> QED BY <1>1, LikeLeads DEF Same

\* What a step makes of an agent whose SYN is out
Goes(c, d, x) == Able(x) /\ Pair(x, d) /\ Turned(c, x) /\ Tuned(x)

LEMMA LeadsGoes ==
  ASSUME NEW c, NEW d, NEW x, Leads(c, d, x)
  PROVE  Goes(c, d, x)
  BY DEF Leads, Ready, Goes

\* An agent that waits for the answer to its SYN
Awaits(c, d) ==
  /\ Well(c) /\ Phase(c) /\ Pair(c, d) /\ c.state \in {"SYN_SENT", "SYN_RECEIVED"}
  /\ c.out = <<>>

LEMMA CallsParts ==
  ASSUME NEW c, NEW d, Awaits(c, d)
  PROVE  /\ c \in Agents /\ Ints(c) /\ c.maxseq = 1 /\ c.highest_ack = -1 /\ c.t_seqno = 1
         /\ 0 <= c.curseq /\ ~c.delack /\ ~FinSent(c) /\ Top(c) = 1
         /\ c.state = "SYN_SENT" => c.rq = EmptyQueue(-1) /\ Calling(c, -1) /\ rcv_nxt(c) = -1
         /\ c.state = "SYN_RECEIVED" => c.rq = EmptyQueue(1) /\ Calling(c, 1) /\ rcv_nxt(c) = 1
<1>1. c \in Agents /\ Ints(c)
  BY AgentInts DEF Awaits, Well
<1>2. /\ c.state = "SYN_SENT" => Calling(c, -1)
      /\ c.state = "SYN_RECEIVED" => Calling(c, 1)
  BY DEF Awaits, Phase
<1>3. Calling(c, -1) \/ Calling(c, 1)
  BY <1>2 DEF Awaits
<1>4. /\ c.maxseq = 1 /\ c.highest_ack = -1 /\ c.t_seqno = 1 /\ 0 <= c.curseq /\ ~c.delack
  BY <1>3 DEF Calling
<1>5. ~FinSent(c) /\ Top(c) = 1
  BY <1>1, <1>4 DEF FinSent, Top, MinOf, Ints
<1>6. c.state = "SYN_SENT" => c.rq = EmptyQueue(-1) /\ rcv_nxt(c) = -1
  BY <1>2 DEF Calling, rcv_nxt, EmptyQueue
<1>7. c.state = "SYN_RECEIVED" => c.rq = EmptyQueue(1) /\ rcv_nxt(c) = 1
  BY <1>2 DEF Calling, rcv_nxt, EmptyQueue
<1> QED BY <1>1, <1>2, <1>4, <1>5, <1>6, <1>7

LEMMA WaitGoes ==
  ASSUME NEW c, NEW d, Awaits(c, d), Other(d), NEW x \in Agents, Alike(c, x), Tuned(x),
         x.t_seqno = c.t_seqno, ~x.delack, x.recover = c.recover \/ x.recover = c.maxseq
  PROVE  Goes(c, d, x) /\ Awaits(x, d)
<1>1. /\ c \in Agents /\ Ints(c) /\ c.maxseq = 1 /\ 0 <= c.curseq
      /\ c.state = "SYN_SENT" => Calling(c, -1)
      /\ c.state = "SYN_RECEIVED" => Calling(c, 1)
      /\ c.state \in {"SYN_SENT", "SYN_RECEIVED"} /\ Pair(c, d) /\ c.out = <<>> /\ Well(c)
  BY CallsParts DEF Awaits
<1>2. Well(x) /\ Grown(c, x) /\ rcv_nxt(x) = rcv_nxt(c)
  BY <1>1, AlikeWell
<1>3. /\ x.state = c.state /\ x.passive = c.passive /\ x.maxseq = c.maxseq
      /\ x.highest_ack = c.highest_ack /\ x.curseq = c.curseq /\ x.rq = c.rq /\ x.out = c.out
  BY DEF Alike
<1>4. Turned(c, x)
  BY <1>1, <1>2, <1>3 DEF Turned
<1>5. d \in Agents /\ Phase(d)
  BY OtherParts
<1>6. Side(d, x)
  BY <1>1, <1>4, <1>5, SideTurned DEF Pair
<1>7. Side(x, d)
  BY <1>1, <1>3, SideSame DEF Pair
<1>8. Phase(x)
  BY <1>1, <1>3 DEF Phase, Calling, DataFlows, FinGoes
<1>9. Tight(x)
  BY <1>1, <1>3 DEF Tight
<1> QED BY <1>1, <1>2, <1>3, <1>4, <1>6, <1>7, <1>8, <1>9 DEF Goes, Able, Pair, Awaits

\* The agent x is c but for its state, the window and what it owes
Bare(c, x) ==
  /\ x.passive = c.passive /\ x.maxseq = c.maxseq /\ x.highest_ack = c.highest_ack
  /\ x.t_seqno = c.t_seqno /\ x.curseq = c.curseq /\ x.last_ack_sent = c.last_ack_sent
  /\ x.recover = c.recover /\ x.out = c.out /\ x.rq = c.rq

\* The acknowledgement of the SYN
LEMMA OpenedIs ==
  ASSUME NEW c, NEW d, Awaits(c, d), c.state = "SYN_RECEIVED", Other(d), NEW x \in Agents,
         Bare(c, x), ~x.delack, x.state = "ESTABLISHED"
  PROVE  JustOpen(x, d) /\ Turned(c, x)
<1>1. /\ c \in Agents /\ Ints(c) /\ c.maxseq = 1 /\ 0 <= c.curseq /\ Calling(c, 1) /\ ~FinSent(c)
      /\ Pair(c, d) /\ Well(c) /\ Fits(c) /\ OutFrom(c)
  BY CallsParts DEF Awaits, Well
<1>2. rcv_nxt(x) = rcv_nxt(c) /\ Top(x) = Top(c) /\ (FinSent(x) <=> FinSent(c))
  BY DEF Bare, rcv_nxt, Top, FinSent
<1>3. Grown(c, x)
  BY <1>1, <1>2 DEF Grown, Bare, Ints
<1>4. Turned(c, x)
  BY <1>1, <1>3 DEF Turned, Bare
<1>5. Well(x)
  <2>1. OutFrom(x)
    BY <1>1, <1>3, OutGrown DEF Bare
  <2> QED BY <2>1, <1>1, <1>2 DEF Well, Fits, Bare
<1>6. Calling(x, 1)
  BY <1>1 DEF Calling, Bare
<1>7. d \in Agents /\ Phase(d)
  BY OtherParts
<1>8. Side(d, x)
  BY <1>1, <1>4, <1>7, SideTurned DEF Pair
<1>9. Side(x, d)
  <2>1. Side(c, d)
    BY <1>1 DEF Pair
  <2>2. Hears(x, d)
    BY <2>1, <1>2 DEF Side, Hears, FinCame, Bare
  <2> QED BY <2>1, <2>2 DEF Side, FinCame, Bare
<1> QED BY <1>4, <1>5, <1>6, <1>8, <1>9 DEF JustOpen, Pair

\* The result of a segment: the agent goes on, or is reset
Meanwhile(c, d, p, x) ==
  \/ Goes(c, d, x)
  \/ c.state = "LAST_ACK" /\ p.ackno = c.maxseq /\ p.ack /\ Wiped(c, x)

LEMMA ArrivesAck ==
  ASSUME NEW c, NEW d, NEW p, Arrives(p, c, d), p.ack
  PROVE  p.ackno \in Int /\ (d.state # "CLOSED" => p.ackno <= rcv_nxt(d))
  BY DEF Arrives, Truthful, Framed, Segments

LEMMA SameBrings ==
  ASSUME NEW c, NEW d, NEW x, NEW p, Brings(p, c, d), x.rq = c.rq, x.state = c.state,
         x.maxseq = c.maxseq
  PROVE  Brings(p, x, d)
<1>1. CASE Payload(p, c, d)
  BY <1>1, PayloadKept DEF Brings
<1>2. CASE ~Payload(p, c, d)
  BY <1>2 DEF Brings
<1> QED BY <1>1, <1>2

\* A segment for an agent that is open or closes
LEMMA ReadyReceives ==
  ASSUME NEW c, NEW d, Ready(c, d), Other(d), Tuned(c), c.state # "CLOSED",
         NEW p, Arrives(p, c, d), ~(c.state = "LAST_ACK" /\ p.fin),
         NEW x, x = RecvSynchronized(c, p)
  PROVE  Meanwhile(c, d, p, x)
<1>1. PICK q : q = Trimmed(c, p)
  OBVIOUS
<1>2. Hearing(c, d)
  BY DEF Hearing
<1>3. Brings(q, c, d) /\ ~q.syn /\ q.ackno = p.ackno /\ (q.ack <=> p.ack)
  BY <1>1, <1>2, TrimBrings
<1>4. c \in Agents /\ c.state \notin {"SYN_SENT", "SYN_RECEIVED"}
  BY ReadyParts, ReadyLively
<1>5. PICK y : y = IF Covered(c, p) THEN [c EXCEPT !.acknow = TRUE] ELSE c
  OBVIOUS
<1>6. Leads(c, d, y) /\ y.rq = c.rq /\ y.state = c.state /\ y.maxseq = c.maxseq /\ y.out = c.out
  <2>1. CASE Covered(c, p)
    <3>1. y = [c EXCEPT !.acknow = TRUE]
      BY <1>5, <2>1, Zenon
    <3>2. Same(c, y)
      BY <1>4, <3>1, OwedSame
    <3> QED BY <3>2, SameReady DEF Same, Alike
  <2>2. CASE ~Covered(c, p)
    <3>1. y = c
      BY <1>5, <2>2, Zenon
    <3> QED BY <3>1, LeadsItself
  <2> QED BY <2>1, <2>2
<1>7. CASE ~q.ack
  <2>1. x = y
    BY <1>1, <1>3, <1>5, <1>7, Zenon DEF RecvSynchronized
  <2> QED BY <2>1, <1>6, LeadsGoes DEF Meanwhile
<1>8. CASE q.ack
  <2>1. x = AckStep(y, q, Covered(c, p), c.state)
    BY <1>1, <1>3, <1>4, <1>5, <1>8 DEF RecvSynchronized
  <2>2. q.ackno \in Int /\ (d.state # "CLOSED" => q.ackno <= rcv_nxt(d))
    BY <1>3, <1>8, ArrivesAck
  <2>3. Brings(q, y, d)
    BY <1>3, <1>6, SameBrings
  <2>4. Ready(y, d) /\ Tuned(y) /\ y.state # "CLOSED"
        /\ (y.state \in FinGoes => c.state # "ESTABLISHED")
    BY <1>6 DEF Leads, FinGoes
  <2>5. PICK b : b = Covered(c, p)
    OBVIOUS
  <2>6. PICK s : s = c.state
    OBVIOUS
  <2>7. Settles(y, d, q.ackno, AckStep(y, q, b, s))
    BY <2>2, <2>3, <2>4, <2>6, AckStepLeads
  <2>8. x = AckStep(y, q, b, s)
    BY <2>1, <2>5, <2>6, Zenon
  <2>9. CASE Leads(y, d, x)
    <3>1. Leads(c, d, x)
      BY <1>4, <1>6, <2>9, LeadsTransitive
    <3> QED BY <3>1, LeadsGoes DEF Meanwhile
  <2>10. CASE y.state = "LAST_ACK" /\ q.ackno = y.maxseq /\ Wiped(y, x)
    <3>1. y.passive = c.passive
      BY <1>6 DEF Leads, Turned
    <3>2. Wiped(c, x)
      BY <1>6, <2>10, <3>1 DEF Wiped
    <3> QED BY <1>3, <1>6, <1>8, <2>10, <3>2 DEF Meanwhile
  <2> QED BY <2>7, <2>8, <2>9, <2>10 DEF Settles
<1> QED BY <1>7, <1>8

LEMMA SameArrives ==
  ASSUME NEW c, NEW d, NEW p, Arrives(p, c, d), NEW x, x.rq = c.rq, x.maxseq = c.maxseq,
         x.state = c.state
  PROVE  Arrives(p, x, d)
<1>1. rcv_nxt(x) = rcv_nxt(c)
  BY DEF rcv_nxt
<1> QED BY <1>1 DEF Arrives, Stale

Accepted(y, st, k) == [y EXCEPT !.state = st, !.cwnd = k]

LEMMA AcceptedIs ==
  ASSUME NEW y \in Agents, NEW st \in States, NEW k \in Int, NEW z, z = Accepted(y, st, k)
  PROVE  z \in Agents /\ Bare(y, z) /\ z.state = st /\ z.cwnd = k /\ z.dupacks = y.dupacks
<1>1. z \in Agents
  BY DEF Agents, Accepted
<1> QED BY <1>1 DEF Agents, Bare, Accepted

\* A segment for an agent that has answered a SYN
LEMMA OpeningReceives ==
  ASSUME NEW c, NEW d, Awaits(c, d), c.state = "SYN_RECEIVED", Other(d), Tuned(c),
         NEW p, Arrives(p, c, d), NEW x, x = RecvSynchronized(c, p)
  PROVE  Goes(c, d, x)
<1>1. /\ c \in Agents /\ Ints(c) /\ c.maxseq = 1 /\ c.highest_ack = -1 /\ ~c.delack
      /\ rcv_nxt(c) = 1 /\ Pair(c, d)
  BY CallsParts DEF Awaits
<1>2. Ints(d) /\ d \in Agents
  BY OtherParts
<1>3. /\ Framed(p) /\ 1 <= d.maxseq /\ Truthful(p, d) /\ (p.ack => 1 <= p.ackno)
      /\ d.state = "LAST_ACK" /\ p.fin => p.ackno = c.maxseq
  BY DEF Arrives
<1>4. PICK q : q = Trimmed(c, p)
  OBVIOUS
<1>5. PICK y : y = IF Covered(c, p) THEN [c EXCEPT !.acknow = TRUE] ELSE c
  OBVIOUS
<1>6. Same(c, y)
  <2>1. CASE Covered(c, p)
    <3>1. y = [c EXCEPT !.acknow = TRUE]
      BY <1>5, <2>1, Zenon
    <3> QED BY <1>1, <3>1, OwedSame
  <2>2. CASE ~Covered(c, p)
    <3>1. y = c
      BY <1>5, <2>2, Zenon
    <3> QED BY <1>1, <3>1 DEF Same, Alike
  <2> QED BY <2>1, <2>2
<1>7. PICK z : z = [y EXCEPT !.state = "ESTABLISHED", !.cwnd = 2]
  OBVIOUS
<1>8. y \in Agents
  BY <1>6 DEF Same
<1>9. /\ z \in Agents /\ Bare(y, z) /\ z.delack = y.delack /\ z.state = "ESTABLISHED"
      /\ z.cwnd = 2 /\ z.dupacks = y.dupacks
  <2>1. PICK st \in States : st = "ESTABLISHED"
    BY DEF States
  <2>2. PICK k \in Int : k = 2
    OBVIOUS
  <2>3. z = Accepted(y, st, k)
    BY <1>7, <2>1, <2>2, Zenon DEF Accepted
  <2>4. z \in Agents /\ Bare(y, z) /\ z.state = st /\ z.cwnd = k /\ z.dupacks = y.dupacks
    BY <1>8, <2>3, AcceptedIs
  <2>5. z.delack = y.delack
    BY <1>7, <1>8 DEF Agents
  <2> QED BY <2>1, <2>2, <2>4, <2>5
<1>10. Bare(c, z)
  BY <1>6, <1>9 DEF Same, Alike, Bare
<1>11. ~z.delack /\ Tuned(z) /\ z.rq = c.rq /\ z.maxseq = c.maxseq
  <2>1. z.delack = c.delack /\ z.dupacks = c.dupacks
    BY <1>6, <1>9 DEF Same
  <2> QED BY <2>1, <1>1, <1>9, <1>10 DEF Tuned, Bare
<1>12. JustOpen(z, d) /\ Turned(c, z)
  BY <1>9, <1>10, <1>11, OpenedIs
<1>13. Arrives(p, z, d)
  BY <1>3, <1>11 DEF Arrives
<1>14. q = Trimmed(z, p)
  BY <1>4, <1>11 DEF Trimmed, Covered, Unsyn, rcv_nxt
<1>15. Brings(q, z, d) /\ ~q.syn /\ q.ackno = p.ackno /\ (q.ack <=> p.ack)
  BY <1>9, <1>12, <1>13, <1>14, TrimBrings DEF Hearing
<1>16. CASE ~q.ack
  <2>1. x = y
    BY <1>4, <1>5, <1>15, <1>16, Zenon DEF RecvSynchronized
  <2>2. Alike(c, y) /\ Tuned(y) /\ y.t_seqno = c.t_seqno /\ y.recover = c.recover
    BY <1>6 DEF Same, Tuned
  <2>3. ~y.delack
    BY <1>1, <1>6 DEF Same
  <2> QED BY <2>1, <2>2, <2>3, <1>8, WaitGoes
<1>17. CASE q.ack
  <2>1. p.ackno \in Int /\ 1 <= p.ackno /\ p.ackno <= rcv_nxt(d)
    BY <1>3, <1>15, <1>17 DEF Framed, Segments, Truthful
  <2>2. rcv_nxt(d) <= c.maxseq
    BY <1>1 DEF Pair, Side, Hears
  <2>3. p.ackno <= c.maxseq
    BY <2>1, <2>2, <1>1, <1>2 DEF Ints
  <2>4. ~(q.ackno < c.highest_ack \/ q.ackno > c.maxseq)
    BY <2>1, <2>3, <1>1, <1>15
  <2>5. PICK b : b = Covered(c, p)
    OBVIOUS
  <2>6. PICK s : s = c.state
    OBVIOUS
  <2>7. x = AckStep(z, q, b, s)
    <3>1. c.state = "SYN_RECEIVED"
      OBVIOUS
    <3>2. x = AckStep(IF c.state = "SYN_RECEIVED" THEN z ELSE y, q, b, s)
      BY <1>4, <1>5, <1>7, <1>15, <1>17, <2>4, <2>5, <2>6, Zenon DEF RecvSynchronized
    <3> QED BY <3>1, <3>2, Zenon
  <2>8. Settles(z, d, q.ackno, AckStep(z, q, b, s))
    BY <1>9, <1>11, <1>12, <1>15, <2>1, <2>3, AckStepLeads DEF FinGoes
  <2>9. Leads(z, d, x)
    BY <1>9, <2>7, <2>8 DEF Settles
  <2>10. x \in Agents
    BY <2>9, ReadyParts DEF Leads
  <2>11. Turned(c, x)
    BY <1>1, <1>9, <1>12, <2>9, <2>10, TurnedTransitive DEF Leads
  <2> QED BY <2>9, <2>11 DEF Leads, Ready, Goes
<1> QED BY <1>16, <1>17

\* Header prediction takes the data step
LEMMA PredictedLeads ==
  ASSUME NEW c, NEW d, Ready(c, d), Other(d), Tuned(c), NEW p, Arrives(p, c, d), Predicted(c, p),
         NEW x, x = RecvPredicted(c, p)
  PROVE  Leads(c, d, x)
<1>1. /\ c.state = "ESTABLISHED" /\ ~p.syn /\ ~p.fin /\ p.seq = rcv_nxt(c) /\ p.len > 0
      /\ c.rq.fifo = <<>>
  BY DEF Predicted
<1>2. c \in Agents /\ Ints(c) /\ p.len \in Int
  BY ReadyParts DEF Arrives, Framed, Segments
<1>3. p = Trimmed(c, p)
  <2>1. Unsyn(c, p) = p
    BY <1>1, Zenon DEF Unsyn
  <2>2. ~(p.seq < rcv_nxt(c))
    BY <1>1, <1>2 DEF Ints
  <2> QED BY <2>1, <2>2, Zenon DEF Trimmed, Covered
<1>4. Payload(p, c, d)
  <2>1. Brings(p, c, d)
    BY <1>1, <1>3, TrimBrings DEF Hearing
  <2> QED BY <2>1, <1>1 DEF Brings
<1>5. PICK need : need = FALSE
  OBVIOUS
<1>6. PICK s : s = DataStep(c, p, need)
  OBVIOUS
<1>7. PICK y : y = [c EXCEPT !.rq.nxt = @ + p.len, !.delack = TRUE]
  OBVIOUS
<1>8. s.c = y
  <2>1. ~((p.len = 0 /\ ~p.fin) \/ HaveRcvdFin(c.state))
    BY <1>1, <1>2 DEF HaveRcvdFin
  <2>2. s = [c |-> y, fin |-> p.fin, out |-> NeedSend(y)]
    BY <1>1, <1>6, <1>7, <2>1, Zenon DEF DataStep
  <2> QED BY <2>2
<1>9. Leads(c, d, y)
  BY <1>4, <1>6, <1>8, DataStepLeads
<1>10. Leads(y, d, SendMuch(y, TRUE))
  BY <1>9, SendNow DEF Leads
<1>11. Leads(c, d, SendMuch(y, TRUE))
  BY <1>2, <1>9, <1>10, LeadsTransitive
<1>12. x = y \/ x = SendMuch(y, TRUE)
  BY <1>7, Zenon DEF RecvPredicted
<1> QED BY <1>9, <1>11, <1>12, Zenon

\* recv of an agent that has been open
LEMMA ReadyRecv ==
  ASSUME NEW c, NEW d, Ready(c, d), Other(d), Tuned(c), NEW p, Arrives(p, c, d),
         NEW x, x = Recv(c, p)
  PROVE  Meanwhile(c, d, p, x)
<1>1. c \in Agents /\ c.state \notin {"SYN_SENT", "SYN_RECEIVED", "LISTEN"}
  BY ReadyParts DEF DataFlows, FinGoes
<1>2. PICK y : y = [c EXCEPT !.dtimer = TRUE]
  OBVIOUS
<1>3. Same(c, y) /\ Leads(c, d, y)
  BY <1>1, <1>2, TimedSame, SameReady
<1>4. /\ y.rq = c.rq /\ y.state = c.state /\ y.maxseq = c.maxseq /\ y.out = c.out
      /\ y.passive = c.passive /\ y.highest_ack = c.highest_ack /\ y.t_seqno = c.t_seqno
  BY <1>3 DEF Same, Alike
<1>5. Arrives(p, y, d) /\ Ready(y, d) /\ Tuned(y)
  BY <1>3, <1>4, SameArrives DEF Leads
<1>6. CASE c.state = "CLOSED"
  <2>1. x = RecvClosed(c, p)
    <3>1. ~Predicted(c, p)
      BY <1>6 DEF Predicted
    <3> QED BY <1>6, <3>1, Zenon DEF Recv
  <2>2. x = DropAfterAck(c) \/ x = c
    BY <2>1, Zenon DEF RecvClosed
  <2> QED BY <2>2, DropAfterAckLeads, LeadsItself, LeadsGoes DEF Meanwhile
<1>7. CASE c.state # "CLOSED" /\ c.state = "LAST_ACK" /\ p.fin
  <2>1. x = y
    <3>1. ~Predicted(c, p)
      BY <1>7 DEF Predicted
    <3> QED BY <1>1, <1>2, <1>7, <3>1, Zenon DEF Recv
  <2> QED BY <2>1, <1>3, LeadsGoes DEF Meanwhile
<1>8. CASE c.state # "CLOSED" /\ ~(c.state = "LAST_ACK" /\ p.fin) /\ Predicted(c, p)
  <2>1. x = RecvPredicted(y, p)
    BY <1>1, <1>2, <1>8, Zenon DEF Recv
  <2>2. Predicted(y, p)
    BY <1>4, <1>8 DEF Predicted, rcv_nxt
  <2>3. Leads(y, d, x)
    BY <1>5, <2>1, <2>2, PredictedLeads
  <2>4. Leads(c, d, x)
    BY <1>1, <1>3, <2>3, LeadsTransitive
  <2> QED BY <2>4, LeadsGoes DEF Meanwhile
<1>9. CASE c.state # "CLOSED" /\ ~(c.state = "LAST_ACK" /\ p.fin) /\ ~Predicted(c, p)
  <2>1. x = RecvSynchronized(y, p)
    BY <1>1, <1>2, <1>9, Zenon DEF Recv
  <2>2. Meanwhile(y, d, p, x)
    BY <1>4, <1>5, <1>9, <2>1, ReadyReceives
  <2>3. CASE Goes(y, d, x)
    <3>1. x \in Agents /\ y \in Agents
      BY <2>3, <1>3 DEF Goes, Able, Well, Same
    <3>2. Turned(c, x)
      BY <1>1, <1>3, <2>3, <3>1, TurnedTransitive DEF Goes, Leads
    <3> QED BY <2>3, <3>2 DEF Goes, Meanwhile
  <2>4. CASE y.state = "LAST_ACK" /\ p.ackno = y.maxseq /\ p.ack /\ Wiped(y, x)
    BY <1>4, <2>4 DEF Wiped, Meanwhile
  <2> QED BY <2>2, <2>3, <2>4 DEF Meanwhile
<1> QED BY <1>6, <1>7, <1>8, <1>9

-----------------------------------------------------------------------------
(* The SYN states *)

LEMMA EmptyWaits ==
  ASSUME NEW top \in Nat
  PROVE  Waiting(EmptyQueue(1), top) /\ Open(EmptyQueue(1).fifo)
<1>1. PICK q : q = EmptyQueue(1)
  OBVIOUS
<1>2. q = [fifo |-> <<>>, lifo |-> <<>>, nxt |-> 1]
  BY <1>1 DEF EmptyQueue
<1>3. q \in Queues /\ q.fifo = <<>> /\ q.lifo = <<>>
  BY <1>2 DEF Queues
<1>4. Len(q.fifo) = 0
  BY <1>3
<1>5. Listing(q.lifo, q.fifo)
  BY <1>3 DEF Listing, Distinct
<1>6. Apart(q.fifo, top) /\ FlagsAtTop(q.fifo, top) /\ Ahead(q) /\ Open(q.fifo)
  BY <1>4 DEF Apart, FlagsAtTop, Ahead, Open
<1> QED BY <1>1, <1>3, <1>5, <1>6 DEF Waiting, Good

\* An agent that has received nothing but the SYN
LEMMA EmptySide ==
  ASSUME NEW x, NEW d, Other(d), 1 <= d.maxseq, x.rq = EmptyQueue(1),
         x.state \in {"SYN_RECEIVED", "ESTABLISHED"}, d.state # "CLOSED" => x.highest_ack <= rcv_nxt(d)
  PROVE  Side(x, d)
<1>1. rcv_nxt(x) = 1
  BY DEF rcv_nxt, EmptyQueue
<1>2. d \in Agents /\ d.curseq <= Most /\ 0 <= d.curseq
  BY OtherParts
<1>3. Top(d) \in Nat /\ 1 <= Top(d)
  BY <1>2, TopIs
<1>4. Waiting(x.rq, Top(d)) /\ Open(x.rq.fifo)
  BY <1>3, EmptyWaits
<1>5. Hears(x, d)
  BY <1>1, <1>3, <1>4 DEF Hears, FinCame
<1> QED BY <1>5 DEF Side, FinCame

Replied(y) == SendMuch(y, TRUE)

\* A SYN by itself is no data: its answer goes out
LEMMA SynStep6 ==
  ASSUME NEW y, y.acknow, y.state = "SYN_RECEIVED", NEW p, p.len = 0, ~p.fin,
         NEW z, z = Replied(y), z.state = "SYN_RECEIVED"
  PROVE  Step6(y, p, FALSE) = z
<1>1. PICK no : no = FALSE
  OBVIOUS
<1>2. DataStep(y, p, no) = [c |-> y, fin |-> FALSE, out |-> no]
  BY Zenon DEF DataStep
<1>3. PICK s : s = DataStep(y, p, no)
  OBVIOUS
<1>4. s.c = y /\ ~s.fin /\ s.out = no
  BY <1>2, <1>3
<1>5. FinStep(y, s.fin) = y
  BY <1>4, Zenon DEF FinStep
<1>6. Answer(y, s.out) = z
  BY Zenon DEF Answer, Replied
<1>7. CloseBehind(z) = z
  BY Zenon DEF CloseBehind
<1>8. Step6(y, p, no) = z
  BY <1>3, <1>4, <1>5, <1>6, <1>7, Zenon DEF Step6, AfterData
<1> QED BY <1>1, <1>8, Zenon

\* An agent that has sent a SYN at most takes one
TakesSyn(c, y) ==
  /\ y \in Agents /\ y.rq = EmptyQueue(1) /\ y.t_seqno = 0 /\ y.state = "SYN_RECEIVED"
  /\ y.passive = c.passive /\ y.maxseq = c.maxseq /\ y.highest_ack = c.highest_ack
  /\ y.curseq = c.curseq /\ y.last_ack_sent = c.last_ack_sent /\ y.recover = c.recover
  /\ y.out = c.out /\ y.cwnd = c.cwnd /\ y.dupacks = c.dupacks

Answering(c, u, n, b, r, st) ==
  [c EXCEPT !.rq = u, !.t_seqno = n, !.acknow = b, !.rtx = r, !.state = st]

LEMMA AnsweringIs ==
  ASSUME NEW c \in Agents, NEW u, u = EmptyQueue(1), NEW n \in Int, n = 0, NEW b \in BOOLEAN,
         NEW r \in BOOLEAN, NEW st \in States, st = "SYN_RECEIVED",
         NEW y, y = Answering(c, u, n, b, r, st)
  PROVE  TakesSyn(c, y) /\ y.acknow = b
<1>0. u \in RQueues
  BY EmptyIs
<1>1. y \in Agents
  BY <1>0, ZenonT(30) DEF Agents, Answering
<1>2. y.rq = u /\ y.t_seqno = n /\ y.state = st
  BY DEF Agents, Answering
<1>3. y.acknow = b
  BY DEF Agents, Answering
<1>4. /\ y.passive = c.passive /\ y.maxseq = c.maxseq /\ y.highest_ack = c.highest_ack
      /\ y.curseq = c.curseq /\ y.last_ack_sent = c.last_ack_sent /\ y.recover = c.recover
      /\ y.out = c.out /\ y.cwnd = c.cwnd /\ y.dupacks = c.dupacks
  BY DEF Agents, Answering
<1>5. y.rq = EmptyQueue(1) /\ y.t_seqno = 0 /\ y.state = "SYN_RECEIVED"
  BY <1>2, Zenon
<1> QED BY <1>1, <1>3, <1>4, <1>5, Zenon DEF TakesSyn

LEMMA SynTaken ==
  ASSUME NEW c, Well(c), c.out = <<>>, c.maxseq <= 1, c.highest_ack = -1, 0 <= c.curseq, Tuned(c),
         NEW y, TakesSyn(c, y), NEW x, x = Replied(y), rcv_nxt(c) <= 1
  PROVE  /\ Well(x) /\ Calling(x, 1) /\ Tuned(x) /\ x.state = "SYN_RECEIVED"
         /\ x.passive = c.passive /\ x.curseq = c.curseq
<1>1. c \in Agents /\ Fits(c) /\ Ints(c)
  BY AgentInts DEF Well
<1>2. y \in Agents
  BY DEF TakesSyn
<1>5. rcv_nxt(y) = 1
  BY DEF rcv_nxt, EmptyQueue, TakesSyn
<1>6. Fits(y)
  BY <1>1, <1>5, Bounds DEF Fits, Ints, TakesSyn
<1>7. Len(y.out) = 0
  BY DEF TakesSyn
<1>8. Well(y)
  BY <1>2, <1>6, <1>7 DEF Well, OutFrom
<1>9. Opener(y, 1)
  BY <1>1 DEF Opener, TakesSyn
<1>10. 1 \in Int
  OBVIOUS
<1>11. Well(x) /\ Calling(x, 1) /\ Opened(y, x)
  BY <1>8, <1>9, <1>10, SendSyn, Zenon DEF Replied
<1>12. x.state = "SYN_RECEIVED"
  BY <1>11 DEF Opened, TakesSyn
<1>13. Tuned(x)
  BY <1>11 DEF Opened, Tuned, TakesSyn
<1> QED BY <1>11, <1>12, <1>13 DEF Opened, TakesSyn

\* An agent whose SYN was answered with a SYN
Agreed(c, y) ==
  /\ y \in Agents /\ y.rq = EmptyQueue(1) /\ y.highest_ack = 1 /\ y.cwnd = 2
  /\ y.state = "ESTABLISHED" /\ y.passive = c.passive /\ y.t_seqno = c.t_seqno
  /\ y.maxseq = c.maxseq /\ y.curseq = c.curseq /\ y.recover = c.recover
  /\ y.dupacks = c.dupacks

Agreeing(c, u, n, k, b, st) ==
  [c EXCEPT !.rq = u, !.highest_ack = n, !.cwnd = k, !.acknow = b, !.state = st]

LEMMA AgreeingIs ==
  ASSUME NEW c \in Agents, NEW u, u = EmptyQueue(1), NEW n \in Int, n = 1, NEW k \in Int, k = 2,
         NEW b \in BOOLEAN, NEW st \in States, st = "ESTABLISHED",
         NEW y, y = Agreeing(c, u, n, k, b, st)
  PROVE  Agreed(c, y) /\ y.out = c.out /\ y.last_ack_sent = c.last_ack_sent
<1>0. u \in RQueues
  BY EmptyIs
<1>1. y \in Agents
  BY <1>0, ZenonT(30) DEF Agents, Agreeing
<1>2. y.rq = u /\ y.highest_ack = n /\ y.cwnd = k /\ y.state = st
  BY DEF Agents, Agreeing
<1>3. /\ y.passive = c.passive /\ y.t_seqno = c.t_seqno /\ y.maxseq = c.maxseq
      /\ y.curseq = c.curseq /\ y.recover = c.recover /\ y.dupacks = c.dupacks
      /\ y.out = c.out /\ y.last_ack_sent = c.last_ack_sent
  BY DEF Agents, Agreeing
<1>4. /\ y.rq = EmptyQueue(1) /\ y.highest_ack = 1 /\ y.cwnd = 2 /\ y.state = "ESTABLISHED"
  BY <1>2, Zenon
<1> QED BY <1>1, <1>3, <1>4, Zenon DEF Agreed

LEMMA SentpacketIs ==
  ASSUME NEW c \in Agents, NEW p \in Segments, NEW x, x = Sendpacket(c, p)
  PROVE  /\ x \in Agents /\ x.out = Append(c.out, p) /\ x.last_ack_sent = p.ackno
         /\ x.rq = c.rq /\ x.highest_ack = c.highest_ack /\ x.cwnd = c.cwnd /\ x.state = c.state
         /\ x.passive = c.passive /\ x.t_seqno = c.t_seqno /\ x.maxseq = c.maxseq
         /\ x.curseq = c.curseq /\ x.recover = c.recover /\ x.dupacks = c.dupacks
<1>1. p.ackno \in Int
  BY DEF Segments
<1>2. Append(c.out, p) \in Seq(Segments)
  BY DEF Agents
<1>3. x \in Agents
  BY <1>1, <1>2 DEF Agents, Sendpacket
<1>4. x.out = Append(c.out, p) /\ x.last_ack_sent = p.ackno
  BY DEF Agents, Sendpacket
<1>5. /\ x.rq = c.rq /\ x.highest_ack = c.highest_ack /\ x.cwnd = c.cwnd /\ x.state = c.state
      /\ x.passive = c.passive /\ x.t_seqno = c.t_seqno /\ x.maxseq = c.maxseq
      /\ x.curseq = c.curseq /\ x.recover = c.recover /\ x.dupacks = c.dupacks
  BY DEF Agents, Sendpacket
<1> QED BY <1>3, <1>4, <1>5

\* The answer to the SYN of the other side has gone out
LEMMA AgreedReady ==
  ASSUME NEW c, NEW d, Awaits(c, d), c.state = "SYN_SENT", Other(d), Tuned(c), 1 <= d.maxseq,
         d.state # "CLOSED" => 1 <= rcv_nxt(d),
         NEW z, Agreed(c, z), z.last_ack_sent = 1, NEW r \in Segments, z.out = <<r>>,
         r.seq = 1, r.ackno = 1, r.len = 0, ~r.syn, ~r.fin, r.ack
  PROVE  Ready(z, d) /\ Turned(c, z) /\ Tuned(z)
<1>1. /\ c \in Agents /\ Ints(c) /\ c.maxseq = 1 /\ c.highest_ack = -1 /\ c.t_seqno = 1
      /\ 0 <= c.curseq /\ ~FinSent(c) /\ Top(c) = 1 /\ rcv_nxt(c) = -1 /\ Fits(c)
  BY CallsParts DEF Awaits, Well
<1>2. rcv_nxt(z) = 1 /\ z \in Agents
  BY DEF Agreed, rcv_nxt, EmptyQueue
<1>3. Top(z) = 1 /\ ~FinSent(z)
  BY <1>1 DEF Agreed, Top, FinSent, MinOf, Ints
<1>4. Most \in Nat
  BY Bounds
<1>5. Framed(r)
  BY <1>4, Bounds DEF Framed
<1>6. Truthful(r, z)
  BY <1>2, <1>3 DEF Truthful
<1>7. From(r, z)
  BY <1>5, <1>6 DEF From
<1>8. OutFrom(z)
  <2>1. Len(z.out) = 1 /\ z.out[1] = r
    OBVIOUS
  <2> QED BY <1>7, <2>1 DEF OutFrom
<1>9. Fits(z)
  BY <1>1, <1>2, <1>4 DEF Fits, Agreed, Ints, MaxOf
<1>10. Phase(z)
  BY <1>1, <1>2 DEF Phase, Agreed, Sending, Talking, DataFlows, FinGoes, Ints
<1>11. Tight(z)
  BY DEF Tight, Agreed
<1>12. Grown(c, z)
  BY <1>1, <1>2, <1>3 DEF Grown, Agreed
<1>13. Turned(c, z)
  BY <1>1, <1>12 DEF Turned, Agreed
<1>14. Side(z, d)
  BY EmptySide DEF Agreed
<1>15. Side(d, z)
  BY <1>1, <1>2, <1>13, SideTurned DEF Awaits, Pair, Other, Well
<1>16. Tuned(z)
  BY DEF Tuned, Agreed
<1> QED BY <1>2, <1>8, <1>9, <1>10, <1>11, <1>13, <1>14, <1>15, <1>16 DEF Ready, Able, Well, Pair, Agreed

\* What is left of a SYN
Bumped(p) == [p EXCEPT !.seq = @ + 1]

LEMMA BumpedIs ==
  ASSUME NEW p, Framed(p), p.syn, NEW q, q = Bumped(p)
  PROVE  q \in Segments /\ q.len = 0 /\ ~q.fin /\ q.ackno = p.ackno
<1>1. p \in Segments /\ p.seq \in Int /\ p.len = 0 /\ ~p.fin
  BY DEF Framed, Segments
<1>2. PICK k \in Int : k = p.seq + 1
  BY <1>1
<1>3. q = [p EXCEPT !.seq = k]
  BY <1>2, Zenon DEF Bumped
<1> QED BY <1>1, <1>3 DEF Segments

LEMMA SynAckGoes ==
  ASSUME NEW c, NEW d, Awaits(c, d), c.state = "SYN_SENT", Other(d), Tuned(c),
         NEW p, Arrives(p, c, d), p.syn, p.ack, p.ackno = 1, NEW x, x = RecvSynAck(c, p)
  PROVE  Goes(c, d, x)
<1>1. /\ c \in Agents /\ c.t_seqno = 1 /\ c.maxseq = 1 /\ c.rq = EmptyQueue(-1)
      /\ c.out = <<>>
  BY CallsParts DEF Awaits
<1>2. Framed(p) /\ p.seq = 0 /\ p.len = 0 /\ 1 <= d.maxseq /\ Truthful(p, d)
  BY DEF Arrives, Framed
<1>3. PICK u : u = EmptyQueue(1)
  OBVIOUS
<1>4. PICK n \in Int : n = 1
  OBVIOUS
<1>5. PICK k \in Int : k = 2
  OBVIOUS
<1>6. PICK b \in BOOLEAN : b = TRUE
  OBVIOUS
<1>7. PICK st \in States : st = "ESTABLISHED"
  BY DEF States
<1>8. PICK y : y = Agreeing(c, u, n, k, b, st)
  OBVIOUS
<1>9. Agreed(c, y) /\ y.out = c.out /\ y.last_ack_sent = c.last_ack_sent
  BY <1>1, <1>3, <1>4, <1>5, <1>7, <1>8, AgreeingIs
<1>10. PICK r : r = Packet(n, n, 0, {"ACK"})
  OBVIOUS
<1>11. r \in Segments /\ r.seq = 1 /\ r.ackno = 1 /\ r.len = 0 /\ ~r.syn /\ ~r.fin /\ r.ack
  BY <1>4, <1>10, PacketIs
<1>12. PICK z : z = Sendpacket(y, r)
  OBVIOUS
<1>13. /\ Agreed(c, z) /\ z.out = Append(y.out, r) /\ z.last_ack_sent = 1 /\ z.rq = y.rq
       /\ z.state = y.state
  BY <1>9, <1>11, <1>12, SentpacketIs DEF Agreed
<1>14. z.out = <<r>>
  BY <1>1, <1>9, <1>13
<1>15. d.state # "CLOSED" => 1 <= rcv_nxt(d)
  BY <1>2 DEF Truthful
<1>16. Ready(z, d) /\ Turned(c, z) /\ Tuned(z)
  BY <1>2, <1>11, <1>13, <1>14, <1>15, AgreedReady
<1>17. PICK q : q = Bumped(p)
  OBVIOUS
<1>18. q \in Segments /\ q.len = 0 /\ ~q.fin /\ q.ackno = 1
  BY <1>2, <1>17, BumpedIs
<1>19. x = NewAck(z, q, "SYN_SENT")
  <2>1. PICK o : o = [c EXCEPT !.rq.nxt = p.seq + p.len + 1, !.highest_ack = p.ackno,
                     !.cwnd = 2, !.acknow = TRUE, !.state = "ESTABLISHED"]
    OBVIOUS
  <2>2. p.seq + p.len + 1 = n /\ p.ackno = n
    BY <1>2, <1>4
  <2>3. [c.rq EXCEPT !.nxt = n] = u
    BY <1>1, <1>3, <1>4 DEF EmptyQueue
  <2>4. o = [c EXCEPT !.rq.nxt = n, !.highest_ack = n, !.cwnd = k, !.acknow = b, !.state = st]
    BY <1>5, <1>6, <1>7, <2>1, <2>2, Zenon
  <2>5. o = [c EXCEPT !.rq = [c.rq EXCEPT !.nxt = n], !.highest_ack = n, !.cwnd = k,
                      !.acknow = b, !.state = st]
    BY <1>1, <2>4 DEF Agents
  <2>6. o = y
    BY <1>8, <2>3, <2>5, Zenon DEF Agreeing
  <2>7. o.t_seqno = n /\ rcv_nxt(o) = n
    BY <1>1, <1>3, <1>4, <1>9, <2>6 DEF Agreed, rcv_nxt, EmptyQueue
  <2>8. x = NewAck(Sendpacket(o, Packet(o.t_seqno, rcv_nxt(o), 0, {"ACK"})), q, "SYN_SENT")
    BY <1>17, <2>1, Zenon DEF RecvSynAck, Bumped
  <2> QED BY <1>10, <1>12, <2>6, <2>7, <2>8, Zenon
<1>20. Payload(q, z, d)
  BY <1>18 DEF Payload
<1>21. z.state = "ESTABLISHED" /\ z.highest_ack = 1 /\ z.maxseq = 1
  BY <1>1, <1>13 DEF Agreed
<1>22. Acks(z, d, q.ackno)
  BY <1>15, <1>16, <1>18, <1>21 DEF Acks, DataFlows
<1>23. Settles(z, d, q.ackno, x)
  BY <1>16, <1>19, <1>20, <1>21, <1>22, NewAckLeads DEF Brings, FinGoes
<1>24. Leads(z, d, x)
  BY <1>21, <1>23 DEF Settles
<1>25. Goes(z, d, x)
  BY <1>24, LeadsGoes
<1>26. x \in Agents /\ z \in Agents
  BY <1>13, <1>25 DEF Goes, Able, Well, Agreed
<1> QED BY <1>1, <1>16, <1>25, <1>26, TurnedTransitive DEF Goes

\* A SYN that crosses one's own
LEMMA CrossedGoes ==
  ASSUME NEW c, NEW d, Awaits(c, d), c.state = "SYN_SENT", Other(d), 1 <= d.maxseq,
         NEW x, Well(x), Calling(x, 1), Tuned(x), x.state = "SYN_RECEIVED",
         x.passive = c.passive, x.curseq = c.curseq
  PROVE  Goes(c, d, x)
<1>1. /\ c \in Agents /\ Ints(c) /\ c.maxseq = 1 /\ c.highest_ack = -1 /\ 0 <= c.curseq
      /\ ~FinSent(c) /\ Top(c) = 1 /\ rcv_nxt(c) = -1
  BY CallsParts
<1>2. x \in Agents /\ rcv_nxt(x) = 1 /\ x.maxseq = 1 /\ x.highest_ack = -1 /\ x.rq = EmptyQueue(1)
  BY DEF Well, Calling, rcv_nxt, EmptyQueue
<1>3. Top(x) = 1 /\ ~FinSent(x)
  BY <1>1, <1>2 DEF Top, FinSent, MinOf, Ints
<1>4. Turned(c, x)
  BY <1>1, <1>2, <1>3 DEF Turned, Grown
<1>5. Side(d, x)
  BY <1>1, <1>2, <1>4, SideTurned DEF Awaits, Pair, Other, Well
<1>6. d.state # "CLOSED" => x.highest_ack <= rcv_nxt(d)
  BY <1>1, <1>2 DEF Awaits, Pair, Side
<1>7. Side(x, d)
  BY <1>2, <1>6, EmptySide
<1>8. Able(x)
  BY DEF Able, Phase, Tight, DataFlows, FinGoes
<1> QED BY <1>4, <1>5, <1>7, <1>8 DEF Goes, Pair

LEMMA RecvSynGoes ==
  ASSUME NEW c, NEW d, Awaits(c, d), c.state = "SYN_SENT", Other(d), Tuned(c),
         NEW p, Arrives(p, c, d), p.syn, NEW x, x = RecvSyn(c, p)
  PROVE  Goes(c, d, x)
<1>1. /\ c \in Agents /\ c.t_seqno = 1 /\ c.maxseq = 1 /\ c.rq = EmptyQueue(-1)
      /\ c.out = <<>> /\ Well(c) /\ c.highest_ack = -1 /\ 0 <= c.curseq /\ rcv_nxt(c) = -1
  BY CallsParts DEF Awaits
<1>2. Framed(p) /\ p.seq = 0 /\ p.len = 0 /\ 1 <= d.maxseq
  BY DEF Arrives, Framed
<1>3. PICK u : u = EmptyQueue(1)
  OBVIOUS
<1>4. PICK n \in Int : n = 0
  OBVIOUS
<1>5. PICK b \in BOOLEAN : b = TRUE
  OBVIOUS
<1>6. PICK r \in BOOLEAN : r = FALSE
  OBVIOUS
<1>7. PICK st \in States : st = "SYN_RECEIVED"
  BY DEF States
<1>8. PICK y : y = Answering(c, u, n, b, r, st)
  OBVIOUS
<1>9. TakesSyn(c, y) /\ y.acknow = b
  BY <1>1, <1>3, <1>4, <1>7, <1>8, AnsweringIs
<1>10. y.acknow
  BY <1>5, <1>9, Zenon
<1>11. PICK q : q = Bumped(p)
  OBVIOUS
<1>12. q \in Segments /\ q.len = 0 /\ ~q.fin
  BY <1>2, <1>11, BumpedIs
<1>13. PICK z : z = Replied(y)
  OBVIOUS
<1>14. /\ Well(z) /\ Calling(z, 1) /\ Tuned(z) /\ z.state = "SYN_RECEIVED"
       /\ z.passive = c.passive /\ z.curseq = c.curseq
  BY <1>1, <1>9, <1>13, SynTaken
<1>15. x = z
  <2>1. PICK o : o = [c EXCEPT !.rq.nxt = p.seq + p.len + 1, !.acknow = TRUE, !.rtx = FALSE,
                               !.state = "SYN_RECEIVED", !.t_seqno = @ - 1]
    OBVIOUS
  <2>2. PICK m \in Int : m = 1
    OBVIOUS
  <2>3. p.seq + p.len + 1 = m /\ c.t_seqno - 1 = n
    BY <1>1, <1>2, <1>4, <2>2
  <2>4. [c.rq EXCEPT !.nxt = m] = u
    BY <1>1, <1>3, <2>2 DEF EmptyQueue
  <2>5. o = [c EXCEPT !.rq.nxt = m, !.acknow = b, !.rtx = r, !.state = st, !.t_seqno = n]
    BY <1>5, <1>6, <1>7, <2>1, <2>3, Zenon
  <2>6. o = [c EXCEPT !.rq = [c.rq EXCEPT !.nxt = m], !.t_seqno = n, !.acknow = b, !.rtx = r,
                      !.state = st]
    BY <1>1, <2>5 DEF Agents
  <2>7. o = y
    BY <1>8, <2>4, <2>6, Zenon DEF Answering
  <2>8. x = Step6(y, q, FALSE)
    BY <1>11, <2>1, <2>7, Zenon DEF RecvSyn, Bumped
  <2>9. y.state = "SYN_RECEIVED"
    BY <1>9 DEF TakesSyn
  <2>10. Step6(y, q, FALSE) = z
    BY <1>10, <1>12, <1>13, <1>14, <2>9, SynStep6, Zenon
  <2> QED BY <2>8, <2>10, Zenon
<1> QED BY <1>2, <1>14, <1>15, CrossedGoes

LEMMA SynSentRecv ==
  ASSUME NEW c, NEW d, Awaits(c, d), c.state = "SYN_SENT", Other(d), Tuned(c),
         NEW p, Arrives(p, c, d), NEW x, x = Recv(c, p)
  PROVE  Goes(c, d, x)
<1>1. c \in Agents /\ ~c.delack /\ c.maxseq = 1
  BY CallsParts
<1>2. PICK y : y = [c EXCEPT !.dtimer = TRUE]
  OBVIOUS
<1>3. Same(c, y)
  BY <1>1, <1>2, TimedSame
<1>4. /\ y.rq = c.rq /\ y.state = c.state /\ y.maxseq = c.maxseq /\ y.recover = c.recover
      /\ y.t_seqno = c.t_seqno /\ Alike(c, y) /\ y \in Agents /\ Tuned(y)
  BY <1>3 DEF Same, Alike, Tuned
<1>5. ~y.delack
  BY <1>1, <1>3, Zenon DEF Same
<1>6. Goes(c, d, y) /\ Awaits(y, d)
  BY <1>4, <1>5, WaitGoes
<1>7. Arrives(p, y, d)
  BY <1>4, SameArrives
<1>8. x = RecvSynSent(y, p)
  <2>1. ~Predicted(c, p)
    BY DEF Predicted
  <2> QED BY <1>2, <2>1, Zenon DEF Recv
<1>9. 1 <= d.maxseq /\ Truthful(p, d) /\ (p.ack => 1 <= p.ackno) /\ p.ackno \in Int
  BY DEF Arrives, Framed, Segments
<1>10. p.ack => p.ackno = 1
  <2>1. rcv_nxt(d) <= 1
    BY <1>1 DEF Awaits, Pair, Side, Hears
  <2>2. rcv_nxt(d) \in Int
    BY AgentInts DEF Other, Well, Ints
  <2> QED BY <1>9, <2>1, <2>2 DEF Truthful
<1>11. CASE ~p.syn
  <2>1. ~(p.ack /\ (p.ackno <= ISS \/ p.ackno > y.maxseq))
    BY <1>1, <1>4, <1>10 DEF ISS
  <2>2. x = y
    BY <1>8, <1>11, <2>1, Zenon DEF RecvSynSent
  <2> QED BY <1>6, <2>2
<1>12. CASE p.syn
  <2>1. ~(p.ack /\ (p.ackno <= ISS \/ p.ackno > y.maxseq))
    BY <1>1, <1>4, <1>10 DEF ISS
  <2>2. p.ack => x = RecvSynAck(y, p)
    BY <1>8, <1>12, <2>1, Zenon DEF RecvSynSent
  <2>3. ~p.ack => x = RecvSyn(y, p)
    BY <1>8, <1>12, <2>1, Zenon DEF RecvSynSent
  <2>4. y.state = "SYN_SENT"
    BY <1>4
  <2>5. Goes(y, d, x)
    BY <1>4, <1>6, <1>7, <1>10, <1>12, <2>2, <2>3, <2>4, SynAckGoes, RecvSynGoes
  <2>6. x \in Agents
    BY <2>5 DEF Goes, Able, Well
  <2> QED BY <1>1, <1>4, <1>6, <2>5, <2>6, TurnedTransitive DEF Goes
<1> QED BY <1>11, <1>12

LEMMA SynReceivedRecv ==
  ASSUME NEW c, NEW d, Awaits(c, d), c.state = "SYN_RECEIVED", Other(d), Tuned(c),
         NEW p, Arrives(p, c, d), NEW x, x = Recv(c, p)
  PROVE  Goes(c, d, x)
<1>1. c \in Agents /\ ~c.delack
  BY CallsParts
<1>2. PICK y : y = [c EXCEPT !.dtimer = TRUE]
  OBVIOUS
<1>3. Same(c, y)
  BY <1>1, <1>2, TimedSame
<1>4. /\ y.rq = c.rq /\ y.state = c.state /\ y.maxseq = c.maxseq /\ y.recover = c.recover
      /\ y.t_seqno = c.t_seqno /\ Alike(c, y) /\ y \in Agents /\ Tuned(y)
  BY <1>3 DEF Same, Alike, Tuned
<1>5. ~y.delack
  BY <1>1, <1>3, Zenon DEF Same
<1>6. Goes(c, d, y) /\ Awaits(y, d)
  BY <1>4, <1>5, WaitGoes
<1>7. Arrives(p, y, d)
  BY <1>4, SameArrives
<1>8. x = RecvSynchronized(y, p)
  <2>1. ~Predicted(c, p)
    BY DEF Predicted
  <2> QED BY <1>2, <2>1, Zenon DEF Recv
<1>9. Goes(y, d, x)
  BY <1>4, <1>6, <1>7, <1>8, OpeningReceives
<1>10. x \in Agents
  BY <1>9 DEF Goes, Able, Well
<1> QED BY <1>1, <1>4, <1>6, <1>9, <1>10, TurnedTransitive DEF Goes

\* A SYN for an agent that listens
Accepts(c, x) ==
  /\ Well(x) /\ Calling(x, 1) /\ Tuned(x) /\ x.state = "SYN_RECEIVED"
  /\ x.passive = c.passive

LEMMA ListenRecv ==
  ASSUME NEW c, Well(c), c.state = "LISTEN", Blank(c), Tuned(c), c.out = <<>>,
         NEW p, Framed(p), ~p.ack, NEW x, x = Recv(c, p)
  PROVE  Same(c, x) \/ Accepts(c, x)
<1>1. c \in Agents /\ Ints(c) /\ rcv_nxt(c) = -1
  BY AgentInts DEF Well, Blank, rcv_nxt, EmptyQueue
<1>2. PICK w : w = [c EXCEPT !.dtimer = TRUE]
  OBVIOUS
<1>3. Same(c, w)
  BY <1>1, <1>2, TimedSame
<1>4. /\ w.rq = EmptyQueue(-1) /\ w.state = "LISTEN" /\ w.maxseq = c.maxseq /\ w.recover = c.recover
      /\ w.t_seqno = 0 /\ Alike(c, w) /\ w \in Agents /\ Tuned(w) /\ w.rtx \in BOOLEAN
      /\ w.out = <<>> /\ w.highest_ack = -1 /\ w.curseq = 0 /\ w.passive = c.passive
  BY <1>3 DEF Same, Alike, Tuned, Blank, Agents
<1>5. x = RecvListen(w, p)
  <2>1. ~Predicted(c, p)
    BY DEF Predicted
  <2> QED BY <1>2, <2>1, Zenon DEF Recv
<1>6. CASE ~p.syn
  <2>1. x = w
    BY <1>5, <1>6, Zenon DEF RecvListen
  <2> QED BY <1>3, <2>1
<1>7. CASE p.syn
  <2>1. p.seq = 0 /\ p.len = 0
    BY <1>7 DEF Framed
  <2>3. PICK u : u = EmptyQueue(1)
    OBVIOUS
  <2>4. PICK n \in Int : n = 0
    OBVIOUS
  <2>5. PICK b \in BOOLEAN : b = TRUE
    OBVIOUS
  <2>6. PICK r \in BOOLEAN : r = w.rtx
    BY <1>4
  <2>7. PICK st \in States : st = "SYN_RECEIVED"
    BY DEF States
  <2>8. PICK y : y = Answering(w, u, n, b, r, st)
    OBVIOUS
  <2>9. TakesSyn(w, y) /\ y.acknow = b
    BY <1>4, <2>3, <2>4, <2>7, <2>8, AnsweringIs
  <2>10. y.acknow
    BY <2>5, <2>9, Zenon
  <2>11. PICK q : q = Bumped(p)
    OBVIOUS
  <2>12. q \in Segments /\ q.len = 0 /\ ~q.fin
    BY <1>7, <2>11, BumpedIs
  <2>13. PICK z : z = Replied(y)
    OBVIOUS
  <2>14. Well(w)
    <3>1. Len(w.out) = 0
      BY <1>4
    <3>2. rcv_nxt(w) = rcv_nxt(c) /\ w.last_ack_sent = c.last_ack_sent /\ w.curseq = c.curseq
      BY <1>3 DEF Same, Alike, rcv_nxt
    <3> QED BY <1>4, <3>1, <3>2 DEF Well, OutFrom, Fits
  <2>15. w.maxseq <= 1 /\ 0 <= w.curseq /\ rcv_nxt(w) <= 1
    BY <1>1, <1>4 DEF Blank, rcv_nxt, EmptyQueue, Ints
  <2>16. /\ Well(z) /\ Calling(z, 1) /\ Tuned(z) /\ z.state = "SYN_RECEIVED"
         /\ z.passive = w.passive
    BY <1>4, <2>9, <2>13, <2>14, <2>15, SynTaken
  <2>17. x = z
    <3>1. PICK o : o = [w EXCEPT !.t_seqno = ISS, !.rq.nxt = p.seq + p.len + 1,
                                 !.acknow = TRUE, !.state = "SYN_RECEIVED"]
      OBVIOUS
    <3>2. PICK m \in Int : m = 1
      OBVIOUS
    <3>3. p.seq + p.len + 1 = m /\ ISS = n
      BY <2>1, <2>4, <3>2 DEF ISS
    <3>4. [w.rq EXCEPT !.nxt = m] = u
      BY <1>4, <2>3, <3>2 DEF EmptyQueue
    <3>5. o = [w EXCEPT !.t_seqno = n, !.rq.nxt = m, !.acknow = b, !.state = st]
      BY <2>5, <2>7, <3>1, <3>3, Zenon
    <3>6. o = [w EXCEPT !.rq = [w.rq EXCEPT !.nxt = m], !.t_seqno = n, !.acknow = b, !.rtx = w.rtx,
                        !.state = st]
      BY <1>4, <3>5 DEF Agents
    <3>7. o = y
      BY <2>6, <2>8, <3>4, <3>6, Zenon DEF Answering
    <3>8. x = Step6(y, q, FALSE)
      BY <1>5, <1>7, <2>11, <3>1, <3>7, Zenon DEF RecvListen, Bumped
    <3>9. y.state = "SYN_RECEIVED"
      BY <2>9 DEF TakesSyn
    <3>10. Step6(y, q, FALSE) = z
      BY <2>10, <2>12, <2>13, <2>16, <3>9, SynStep6, Zenon
    <3> QED BY <3>8, <3>10, Zenon
  <2> QED BY <1>4, <2>16, <2>17 DEF Accepts
<1> QED BY <1>6, <1>7

\* A segment for an agent that was reset
LEMMA ClosedRecv ==
  ASSUME NEW c, Well(c), c.state = "CLOSED", Blank(c), Tuned(c), c.out = <<>>,
         NEW p, NEW x, x = Recv(c, p)
  PROVE  Well(x) /\ Blank(x) /\ Tuned(x) /\ x.state = "CLOSED" /\ x.passive = c.passive /\ Idle(x)
<1>1. c \in Agents /\ Ints(c) /\ Len(c.out) = 0
  BY AgentInts DEF Well
<1>2. x = RecvClosed(c, p)
  <2>1. ~Predicted(c, p)
    BY DEF Predicted
  <2> QED BY <2>1, Zenon DEF Recv
<1>3. CASE x = c
  BY <1>1, <1>3 DEF Idle
<1>4. CASE x = DropAfterAck(c)
  <2>1. PICK y : y = [c EXCEPT !.acknow = TRUE]
    OBVIOUS
  <2>2. Same(c, y)
    BY <1>1, <2>1, OwedSame
  <2>3. y \in Agents /\ Alike(c, y) /\ y.t_seqno = c.t_seqno /\ y.recover = c.recover /\ Tuned(y)
    BY <2>2 DEF Same, Tuned
  <2>4. Blank(y)
    BY <2>2 DEF Same, Alike, Blank
  <2>5. Well(y)
    <3>1. Len(y.out) = 0
      BY <1>1, <2>3 DEF Alike
    <3>2. Fits(y)
      BY <2>3 DEF Well, Fits, Alike, rcv_nxt
    <3> QED BY <2>3, <3>1, <3>2 DEF Well, OutFrom
  <2>6. y.state = "CLOSED" /\ y.passive = c.passive /\ Idle(y)
    BY <1>1, <2>3 DEF Alike, Idle
  <2>7. Quietly(y)
    BY <2>4, <2>6 DEF Quietly
  <2>8. PICK z : z = SendMuch(y, TRUE)
    OBVIOUS
  <2>9. Quieted(y, z)
    BY <2>5, <2>7, <2>8, SendQuiet
  <2>10. x = z
    BY <1>4, <2>1, <2>8, Zenon DEF DropAfterAck
  <2>11. Tuned(z)
    BY <2>3, <2>9 DEF Quieted, Keeps, Tuned
  <2> QED BY <2>4, <2>6, <2>9, <2>10, <2>11 DEF Quieted, Keeps
<1> QED BY <1>2, <1>3, <1>4, Zenon DEF RecvClosed

-----------------------------------------------------------------------------
(* The timers and the application *)

\* What timeout_action sets
Recovers(c, m, b) == [[c EXCEPT !.recover = m] EXCEPT !.rtx = b]
Rewound(c, m, k, f, r, n, j) ==
  [[c EXCEPT !.recover = m] EXCEPT
     !.cwnd = k, !.lastdup = f, !.rtx = r, !.t_seqno = n, !.fastrecov = f, !.dupacks = j]

LEMMA RecoversIs ==
  ASSUME NEW c \in Agents, NEW m \in Int, NEW b \in BOOLEAN, NEW x, x = Recovers(c, m, b)
  PROVE  /\ x \in Agents /\ Alike(c, x) /\ x.t_seqno = c.t_seqno /\ x.recover = m
         /\ x.cwnd = c.cwnd /\ x.dupacks = c.dupacks /\ (x.delack <=> c.delack)
<1>1. x \in Agents
  BY DEF Agents, Recovers
<1>2. Alike(c, x)
  BY DEF Agents, Recovers, Alike
<1>3. x.t_seqno = c.t_seqno /\ x.recover = m /\ x.cwnd = c.cwnd /\ x.dupacks = c.dupacks
  BY DEF Agents, Recovers
<1>4. x.delack = c.delack
  BY DEF Agents, Recovers
<1> QED BY <1>1, <1>2, <1>3, <1>4, Zenon

\* Between two steps: open, or waiting for the answer to the SYN
Underway(c, d) == (Ready(c, d) /\ c.out = <<>>) \/ Awaits(c, d)

LEMMA TimeoutIs ==
  ASSUME NEW c \in Agents, NEW m \in Int, m = c.maxseq, NEW n \in Int,
         n = IF c.highest_ack < 0 THEN ISS ELSE c.highest_ack, NEW x, x = TimeoutAction(c)
  PROVE  IF c.passive THEN \E b \in BOOLEAN : x = Recovers(c, m, b)
         ELSE \E k, j \in Int, f, r \in BOOLEAN :
                k = 1 /\ j = 0 /\ x = Replied(Rewound(c, m, k, f, r, n, j))
<1>1. PICK no \in BOOLEAN : no = FALSE
  OBVIOUS
<1>2. PICK yes \in BOOLEAN : yes = TRUE
  OBVIOUS
<1>3. PICK k \in Int : k = 1
  OBVIOUS
<1>4. PICK j \in Int : j = 0
  OBVIOUS
<1>5. CASE c.passive
  <2>1. x = [[c EXCEPT !.recover = c.maxseq] EXCEPT !.rtx = FALSE]
    BY <1>5, Zenon DEF TimeoutAction
  <2>2. x = Recovers(c, m, no)
    BY <1>1, <2>1, Zenon DEF Recovers
  <2> QED BY <1>1, <1>5, <2>2, Zenon
<1>6. CASE ~c.passive
  <2>1. x = SendMuch([[c EXCEPT !.recover = c.maxseq] EXCEPT
                        !.cwnd = 1, !.lastdup = FALSE, !.rtx = TRUE,
                        !.t_seqno = IF c.highest_ack < 0 THEN ISS ELSE c.highest_ack,
                        !.fastrecov = FALSE, !.dupacks = 0], TRUE)
    BY <1>6, Zenon DEF TimeoutAction
  <2>2. x = Replied(Rewound(c, m, k, no, yes, n, j))
    BY <1>1, <1>2, <1>3, <1>4, <2>1, Zenon DEF Rewound, Replied
  <2> QED BY <1>1, <1>2, <1>3, <1>4, <1>6, <2>2, Zenon
<1> QED BY <1>5, <1>6

LEMMA TimeoutGoes ==
  ASSUME NEW c, NEW d, Underway(c, d), Other(d), Tuned(c), NEW x, x = TimeoutAction(c)
  PROVE  Goes(c, d, x) /\ (c.state = "SYN_SENT" => x.state = "SYN_SENT")
<1>1. c \in Agents /\ Ints(c) /\ c.out = <<>>
  BY ReadyParts, CallsParts DEF Underway, Awaits
<1>2. PICK m \in Int : m = c.maxseq
  BY <1>1 DEF Ints
<1>3. PICK n \in Int : n = IF c.highest_ack < 0 THEN ISS ELSE c.highest_ack
  BY <1>1 DEF Ints, ISS
<1>4. CASE c.passive
  <2>1. PICK b \in BOOLEAN : x = Recovers(c, m, b)
    BY <1>1, <1>2, <1>3, <1>4, TimeoutIs
  <2>2. /\ x \in Agents /\ Alike(c, x) /\ x.t_seqno = c.t_seqno /\ x.recover = m
        /\ x.cwnd = c.cwnd /\ x.dupacks = c.dupacks /\ (x.delack <=> c.delack)
    BY <1>1, <2>1, RecoversIs
  <2>3. Tuned(x)
    BY <2>2 DEF Tuned
  <2>4. CASE Ready(c, d)
    <3>1. c.state # "SYN_SENT"
      BY <2>4, ReadyParts DEF DataFlows, FinGoes
    <3> QED BY <1>2, <2>2, <2>3, <2>4, <3>1, LikeReady DEF Goes, Ready
  <2>5. CASE Awaits(c, d)
    <3>1. ~x.delack
      BY <2>2, <2>5, CallsParts
    <3> QED BY <1>2, <2>2, <2>3, <2>5, <3>1, WaitGoes DEF Alike
  <2> QED BY <2>4, <2>5 DEF Underway
<1>5. CASE ~c.passive
  <2>0. c \in Agents
    BY <1>1
  <2>1. PICK k, j \in Int, f, r \in BOOLEAN :
          k = 1 /\ j = 0 /\ x = Replied(Rewound(c, m, k, f, r, n, j))
    BY <1>1, <1>2, <1>3, <1>5, TimeoutIs
  <2>2. PICK y : y = Rewound(c, m, k, f, r, n, j)
    OBVIOUS
  <2>3. /\ y \in Agents /\ Alike(c, y) /\ y.t_seqno = n /\ y.recover = m
        /\ y.cwnd = k /\ y.dupacks = j
    <3>1. y \in Agents
      BY <2>0, <2>2, ZenonT(30) DEF Agents, Rewound
    <3>2. Alike(c, y)
      BY <2>0, <2>2 DEF Agents, Rewound, Alike
    <3>3. y.t_seqno = n /\ y.recover = m /\ y.cwnd = k /\ y.dupacks = j
      BY <2>0, <2>2 DEF Agents, Rewound
    <3> QED BY <3>1, <3>2, <3>3
  <2>4. Tuned(y)
    BY <2>1, <2>3, Bounds DEF Tuned
  <2>5. x = SendMuch(y, TRUE)
    BY <2>1, <2>2, Zenon DEF Replied
  <2>6. CASE Ready(c, d)
    <3>1. y.t_seqno = c.highest_ack
      BY <1>1, <1>3, <2>3, <2>6 DEF Ready, Ints
    <3>2. Ready(y, d) /\ Turned(c, y)
      BY <1>2, <2>3, <2>6, <3>1, LikeReady
    <3>3. Leads(c, d, y)
      BY <2>4, <3>2 DEF Leads
    <3>4. Leads(y, d, x)
      BY <2>4, <2>5, <3>2, SendNow
    <3>5. c.state # "SYN_SENT"
      BY <2>6, ReadyParts DEF DataFlows, FinGoes
    <3> QED BY <1>1, <3>3, <3>4, <3>5, LeadsTransitive, LeadsGoes
  <2>7. CASE Awaits(c, d)
    <3>1. /\ c.maxseq = 1 /\ c.highest_ack = -1 /\ 0 <= c.curseq /\ ~FinSent(c) /\ Top(c) = 1
          /\ c.state = "SYN_SENT" => c.rq = EmptyQueue(-1) /\ Calling(c, -1) /\ rcv_nxt(c) = -1
          /\ c.state = "SYN_RECEIVED" => c.rq = EmptyQueue(1) /\ Calling(c, 1) /\ rcv_nxt(c) = 1
          /\ c.state \in {"SYN_SENT", "SYN_RECEIVED"}
      BY <2>7, CallsParts DEF Awaits
    <3>2. y.t_seqno = 0 /\ Well(y) /\ rcv_nxt(y) = rcv_nxt(c)
      BY <1>2, <1>3, <2>3, <2>7, <3>1, AlikeWell DEF Awaits, ISS
    <3>3. PICK i \in Int : i = IF c.state = "SYN_SENT" THEN -1 ELSE 1
      OBVIOUS
    <3>4. Opener(y, i)
      BY <1>1, <2>3, <3>1, <3>2, <3>3 DEF Opener, Alike
    <3>5. Well(x) /\ Calling(x, i) /\ Opened(y, x)
      BY <2>5, <3>2, <3>4, SendSyn
    <3>6. /\ x \in Agents /\ x.state = c.state /\ x.passive = c.passive /\ x.curseq = c.curseq
          /\ x.maxseq = 1 /\ x.highest_ack = -1 /\ x.rq = c.rq /\ Tuned(x)
      BY <2>3, <2>4, <3>1, <3>3, <3>5 DEF Well, Opened, Alike, Calling, Tuned
    <3>7. rcv_nxt(x) = rcv_nxt(c)
      BY <3>6 DEF rcv_nxt
    <3>8. Top(x) = Top(c) /\ ~FinSent(x)
      BY <3>1, <3>6 DEF Top, FinSent
    <3>9. Turned(c, x)
      BY <1>1, <3>1, <3>6, <3>7, <3>8 DEF Turned, Grown, Ints
    <3>10. Side(d, x)
      BY <1>1, <2>7, <3>1, <3>6, <3>9, SideTurned DEF Awaits, Pair, Other, Well
    <3>11. Side(x, d)
      BY <2>7, <3>1, <3>6, SideSame DEF Awaits, Pair
    <3>12. Able(x)
      BY <3>1, <3>3, <3>5, <3>6 DEF Able, Phase, Tight, DataFlows, FinGoes
    <3> QED BY <3>6, <3>9, <3>10, <3>11, <3>12 DEF Goes, Pair
  <2> QED BY <2>6, <2>7 DEF Underway
<1> QED BY <1>4, <1>5

\* The delayed acknowledgement
Owing(c, b, f) == [c EXCEPT !.delack = b, !.acknow = f]

LEMMA OwingIs ==
  ASSUME NEW c \in Agents, NEW b \in BOOLEAN, NEW f \in BOOLEAN, NEW x, x = Owing(c, b, f)
  PROVE  /\ x \in Agents /\ Alike(c, x) /\ x.t_seqno = c.t_seqno /\ x.recover = c.recover
         /\ x.cwnd = c.cwnd /\ x.dupacks = c.dupacks
<1>1. x \in Agents
  BY DEF Agents, Owing
<1>2. Alike(c, x)
  BY DEF Agents, Owing, Alike
<1>3. /\ x.t_seqno = c.t_seqno /\ x.recover = c.recover
      /\ x.cwnd = c.cwnd /\ x.dupacks = c.dupacks
  BY DEF Agents, Owing
<1> QED BY <1>1, <1>2, <1>3

LEMMA DelAckLeads ==
  ASSUME NEW c, NEW d, Ready(c, d), Other(d), Tuned(c),
         NEW x, x = SendMuch([c EXCEPT !.delack = FALSE, !.acknow = TRUE], TRUE)
  PROVE  Leads(c, d, x)
<1>1. c \in Agents
  BY ReadyParts
<1>2. PICK b \in BOOLEAN : b = FALSE
  OBVIOUS
<1>3. PICK f \in BOOLEAN : f = TRUE
  OBVIOUS
<1>4. PICK y : y = Owing(c, b, f)
  OBVIOUS
<1>5. /\ y \in Agents /\ Alike(c, y) /\ y.t_seqno = c.t_seqno /\ y.recover = c.recover
      /\ y.cwnd = c.cwnd /\ y.dupacks = c.dupacks
  BY <1>1, <1>4, OwingIs
<1>6. Tuned(y)
  BY <1>5 DEF Tuned
<1>7. Leads(c, d, y)
  BY <1>5, <1>6, LikeLeads
<1>8. x = SendMuch(y, TRUE)
  BY <1>2, <1>3, <1>4, Zenon DEF Owing
<1>9. Leads(y, d, SendMuch(y, TRUE))
  BY <1>6, <1>7, SendNow DEF Leads
<1> QED BY <1>1, <1>7, <1>8, <1>9, LeadsTransitive

\* connect, with n bytes to send
Starts(c, x) ==
  /\ Well(x) /\ Calling(x, -1) /\ Tuned(x) /\ x.state = "SYN_SENT"
  /\ x.passive = c.passive

Loaded(c, n, st) == [[c EXCEPT !.curseq = n] EXCEPT !.state = st]

LEMMA LoadedIs ==
  ASSUME NEW c \in Agents, NEW n \in Int, NEW st \in States, NEW x, x = Loaded(c, n, st)
  PROVE  /\ x \in Agents /\ x.state = st /\ x.curseq = n /\ x.passive = c.passive
         /\ x.maxseq = c.maxseq /\ x.highest_ack = c.highest_ack /\ x.rq = c.rq
         /\ x.t_seqno = c.t_seqno /\ x.last_ack_sent = c.last_ack_sent /\ x.out = c.out
         /\ x.recover = c.recover /\ x.cwnd = c.cwnd /\ x.dupacks = c.dupacks
<1>1. x \in Agents
  BY DEF Agents, Loaded
<1>2. x.state = st /\ x.curseq = n
  BY DEF Agents, Loaded
<1>3. /\ x.passive = c.passive
      /\ x.maxseq = c.maxseq /\ x.highest_ack = c.highest_ack /\ x.rq = c.rq
      /\ x.t_seqno = c.t_seqno /\ x.last_ack_sent = c.last_ack_sent /\ x.out = c.out
      /\ x.recover = c.recover /\ x.cwnd = c.cwnd /\ x.dupacks = c.dupacks
  BY DEF Agents, Loaded
<1> QED BY <1>1, <1>2, <1>3

ResetIs(c, x) ==
  /\ x \in Agents /\ Blank(x) /\ Tuned(x) /\ Fits(x) /\ x.state = c.state
  /\ x.passive = c.passive /\ x.out = c.out

LEMMA ResetFresh ==
  ASSUME NEW c \in Agents, NEW x, x = Reset(c)
  PROVE  ResetIs(c, x)
<1>1. c.state \in States /\ c.passive \in BOOLEAN /\ c.out \in Seq(Segments)
  BY AgentFields DEF AgentParts
<1>2. x = Renewed(c.state, c.passive, c.out)
  BY Zenon DEF Reset, Renewed
<1>3. /\ x \in Agents /\ Blank(x) /\ Tuned(x) /\ Fits(x) /\ x.state = c.state
      /\ x.passive = c.passive /\ x.out = c.out
  BY <1>1, <1>2, FreshIs
<1> QED BY <1>3, Zenon DEF ResetIs

Connecting(c, n) == Connect([Reset(c) EXCEPT !.curseq = ISS + n])

LEMMA ConnectStarts ==
  ASSUME NEW c \in Agents, c.out = <<>>, NEW n \in Int, 0 <= n, n <= Most,
         NEW x, x = Connecting(c, n)
  PROVE  Starts(c, x)
<1>2. PICK r : r = Reset(c)
  OBVIOUS
<1>13. ResetIs(c, r)
  BY <1>2, ResetFresh
<1>3. r \in Agents /\ Blank(r) /\ Tuned(r) /\ Fits(r) /\ r.passive = c.passive /\ r.out = <<>>
  BY <1>13, Zenon DEF ResetIs
<1>4. Reset(c) = r
  BY <1>2, Zenon
<1>5. PICK st \in States : st = "SYN_SENT"
  BY DEF States
<1>6. PICK y : y = Loaded(r, n, st)
  OBVIOUS
<1>7. /\ y \in Agents /\ y.state = "SYN_SENT" /\ y.curseq = n /\ y.passive = c.passive
      /\ y.maxseq = r.maxseq /\ y.highest_ack = r.highest_ack /\ y.rq = r.rq
      /\ y.t_seqno = r.t_seqno /\ y.last_ack_sent = r.last_ack_sent /\ y.out = <<>>
      /\ y.recover = r.recover /\ y.cwnd = r.cwnd /\ y.dupacks = r.dupacks
  BY <1>3, <1>5, <1>6, LoadedIs
<1>8. x = SendMuch(y, TRUE)
  <2>1. ISS + n = n
    BY DEF ISS
  <2> QED BY <1>4, <1>5, <1>6, <2>1, Zenon DEF Connecting, Connect, Loaded
<1>9. Well(y)
  <2>1. Len(y.out) = 0
    BY <1>7
  <2>2. rcv_nxt(y) = rcv_nxt(r)
    BY <1>7 DEF rcv_nxt
  <2> QED BY <1>3, <1>7, <2>1, <2>2 DEF Well, OutFrom, Fits
<1>10. Opener(y, -1)
  <2>1. r.maxseq \in Int
    BY <1>3, AgentInts DEF Ints
  <2> QED BY <1>3, <1>7, <2>1 DEF Opener, Blank
<1>11. PICK k \in Int : k = -1
  OBVIOUS
<1>12. Well(x) /\ Calling(x, k) /\ Opened(y, x)
  BY <1>8, <1>9, <1>10, <1>11, SendSyn
<1> QED BY <1>3, <1>7, <1>11, <1>12 DEF Starts, Opened, Tuned

\* More to send
Extended(c, m, b) == [c EXCEPT !.curseq = m, !.close_on_empty = b]

LEMMA ExtendedIs ==
  ASSUME NEW c \in Agents, NEW m \in Int, NEW b \in BOOLEAN, NEW x, x = Extended(c, m, b)
  PROVE  /\ x \in Agents /\ x.state = c.state /\ x.curseq = m /\ x.passive = c.passive
         /\ x.maxseq = c.maxseq /\ x.highest_ack = c.highest_ack /\ x.rq = c.rq
         /\ x.t_seqno = c.t_seqno /\ x.last_ack_sent = c.last_ack_sent /\ x.out = c.out
         /\ x.recover = c.recover /\ x.cwnd = c.cwnd /\ x.dupacks = c.dupacks
         /\ (x.delack <=> c.delack)
<1>1. x \in Agents
  BY DEF Agents, Extended
<1>2. x.curseq = m
  BY DEF Agents, Extended
<1>3. /\ x.state = c.state /\ x.passive = c.passive
      /\ x.maxseq = c.maxseq /\ x.highest_ack = c.highest_ack /\ x.rq = c.rq
      /\ x.t_seqno = c.t_seqno /\ x.last_ack_sent = c.last_ack_sent /\ x.out = c.out
      /\ x.recover = c.recover /\ x.cwnd = c.cwnd /\ x.dupacks = c.dupacks
  BY DEF Agents, Extended
<1>4. x.delack = c.delack
  BY DEF Agents, Extended
<1> QED BY <1>1, <1>2, <1>3, <1>4

\* sendmsg before the SYN is answered, and when data flows
LEMMA ExtendWaits ==
  ASSUME NEW c, NEW d, Awaits(c, d), Other(d), Tuned(c), NEW m \in Int, c.curseq <= m, m <= Most,
         NEW b \in BOOLEAN, NEW x, x = Extended(c, m, b)
  PROVE  Goes(c, d, x) /\ x.state = c.state
<1>1. /\ c \in Agents /\ Ints(c) /\ c.maxseq = 1 /\ c.highest_ack = -1 /\ c.t_seqno = 1
      /\ 0 <= c.curseq /\ ~c.delack /\ ~FinSent(c) /\ Top(c) = 1 /\ c.out = <<>> /\ Well(c)
      /\ Phase(c) /\ c.state \in {"SYN_SENT", "SYN_RECEIVED"}
  BY CallsParts DEF Awaits
<1>2. /\ x \in Agents /\ x.state = c.state /\ x.curseq = m /\ x.passive = c.passive
      /\ x.maxseq = c.maxseq /\ x.highest_ack = c.highest_ack /\ x.rq = c.rq
      /\ x.t_seqno = c.t_seqno /\ x.last_ack_sent = c.last_ack_sent /\ x.out = c.out
      /\ x.recover = c.recover /\ x.cwnd = c.cwnd /\ x.dupacks = c.dupacks
  BY <1>1, ExtendedIs
<1>3. ~x.delack
  <2>1. x.delack <=> c.delack
    BY <1>1, ExtendedIs
  <2> QED BY <1>1, <2>1
<1>4. rcv_nxt(x) = rcv_nxt(c)
  BY <1>2 DEF rcv_nxt
<1>5. Top(x) = 1 /\ ~FinSent(x)
  BY <1>1, <1>2 DEF Top, FinSent, MinOf, Ints
<1>6. Turned(c, x)
  BY <1>1, <1>2, <1>4, <1>5 DEF Turned, Grown, Ints
<1>7. Well(x)
  <2>1. Len(x.out) = 0
    BY <1>1, <1>2
  <2> QED BY <1>1, <1>2, <1>4, <2>1 DEF Well, OutFrom, Fits
<1>8. Phase(x)
  BY <1>1, <1>2, <1>3 DEF Phase, Calling, DataFlows, FinGoes, Ints
<1>9. Side(d, x)
  BY <1>1, <1>2, <1>6, SideTurned DEF Awaits, Pair, Other, Well
<1>10. Side(x, d)
  BY <1>2, SideSame DEF Awaits, Pair
<1>11. Tuned(x)
  BY <1>2 DEF Tuned
<1>12. Able(x)
  BY <1>1, <1>2, <1>7, <1>8 DEF Able, Tight
<1> QED BY <1>2, <1>6, <1>9, <1>10, <1>11, <1>12 DEF Goes, Pair

LEMMA ExtendLeads ==
  ASSUME NEW c, NEW d, Ready(c, d), Other(d), Tuned(c), c.state = "ESTABLISHED", c.out = <<>>,
         NEW m \in Int, c.curseq <= m, m <= Most, NEW b \in BOOLEAN, NEW x, x = Extended(c, m, b)
  PROVE  Leads(c, d, x)
<1>1. c \in Agents /\ Ints(c) /\ Sending(c) /\ Fits(c) /\ 1 <= c.maxseq /\ 0 <= c.curseq
      /\ 1 <= rcv_nxt(c) /\ 1 <= c.highest_ack /\ c.highest_ack <= c.maxseq
  BY ReadyParts DEF DataFlows, Ready
<1>2. /\ x \in Agents /\ x.state = c.state /\ x.curseq = m /\ x.passive = c.passive
      /\ x.maxseq = c.maxseq /\ x.highest_ack = c.highest_ack /\ x.rq = c.rq
      /\ x.t_seqno = c.t_seqno /\ x.last_ack_sent = c.last_ack_sent /\ x.out = c.out
      /\ x.recover = c.recover /\ x.cwnd = c.cwnd /\ x.dupacks = c.dupacks
  BY <1>1, ExtendedIs
<1>4. rcv_nxt(x) = rcv_nxt(c)
  BY <1>2 DEF rcv_nxt
<1>5. Top(c) <= Top(x) /\ ~FinSent(c)
  BY <1>1, <1>2 DEF Top, FinSent, MinOf, Ints, Sending
<1>6. Turned(c, x)
  BY <1>1, <1>2, <1>4, <1>5 DEF Turned, Grown, Ints
<1>7. Well(x)
  <2>1. Len(x.out) = 0
    BY <1>2
  <2> QED BY <1>1, <1>2, <1>4, <2>1 DEF Well, OutFrom, Fits
<1>8. Phase(x)
  BY <1>1, <1>2, <1>4 DEF Phase, Sending, Talking, DataFlows, FinGoes, Ints
<1>9. Side(d, x)
  BY <1>1, <1>2, <1>6, SideTurned DEF Ready, Pair, Other, Well
<1>10. Side(x, d)
  BY <1>2, SideSame DEF Ready, Pair
<1>11. Tuned(x)
  BY <1>2 DEF Tuned
<1>12. Able(x)
  BY <1>2, <1>7, <1>8 DEF Able, Tight
<1> QED BY <1>1, <1>2, <1>6, <1>9, <1>10, <1>11, <1>12 DEF Leads, Pair, Ready

Advanced(c, m, b, x) ==
  \/ c.state \in {"SYN_SENT", "SYN_RECEIVED"} /\ x = Extended(c, m, b)
  \/ c.state = "ESTABLISHED" /\ x = SendMuch(Extended(c, m, b), FALSE)
  \/ c.state \notin {"SYN_SENT", "SYN_RECEIVED", "ESTABLISHED"} /\ x = Extended(c, c.curseq, b)

LEMMA AdvanceExtends ==
  ASSUME NEW c \in Agents, NEW n \in Int, 0 <= n, NEW eof \in BOOLEAN, 0 <= c.curseq,
         c.state \notin {"CLOSED", "LISTEN"}, NEW x, x = AdvanceBytes(c, n, eof),
         NEW m \in Int, m = c.curseq + n
  PROVE  \E b \in BOOLEAN : Advanced(c, m, b, x)
<1>1. c.close_on_empty \in BOOLEAN /\ c.curseq \in Int
  BY AgentFields DEF AgentParts
<1>2. PICK b \in BOOLEAN : b = (c.close_on_empty \/ eof)
  BY <1>1
<1>3. MaxOf(c.curseq, ISS) + n = m
  BY <1>1 DEF MaxOf, ISS
<1>4. CASE c.state \in {"SYN_SENT", "SYN_RECEIVED"}
  <2>1. x = [c EXCEPT !.curseq = MaxOf(@, ISS) + n, !.close_on_empty = @ \/ eof]
    BY <1>4, Zenon DEF AdvanceBytes
  <2>2. x = Extended(c, m, b)
    BY <1>2, <1>3, <2>1, Zenon DEF Extended
  <2> QED BY <1>4, <2>2, Zenon DEF Advanced
<1>5. CASE c.state = "ESTABLISHED"
  <2>1. x = SendMuch([c EXCEPT !.curseq = MaxOf(@, ISS) + n, !.close_on_empty = @ \/ eof], FALSE)
    BY <1>5, Zenon DEF AdvanceBytes
  <2>2. x = SendMuch(Extended(c, m, b), FALSE)
    BY <1>2, <1>3, <2>1, Zenon DEF Extended
  <2> QED BY <1>5, <2>2, Zenon DEF Advanced
<1>6. CASE c.state \notin {"SYN_SENT", "SYN_RECEIVED", "ESTABLISHED"}
  <2>1. x = [c EXCEPT !.close_on_empty = @ \/ eof]
    BY <1>6, Zenon DEF AdvanceBytes
  <2>2. x = [c EXCEPT !.close_on_empty = b]
    BY <1>2, <2>1, Zenon
  <2>3. x = Extended(c, c.curseq, b)
    BY <2>2 DEF Extended, Agents
  <2> QED BY <1>6, <2>3, Zenon DEF Advanced
<1> QED BY <1>4, <1>5, <1>6, Zenon

LEMMA AdvanceGoes ==
  ASSUME NEW c, NEW d, Underway(c, d), Other(d), Tuned(c), c.state # "CLOSED",
         NEW n \in Int, 0 <= n, n <= Most, n = 0 \/ c.curseq <= ISS, NEW eof \in BOOLEAN,
         NEW x, x = AdvanceBytes(c, n, eof)
  PROVE  Goes(c, d, x) /\ (c.state = "SYN_SENT" => x.state = "SYN_SENT")
<1>1. /\ c \in Agents /\ Ints(c) /\ c.out = <<>> /\ 0 <= c.curseq /\ Fits(c)
      /\ c.state \notin {"CLOSED", "LISTEN"}
  BY ReadyParts, CallsParts DEF Underway, Awaits, DataFlows, FinGoes, Well
<1>2. PICK m \in Int : m = c.curseq + n
  BY <1>1 DEF Ints
<1>3. c.curseq <= m /\ m <= Most
  BY <1>1, <1>2 DEF Ints, Fits, ISS
<1>4. PICK b \in BOOLEAN : Advanced(c, m, b, x)
  BY <1>1, <1>2, AdvanceExtends
<1>5. CASE Awaits(c, d)
  <2>1. c.state \in {"SYN_SENT", "SYN_RECEIVED"}
    BY <1>5 DEF Awaits
  <2>2. x = Extended(c, m, b)
    BY <1>4, <2>1, Zenon DEF Advanced
  <2> QED BY <1>3, <1>5, <2>2, ExtendWaits
<1>6. CASE Ready(c, d) /\ c.state = "ESTABLISHED"
  <2>1. PICK y : y = Extended(c, m, b)
    OBVIOUS
  <2>2. Leads(c, d, y)
    BY <1>1, <1>3, <1>6, <2>1, ExtendLeads
  <2>3. x = SendMuch(y, FALSE)
    BY <1>4, <1>6, <2>1, Zenon DEF Advanced
  <2>4. Leads(y, d, SendMuch(y, FALSE))
    BY <2>2, SendMay DEF Leads
  <2> QED BY <1>1, <1>6, <2>2, <2>3, <2>4, LeadsTransitive, LeadsGoes
<1>7. CASE Ready(c, d) /\ c.state # "ESTABLISHED"
  <2>1. c.state \notin {"SYN_SENT", "SYN_RECEIVED", "ESTABLISHED"}
    BY <1>1, <1>7, ReadyParts DEF DataFlows, FinGoes
  <2>2. x = Extended(c, c.curseq, b)
    BY <1>4, <2>1, Zenon DEF Advanced
  <2>3. /\ x \in Agents /\ x.state = c.state /\ x.curseq = c.curseq /\ x.passive = c.passive
        /\ x.maxseq = c.maxseq /\ x.highest_ack = c.highest_ack /\ x.rq = c.rq
        /\ x.t_seqno = c.t_seqno /\ x.last_ack_sent = c.last_ack_sent /\ x.out = c.out
        /\ x.recover = c.recover /\ x.cwnd = c.cwnd /\ x.dupacks = c.dupacks
    BY <1>1, <2>2, ExtendedIs DEF Ints
  <2>4. Alike(c, x) /\ Tuned(x)
    BY <2>3 DEF Alike, Tuned
  <2> QED BY <1>7, <2>3, <2>4, LikeLeads, LeadsGoes
<1> QED BY <1>5, <1>6, <1>7 DEF Underway

-----------------------------------------------------------------------------
(* The two ends and what is on its way between them *)

\* An agent whose handler is done: what it sent is on its way
Posted(x, y) ==
  /\ y \in Agents /\ y.out = <<>>
  /\ y.state = x.state /\ y.passive = x.passive /\ y.t_seqno = x.t_seqno
  /\ y.maxseq = x.maxseq /\ y.highest_ack = x.highest_ack /\ y.curseq = x.curseq
  /\ y.rq = x.rq /\ y.last_ack_sent = x.last_ack_sent /\ y.recover = x.recover
  /\ y.cwnd = x.cwnd /\ y.dupacks = x.dupacks
  /\ (y.rtx <=> x.rtx) /\ (y.delack <=> x.delack)

LEMMA PostedIs ==
  ASSUME NEW x \in Agents, NEW y, y = [x EXCEPT !.out = <<>>]
  PROVE  Posted(x, y)
<1>1. y \in Agents
  <2>1. <<>> \in Seq(Segments)
    OBVIOUS
  <2> QED BY <2>1 DEF Agents
<1>2. y.out = <<>>
  BY DEF Agents
<1>3. /\ y.state = x.state /\ y.passive = x.passive /\ y.t_seqno = x.t_seqno
      /\ y.maxseq = x.maxseq /\ y.highest_ack = x.highest_ack /\ y.curseq = x.curseq
      /\ y.rq = x.rq /\ y.last_ack_sent = x.last_ack_sent /\ y.recover = x.recover
      /\ y.cwnd = x.cwnd /\ y.dupacks = x.dupacks
  BY DEF Agents
<1>4. y.rtx = x.rtx /\ y.delack = x.delack
  BY DEF Agents
<1> QED BY <1>1, <1>2, <1>3, <1>4, Zenon DEF Posted

Agent(c) == Well(c) /\ Phase(c) /\ Tuned(c) /\ c.out = <<>>

LEMMA PostedAgent ==
  ASSUME NEW x, Well(x), Phase(x), Tuned(x), NEW y, Posted(x, y)
  PROVE  /\ Agent(y) /\ (Blank(x) <=> Blank(y)) /\ \A p : From(p, x) => From(p, y)
         /\ rcv_nxt(x) = rcv_nxt(y) /\ Top(x) = Top(y) /\ (FinSent(x) <=> FinSent(y))
<1>1. rcv_nxt(x) = rcv_nxt(y) /\ Top(x) = Top(y) /\ (FinSent(x) <=> FinSent(y))
  BY DEF Posted, rcv_nxt, Top, FinSent
<1>2. Blank(x) <=> Blank(y)
  BY DEF Posted, Blank
<1>3. Calling(x, -1) = Calling(y, -1) /\ Calling(x, 1) = Calling(y, 1)
  BY DEF Posted, Calling
<1>4. Talking(x) = Talking(y) /\ Answered(x) = Answered(y)
  BY <1>1 DEF Posted, Talking, Answered
<1>5. Sending(x) = Sending(y) /\ Ending(x) = Ending(y)
  BY <1>4 DEF Posted, Sending, Ending, Winding
<1>6. Phase(y)
  BY <1>2, <1>3, <1>4, <1>5 DEF Phase, Posted
<1>7. Len(y.out) = 0
  BY DEF Posted
<1>8. Fits(y)
  BY <1>1 DEF Well, Fits, Posted
<1>9. Well(y)
  BY <1>7, <1>8 DEF Well, OutFrom, Posted
<1>10. Tuned(y)
  BY DEF Tuned, Posted
<1>11. ASSUME NEW p, From(p, x) PROVE From(p, y)
  <2>1. y.maxseq = x.maxseq
    BY DEF Posted
  <2> QED BY <1>1, <1>2, <1>11, <2>1 DEF From, Truthful
<1>12. Agent(y)
  BY <1>6, <1>9, <1>10 DEF Agent, Posted
<1> QED BY <1>1, <1>2, <1>11, <1>12

\* What is sent, and of whom
Sends(y, s) == s \in Seq(Segments) /\ \A i \in 1..Len(s) : From(s[i], y)

\* A step of an agent that is open or opens
Moves(c, d, y, s) ==
  /\ Agent(y) /\ Pair(y, d) /\ Turned(c, y) /\ Sends(y, s)
  /\ y.state = "LAST_ACK" => \A i \in 1..Len(s) : s[i].fin => s[i].ackno = rcv_nxt(y)

LEMMA WellSends ==
  ASSUME NEW x, Well(x), Phase(x), Tuned(x), NEW y, Posted(x, y)
  PROVE  Sends(y, x.out)
<1>1. x.out \in Seq(Segments) /\ OutFrom(x)
  BY AgentFields DEF Well, AgentParts
<1>2. \A p : From(p, x) => From(p, y)
  BY PostedAgent
<1> QED BY <1>1, <1>2 DEF Sends, OutFrom

LEMMA GoesMoves ==
  ASSUME NEW c, c \in Agents, NEW d, NEW x, Goes(c, d, x), NEW y, Posted(x, y)
  PROVE  Moves(c, d, y, x.out)
<1>1. Well(x) /\ Phase(x) /\ Tight(x) /\ Tuned(x) /\ Pair(x, d) /\ Turned(c, x) /\ x \in Agents
  BY DEF Goes, Able, Well
<1>2. /\ Agent(y) /\ rcv_nxt(x) = rcv_nxt(y) /\ Top(x) = Top(y) /\ (FinSent(x) <=> FinSent(y))
      /\ (Blank(x) <=> Blank(y))
  BY <1>1, PostedAgent
<1>3. Sends(y, x.out)
  BY <1>1, WellSends
<1>4. Turned(c, y)
  <2>1. Grown(c, y)
    BY <1>1, <1>2 DEF Turned, Grown, Posted
  <2> QED BY <1>1, <2>1 DEF Turned, Posted
<1>5. Hears(y, d)
  BY <1>1, <1>2 DEF Pair, Side, Hears, Posted
<1>6. Side(y, d)
  BY <1>1, <1>5 DEF Pair, Side, Posted, Flagless
<1>7. Side(d, y)
  <2>1. Hears(d, y)
    BY <1>1, <1>2 DEF Pair, Side, Hears, Posted
  <2> QED BY <1>1, <1>2, <2>1 DEF Pair, Side, Posted
<1>8. y.state = "LAST_ACK" => \A i \in 1..Len(x.out) : x.out[i].fin => x.out[i].ackno = rcv_nxt(y)
  BY <1>1, <1>2 DEF Tight, OutAck, Posted
<1> QED BY <1>2, <1>3, <1>4, <1>6, <1>7, <1>8 DEF Moves, Pair

\* An end that has not taken part yet, and one that was reset
Unused(c, n) == c.state = "LISTEN" \/ (n = 0 /\ ~c.passive)
Gone(c, n)   == c.state = "CLOSED" /\ Blank(c) /\ ~Unused(c, n)

\* What one end keeps: the agent c, whose application has called n times, hears d
\* (m times), inn is on its way to c and outn to d
LastFins(c, d, inn) ==
  d.state = "LAST_ACK" => \A i \in 1..Len(inn) : inn[i].fin => inn[i].ackno = c.maxseq
UnusedIs(c, n, d, m, outn) ==
  Unused(c, n) => /\ c.state \in {"CLOSED", "LISTEN"} /\ Blank(c) /\ outn = <<>>
                  /\ Unused(d, m) \/ d.state = "SYN_SENT"
LeftBehind(c, n, d, m, inn) ==
  Gone(d, m) => /\ ~Unused(c, n) /\ c.state \notin FinCame \cup {"SYN_SENT", "SYN_RECEIVED"}
                /\ c.state # "CLOSED" => \A i \in 1..Len(inn) : Stale(inn[i], c)
Half(c, n, d, m, inn, outn) ==
  /\ Agent(c) /\ n \in Nat /\ Side(c, d) /\ Sends(d, inn)
  /\ LastFins(c, d, inn) /\ UnusedIs(c, n, d, m, outn) /\ LeftBehind(c, n, d, m, inn)
  /\ c.state = "SYN_SENT" => ~Unused(c, n)
  /\ c.state = "LISTEN" => c.passive
Both(c, n, d, m, inn, outn) ==
  Half(c, n, d, m, inn, outn) /\ Half(d, m, c, n, outn, inn)

\* Every element of s is one of t; every element of u one of t or of s
Among(s, t) == s \in Seq(Segments) /\ \A i \in 1..Len(s) : \E j \in 1..Len(t) : s[i] = t[j]
Adds(u, t, s) ==
  /\ u \in Seq(Segments)
  /\ \A i \in 1..Len(u) : \/ \E j \in 1..Len(t) : u[i] = t[j]
                          \/ \E j \in 1..Len(s) : u[i] = s[j]

LEMMA AmongSends ==
  ASSUME NEW d, NEW t, Sends(d, t), NEW s, Among(s, t)
  PROVE  Sends(d, s)
BY DEF Sends, Among

LEMMA HalfParts ==
  ASSUME NEW c, NEW n, NEW d, NEW m, NEW inn, NEW outn, Both(c, n, d, m, inn, outn)
  PROVE  /\ c \in Agents /\ d \in Agents /\ Ints(c) /\ Ints(d) /\ Agent(c) /\ Agent(d)
         /\ Other(c) /\ Other(d) /\ Well(c) /\ Well(d) /\ Phase(c) /\ Phase(d)
         /\ Tuned(c) /\ c.out = <<>> /\ Pair(c, d) /\ n \in Nat /\ m \in Nat
         /\ Sends(d, inn) /\ Sends(c, outn) /\ inn \in Seq(Segments) /\ outn \in Seq(Segments)
<1>1. Half(c, n, d, m, inn, outn) /\ Half(d, m, c, n, outn, inn)
  BY DEF Both
<1>2. Agent(c) /\ Agent(d)
  BY <1>1 DEF Half
<1>3. c \in Agents /\ d \in Agents
  BY <1>2 DEF Agent, Well
<1>4. Ints(c) /\ Ints(d)
  BY <1>3, AgentInts
<1> QED BY <1>1, <1>2, <1>3, <1>4 DEF Half, Agent, Other, Pair, Sends

\* An agent whose application has called does not become unused
LEMMA UsedStays ==
  ASSUME NEW c, NEW n \in Nat, ~Unused(c, n), NEW y, NEW k \in Nat, n <= k,
         y.passive = c.passive, y.state # "LISTEN"
  PROVE  ~Unused(y, k)
BY DEF Unused

LEMMA StaleLater ==
  ASSUME NEW c, NEW y, rcv_nxt(c) \in Int, rcv_nxt(y) \in Int, rcv_nxt(c) <= rcv_nxt(y),
         NEW p \in Segments, Stale(p, c)
  PROVE  Stale(p, y)
<1>1. p.seq \in Int /\ p.len \in Int
  BY DEF Segments
<1>2. ~p.fin /\ (p.len = 0 \/ p.seq + p.len <= rcv_nxt(c))
  BY DEF Stale
<1>3. p.len = 0 \/ p.seq + p.len <= rcv_nxt(y)
  BY <1>1, <1>2
<1> QED BY <1>2, <1>3, Zenon DEF Stale

\* The end that moved
LEMMA MovesOwn ==
  ASSUME NEW c, NEW n, NEW d, NEW m, NEW inn, NEW outn, Both(c, n, d, m, inn, outn),
         ~Unused(c, n), NEW y, NEW s, Moves(c, d, y, s), NEW k \in Nat, n <= k,
         NEW inn2, Among(inn2, inn), NEW outn2
  PROVE  Half(y, k, d, m, inn2, outn2)
<1>1. /\ c \in Agents /\ d \in Agents /\ Ints(c) /\ Ints(d) /\ Pair(c, d) /\ n \in Nat
      /\ Sends(d, inn) /\ Phase(d) /\ Phase(c)
  BY HalfParts
<1>2. /\ LastFins(c, d, inn) /\ LeftBehind(c, n, d, m, inn)
  BY DEF Both, Half
<1>3. Agent(y) /\ Pair(y, d) /\ Turned(c, y) /\ y \in Agents /\ Phase(y)
  BY DEF Moves, Agent, Well
<1>4. 1 <= y.maxseq /\ y.passive = c.passive /\ Ints(y) /\ 1 <= c.maxseq /\ rcv_nxt(c) <= rcv_nxt(y)
  BY <1>1, <1>3, AgentInts, TurnedParts DEF Turned
<1>5. y.state # "LISTEN" /\ ~Blank(y)
  BY <1>3, <1>4 DEF Phase, Blank, Ints
<1>6. ~Unused(y, k)
  BY <1>1, <1>4, <1>5, UsedStays
<1>7. Sends(d, inn2)
  BY <1>1, AmongSends
<1>8. LastFins(y, d, inn2)
  <2>1. SUFFICES ASSUME d.state = "LAST_ACK"
                 PROVE  \A i \in 1..Len(inn2) : inn2[i].fin => inn2[i].ackno = y.maxseq
    BY DEF LastFins
  <2>2. rcv_nxt(d) = c.maxseq /\ rcv_nxt(d) = y.maxseq
    BY <1>1, <1>3, <1>4, <2>1, LastAckHeard DEF FinCame
  <2>3. \A i \in 1..Len(inn) : inn[i].fin => inn[i].ackno = y.maxseq
    BY <1>2, <2>1, <2>2 DEF LastFins
  <2> QED BY <2>3 DEF Among
<1>9. UnusedIs(y, k, d, m, outn2)
  BY <1>6 DEF UnusedIs
<1>10. LeftBehind(y, k, d, m, inn2)
  <2>1. SUFFICES ASSUME Gone(d, m)
                 PROVE  /\ y.state \notin FinCame \cup {"SYN_SENT", "SYN_RECEIVED"}
                        /\ y.state # "CLOSED" => \A i \in 1..Len(inn2) : Stale(inn2[i], y)
    BY <1>6 DEF LeftBehind
  <2>2. d.maxseq <= 0
    BY <2>1 DEF Gone, Blank
  <2>3. y.state \notin FinCame
    BY <1>1, <1>3, <2>2 DEF Pair, Side, Ints
  <2>4. c.state \notin {"SYN_SENT", "SYN_RECEIVED"}
    BY <1>2, <2>1 DEF LeftBehind
  <2>5. y.state \notin {"SYN_SENT", "SYN_RECEIVED"}
    BY <1>3, <2>4 DEF Turned
  <2>6. ASSUME y.state # "CLOSED", NEW i \in 1..Len(inn2) PROVE Stale(inn2[i], y)
    <3>1. PICK j \in 1..Len(inn) : inn2[i] = inn[j]
      BY DEF Among
    <3>2. Stale(inn[j], c)
      BY <1>2, <1>3, <2>1, <2>6 DEF LeftBehind, Turned
    <3>3. inn[j] \in Segments
      BY <1>1 DEF Sends
    <3>4. Stale(inn[j], y)
      BY <1>1, <1>4, <3>2, <3>3, StaleLater DEF Ints
    <3> QED BY <3>1, <3>4
  <2> QED BY <2>3, <2>5, <2>6
<1> QED BY <1>3, <1>5, <1>6, <1>7, <1>8, <1>9, <1>10 DEF Half, Pair

\* and the other one
LEMMA MovesTheirs ==
  ASSUME NEW c, NEW n, NEW d, NEW m, NEW inn, NEW outn, Both(c, n, d, m, inn, outn),
         ~Unused(c, n), NEW y, NEW s, Moves(c, d, y, s), NEW k \in Nat, n <= k,
         c.state = "SYN_SENT" /\ Unused(d, m) => y.state = "SYN_SENT",
         NEW inn2, Among(inn2, inn), NEW outn2, Adds(outn2, outn, s)
  PROVE  Half(d, m, y, k, outn2, inn2)
<1>1. /\ c \in Agents /\ d \in Agents /\ Ints(c) /\ Ints(d) /\ Pair(c, d) /\ n \in Nat
      /\ Sends(c, outn) /\ Phase(d) /\ Phase(c) /\ Agent(d) /\ m \in Nat
      /\ outn \in Seq(Segments)
  BY HalfParts
<1>2. /\ LastFins(d, c, outn) /\ UnusedIs(d, m, c, n, inn)
      /\ d.state = "SYN_SENT" => ~Unused(d, m)
      /\ d.state = "LISTEN" => d.passive
  BY DEF Both, Half
<1>3. Agent(y) /\ Pair(y, d) /\ Turned(c, y) /\ y \in Agents /\ Phase(y) /\ Sends(y, s)
      /\ Grown(c, y)
  BY DEF Moves, Agent, Well, Turned
<1>4. 1 <= y.maxseq /\ y.passive = c.passive /\ Ints(y) /\ 1 <= c.maxseq
  BY <1>1, <1>3, AgentInts, TurnedParts DEF Turned
<1>5. ~Blank(y)
  BY <1>4 DEF Blank, Ints
<1>6. Sends(y, outn2)
  <2>1. ASSUME NEW i \in 1..Len(outn2) PROVE From(outn2[i], y)
    <3>1. ASSUME NEW j \in 1..Len(outn), outn2[i] = outn[j] PROVE From(outn2[i], y)
      BY <1>1, <1>3, <3>1, FromGrown DEF Sends
    <3>2. ASSUME NEW j \in 1..Len(s), outn2[i] = s[j] PROVE From(outn2[i], y)
      BY <1>3, <3>2 DEF Sends
    <3> QED BY <3>1, <3>2 DEF Adds
  <2> QED BY <2>1 DEF Sends, Adds
<1>7. LastFins(d, y, outn2)
  <2>1. SUFFICES ASSUME y.state = "LAST_ACK", NEW i \in 1..Len(outn2), outn2[i].fin
                 PROVE  outn2[i].ackno = d.maxseq
    BY DEF LastFins
  <2>2. 1 <= d.maxseq
    BY <1>3, <2>1 DEF Pair, Side, FinCame
  <2>3. Pair(d, y)
    BY <1>3 DEF Pair
  <2>4. rcv_nxt(y) = d.maxseq
    BY <2>1, <2>2, <2>3, LastAckHeard DEF FinCame
  <2>5. ASSUME NEW j \in 1..Len(s), outn2[i] = s[j] PROVE outn2[i].ackno = d.maxseq
    BY <2>1, <2>4, <2>5 DEF Moves
  <2>6. ASSUME NEW j \in 1..Len(outn), outn2[i] = outn[j] PROVE outn2[i].ackno = d.maxseq
    <3>1. From(outn[j], c) /\ outn[j].fin
      BY <1>1, <2>1, <2>6 DEF Sends
    <3>2. FinSent(c)
      BY <1>4, <3>1 DEF From, Truthful
    <3>3. c.state = "LAST_ACK"
      BY <1>3, <2>1, <3>2 DEF Turned
    <3> QED BY <1>2, <2>6, <3>1, <3>3 DEF LastFins
  <2> QED BY <2>5, <2>6 DEF Adds
<1>8. UnusedIs(d, m, y, k, inn2)
  <2>1. SUFFICES ASSUME Unused(d, m)
                 PROVE  /\ d.state \in {"CLOSED", "LISTEN"} /\ Blank(d) /\ inn2 = <<>>
                        /\ y.state = "SYN_SENT"
    BY DEF UnusedIs
  <2>2. /\ d.state \in {"CLOSED", "LISTEN"} /\ Blank(d) /\ inn = <<>> /\ c.state = "SYN_SENT"
    BY <1>2, <2>1 DEF UnusedIs
  <2>3. inn2 = <<>>
    <3>1. Len(inn) = 0
      BY <2>2
    <3>2. \A i \in 1..Len(inn2) : FALSE
      BY <3>1 DEF Among
    <3>3. inn2 \in Seq(Segments) /\ Len(inn2) \in Nat
      BY DEF Among
    <3> QED BY <3>2, <3>3
  <2> QED BY <2>1, <2>2, <2>3
<1>9. LeftBehind(d, m, y, k, outn2)
  BY <1>5 DEF LeftBehind, Gone
<1> QED BY <1>1, <1>2, <1>3, <1>6, <1>7, <1>8, <1>9 DEF Half, Pair

LEMMA PostedPair ==
  ASSUME NEW x, Well(x), Phase(x), Tuned(x), NEW d, Pair(x, d), NEW y, Posted(x, y)
  PROVE  Pair(y, d)
<1>1. rcv_nxt(x) = rcv_nxt(y) /\ Top(x) = Top(y) /\ (FinSent(x) <=> FinSent(y))
  BY PostedAgent
<1>2. Hears(y, d)
  BY <1>1 DEF Pair, Side, Hears, Posted
<1>3. Side(y, d)
  BY <1>1, <1>2 DEF Pair, Side, Posted, Flagless
<1>4. Hears(d, y)
  BY <1>1 DEF Pair, Side, Hears, Posted
<1>5. Side(d, y)
  BY <1>1, <1>4 DEF Pair, Side, Posted
<1> QED BY <1>3, <1>5 DEF Pair

LEMMA AmongNone ==
  ASSUME NEW s, Among(s, <<>>)
  PROVE  s = <<>>
<1>1. s \in Seq(Segments) /\ Len(s) \in Nat
  BY DEF Among
<1>2. \A i \in 1..Len(s) : FALSE
  BY DEF Among
<1> QED BY <1>1, <1>2

\* Segments are lost, and nothing else changes
LEMMA StillHalf ==
  ASSUME NEW c, NEW n, NEW d, NEW m, NEW inn, NEW outn, Both(c, n, d, m, inn, outn),
         NEW y, Posted(c, y), NEW inn2, Among(inn2, inn), NEW outn2, Among(outn2, outn)
  PROVE  Half(y, n, d, m, inn2, outn2) /\ Half(d, m, y, n, outn2, inn2)
<1>1. /\ c \in Agents /\ d \in Agents /\ Ints(c) /\ Ints(d) /\ Pair(c, d) /\ n \in Nat
      /\ Sends(d, inn) /\ Sends(c, outn) /\ Well(c) /\ Phase(c) /\ Tuned(c)
      /\ Agent(d) /\ m \in Nat
  BY HalfParts
<1>2. /\ LastFins(c, d, inn) /\ LeftBehind(c, n, d, m, inn) /\ UnusedIs(c, n, d, m, outn)
      /\ c.state = "SYN_SENT" => ~Unused(c, n)
      /\ c.state = "LISTEN" => c.passive
      /\ LastFins(d, c, outn) /\ LeftBehind(d, m, c, n, outn) /\ UnusedIs(d, m, c, n, inn)
      /\ d.state = "SYN_SENT" => ~Unused(d, m)
      /\ d.state = "LISTEN" => d.passive
  BY DEF Both, Half
<1>3. /\ Agent(y) /\ (Blank(c) <=> Blank(y)) /\ \A p : From(p, c) => From(p, y)
      /\ rcv_nxt(c) = rcv_nxt(y)
  BY <1>1, PostedAgent
<1>4. Pair(y, d)
  BY <1>1, PostedPair
<1>5. y.state = c.state /\ y.passive = c.passive /\ y.maxseq = c.maxseq
  BY DEF Posted
<1>6. (Unused(y, n) <=> Unused(c, n)) /\ (Gone(y, n) <=> Gone(c, n))
  BY <1>3, <1>5 DEF Unused, Gone
<1>7. Sends(d, inn2) /\ Sends(y, outn2)
  <2>1. Sends(y, outn)
    BY <1>1, <1>3 DEF Sends
  <2> QED BY <1>1, <2>1, AmongSends
<1>8. LastFins(y, d, inn2)
  BY <1>2, <1>5 DEF LastFins, Among
<1>9. LastFins(d, y, outn2)
  BY <1>2, <1>5 DEF LastFins, Among
<1>10. UnusedIs(y, n, d, m, outn2)
  BY <1>2, <1>3, <1>5, <1>6, AmongNone DEF UnusedIs
<1>11. UnusedIs(d, m, y, n, inn2)
  BY <1>2, <1>5, <1>6, AmongNone DEF UnusedIs
<1>12. LeftBehind(y, n, d, m, inn2)
  <2>1. ASSUME NEW i \in 1..Len(inn2), \A j \in 1..Len(inn) : Stale(inn[j], c)
        PROVE  Stale(inn2[i], y)
    BY <1>3, <2>1 DEF Among, Stale
  <2> QED BY <1>2, <1>5, <1>6, <2>1 DEF LeftBehind
<1>13. LeftBehind(d, m, y, n, outn2)
  <2>1. ASSUME NEW i \in 1..Len(outn2), \A j \in 1..Len(outn) : Stale(outn[j], d)
        PROVE  Stale(outn2[i], d)
    BY <2>1 DEF Among
  <2> QED BY <1>2, <1>6, <2>1 DEF LeftBehind
<1>14. Half(y, n, d, m, inn2, outn2)
  BY <1>1, <1>2, <1>3, <1>4, <1>5, <1>6, <1>7, <1>8, <1>10, <1>12 DEF Half, Pair
<1>15. Half(d, m, y, n, outn2, inn2)
  BY <1>1, <1>2, <1>3, <1>4, <1>5, <1>6, <1>7, <1>9, <1>11, <1>13 DEF Half, Pair
<1> QED BY <1>14, <1>15

\* An agent that is closed and has nothing to say but acknowledgements
Rests(c, y, s) ==
  /\ Agent(y) /\ Blank(y) /\ y.state = "CLOSED" /\ y.passive = c.passive
  /\ Sends(y, s) /\ \A i \in 1..Len(s) : s[i].len = 0 /\ ~s[i].fin
\* and may be, since the other needs nothing more
Alone(d, m, outn) ==
  /\ ~Unused(d, m) /\ d.state \notin FinCame \cup {"SYN_SENT", "SYN_RECEIVED"}
  /\ d.state # "CLOSED" => \A i \in 1..Len(outn) : Stale(outn[i], d)

LEMMA RestsOwn ==
  ASSUME NEW c, NEW n, NEW d, NEW m, NEW inn, NEW outn, Both(c, n, d, m, inn, outn),
         ~Unused(c, n), Alone(d, m, outn), NEW y, NEW s, Rests(c, y, s), NEW k \in Nat, n <= k,
         NEW inn2, Among(inn2, inn), NEW outn2
  PROVE  Half(y, k, d, m, inn2, outn2)
<1>1. /\ c \in Agents /\ d \in Agents /\ Ints(d) /\ n \in Nat /\ Sends(d, inn) /\ Well(d)
  BY HalfParts
<1>2. /\ Agent(y) /\ y.state = "CLOSED" /\ y.passive = c.passive /\ y.highest_ack = -1
      /\ y.rq = EmptyQueue(-1)
  BY DEF Rests, Blank
<1>3. rcv_nxt(y) = -1
  BY <1>2 DEF rcv_nxt, EmptyQueue
<1>4. ~Unused(y, k)
  BY <1>1, <1>2, UsedStays
<1>5. Sends(d, inn2)
  BY <1>1, AmongSends
<1>6. d.state # "LAST_ACK"
  BY DEF Alone, FinCame
<1>7. -1 <= rcv_nxt(d)
  BY <1>1 DEF Well, Fits, Ints
<1>8. Side(y, d)
  BY <1>1, <1>2, <1>3, <1>6, <1>7 DEF Side, Hears, FinCame, Ints
<1>9. LastFins(y, d, inn2) /\ UnusedIs(y, k, d, m, outn2) /\ LeftBehind(y, k, d, m, inn2)
  BY <1>2, <1>4, <1>6 DEF LastFins, UnusedIs, LeftBehind, FinCame
<1> QED BY <1>2, <1>5, <1>8, <1>9 DEF Half

LEMMA RestsTheirs ==
  ASSUME NEW c, NEW n, NEW d, NEW m, NEW inn, NEW outn, Both(c, n, d, m, inn, outn),
         Alone(d, m, outn), NEW y, NEW s, Rests(c, y, s), NEW k \in Nat,
         NEW inn2, NEW outn2, Adds(outn2, outn, s)
  PROVE  Half(d, m, y, k, outn2, inn2)
<1>1. /\ c \in Agents /\ d \in Agents /\ Ints(d) /\ Sends(c, outn) /\ Phase(d) /\ Agent(d)
      /\ m \in Nat
  BY HalfParts
<1>2. /\ d.state = "SYN_SENT" => ~Unused(d, m)
      /\ d.state = "LISTEN" => d.passive
  BY DEF Both, Half
<1>3. /\ Agent(y) /\ y.state = "CLOSED" /\ Blank(y) /\ y \in Agents /\ y.maxseq <= 0 /\ Sends(y, s)
      /\ y.maxseq \in Int
  BY AgentInts DEF Rests, Blank, Agent, Well, Ints
<1>4. Grown(c, y)
  BY <1>3 DEF Grown
<1>5. Sends(y, outn2)
  <2>1. ASSUME NEW i \in 1..Len(outn2) PROVE From(outn2[i], y)
    <3>1. ASSUME NEW j \in 1..Len(outn), outn2[i] = outn[j] PROVE From(outn2[i], y)
      BY <1>1, <1>3, <1>4, <3>1, FromGrown DEF Sends
    <3>2. ASSUME NEW j \in 1..Len(s), outn2[i] = s[j] PROVE From(outn2[i], y)
      BY <1>3, <3>2 DEF Sends
    <3> QED BY <3>1, <3>2 DEF Adds
  <2> QED BY <2>1 DEF Sends, Adds
<1>6. Hears(d, y)
  BY <1>3 DEF Hears
<1>7. Side(d, y)
  BY <1>3, <1>6 DEF Side, Alone
<1>8. LastFins(d, y, outn2)
  BY <1>3 DEF LastFins
<1>9. UnusedIs(d, m, y, k, inn2)
  BY DEF UnusedIs, Alone
<1>10. LeftBehind(d, m, y, k, outn2)
  <2>1. ASSUME d.state # "CLOSED", NEW i \in 1..Len(outn2) PROVE Stale(outn2[i], d)
    <3>1. ASSUME NEW j \in 1..Len(outn), outn2[i] = outn[j] PROVE Stale(outn2[i], d)
      BY <2>1, <3>1 DEF Alone
    <3>2. ASSUME NEW j \in 1..Len(s), outn2[i] = s[j] PROVE Stale(outn2[i], d)
      BY <3>2 DEF Rests, Stale
    <3> QED BY <3>1, <3>2 DEF Adds
  <2> QED BY <2>1 DEF LeftBehind, Alone
<1> QED BY <1>1, <1>2, <1>5, <1>7, <1>8, <1>9, <1>10 DEF Half

\* An agent that closed last is reset when its FIN is acknowledged
LEMMA LastAckAlone ==
  ASSUME NEW c, NEW n, NEW d, NEW m, NEW inn, NEW outn, Both(c, n, d, m, inn, outn),
         c.state = "LAST_ACK", NEW p, From(p, d), p.ack, p.ackno = c.maxseq
  PROVE  ~Unused(c, n) /\ Alone(d, m, outn)
<1>1. /\ c \in Agents /\ d \in Agents /\ Ints(c) /\ Ints(d) /\ Pair(c, d) /\ Sends(c, outn)
      /\ Phase(c) /\ Phase(d) /\ outn \in Seq(Segments) /\ Fits(c) /\ Fits(d)
  BY HalfParts DEF Well
<1>2. /\ LeftBehind(c, n, d, m, inn) /\ UnusedIs(c, n, d, m, outn)
      /\ UnusedIs(d, m, c, n, inn)
  BY DEF Both, Half
<1>3. ~Unused(c, n)
  BY <1>2 DEF UnusedIs
<1>4. ~Unused(d, m)
  BY <1>2, <1>3 DEF UnusedIs
<1>5. 1 <= d.maxseq /\ d.state \notin FinCame /\ FinSent(d)
  BY <1>1 DEF Pair, Side, FinCame, Hears
<1>9. c.highest_ack \in Int /\ c.maxseq \in Int /\ d.curseq \in Int /\ d.maxseq \in Int
  BY <1>1 DEF Ints
<1>6. d.state \notin {"SYN_SENT", "SYN_RECEIVED"}
  <2>1. d.state = "SYN_SENT" => Calling(d, -1)
    BY <1>1, Zenon DEF Phase
  <2>2. d.state = "SYN_RECEIVED" => Calling(d, 1)
    BY <1>1, Zenon DEF Phase
  <2>3. d.maxseq = d.curseq + 2
    BY <1>5 DEF FinSent
  <2>4. 0 <= d.curseq /\ d.maxseq = 1 => FALSE
    BY <1>9, <2>3
  <2> QED BY <2>1, <2>2, <2>4, Zenon DEF Calling
<1>7. 1 <= c.maxseq
  <2>1. c.state \in FinGoes
    BY DEF FinGoes
  <2>2. Ending(c)
    BY <1>1, <2>1, Zenon DEF Phase
  <2>3. 1 <= c.highest_ack /\ c.highest_ack <= c.maxseq
    BY <2>2, Zenon DEF Ending, Winding, Talking
  <2> QED BY <1>9, <2>3
<1>8. ASSUME d.state # "CLOSED", NEW i \in 1..Len(outn) PROVE Stale(outn[i], d)
  <2>1. c.maxseq <= rcv_nxt(d)
    BY <1>5 DEF From, Truthful
  <2>2. d.state \notin FinCame \cup {"CLOSED"} => rcv_nxt(d) <= Top(c)
    BY <1>1, <1>7 DEF Pair, Side, Hears
  <2>3. rcv_nxt(d) <= Top(c)
    BY <1>5, <1>8, <2>2
  <2>4. Top(c) = c.maxseq /\ ~FinSent(c) /\ rcv_nxt(d) = Top(c)
    BY <1>1, <2>1, <2>3, SMTT(30) DEF Top, FinSent, MinOf, Ints
  <2>5. From(outn[i], c) /\ outn[i] \in Segments
    BY <1>1 DEF Sends
  <2>6. Truthful(outn[i], c)
    BY <1>7, <2>5 DEF From
  <2>7. ~outn[i].fin
    BY <2>4, <2>6 DEF Truthful
  <2>8. outn[i].len = 0 \/ outn[i].seq + outn[i].len <= rcv_nxt(d)
    BY <2>4, <2>6, <2>7 DEF Truthful
  <2> QED BY <2>7, <2>8, Zenon DEF Stale
<1> QED BY <1>3, <1>4, <1>5, <1>6, <1>8 DEF Alone

LEMMA GoneAlone ==
  ASSUME NEW c, NEW n, NEW d, NEW m, NEW inn, NEW outn, Both(c, n, d, m, inn, outn), Gone(c, n)
  PROVE  ~Unused(c, n) /\ Alone(d, m, outn)
BY DEF Both, Half, LeftBehind, Alone, Gone

\* An agent that takes part now
Enters(y, k, d, s) ==
  /\ Agent(y) /\ Sends(y, s) /\ ~Unused(y, k)
  /\ \/ y.state = "SYN_SENT" /\ Calling(y, -1)
     \/ y.state = "SYN_RECEIVED" /\ Calling(y, 1) /\ d.state = "SYN_SENT"

LEMMA EntersPair ==
  ASSUME NEW c, NEW n, NEW d, NEW m, NEW inn, NEW outn, Both(c, n, d, m, inn, outn), Unused(c, n),
         NEW y, NEW k, NEW s, Enters(y, k, d, s)
  PROVE  Pair(y, d) /\ d.state \in {"CLOSED", "LISTEN", "SYN_SENT"} /\ ~Gone(d, m) /\ outn = <<>>
         /\ y.state \in {"SYN_SENT", "SYN_RECEIVED"}
<1>1. /\ d \in Agents /\ Ints(d) /\ Phase(d)
  BY HalfParts
<1>2. UnusedIs(c, n, d, m, outn) /\ UnusedIs(d, m, c, n, inn)
  BY DEF Both, Half
<1>3. outn = <<>> /\ (Unused(d, m) \/ d.state = "SYN_SENT")
  BY <1>2 DEF UnusedIs
<1>4. Unused(d, m) => Blank(d) /\ d.state \in {"CLOSED", "LISTEN"}
  BY <1>2 DEF UnusedIs
<1>5. d.state = "SYN_SENT" => Calling(d, -1)
  BY <1>1 DEF Phase
<1>6. d.rq = EmptyQueue(-1) /\ d.highest_ack = -1
  BY <1>3, <1>4, <1>5 DEF Blank, Calling
<1>7. rcv_nxt(d) = -1
  BY <1>6 DEF rcv_nxt, EmptyQueue
<1>8. y \in Agents /\ Ints(y) /\ y.maxseq = 1 /\ 0 <= y.curseq /\ y.highest_ack = -1
  BY AgentInts DEF Enters, Agent, Well, Calling
<1>9. Top(y) = 1 /\ ~FinSent(y)
  BY <1>8 DEF Top, FinSent, MinOf, Ints
<1>10. d.state \notin FinCame /\ y.state \notin FinCame \cup {"CLOSED", "FIN_WAIT_1", "LISTEN"}
  BY <1>3, <1>4 DEF Enters, FinCame
<1>11. rcv_nxt(y) \in {-1, 1} /\ (rcv_nxt(y) = 1 => y.state = "SYN_RECEIVED" /\ y.rq = EmptyQueue(1))
  BY DEF Enters, Calling, rcv_nxt, EmptyQueue
<1>12. Hears(d, y)
  BY <1>7, <1>8, <1>9, <1>10 DEF Hears
<1>13. Side(d, y)
  BY <1>6, <1>10, <1>11, <1>12 DEF Side, FinCame
<1>14. 1 <= d.maxseq => d.maxseq = 1 /\ Top(d) = 1
  <2>1. 1 <= d.maxseq => Calling(d, -1)
    BY <1>1, <1>3, <1>4, <1>5 DEF Blank, Ints
  <2> QED BY <1>1, <2>1 DEF Calling, Top, MinOf, Ints
<1>15. Waiting(EmptyQueue(1), 1) /\ Open(EmptyQueue(1).fifo)
  <2>1. PICK one \in Nat : one = 1
    OBVIOUS
  <2>2. Waiting(EmptyQueue(1), one) /\ Open(EmptyQueue(1).fifo)
    BY EmptyWaits
  <2> QED BY <2>1, <2>2, Zenon
<1>16. Hears(y, d)
  <2>1. SUFFICES ASSUME 1 <= d.maxseq
                 PROVE  /\ rcv_nxt(y) <= d.maxseq
                        /\ rcv_nxt(y) <= Top(d)
                        /\ 1 <= rcv_nxt(y) => Waiting(y.rq, Top(d)) /\ Open(y.rq.fifo)
    BY <1>10 DEF Hears
  <2> QED BY <1>11, <1>14, <1>15, <2>1
<1>17. Side(y, d)
  BY <1>7, <1>8, <1>10, <1>16 DEF Side, FinCame
<1>18. ~Gone(d, m)
  BY <1>3 DEF Gone
<1> QED BY <1>3, <1>4, <1>13, <1>17, <1>18 DEF Pair, Enters

LEMMA EntersBoth ==
  ASSUME NEW c, NEW n, NEW d, NEW m, NEW inn, NEW outn, Both(c, n, d, m, inn, outn), Unused(c, n),
         NEW y, NEW k \in Nat, NEW s, Enters(y, k, d, s),
         NEW inn2, Among(inn2, inn), NEW outn2, Adds(outn2, outn, s)
  PROVE  Half(y, k, d, m, inn2, outn2) /\ Half(d, m, y, k, outn2, inn2)
<1>1. /\ d \in Agents /\ Ints(d) /\ Phase(d) /\ m \in Nat /\ Sends(d, inn) /\ Agent(d)
  BY HalfParts
<1>2. /\ UnusedIs(d, m, c, n, inn)
      /\ d.state = "SYN_SENT" => ~Unused(d, m)
      /\ d.state = "LISTEN" => d.passive
  BY DEF Both, Half
<1>3. /\ Pair(y, d) /\ d.state \in {"CLOSED", "LISTEN", "SYN_SENT"} /\ ~Gone(d, m) /\ outn = <<>>
      /\ y.state \in {"SYN_SENT", "SYN_RECEIVED"}
  BY EntersPair
<1>4. Agent(y) /\ Sends(y, s) /\ ~Unused(y, k)
  BY DEF Enters
<1>5. Sends(d, inn2)
  BY <1>1, AmongSends
<1>6. Sends(y, outn2)
  <2>1. ASSUME NEW i \in 1..Len(outn2) PROVE From(outn2[i], y)
    <3>1. Len(outn) = 0
      BY <1>3
    <3>2. PICK j \in 1..Len(s) : outn2[i] = s[j]
      BY <3>1 DEF Adds
    <3> QED BY <1>4, <3>2 DEF Sends
  <2> QED BY <2>1 DEF Sends, Adds
<1>7. LastFins(y, d, inn2) /\ LastFins(d, y, outn2)
  BY <1>3 DEF LastFins
<1>8. UnusedIs(y, k, d, m, outn2) /\ LeftBehind(y, k, d, m, inn2)
  BY <1>3, <1>4 DEF UnusedIs, LeftBehind
<1>9. LeftBehind(d, m, y, k, outn2)
  BY <1>3 DEF LeftBehind, Gone
<1>10. UnusedIs(d, m, y, k, inn2)
  <2>1. SUFFICES ASSUME Unused(d, m)
                 PROVE  /\ d.state \in {"CLOSED", "LISTEN"} /\ Blank(d) /\ inn2 = <<>>
                        /\ y.state = "SYN_SENT"
    BY DEF UnusedIs
  <2>2. d.state \in {"CLOSED", "LISTEN"} /\ Blank(d) /\ inn = <<>>
    BY <1>2, <2>1 DEF UnusedIs
  <2>3. inn2 = <<>>
    BY <2>2, AmongNone
  <2>4. y.state = "SYN_SENT"
    BY <1>2, <2>1 DEF Enters
  <2> QED BY <2>2, <2>3, <2>4
<1>11. Half(y, k, d, m, inn2, outn2)
  BY <1>3, <1>4, <1>5, <1>7, <1>8 DEF Half, Pair
<1>12. Half(d, m, y, k, outn2, inn2)
  BY <1>1, <1>2, <1>3, <1>6, <1>7, <1>9, <1>10 DEF Half, Pair
<1> QED BY <1>11, <1>12

LEMMA EndsAre ==
  ASSUME NEW c, NEW n, NEW d, NEW m, NEW inn, NEW outn, Both(c, n, d, m, inn, outn)
  PROVE  Unused(c, n) \/ Underway(c, d) \/ Gone(c, n)
<1>1. /\ c \in Agents /\ Ints(c) /\ Well(c) /\ Phase(c) /\ Pair(c, d) /\ c.out = <<>>
  BY HalfParts
<1>2. c.state \in States
  BY <1>1, AgentFields DEF AgentParts
<1>3. Able(c)
  <2>1. Len(c.out) = 0
    BY <1>1
  <2> QED BY <1>1, <2>1 DEF Able, Tight, OutAck
<1>4. CASE 1 <= c.highest_ack
  BY <1>1, <1>3, <1>4 DEF Underway, Ready
<1>5. CASE c.state \in {"SYN_SENT", "SYN_RECEIVED"}
  BY <1>1, <1>5 DEF Underway, Awaits
<1>6. CASE c.state = "LISTEN"
  BY <1>6 DEF Unused
<1>7. CASE ~(1 <= c.highest_ack) /\ c.state \notin {"SYN_SENT", "SYN_RECEIVED", "LISTEN"}
  <2>1. ~Sending(c) /\ ~Ending(c)
    BY <1>7, Zenon DEF Sending, Ending, Winding, Talking
  <2>2. ~Answered(c)
    BY <1>1, <1>7 DEF Answered, Ints
  <2>3. c.state \notin DataFlows \cup FinGoes \cup {"FIN_WAIT_2"}
    BY <1>1, <2>1, <2>2 DEF Phase
  <2>4. c.state = "CLOSED"
    BY <1>2, <1>7, <2>3 DEF States, DataFlows, FinGoes
  <2>5. Blank(c)
    BY <1>1, <2>2, <2>4 DEF Phase
  <2> QED BY <2>4, <2>5 DEF Gone
<1> QED BY <1>4, <1>5, <1>6, <1>7

LEMMA UnderwayParts ==
  ASSUME NEW c, NEW n, NEW d, NEW m, NEW inn, NEW outn, Both(c, n, d, m, inn, outn), Underway(c, d)
  PROVE  ~Unused(c, n) /\ ~Blank(c) /\ c.state # "LISTEN"
<1>1. Ints(c) /\ c.state # "LISTEN" /\ ~Blank(c)
  <2>1. CASE Ready(c, d)
    <3>1. c.state # "LISTEN"
      BY <2>1, ReadyParts DEF DataFlows, FinGoes
    <3> QED BY <2>1, <3>1, ReadyParts
  <2>2. CASE Awaits(c, d)
    <3>1. Ints(c) /\ c.maxseq = 1
      BY <2>2, CallsParts
    <3> QED BY <2>2, <3>1 DEF Awaits, Blank
  <2> QED BY <2>1, <2>2 DEF Underway
<1>2. UnusedIs(c, n, d, m, outn)
  BY DEF Both, Half
<1> QED BY <1>1, <1>2 DEF UnusedIs

\* An agent that has sent nothing
LEMMA OtherBlank ==
  ASSUME NEW d \in Agents, Phase(d), Ints(d), ~(1 <= d.maxseq)
  PROVE  d.state \in {"CLOSED", "LISTEN"} /\ Blank(d)
<1>1. d.state \in States
  BY AgentFields DEF AgentParts
<1>2. ~Calling(d, -1) /\ ~Calling(d, 1) /\ ~Answered(d)
  BY DEF Calling, Answered
<1>3. ~Talking(d)
  BY DEF Talking, Ints
<1>4. ~Sending(d) /\ ~Ending(d)
  BY <1>3, Zenon DEF Sending, Ending, Winding
<1> QED BY <1>1, <1>2, <1>4 DEF Phase, States, DataFlows, FinGoes

\* A segment that was on its way
LEMMA UnderwayArrives ==
  ASSUME NEW c, NEW n, NEW d, NEW m, NEW inn, NEW outn, Both(c, n, d, m, inn, outn),
         Underway(c, d), NEW i \in 1..Len(inn)
  PROVE  Arrives(inn[i], c, d) /\ From(inn[i], d) /\ ~Unused(d, m)
<1>1. /\ c \in Agents /\ d \in Agents /\ Ints(c) /\ Ints(d) /\ Sends(d, inn) /\ Phase(d)
      /\ inn \in Seq(Segments)
  BY HalfParts
<1>2. LastFins(c, d, inn) /\ LeftBehind(c, n, d, m, inn) /\ UnusedIs(d, m, c, n, inn)
  BY DEF Both, Half
<1>3. c.state # "LISTEN"
  BY UnderwayParts
<1>4. From(inn[i], d)
  BY <1>1 DEF Sends
<1>5. ~Unused(d, m)
  <2>1. inn # <<>>
    <3>1. Len(inn) # 0
      BY <1>1
    <3> QED BY <3>1
  <2> QED BY <1>2, <2>1 DEF UnusedIs
<1>6. d.state = "LAST_ACK" /\ inn[i].fin => inn[i].ackno = c.maxseq
  BY <1>2 DEF LastFins
<1>7. CASE 1 <= d.maxseq
  <2>1. ~Blank(d)
    BY <1>1, <1>7 DEF Blank, Ints
  <2> QED BY <1>4, <1>5, <1>6, <1>7, <2>1 DEF From, Arrives
<1>8. CASE ~(1 <= d.maxseq)
  <2>1. d.state \in {"CLOSED", "LISTEN"} /\ Blank(d)
    BY <1>1, <1>8, OtherBlank
  <2>2. Gone(d, m)
    BY <1>5, <2>1 DEF Gone, Unused
  <2> QED BY <1>2, <1>3, <1>4, <1>5, <1>6, <2>1, <2>2 DEF From, Arrives, LeftBehind, Gone
<1> QED BY <1>7, <1>8

LEMMA MovesBoth ==
  ASSUME NEW c, NEW n, NEW d, NEW m, NEW inn, NEW outn, Both(c, n, d, m, inn, outn),
         ~Unused(c, n), NEW x, Goes(c, d, x), NEW y, Posted(x, y), NEW k \in Nat, n <= k,
         c.state = "SYN_SENT" /\ Unused(d, m) => x.state = "SYN_SENT",
         NEW inn2, Among(inn2, inn), NEW outn2, Adds(outn2, outn, x.out)
  PROVE  Both(y, k, d, m, inn2, outn2)
<1>1. c \in Agents
  BY HalfParts
<1>2. Moves(c, d, y, x.out)
  BY <1>1, GoesMoves
<1>3. c.state = "SYN_SENT" /\ Unused(d, m) => y.state = "SYN_SENT"
  BY DEF Posted
<1>4. Half(y, k, d, m, inn2, outn2)
  BY <1>2, MovesOwn
<1>5. Half(d, m, y, k, outn2, inn2)
  BY <1>2, <1>3, MovesTheirs
<1> QED BY <1>4, <1>5 DEF Both

LEMMA RestsBoth ==
  ASSUME NEW c, NEW n, NEW d, NEW m, NEW inn, NEW outn, Both(c, n, d, m, inn, outn),
         ~Unused(c, n), Alone(d, m, outn), NEW x, Well(x), Blank(x), Tuned(x),
         x.state = "CLOSED", x.passive = c.passive, Idle(x), NEW y, Posted(x, y),
         NEW inn2, Among(inn2, inn), NEW outn2, Adds(outn2, outn, x.out)
  PROVE  Both(y, n, d, m, inn2, outn2)
<1>1. Phase(x)
  BY DEF Phase, DataFlows, FinGoes
<1>2. Agent(y) /\ (Blank(x) <=> Blank(y))
  BY <1>1, PostedAgent
<1>3. Sends(y, x.out)
  BY <1>1, WellSends
<1>4. Rests(c, y, x.out)
  BY <1>2, <1>3 DEF Rests, Posted, Idle
<1>5. n \in Nat /\ n <= n
  BY HalfParts
<1>6. Half(y, n, d, m, inn2, outn2)
  BY <1>4, <1>5, RestsOwn
<1>7. Half(d, m, y, n, outn2, inn2)
  BY <1>4, <1>5, RestsTheirs
<1> QED BY <1>6, <1>7 DEF Both

\* What is on its way after nothing was sent
LEMMA AddsNone ==
  ASSUME NEW u, NEW t, NEW s, s = <<>>, Adds(u, t, s)
  PROVE  Among(u, t)
<1>1. Len(s) = 0
  OBVIOUS
<1> QED BY <1>1 DEF Adds, Among

LEMMA StillBoth ==
  ASSUME NEW c, NEW n, NEW d, NEW m, NEW inn, NEW outn, Both(c, n, d, m, inn, outn),
         NEW x, Same(c, x), NEW y, Posted(x, y),
         NEW inn2, Among(inn2, inn), NEW outn2, Adds(outn2, outn, x.out)
  PROVE  Both(y, n, d, m, inn2, outn2)
<1>1. c.out = <<>>
  BY HalfParts
<1>2. x.out = <<>>
  BY <1>1 DEF Same, Alike
<1>3. Posted(c, y)
  BY DEF Same, Alike, Posted
<1>4. Among(outn2, outn)
  BY <1>2, AddsNone
<1> QED BY <1>3, <1>4, StillHalf DEF Both

LEMMA SameItself ==
  ASSUME NEW c \in Agents
  PROVE  Same(c, c)
BY DEF Same, Alike

\* A segment that arrives at an end that has not taken part
LEMMA UnusedArrives ==
  ASSUME NEW c, NEW n, NEW d, NEW m, NEW inn, NEW outn, Both(c, n, d, m, inn, outn),
         Unused(c, n), NEW i \in 1..Len(inn)
  PROVE  /\ d.state = "SYN_SENT" /\ From(inn[i], d) /\ ~inn[i].ack /\ ~inn[i].fin
         /\ c.state \in {"CLOSED", "LISTEN"} /\ Blank(c)
         /\ c.state = "LISTEN" => c.passive
<1>1. /\ d \in Agents /\ Ints(d) /\ Sends(d, inn) /\ Phase(d) /\ inn \in Seq(Segments)
  BY HalfParts
<1>2. /\ UnusedIs(c, n, d, m, outn) /\ UnusedIs(d, m, c, n, inn)
      /\ c.state = "LISTEN" => c.passive
  BY DEF Both, Half
<1>3. inn # <<>>
  <2>1. Len(inn) # 0
    BY <1>1
  <2> QED BY <2>1
<1>4. d.state = "SYN_SENT"
  BY <1>2, <1>3 DEF UnusedIs
<1>5. Calling(d, -1)
  BY <1>1, <1>4, Zenon DEF Phase
<1>6. d.maxseq = 1 /\ 0 <= d.curseq /\ d.rq = EmptyQueue(-1)
  BY <1>5, Zenon DEF Calling
<1>7. rcv_nxt(d) = -1
  BY <1>6 DEF rcv_nxt, EmptyQueue
<1>8. ~FinSent(d) /\ ~Blank(d)
  BY <1>1, <1>6 DEF FinSent, Blank, Ints
<1>9. From(inn[i], d)
  BY <1>1 DEF Sends
<1>10. Truthful(inn[i], d)
  BY <1>6, <1>9 DEF From
<1>11. inn[i].ackno \in Int
  BY <1>9 DEF From, Framed, Segments
<1>12. ~inn[i].ack
  <2>1. inn[i].ack => 1 <= inn[i].ackno
    BY <1>8, <1>9, Zenon DEF From
  <2>2. inn[i].ack => inn[i].ackno <= -1
    BY <1>7, <1>10 DEF Truthful
  <2> QED BY <1>11, <2>1, <2>2
<1>13. ~inn[i].fin
  BY <1>8, <1>10, Zenon DEF Truthful
<1>14. c.state \in {"CLOSED", "LISTEN"} /\ Blank(c)
  BY <1>2, Zenon DEF UnusedIs
<1> QED BY <1>2, <1>4, <1>9, <1>12, <1>13, <1>14, Zenon

LEMMA DeliverUnused ==
  ASSUME NEW c, NEW n, NEW d, NEW m, NEW inn, NEW outn, Both(c, n, d, m, inn, outn),
         Unused(c, n), NEW i \in 1..Len(inn), NEW x, x = Recv(c, inn[i]), NEW y, Posted(x, y),
         NEW inn2, Among(inn2, inn), NEW outn2, Adds(outn2, outn, x.out)
  PROVE  Both(y, n, d, m, inn2, outn2)
<1>1. /\ c \in Agents /\ Well(c) /\ Tuned(c) /\ c.out = <<>> /\ n \in Nat
  BY HalfParts
<1>2. PICK p : p = inn[i]
  OBVIOUS
<1>3. /\ d.state = "SYN_SENT" /\ From(p, d) /\ ~p.ack /\ ~p.fin
      /\ c.state \in {"CLOSED", "LISTEN"} /\ Blank(c)
      /\ c.state = "LISTEN" => c.passive
  BY <1>2, UnusedArrives
<1>4. CASE c.state = "CLOSED"
  <2>1. x = RecvClosed(c, p)
    <3>1. ~Predicted(c, p)
      BY <1>4 DEF Predicted
    <3> QED BY <1>2, <1>4, <3>1, Zenon DEF Recv
  <2>2. x = c
    BY <1>3, <2>1, Zenon DEF RecvClosed
  <2> QED BY <1>1, <2>2, SameItself, StillBoth
<1>5. CASE c.state = "LISTEN"
  <2>1. Framed(p)
    BY <1>3 DEF From
  <2>2. Same(c, x) \/ Accepts(c, x)
    BY <1>1, <1>2, <1>3, <1>5, <2>1, ListenRecv
  <2>3. CASE Same(c, x)
    BY <2>3, StillBoth
  <2>4. CASE Accepts(c, x)
    <3>1. /\ Well(x) /\ Calling(x, 1) /\ Tuned(x) /\ x.state = "SYN_RECEIVED"
          /\ x.passive = c.passive
      BY <2>4 DEF Accepts
    <3>2. Phase(x)
      BY <3>1 DEF Phase, DataFlows, FinGoes
    <3>3. Agent(y) /\ Sends(y, x.out)
      BY <3>1, <3>2, PostedAgent, WellSends
    <3>4. Calling(y, 1) /\ y.state = "SYN_RECEIVED" /\ y.passive = c.passive
      BY <3>1 DEF Calling, Posted
    <3>5. ~Unused(y, n)
      BY <1>3, <1>5, <3>4 DEF Unused
    <3>6. Enters(y, n, d, x.out)
      BY <1>3, <3>3, <3>4, <3>5 DEF Enters
    <3> QED BY <1>1, <3>6, EntersBoth DEF Both
  <2> QED BY <2>2, <2>3, <2>4
<1> QED BY <1>3, <1>4, <1>5

LEMMA DeliverBoth ==
  ASSUME NEW c, NEW n, NEW d, NEW m, NEW inn, NEW outn, Both(c, n, d, m, inn, outn),
         NEW i \in 1..Len(inn), NEW x, x = Recv(c, inn[i]), NEW y, Posted(x, y),
         NEW inn2, Among(inn2, inn), NEW outn2, Adds(outn2, outn, x.out)
  PROVE  Both(y, n, d, m, inn2, outn2)
<1>1. /\ c \in Agents /\ Well(c) /\ Tuned(c) /\ c.out = <<>> /\ n \in Nat /\ n <= n /\ Other(d)
  BY HalfParts
<1>2. PICK p : p = inn[i]
  OBVIOUS
<1>3. CASE Unused(c, n)
  BY <1>3, DeliverUnused
<1>4. CASE Gone(c, n)
  <2>1. c.state = "CLOSED" /\ Blank(c)
    BY <1>4 DEF Gone
  <2>2. Well(x) /\ Blank(x) /\ Tuned(x) /\ x.state = "CLOSED" /\ x.passive = c.passive /\ Idle(x)
    BY <1>1, <2>1, ClosedRecv
  <2>3. ~Unused(c, n) /\ Alone(d, m, outn)
    BY <1>4, GoneAlone
  <2> QED BY <2>2, <2>3, RestsBoth
<1>5. CASE Underway(c, d)
  <2>1. Arrives(p, c, d) /\ From(p, d) /\ ~Unused(d, m)
    BY <1>2, <1>5, UnderwayArrives
  <2>2. ~Unused(c, n)
    BY <1>5, UnderwayParts
  <2>3. x = Recv(c, p)
    BY <1>2
  <2>4. Meanwhile(c, d, p, x)
    <3>1. CASE Ready(c, d)
      BY <1>1, <2>1, <2>3, <3>1, ReadyRecv
    <3>2. CASE Awaits(c, d)
      <4>1. Goes(c, d, x)
        BY <1>1, <2>1, <2>3, <3>2, SynSentRecv, SynReceivedRecv DEF Awaits
      <4> QED BY <4>1 DEF Meanwhile
    <3> QED BY <1>5, <3>1, <3>2 DEF Underway
  <2>5. CASE Goes(c, d, x)
    BY <1>1, <2>1, <2>2, <2>5, MovesBoth
  <2>6. CASE c.state = "LAST_ACK" /\ p.ackno = c.maxseq /\ p.ack /\ Wiped(c, x)
    <3>1. Alone(d, m, outn)
      BY <2>1, <2>6, LastAckAlone
    <3>2. Well(x) /\ Blank(x) /\ Tuned(x) /\ x.state = "CLOSED" /\ x.passive = c.passive
      BY <2>6 DEF Wiped
    <3>3. Idle(x)
      <4>1. Len(x.out) = 0
        BY <1>1, <2>6 DEF Wiped
      <4> QED BY <4>1 DEF Idle
    <3> QED BY <2>2, <3>1, <3>2, <3>3, RestsBoth
  <2> QED BY <2>4, <2>5, <2>6 DEF Meanwhile
<1> QED BY <1>3, <1>4, <1>5, EndsAre

-----------------------------------------------------------------------------
(* The other steps of an end *)

\* A step of an agent gives an agent
LEMMA GoesAgent ==
  ASSUME NEW c, NEW d, NEW x, Goes(c, d, x)
  PROVE  x \in Agents
BY DEF Goes, Able, Well

LEMMA RecvAgent ==
  ASSUME NEW c, NEW n, NEW d, NEW m, NEW inn, NEW outn, Both(c, n, d, m, inn, outn),
         NEW i \in 1..Len(inn), NEW x, x = Recv(c, inn[i])
  PROVE  x \in Agents
<1>1. c \in Agents /\ Agent(c) /\ Other(d) /\ c.out = <<>> /\ Well(c) /\ Tuned(c)
  BY HalfParts
<1>2. CASE Unused(c, n)
  <2>1. Framed(inn[i]) /\ ~inn[i].ack /\ Blank(c) /\ c.state \in {"CLOSED", "LISTEN"}
    BY <1>2, UnusedArrives DEF From
  <2>2. CASE c.state = "LISTEN"
    BY <1>1, <2>1, <2>2, ListenRecv DEF Same, Accepts, Well
  <2>3. CASE c.state = "CLOSED"
    BY <1>1, <2>1, <2>3, ClosedRecv DEF Well
  <2> QED BY <2>1, <2>2, <2>3
<1>3. CASE Gone(c, n)
  BY <1>1, <1>3, ClosedRecv DEF Gone, Well
<1>4. CASE Underway(c, d)
  <2>1. Arrives(inn[i], c, d)
    BY <1>4, UnderwayArrives
  <2>2. CASE Awaits(c, d) /\ c.state = "SYN_SENT"
    BY <1>1, <2>1, <2>2, SynSentRecv, GoesAgent
  <2>3. CASE Awaits(c, d) /\ c.state = "SYN_RECEIVED"
    BY <1>1, <2>1, <2>3, SynReceivedRecv, GoesAgent
  <2>4. CASE Ready(c, d)
    <3>1. Meanwhile(c, d, inn[i], x)
      BY <1>1, <2>1, <2>4, ReadyRecv
    <3> QED BY <3>1, GoesAgent DEF Meanwhile, Wiped, Well
  <2> QED BY <1>4, <2>2, <2>3, <2>4 DEF Underway, Awaits
<1> QED BY <1>2, <1>3, <1>4, EndsAre

\* The agent c may become x, after k calls of its application
Leaves(c, n, d, m, inn, outn, x, k) ==
  /\ x \in Agents
  /\ \A y, inn2, outn2 :
       Posted(x, y) /\ Among(inn2, inn) /\ Adds(outn2, outn, x.out) => Both(y, k, d, m, inn2, outn2)

LEMMA DeliverLeaves ==
  ASSUME NEW c, NEW n, NEW d, NEW m, NEW inn, NEW outn, Both(c, n, d, m, inn, outn),
         NEW i \in 1..Len(inn), NEW x, x = Recv(c, inn[i])
  PROVE  Leaves(c, n, d, m, inn, outn, x, n)
<1>1. x \in Agents
  BY RecvAgent
<1>2. ASSUME NEW y, NEW inn2, NEW outn2, Posted(x, y), Among(inn2, inn), Adds(outn2, outn, x.out)
      PROVE  Both(y, n, d, m, inn2, outn2)
  BY <1>2, DeliverBoth
<1> QED BY <1>1, <1>2 DEF Leaves

LEMMA MovesLeaves ==
  ASSUME NEW c, NEW n, NEW d, NEW m, NEW inn, NEW outn, Both(c, n, d, m, inn, outn),
         ~Unused(c, n), NEW x, Goes(c, d, x), NEW k \in Nat, n <= k,
         c.state = "SYN_SENT" => x.state = "SYN_SENT"
  PROVE  Leaves(c, n, d, m, inn, outn, x, k)
<1>1. x \in Agents
  BY GoesAgent
<1>2. ASSUME NEW y, NEW inn2, NEW outn2, Posted(x, y), Among(inn2, inn), Adds(outn2, outn, x.out)
      PROVE  Both(y, k, d, m, inn2, outn2)
  BY <1>2, MovesBoth
<1> QED BY <1>1, <1>2 DEF Leaves

LEMMA UnusedBlank ==
  ASSUME NEW c, NEW n, NEW d, NEW m, NEW inn, NEW outn, Both(c, n, d, m, inn, outn),
         ~Underway(c, d)
  PROVE  Blank(c) /\ c.state \in {"CLOSED", "LISTEN"} /\ c \in Agents /\ ~c.rtx /\ ~c.delack
<1>1. c \in Agents
  BY HalfParts
<1>2. Unused(c, n) \/ Gone(c, n)
  BY EndsAre
<1>3. Blank(c) /\ c.state \in {"CLOSED", "LISTEN"}
  BY <1>2 DEF Both, Half, UnusedIs, Gone
<1> QED BY <1>1, <1>3 DEF Blank

\* sendmsg
LEMMA SendmsgBoth ==
  ASSUME NEW c, NEW n, NEW d, NEW m, NEW inn, NEW outn, Both(c, n, d, m, inn, outn),
         NEW b \in Int, 0 <= b, b <= Most, NEW eof \in BOOLEAN,
         b = 0 \/ c.curseq <= ISS, c.state = "CLOSED" => n = 0 /\ ~c.passive,
         NEW x, x = AdvanceBytes(c, b, eof), NEW k \in Nat, k = n + 1
  PROVE  Leaves(c, n, d, m, inn, outn, x, k)
<1>1. /\ c \in Agents /\ Other(d) /\ Tuned(c) /\ c.out = <<>> /\ n \in Nat
  BY HalfParts
<1>2. n <= k /\ k # 0
  BY <1>1
<1>3. CASE Underway(c, d)
  <2>1. ~Unused(c, n) /\ c.state # "LISTEN"
    BY <1>3, UnderwayParts
  <2>2. c.state # "CLOSED"
    BY <2>1 DEF Unused
  <2>3. Goes(c, d, x) /\ (c.state = "SYN_SENT" => x.state = "SYN_SENT")
    BY <1>1, <1>3, <2>2, AdvanceGoes
  <2> QED BY <1>2, <2>1, <2>3, MovesLeaves
<1>4. CASE ~Underway(c, d)
  <2>1. c.state \in {"CLOSED", "LISTEN"}
    BY <1>4, UnusedBlank
  <2>2. Unused(c, n)
    BY <2>1 DEF Unused
  <2>3. x = Connecting(c, b)
    BY <2>1, Zenon DEF AdvanceBytes, Connecting
  <2>4. Starts(c, x)
    BY <1>1, <2>3, ConnectStarts
  <2>5. Well(x) /\ Calling(x, -1) /\ Tuned(x) /\ x.state = "SYN_SENT"
    BY <2>4 DEF Starts
  <2>6. Phase(x)
    BY <2>5 DEF Phase, DataFlows, FinGoes
  <2>7. ASSUME NEW y, NEW inn2, NEW outn2, Posted(x, y), Among(inn2, inn),
               Adds(outn2, outn, x.out)
        PROVE  Both(y, k, d, m, inn2, outn2)
    <3>1. Agent(y) /\ Sends(y, x.out)
      BY <2>5, <2>6, <2>7, PostedAgent, WellSends
    <3>2. y.state = "SYN_SENT" /\ Calling(y, -1)
      BY <2>5, <2>7 DEF Posted, Calling
    <3>3. ~Unused(y, k)
      BY <1>2, <3>2 DEF Unused
    <3>4. Enters(y, k, d, x.out)
      BY <3>1, <3>2, <3>3 DEF Enters
    <3> QED BY <2>2, <2>7, <3>4, EntersBoth DEF Both
  <2>8. x \in Agents
    BY <2>5 DEF Well
  <2> QED BY <2>7, <2>8 DEF Leaves
<1> QED BY <1>3, <1>4

\* The retransmission timer
LEMMA TimeoutBoth ==
  ASSUME NEW c, NEW n, NEW d, NEW m, NEW inn, NEW outn, Both(c, n, d, m, inn, outn), c.rtx,
         NEW x, x = TimeoutAction(c)
  PROVE  Leaves(c, n, d, m, inn, outn, x, n)
<1>1. Other(d) /\ Tuned(c) /\ n \in Nat
  BY HalfParts
<1>2. Underway(c, d)
  BY UnusedBlank
<1>3. Goes(c, d, x) /\ (c.state = "SYN_SENT" => x.state = "SYN_SENT")
  BY <1>1, <1>2, TimeoutGoes
<1>4. ~Unused(c, n)
  BY <1>2, UnderwayParts
<1>5. n <= n
  BY <1>1
<1> QED BY <1>1, <1>3, <1>4, <1>5, MovesLeaves

\* The timer of delayed acknowledgements
LEMMA DelAckBoth ==
  ASSUME NEW c, NEW n, NEW d, NEW m, NEW inn, NEW outn, Both(c, n, d, m, inn, outn), c.delack,
         NEW x, x = SendMuch([c EXCEPT !.delack = FALSE, !.acknow = TRUE], TRUE)
  PROVE  Leaves(c, n, d, m, inn, outn, x, n)
<1>1. Other(d) /\ Tuned(c) /\ n \in Nat /\ n <= n
  BY HalfParts
<1>2. Underway(c, d)
  BY UnusedBlank
<1>3. ~Awaits(c, d)
  BY CallsParts
<1>4. Ready(c, d)
  BY <1>2, <1>3 DEF Underway
<1>5. Leads(c, d, x)
  BY <1>1, <1>4, DelAckLeads, Zenon
<1>6. Goes(c, d, x)
  BY <1>5, LeadsGoes
<1>7. c.state # "SYN_SENT"
  BY <1>4, ReadyParts DEF DataFlows, FinGoes
<1>8. ~Unused(c, n)
  BY <1>2, UnderwayParts
<1> QED BY <1>1, <1>6, <1>7, <1>8, MovesLeaves

\* close
LEMMA CloseBoth ==
  ASSUME NEW c, NEW n, NEW d, NEW m, NEW inn, NEW outn, Both(c, n, d, m, inn, outn),
         c.state \in DataFlows, NEW x, x = UsrClosed(c)
  PROVE  Leaves(c, n, d, m, inn, outn, x, n)
<1>1. Other(d) /\ Tuned(c) /\ n \in Nat /\ n <= n
  BY HalfParts
<1>2. Underway(c, d)
  BY UnusedBlank DEF DataFlows
<1>3. Ready(c, d) /\ c.out = <<>>
  BY <1>2 DEF Underway, Awaits, DataFlows
<1>4. Leads(c, d, x)
  BY <1>1, <1>3, UsrClosedLeads DEF DataFlows
<1>5. Goes(c, d, x)
  BY <1>4, LeadsGoes
<1>6. c.state # "SYN_SENT"
  BY DEF DataFlows
<1>7. ~Unused(c, n)
  BY <1>2, UnderwayParts
<1> QED BY <1>1, <1>5, <1>6, <1>7, MovesLeaves

\* A segment is lost
LEMMA LoseBoth ==
  ASSUME NEW c, NEW n, NEW d, NEW m, NEW inn, NEW outn, Both(c, n, d, m, inn, outn),
         NEW inn2, Among(inn2, inn), NEW outn2, Among(outn2, outn)
  PROVE  Both(c, n, d, m, inn2, outn2)
<1>1. c \in Agents /\ c.out = <<>>
  BY HalfParts
<1>2. Posted(c, c)
  BY <1>1 DEF Posted
<1> QED BY <1>2, StillHalf DEF Both

\* The network
LEMMA AmongItself ==
  ASSUME NEW s \in Seq(Segments)
  PROVE  Among(s, s)
BY DEF Among

LEMMA AmongTail ==
  ASSUME NEW s \in Seq(Segments), s # <<>>
  PROVE  Among(Tail(s), s)
<1>1. Tail(s) \in Seq(Segments) /\ Len(Tail(s)) = Len(s) - 1 /\ Len(s) \in Nat
  OBVIOUS
<1>2. \A i \in 1..Len(Tail(s)) : Tail(s)[i] = s[i + 1]
  OBVIOUS
<1>3. ASSUME NEW i \in 1..Len(Tail(s)) PROVE \E j \in 1..Len(s) : Tail(s)[i] = s[j]
  <2>1. i + 1 \in 1..Len(s)
    BY <1>1
  <2> QED BY <1>2, <2>1
<1> QED BY <1>1, <1>3 DEF Among

LEMMA AddsBehind ==
  ASSUME NEW t \in Seq(Segments), NEW s \in Seq(Segments)
  PROVE  Adds(t \o s, t, s)
<1>1. t \o s \in Seq(Segments) /\ Len(t \o s) = Len(t) + Len(s) /\ Len(t) \in Nat /\ Len(s) \in Nat
  OBVIOUS
<1>2. ASSUME NEW i \in 1..Len(t \o s)
      PROVE  \/ \E j \in 1..Len(t) : (t \o s)[i] = t[j]
             \/ \E j \in 1..Len(s) : (t \o s)[i] = s[j]
  <2>1. CASE i <= Len(t)
    <3>1. i \in 1..Len(t) /\ (t \o s)[i] = t[i]
      BY <1>1, <2>1
    <3> QED BY <3>1
  <2>2. CASE ~(i <= Len(t))
    <3>1. i - Len(t) \in 1..Len(s) /\ (t \o s)[i] = s[i - Len(t)]
      BY <1>1, <2>2
    <3> QED BY <3>1
  <2> QED BY <2>1, <2>2
<1> QED BY <1>1, <1>2 DEF Adds

LEMMA AmongRemoved ==
  ASSUME NEW s \in Seq(Segments), NEW i \in 1..Len(s)
  PROVE  Among(RemoveAt(s, i), s)
<1>1. Len(s) \in Nat /\ i \in Nat /\ 1 <= i /\ i <= Len(s)
  OBVIOUS
<1>2. PICK a : a = SubSeq(s, 1, i - 1)
  OBVIOUS
<1>3. PICK b : b = SubSeq(s, i + 1, Len(s))
  OBVIOUS
<1>4. RemoveAt(s, i) = a \o b
  BY <1>2, <1>3, Zenon DEF RemoveAt
<1>5. a \in Seq(Segments) /\ Len(a) = i - 1 /\ \A j \in 1..Len(a) : a[j] = s[j]
  <2>1. \A j \in 1..(i - 1) : s[j] \in Segments
    BY <1>1
  <2> QED BY <1>1, <1>2, <2>1
<1>6. b \in Seq(Segments) /\ Len(b) = Len(s) - i /\ \A j \in 1..Len(b) : b[j] = s[j + i]
  <2>1. \A j \in (i + 1)..Len(s) : s[j] \in Segments
    BY <1>1
  <2> QED BY <1>1, <1>3, <2>1
<1>7. Adds(a \o b, a, b)
  BY <1>5, <1>6, AddsBehind
<1>8. \A j \in 1..Len(a) : \E l \in 1..Len(s) : a[j] = s[l]
  <2>1. \A j \in 1..Len(a) : j \in 1..Len(s)
    BY <1>1, <1>5
  <2> QED BY <1>5, <2>1
<1>9. \A j \in 1..Len(b) : \E l \in 1..Len(s) : b[j] = s[l]
  <2>1. \A j \in 1..Len(b) : j + i \in 1..Len(s)
    BY <1>1, <1>6
  <2> QED BY <1>6, <2>1
<1>10. PICK u : u = a \o b
  OBVIOUS
<1>11. Adds(u, a, b)
  BY <1>7, <1>10, Zenon
<1>12. ASSUME NEW j \in 1..Len(u) PROVE \E l \in 1..Len(s) : u[j] = s[l]
  <2>1. (\E l \in 1..Len(a) : u[j] = a[l]) \/ (\E l \in 1..Len(b) : u[j] = b[l])
    BY <1>11, Zenon DEF Adds
  <2> QED BY <2>1, <1>8, <1>9, ZenonT(30)
<1>13. u \in Seq(Segments)
  BY <1>11 DEF Adds
<1>14. Among(u, s)
  BY <1>12, <1>13 DEF Among
<1> QED BY <1>4, <1>10, <1>14, Zenon

-----------------------------------------------------------------------------
(* The inductive invariant *)

Typed ==
  /\ DOMAIN conn = End /\ conn \in [End -> Agents] /\ net \in [End -> Seq(Segments)]
  /\ calls \in [End -> Nat] /\ drops \in [End -> Nat] /\ early \in Nat

InBounds ==
  /\ \A e \in End : calls[e] <= Calls[e]
  /\ drops["A"] + drops["B"] <= MaxDrops /\ early <= MaxEarly

Ends(e) == Both(conn[e], calls[e], conn[Peer(e)], calls[Peer(e)], net[e], net[Peer(e)])

IInv == Typed /\ InBounds /\ \A e \in End : Ends(e)

LEMMA Peers ==
  ASSUME NEW e \in End
  PROVE  Peer(e) \in End /\ Peer(e) # e /\ Peer(Peer(e)) = e /\ End = {e, Peer(e)}
BY DEF End, Peer

\* The agent at e has become x, and the rest follows
LEMMA BecomesEnds ==
  ASSUME Typed, NEW e \in End, NEW x, NEW arriving, Among(arriving, net[e]),
         Becomes(e, x, arriving), calls' \in [End -> Nat],
         \A f \in End : f # e => calls'[f] = calls[f],
         Leaves(conn[e], calls[e], conn[Peer(e)], calls[Peer(e)], net[e], net[Peer(e)], x, calls'[e])
  PROVE  /\ conn' \in [End -> Agents] /\ DOMAIN conn' = End /\ net' \in [End -> Seq(Segments)]
         /\ \A f \in End : Ends(f)'
<1>1. Peer(e) \in End /\ Peer(e) # e /\ Peer(Peer(e)) = e /\ End = {e, Peer(e)}
  BY Peers
<1>2. PICK y : y = [x EXCEPT !.out = <<>>]
  OBVIOUS
<1>3. x \in Agents /\ Posted(x, y)
  BY <1>2, PostedIs DEF Leaves
<1>4. conn' = [conn EXCEPT ![e] = y]
  BY <1>2, Zenon DEF Becomes
<1>5. y \in Agents
  BY <1>3 DEF Posted
<1>6. conn' \in [End -> Agents] /\ DOMAIN conn' = End /\ conn'[e] = y /\ conn'[Peer(e)] = conn[Peer(e)]
  BY <1>1, <1>4, <1>5 DEF Typed
<1>7. x.out \in Seq(Segments) /\ net[Peer(e)] \in Seq(Segments) /\ arriving \in Seq(Segments)
  BY <1>1, <1>3, AgentFields DEF AgentParts, Typed, Among
<1>8. PICK u : u = net[Peer(e)] \o x.out
  OBVIOUS
<1>9. u \in Seq(Segments) /\ Adds(u, net[Peer(e)], x.out)
  BY <1>7, <1>8, AddsBehind
<1>10. net' = [net EXCEPT ![e] = arriving, ![Peer(e)] = net[Peer(e)] \o x.out]
  BY <1>1, Zenon DEF Becomes
<1>11. net' = [net EXCEPT ![e] = arriving, ![Peer(e)] = u]
  BY <1>8, <1>10, Zenon
<1>12. net' \in [End -> Seq(Segments)] /\ net'[e] = arriving /\ net'[Peer(e)] = u
  BY <1>1, <1>7, <1>9, <1>11 DEF Typed
<1>13. Both(y, calls'[e], conn[Peer(e)], calls[Peer(e)], arriving, u)
  BY <1>3, <1>9 DEF Leaves
<1>14. calls'[Peer(e)] = calls[Peer(e)]
  BY <1>1
<1>15. Both(conn'[e], calls'[e], conn'[Peer(e)], calls'[Peer(e)], net'[e], net'[Peer(e)])
  BY <1>6, <1>12, <1>13, <1>14, Zenon
<1>16. Ends(e)'
  BY <1>15 DEF Ends
<1>17. Ends(Peer(e))'
  BY <1>1, <1>15 DEF Ends, Both
<1> QED BY <1>1, <1>6, <1>12, <1>16, <1>17

LEMMA EndsParts ==
  ASSUME Typed, NEW e \in End, Ends(e)
  PROVE  /\ conn[e] \in Agents /\ conn[Peer(e)] \in Agents /\ calls[e] \in Nat
         /\ net[e] \in Seq(Segments) /\ net[Peer(e)] \in Seq(Segments)
         /\ Among(net[e], net[e]) /\ Well(conn[e])
<1>1. /\ conn[e] \in Agents /\ conn[Peer(e)] \in Agents /\ calls[e] \in Nat
      /\ net[e] \in Seq(Segments) /\ net[Peer(e)] \in Seq(Segments)
  BY Peers DEF Typed
<1>2. Well(conn[e])
  BY DEF Ends, Both, Half, Agent
<1> QED BY <1>1, <1>2, AmongItself

-----------------------------------------------------------------------------
(* The steps of the specification *)

LEMMA SendmsgKeeps ==
  ASSUME IInv, NEW e \in End, NEW n \in {0, Data[e]}, NEW eof \in BOOLEAN, Sendmsg(e, n, eof)
  PROVE  IInv'
<1>1. Typed /\ InBounds /\ Ends(e)
  BY DEF IInv
<1>2. PICK x : x = AdvanceBytes(conn[e], n, eof)
  OBVIOUS
<1>3. /\ calls[e] < Calls[e] /\ (n = 0 \/ conn[e].curseq <= ISS)
      /\ conn[e].state = "CLOSED" => calls[e] = 0 /\ ~conn[e].passive
      /\ calls' = [calls EXCEPT ![e] = @ + 1] /\ drops' = drops /\ early' = early
  BY DEF Sendmsg
<1>4. Becomes(e, x, net[e])
  BY <1>2, Zenon DEF Sendmsg
<1>5. n \in Int /\ 0 <= n /\ n <= Most
  BY Bounds DEF End
<1>6. Calls[e] \in Nat /\ calls[e] \in Nat
  BY <1>1, Bounds DEF Typed
<1>7. /\ calls' \in [End -> Nat] /\ calls'[e] = calls[e] + 1 /\ calls'[e] \in Nat
      /\ \A f \in End : f # e => calls'[f] = calls[f]
  BY <1>1, <1>3 DEF Typed
<1>8. Both(conn[e], calls[e], conn[Peer(e)], calls[Peer(e)], net[e], net[Peer(e)])
  BY <1>1, Zenon DEF Ends
<1>9. Leaves(conn[e], calls[e], conn[Peer(e)], calls[Peer(e)], net[e], net[Peer(e)], x, calls'[e])
  BY <1>2, <1>3, <1>5, <1>7, <1>8, SendmsgBoth
<1>10. /\ conn' \in [End -> Agents] /\ DOMAIN conn' = End /\ net' \in [End -> Seq(Segments)]
       /\ \A f \in End : Ends(f)'
  BY <1>1, <1>4, <1>7, <1>9, EndsParts, BecomesEnds
<1>11. \A f \in End : calls'[f] <= Calls[f]
  <2>1. calls'[e] <= Calls[e]
    BY <1>3, <1>6, <1>7
  <2> QED BY <1>1, <1>7, <2>1 DEF InBounds
<1> QED BY <1>1, <1>3, <1>7, <1>10, <1>11 DEF IInv, Typed, InBounds

\* A step in which the agent at e becomes x and its application does not call
LEMMA StepKeeps ==
  ASSUME IInv, NEW e \in End, NEW x, NEW arriving, Among(arriving, net[e]),
         Becomes(e, x, arriving), calls' = calls, drops' = drops,
         early' \in Nat, early' <= MaxEarly,
         Leaves(conn[e], calls[e], conn[Peer(e)], calls[Peer(e)], net[e], net[Peer(e)], x, calls[e])
  PROVE  IInv'
<1>1. Typed /\ InBounds
  BY DEF IInv
<1>2. calls' \in [End -> Nat] /\ \A f \in End : f # e => calls'[f] = calls[f]
  BY <1>1 DEF Typed
<1>3. Leaves(conn[e], calls[e], conn[Peer(e)], calls[Peer(e)], net[e], net[Peer(e)], x, calls'[e])
  BY Zenon
<1>4. /\ conn' \in [End -> Agents] /\ DOMAIN conn' = End /\ net' \in [End -> Seq(Segments)]
      /\ \A f \in End : Ends(f)'
  BY <1>1, <1>2, <1>3, BecomesEnds
<1> QED BY <1>1, <1>2, <1>4 DEF IInv, Typed, InBounds

LEMMA CloseKeeps ==
  ASSUME IInv, CloseOnce, NEW e \in End, Close(e)
  PROVE  IInv'
<1>1. Typed /\ InBounds /\ Ends(e)
  BY DEF IInv
<1>2. PICK x : x = UsrClosed(conn[e])
  OBVIOUS
<1>3. Becomes(e, x, net[e])
  BY <1>2, Zenon DEF Close
<1>4. conn[e].state \in DataFlows /\ calls' = calls /\ drops' = drops /\ early' = early
  BY DEF Close, CloseOnce, DataFlows
<1>5. Both(conn[e], calls[e], conn[Peer(e)], calls[Peer(e)], net[e], net[Peer(e)])
  BY <1>1, Zenon DEF Ends
<1>6. Leaves(conn[e], calls[e], conn[Peer(e)], calls[Peer(e)], net[e], net[Peer(e)], x, calls[e])
  BY <1>2, <1>4, <1>5, CloseBoth
<1>7. early' \in Nat /\ early' <= MaxEarly
  BY <1>1, <1>4 DEF Typed, InBounds
<1> QED BY <1>1, <1>3, <1>4, <1>6, <1>7, EndsParts, StepKeeps

LEMMA DeliverKeeps ==
  ASSUME IInv, NEW e \in End, Deliver(e)
  PROVE  IInv'
<1>1. Typed /\ InBounds /\ Ends(e)
  BY DEF IInv
<1>2. net[e] \in Seq(Segments) /\ net[e] # <<>>
  BY <1>1, EndsParts DEF Deliver
<1>3. 1 \in 1..Len(net[e]) /\ Head(net[e]) = net[e][1]
  BY <1>2
<1>4. PICK x : x = Recv(conn[e], net[e][1])
  OBVIOUS
<1>5. Becomes(e, x, Tail(net[e]))
  BY <1>3, <1>4, Zenon DEF Deliver
<1>6. calls' = calls /\ drops' = drops /\ early' = early
  BY DEF Deliver
<1>7. Both(conn[e], calls[e], conn[Peer(e)], calls[Peer(e)], net[e], net[Peer(e)])
  BY <1>1, Zenon DEF Ends
<1>8. Leaves(conn[e], calls[e], conn[Peer(e)], calls[Peer(e)], net[e], net[Peer(e)], x, calls[e])
  BY <1>3, <1>4, <1>7, DeliverLeaves
<1>9. early' \in Nat /\ early' <= MaxEarly
  BY <1>1, <1>6 DEF Typed, InBounds
<1>10. Among(Tail(net[e]), net[e])
  BY <1>2, AmongTail
<1> QED BY <1>5, <1>6, <1>8, <1>9, <1>10, StepKeeps

LEMMA TimeoutKeeps ==
  ASSUME IInv, NEW e \in End, Timeout(e), MaxEarly \in Nat
  PROVE  IInv'
<1>1. Typed /\ InBounds /\ Ends(e)
  BY DEF IInv
<1>2. PICK x : x = TimeoutAction(conn[e])
  OBVIOUS
<1>3. Becomes(e, x, net[e])
  BY <1>2, Zenon DEF Timeout
<1>4. conn[e].rtx /\ calls' = calls /\ drops' = drops
  BY DEF Timeout
<1>5. early' = early \/ (early < MaxEarly /\ early' = early + 1)
  BY DEF Timeout
<1>6. Both(conn[e], calls[e], conn[Peer(e)], calls[Peer(e)], net[e], net[Peer(e)])
  BY <1>1, Zenon DEF Ends
<1>7. Leaves(conn[e], calls[e], conn[Peer(e)], calls[Peer(e)], net[e], net[Peer(e)], x, calls[e])
  BY <1>2, <1>4, <1>6, TimeoutBoth
<1>8. early' \in Nat /\ early' <= MaxEarly
  BY <1>1, <1>5 DEF Typed, InBounds
<1> QED BY <1>1, <1>3, <1>4, <1>7, <1>8, EndsParts, StepKeeps

LEMMA DelAckKeeps ==
  ASSUME IInv, NEW e \in End, DelAckTimer(e)
  PROVE  IInv'
<1>1. Typed /\ InBounds /\ Ends(e)
  BY DEF IInv
<1>2. PICK x : x = SendMuch([conn[e] EXCEPT !.delack = FALSE, !.acknow = TRUE], TRUE)
  OBVIOUS
<1>3. Becomes(e, x, net[e])
  BY <1>2, Zenon DEF DelAckTimer
<1>4. conn[e].delack /\ calls' = calls /\ drops' = drops /\ early' = early
  BY DEF DelAckTimer, Delaying
<1>5. Both(conn[e], calls[e], conn[Peer(e)], calls[Peer(e)], net[e], net[Peer(e)])
  BY <1>1, Zenon DEF Ends
<1>6. PICK c : c = conn[e]
  OBVIOUS
<1>7. Leaves(c, calls[e], conn[Peer(e)], calls[Peer(e)], net[e], net[Peer(e)], x, calls[e])
  <2>1. x = SendMuch([c EXCEPT !.delack = FALSE, !.acknow = TRUE], TRUE)
    BY <1>2, <1>6, Zenon
  <2>2. c.delack
    BY <1>4, <1>6, Zenon
  <2>3. Both(c, calls[e], conn[Peer(e)], calls[Peer(e)], net[e], net[Peer(e)])
    BY <1>5, <1>6, Zenon
  <2> QED BY <2>1, <2>2, <2>3, DelAckBoth, Zenon
<1>8. Leaves(conn[e], calls[e], conn[Peer(e)], calls[Peer(e)], net[e], net[Peer(e)], x, calls[e])
  BY <1>6, <1>7, Zenon
<1>9. early' \in Nat /\ early' <= MaxEarly
  BY <1>1, <1>4 DEF Typed, InBounds
<1> QED BY <1>1, <1>3, <1>4, <1>8, <1>9, EndsParts, StepKeeps

LEMMA LoseKeeps ==
  ASSUME IInv, NEW e \in End, NEW i \in DOMAIN net[Peer(e)], Lose(e, i), MaxDrops \in Nat
  PROVE  IInv'
<1>1. Typed /\ InBounds /\ Ends(e)
  BY DEF IInv
<1>2. /\ drops["A"] + drops["B"] < MaxDrops /\ net' = [net EXCEPT ![Peer(e)] = RemoveAt(@, i)]
      /\ drops' = [drops EXCEPT ![e] = @ + 1] /\ conn' = conn /\ calls' = calls /\ early' = early
  BY DEF Lose
<1>3. Peer(e) \in End /\ Peer(e) # e /\ Peer(Peer(e)) = e /\ End = {e, Peer(e)}
  BY Peers
<1>4. net[Peer(e)] \in Seq(Segments) /\ net[e] \in Seq(Segments) /\ Among(net[e], net[e])
  BY <1>1, EndsParts
<1>5. i \in 1..Len(net[Peer(e)])
  BY <1>4
<1>6. PICK s : s = RemoveAt(net[Peer(e)], i)
  OBVIOUS
<1>7. Among(s, net[Peer(e)]) /\ s \in Seq(Segments)
  BY <1>4, <1>5, <1>6, AmongRemoved DEF Among
<1>8. net' = [net EXCEPT ![Peer(e)] = s]
  BY <1>2, <1>6, Zenon
<1>9. net' \in [End -> Seq(Segments)] /\ net'[e] = net[e] /\ net'[Peer(e)] = s
  BY <1>1, <1>3, <1>7, <1>8 DEF Typed
<1>10. Both(conn[e], calls[e], conn[Peer(e)], calls[Peer(e)], net[e], net[Peer(e)])
  BY <1>1, Zenon DEF Ends
<1>11. Both(conn[e], calls[e], conn[Peer(e)], calls[Peer(e)], net[e], s)
  BY <1>4, <1>7, <1>10, LoseBoth
<1>12. Both(conn'[e], calls'[e], conn'[Peer(e)], calls'[Peer(e)], net'[e], net'[Peer(e)])
  BY <1>2, <1>9, <1>11, Zenon
<1>13. Ends(e)' /\ Ends(Peer(e))'
  BY <1>3, <1>12 DEF Ends, Both
<1>14. \A f \in End : Ends(f)'
  BY <1>3, <1>13
<1>15. drops' \in [End -> Nat] /\ drops'["A"] + drops'["B"] <= MaxDrops
  <2>1. drops["A"] \in Nat /\ drops["B"] \in Nat /\ drops[e] \in Nat
    BY <1>1 DEF Typed, End
  <2>2. drops' \in [End -> Nat] /\ drops'[e] = drops[e] + 1 /\ drops'[Peer(e)] = drops[Peer(e)]
    BY <1>1, <1>2, <1>3, <2>1 DEF Typed
  <2>3. CASE e = "A"
    BY <1>2, <2>1, <2>2, <2>3 DEF Peer
  <2>4. CASE e = "B"
    BY <1>2, <2>1, <2>2, <2>4 DEF Peer
  <2> QED BY <2>2, <2>3, <2>4 DEF End
<1> QED BY <1>1, <1>2, <1>9, <1>14, <1>15 DEF IInv, Typed, InBounds

-----------------------------------------------------------------------------
(* The initial states *)

\* An agent before anything
LEMMA FreshAgent ==
  ASSUME NEW st \in States, NEW b \in BOOLEAN, NEW x, x = Fresh(st, b)
  PROVE  x \in Agents /\ Blank(x) /\ Tuned(x) /\ Fits(x) /\ x.state = st /\ x.passive = b /\ x.out = <<>>
<1>1. x.out = <<>>
  BY DEF Fresh
<1>2. PICK out \in Seq(Segments) : out = <<>>
  <2>1. <<>> \in Seq(Segments)
    OBVIOUS
  <2> QED BY <2>1, Zenon
<1>3. PICK y : y = Renewed(st, b, out)
  OBVIOUS
<1>4. y = [x EXCEPT !.out = out]
  BY <1>3, Zenon DEF Renewed
<1>5. y = x
  BY <1>1, <1>2, <1>4 DEF Fresh
<1>6. x = Renewed(st, b, out)
  BY <1>3, <1>5, Zenon
<1>7. x \in Agents /\ Blank(x) /\ Tuned(x) /\ Fits(x) /\ x.state = st /\ x.passive = b
  BY <1>6, FreshIs
<1> QED BY <1>1, <1>7, Zenon

LEMMA FreshHalf ==
  ASSUME NEW c, NEW d, NEW st \in {"CLOSED", "LISTEN"}, NEW b \in BOOLEAN, b <=> st = "LISTEN",
         c = Fresh(st, b), NEW st2 \in {"CLOSED", "LISTEN"}, NEW b2 \in BOOLEAN,
         b2 <=> st2 = "LISTEN", d = Fresh(st2, b2), NEW none \in Seq(Segments), none = <<>>
  PROVE  Half(c, 0, d, 0, none, none)
<1>1. st \in States /\ st2 \in States
  BY DEF States
<1>2. c \in Agents /\ Blank(c) /\ Tuned(c) /\ Fits(c) /\ c.state = st /\ c.passive = b /\ c.out = <<>>
  BY <1>1, FreshAgent
<1>3. d \in Agents /\ Blank(d) /\ Tuned(d) /\ Fits(d) /\ d.state = st2 /\ d.passive = b2 /\ d.out = <<>>
  BY <1>1, FreshAgent
<1>4. Agent(c)
  BY <1>2 DEF Agent, Well, OutFrom, Phase, DataFlows, FinGoes
<1>5. Unused(c, 0) /\ Unused(d, 0)
  BY <1>2, <1>3 DEF Unused
<1>6. Side(c, d)
  <2>1. ~(1 <= d.maxseq) /\ c.highest_ack = -1 /\ rcv_nxt(d) = -1
    BY <1>2, <1>3, AgentInts DEF Blank, Ints, rcv_nxt, EmptyQueue
  <2> QED BY <1>2, <1>3, <2>1 DEF Side, Hears, FinCame
<1>7. Sends(d, none)
  BY DEF Sends
<1>8. LastFins(c, d, none) /\ UnusedIs(c, 0, d, 0, none) /\ LeftBehind(c, 0, d, 0, none)
  BY <1>2, <1>3, <1>5 DEF LastFins, UnusedIs, LeftBehind, Gone
<1> QED BY <1>2, <1>4, <1>5, <1>6, <1>7, <1>8 DEF Half

LEMMA InitInv ==
  ASSUME Init, MaxEarly \in Nat, MaxDrops \in Nat
  PROVE  IInv
<1>1. PICK listening \in BOOLEAN :
       conn = [A |-> Fresh("CLOSED", FALSE),
               B |-> Fresh(IF listening THEN "LISTEN" ELSE "CLOSED", listening)]
  BY DEF Init
<1>2. PICK st \in {"CLOSED", "LISTEN"} : st = IF listening THEN "LISTEN" ELSE "CLOSED"
  OBVIOUS
<1>3. PICK sa \in {"CLOSED", "LISTEN"} : sa = "CLOSED"
  OBVIOUS
<1>4. PICK no \in BOOLEAN : no = FALSE
  OBVIOUS
<1>5. PICK a : a = Fresh(sa, no)
  OBVIOUS
<1>6. PICK b : b = Fresh(st, listening)
  OBVIOUS
<1>7. conn = [A |-> a, B |-> b]
  BY <1>1, <1>2, <1>3, <1>4, <1>5, <1>6, Zenon
<1>8. (listening <=> st = "LISTEN") /\ (no <=> sa = "LISTEN")
  BY <1>2, <1>3, <1>4
<1>9. a \in Agents /\ b \in Agents
  BY <1>5, <1>6, FreshAgent DEF States
<1>10. DOMAIN conn = End /\ conn["A"] = a /\ conn["B"] = b /\ conn \in [End -> Agents]
  BY <1>7, <1>9 DEF End
<1>11. PICK none \in Seq(Segments) : none = <<>>
  <2>1. <<>> \in Seq(Segments)
    OBVIOUS
  <2> QED BY <2>1, Zenon
<1>12. /\ net = [e \in End |-> <<>>] /\ calls = [e \in End |-> 0] /\ drops = [e \in End |-> 0]
       /\ early = 0
  BY DEF Init
<1>13. /\ net \in [End -> Seq(Segments)] /\ net["A"] = none /\ net["B"] = none
       /\ calls["A"] = 0 /\ calls["B"] = 0 /\ drops["A"] = 0 /\ drops["B"] = 0
  BY <1>11, <1>12 DEF End
<1>14. calls \in [End -> Nat] /\ drops \in [End -> Nat]
  BY <1>12
<1>15. Half(a, 0, b, 0, none, none) /\ Half(b, 0, a, 0, none, none)
  BY <1>5, <1>6, <1>8, <1>11, FreshHalf
<1>16. Both(conn["A"], calls["A"], conn["B"], calls["B"], net["A"], net["B"])
  BY <1>10, <1>13, <1>15, Zenon DEF Both
<1>17. Ends("A") /\ Ends("B")
  BY <1>16 DEF Ends, Both, Peer
<1>18. \A e \in End : calls[e] <= Calls[e]
  BY <1>12, Bounds
<1> QED BY <1>10, <1>12, <1>13, <1>14, <1>17, <1>18 DEF IInv, Typed, InBounds, End

LEMMA NextKeeps ==
  ASSUME IInv, CloseOnce, [Next]_vars, MaxEarly \in Nat, MaxDrops \in Nat
  PROVE  IInv'
<1>1. ASSUME NEW e \in End, NEW n \in {0, Data[e]}, NEW eof \in BOOLEAN, Sendmsg(e, n, eof)
      PROVE  IInv'
  BY <1>1, SendmsgKeeps
<1>2. ASSUME NEW e \in End, Close(e) PROVE IInv'
  BY <1>2, CloseKeeps
<1>3. ASSUME NEW e \in End, Timeout(e) PROVE IInv'
  BY <1>3, TimeoutKeeps
<1>4. ASSUME NEW e \in End, DelAckTimer(e) PROVE IInv'
  BY <1>4, DelAckKeeps
<1>5. ASSUME NEW e \in End, Deliver(e) PROVE IInv'
  BY <1>5, DeliverKeeps
<1>6. ASSUME NEW e \in End, NEW i \in DOMAIN net[Peer(e)], Lose(e, i) PROVE IInv'
  BY <1>6, LoseKeeps
<1>7. CASE UNCHANGED vars
  BY <1>7 DEF vars, IInv, Typed, InBounds, Ends
<1> QED BY <1>1, <1>2, <1>3, <1>4, <1>5, <1>6, <1>7, Zenon DEF Next

-----------------------------------------------------------------------------
(* What the invariant says *)

\* The numbers of an agent
InRange(c) ==
  /\ -1 <= c.maxseq /\ c.maxseq <= Most + 2
  /\ -1 <= c.highest_ack /\ c.highest_ack <= Most + 2
  /\ -1 <= rcv_nxt(c) /\ rcv_nxt(c) <= Most + 2
  /\ 0 <= c.t_seqno /\ c.t_seqno <= Most + 2
  /\ -2 <= c.curseq /\ c.curseq <= Most + 2

LEMMA AgentRange ==
  ASSUME NEW c, Agent(c)
  PROVE  InRange(c)
<1>1. /\ c \in Agents /\ Ints(c) /\ Phase(c) /\ c.state \in States
      /\ c.curseq <= Most /\ rcv_nxt(c) <= Most + 2 /\ Most \in Nat
  BY AgentInts, AgentFields, Bounds DEF Agent, Well, Fits, AgentParts
<1>2. CASE Blank(c)
  BY <1>1, <1>2 DEF InRange, Blank, rcv_nxt, EmptyQueue, Ints
<1>3. ASSUME NEW n \in {-1, 1}, Calling(c, n) PROVE InRange(c)
  BY <1>1, <1>3 DEF InRange, Calling, rcv_nxt, EmptyQueue, Ints
<1>4. CASE Sending(c)
  BY <1>1, <1>4 DEF InRange, Sending, Talking, Ints
<1>5. CASE Winding(c)
  BY <1>1, <1>5 DEF InRange, Winding, Talking, Ints
<1>6. CASE Answered(c)
  BY <1>1, <1>6 DEF InRange, Answered, Ints
<1> QED BY <1>1, <1>2, <1>3, <1>4, <1>5, <1>6, Zenon DEF Phase, Ending, States, DataFlows, FinGoes

\* What an end knows of the other
LEMMA EndsOrder ==
  ASSUME NEW c, NEW n, NEW d, NEW m, NEW inn, NEW outn, Both(c, n, d, m, inn, outn)
  PROVE  /\ d.state # "CLOSED" => c.highest_ack <= rcv_nxt(d)
         /\ c.state # "CLOSED" => rcv_nxt(d) <= c.maxseq
         /\ c.state \in FinCame => rcv_nxt(c) = d.maxseq
<1>1. /\ c \in Agents /\ d \in Agents /\ Phase(c) /\ Phase(d) /\ Ints(c) /\ Ints(d)
      /\ Side(c, d) /\ Side(d, c) /\ UnusedIs(c, n, d, m, outn) /\ UnusedIs(d, m, c, n, inn)
  BY HalfParts DEF Pair, Both, Half
<1>2. d.state # "CLOSED" => c.highest_ack <= rcv_nxt(d)
  BY <1>1 DEF Side
<1>3. c.state \in FinCame => rcv_nxt(c) = d.maxseq
  BY <1>1 DEF Side, Hears
<1>4. ASSUME c.state # "CLOSED" PROVE rcv_nxt(d) <= c.maxseq
  <2>1. CASE 1 <= c.maxseq
    BY <1>1, <2>1 DEF Side, Hears
  <2>2. CASE ~(1 <= c.maxseq)
    <3>1. c.state = "LISTEN" /\ Blank(c)
      BY <1>1, <1>4, <2>2, OtherBlank
    <3>2. Unused(d, m) \/ d.state = "SYN_SENT"
      BY <1>1, <3>1 DEF UnusedIs, Unused
    <3>3. Blank(d) \/ Calling(d, -1)
      BY <1>1, <3>2 DEF UnusedIs, Phase
    <3>4. rcv_nxt(d) = -1
      BY <3>3 DEF Blank, Calling, rcv_nxt, EmptyQueue
    <3> QED BY <3>1, <3>4 DEF Blank
  <2> QED BY <2>1, <2>2
<1> QED BY <1>2, <1>3, <1>4

LEMMA InvOrder ==
  ASSUME IInv
  PROVE  AckOrder
<1>1. ASSUME NEW e \in End
      PROVE  /\ conn[Peer(e)].state # "CLOSED" => conn[e].highest_ack <= rcv_nxt(conn[Peer(e)])
             /\ conn[e].state # "CLOSED" => rcv_nxt(conn[Peer(e)]) <= conn[e].maxseq
             /\ conn[e].state \in FinCame => rcv_nxt(conn[e]) = conn[Peer(e)].maxseq
  <2>1. Both(conn[e], calls[e], conn[Peer(e)], calls[Peer(e)], net[e], net[Peer(e)])
    BY DEF IInv, Ends
  <2> QED BY <2>1, EndsOrder
<1> QED BY <1>1 DEF AckOrder, FinCame

\* TypeOK of one end
AgentOK(c, top) ==
  /\ c.state \in {"CLOSED", "LISTEN", "SYN_SENT", "SYN_RECEIVED", "ESTABLISHED",
                  "CLOSE_WAIT", "LAST_ACK", "FIN_WAIT_1", "FIN_WAIT_2", "CLOSING"}
  /\ {c.maxseq, c.highest_ack, c.last_ack_sent, rcv_nxt(c)} \subseteq -1 .. top
  /\ {c.t_seqno, c.recover} \subseteq 0 .. top
  /\ c.curseq \in -2 .. top
  /\ c.dupacks \in 0 .. Thresh + 1 /\ c.cwnd \in 1 .. 2
  /\ c.out = <<>>
  /\ \A f \in {"passive", "rtx", "dtimer", "acknow", "delack",
               "close_on_empty", "fastrecov", "lastdup"} : c[f] \in BOOLEAN

Packets(top) ==
  [seq : 0 .. top, ackno : -1 .. top, len : 0 .. MSS,
   syn : BOOLEAN, fin : BOOLEAN, ack : BOOLEAN]

LEMMA AgentTyped ==
  ASSUME NEW c, Agent(c), NEW top \in Int, top = Most + 2
  PROVE  AgentOK(c, top)
<1>1. c \in Agents /\ Ints(c) /\ InRange(c) /\ Tuned(c) /\ Fits(c) /\ c.out = <<>>
  BY AgentInts, AgentRange DEF Agent, Well
<1>2. Most \in Nat /\ Thresh \in Nat
  BY Bounds
<1>3. /\ -1 <= c.maxseq /\ c.maxseq <= top /\ -1 <= c.highest_ack /\ c.highest_ack <= top
      /\ -1 <= rcv_nxt(c) /\ rcv_nxt(c) <= top /\ 0 <= c.t_seqno /\ c.t_seqno <= top
      /\ -2 <= c.curseq /\ c.curseq <= top
  BY <1>1, <1>2 DEF InRange
<1>4. -1 <= c.last_ack_sent /\ c.last_ack_sent <= top
  BY <1>1, <1>2, <1>3 DEF Fits, Ints
<1>5. 0 <= c.recover /\ c.recover <= top
  BY <1>1, <1>2, <1>3 DEF Fits, Ints, MaxOf
<1>6. AgentParts(c)
  BY <1>1, AgentFields
<1>7. {c.maxseq, c.highest_ack, c.last_ack_sent, rcv_nxt(c)} \subseteq -1 .. top
  BY <1>1, <1>3, <1>4 DEF Ints
<1>8. {c.t_seqno, c.recover} \subseteq 0 .. top
  BY <1>1, <1>3, <1>5 DEF Ints
<1>9. c.curseq \in -2 .. top
  BY <1>1, <1>3 DEF Ints
<1>10. c.dupacks \in 0 .. Thresh + 1 /\ c.cwnd \in 1 .. 2
  BY <1>1, <1>2 DEF Ints, Tuned
<1>11. c.state \in States
  BY <1>6 DEF AgentParts
<1>12. \A f \in {"passive", "rtx", "dtimer", "acknow", "delack",
                 "close_on_empty", "fastrecov", "lastdup"} : c[f] \in BOOLEAN
  BY <1>6 DEF AgentParts
<1> QED BY <1>1, <1>7, <1>8, <1>9, <1>10, <1>11, <1>12 DEF AgentOK, States

LEMMA SendsTyped ==
  ASSUME NEW d, NEW s, Sends(d, s), NEW top \in Int, top = Most + 2
  PROVE  s \in Seq(Packets(top))
<1>1. ASSUME NEW i \in 1..Len(s) PROVE s[i] \in Packets(top)
  <2>1. Framed(s[i])
    BY DEF Sends, From
  <2>2. Most \in Nat /\ MSS \in Nat
    BY Bounds
  <2> QED BY <2>1, <2>2 DEF Framed, Segments, Packets
<1>2. s \in Seq(Segments)
  BY DEF Sends
<1> QED BY <1>1, <1>2

LEMMA InvTyped ==
  ASSUME IInv
  PROVE  TypeOK
<1>1. PICK top \in Int : top = Most + 2
  BY Bounds
<1>2. ASSUME NEW e \in End
      PROVE  /\ AgentOK(conn[e], top) /\ net[e] \in Seq(Packets(top))
             /\ calls[e] \in 0 .. Calls[e]
  <2>1. Agent(conn[e]) /\ Sends(conn[Peer(e)], net[e])
    BY DEF IInv, Ends, Both, Half
  <2>2. calls[e] \in Nat /\ calls[e] <= Calls[e] /\ Calls[e] \in Nat
    BY Bounds DEF IInv, Typed, InBounds
  <2> QED BY <1>1, <2>1, <2>2, AgentTyped, SendsTyped
<1>3. top = MaxOf(Data["A"], Data["B"]) + 2
  BY <1>1 DEF Most
<1>4. drops["A"] + drops["B"] <= MaxDrops /\ early \in 0 .. MaxEarly
  BY ConnectionAssumption DEF IInv, Typed, InBounds
<1> QED BY <1>2, <1>3, <1>4, Zenon DEF TypeOK, AgentOK, Packets

-----------------------------------------------------------------------------
(* The theorems *)

\* The bounds of what the links and the timers do
LEMMA BoundsAreNumbers == MaxEarly \in Nat /\ MaxDrops \in Nat
BY ConnectionAssumption

LEMMA ConnectionInv ==
  ASSUME CloseOnce
  PROVE  Spec => []IInv
<1>1. Init => IInv
  BY InitInv, BoundsAreNumbers
<1>2. IInv /\ [Next]_vars => IInv'
  BY NextKeeps, BoundsAreNumbers
<1> QED BY <1>1, <1>2, PTL DEF Spec

\* Type correctness: every number of an agent, and of every segment on its way,
\* stays within the data and the two numbers of SYN and FIN (recv, foutput).
THEOREM ConnectionTypes ==
  ASSUME CloseOnce
  PROVE  Spec => []TypeOK
<1>1. IInv => TypeOK
  BY InvTyped
<1> QED BY <1>1, ConnectionInv, PTL

\* What one end has seen acknowledged the other has received, and what that one
\* has received was sent, SYN and FIN included, from opening to close, whatever
\* is lost and however early timers fire; an end that takes the connection as
\* closed by the other side has received everything up to and with the FIN of
\* that side (newack, reass, the data and FIN steps of recv).
THEOREM ConnectionAcks ==
  ASSUME CloseOnce
  PROVE  Spec => []AckOrder
<1>1. IInv => AckOrder
  BY InvOrder
<1> QED BY <1>1, ConnectionInv, PTL
==============================================================================
