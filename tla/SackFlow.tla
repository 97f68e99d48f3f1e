------------------------------- MODULE SackFlow -------------------------------
(***************************************************************************)
(* One flow of one-way TCP with selective acknowledgements: a Sack1TcpAgent *)
(* with its scoreboard (ScoreBoardRQ, a shim over the reassembly queue of   *)
(* FullTcp) and a TcpSink or DelAckSink with a Sacker.                      *)
(*                                                                          *)
(* Packets are numbered; curseq_ is N.  Both directions are FIFO and may    *)
(* lose packets.  cwnd_ is an integer held to wnd_; whether fractional      *)
(* growth reaches the next integer is a choice.  pipe_ is read only in fast *)
(* recovery, which sets it, and is 0 elsewhere.  Options at their defaults: *)
(* bugFix_, singledup_, syn_, delay_growth_ on; partial_ack_, ECN, quick    *)
(* start, F-RTO, generateDSacks_ off; maxburst_ and overhead_ 0.            *)
(***************************************************************************)
EXTENDS Integers, Sequences, FiniteSets, SequencesExt, ReassemblyQueue

CONSTANTS
  N,         \* curseq_: packets of the flow, the SYN included
  W,         \* wnd_
  Thresh,    \* numdupacks_
  NBlocks,   \* maxSackBlocks_
  MaxDrops,  \* bound: packets lost
  MaxEarly   \* bound: timeouts with packets still under way

ASSUME SackFlowAssumption ==
  /\ N \in Nat /\ N >= 2 /\ W \in Nat \ {0} /\ Thresh \in Nat /\ Thresh >= 2
  /\ NBlocks \in Nat \ {0} /\ MaxDrops \in Nat /\ MaxEarly \in Nat

VARIABLES
  snd,           \* the sender, a record of its fields
  next, seen,    \* the sink: next_, packets above it that were seen
  blocks,        \* the sink: SACK blocks it remembers, the newest first
  delayed,       \* the sink: the packet in save_, whose delay timer runs, or -1
  data, acks,    \* the network
  drops, early

sink == <<next, seen, blocks, delayed>>
vars == <<snd, sink, data, acks, drops, early>>

MinOf(a, b) == IF a <= b THEN a ELSE b
MaxOf(a, b) == IF a >= b THEN a ELSE b

-----------------------------------------------------------------------------
(* The scoreboard.  h is h_seqno_, q the queue; its nxt is sack_min.        *)

Cleared(s) == [s EXCEPT !.q = EmptyQueue(@.nxt), !.h = -1]

Total(q) == FoldLeft(LAMBDA n, b : n + b.e - b.s, 0, q.fifo)

\* UpdateScoreBoard: what is acknowledged is cleared, the blocks are added
AckedBoard(s) ==
  IF s.q.nxt > s.high THEN s.q ELSE Clearto([s.q EXCEPT !.nxt = s.high + 1]).queue

\* Mutant of AddBlocks: the right edge of a block is taken for its last packet
AddBlocksInclusive(q, sack) ==
  LET board[i \in 0..Len(sack)] ==
        IF i = 0 THEN q ELSE Add(board[i - 1], Block(sack[i].l, sack[i].r + 1, FALSE)).queue
  IN  board[Len(sack)]

AddBlocks(q, sack) ==
  LET board[i \in 0..Len(sack)] ==
        IF i = 0 THEN q ELSE Add(board[i - 1], Block(sack[i].l, sack[i].r, FALSE)).queue
  IN  board[Len(sack)]

Updated(s, p) == [s EXCEPT !.q = AddBlocks(AckedBoard(s), p.sack)]

\* CheckUpdate: from s to u the scoreboard was told something
Changed(s, u) == Total(u.q) # Total(s.q) \/ (s.q.nxt <= s.high /\ s.q.fifo # <<>>)

\* MarkRetran
Marked(s, seq) == [s EXCEPT !.h = IF seq >= @ THEN seq + 1 ELSE @]

\* Mutant of NextRetran: the search starts over at sack_min
NextRetranAgain(s) ==
  LET r == Nexthole(s.q, s.q.nxt)
  IN  [seq |-> IF r.seq > 0 /\ r.above > 0 THEN r.seq ELSE -1, h |-> s.h]

\* GetNextRetran: a hole below something selectively acknowledged, not yet
\* retransmitted, or -1
NextRetran(s) ==
  LET h == MaxOf(s.h, s.q.nxt)
      r == Nexthole(s.q, h)
  IN  IF r.seq > 0 /\ r.above > 0 THEN [seq |-> r.seq, h |-> MaxOf(h, r.seq)]
      ELSE [seq |-> -1, h |-> h]

-----------------------------------------------------------------------------
(* The sender *)

\* output
Output(s, seq) ==
  [s EXCEPT !.max = MaxOf(@, seq), !.rtx = TRUE, !.out = Append(@, seq)]

\* One round of the loop of send_much; "more" ends it
SendOne(s) ==
  LET g    == NextRetran(s)
      s1   == [s EXCEPT !.h = g.h]
      seq  == IF g.seq = -1 THEN s.t ELSE g.seq
      may  == IF g.seq = -1
              THEN s.t <= s.high + (IF s.fast THEN W ELSE s.cwnd) /\ s.t < N
              ELSE s.recover > 0 /\ seq <= s.high + W
      sent == [Output(IF g.seq = -1 THEN s1 ELSE Marked(s1, seq), seq)
                 EXCEPT !.t = MaxOf(@, seq + 1), !.pipe = IF s.fast THEN @ + 1 ELSE 0]
  IN  IF ~s.more THEN s
      ELSE IF ~ (/\ IF s.fast THEN s.pipe < s.cwnd ELSE s.t <= s.last + s.cwnd
                 /\ s.last + 1 < N)
      THEN [s EXCEPT !.more = FALSE]
      ELSE IF may THEN sent ELSE [s1 EXCEPT !.more = FALSE]

\* Bound: a loop sends every packet at most twice
SendMuch(s) ==
  LET round[i \in 0 .. 2 * N] == IF i = 0 THEN [s EXCEPT !.more = TRUE] ELSE SendOne(round[i - 1])
  IN  round[2 * N]

\* Mutant of LimitedTransmit: the end of the flow is not looked at
LimitedTransmitPast(s) ==
  IF s.t <= s.high + MinOf(W, s.cwnd + s.dup)
  THEN [Output(s, s.t) EXCEPT !.t = @ + 1]
  ELSE s

\* singledup_: limited transmit
LimitedTransmit(s) ==
  IF s.t <= s.high + MinOf(W, s.cwnd + s.dup) /\ s.t < N
  THEN [Output(s, s.t) EXCEPT !.t = @ + 1]
  ELSE s

\* Mutant of Acked: a new acknowledgement stops the timer
AckedStops(s, a) ==
  [s EXCEPT !.dup = 0, !.last = a, !.high = a, !.t = MaxOf(@, a + 1), !.rtx = FALSE]

\* newack
Acked(s, a) ==
  [s EXCEPT !.dup = 0, !.last = a, !.high = a, !.t = MaxOf(@, a + 1), !.rtx = TRUE]

\* opencwnd, or when just the SYN is acknowledged the initial window, which
\* replaces the one that the SYN opened (1 if the SYN had been lost)
Opened(s, a) ==
  IF a = 0 THEN {MinOf(W, 1), MinOf(W, 2)}
  ELSE IF s.cwnd < 2 THEN {MinOf(W, s.cwnd + 1)}
  ELSE {s.cwnd, MinOf(W, s.cwnd + 1)}

\* dupack_action: at most one fast retransmit per window of data
CanRecover(s) == s.high > s.recover \/ s.high = 0

FastRetransmit(s) ==
  IF ~CanRecover(s) THEN s
  ELSE Output(Marked([s EXCEPT !.recover = s.max, !.pipe = s.max - s.high - Thresh,
                               !.fast = TRUE, !.cwnd = @ \div 2], s.high + 1), s.last + 1)

\* recv outside fast recovery; after a timeout duplicates are ignored
NewAck(s, p) ==
  /\ ~s.fast /\ p.ack > s.last
  /\ \E c \in Opened(s, p.ack) :
       snd' = SendMuch(Cleared([Acked(s, p.ack) EXCEPT !.tmo = FALSE, !.cwnd = c]))

\* The count saturates at Thresh + 1, of which only "above" matters
Counted(s) == [s EXCEPT !.dup = MinOf(@ + 1, Thresh + 1)]

DupAck(s, p) ==
  /\ ~s.fast /\ p.ack = s.last /\ ~s.tmo
  /\ \E u \in {Updated(s, p)} :
       \/ ~Changed(s, u) /\ snd' = IF u.dup = 0 THEN SendMuch(u) ELSE u
       \/ /\ Changed(s, u)
          /\ \E c \in {Counted(u)} :
               snd' = IF c.dup = Thresh THEN FastRetransmit(c)
                      ELSE IF c.dup < Thresh THEN LimitedTransmit(c) ELSE c

AfterTimeout(s, p) ==
  /\ ~s.fast /\ p.ack = s.last /\ s.tmo
  /\ snd' = SendMuch(s)

\* recv in fast recovery
FullAck(s, p) ==
  /\ s.fast /\ p.ack >= s.recover
  /\ snd' = SendMuch(Cleared([Acked(s, p.ack)
              EXCEPT !.recover = 0, !.fast = FALSE, !.pipe = 0, !.tmo = FALSE]))

PartialAck(s, p) ==
  /\ s.fast /\ p.ack < s.recover /\ p.ack > s.high
  /\ \E u \in {[s EXCEPT !.high = p.ack, !.pipe = @ - 2, !.rtx = TRUE]} :
       snd' = SendMuch(Updated(u, p))

RecoveryDup(s, p) ==
  /\ s.fast /\ p.ack < s.recover /\ p.ack <= s.high
  /\ \E u \in {Updated(s, p)} :
       snd' = SendMuch([u EXCEPT !.pipe = @ - 1,
                                 !.dup = IF Changed(s, u) THEN Counted(u).dup ELSE @])

Sender == [snd EXCEPT !.out = <<>>]

\* What the handler has put out goes to the network
Emit == data' = data \o snd'.out

RecvAck ==
  /\ acks # <<>>
  /\ LET p == Head(acks)
     IN  \/ NewAck(Sender, p) \/ DupAck(Sender, p) \/ AfterTimeout(Sender, p)
         \/ FullAck(Sender, p) \/ PartialAck(Sender, p) \/ RecoveryDup(Sender, p)
  /\ acks' = Tail(acks)
  /\ Emit
  /\ UNCHANGED <<sink, drops, early>>

\* The application's send
Start ==
  /\ snd.max = -1 /\ snd.t = 0
  /\ snd' = SendMuch(Sender)
  /\ Emit
  /\ UNCHANGED <<sink, acks, drops, early>>

\* Nothing is under way in the network
Silent == data = <<>> /\ acks = <<>> /\ delayed = -1

Timeout ==
  /\ snd.rtx
  /\ early' = IF Silent THEN early ELSE early + 1
  /\ early' <= MaxEarly
  /\ snd' = SendMuch(Cleared([Sender EXCEPT
              !.dup = 0, !.fast = FALSE, !.pipe = 0, !.tmo = TRUE, !.recover = snd.max,
              !.last = snd.high, !.cwnd = 1, !.t = snd.high + 1]))
  /\ Emit
  /\ UNCHANGED <<sink, acks, drops>>

-----------------------------------------------------------------------------
(* The sink *)

Have      == 0 .. next - 1 \cup seen
NextOf(g) == CHOOSE n \in 0 .. N : 0 .. n - 1 \subseteq g /\ n \notin g

\* The island of packets around seq
Island(g, seq) ==
  [l |-> CHOOSE l \in 0 .. seq : l .. seq \subseteq g /\ l - 1 \notin g,
   r |-> CHOOSE r \in seq + 1 .. N : seq .. r - 1 \subseteq g /\ r \notin g]

\* Mutant of Blocks: an earlier block that touches the newest is taken to be
\* part of it
BlocksTouch(g, n, seq) ==
  LET i       == Island(g, seq)
      newest  == IF seq >= n THEN <<i>> ELSE <<>>
      older   == Without(blocks, {b \in ToSet(blocks) : b.r <= i.r})
      all     == newest \o older
  IN  IF \A x \in g : x < n THEN <<>> ELSE SubSeq(all, 1, MinOf(NBlocks, Len(all)))

\* append_ack: the block of the packet just received, if it is above the
\* cumulative acknowledgement, then the earlier blocks it does not cover.
\* They are also what the stack holds afterwards.
Blocks(g, n, seq) ==
  LET i       == Island(g, seq)
      newest  == IF seq >= n THEN <<i>> ELSE <<>>
      covered == {b \in ToSet(blocks) : b.r <= i.r /\ (seq < n \/ i.l <= b.l)}
      older   == Without(blocks, covered)
      all     == newest \o older
  IN  IF \A x \in g : x < n THEN <<>> ELSE SubSeq(all, 1, MinOf(NBlocks, Len(all)))

\* TcpSink::ack for the packet seq
SendAck(seq) ==
  /\ blocks' = Blocks(0 .. next' - 1 \cup seen', next', seq)
  /\ acks' = Append(acks, [ack |-> next' - 1, sack |-> blocks'])

\* DelAckSink::recv: a packet in sequence may wait for the delay timer, but
\* not the SYN and not one that fills a gap
Delay(seq) ==
  /\ delayed = -1 /\ seq = next' - 1 /\ seq # 0 /\ seen' = {}
  /\ delayed' = seq
  /\ UNCHANGED <<blocks, acks>>

RecvData ==
  /\ data # <<>>
  /\ LET seq == Head(data)
         g   == Have \cup {seq}
     IN  /\ next' = NextOf(g)
         /\ seen' = {x \in g : x > next'}
         /\ \/ Delay(seq)
            \/ SendAck(seq) /\ delayed' = -1
  /\ data' = Tail(data)
  /\ UNCHANGED <<snd, drops, early>>

\* DelAckSink::timeout
DelayTimer ==
  /\ delayed # -1 /\ delayed' = -1
  /\ UNCHANGED <<snd, next, seen, data, drops, early>>
  /\ SendAck(delayed)

-----------------------------------------------------------------------------
(* The network *)

Lose ==
  /\ drops < MaxDrops /\ drops' = drops + 1
  /\ \/ data # <<>> /\ data' = Tail(data) /\ UNCHANGED acks
     \/ acks # <<>> /\ acks' = Tail(acks) /\ UNCHANGED data
  /\ UNCHANGED <<snd, sink, early>>

\* set_initial_window: the SYN leaves together with a window of data
InitialWindow == MinOf(W, 10)

Init ==
  /\ snd = [t |-> 0, max |-> -1, high |-> -1, last |-> -1, rtx |-> FALSE,
            cwnd |-> InitialWindow, dup |-> 0, recover |-> 0, tmo |-> FALSE, fast |-> FALSE,
            pipe |-> 0, q |-> EmptyQueue(-1), h |-> -1, more |-> FALSE, out |-> <<>>]
  /\ next = 0 /\ seen = {} /\ blocks = <<>> /\ delayed = -1
  /\ data = <<>> /\ acks = <<>> /\ drops = 0 /\ early = 0

Next == Start \/ Timeout \/ RecvAck \/ RecvData \/ DelayTimer \/ Lose

Spec == Init /\ [][Next]_vars

\* Every pending event of the simulator runs: weak fairness, with what
\* enables each action written out
Fairness ==
  /\ []<>(snd.max >= 0) \/ []<><<Start>>_vars
  /\ []<>(acks = <<>>) \/ []<><<RecvAck>>_vars
  /\ []<>(data = <<>>) \/ []<><<RecvData>>_vars
  /\ []<>(delayed = -1) \/ []<><<DelayTimer>>_vars
  /\ []<>~(Silent /\ snd.rtx /\ snd.high < N - 1) \/ []<><<Timeout>>_vars

FairSpec == Spec /\ Fairness

-----------------------------------------------------------------------------
(* Properties *)

\* Type correctness of the sender, the sink and the stack of blocks: nothing is
\* sent or acknowledged beyond the flow, and cwnd_ stays within wnd_ (send_much,
\* send_one, opencwnd, TcpSink)
TypeOK ==
  /\ snd.t \in 0 .. N /\ {snd.max, snd.high, snd.last} \subseteq -1 .. N - 1
  /\ snd.cwnd \in 0 .. W /\ snd.dup \in 0 .. Thresh + 1 /\ snd.pipe \in Int
  /\ next \in 0 .. N /\ seen \subseteq next + 1 .. N - 1 /\ delayed \in -1 .. N - 1
  /\ Len(blocks) <= NBlocks

Covered(b) == b.s .. b.e - 1

Packets(b) == b.l .. b.r - 1

\* The blocks the sink remembers are whole islands of the packets above a gap,
\* and no island is remembered twice
SackIslands ==
  /\ \A k \in DOMAIN blocks :
       LET b == blocks[k]
       IN  b.l < b.r /\ Packets(b) \subseteq seen /\ {b.l - 1, b.r} \cap Have = {}
  /\ IsInjective(blocks)

\* The sender takes for received only what the sink has, cumulatively or
\* selectively, and so does every acknowledgement under way, whose blocks lie
\* above what it acknowledges: however blocks are merged, forgotten and reported
\* again while acknowledgements are lost (append_ack, UpdateScoreBoard, newack).
\* The stack that append_ack rebuilds from the earlier blocks keeps none that has
\* since grown, joined another or been passed by the acknowledgement.
ScoreTruth ==
  /\ \A i \in DOMAIN snd.q.fifo : Covered(snd.q.fifo[i]) \subseteq Have
  /\ snd.q.nxt <= next /\ snd.high < next
  /\ \A i \in DOMAIN acks : \A k \in DOMAIN acks[i].sack :
       LET b == acks[i].sack[k] IN acks[i].ack < b.l - 1 /\ Packets(b) \subseteq Have
  /\ SackIslands

Told == UNION {Packets(blocks[k]) : k \in DOMAIN blocks}

\* The packet just received is reported if it lies above a gap, and what was
\* remembered before is forgotten only when the stack is full: an island outlives
\* the loss of the acknowledgements that report it (append_ack).
SackKeeps ==
  [][/\ seen' \ seen \subseteq Told'
     /\ Len(blocks') < NBlocks => Told \cap seen' \subseteq Told']_vars

\* The whole flow is acknowledged in the end, whatever is lost.
AllAcked == <>(snd.high = N - 1)
==============================================================================
