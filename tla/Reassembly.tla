----------------------------- MODULE Reassembly ------------------------------
(***************************************************************************)
(* The receiving half of a FullTcpAgent in a connection its peer closes:    *)
(* segments of a stream of N bytes and a FIN arrive in any order, cut at    *)
(* any boundaries and any number of times (an AckHolding server             *)
(* retransmits at other boundaries than it sent at).  The handler is recv   *)
(* from the check of the state to the processing of FIN and the close that  *)
(* follows it.                                                              *)
(* The FIN takes the sequence number N + 1.                                 *)
(***************************************************************************)
EXTENDS Naturals, Sequences, FiniteSets, SequencesExt, ReassemblyQueue

CONSTANTS
  N,         \* bytes in the peer's stream
  MaxBlocks, \* SACK blocks in an acknowledgement
  HalfClose  \* halfclose_: the peer's FIN does not close this side

ASSUME ReassemblyAssumption ==
  N \in Nat \ {0} /\ MaxBlocks \in Nat /\ HalfClose \in BOOLEAN

VARIABLES
  rq,        \* rq_, with rcv_nxt_ in its field nxt
  state,     \* state_: "ESTABLISHED", "CLOSE_WAIT" or "LAST_ACK"
  delivered, \* bytes given to the application (recvBytes)
  sack,      \* blocks in the acknowledgement just sent
  seen       \* history: the bytes and the FIN (N + 1) that have arrived

vars == <<rq, state, delivered, sack, seen>>

rcv_nxt == rq.nxt

MinOf(a, b) == IF a <= b THEN a ELSE b

\* TCPS_HAVERCVDFIN on the states of this module
HaveRcvdFin == state = "CLOSE_WAIT"

\* The end of recv: without half-close the agent closes as soon as its own
\* data is acknowledged, which this module leaves open
Closing(st) ==
  IF st = "CLOSE_WAIT" /\ ~HalfClose THEN {"CLOSE_WAIT", "LAST_ACK"} ELSE {st}

\* If the FIN bit has survived, count it and leave ESTABLISHED
FinStep(q, fin) ==
  /\ rq' = IF fin THEN [q EXCEPT !.nxt = q.nxt + 1] ELSE q
  /\ state' \in Closing(IF fin /\ state = "ESTABLISHED" THEN "CLOSE_WAIT" ELSE state)

\* reass: queue the segment; flags count only if it starts at rcv_nxt_
Cleared(clear, flag) == Result(clear.queue, flag \/ clear.flag)
Counted(b, added) ==
  IF b.s # rq.nxt THEN Result(added.queue, FALSE)
  ELSE Cleared(Clearto(added.queue), added.flag)
Reass(b) == Counted(b, Add(rq, b))

\* Mutant of Trimmed: old data is not trimmed
TrimmedNot(b) == b

\* What trimming leaves of a segment: nothing of one that is wholly old and
\* carries no FIN of interest
Trimmed(b) ==
  LET todrop == rcv_nxt - b.s
      len    == b.e - b.s
  IN  IF rcv_nxt <= b.s \/ len = 0 THEN b
      ELSE IF todrop > len \/ (todrop = len /\ ~b.f) THEN Block(rcv_nxt, rcv_nxt, FALSE)
      ELSE Block(rcv_nxt, b.e, b.f)

\* Mutant of Ignored: a retransmitted FIN is looked at again
IgnoredNever(b) == FALSE

\* In LAST_ACK a retransmitted FIN is dropped at once
Ignored(b) == state = "LAST_ACK" /\ b.f

\* Data ahead of rcv_nxt_, or behind blocks of the queue: r is what reass returns
Reassembled(r) ==
  /\ FinStep(r.queue, r.flag)
  /\ delivered' = IF r.queue.nxt > rcv_nxt THEN delivered + (r.queue.nxt - rcv_nxt)
                  ELSE delivered

\* The data and FIN steps of recv, for what trimming has left
Process(t) ==
  IF (t.s = t.e /\ ~t.f) \/ HaveRcvdFin
  THEN FinStep(rq, FALSE) /\ UNCHANGED delivered
  ELSE IF t.s = rcv_nxt /\ rq.fifo = <<>>
  THEN /\ FinStep([rq EXCEPT !.nxt = t.e], t.f)
       /\ delivered' = delivered + (t.e - t.s)
  ELSE Reassembled(Reass(t))

Receive(b) ==
  /\ seen' = seen \cup (b.s..b.e-1) \cup (IF b.f THEN {N + 1} ELSE {})
  /\ IF Ignored(b) THEN UNCHANGED <<rq, state, delivered, sack>>
     ELSE Process(Trimmed(b)) /\ sack' = Gensack(rq', MaxBlocks)

\* usrclosed after the peer's FIN, called by the application
UsrClosed ==
  /\ state = "CLOSE_WAIT"
  /\ state' = "LAST_ACK"
  /\ UNCHANGED <<rq, delivered, sack, seen>>

Segments ==
  {b \in [s : 1..N+1, e : 1..N+1, f : BOOLEAN] :
     /\ b.s <= b.e
     /\ b.s < b.e \/ b.f
     /\ b.f => b.e = N + 1}

Init ==
  /\ rq = EmptyQueue(1) /\ state = "ESTABLISHED"
  /\ delivered = 0 /\ sack = <<>> /\ seen = {}

Next == (\E b \in Segments : Receive(b)) \/ UsrClosed

Spec == Init /\ [][Next]_vars

-----------------------------------------------------------------------------
(* Properties *)

Bytes(b) == b.s .. b.e - 1
Queued   == UNION {Bytes(b) : b \in ToSet(rq.fifo)}

\* Type correctness
TypeOK ==
  /\ rq.nxt \in 1..N+2
  /\ rq.fifo \in Seq([s : 1..N+1, e : 1..N+1, f : BOOLEAN])
  /\ rq.lifo \in Seq([s : 1..N+1, e : 1..N+1, f : BOOLEAN])
  /\ state \in {"ESTABLISHED", "CLOSE_WAIT", "LAST_ACK"}
  /\ delivered \in 0..N /\ seen \subseteq 1..N+1

\* The application gets every byte once and none early: rcv_nxt_ is the first
\* byte that has not arrived, whatever the order and the boundaries of the
\* segments (add, coalesce and cleartonxt together), and as many bytes have been
\* handed over as it has passed.
NextIsFirstMissing ==
  /\ state = "ESTABLISHED" => 1..rcv_nxt-1 \subseteq seen /\ (rcv_nxt <= N => rcv_nxt \notin seen)
  /\ delivered = MinOf(rcv_nxt, N + 1) - 1

\* The queue holds exactly the bytes that arrived ahead of rcv_nxt_: none is
\* forgotten by a merge and none invented.  Its blocks are in sequence order, no
\* two of them touch, and the stack lists the same blocks.
QueueExact ==
  /\ state = "ESTABLISHED" => Queued = {b \in seen : rcv_nxt < b /\ b <= N}
  /\ \A i \in 1..Len(rq.fifo)-1 : rq.fifo[i].e < rq.fifo[i+1].s
  /\ Len(rq.lifo) = Len(rq.fifo) /\ ToSet(rq.lifo) = ToSet(rq.fifo)

\* The blocks reported to the peer are bytes it need not send again.
SackTruthful ==
  \A i \in DOMAIN sack : Bytes(sack[i]) \subseteq seen \ {N + 1}

\* The FIN is counted at most once and never early: not before every byte and the
\* FIN have arrived (recv's test of the flags reass returns), and not again,
\* nor does rcv_nxt_ fall back, whatever is retransmitted (TCPS_HAVERCVDFIN
\* leaves LAST_ACK out, so recv has to drop a FIN in that state before it
\* reaches the queue).
FinCounted == state # "ESTABLISHED" => 1..N+1 \subseteq seen /\ rcv_nxt = N + 2
==============================================================================
