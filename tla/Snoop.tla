-------------------------------- MODULE Snoop --------------------------------
(***************************************************************************)
(* The snoop agent of a base station (snoop.cc): between a wired sender and *)
(* a mobile receiver it keeps copies of the data packets that are not       *)
(* acknowledged yet, resends them over the wireless link when acknowledge-  *)
(* ments are duplicated or its timer fires, and keeps back the duplicates   *)
(* that its own resending explains.                                         *)
(*                                                                          *)
(* The cache is a ring of M buffers: buftail is the one with the lowest     *)
(* packet, bufhead the one for the next.  lru_ is off, as everywhere in the *)
(* distribution.  Sender and receiver are one-way TCP's, reduced to what    *)
(* they may send: new packets within a window, any unacknowledged packet    *)
(* again, and cumulative acknowledgements.  The wired side loses nothing.   *)
(***************************************************************************)
EXTENDS Integers, Sequences, FiniteSetsExt

CONSTANTS
  N,         \* packets 0 .. N-1 of the transfer
  W,         \* window of the sender
  M,         \* maxbufs_ and SNOOP_MAXWIND
  MaxRxmit,  \* SNOOP_MAX_RXMIT
  MaxDrops,  \* bound: packets and acknowledgements lost on the wireless link
  MaxResent, \* bound: retransmissions of the sender
  MaxEarly   \* bound: timers that fire with packets still under way

ASSUME SnoopAssumption ==
  /\ N \in Nat \ {0} /\ W \in Nat \ {0} /\ M \in Nat \ {0, 1} /\ MaxRxmit \in Nat \ {0, 1}
  /\ MaxDrops \in Nat /\ MaxResent \in Nat /\ MaxEarly \in Nat

VARIABLES
  pkts, bufhead, buftail, full,  \* the cache; SNOOP_FULL of fstate_
  alive,                         \* SNOOP_ALIVE of fstate_
  lastSeen, lastAck, expNextAck, expDupacks,
  tout, early,                   \* toutPending_: the timer is set; early firings
  sent, una, told, resent,       \* sender: next new packet, oldest unacknowledged
                                 \* one, highest acknowledgement on its way to it
  air, got, acks, drops,         \* the wireless link and the receiver
  kept                           \* history: the acknowledgement just kept back

cache == <<pkts, bufhead, buftail, full>>
dups  == <<lastAck, expDupacks>>
wired == <<sent, una, told, resent>>
radio == <<air, got, acks, drops>>
vars  == <<cache, alive, lastSeen, expNextAck, tout, early, dups, wired, radio, kept>>

Packets == 0 .. N - 1
Slot    == 0 .. M - 1
None    == [seq |-> -1, num |-> 0, sender |-> FALSE]
NoAck   == -2

next(i) == (i + 1) % M
prev(i) == (i + M - 1) % M
empty_  == bufhead = buftail /\ ~full

Copy(seq) == [seq |-> seq, num |-> 0, sender |-> FALSE]

\* The buffers in use, from the tail on; with bufhead = buftail all or none
Used ==
  [k \in 1 .. (IF full THEN M ELSE (bufhead - buftail + M) % M) |-> (buftail + k - 1) % M]

Above(seq) == {k \in DOMAIN Used : pkts[Used[k]].seq > seq}

-----------------------------------------------------------------------------
(* snoop_insert: where a packet goes.  A ring is the buffers, both ends and *)
(* the buffer of the new packet.                                            *)

Ring(p, head, tail, at) == [pkts |-> p, head |-> head, tail |-> tail, at |-> at]

AtHead(seq) == Ring([pkts EXCEPT ![bufhead] = Copy(seq)], next(bufhead), buftail, bufhead)

AtTail(seq) ==
  LET t == prev(buftail) IN Ring([pkts EXCEPT ![t] = Copy(seq)], bufhead, t, t)

\* Mutant of Between: the packets under it stay where they are
BetweenOver(seq, k) ==
  LET at == prev(Used[k])
  IN  Ring([pkts EXCEPT ![at] = Copy(seq)], bufhead, prev(buftail), at)

\* Below the k-th buffer in use: the k - 1 packets under it move down by one
Between(seq, k) ==
  LET at    == prev(Used[k])
      below == {prev(Used[j]) : j \in 1 .. k - 1}
  IN  Ring([i \in Slot |-> IF i = at THEN Copy(seq)
                           ELSE IF i \in below THEN pkts[next(i)] ELSE pkts[i]],
           bufhead, prev(buftail), at)

Placed(seq) ==
  IF seq > lastSeen \/ pkts[buftail] = None \/ Above(seq) = {} THEN AtHead(seq)
  ELSE IF 1 \in Above(seq) THEN AtTail(seq)
  ELSE Between(seq, Min(Above(seq)))

\* The packet is kept already, so the sender resends it
Renew(seq) ==
  /\ \E i \in Slot : /\ pkts[i].seq = seq
                     /\ pkts' = [pkts EXCEPT ![i].num = 0, ![i].sender = TRUE]
  /\ UNCHANGED <<bufhead, buftail, full, lastSeen, expNextAck>>

\* A packet below lastSeen_ is resent or late: at the tail it is marked so,
\* and the duplicates to expect are counted from the tail
Keep(seq) ==
  LET r    == Placed(seq)
      late == seq < lastSeen
  IN  /\ \A i \in Slot : pkts[i].seq # seq
      /\ pkts' = [r.pkts EXCEPT ![r.at].sender = late /\ r.at = r.tail]
      /\ bufhead' = r.head /\ buftail' = r.tail /\ full' = (r.head = r.tail)
      /\ lastSeen' = IF late THEN lastSeen ELSE seq
      /\ expNextAck' = IF late THEN r.tail ELSE expNextAck

snoop_insert(seq) == seq > lastAck /\ (Renew(seq) \/ Keep(seq))

\* The packet is acknowledged, or the interface queue has no room for it
NotKept == UNCHANGED <<cache, lastSeen, expNextAck>>

-----------------------------------------------------------------------------
(* snoop_data: a packet from the wired side, sent on whatever happens       *)

\* Packet 0 starts the connection again
reset(room) ==
  /\ pkts' = [i \in Slot |-> IF i = 0 /\ room THEN Copy(0) ELSE None]
  /\ bufhead' = (IF room THEN 1 ELSE 0) % M /\ buftail' = 0 /\ full' = FALSE
  /\ lastSeen' = (IF room THEN 0 ELSE -1) /\ lastAck' = -1
  /\ expNextAck' = 0 /\ expDupacks' = 0 /\ tout' = room

\* With the cache full nothing is kept and no timer is started
WhileFull(seq) ==
  /\ full
  /\ lastSeen' = IF seq > lastSeen THEN seq ELSE lastSeen
  /\ UNCHANGED <<cache, expNextAck, tout, dups>>

WithRoom(seq) ==
  /\ ~full
  /\ snoop_insert(seq) \/ NotKept
  /\ tout' = (tout \/ ~empty_')
  /\ UNCHANGED dups

snoop_data(seq) ==
  /\ alive' = TRUE
  /\ IF alive /\ seq = 0 THEN \E room \in BOOLEAN : reset(room)
     ELSE WhileFull(seq) \/ WithRoom(seq)
  /\ air' = Append(air, seq) /\ kept' = NoAck
  /\ UNCHANGED <<early, got, acks, drops>>

SendNew ==
  /\ sent < N /\ sent < una + W
  /\ sent' = sent + 1 /\ UNCHANGED <<una, told, resent>>
  /\ snoop_data(sent)

Resend(seq) ==
  /\ una <= seq /\ seq < sent /\ resent < MaxResent
  /\ resent' = resent + 1 /\ UNCHANGED <<sent, una, told>>
  /\ snoop_data(seq)

-----------------------------------------------------------------------------
(* snoop_ack: an acknowledgement from the wireless side                     *)

Pass(ack)     == told' = (IF ack > told THEN ack ELSE told) /\ kept' = NoAck
Suppress(ack) == kept' = ack /\ UNCHANGED told

\* Mutant of snoop_rxmit: the timer is not set for the copy just sent
snoop_rxmitOnce ==
  /\ pkts[buftail].num < MaxRxmit
  /\ pkts' = [pkts EXCEPT ![buftail].num = @ + 1]
  /\ air' = Append(air, pkts[buftail].seq)
  /\ tout' = FALSE

\* snoop_rxmit of the packet at the tail
snoop_rxmit ==
  /\ pkts[buftail].num < MaxRxmit
  /\ pkts' = [pkts EXCEPT ![buftail].num = @ + 1]
  /\ air' = Append(air, pkts[buftail].seq)
  /\ tout' = TRUE

\* snoop_cleanbufs_: packets are freed from the tail on, and the timer is
\* set again when one is left
NewAck(ack) ==
  LET n == IF Above(ack) = {} THEN Len(Used) ELSE Min(Above(ack)) - 1
  IN  /\ ack > lastAck
      /\ pkts' = [i \in Slot |-> IF \E k \in 1 .. n : Used[k] = i THEN None ELSE pkts[i]]
      /\ buftail' = (buftail + n) % M /\ full' = (full /\ n = 0)
      /\ tout' = ~(bufhead = buftail' /\ ~full')
      /\ expDupacks' = 0 /\ expNextAck' = buftail' /\ lastAck' = ack
      /\ Pass(ack)
      /\ UNCHANGED <<bufhead, air>>

\* Mutant of Missing: any packet at the tail is taken for the missing one
MissingNothing(ack) == pkts[buftail] = None

\* The duplicate is about a packet that is not kept
Missing(ack) == pkts[buftail] = None \/ pkts[buftail].seq > ack + 1

NotMine(ack) ==
  /\ ack <= lastAck /\ (ack = lastAck => Missing(ack))
  /\ Pass(ack)
  /\ UNCHANGED <<cache, expNextAck, tout, dups, air>>

\* RTX_THRESH, 1: every other duplicate passes.  They are counted in a
\* static variable that all agents share, so which ones is left open
EveryOther(ack) ==
  /\ expDupacks = 0
  /\ Pass(ack)
  /\ UNCHANGED <<cache, expNextAck, tout, dups, air>>

\* The others pass too when the sender resent the packet.  If not, the
\* packets kept since tell how many duplicates to expect
Count ==
  LET d == bufhead - expNextAck IN (IF d < 0 THEN d + M ELSE d) - 2

Counted(ack) ==
  /\ expDupacks = 0
  /\ ~pkts[buftail].sender
  /\ expDupacks' = Count /\ expNextAck' = next(buftail)
  /\ \/ pkts[buftail].num = 0 /\ snoop_rxmit /\ Suppress(ack)
     \/ pkts[buftail].num > 0 /\ Pass(ack) /\ UNCHANGED <<pkts, tout, air>>
  /\ UNCHANGED <<bufhead, buftail, full, lastAck>>

\* Duplicates that the retransmission explains are kept back
ExpectedDup(ack) ==
  /\ expDupacks > 0 /\ expDupacks' = expDupacks - 1
  /\ Suppress(ack)
  /\ UNCHANGED <<cache, expNextAck, tout, lastAck, air>>

Miscounted(ack) ==
  /\ expDupacks < 0
  /\ \/ expDupacks = -1 /\ pkts[buftail].num < 2 /\ snoop_rxmit /\ Suppress(ack)
     \/ ~(expDupacks = -1 /\ pkts[buftail].num < 2) /\ Pass(ack) /\ UNCHANGED <<pkts, tout, air>>
  /\ UNCHANGED <<bufhead, buftail, full, expNextAck, dups>>

snoop_ack(ack) ==
  \/ NewAck(ack)
  \/ NotMine(ack)
  \/ /\ ack = lastAck /\ ~Missing(ack)
     /\ EveryOther(ack) \/ Counted(ack) \/ ExpectedDup(ack) \/ Miscounted(ack)

Ack ==
  /\ acks # <<>>
  /\ snoop_ack(Head(acks))
  /\ acks' = Tail(acks)
  /\ UNCHANGED <<alive, lastSeen, early, sent, una, resent, got, drops>>

-----------------------------------------------------------------------------
(* SnoopRxmitHandler::handle                                                *)

\* The timer is of use only while the receiver waits for the packet at the
\* tail; when that was sent MaxRxmit times the agent gives it up
Timer ==
  /\ tout
  /\ early' = IF air = <<>> /\ acks = <<>> THEN early ELSE early + 1
  /\ early' <= MaxEarly
  /\ IF pkts[buftail].seq = lastAck + 1 /\ pkts[buftail].num < MaxRxmit
     THEN snoop_rxmit /\ expNextAck' = next(buftail)
     ELSE tout' = FALSE /\ UNCHANGED <<pkts, air, expNextAck>>
  /\ kept' = NoAck
  /\ UNCHANGED <<bufhead, buftail, full, alive, lastSeen, dups, wired,
                 got, acks, drops>>

-----------------------------------------------------------------------------
(* The sender, the wireless link and the receiver                           *)

Learn ==
  /\ una <= told
  /\ una' = told + 1 /\ kept' = NoAck
  /\ UNCHANGED <<cache, alive, lastSeen, expNextAck, tout, early, dups,
                 sent, told, resent, radio>>

Cumulative(have) == Min({s \in 0 .. N : s \notin have}) - 1

Deliver ==
  /\ air # <<>>
  /\ air' = Tail(air)
  /\ got' = got \cup {Head(air)}
  /\ acks' = Append(acks, Cumulative(got')) /\ kept' = NoAck
  /\ UNCHANGED <<cache, alive, lastSeen, expNextAck, tout, early, dups, wired, drops>>

Lose ==
  /\ drops < MaxDrops /\ drops' = drops + 1
  /\ \/ air # <<>> /\ air' = Tail(air) /\ UNCHANGED acks
     \/ acks # <<>> /\ acks' = Tail(acks) /\ UNCHANGED air
  /\ kept' = NoAck
  /\ UNCHANGED <<cache, alive, lastSeen, expNextAck, tout, early, dups, wired, got>>

Init ==
  /\ pkts = [i \in Slot |-> None] /\ bufhead = 0 /\ buftail = 0 /\ full = FALSE
  /\ alive = FALSE /\ lastSeen = -1 /\ lastAck = -1 /\ expNextAck = 0 /\ expDupacks = 0
  /\ tout = FALSE /\ early = 0
  /\ sent = 0 /\ una = 0 /\ told = -1 /\ resent = 0
  /\ air = <<>> /\ got = {} /\ acks = <<>> /\ drops = 0 /\ kept = NoAck

Next ==
  \/ SendNew
  \/ \E s \in Packets : Resend(s)
  \/ Ack
  \/ Timer
  \/ Learn
  \/ Deliver
  \/ Lose

\* The scheduler runs every pending timer and delivers what is on a link
Fairness == WF_vars(Timer) /\ WF_vars(Deliver) /\ WF_vars(Ack)
FairSpec == Init /\ [][Next]_vars /\ Fairness

-----------------------------------------------------------------------------
(* Properties                                                               *)

\* Every value is of its type, and the buffers outside the ring are empty:
\* the tail of an empty ring holds no packet, which is how snoop_ack and the
\* timer see that nothing is kept
TypeOK ==
  /\ pkts \in [Slot -> [seq : -1 .. N - 1, num : 0 .. MaxRxmit, sender : BOOLEAN]]
  /\ {bufhead, buftail, expNextAck} \subseteq Slot
  /\ full => bufhead = buftail
  /\ {lastSeen, lastAck, told} \subseteq -1 .. N - 1 /\ expDupacks \in -2 .. M
  /\ \A i \in Slot : (pkts[i] = None) = (i \notin {Used[k] : k \in DOMAIN Used})

\* The ring is sorted and holds only packets above lastAck_, whatever the
\* order in which packets were sent, resent, skipped while the cache or the
\* queue was full, and acknowledged (snoop_insert, snoop_cleanbufs_)
CacheOrder ==
  /\ \A j, k \in DOMAIN Used : j < k => pkts[Used[j]].seq < pkts[Used[k]].seq
  /\ \A k \in DOMAIN Used : lastAck < pkts[Used[k]].seq /\ pkts[Used[k]].seq <= lastSeen

\* An acknowledgement is kept back only when it tells the sender nothing new
\* and the agent has the packet it asks for
SuppressSafe ==
  [][kept' # NoAck => kept' <= told /\ \E i \in Slot : pkts'[i].seq = kept' + 1]_vars

\* The agent has the packet that the receiver waits for, and may still resend
\* it or has a copy under way
Waiting ==
  LET p == pkts[buftail]
  IN  /\ p.seq = lastAck + 1 /\ p.seq \notin got
      /\ p.num < MaxRxmit \/ \E i \in DOMAIN air : air[i] = p.seq

\* While the agent has the packet that the receiver waits for it does not
\* forget it, unless the sender repeats packet 0 and so resets it; and it resends
\* it, though what it resends is lost again, until it arrives or was resent
\* SNOOP_MAX_RXMIT times, without the sender's help
\* (snoop_rxmit, snoop_cleanbufs_, SnoopRxmitHandler::handle)
Recovers ==
  /\ [][Waiting => \/ pkts'[buftail'].seq = pkts[buftail].seq /\ lastAck' = lastAck
                   \/ air' = Append(air, 0) /\ lastAck' = -1]_vars
  /\ []<>~Waiting
=============================================================================
