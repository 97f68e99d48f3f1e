------------------------------- MODULE IAFlow --------------------------------
(***************************************************************************)
(* One flow of the NCCS scripts: an IANewRenoTcpAgent server that sends N   *)
(* packets (packet 0 is the SYN) and a TcpIASink client whose advertised    *)
(* window the controller keeps at zero ("active 0") until it is the flow's  *)
(* turn ("active 1").  An acknowledgement with a zero window stops the      *)
(* server's timer and is not processed any further.                         *)
(*                                                                          *)
(* Packets are numbered as in one-way TCP.  Both directions are FIFO, as    *)
(* the simulator's links are; they may lose packets.  cwnd_ is an integer   *)
(* saturated at the advertised window; fractional growth is a choice.       *)
(* Timeouts are those of a network that has fallen silent, and at most      *)
(* MaxEarly premature ones.                                                 *)
(***************************************************************************)
EXTENDS Integers, Sequences, SequencesExt

CONSTANTS
  N,         \* curseq_: packets of the flow, the SYN included
  W,         \* the sink's advwnd_ and the server's window_, in packets
  IW,        \* cwnd_ after set_initial_window
  MaxDupSyn, \* maxdupsyn_
  Thresh,    \* numdupacks_
  LoseUpdate,\* the network may lose a window update
  MaxDrops,  \* bound: packets lost
  MaxEarly   \* bound: premature timeouts

ASSUME IAFlowAssumption ==
  /\ N \in Nat /\ N >= 2 /\ W \in Nat \ {0} /\ IW \in Nat \ {0}
  /\ MaxDupSyn \in Nat \ {0} /\ Thresh \in Nat /\ Thresh >= 2
  /\ LoseUpdate \in BOOLEAN /\ MaxDrops \in Nat /\ MaxEarly \in Nat

VARIABLES
  t_seqno, maxseq, highest_ack, \* server: next to send, top sent, acked
  rtx,                          \* server: retransmission timer pending
  cwnd, dupwnd, dupacks,        \* server: window, inflation, dup ack count
  recover,                      \* server: recover_
  wait,                         \* server: wnd_update_wait
  next, seen,                   \* client: next_, packets seen above it
  active, activated,            \* client: advwndcur > 0; history: "active 1"
  data, acks,                   \* network: packets, acknowledgements
  drops, early                  \* packets lost, premature timeouts so far

sendVars == <<t_seqno, maxseq, rtx, data>>
ctlVars  == <<highest_ack, cwnd, dupwnd, dupacks, recover, wait>>
sinkVars == <<next, seen, active, activated>>
netVars  == <<drops, early>>
vars     == <<sendVars, ctlVars, sinkVars, acks, netVars>>

MinOf(a, b) == IF a <= b THEN a ELSE b
MaxOf(a, b) == IF a >= b THEN a ELSE b

Ack == [ackno : -1..N-1, open : BOOLEAN, update : BOOLEAN]

-----------------------------------------------------------------------------
(* The server *)

\* Mutant of Window: the inflated window is not held to the advertised one
WindowUncapped(c, d) == c + d

\* window(): the congestion window inflated by the duplicates
Window(c, d) == MinOf(W, c + d)

\* Mutant of Burst: one SYN too many
BurstOneMore(t, n) ==
  LET extra == IF t = 0 /\ n > 0 THEN MaxDupSyn ELSE 0
  IN  [i \in 1..n + extra |-> MaxOf(t, t + i - 1 - extra)]

\* The n packets from t on; the first packet goes out maxdupsyn_ times
Burst(t, n) ==
  LET extra == IF t = 0 /\ n > 0 THEN MaxDupSyn - 1 ELSE 0
  IN  [i \in 1..n + extra |-> MaxOf(t, t + i - 1 - extra)]

\* send_much from packet t with ack point h: up to the window and the end of
\* the data, at most maxburst packets (0: no limit).  "sent" is the packet the
\* handler has retransmitted before, or -1.
SendMuch(t, h, win, maxburst, timer, sent) ==
  LET room == MaxOf(0, MinOf(h + win, N - 1) - t + 1)
      n    == IF maxburst > 0 THEN MinOf(room, maxburst) ELSE room
  IN  /\ t_seqno' = t + n
      /\ maxseq' = MaxOf(maxseq, MaxOf(sent, IF n > 0 THEN t + n - 1 ELSE -1))
      /\ rtx' = (timer \/ n > 0 \/ sent >= 0)
      /\ data' = data \o (IF sent >= 0 THEN <<sent>> ELSE <<>>) \o Burst(t, n)

\* The application's send
Start ==
  /\ maxseq = -1
  /\ SendMuch(t_seqno, highest_ack, Window(cwnd, dupwnd), 0, FALSE, -1)
  /\ UNCHANGED <<ctlVars, sinkVars, acks, netVars>>

\* Reno's and TcpAgent's timeout, with bug_fix_
Timeout ==
  /\ rtx
  /\ IF data = <<>> /\ acks = <<>> THEN UNCHANGED early
     ELSE early < MaxEarly /\ early' = early + 1
  /\ dupwnd' = 0 /\ dupacks' = 0 /\ cwnd' = 1
  /\ recover' = maxseq
  /\ SendMuch(highest_ack + 1, highest_ack, Window(1, 0), 0, TRUE, -1)
  /\ UNCHANGED <<highest_ack, wait, sinkVars, acks, drops>>

\* recv: a closed window stops the timer, whatever is outstanding
ZeroWindow(p) ==
  /\ ~p.open
  /\ wait' = TRUE
  /\ rtx' = FALSE
  /\ UNCHANGED <<t_seqno, maxseq, data, highest_ack, cwnd, dupwnd, dupacks, recover>>

IsPartial(p) == dupwnd > 0 /\ p.ackno < recover

\* opencwnd, or the initial window when the SYN is acknowledged (1 if it had
\* been lost)
Opened(a) ==
  IF a = 0 THEN {MinOf(W, 1), MinOf(W, 2)}
  ELSE IF cwnd < 2 THEN {MinOf(W, cwnd + 1)}
  ELSE {MinOf(W, cwnd), MinOf(W, cwnd + 1)}

\* newack; newtimer runs after t_seqno_ has moved and so always sets the timer
NewAck(p) ==
  /\ p.open /\ p.ackno > highest_ack /\ ~IsPartial(p)
  /\ highest_ack' = p.ackno
  /\ wait' = FALSE
  /\ dupacks' = 0 /\ dupwnd' = 0
  /\ cwnd' \in Opened(p.ackno)
  /\ SendMuch(MaxOf(t_seqno, p.ackno + 1), p.ackno, Window(cwnd', 0), 0, TRUE, -1)
  /\ UNCHANGED recover

\* partialnewack with window deflation; the next hole is retransmitted
PartialAck(p) ==
  /\ p.open /\ p.ackno > highest_ack /\ IsPartial(p)
  /\ highest_ack' = p.ackno
  /\ LET deflate == p.ackno - highest_ack
     IN  IF dupwnd > deflate
         THEN dupwnd' = dupwnd - (deflate - 1) /\ cwnd' = MaxOf(1, cwnd)
         ELSE dupwnd' = 1 /\ cwnd' = MaxOf(1, cwnd - (deflate - dupwnd))
  /\ SendMuch(MaxOf(t_seqno, p.ackno + 1), p.ackno, Window(cwnd', dupwnd'), 2,
              TRUE, p.ackno + 1)
  /\ UNCHANGED <<dupacks, recover, wait>>

IsDup(p) == p.open /\ p.ackno = highest_ack

\* Bound: the count saturates at Thresh + 1, of which only "above" matters
DupAck(p) ==
  /\ IsDup(p) /\ dupacks + 1 # Thresh
  /\ dupacks' = MinOf(dupacks + 1, Thresh + 1)
  /\ dupwnd' = IF dupacks + 1 > Thresh /\ dupwnd > 0 THEN dupwnd + 1 ELSE dupwnd
  /\ IF dupacks + 1 >= Thresh
     THEN SendMuch(t_seqno, highest_ack, Window(cwnd, dupwnd'), 2, rtx, -1)
     ELSE UNCHANGED sendVars
  /\ UNCHANGED <<highest_ack, cwnd, recover, wait>>

\* dupack_action: at most one fast retransmit per window
CanFastRetransmit ==
  N > highest_ack + 1 /\ (highest_ack > recover \/ highest_ack = 0)

FastRetransmit(p) ==
  /\ IsDup(p) /\ dupacks + 1 = Thresh
  /\ dupacks' = Thresh
  /\ IF CanFastRetransmit
     THEN /\ recover' = maxseq
          /\ cwnd' = Window(cwnd, dupwnd) \div 2
          /\ dupwnd' = Thresh
          /\ SendMuch(t_seqno, highest_ack, Window(cwnd', dupwnd'), 2, TRUE,
                      highest_ack + 1)
     ELSE /\ UNCHANGED <<recover, cwnd, dupwnd>>
          /\ SendMuch(t_seqno, highest_ack, Window(cwnd, dupwnd), 2, rtx, -1)
  /\ UNCHANGED <<highest_ack, wait>>

\* recv.  Acknowledgements arrive in order, so none is below highest_ack.
RecvAck ==
  /\ acks # <<>>
  /\ LET p == Head(acks)
     IN  \/ ZeroWindow(p) \/ NewAck(p) \/ PartialAck(p)
         \/ DupAck(p) \/ FastRetransmit(p)
  /\ acks' = Tail(acks)
  /\ UNCHANGED <<sinkVars, netVars>>

-----------------------------------------------------------------------------
(* The client *)

\* Mutant of NextMissing: the packet that fills a hole hides the one above it
NextMissingOff(got) == CHOOSE n \in 1..N+1 : 0..n-2 \subseteq got /\ n - 1 \notin got

\* next_ after the packets of got have been seen
NextMissing(got) == CHOOSE n \in 0..N : 0..n-1 \subseteq got /\ n \notin got

\* update and ack.  While inactive, data beyond the SYN reopens the window: the
\* advertised window of the script differs from the default the sink was
\* created with (add_to_ack).
RecvData ==
  /\ data # <<>>
  /\ data' = Tail(data)
  /\ LET got == seen \cup (0..next-1) \cup {Head(data)}
     IN  /\ next' = NextMissing(got)
         /\ seen' = {n \in got : n > next'}
  /\ active' = (active \/ next' - 1 > 0)
  /\ acks' = Append(acks, [ackno |-> next' - 1, open |-> active', update |-> FALSE])
  /\ UNCHANGED <<t_seqno, maxseq, rtx, ctlVars, activated, netVars>>

\* Mutant of Activate: no update before data has been seen
ActivateLate ==
  /\ ~activated /\ activated' = TRUE /\ active' = TRUE
  /\ acks' = IF next - 1 > 0
             THEN Append(acks, [ackno |-> next - 1, open |-> TRUE, update |-> TRUE])
             ELSE acks
  /\ UNCHANGED <<sendVars, ctlVars, next, seen, netVars>>

\* The command "active 1", given once
Activate ==
  /\ ~activated /\ activated' = TRUE /\ active' = TRUE
  /\ acks' = IF next - 1 > -1
             THEN Append(acks, [ackno |-> next - 1, open |-> TRUE, update |-> TRUE])
             ELSE acks
  /\ UNCHANGED <<sendVars, ctlVars, next, seen, netVars>>

-----------------------------------------------------------------------------
(* The network *)

LoseData ==
  /\ drops < MaxDrops /\ drops' = drops + 1
  /\ \E i \in DOMAIN data : data' = RemoveAt(data, i)
  /\ UNCHANGED <<t_seqno, maxseq, rtx, ctlVars, sinkVars, acks, early>>

LoseAck ==
  /\ drops < MaxDrops /\ drops' = drops + 1
  /\ \E i \in DOMAIN acks : /\ LoseUpdate \/ ~acks[i].update
                            /\ acks' = RemoveAt(acks, i)
  /\ UNCHANGED <<sendVars, ctlVars, sinkVars, early>>

-----------------------------------------------------------------------------
Init ==
  /\ t_seqno = 0 /\ maxseq = -1 /\ highest_ack = -1 /\ rtx = FALSE
  /\ cwnd = MinOf(W, IW) /\ dupwnd = 0 /\ dupacks = 0 /\ recover = 0 /\ wait = FALSE
  /\ next = 0 /\ seen = {} /\ active = FALSE /\ activated = FALSE
  /\ data = <<>> /\ acks = <<>> /\ drops = 0 /\ early = 0

Next ==
  \/ Start \/ Timeout \/ RecvAck \/ RecvData \/ Activate
  \/ LoseData \/ LoseAck

Spec == Init /\ [][Next]_vars

\* Every pending event of the simulator runs, and the controller activates
\* every flow in the end.
FairSpec ==
  /\ Spec
  /\ WF_vars(Start) /\ WF_vars(RecvAck) /\ WF_vars(RecvData) /\ WF_vars(Activate)
  /\ WF_vars(Timeout /\ data = <<>> /\ acks = <<>>)

-----------------------------------------------------------------------------
(* Properties *)

\* Type correctness
TypeOK ==
  /\ t_seqno \in 0..N /\ maxseq \in -1..N-1 /\ highest_ack \in -1..N-1
  /\ rtx \in BOOLEAN /\ cwnd \in 0..W /\ dupwnd \in Nat /\ dupacks \in 0..Thresh+1
  /\ recover \in 0..N-1 /\ wait \in BOOLEAN
  /\ next \in 0..N /\ seen \subseteq 0..N-1
  /\ active \in BOOLEAN /\ activated \in BOOLEAN
  /\ data \in Seq(0..N-1) /\ acks \in Seq(Ack)
  /\ drops \in 0..MaxDrops /\ early \in 0..MaxEarly

\* The server takes for acknowledged only what the client has, and the client
\* has only what was sent; acknowledgements arrive in order (recv relies on it).
AckOrder ==
  /\ highest_ack < next /\ next <= maxseq + 1
  /\ \A i \in DOMAIN acks : highest_ack <= acks[i].ackno /\ acks[i].ackno < next

\* The server never has more outstanding than the window the sink advertises once
\* it is active (its advwnd_, not advwndcur, which may be zero), not even in fast
\* recovery, where duplicates inflate its own window.
WindowRespected == maxseq <= highest_ack + W

\* Duplicate SYNs and window updates together never reach the threshold of a
\* fast retransmit when nothing is lost or late.
NoSpuriousRetransmit == drops = 0 /\ early = 0 => dupacks < Thresh

\* The whole flow is acknowledged in the end, unless the window update is lost.
AllAcked == <>(highest_ack = N - 1)
==============================================================================
