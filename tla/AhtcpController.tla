--------------------------- MODULE AhtcpController ---------------------------
(***************************************************************************)
(* The controller of the AHTCP script (BSApp in ahtcp.A.tcl).  It polls the *)
(* rcv_nxt_ of every client's agent, lets the servers send their SYN one    *)
(* after another, counts activations, and tells the clients to ask for      *)
(* retransmissions ("req-rtx", AckHold's ReqRtx) when it takes the goodput  *)
(* for low.  A flow is its rcv_nxt_: -1, then 1 after the SYN, then one     *)
(* past the bytes received, SRU + 1 at the end.  A poll is one step.        *)
(*                                                                          *)
(* Time is counted in polls.  Whether a comparison with a deadline that     *)
(* falls exactly on a poll holds depends on rounding and is left open.      *)
(***************************************************************************)
EXTENDS Integers, FiniteSets

CONSTANTS
  S,    \* actsvr_num
  PAY,  \* payload of a packet
  HDR,  \* header of a packet
  SRU,  \* bytes of a flow's block
  Para, \* para_num
  KX,   \* kx
  P     \* polls in interval_us

ASSUME AhtcpAssumption ==
  /\ S \in Nat \ {0} /\ PAY \in Nat \ {0} /\ HDR \in Nat \ {0} /\ SRU \in Nat \ {0}
  /\ Para \in 1..S /\ KX \in Nat \ {0} /\ P \in Nat \ {0}

VARIABLES
  rcv_nxt,         \* per flow: rcv_nxt_ of its client
  next_syn_flowid, \* flows whose SYN has been ordered
  next_flowid,     \* flows that have been activated
  cur_flow_num,    \* the controller's count of active flows
  is_flow_fin,     \* per flow: it has activated another one
  is_app_fin,      \* the application is finished
  age,             \* polls since prev_time
  held,            \* polls since locktime was set, three intervals ahead
  asked,           \* history: the clients told to ask by the latest poll
  quiet            \* history: polls since the goodput was last looked at

flowVars == <<next_syn_flowid, next_flowid, cur_flow_num, is_flow_fin>>
timeVars == <<age, held, asked, quiet>>
vars     == <<rcv_nxt, flowVars, is_app_fin, timeVars>>

Flows == 0..S-1

MinOf(a, b) == IF a <= b THEN a ELSE b
MaxOf(a, b) == IF a >= b THEN a ELSE b

\* Mutant of Block_bytes: the byte of the SYN is forgotten
Block_bytesNoSyn == SRU * S

SRU_trans   == (SRU \div PAY + 1) * (PAY + HDR) + HDR
Block_bytes == (SRU + 1) * S

\* The values of a client's rcv_nxt_
Levels == {-1, SRU + 1} \cup {1 + k * PAY : k \in 0..SRU \div PAY}

-----------------------------------------------------------------------------
(* One poll: the visit of a flow *)

\* Mutants of SendNextSyn: the SYN need not be the latest; the SYN alone is not
\* enough
SendNextSynAny(st, i) ==
  IF rcv_nxt[i] >= 1 /\ st.syn < S THEN [st EXCEPT !.syn = @ + 1] ELSE st
SendNextSynLate(st, i) ==
  IF i = st.syn - 1 /\ rcv_nxt[i] > SRU + 1 /\ st.syn < S
  THEN [st EXCEPT !.syn = @ + 1] ELSE st

\* The latest SYN has arrived: the next server may send its SYN
SendNextSyn(st, i) ==
  IF i = st.syn - 1 /\ rcv_nxt[i] >= 1 /\ st.syn < S
  THEN [st EXCEPT !.syn = @ + 1] ELSE st

HalfWay(i) == rcv_nxt[i] >= SRU_trans \div 2

\* Mutant of ActivateNext: neither the end of the flows nor the cap
ActivateNextNoEnd(st, i) ==
  IF ~st.fin[i] /\ HalfWay(i)
  THEN [st EXCEPT !.next = @ + 1, !.cur = @ + 1, !.fin[i] = TRUE] ELSE st

\* A flow past its half activates one more, below the cap
ActivateNext(st, i) ==
  IF ~st.fin[i] /\ HalfWay(i) /\ st.next < S /\ st.cur < KX
  THEN [st EXCEPT !.next = @ + 1, !.cur = @ + 1, !.fin[i] = TRUE] ELSE st

\* A finished flow is subtracted.  The flag meant to do this once,
\* is_counted_fin_, is a local of the procedure and never set.
Subtract(st, i) == IF rcv_nxt[i] >= SRU_trans THEN [st EXCEPT !.cur = @ - 1] ELSE st

Poll == [syn : Nat, next : Nat, cur : Int, fin : [Flows -> BOOLEAN]]

Visit(i) == [st \in Poll |-> Subtract(ActivateNext(SendNextSyn(st, i), i), i)]

Now == [syn |-> next_syn_flowid, next |-> next_flowid,
        cur |-> cur_flow_num, fin |-> is_flow_fin]

\* What the visits of the flows below i make of it
Polled[i \in 0..S] == IF i = 0 THEN Now ELSE Visit(i - 1)[Polled[i - 1]]

BytesBelow[i \in 0..S] == IF i = 0 THEN 0 ELSE BytesBelow[i - 1] + rcv_nxt[i - 1]

-----------------------------------------------------------------------------
(* One poll: the goodput *)

\* The constructor's values; nothing else is ever assigned, but gp_avg_max is
\* set to -1 again
gp_0       == -1
gp_avg     == -1
gp_avg_max == -1

\* gp_avg < gp_avg_max * 0.25
Low == 4 * gp_avg < gp_avg_max

Incomplete == {i \in Flows : rcv_nxt[i] < SRU}

\* What "now is past a deadline n polls after" may say when p polls have passed
Past(p, n) == {b \in BOOLEAN : IF b THEN p >= n ELSE p <= n}

\* Mutant of Goodput: every interval sets locktime
GoodputLocks ==
  \E due \in Past(age, P), free \in Past(held, 3 * P) :
    /\ age' = IF due THEN 1 ELSE age + 1
    /\ held' = IF due THEN 1 ELSE MinOf(held + 1, 3 * P + 1)
    /\ asked' = IF due /\ free /\ gp_0 # 0 /\ Low THEN Incomplete ELSE {}
    /\ quiet' = IF due /\ free THEN 1 ELSE MinOf(quiet + 1, 4 * P + 2)

\* Once an interval has passed and the lock is over the goodput is looked at: low
\* goodput makes every incomplete client ask, zero goodput activates every client
\* again, and either sets the lock.  The counts are those at the next poll.
\* Bounds: held and quiet saturate where they are only compared with smaller
\* numbers.
Goodput ==
  \E due \in Past(age, P), free \in Past(held, 3 * P) :
    LET zero == due /\ free /\ gp_0 = 0
        asks == due /\ free /\ gp_0 # 0 /\ Low
    IN  /\ age' = IF due THEN 1 ELSE age + 1
        /\ held' = IF zero \/ asks THEN 1 ELSE MinOf(held + 1, 3 * P + 1)
        /\ asked' = IF asks THEN Incomplete ELSE {}
        /\ quiet' = IF due /\ free THEN 1 ELSE MinOf(quiet + 1, 4 * P + 2)

\* check, called by check_trans as long as the application is not finished
Check ==
  /\ ~is_app_fin
  /\ LET after == Polled[S]
     IN  /\ next_syn_flowid' = after.syn
         /\ next_flowid' = after.next
         /\ cur_flow_num' = after.cur
         /\ is_flow_fin' = after.fin
  /\ Goodput
  /\ is_app_fin' = (BytesBelow[S] >= Block_bytes)
  /\ UNCHANGED rcv_nxt

-----------------------------------------------------------------------------
(* The flows *)

\* Data arrives at a client whose server has been told to send.  The server's
\* window is its own: it does not wait for the client to be activated.
Deliver(i) ==
  /\ i < next_syn_flowid
  /\ \E n \in Levels : n > rcv_nxt[i] /\ rcv_nxt' = [rcv_nxt EXCEPT ![i] = n]
  /\ UNCHANGED <<flowVars, is_app_fin, timeVars>>

Init ==
  /\ rcv_nxt = [i \in Flows |-> -1]
  /\ next_syn_flowid = Para /\ next_flowid = Para /\ cur_flow_num = Para
  /\ is_flow_fin = [i \in Flows |-> FALSE]
  /\ is_app_fin = FALSE
  /\ age = 0 /\ held = 3 * P + 1 /\ asked = {} /\ quiet = 0

Next == Check \/ \E i \in Flows : Deliver(i)

Spec == Init /\ [][Next]_vars

\* The poll is rescheduled every 20 us; a server that has been told to send gets
\* its block through (AckHold's AllAcked).
FairSpec == Spec /\ WF_vars(Check) /\ \A i \in Flows : WF_vars(Deliver(i))

-----------------------------------------------------------------------------
(* Properties *)

\* Type correctness
TypeOK ==
  /\ rcv_nxt \in [Flows -> Levels]
  /\ next_syn_flowid \in 0..S /\ next_flowid \in 0..S /\ cur_flow_num \in 0..S
  /\ is_flow_fin \in [Flows -> BOOLEAN] /\ is_app_fin \in BOOLEAN
  /\ age \in 0..P+1 /\ held \in 1..3*P+1
  /\ asked \subseteq Flows /\ quiet \in 0..4*P+2

\* The sum over the flows only reaches the block when every flow has its part
\* (Block_bytes, which counts the byte of each SYN).
FinMeansAll == is_app_fin => \A i \in Flows : rcv_nxt[i] = SRU + 1

\* Flows are held back whatever the order in which they advance and the polls see
\* it: every activation beyond the first para_num is paid for by a flow past its
\* half, the flows that are activated and not complete never exceed the cap, and
\* at most para_num SYNs are unanswered (check).
Paced ==
  /\ next_flowid <= Para + Cardinality({i \in Flows : HalfWay(i)})
  /\ Cardinality({i \in Flows : i < next_flowid /\ rcv_nxt[i] <= SRU}) <= MaxOf(Para, KX)
  /\ Cardinality({i \in Flows : i < next_syn_flowid /\ rcv_nxt[i] < 1}) <= Para

\* The goodput is looked at at least every four intervals, whatever it is and
\* whether clients are then told to ask or not: the deadline of the interval and
\* the lock of three intervals never starve each other, however they fall on the
\* polls (check).
LooksInTime == quiet <= 4 * P + 1

\* The application finishes although not every flow is activated.
AppFinishes == <>is_app_fin
==============================================================================
