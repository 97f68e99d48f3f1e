--------------------------- MODULE NccsController ----------------------------
(***************************************************************************)
(* The controller of the NCCS scripts (BSApp in incast-mul-NCCS.tcl): it    *)
(* polls what every flow has received, lets the servers send their SYN one  *)
(* after another, and activates the flows one after another as earlier ones *)
(* get near their end.  A flow is what its sink counts: bytes in order,     *)
(* headers included.  A poll is one step.                                   *)
(***************************************************************************)
EXTENDS Integers, FiniteSets

CONSTANTS
  S,    \* actsvr_num
  PAY,  \* payload of a packet
  HDR,  \* header of a packet, the size of a SYN
  SRU,  \* bytes of a flow's block
  SSP,  \* ssp_trans
  Para, \* para_num
  KX    \* kx

ASSUME NccsAssumption ==
  /\ S \in Nat \ {0} /\ PAY \in Nat \ {0} /\ HDR \in Nat \ {0} /\ SRU \in Nat \ {0}
  /\ SSP \in Nat /\ Para \in 1..S /\ KX \in Nat \ {0}

VARIABLES
  rcvd,            \* per flow: bytes_ of its sink
  next_syn_flowid, \* flows whose SYN has been ordered
  next_flowid,     \* flows that have been activated
  cur_flow_num,    \* the controller's count of transmitting flows
  is_flow_fin,     \* per flow: it has activated another one
  is_app_fin       \* the application is finished

controlVars == <<rcvd, next_syn_flowid, next_flowid, cur_flow_num, is_flow_fin, is_app_fin>>

Flows == 0..S-1

Larger(a, b) == IF a >= b THEN a ELSE b

\* Mutant of SRU_trans: the last, partial packet is not counted
SRU_transShort == (SRU \div PAY) * (PAY + HDR) + HDR

SRU_trans   == (SRU \div PAY + 1) * (PAY + HDR) + HDR
Block_trans == SRU_trans * S

\* What a sink may have counted: nothing, the SYN, the SYN and k full packets
Packets == (SRU + PAY - 1) \div PAY
Levels  == {0} \cup {HDR + k * (PAY + HDR) : k \in 0..Packets}
Whole   == HDR + Packets * (PAY + HDR)

-----------------------------------------------------------------------------
(* The controller: one visit of a poll *)

NearEnd(i) == rcvd[i] >= SRU_trans - SSP \div Para

\* The latest SYN has arrived: the next server may send its SYN
SendNextSyn(st, i) ==
  IF i = st.syn - 1 /\ rcvd[i] >= HDR /\ st.syn < S
  THEN [st EXCEPT !.syn = @ + 1] ELSE st

\* Mutants of ActivateNext: no flag, no end, flag set too early
ActivateNextNoFlag(st, i) ==
  IF NearEnd(i) /\ st.next < S /\ st.cur < Para * KX
  THEN [st EXCEPT !.next = @ + 1, !.cur = @ + 1] ELSE st
ActivateNextNoEnd(st, i) ==
  IF ~st.fin[i] /\ NearEnd(i) /\ st.cur < Para * KX
  THEN [st EXCEPT !.next = @ + 1, !.cur = @ + 1, !.fin[i] = TRUE] ELSE st
ActivateNextEarlyFlag(st, i) ==
  IF ~st.fin[i] /\ NearEnd(i)
  THEN IF st.next < S /\ st.cur < Para * KX
       THEN [st EXCEPT !.next = @ + 1, !.cur = @ + 1, !.fin[i] = TRUE]
       ELSE [st EXCEPT !.fin[i] = TRUE]
  ELSE st

\* A flow that gets near its end activates one more, below the cap
ActivateNext(st, i) ==
  IF ~st.fin[i] /\ NearEnd(i) /\ st.next < S /\ st.cur < Para * KX
  THEN [st EXCEPT !.next = @ + 1, !.cur = @ + 1, !.fin[i] = TRUE] ELSE st

\* A finished flow is subtracted, at every poll.  Bound: the count is not
\* followed below -2 * S, where it is below the cap for good.
Subtract(st, i) ==
  IF rcvd[i] >= SRU_trans THEN [st EXCEPT !.cur = Larger(@ - 1, -2 * S)] ELSE st

Poll == [syn : Nat, next : Nat, cur : Int, fin : [Flows -> BOOLEAN]]

Visit(i) == [st \in Poll |-> Subtract(ActivateNext(SendNextSyn(st, i), i), i)]

Now == [syn |-> next_syn_flowid, next |-> next_flowid,
        cur |-> cur_flow_num, fin |-> is_flow_fin]

\* What the visits of the flows below i make of it
Polled[i \in 0..S] == IF i = 0 THEN Now ELSE Visit(i - 1)[Polled[i - 1]]

\* Bytes of the flows below i
BytesBelow[i \in 0..S] == IF i = 0 THEN 0 ELSE BytesBelow[i - 1] + rcvd[i - 1]
Total == BytesBelow[S]

\* check, called by check_trans as long as the application is not finished
Check ==
  /\ ~is_app_fin
  /\ LET after == Polled[S]
     IN  /\ next_syn_flowid' = after.syn
         /\ next_flowid' = after.next
         /\ cur_flow_num' = after.cur
         /\ is_flow_fin' = after.fin
  /\ is_app_fin' = (Total >= Block_trans)
  /\ UNCHANGED rcvd

-----------------------------------------------------------------------------
(* The flows *)

\* A sink counts more bytes; a server sends once its SYN has been ordered.  It
\* need not wait to be activated: in IAFlow data follows the SYN before that.
Deliver(i) ==
  /\ i < next_syn_flowid
  /\ \E n \in Levels : n > rcvd[i] /\ rcvd' = [rcvd EXCEPT ![i] = n]
  /\ UNCHANGED <<next_syn_flowid, next_flowid, cur_flow_num, is_flow_fin, is_app_fin>>

ControlInit ==
  /\ rcvd = [i \in Flows |-> 0]
  /\ next_syn_flowid = Para /\ next_flowid = Para /\ cur_flow_num = Para
  /\ is_flow_fin = [i \in Flows |-> FALSE]
  /\ is_app_fin = FALSE

ControlNext == Check \/ \E i \in Flows : Deliver(i)

ControlSpec == ControlInit /\ [][ControlNext]_controlVars

\* The poll is rescheduled every 20 us; a server that has sent its SYN gets it
\* through (IAFlow's timer), and the whole block once it is activated (IAFlow's
\* AllAcked).
FairControlSpec ==
  /\ ControlSpec
  /\ WF_controlVars(Check)
  /\ \A i \in Flows : WF_controlVars(Deliver(i) /\ (rcvd[i] = 0 \/ i < next_flowid))

-----------------------------------------------------------------------------
(* Properties *)

\* Type correctness
ControlTypeOK ==
  /\ rcvd \in [Flows -> Levels]
  /\ next_syn_flowid \in 0..S /\ next_flowid \in 0..S
  /\ cur_flow_num \in -2*S..S
  /\ is_flow_fin \in [Flows -> BOOLEAN] /\ is_app_fin \in BOOLEAN

\* The sum over the flows only reaches the block when every flow has its part:
\* no flow can make up for another (Block_trans).
FinMeansAll == is_app_fin => \A i \in Flows : rcvd[i] = Whole

\* Flows are held back whatever the order in which they advance and the polls see
\* it: every activation beyond the first para_num is paid for by a flow near its
\* end, until a flow has finished no more than para_num * kx are activated, and
\* at most para_num SYNs are unanswered at any time.
Paced ==
  /\ next_flowid <= Para + Cardinality({i \in Flows : NearEnd(i)})
  /\ (\A i \in Flows : rcvd[i] < SRU_trans) => next_flowid <= Larger(Para, Para * KX)
  /\ Cardinality({i \in Flows : i < next_syn_flowid /\ rcvd[i] = 0}) <= Para

\* The application finishes: no trigger is lost while the cap holds flows back.
AppFinishes == <>is_app_fin
==============================================================================
