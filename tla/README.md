# Verification of the AckHolding TCP and of NCCS incast control

TLA+ modules that model the TCP agents this repository adds to ns-2.35 or builds on, and the
controllers that drive them; TLC configurations that check them on small instances; and proofs for
TLAPS that hold for every value of the constants. `PROJECT.json` lists the components, the runs,
the hazards, the findings and, for every definition, the lines it models.

## 1. The system

The repository is ns-2.35 with two approaches to TCP incast, where many servers answer one client
at once and overflow the buffer of its switch.

* **AHTCP (AckHolding).** `tcp-full.cc` adds to `FullTcpAgent` a client that acknowledges
  `AHBYTES` less than it has received while its block is incomplete. When the controller
  (`work/AHTCP/ahtcp.A.tcl`) takes the goodput for low, the client asks for retransmissions by
  acknowledging one held byte (`request_retransmission`); the server takes an acknowledgement of
  exactly one byte for a request and resumes as after a timeout, without waiting for the timer.
* **NCCS.** A controller (`work/NCCS/*/incast-mul-NCCS.tcl`) serializes the flows: every client
  (`TcpIASink`) advertises a window of zero until its turn, and the server (`IANewRenoTcpAgent`)
  stops its timer when it sees the zero window.

### Inventory

| Component | State | Operations | Hard behaviour | What makes it correct |
|---|---|---|---|---|
| AckHolding `FullTcpAgent` (`tcp-full.cc`, `tcp-ia-full.cc`) | server: `t_seqno_`, `maxseq_`, `highest_ack_`, window, recovery, timer; client: `rcv_nxt_`, queue, `highest_ack_sent_`, delayed ack | `recv` (header prediction, requests, duplicates, partial and full acks), `timeout_action`, `send_much`/`foutput`, `request_retransmission`, `active` | requests, delayed acks, timeouts and losses in any order; a resume point rounded up past the acknowledgement; the silly-window test | the server never takes for acknowledged what is not received, never resumes beyond a missing byte; only requests use up the bytes the client asks with; the block gets through |
| FullTcp open and close (`tcp-full.cc`) | `state_`, sequence numbers, `close_on_empty_`, both timers of each end | `connect`, `listen`, `sendmsg`, `usrclosed`, the states of `recv`, `timeout_action` | simultaneous open and close, lost SYN-ACK or FIN, a repeated FIN, a timeout while an answer is under way | both ends agree on what was sent, SYN and FIN included, and reach CLOSED |
| Reassembly queue (`rq.cc`) and data/FIN steps of `recv` | list and stack of blocks, `rcv_nxt_`, state | `add`, `coalesce`, `cleartonxt`, `gensack`, `nexthole`, `reass`, FIN, `usrclosed` | segments cut at any boundaries, in any order, with merges of two and three blocks | the queue holds exactly what arrived ahead, every byte is delivered once, the FIN last and at most once |
| NCCS flow (`tcp-ia-newreno.cc`, `tcp-ia-sink.cc`, one-way NewReno of `tcp.cc`, `tcp-newreno.cc`) | server as in `TcpAgent` plus `wnd_update_wait`; sink: `next_`, `advwndcur` | `recv`, `send_much`, `timeout`, `active` | a zero-window ack cancels the timer with packets outstanding; copies of the SYN; updates crossing acks | the advertised window is respected, nothing is retransmitted for no reason, the flow gets through |
| NCCS controller (Tcl) | SYNs ordered, flows activated, count, flags | `check`, `check_trans` | sinks advance in any order between polls; a visit changes what later visits of the poll see | activations paid for by progress, SYNs paced, end if and only if every flow is complete |
| AHTCP controller (Tcl) | the same, plus the goodput variables and two deadlines | `check`, `check_trans`, `req-rtx`, `active` | two deadlines that gate each other | the same, plus: the goodput is looked at in time |
| Sack1 sender, scoreboard and SACK sink (`tcp-sack1.cc`, `scoreboard-rq.cc`, `tcp-sink.cc`) | sender with `pipe_`, scoreboard over a reassembly queue; sink with its stack of blocks | `recv`, `send_much`, `timeout`, `UpdateScoreBoard`, `GetNextRetran`, `append_ack`, delayed acks | the scoreboard is older than the sink; acknowledgements are lost; a timeout clears it with SACK blocks under way | no packet is retransmitted that is not lost, no island is forgotten |
| Snoop agent (`snoop.cc`) | ring of copies, flags, duplicates expected, timer | `snoop_data`, `snoop_insert`, `snoop_ack`, `snoop_cleanbufs_`, `snoop_rxmit`, the timer, `reset` | packets resent, late or skipped; a count of duplicates made once; timer and acknowledgement racing | the ring stays sorted, no acknowledgement is kept back without reason, a cached packet is resent until it gets across or the agent gives it up |
| Incast-control sink (`tcp-ic-sink.cc`) | measured rate, window | `recv`, timer | stale measurements | window between its bounds |
| Sack FullTcp | as FullTcp, with a scoreboard | `recv`, `pack_action` | holes that move | no SACKed byte is sent again |

Interaction: a Tcl controller polls a counter of every client (`bytes_` of a sink, `rcv_nxt_` of a
full agent) every 20 us and gives commands; a client answers a command with an acknowledgement;
client and server exchange packets over links that drop at full queues; a snoop agent sits on such
a link. The simulator is one thread: every handler runs to its end, so a handler is one step of a
model. Everything else, the order of packets, timers and polls, is interleaving.

The rest of the distribution is listed in `PROJECT.json` as not modelled, with the reason
(section 5).

## 2. Modules

Definitions marked "Mutant of X" stand beside X: X with a plausible bug. They belong to no
specification; each of them shows that a property notices the bug.

### AckHold (with BlockTransfer, MCAckHold, AckHoldProofs)

One transfer of the bytes `1..SRU`, after the handshake, in sequence numbers of the code.

* **State.** The names of the code, `last_ack_sent` being `highest_ack_sent_`. `rq` is the set of
  bytes queued (the queue itself is Reassembly's subject), `rtx` says whether the retransmission
  timer is pending, `lastdup` and `limited` are the two facts the code reads from
  `last_cwnd_action_` and `maxburst_`.
* **Server.** `Start` is the sending at the end of the handshake. `Timeout` is `timeout` with
  `timeout_action`. `RecvAck` is the acknowledgement part of `recv`, whose alternatives are
  disjoint and in the order of the code: header prediction (`PredictedAck`), the RTXREQ option,
  the one-byte request, `OldAck`, `DupAckCounted`, `DupAckThreshold`, `PartialAck`, `FullAck`.
  All send through `SendMuch`, which is `send_much` with `send_allowed` and `foutput`: segments
  follow each other until one is not allowed, not worth sending or the burst limit is reached.
* **Client.** `RecvData`, `DelAckTimer`, and the commands `Activate` and `ReqRtx`.
* **Network.** Packets in flight are a set per direction; any may be delivered next, with or
  without a copy staying behind (identical packets are one element), or lost. This is more than
  FIFO links do, so what holds here holds there.
* **Abstractions.** Time: a pending timer may fire at any moment. `cwnd_` is an integer saturated
  at `wnd_`, fractional growth and `ssthresh_` are choices. ECN, quick start and timestamps are
  left out.

`BlockTransfer` is what a transfer promises: bytes are handed over once and in order, and only
bytes handed over are confirmed. `AckHold` implements it with `got = rcv_nxt - 1` and
`acked = highest_ack - 1`.

### ReassemblyQueue and Reassembly (with DataTheorems, ReassemblyProofs)

`ReassemblyQueue` has one operator per function of `rq.cc` on a value that holds the list, the
stack and the owner's `rcv_nxt_`: `Add` (with `Place`, `Merge`, `MergeRight`, `Fill`, `Link`, the
stages of `add` and `coalesce`), `Clearto`, `Gensack`, `Nexthole`. `Reassembly` is the receiving
half of `recv` over it: a segment is trimmed, queued or delivered, and the FIN is counted when its
flag comes out of `reass`. `seen` is a history variable: the bytes that have ever arrived. What it
loops over a list for (`Without`, `Drop`) is a recursive function, which the proofs can reason
about. `Connection` and `SackFlow` use the same queue, the first as receiver, the second as
scoreboard.

### Connection (with MCConnection, ConnectionProofs, DataTheorems)

Two FullTcp agents that open a connection, exchange a little data and close it. The links keep the
order of packets and lose them.

* **State.** An agent is a record of the fields the code has (`conn[e]`), its queue being a value
  of `ReassemblyQueue` whose `nxt` is `rcv_nxt_`. An operator that stands for a function of the
  agent takes the record before and gives the record after; `out` collects what the handler sends,
  and `Becomes` puts it on the link.
* **Output.** `Datalen`, `PacketFlags`, `Emits`, `Emit` are the stages of `foutput`; `Turn` is one turn
  of the loop of `send_much`, `SendMuch` a recursive function that repeats it as often as data can be
  left, `Sent` is `sent`, which does not count a FIN.
* **Calls.** `AdvanceBytes` (`sendmsg`, `advance_bytes`), `UsrClosed`, `TimeoutAction` (without its
  exit for `highest_ack_ > sru_bytes_`, see the observations).
* **recv.** `Recv` dispatches on the state: `RecvClosed`, `RecvListen`, `RecvSynSent` (with
  `RecvSynAck` and, for simultaneous open, `RecvSyn`), header prediction, and
  `RecvSynchronized`: trimming, the acknowledgement (`AckStep` with `OldAck` and `NewAck`), the
  closing states (`ClosingStep`), the data step, the FIN step, what is owed (`Answer`), and the
  close an agent makes on its own in CLOSE_WAIT (`CloseBehind`).
* **Network.** `net[e]` is a queue of packets on their way to `e`; any packet of it may be lost.

### IAFlow (with NccsProofs, DataTheorems)

One NCCS flow in packet numbers (0 is the SYN) over FIFO lossy links. `ZeroWindow` is the branch
of `recv` that stops the timer, `Activate` the command `active 1`. `activated` is a history
variable; `active` is `advwndcur > 0`. A timeout is either that of a silent network or one of
`MaxEarly` premature ones.

### SackFlow (with MCSackFlow, SackProofs, DataTheorems)

One flow of `Sack1TcpAgent` with `ScoreBoardRQ` to a `TcpSink` or `DelAckSink` with a `Sacker`, in
packet numbers over FIFO lossy links. The sender is a record `snd`; `q` is its scoreboard, a
reassembly queue whose `nxt` is `sack_min`, and `h` is `h_seqno_`. The alternatives of `RecvAck`
are the branches of `recv`: outside fast recovery `NewAck`, `DupAck`, `AfterTimeout`, inside it
`FullAck`, `PartialAck`, `RecoveryDup`. `SendMuch` is a recursive function that repeats `SendOne`,
one round of the loop, and `AddBlocks` one that adds the blocks of an acknowledgement one by one.
The sink keeps `next`, the packets `seen` above it, and the stack of `blocks` that `append_ack`
rebuilds with every acknowledgement. The flow starts with `InitialWindow`: at the default options a
window of ten leaves at once, the SYN and data with it. `MCSackFlow` adds three history variables,
which no action of the flow reads: what the present recovery has retransmitted (`resent`), what
earlier ones have and was not yet acknowledged when it began (`left`), and whether it began although
a timeout had begun to send everything again (`second`). OnlyLost needs them.

### Snoop (with SnoopProofs, DataTheorems)

The half of the snoop agent that carries data from the wired to the wireless side. The cache is a
ring of `M` buffers with `bufhead`, `buftail` and `full` as in the code; `Used` lists the buffers
in use from the tail on. `snoop_insert` is `Renew`, or `Keep` with the three places of a new
packet (`AtHead`, `AtTail`, `Between`); the alternatives of `snoop_ack` are the cases of the code,
which the count `expDupacks` tells apart. Sender and receiver are any one-way TCP. The threshold
counter of `RTX_THRESH` is a static variable shared by every agent of the process, so whether it
lets a duplicate through is a free choice of `EveryOther`.

### NccsController and AhtcpController (with NccsProofs, AhtcpProofs, DataTheorems)

A poll (`Check`) is one step: the visits of the flows in index order, then the test for
the end. `Visit(i)` is `SendNextSyn`, `ActivateNext` and `Subtract`; `Polled` is the recursive function
that applies the visits one after the other. A flow is the counter the
poll reads, which advances by any number of packets between polls (`Deliver`). `AhtcpController`
adds `Goodput`, the test that makes clients ask: `age` and `held` count the polls since
`prev_time` and since `locktime` was set; a deadline that falls exactly on a poll may be seen
either way, since the code compares floating-point times. `asked` and `quiet` are history
variables. `NccsProofs` extends the flow and the controller of the same scripts at once, so the
specification of `NccsController` has names of its own (`ControlSpec`, `ControlTypeOK`).

In the AHTCP controller a flow sends its data as soon as its SYN is through: `FullTcpAgent`
never reads an advertised window, so the client's `active 0` does not hold its server back.

## 3. Runs

| Run | Constants | States | What it shows |
|---|---|---|---|
| `ackhold_safety` | MSS 3, AH 2, SRU 8, WND 3, SPA 1, Thresh 3, delayed acks, 1 loss | 40,690 | TypeOK, AckOrder, ResumeSafe, AsksAgain, AcksNeverRetreat, and that AckHold implements BlockTransfer |
| `ackhold_progress` | MSS 4, AH 2, SRU 12, WND 2, SPA 1, Thresh 3, no loss | 29,156 | AllAcked for an AckHolding connection |
| `rtxreq_progress` | MSS 2, SRU 5, WND 2, SPA 1, RTXREQ option instead of held acks, 1 loss | 54,128 | AllAcked for the option |
| `ackhold_stall` | MSS 3, AH 2, SRU 9, WND 2, SPA 1, Thresh 2, 1 loss | violation | TimeoutRetransmits fails |
| `reassembly_receive` | N 7, 3 SACK blocks | 638 | TypeOK, NextIsFirstMissing, QueueExact, SackTruthful, FinCounted |
| `connection_life` | one call each, a partial segment from A and a whole one from B, close in ESTABLISHED, 1 loss, 1 premature timeout | 107,190 | TypeOK, AckOrder, Opens, Finishes |
| `connection_finheard` | the same with two segments from A | violation | FinHeard fails |
| `iaflow_flow` | N 6, W 4, IW 10, 3 SYN copies, 2 losses, 1 premature timeout | 46,450 | TypeOK, AckOrder, WindowRespected, NoSpuriousRetransmit, AllAcked |
| `sack_flow` | N 11, W 7, Thresh 2, 2 SACK blocks, 4 losses, 1 premature timeout | 823,995 | TypeOK, ScoreTruth, SackKeeps, OnlyLost, AllAcked |
| `snoop_local` | N 4, W 4, 3 buffers, 2 resendings, 3 losses, 1 resent by the sender, 1 premature timer | 788,217 | TypeOK, CacheOrder, SuppressSafe, Recovers |
| `nccs_serial` | 4 flows, 3 packets each, Para 1, KX 2 | 9,886 | ControlTypeOK, FinMeansAll, Paced, AppFinishes |
| `ahtcp_control` | 3 flows, 3 packets each, Para 1, KX 2, P 2 | 4,749 | TypeOK, FinMeansAll, Paced, LooksInTime, AppFinishes |

**Why the bounds are enough.** The interesting cases of AckHold are relations between few bytes: a
last segment that is partial (8 = 3 + 3 + 2) and one that is not (9), a hold smaller than a segment
and larger than one byte, a window of two or three segments so that three duplicates, a fast
retransmission, a partial acknowledgement and a window halved to one all occur. One loss together
with reordering and duplication already gives every hole of a three-segment block.
`ackhold_progress` loses nothing, but packets are reordered and duplicated, timers fire too early,
and with a hold of two bytes the client asks for retransmissions at any time. In the reassembly,
seven bytes hold up to three separate blocks and a FIN, more than any segment touches at both ends.
In Connection, every pair of states two ends can be in is reached with at most one segment each:
three-way handshake, simultaneous open, close by either end, by both in turn and by both at once,
each with one packet lost anywhere and one timer that fires while the answer is on its way. In
IAFlow, six packets exceed the window of four; two losses drop data and its retransmission, or data
and an acknowledgement. In SackFlow, the first window of seven packets leaves with the SYN. Any of
them may be lost, the SYN too, whose loss brings duplicates of number -1 with SACK blocks; three
holes make three islands, one more than the stack remembers, also above a missing packet 0; and the
fourth loss is that of an acknowledgement or of a retransmission, without which the limit of the
stack never matters and ScoreTruth and SackKeeps would not be put to the test there. Of the two
exceptions in OnlyLost the first, `second`, occurs in the run; the other, `left`, needs a larger
flow, two recoveries within a window: TLC reaches it from N 24, W 14, one block and three losses
on. With data losses only and no delayed acknowledgement, SackFlow was therefore also run once at
each of N 28, W 16, three blocks and three losses; N 26, W 14, two blocks and four losses; N 24, W
12, Thresh 3 and four losses; N 26, W 14, one block, three losses and a premature timeout; and at N
12, W 7, three blocks, three losses and a premature timeout without a restriction. TypeOK,
ScoreTruth and OnlyLost hold in all of them. In Snoop, a window of four packets over three buffers
fills the ring, which is the case the flag `SNOOP_FULL` exists for, and new packets meet a full
cache; three losses take a packet and both copies the agent may send of it (`MaxRxmit`, the code's
`SNOOP_MAX_RXMIT`), so that resending a lost resend and giving up both happen. Four flows with a
cap of two activate one, two and more past the cap. For three flows and a cap of two the AHTCP
controller never activates the last flow, and the flows it has activated are all incomplete at
once.

**Named bounds.** `MaxDrops`, `MaxResent` (packets lost, packets the wired sender repeats) and
`MaxEarly` (premature timeouts) bound the network; `Calls` bounds the calls of an application.
`dupacks` saturates at `Thresh + 1`, `cwnd` at the window, the controllers' clocks where they are
only compared, and the NCCS count at `-2 * S`, where it is below the cap for good.

**Preconditions in the constants.** The AckHolding runs use `segs_per_ack_` 1, the default
(`ns-default.tcl:1243`). The AHTCP script sets `segsperack_ true`, and if the Tcl binding reads that
word as 0, `need_send` sends what a window has cut, ResumeSafe fails and a transfer may stall without
a loss (see the observations). `ackhold_progress` has no loss because with one a transfer that holds
two bytes or more may stall (finding `ackhold_stall`, and the observation on fast retransmit); with a
hold of one byte, which leaves nothing to ask with, it finished in spite of a loss too (25,608
states). `iaflow_flow` uses the default of three copies of the SYN
(`ns-default.tcl:1093`). The scripts set one; then the loss of that one packet, while the data sent
with it arrives, stalls the flow: the zero-window acknowledgement of number -1 cancels the timer
and `active 1` sends no update. `LoseUpdate = FALSE` keeps the single window update from being
lost; nothing in the code would repeat it. The NCCS runs use a block that is no multiple of the
payload, as the scripts do: `SRU_trans` counts one packet too many otherwise. `connection_life`
has at most one segment of data per end because with two the end may wait in FIN_WAIT_2 for a peer
that was never told (`connection_finheard`), and the end that may be listening sends a whole
segment, whose acknowledgement is not delayed (see the observations).

**Preconditions in the properties.** `timeout_action` returns at once for an agent that listened,
so such an end never repeats a packet. Opens therefore supposes that no packet *of a listening
end* was lost, and Finishes, with a listening end, that nothing was lost or repeated too early.
Between two ends that both open actively there is no such precondition.

**Deadlock.** Only the reassembly run keeps TLC's deadlock check. The others have
`CHECK_DEADLOCK FALSE` because a transfer that is complete and an application that is finished
really stop; what must not stop earlier is stated as liveness.

### Fairness

The simulator's scheduler runs every event that is pending: hence weak fairness of packet
arrivals, of timers that are set and of the poll, which reschedules itself. The commands
`Activate` and `ReqRtx` of AckHold are never forced: its liveness does not lean on the controller.
`AckHold`'s `Timeout` is fair because the timer is pending until it fires or is cancelled;
`IAFlow` forces only timeouts of a silent network, and `Activate`, because the controller
activates every flow (`nccs_serial`). In `NccsController` a flow's SYN gets through once ordered
and its block once activated, which is `IAFlow`'s AllAcked; in `AhtcpController` a flow gets its
block through once its SYN is ordered, which is `AckHold`'s AllAcked after the handshake: AppFinishes
speaks of the controller alone, and a flow that stalls after a loss stalls the application.
In `Snoop` the agent's timer, deliveries and the handling of acknowledgements are fair; the wired
sender is not, since Recovers says the agent needs no help from it. Losses are never forced.

`Connection` and `SackFlow` write weak fairness as `[]<>~enabled \/ []<><<A>>_vars`, with what
enables the action written out, which is what `WF_vars(A)` means and what TLC evaluates faster.
`Connection`'s `Timeout` is strongly fair: the two timers of a connection take turns because a
packet under way disables both in the model, while in the code each backs off and fires at its
own time; neither can starve the other.

### Findings

* `ackhold_stall`: a timeout of an AckHolding server may send nothing. The resume point, rounded
  up, can leave a piece shorter than a segment, and the silly-window test of `foutput` exempts
  retransmissions only without `is_ha_`. No timer then ever helps: the same timeout
  sends nothing again.
* `connection_finheard`: `ourfinisacked` is concluded from `ackno == maxseq_`, although after a
  timeout with a shrunk window `maxseq_` does not count the FIN. The end enters FIN_WAIT_2,
  cancels its timers and never sends the FIN.

### Observations without a run

* With `segs_per_ack_` 0 the server of a client that holds bytes may skip some for good, without a
  loss: `need_send` is always true, so `foutput` sends a segment the window has cut; the next
  acknowledgement, less the held bytes, is rounded up beyond what was sent, and every later
  retransmission starts there too. With MSS 3, AH 2, SRU 8 and WND 2 in-order delivery alone
  leaves byte 8 unsent and the timer cancelled.
* Fast retransmit after a timeout: `recover_` is `maxseq_` less `AHBYTES` (`RecoverPoint`), so
  acknowledgements at the end of what was sent pass the test that should stop a second fast
  retransmit. The window of one segment is halved to none, nothing is sent, and the timer, cancelled
  before, is not set again.
* Fast recovery of `Sack1TcpAgent` may retransmit a packet needlessly. It retransmits holes beyond
  `recover_` too; the acknowledgement that ends the recovery clears the scoreboard and `h_seqno_`
  (`tcp-sack1.cc:192-203`), so a recovery that begins before they are acknowledged retransmits them
  again, under way or not. `pipe_` may then become negative. TLC reaches this from N 24, W 14,
  Thresh 2 and three losses on; OnlyLost says that it is the only such case.
* A FIN queued behind a hole is forgotten when one segment fills the hole between two blocks:
  `coalesce` keeps only the flags of the earlier block (`rq.cc:570-572`). The peer's timer repeats
  the FIN, so a connection still closes (Finishes).
* Data leaves with the SYN of a NCCS flow before it is activated: the initial window is open until
  the first zero-window acknowledgement (`tcp.cc:437`).
* The NCCS controller subtracts a finished flow from its count at every poll
  (`incast-mul-NCCS.tcl:514`), so after the first flow has finished the count caps nothing; Paced
  states the cap only until then.
* The AHTCP controller never subtracts a finished flow, because its threshold counts headers and
  `rcv_nxt_` does not: flows beyond the cap are never activated, although the comment of
  `ahtcp.A.tcl:525` says that the count falls when a flow completes. Paced does not ask for that: it
  caps the flows that are activated and incomplete, as the comments have it.
* The AHTCP controller never computes the goodput it tests (`ahtcp.A.tcl:546`): the test for low
  goodput always holds and the one for zero goodput never does, so incomplete clients are told to
  ask at every look, whatever the transfer does, although the comments at lines 537 and 545 speak
  of goodput that is zero or has dropped. LooksInTime does not depend on it: it says how often the
  controller looks.
* A client asks with a byte that is received, not acknowledged and not the last one received
  (`tcp-full.cc:468`). A series of requests uses these up and the last one is never spent, so a client
  may be told to ask and have nothing to ask with until bytes arrive in order. AsksAgain says
  that nothing but its requests brings it there, and that such bytes restore it.
* The hold ends when `rcv_nxt_` reaches `sru_bytes_`, one byte before the block is complete: from
  then on the client has nothing to ask with and the last byte is left to the server's timer.
  AsksAgain is stated for `rcv_nxt < SRU`.
* `timeout_action` of FullTcp cancels the timers and returns when `highest_ack_ > sru_bytes_`
  (`tcp-full.cc:2862-2865`). At the default `sru_bytes_` of 2^30 this never happens, and
  `Connection` leaves it out. The AHTCP script sets `sru_bytes_` to the bytes of the block
  (`ahtcp.A.tcl:190`); then a FIN that is lost after the data was acknowledged is never repeated.
  Opens, Finishes and the theorems about `Connection` are for the default. `AckHold`, whose block
  ends there, has the exit.
* FullTcp: a close before the own SYN is acknowledged leaves an end that sends nothing more, a
  close in SYN_SENT leaves its timer running, `MSG_EOF` in the call that opens a connection is
  forgotten by the reset in `connect`, and `active` of `TcpIAFull` in SYN_RECEIVED sends a second
  SYN. The runs close in ESTABLISHED (`CloseIn`).
* FullTcp: `usrclosed` sets `curseq_` to `maxseq_ - 1` before it looks at the state
  (`tcp-full.cc:515`). Called a second time in FIN_WAIT_1, after the FIN, it counts the number of the
  FIN among the data; a timeout then sends that number as a byte with another FIN behind it, while the
  peer has counted the first FIN and takes the connection for complete. With
  FIN_WAIT_1 in `CloseIn` TLC finds AckOrder violated after eleven states.
* Entering FIN_WAIT_2 cancels all timers (`tcp-full.cc:2566`), the delayed acknowledgement among
  them: the other end has to repeat its last partial segment to get it acknowledged, and one that
  listened never does.
* Snoop: a full ring makes the expected number of duplicates -2 where the comment speaks of -1
  (`Miscounted`); packet 0 repeated by the sender resets the agent and forgets the cache, and a
  packet resent `SNOOP_MAX_RXMIT` times is not resent again (`snoop.cc:721`), which is why Recovers
  has these two exits.
* A lost SYN with data behind it brings duplicates of number -1 whose SACK blocks enter the
  scoreboard, but no recovery begins at `highest_ack_` -1 (`dupack_action` compares it with
  `recover_`): only the timeout repeats the SYN.
* A recovery at `highest_ack_` 0 is let through by `bugfix_ss_` (`tcp-sack1.cc:278`) after a
  timeout too. It goes on at the `t_seqno_` the timeout has set back, and sends packets that the
  sink has (`second` in OnlyLost).
* `ScoreBoardRQ`: `GetNextRetran` tests for `> 0` and so never offers packet 0 (no recovery could
  retransmit it, see above); `sack_min` is never moved back by a clear; with the D-SACK option,
  which is off, a block below the acknowledgement would move it back.

## 4. Proofs

TLAPS checks the theorems below for every value of the constants that satisfies the named
assumption of the module (`AckHoldAssumption`, `ReassemblyAssumption`, `ConnectionAssumption`,
`IAFlowAssumption`, `NccsAssumption`, `AhtcpAssumption`, `SnoopAssumption`, `SackFlowAssumption`):
any block, segment size, hold, window, threshold, number of flows, cap, number of buffers, number
of calls, losses and early timers. Nothing else is assumed, except in two places, where the
property is false without it:

* NoDuplicateStorm supposes `MaxDupSyn <= Thresh`: the scripts set `maxdupsyn_` 1, the default of
  both is 3, and more copies of the SYN than the threshold are a fast retransmit.
* The theorems of `ConnectionProofs` suppose `CloseOnce`: an application closes in ESTABLISHED or
  CLOSE_WAIT, so a connection that is open, and once. A close in FIN_WAIT_1 refutes AckOrder
  (section 3).

| Module | Theorem | Property | States |
|---|---|---|---|
| `AckHoldProofs` | TypeCorrect | TypeOK | only bytes of the block are in flight or queued, every field keeps its range |
| | AckOrderHolds | AckOrder | acknowledged at the server is acknowledged by the client, that is received, that is sent |
| | AcksMonotone | AcksNeverRetreat | neither acknowledgement point ever moves back |
| | AskingKept | AsksAgain | only its own requests use up what the client asks with, and bytes in order restore it |
| | Refinement | ImplementsBlockTransfer | AckHold implements BlockTransfer |
| | ResumesSafely | ResumeSafe | unless `SPA` is 0 the server resumes beyond no byte the client misses |
| `ReassemblyProofs` | ReceiverTypes | TypeOK | every field of a receiver keeps its range |
| | ReceiverInOrder | NextIsFirstMissing | `rcv_nxt_` is the first byte missing, and exactly the bytes before it were handed over |
| | ReceiverQueue | QueueExact | the queue covers exactly what arrived ahead, in blocks that do not touch |
| | ReceiverSack | SackTruthful | no SACK block covers a byte that has not arrived |
| | ReceiverFin | FinCounted | the FIN counts at most once, when everything has arrived |
| `ConnectionProofs` | ConnectionTypes | TypeOK | every number of an agent, and of every segment on its way, stays within the data, SYN and FIN |
| | ConnectionAcks | AckOrder | acknowledged is received, received is sent, SYN and FIN included, from opening to close |
| `NccsProofs` | FlowTypeCorrect | TypeOK | every field of a NCCS flow keeps its range |
| | FlowAckOrder | AckOrder | acknowledged is received, received is sent, acknowledgements arrive in order |
| | WindowKept | WindowRespected | the advertised window is respected, in fast recovery too |
| | NoDuplicateStorm | NoSpuriousRetransmit | copies of the SYN and window updates cause no fast retransmit |
| | NccsTypeCorrect | ControlTypeOK | no poll orders or activates more flows than there are |
| | NccsFinished | FinMeansAll | the application ends only when every flow is complete |
| | NccsPaced | Paced | activations are paid for and capped, SYNs are paced |
| `SackProofs` | SackTypes | TypeOK | nothing is sent beyond the flow, `cwnd_` stays within `wnd_`, the stack within its limit |
| | SackTruth | ScoreTruth | the scoreboard, the blocks under way and those the sink remembers say only what is so |
| | IslandsKept | SackKeeps | what arrived is reported, and forgotten only when the stack is full |
| `AhtcpProofs` | AhtcpTypeCorrect, AhtcpFinished | TypeOK, FinMeansAll | the same for the AHTCP controller |
| | AhtcpPaced | Paced | activations are paid for, incomplete flows capped, SYNs paced |
| | AhtcpLooksInTime | LooksInTime | the goodput is looked at at least every four intervals, whatever it is |
| `SnoopProofs` | SnoopTypeCorrect | TypeOK | the ring stays well formed, buffers outside it are empty |
| | SnoopCacheOrder | CacheOrder | the cache is sorted and above the last acknowledgement |
| | SnoopSuppressSafe | SuppressSafe | an acknowledgement is kept back only when its packet is cached |

**AckHold.** `Inv == TypeOK /\ AckOrder /\ SentBound`. AckOrder alone is not inductive: that what
is received was sent needs to know that nothing in flight or queued lies beyond `maxseq_`, which is
SentBound. The lemmas about sending carry it: a segment never passes the end of the block
(DatalenBound), the earlier segments of a burst end where later ones begin (BurstOrder), so the end
of the last is the new `maxseq_` (SendMuchFacts). Each handler has a lemma that gives what it
leaves behind (SendPost and CtlPost for the server, RcvPost for the client), and ServerInv and
ClientInv put these together. AcksMonotone and Refinement need Inv and nothing more; AskingKept
needs beside it that a byte is always held (HoldKept) and that an acknowledgement with two of them
held, or with one and new bytes, leaves two (AckLeavesTwo).

ResumeSafe, the second part of `AckHoldProofs`, is about rounding and needs more than Inv. The
block falls into cells of `MSS` bytes. `CellInv` says that `t_seqno_` begins a cell, that every
segment in flight is a whole cell (or what the block has of its last one), and that the client has
a cell or nothing of it. It is inductive because the silly-window test sends less than a segment
only at the end of the block (EmitsCell), and because every point the server starts from is
`t_seqno_` or a rounded acknowledgement (NextSeqAligned, ResumeAligned). An acknowledgement rounded
up stays in the cell of the byte before it, which the client has (CellsSuffice). That is why it
holds for a hold of any size, longer than a segment too, and why it fails when `need_send` lets a
cut segment pass.

**Reassembly.** `DataTheorems` is, in its larger part, about the operators of `rq.cc` alone, for
any queue: a queue is `Good` when its blocks are in order, do not touch and lie ahead of `nxt`, and
its stack lists the same blocks. `Add` is taken case by case: a segment ahead of `nxt` is placed,
merged with what it overlaps and linked to what it touches (AddAhead), one that begins at `nxt`
also hands over what it reaches (AddNext), and `Clearto` frees what lies below (ClearFirst). Each
keeps the queue good and adds exactly the bytes of the segment to what it covers (`Extends`,
`Grows`). The inductive invariant of the receiver, ReceiverInv, says that until the FIN comes out
of the queue `rcv_nxt_` is the first byte missing, the queue is good and covers exactly what has
arrived beyond it, and a FIN flag stands only on a block that ends the stream; after it everything
has come and the queue is empty. The theorems are its conjuncts, and SackTruthful follows because
`Gensack` reports blocks of the queue.

**Connection.** The invariant is about an agent `c`, its peer `d` and the packets between them:
`Both` says `Half` of the two and of the two exchanged, so each handler is taken once, for the end
where it runs. `Half` has three layers.

* *The agent by itself* (`Well`, `Phase`, `Tight`, `Tuned`). `Phase` says for each state where
  `highest_ack_`, `t_seqno_`, `maxseq_` and `curseq_` stand to each other: everything is -1 or 0
  before the SYN (`Blank`), the SYN alone is out (`Calling`), what was sent lies within what is
  buffered (`Sending`), or nothing will be added and what was sent is all of it, with or without the
  FIN (`Ending`, `Answered`). `maxseq_` alone therefore does not tell whether the FIN is sent
  (the finding FinHeard); `FinSent` and `Top`, the end of the data that went out, do.
* *The agent and its peer* (`Side`). What `c` has received is what `d` has sent, less what is missing
  (`Hears`): `rcv_nxt_` is not beyond `Top(d)` until the FIN is counted and is `maxseq_` of `d` then,
  and the queue is good, ends at `Top(d)` and carries a FIN only there, so the lemmas about `Add` of
  `DataTheorems` apply. What `c` takes for acknowledged `d` has received, and the closing states
  of the two fit.
* *The packets* (`Sends`, `LastFins`, `UnusedIs`, `LeftBehind`). Each segment under way says of its
  sender what was true when it left and stays true as the sender grows (`From`, `Grown`). A FIN of an
  end in LAST_ACK acknowledges everything, a FIN included; an end that was never used has sent
  nothing; and when an end is gone, what is left on the way to the other is too old to move it.

A handler changes the record of the agent step by step, as the code does: `foutput` and the turns
of `send_much` (SendMuch keeps `Flow`, by induction over the turns), the acknowledgement, the
closing states, the data and FIN steps, the answer. The proof follows these steps with one
relation, `Goes(c, d, x)`: `x` is an agent that is in order by itself and beside the same peer, it
has grown from `c`, and its output is true of it. From `Goes` the rest follows once for all
(BecomesEnds), since a packet of the peer never speaks of what `c` has not yet sent. Opening, which
makes a blank agent one that calls, is taken by itself, and `CloseOnce` enters only in `usrclosed`.

**IAFlow.** `Inv == TypeOK /\ AckOrder /\ WindowRespected /\ SentBound /\ AcksSorted`. SentBound
plays the same part as above; AcksSorted, over the FIFO link, is what keeps an acknowledgement from
taking `highest_ack_` back; WindowRespected is itself inductive because every send goes through the
test of `send_much` with the capped `window()`. NoSpuriousRetransmit needs to know what the links
carry as long as nothing is lost and no timeout is premature. Then (CalmInv) the data under way is
a line that continues at `next_`, in which only the SYN is repeated; an acknowledgement of number k
is repeated at most `Repeats(k)` times, `MaxDupSyn - 1` times for the copies of the SYN and once,
for a later packet, by the window update; and what the server has counted and what is still under
way stay together below that. A step either appends to the line (LineGrows) or takes its first
packet away (LineShrinks), and both keep the count of acknowledgements. With `MaxDupSyn` one above
the threshold, the copies of the SYN alone reach it, so the hypothesis cannot be weaker.

**SackFlow.** The sink and the sender are taken apart. Of the sink, SinkOK says that each block of
the stack is a whole island of the packets above a gap, that none is there twice, and that only a
packet without a gap waits for the delay timer. A packet that arrives makes one new island
(IslandIs); an earlier block is still whole unless it touches the new one, and then it lies inside
it (StillWhole, CoveredInside), which is what `append_ack` tests before it keeps one; so the stack
it rebuilds is again one of whole islands, and loses one only to the limit (StackRebuilt). Of the
sender, SenderOK says that the scoreboard is empty or a good queue that begins right after
`highest_ack_`, and that outside recovery `last_ack_` is `highest_ack_`. It is kept because
`UpdateScoreBoard` clears what is acknowledged (AckedBoardIs), adds blocks that lie above it
(BlocksAdded, over the lemmas about `Add`), and sending leaves the scoreboard alone
(SendMuchKeeps). What ties both is Network: an acknowledgement under way reports only what the sink
has, in blocks above the packet it says is missing; one sent later acknowledges no less, and what
it says is missing no earlier one reports (InTurn); and the scoreboard covers only what the sink
has, never the packet after an acknowledgement under way. This last is why a block cannot straddle
the acknowledgement it is cleared for, and it is kept because the packet a new acknowledgement asks
for has not arrived, so nothing sent before can have reported it (AckAdded, AckedTrue). ScoreTruth
follows from SinkOK and Network, TypeOK from the types in SinkOK and SenderOK, SackKeeps is what
StackRebuilt says of a step.

**Controllers.** A poll is a recursion over the flows. Its proof has three layers: the three parts
of a visit each keep `Good`, a set of poll states (SendNextSynGood, ActivateNextGood,
SubtractGood); the recursive function `Polled` exists and each of its values is in `Good`
(PolledGood); and the sum of all counters reaches the total only when each flow has its share
(TotalReached). In `Good` the NCCS controller bounds activations by the flags of flows near their
end, and by the cap as long as nobody has finished; in the AHTCP controller nobody is ever
subtracted (NeverSubtracted), so there the cap holds throughout. LooksInTime rests on `TimeOrder`,
which relates the polls since the interval began, since the lock was set and since the goodput was
last looked at; no value of the goodput enters its proof.

**Snoop.** The ring is a matter of indices modulo `M`, which the provers do not handle; the proof
speaks of distances from the tail instead (`Off`), where a buffer is in use when its distance is
less than the number of packets kept (`Size`, UsedFacts). `RingOK` says that packets in use
increase with the distance and lie between two bounds, and that the other buffers are empty. Each
operation on the ring then is a lemma of linear arithmetic: a packet at the head (HeadOK), above
the n lowest ones, which move down by one (BelowOK, of which the tail is the case n = 0), a changed
copy (ChangeOK), the n lowest ones freed (ClearOK). PlacedRight shows that `snoop_insert` picks the
right one. The inductive invariant is RingOK between `lastAck` and `lastSeen`, the types of the
links, and `lastAck <= told`, which makes a duplicate that is kept back old news to the sender.

**Induction over data.** `DataTheorems` also states what recursion needs without the library's
induction theorems, which take an operator as a parameter: a set of numbers that is not empty has a
least element (LeastElement, from the well-foundedness of `<`), hence induction as a fact about a
set (IntervalInduction) and the existence of a function defined by primitive recursion
(PrimitiveRecursion), both stated for any set and any step function.

**Only model-checked.** Liveness under fairness, which is beyond this prover: AllAcked in its four
runs, Opens and Finishes of `Connection`, AppFinishes of both controllers, Recovers of
`Snoop`. Of `SackFlow`, OnlyLost, which counts packets on both links
against the scoreboard and what earlier recoveries sent. Every
other property of a passing run is stated by a theorem.

## 5. Not modelled

* `tcp-ic-sink.cc`: the incast-control sink adapts its window to a rate measured over real time.
* Sack FullTcp: its queue is `ReassemblyQueue` and its agent is that of `Connection` and `AckHold`
  with other actions for partial and duplicate acknowledgements; the scripts use NewReno.
* The other half of the snoop agent (`wlseqs_`, loss notification) and its `lru_` option, which
  nothing sets.
* ECN, quick start, round-trip estimation and the backoff of timers, D-SACK and F-RTO.
* The other congestion controls of one-way TCP, TFRC and RTCP: unmodified parts of ns-2.35 that the
  experiments do not use, and whose own state is real-valued windows and rates, which TLC cannot
  enumerate and a rounded model would misrepresent.
* The snapshots of `tcp-full.cc` and `tcp.cc` beside the built files, which no build refers to, and
  generated tables (`tcplib-telnet.cc`). Together they are a third of the lines of `ns-2.35/tcp`.
* The composition of a controller with its flows: the controllers assume of a flow what `IAFlow` and
  `AckHold` show of one (see Fairness), but no module runs several detailed flows under a
  controller; the product is out of TLC's reach.

Six hazards of the list have no property; each has a note in `PROJECT.json`: the cut segment of
`segs_per_ack_` 0 (`tcp-full.cc:1170`), the lost window update (`tcp-ia-sink.cc:81`), a block that
is a multiple of the payload (`incast-mul-NCCS.tcl:81`), the FIN lost in a merge (`rq.cc:572`), the
count of the AHTCP controller that never falls (`ahtcp.A.tcl:526`) and the goodput it never
computes (`ahtcp.A.tcl:546`).
