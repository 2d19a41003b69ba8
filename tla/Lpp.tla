--------------------------------- MODULE Lpp ---------------------------------
(***************************************************************************)
(* LPP, the probe-based MAC of core/net/mac/lpp.c, as the non-GLOSSY       *)
(* build uses it (MAC_PROTOCOL == LPP: WITH_FTSP and TRICKLE_ON, relunicast *)
(* timers are plain ctimers): a forwarder that relays its child's packets  *)
(* to the sink with relcollect and relunicast, and the sink as its         *)
(* duty-cycled parent.  Times are clock ticks (CLOCK_SECOND 128).          *)
(*                                                                         *)
(* Every node runs dutycycle from a ctimer: an on-phase that turns the    *)
(* radio on and sends a probe, then an off-phase that turns it off unless *)
(* packets are queued.  send_packet queues a packet in queued_packets_list *)
(* with a removal ctimer and keeps the radio on; read_packet, on a probe   *)
(* of the packet's receiver, sends the queued packets, and for a unicast   *)
(* busy-waits for the ACK and removes it, which reports the attempt to     *)
(* relunicast by post_send.  relcollect's rel_send_queued_packet hands the *)
(* next packet to relunicast only while LPP's list is empty.               *)
(*                                                                         *)
(* Contiki runs callbacks and processes to completion: each handler is one *)
(* action, and the forwarder's probe loop and ACK wait (well under a tick) *)
(* take several actions that no other handler of the forwarder interleaves *)
(* and during which the clock does not advance; the sink runs in parallel. *)
(* Expired ctimers and received frames are served before the clock moves.  *)
(*                                                                         *)
(* Left out: the forwarder's own probes (the sink, which has nothing       *)
(* queued, reads and drops them); the sink's own broadcasts; the child's   *)
(* side of its handshake (its DATA frames arrive while the forwarder's     *)
(* radio is on, and the forwarder's ACK to it changes nothing modelled).   *)
(***************************************************************************)
EXTENDS Integers, Sequences, SequencesExt

CONSTANTS
  Fwd, Sink,        \* the forwarder and its parent, the sink (model values)
  ON_TIME,          \* lpp_config.on_time
  OFF_TIME,         \* lpp_config.off_time (t_s of current_cfg)
  MAX_RXMIT,        \* current_cfg.n, passed to relcollect_send
  QUEUEBUF_NUM,     \* the queuebuf pool (QUEUEBUF_CONF_NUM)
  MAX_LATE,         \* ticks the sink's on-phase ctimer may fire late
  MaxChild,         \* bound on DATA frames the child sends the forwarder
  MaxBcast,         \* bound on broadcasts (FTSP beacons, Trickle) queued
  MaxLoss,          \* bound on frames lost in the run
  MaxAdapt          \* bound on set_lpp_config calls

Nodes == {Fwd, Sink}

(* lpp.h:50, in ctimer ticks.                                              *)
LPP_RANDOM_OFF_TIME_ADJUSTMENT == 3

TX_TIMEOUT_no_adjustment == 2 * ON_TIME + OFF_TIME

(* lpp_config's initializer and adaptation_process's current_cfg.t_l:     *)
(* an on-phase either side of an off-phase, plus the random extension.     *)
TX_TIMEOUT == 2 * ON_TIME + OFF_TIME + LPP_RANDOM_OFF_TIME_ADJUSTMENT

(* relunicast.c: T_DUTY, RANDOM_DELAY and REXMIT_TIME for LPP.             *)
T_DUTY == OFF_TIME + ON_TIME
RandomDelay == 0 .. T_DUTY - 1
RexmitTime == {T_DUTY + r : r \in RandomDelay}

MAX_QUEUED_PACKETS == QUEUEBUF_NUM \div 2
CLOCK_WRAP == 65536     \* clock_time_t is 16 bits on the sky platform
Stopped == -1           \* a ctimer that is not pending

(* lpp_hdr: type, sender, receiver; a DATA frame also carries the number  *)
(* of the relunicast attempt that sent it (0 for a broadcast).             *)
Frame(t, from, to, a) == [type |-> t, sender |-> from, receiver |-> to, att |-> a]
Bcast == "null"         \* rimeaddr_null

VARIABLES
  fw,           \* the forwarder: LPP list, radio, relunicast, relcollect
  sink_radio,   \* the sink's transceiver is on
  fifo,         \* per node: frames received and not yet read
  pt,           \* per node: dutycycle's next resumption, "on" or "off"
  dt,           \* per node: ticks until the dutycycle ctimer fires
  late,         \* ticks the sink's on-phase ctimer is overdue
  lp,           \* forwarder's probe loop: next list index, 0 outside it
  spc,          \* forwarder: "idle" or "wait" in send_packet_to_radio
  got_data_ack,
  \* environment and history
  child, bcasts, losses, adapts,
  sends,        \* unicast attempts LPP accepted
  reports,      \* post_send calls
  outcome,      \* argument of the last post_send: "none", "ack", "nack"
  clean,        \* the current attempt lost no frame
  shadowed,     \* its DATA went out after a broadcast on the same probe
  delivered     \* attempts whose DATA the sink passed up

vars == <<fw, sink_radio, fifo, pt, dt, late, lp, spc, got_data_ack,
          child, bcasts, losses, adapts, sends, reports, outcome, clean,
          shadowed, delivered>>

RadioOn(n) == IF n = Fwd THEN fw.radio ELSE sink_radio

(* The forwarder's queuebufs: the forwarding queue, relunicast's c->buf    *)
(* and the packets in LPP's list.                                          *)
PoolUsed(s) == s.fq + (IF s.buf THEN 1 ELSE 0) + Len(s.mq)

(* radio->send(f) to node `to': delivered if to's radio is on, unless     *)
(* lost (at most MaxLoss in the run).                                      *)
SendFrame(buf, f, to) ==
  \/ /\ losses < MaxLoss
     /\ losses' = losses + 1 /\ clean' = FALSE
     /\ fifo' = buf
  \/ /\ fifo' = IF RadioOn(to) THEN [buf EXCEPT ![to] = Append(@, f)] ELSE buf
     /\ UNCHANGED <<losses, clean>>

(***************************************************************************)
(* relunicast and relcollect on the forwarder, as transformations of fw.   *)
(***************************************************************************)
(* relunicast_send: refused while transmitting; c->buf is freed before    *)
(* the copy is allocated, and a failed allocation returns 0.               *)
relunicast_send(s, delay) ==
  IF s.is_tx THEN s
  ELSE LET s1 == [s EXCEPT !.buf = FALSE]
       IN IF PoolUsed(s1) >= QUEUEBUF_NUM THEN s1
          ELSE [s1 EXCEPT !.buf = TRUE, !.rxmit = 0, !.is_tx = TRUE, !.rt = delay]

(* rel_send_queued_packet: nothing queued, a packet being forwarded, or   *)
(* (LPP) a packet still in LPP's list: return.  Otherwise forwarding is    *)
(* set and relunicast_send's result ignored.  The static route has the     *)
(* sink as only neighbor, and the loop check never removes it.             *)
rel_send_queued_packet(s, delay) ==
  IF s.fq = 0 \/ s.forwarding \/ s.mq # <<>> THEN s
  ELSE relunicast_send([s EXCEPT !.forwarding = TRUE], delay)

(* rel_node_packet_sent / rel_node_packet_timedout: forwarding cleared,   *)
(* the head dequeued (its queuebuf freed), the next one sent.              *)
rel_node_packet_done(s, delay) ==
  rel_send_queued_packet([s EXCEPT !.forwarding = FALSE, !.fq = @ - 1], delay)

(* post_send(acknowledged): an ack ends the packet (is_tx cleared, rxmit   *)
(* decremented, the ctimer stopped, the sent callback); otherwise the      *)
(* retransmission ctimer is set to REXMIT_TIME.                            *)
post_send(s, ack, rexmit, delay) ==
  IF ack
  THEN rel_node_packet_done([s EXCEPT !.is_tx = FALSE, !.rxmit = @ - 1,
                                      !.rt = Stopped], delay)
  ELSE [s EXCEPT !.rt = rexmit]

remove_queued_packet_no_resend(s, i, ack, rexmit, delay) ==
  LET s1 == [s EXCEPT !.mq = RemoveAt(@, i),
                      !.radio = IF Len(s.mq) = 1 THEN FALSE ELSE @]
  IN IF s.mq[i].bc THEN s1 ELSE post_send(s1, ack, rexmit, delay)

(* remove_queued_packet(i): the removal ctimer stopped, the queuebuf      *)
(* freed, the item unlinked; the radio off if the list is now empty        *)
(* (lpp_is_on is always 1 here); post_send for a unicast; and finally      *)
(* rel_send_queued_packet().                                               *)
remove_queued_packet(s, i, ack, rexmit, delay) ==
  LET s1 == [s EXCEPT !.mq = RemoveAt(@, i),
                      !.radio = IF Len(s.mq) = 1 THEN FALSE ELSE @]
      s2 == IF s.mq[i].bc THEN s1 ELSE post_send(s1, ack, rexmit, delay)
  IN rel_send_queued_packet(s2, delay)

(* The history of a removal: a unicast is reported.                        *)
Reported(s, i, ack) ==
  IF s.mq[i].bc THEN UNCHANGED <<reports, outcome>>
  ELSE /\ reports' = reports + 1
       /\ outcome' = IF ack THEN "ack" ELSE "nack"

(* Mutant: send_packet without the queuebuf_new failure test.             *)
CanQueue_no_queuebuf(s) == Len(s.mq) < MAX_QUEUED_PACKETS

(* send_packet's allocations: a list item (memb) and a queuebuf.           *)
CanQueue(s) == Len(s.mq) < MAX_QUEUED_PACKETS /\ PoolUsed(s) < QUEUEBUF_NUM

(* send_packet with the item queued: removal ctimer tx_timeout,          *)
(* i->acknowledged = 0, radio on, appended to the list.                    *)
Queued(s, bc, a) ==
  [s EXCEPT !.mq = Append(@, [bc |-> bc, tmo |-> TX_TIMEOUT, att |-> a, ack |-> FALSE]),
            !.radio = TRUE]

FwdBusy == lp > 0 \/ spc = "wait"

MAX_FORWARDING_QUEUE == 50   \* relcollect.c

(***************************************************************************)
(* Actions                                                                 *)
(***************************************************************************)
(* dutycycle(), resumed at the loop head: radio on, a probe (the sink's   *)
(* reaches the forwarder), and the ctimer set to on_time.                  *)
dutycycle_on(n) ==
  /\ dt[n] = 0 /\ pt[n] = "off"
  /\ n = Fwd => ~FwdBusy
  /\ pt' = [pt EXCEPT ![n] = "on"]
  /\ dt' = [dt EXCEPT ![n] = ON_TIME]
  /\ IF n = Sink
     THEN /\ sink_radio' = TRUE
          /\ SendFrame(fifo, Frame("PROBE", Sink, Sink, 0), Fwd)
          /\ UNCHANGED fw
     ELSE /\ fw' = [fw EXCEPT !.radio = TRUE]
          /\ UNCHANGED <<sink_radio, fifo, losses, clean>>
  /\ UNCHANGED <<late, lp, spc, got_data_ack, child, bcasts, adapts, sends,
                 reports, outcome, shadowed, delivered>>

dutycycle_off_always(n) ==
  /\ dt[n] = 0 /\ pt[n] = "on"
  /\ n = Fwd => ~FwdBusy
  /\ pt' = [pt EXCEPT ![n] = "off"]
  /\ \E tr \in 0 .. LPP_RANDOM_OFF_TIME_ADJUSTMENT - 1 :
       dt' = [dt EXCEPT ![n] = OFF_TIME + tr]
  /\ IF n = Sink THEN sink_radio' = FALSE /\ UNCHANGED fw
     ELSE fw' = [fw EXCEPT !.radio = FALSE] /\ UNCHANGED sink_radio
  /\ late' = IF n = Sink THEN 0 ELSE late
  /\ UNCHANGED <<fifo, lp, spc, got_data_ack, child, bcasts, adapts, sends,
                 reports, outcome, clean, shadowed, losses, delivered>>

(* dutycycle(), resumed after the on-phase.  With nothing queued the      *)
(* radio goes off and the ctimer is set to off_time + tr, tr < 3; the sink *)
(* subtracts the displacement (how late this resumption came) when it is   *)
(* below 10.  With packets queued the radio stays on for off_time.         *)
dutycycle_off(n) ==
  /\ dt[n] = 0 /\ pt[n] = "on"
  /\ n = Fwd => ~FwdBusy
  /\ pt' = [pt EXCEPT ![n] = "off"]
  /\ LET displacement == IF n = Sink THEN late ELSE 0
         queued == n = Fwd /\ fw.mq # <<>>
     IN IF queued
        THEN /\ dt' = [dt EXCEPT ![n] = OFF_TIME]
             /\ UNCHANGED <<fw, sink_radio>>
        ELSE /\ \E tr \in 0 .. LPP_RANDOM_OFF_TIME_ADJUSTMENT - 1 :
                  dt' = [dt EXCEPT ![n] =
                          IF n = Sink /\ displacement < 10
                          THEN (OFF_TIME + tr - displacement) % CLOCK_WRAP
                          ELSE OFF_TIME + tr]
             /\ IF n = Sink THEN sink_radio' = FALSE /\ UNCHANGED fw
                ELSE fw' = [fw EXCEPT !.radio = FALSE] /\ UNCHANGED sink_radio
  /\ late' = IF n = Sink THEN 0 ELSE late
  /\ UNCHANGED <<fifo, lp, spc, got_data_ack, child, bcasts, adapts, sends,
                 reports, outcome, clean, shadowed, losses, delivered>>

(* read_packet at the forwarder, a probe (only the sink's reach it): with *)
(* packets queued, the loop over the list starts.                          *)
fwd_read_probe ==
  /\ ~FwdBusy /\ fifo[Fwd] # <<>> /\ Head(fifo[Fwd]).type = "PROBE"
  /\ fifo' = [fifo EXCEPT ![Fwd] = Tail(@)]
  /\ lp' = IF Len(fw.mq) > 0 THEN 1 ELSE 0
  /\ UNCHANGED <<fw, sink_radio, pt, dt, late, spc, got_data_ack, child,
                 bcasts, losses, adapts, sends, reports, outcome, clean,
                 shadowed, delivered>>

(* One pass of the loop at index lp.  Every item matches the sink's probe *)
(* (a broadcast, or a unicast to the sink): send_packet_to_radio clears   *)
(* got_data_ack and sends it.  A broadcast stays queued; a unicast starts  *)
(* the ACK wait, after which the loop ends: remove_queued_packet's         *)
(* list_remove sets the item's next to NULL (Contiki's list.c).            *)
probe_loop_send ==
  /\ lp > 0 /\ lp <= Len(fw.mq)
  /\ LET it == fw.mq[lp] IN
     /\ SendFrame(fifo, Frame("DATA", Fwd, IF it.bc THEN Bcast ELSE Sink, it.att), Sink)
     /\ lp' = IF it.bc THEN lp + 1 ELSE 0
     /\ spc' = IF it.bc THEN spc ELSE "wait"
     /\ shadowed' = (shadowed \/ it.bc)
  /\ got_data_ack' = FALSE
  /\ UNCHANGED <<fw, sink_radio, pt, dt, late, child, bcasts, adapts, sends,
                 reports, outcome, delivered>>

probe_loop_end ==
  /\ lp > Len(fw.mq)
  /\ lp' = 0
  /\ UNCHANGED <<fw, sink_radio, fifo, pt, dt, late, spc, got_data_ack, child,
                 bcasts, losses, adapts, sends, reports, outcome, clean,
                 shadowed, delivered>>

(* The unicast item whose ACK the forwarder waits for; relunicast's stop- *)
(* and-wait keeps at most one unicast in the list.                         *)
WaitItem == SelectInSeq(fw.mq, LAMBDA it : ~it.bc)

(* The busy loop of send_packet_to_radio reads every frame that arrives;  *)
(* an ACK naming the forwarder as sender and receiver sets got_data_ack   *)
(* and the item's acknowledged, which ends the loop; any other frame is    *)
(* lost to the MAC.                                                        *)
ack_wait_read ==
  /\ spc = "wait" /\ ~got_data_ack /\ fifo[Fwd] # <<>>
  /\ LET f == Head(fifo[Fwd])
         matched == f.type = "ACK" /\ f.sender = Fwd /\ f.receiver = Fwd
     IN /\ got_data_ack' = matched
        /\ fw' = IF matched THEN [fw EXCEPT !.mq[WaitItem].ack = TRUE] ELSE fw
  /\ fifo' = [fifo EXCEPT ![Fwd] = Tail(@)]
  /\ UNCHANGED <<sink_radio, pt, dt, late, lp, spc, child, bcasts, losses,
                 adapts, sends, reports, outcome, clean, shadowed, delivered>>

(* The loop ends with the ACK, or at WAIT_FOR_DATA_ACK, which the sink's  *)
(* answer meets: the deadline passes only once the sink has read what it  *)
(* got.  Then remove_queued_packet of the unicast, which reports          *)
(* i->acknowledged, not got_data_ack.                                      *)
ack_wait_end ==
  /\ spc = "wait"
  /\ got_data_ack \/ (fifo[Fwd] = <<>> /\ fifo[Sink] = <<>>)
  /\ spc' = "idle"
  /\ LET i == WaitItem IN
       /\ \E rx \in RexmitTime, d \in RandomDelay :
            fw' = remove_queued_packet(fw, i, fw.mq[i].ack, rx, d)
       /\ Reported(fw, i, fw.mq[i].ack)
  /\ UNCHANGED <<sink_radio, fifo, pt, dt, late, lp, got_data_ack, child,
                 bcasts, losses, adapts, sends, clean, shadowed, delivered>>

(* The removal ctimer of item i fires: remove_queued_packet with the     *)
(* item's acknowledged (still 0: the ACK wait that sets it removes the     *)
(* item at once).                                                          *)
removal_timer(i) ==
  /\ ~FwdBusy /\ fw.mq[i].tmo = 0
  /\ \E rx \in RexmitTime, d \in RandomDelay :
       fw' = remove_queued_packet(fw, i, fw.mq[i].ack, rx, d)
  /\ Reported(fw, i, fw.mq[i].ack)
  /\ UNCHANGED <<sink_radio, fifo, pt, dt, late, lp, spc, got_data_ack, child,
                 bcasts, losses, adapts, sends, clean, shadowed, delivered>>

(* read_packet at the forwarder, a DATA frame of its child: the ACK to the *)
(* child (not modelled), the radio off if nothing is queued, and the      *)
(* packet up to rel_node_packet_received: a new packet is enqueued if the *)
(* queue and the pool have room, else dropped, then                        *)
(* rel_send_queued_packet.                                                 *)
fwd_read_data ==
  /\ ~FwdBusy /\ fifo[Fwd] # <<>> /\ Head(fifo[Fwd]).type = "DATA"
  /\ fifo' = [fifo EXCEPT ![Fwd] = Tail(@)]
  /\ LET s1 == [fw EXCEPT !.radio = IF fw.mq = <<>> THEN FALSE ELSE @]
         room == s1.fq < MAX_FORWARDING_QUEUE /\ PoolUsed(s1) < QUEUEBUF_NUM
     IN \E d \in RandomDelay :
          fw' = IF room THEN rel_send_queued_packet([s1 EXCEPT !.fq = @ + 1], d)
                ELSE s1
  /\ UNCHANGED <<sink_radio, pt, dt, late, lp, spc, got_data_ack, child, bcasts,
                 losses, adapts, sends, reports, outcome, clean, shadowed, delivered>>

(* Mutant: the DATA_ACK sent for every DATA, broadcasts included.        *)
sink_read_packet_ack_all ==
  /\ fifo[Sink] # <<>>
  /\ LET f == Head(fifo[Sink])
         rest == [fifo EXCEPT ![Sink] = Tail(@)]
     IN /\ SendFrame(rest, Frame("ACK", f.sender, f.sender, 0), f.sender)
        /\ delivered' = IF f.receiver = Sink THEN delivered \cup {f.att} ELSE delivered
  /\ sink_radio' = FALSE
  /\ UNCHANGED <<fw, pt, dt, late, lp, spc, got_data_ack, child, bcasts,
                 adapts, sends, reports, outcome, shadowed>>

(* read_packet at the sink, a DATA frame of the forwarder: a unicast to  *)
(* the sink is answered with an ACK naming the forwarder twice and passed *)
(* up to relcollect's recv; the radio goes off (the sink queues nothing).  *)
sink_read_packet ==
  /\ fifo[Sink] # <<>>
  /\ LET f == Head(fifo[Sink])
         rest == [fifo EXCEPT ![Sink] = Tail(@)]
     IN IF f.receiver = Sink
        THEN /\ SendFrame(rest, Frame("ACK", f.sender, f.sender, 0), f.sender)
             /\ delivered' = delivered \cup {f.att}
        ELSE /\ fifo' = rest
             /\ UNCHANGED <<delivered, losses, clean>>
  /\ sink_radio' = FALSE
  /\ UNCHANGED <<fw, pt, dt, late, lp, spc, got_data_ack, child, bcasts,
                 adapts, sends, reports, outcome, shadowed>>

(* relunicast send() from its ctimer, retransmissions used up: is_tx     *)
(* cleared, rxmit decremented, then rel_node_packet_timedout.             *)
send_timedout ==
  /\ ~FwdBusy /\ fw.rt = 0 /\ fw.rxmit > MAX_RXMIT
  /\ \E d \in RandomDelay :
       fw' = rel_node_packet_done([fw EXCEPT !.is_tx = FALSE, !.rxmit = @ - 1,
                                            !.rt = Stopped], d)
  /\ UNCHANGED <<sink_radio, fifo, pt, dt, late, lp, spc, got_data_ack, child,
                 bcasts, losses, adapts, sends, reports, outcome, clean,
                 shadowed, delivered>>

(* relunicast send(), another attempt: rxmit++, unicast_send, which is    *)
(* LPP's send_packet.  Without a list item it returns 1, without a         *)
(* queuebuf 0, queueing nothing either way; relunicast ignores the result *)
(* and, under LPP, sets no timer: only post_send continues the packet.     *)
send_attempt ==
  /\ ~FwdBusy /\ fw.rt = 0 /\ fw.rxmit <= MAX_RXMIT
  /\ LET s1 == [fw EXCEPT !.rxmit = @ + 1, !.rt = Stopped] IN
     IF CanQueue(s1)
     THEN /\ fw' = Queued(s1, FALSE, sends + 1)
          /\ sends' = sends + 1 /\ outcome' = "none"
          /\ clean' = TRUE /\ shadowed' = FALSE
     ELSE /\ fw' = s1
          /\ UNCHANGED <<sends, outcome, clean, shadowed>>
  /\ UNCHANGED <<sink_radio, fifo, pt, dt, late, lp, spc, got_data_ack, child,
                 bcasts, losses, adapts, reports, delivered>>

(* Environment: the child's DATA frame reaches the forwarder while its    *)
(* radio is on (the child sends it on a probe of the forwarder).           *)
child_sends ==
  /\ child < MaxChild /\ fw.radio
  /\ child' = child + 1
  /\ fifo' = [fifo EXCEPT ![Fwd] = Append(@, Frame("DATA", "child", Fwd, 0))]
  /\ UNCHANGED <<fw, sink_radio, pt, dt, late, lp, spc, got_data_ack, bcasts,
                 losses, adapts, sends, reports, outcome, clean, shadowed, delivered>>

(* send_packet of a broadcast (an FTSP beacon or a Trickle message): with *)
(* a list item and a queuebuf it is queued for tx_timeout *                *)
(* BROADCAST_TIMEOUT_FACTOR (1) and the radio turned on; otherwise it is   *)
(* dropped.                                                                *)
lpp_broadcast ==
  /\ ~FwdBusy /\ bcasts < MaxBcast
  /\ bcasts' = bcasts + 1
  /\ fw' = IF CanQueue(fw) THEN Queued(fw, TRUE, 0) ELSE fw
  /\ UNCHANGED <<sink_radio, fifo, pt, dt, late, lp, spc, got_data_ack, child,
                 losses, adapts, sends, reports, outcome, clean, shadowed, delivered>>

(* set_lpp_config from adaptation_process: off(0) clears lpp_is_on before *)
(* its turn_radio_off, which therefore does nothing, and on() sets it and *)
(* turns the radio on.  The new times are the current ones.                *)
set_lpp_config(n) ==
  /\ adapts < MaxAdapt
  /\ n = Fwd => ~FwdBusy
  /\ adapts' = adapts + 1
  /\ IF n = Fwd THEN fw' = [fw EXCEPT !.radio = TRUE] /\ UNCHANGED sink_radio
     ELSE sink_radio' = TRUE /\ UNCHANGED fw
  /\ UNCHANGED <<fifo, pt, dt, late, lp, spc, got_data_ack, child, bcasts,
                 losses, sends, reports, outcome, clean, shadowed, delivered>>

(* What must run before the clock advances.  The sink's on-phase ctimer  *)
(* may be up to MAX_LATE ticks overdue (the sink's printing at every       *)
(* reception delays it).                                                   *)
Urgent ==
  \/ \E n \in Nodes : fifo[n] # <<>>
  \/ FwdBusy \/ fw.rt = 0
  \/ \E i \in DOMAIN fw.mq : fw.mq[i].tmo = 0
  \/ dt[Fwd] = 0
  \/ dt[Sink] = 0 /\ ~(pt[Sink] = "on" /\ late < MAX_LATE)

Tick ==
  /\ ~Urgent
  /\ dt' = [n \in Nodes |-> IF dt[n] > 0 THEN dt[n] - 1 ELSE 0]
  /\ late' = IF dt[Sink] = 0 THEN late + 1 ELSE late
  /\ fw' = [fw EXCEPT
              !.mq = [i \in DOMAIN fw.mq |-> [fw.mq[i] EXCEPT !.tmo = @ - 1]],
              !.rt = IF @ > 0 THEN @ - 1 ELSE @]
  /\ UNCHANGED <<sink_radio, fifo, pt, lp, spc, got_data_ack, child, bcasts,
                 losses, adapts, sends, reports, outcome, clean, shadowed, delivered>>

(* The model starts after boot: lpp_init has started dutycycle with a     *)
(* random initial wait below off_time, and adaptation_process's initial   *)
(* set_lpp_config has turned both radios on.                               *)
Init ==
  /\ fw = [mq |-> <<>>, fq |-> 0, forwarding |-> FALSE, is_tx |-> FALSE,
           rxmit |-> 0, rt |-> Stopped, buf |-> FALSE, radio |-> TRUE]
  /\ sink_radio = TRUE
  /\ fifo = [n \in Nodes |-> <<>>]
  /\ pt = [n \in Nodes |-> "off"]
  /\ dt \in [Nodes -> 0 .. OFF_TIME - 1]
  /\ late = 0 /\ lp = 0 /\ spc = "idle" /\ got_data_ack = FALSE
  /\ child = 0 /\ bcasts = 0 /\ losses = 0 /\ adapts = 0
  /\ sends = 0 /\ reports = 0 /\ outcome = "none" /\ clean = TRUE
  /\ shadowed = FALSE
  /\ delivered = {}

FwdStep ==
  \/ fwd_read_probe \/ probe_loop_send \/ probe_loop_end
  \/ ack_wait_read \/ ack_wait_end \/ fwd_read_data
  \/ \E i \in DOMAIN fw.mq : removal_timer(i)
  \/ send_timedout \/ send_attempt

System ==
  \/ Tick \/ FwdStep \/ sink_read_packet
  \/ \E n \in Nodes : dutycycle_on(n) \/ dutycycle_off(n)

Env == child_sends \/ lpp_broadcast \/ \E n \in Nodes : set_lpp_config(n)

Next == System \/ Env

(* Ctimers fire and received frames are read: the system's own steps are *)
(* weakly fair; the child, broadcasts and reconfigurations are not.        *)
Spec == Init /\ [][Next]_vars /\ WF_vars(System)

(***************************************************************************)
(* Properties                                                              *)
(***************************************************************************)
Item == [bc : BOOLEAN, tmo : 0 .. TX_TIMEOUT, att : Nat, ack : BOOLEAN]

TypeOK ==
  /\ fw \in [mq : Seq(Item), fq : 0 .. MAX_FORWARDING_QUEUE,
             forwarding : BOOLEAN, is_tx : BOOLEAN, rxmit : 0 .. MAX_RXMIT + 1,
             rt : {Stopped} \cup 0 .. 2 * T_DUTY, buf : BOOLEAN, radio : BOOLEAN]
  /\ PoolUsed(fw) <= QUEUEBUF_NUM
  /\ sink_radio \in BOOLEAN
  /\ pt \in [Nodes -> {"on", "off"}] /\ late \in 0 .. MAX_LATE
  /\ spc \in {"idle", "wait"} /\ outcome \in {"none", "ack", "nack"}
  /\ delivered \subseteq 0 .. sends

(* The forwarder is wedged: relunicast_send found no queuebuf, so         *)
(* forwarding is set with nothing in flight; or LPP's send_packet queued   *)
(* no attempt, so relunicast waits for a post_send that never comes.       *)
Wedged ==
  \/ fw.forwarding /\ ~fw.is_tx
  \/ /\ fw.is_tx /\ fw.rt = Stopped /\ spc = "idle"
     /\ \A i \in DOMAIN fw.mq : fw.mq[i].bc

(* LPP is the MAC that relunicast expects (MacUnicast) for the attempts   *)
(* it accepts: an attempt is queued until remove_queued_packet reports it  *)
(* by post_send, exactly once, with an ack only if the sink passed its     *)
(* DATA up, and every queued attempt is reported.  A unicast queued in the *)
(* list is the pending attempt; broadcasts are never reported.             *)
Mac == INSTANCE MacUnicast WITH
         busy <- \E i \in DOMAIN fw.mq : ~fw.mq[i].bc,
         got <- sends \in delivered,
         sent <- sends, reports <- reports, last <- outcome

MacRefined == Mac!Spec

(* A unicast during which no frame was lost is acknowledged: tx_timeout  *)
(* covers the longest gap between two of the sink's probes (on_time +     *)
(* off_time + tr), so the queued packet always meets a probe.  Premise:   *)
(* no broadcast went out ahead of it on the same probe; the sink turns    *)
(* its radio off after reading that broadcast (read_packet) and may miss  *)
(* the unicast sent right after it.                                        *)
AckedWhenLossless == ~(outcome = "nack" /\ clean /\ ~shadowed)

(* The forwarder keeps its radio on while anything is queued: the off-    *)
(* phase of dutycycle, read_packet and remove_queued_packet turn it off    *)
(* only with an empty list, so no probe of the sink is missed.             *)
RadioOnWhileQueued == fw.mq # <<>> => fw.radio

(* Every packet in the forwarding queue is eventually sent or given up,  *)
(* unless the forwarder is wedged.  A packet held back while a broadcast  *)
(* is in LPP's list is released by the rel_send_queued_packet at the end  *)
(* of remove_queued_packet.                                                *)
DrainsUnlessWedged == fw.fq > 0 ~> (fw.fq = 0 \/ Wedged)
====
