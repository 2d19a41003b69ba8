------------------------------- MODULE LppNew -------------------------------
(***************************************************************************)
(* LPP_NEW, the receiver-initiated MAC of core/net/mac/lpp_new.c (GLOSSY   *)
(* build, WITH_DATA_ACK): a sender holding one unicast for relunicast, and *)
(* the sink as its duty-cycled receiver, with the Glossy rounds that stop  *)
(* and restart the MAC (glossy_interface.h) and relunicast's placement of *)
(* sends away from them (relunicast.c schedule_send).                      *)
(*                                                                         *)
(* The receiver's duty cycle is the dutycycle protothread run from the     *)
(* Timer B CCR3 interrupt: each on-phase polls send_probe_process, which   *)
(* sends a probe.  The sender keeps its packet in `buffer' with its radio *)
(* on; read_packet, run by the radio driver's process, answers a probe of  *)
(* the destination by send_data_packet, which busy-waits for the DATA_ACK. *)
(* The CCR2 interrupt is the send timeout: it polls send_timeout_process.  *)
(* Either path ends in remove_packet_from_buffer, which reports the       *)
(* attempt to relunicast by post_send(got_data_ack).                       *)
(*                                                                         *)
(* Contiki runs processes cooperatively and serves polls before events:   *)
(* each interrupt and each process step is one action, every poll is      *)
(* served before the clock advances, and relunicast's next send (a ctimer *)
(* event) only runs when no poll of the sender is pending.                 *)
(***************************************************************************)
EXTENDS Integers, Sequences

CONSTANTS
  Sender, Receiver,     \* the two nodes (model values); Receiver is the sink
  ON, OFF,              \* lpp_new_config.on_time / off_time
  MAX_RANDOM_OFF,       \* LPP_NEW_MAX_RANDOM_OFF_TIME
  TX_TIMEOUT,           \* lpp_new_config.tx_timeout (t_l)
  WAIT_FOR_DATA_ACK,    \* the DATA_ACK wait of send_data_packet
  TIMER_WRAP,           \* ticks until a compare value set to TBR matches
  SLACK_BEFORE_GLOSSY,  \* relunicast sends start at least this long before a round
  ROUND_TICKS,          \* duration of a Glossy round
  FAR,                  \* time to Glossy beyond which nothing depends on it
  MaxSends,             \* bound on the send_packet calls
  MaxLoss,              \* bound on frames lost in the whole run
  MaxRounds             \* bound on Glossy rounds

ASSUME FAR > 2 * OFF + MAX_RANDOM_OFF + ON /\ FAR >= SLACK_BEFORE_GLOSSY

Nodes == {Sender, Receiver}

Disabled == -1          \* TBCCTLx without CCIE: the compare never fires

(* lpp_new_hdr: type, sender, receiver.  A probe names its sender twice.  *)
(* A DATA frame also carries the number of the attempt that sent it (its *)
(* payload, abstracted); the other frames carry 0.                         *)
Frame(t, from, to) == [type |-> t, sender |-> from, receiver |-> to, att |-> 0]

VARIABLES
  lpp_new_is_on,  \* per node
  radio,          \* per node: the transceiver is on
  fifo,           \* per node: frames received and not yet read
  \* receiver (dutycycle, send_probe_process, print process)
  pt,             \* where dutycycle yielded: "on" (l.152) or "off" (l.171)
  ccr3,           \* ticks until CCR3 fires, or Disabled
  probe_polled,   \* send_probe_process polled
  print_polled,   \* glossy_print_report_process polled
  adapt_polled,   \* per node: adaptation_process polled by the round's latch
  \* sender (buffer, send timeout, send_data_packet, relunicast)
  valid,          \* buffer.valid
  got_data_ack,   \* buffer.got_data_ack
  ccr2,           \* ticks until CCR2 fires, or Disabled
  timeout_polled, \* send_timeout_process polled
  spc,            \* "idle", or "ackwait" inside send_data_packet's busy loop
  wait_left,      \* ticks left of the DATA_ACK wait
  is_tx,          \* relunicast waits for post_send of its last attempt
  \* environment and history
  ttg,            \* TIME_TO_GLOSSY, FAR standing for "FAR or more"
  rounds, losses,
  sends,          \* send_packet calls
  reports,        \* post_send calls
  outcome,        \* argument of the last post_send: "none", "ack", "nack"
  delivered       \* attempts whose DATA the sink passed up

rvars == <<pt, ccr3, probe_polled, print_polled, adapt_polled>>
svars == <<valid, got_data_ack, ccr2, timeout_polled, spc, wait_left, is_tx>>
hvars == <<rounds, losses, sends, reports, outcome, delivered>>
vars  == <<lpp_new_is_on, radio, fifo, rvars, svars, ttg, hvars>>

(* radio->send(f) to node `to': f reaches to's buffer if to's transceiver *)
(* is on, unless it is lost (at most MaxLoss in the run).                  *)
SendFrame(buf, f, to) ==
  \/ /\ losses < MaxLoss
     /\ losses' = losses + 1
     /\ fifo' = buf
  \/ /\ fifo' = IF radio[to] THEN [buf EXCEPT ![to] = Append(@, f)] ELSE buf
     /\ UNCHANGED losses

(* post_send(acknowledged): relunicast learns the outcome of the attempt; *)
(* on failure it schedules a retransmission, on success the next packet.  *)
post_send(ack) ==
  /\ reports' = reports + 1
  /\ outcome' = IF ack THEN "ack" ELSE "nack"
  /\ is_tx' = FALSE

(* remove_packet_from_buffer(): valid = 0, TBCCTL2 = 0, the radio off     *)
(* (the sender runs no on-phase of its own here), and for a unicast        *)
(* post_send(buffer.got_data_ack).  The handshake counters feed only the  *)
(* PRR estimate and are left out.                                          *)
remove_packet_from_buffer ==
  /\ valid' = FALSE
  /\ ccr2' = Disabled
  /\ radio' = [radio EXCEPT ![Sender] = FALSE]
  /\ post_send(got_data_ack)

(* The buffer part of mac_off(): if (buffer.valid)                        *)
(* remove_packet_from_buffer(), which reports the attempt.                 *)
mac_off_report ==
  IF valid THEN post_send(got_data_ack) ELSE UNCHANGED <<reports, outcome, is_tx>>

(* Timer B compare set to TBR + d: it fires after d ticks, or after a wrap *)
(* of the timer when d is 0.                                               *)
CompareIn(d) == IF d > 0 THEN d ELSE TIMER_WRAP

(* mac_on(): lpp_new_is_on = 1, CCR3 = TBR + random % off_time, enabled.  *)
MacOnCcr3 == {CompareIn(v) : v \in 0 .. OFF - 1}

(***************************************************************************)
(* Receiver (the sink)                                                     *)
(***************************************************************************)
(* dutycycle(), one resumption from the CCR3 interrupt (GLOSSY variant).  *)
(* At the loop head the on-phase begins: CCR3 = now + on_time and, with   *)
(* LPP_NEW on, send_probe_process is polled.  After the first yield the   *)
(* off-phase begins: CCR3 = now + off_time + random, the radio goes off   *)
(* (the sink's buffer is never valid), and CCR3 is disabled when the next *)
(* on-phase would come too close to Glossy.                                *)
dutycycle ==
  LET r == Receiver IN
  /\ ccr3 = 0
  /\ \/ /\ pt = "off"
        /\ ccr3' = ON
        /\ probe_polled' = (probe_polled \/ lpp_new_is_on[r])
        /\ pt' = "on"
        /\ UNCHANGED radio
     \/ /\ pt = "on"
        /\ \E random_off_time \in 0 .. MAX_RANDOM_OFF :
             ccr3' = IF ttg < 2 * OFF + random_off_time + ON
                     THEN Disabled ELSE OFF + random_off_time
        /\ radio' = IF lpp_new_is_on[r] THEN [radio EXCEPT ![r] = FALSE] ELSE radio
        /\ pt' = "off"
        /\ UNCHANGED probe_polled
  /\ UNCHANGED <<lpp_new_is_on, fifo, print_polled, adapt_polled, svars, ttg, hvars>>

(* send_probe_process: dutycycle_on = 1, radio on, send the probe.        *)
send_probe_process ==
  LET r == Receiver IN
  /\ probe_polled
  /\ probe_polled' = FALSE
  /\ radio' = [radio EXCEPT ![r] = TRUE]
  /\ SendFrame(fifo, Frame("PROBE", r, r), Sender)
  /\ UNCHANGED <<lpp_new_is_on, pt, ccr3, print_polled, adapt_polled, svars, ttg,
                 rounds, delivered, sends, reports, outcome>>

(* read_packet() at the sink, on the oldest frame in its radio buffer: a *)
(* DATA for us is answered by a DATA_ACK from the DATA's receiver to its  *)
(* sender and passed up.  The sink holds no packet, so a probe changes    *)
(* nothing; the only other frames it hears here are DATA.                  *)
receiver_read_packet ==
  LET r == Receiver
      f == Head(fifo[r])
  IN
  /\ fifo[r] # <<>>
  /\ f.type = "DATA" /\ f.receiver = r
  /\ SendFrame([fifo EXCEPT ![r] = Tail(@)], Frame("ACK", f.receiver, f.sender), f.sender)
  /\ delivered' = delivered \cup {f.att}
  /\ UNCHANGED <<lpp_new_is_on, radio, rvars, svars, ttg,
                 rounds, sends, reports, outcome>>

print_report_process_no_on ==
  /\ print_polled
  /\ print_polled' = FALSE
  /\ UNCHANGED <<lpp_new_is_on, ccr3, radio, fifo, pt, probe_polled, adapt_polled,
                 svars, ttg, hvars>>

(* glossy_print_report_process at the sink: after printing the reports,   *)
(* rime_mac->on(), i.e. mac_on().                                          *)
print_report_process ==
  LET r == Receiver IN
  /\ print_polled
  /\ print_polled' = FALSE
  /\ lpp_new_is_on' = [lpp_new_is_on EXCEPT ![r] = TRUE]
  /\ ccr3' \in MacOnCcr3
  /\ UNCHANGED <<radio, fifo, pt, probe_polled, adapt_polled, svars, ttg, hvars>>

(* set_lpp_new_config(), called by adaptation_process with the flooded    *)
(* configuration: mac_off(0), the new times, mac_on().  The times are the *)
(* model's constants, so only the restart is visible: the radio off, a    *)
(* buffered packet removed and reported, lpp_new_is_on set and, at the    *)
(* sink, CCR3 re-armed at random within off_time.  The sender's own       *)
(* duty cycle is not modelled.                                             *)
set_lpp_new_config(n) ==
  /\ lpp_new_is_on' = [lpp_new_is_on EXCEPT ![n] = TRUE]
  /\ radio' = [radio EXCEPT ![n] = FALSE]
  /\ IF n = Receiver
     THEN /\ ccr3' \in MacOnCcr3
          /\ UNCHANGED <<valid, ccr2, reports, outcome, is_tx>>
     ELSE /\ mac_off_report
          /\ valid' = FALSE /\ ccr2' = Disabled
          /\ UNCHANGED ccr3

(* adaptation_process, polled when a round brought a new configuration.   *)
adaptation_process ==
  \E n \in Nodes :
    /\ adapt_polled[n] /\ (n = Sender => spc = "idle")
    /\ adapt_polled' = [adapt_polled EXCEPT ![n] = FALSE]
    /\ set_lpp_new_config(n)
    /\ UNCHANGED <<fifo, pt, probe_polled, print_polled, got_data_ack,
                   timeout_polled, spc, wait_left, ttg, rounds, delivered, losses, sends>>

(***************************************************************************)
(* Sender                                                                  *)
(***************************************************************************)
(* relunicast's schedule_send (GLOSSY): a send whose ctimer would expire  *)
(* less than SLACK_BEFORE_GLOSSY before the next round is moved to after   *)
(* it, so send() runs only while the round is at least that far away.      *)
SendScheduled == ttg >= SLACK_BEFORE_GLOSSY

(* send_packet() for a unicast to the sink, called by relunicast's send   *)
(* when its ctimer expires: a timer event, so it runs only when no poll of *)
(* the sender is pending, and schedule_send places it at least            *)
(* SLACK_BEFORE_GLOSSY before the next round.  With LPP_NEW off the      *)
(* attempt fails at once; otherwise the packet goes to the buffer, CCR2 = *)
(* t_start + tx_timeout is enabled and the radio is turned on for probes. *)
(* relunicast keeps one attempt outstanding, so the buffer is never valid *)
(* here and the overwrite branches are not taken.                          *)
send_packet ==
  LET s == Sender IN
  /\ spc = "idle" /\ ~is_tx /\ sends < MaxSends
  /\ ~timeout_polled /\ ~adapt_polled[s] /\ fifo[s] = <<>>
  /\ SendScheduled
  /\ sends' = sends + 1
  /\ IF ~lpp_new_is_on[s]
     THEN /\ post_send(FALSE)
          /\ UNCHANGED <<radio, valid, got_data_ack, ccr2>>
     ELSE /\ valid' = TRUE /\ got_data_ack' = FALSE
          /\ ccr2' = TX_TIMEOUT
          /\ radio' = [radio EXCEPT ![s] = TRUE]
          /\ is_tx' = TRUE /\ outcome' = "none"
          /\ UNCHANGED reports
  /\ UNCHANGED <<lpp_new_is_on, fifo, rvars, timeout_polled, spc, wait_left,
                 ttg, rounds, delivered, losses>>

(* read_packet() at the sender: a probe from the buffer's destination,    *)
(* while the buffer is valid, makes send_data_packet send the DATA and    *)
(* start its busy wait for the DATA_ACK.  Any other frame is dropped.     *)
sender_read_packet ==
  LET s == Sender
      f == Head(fifo[s])
      rest == [fifo EXCEPT ![s] = Tail(@)]
  IN
  /\ spc = "idle" /\ fifo[s] # <<>>
  /\ \/ /\ f.type = "PROBE" /\ valid /\ f.sender = Receiver
        /\ SendFrame(rest, [Frame("DATA", s, Receiver) EXCEPT !.att = sends], Receiver)
        /\ spc' = "ackwait" /\ wait_left' = WAIT_FOR_DATA_ACK
     \/ /\ ~(f.type = "PROBE" /\ valid /\ f.sender = Receiver)
        /\ fifo' = rest
        /\ UNCHANGED <<spc, wait_left, losses>>
  /\ UNCHANGED <<lpp_new_is_on, radio, rvars, valid, got_data_ack, ccr2,
                 timeout_polled, is_tx, ttg, rounds, delivered, sends, reports, outcome>>

(* Busy loop body of send_data_packet (l.358-368): read a frame; one whose *)
(* sender is the destination and whose receiver is us is the DATA_ACK.   *)
read_data_ack ==
  LET s == Sender
      f == Head(fifo[s])
  IN
  /\ spc = "ackwait" /\ ~got_data_ack /\ wait_left > 0 /\ fifo[s] # <<>>
  /\ fifo' = [fifo EXCEPT ![s] = Tail(@)]
  /\ got_data_ack' = (f.sender = Receiver /\ f.receiver = s)
  /\ UNCHANGED <<lpp_new_is_on, radio, rvars, valid, ccr2, timeout_polled, spc,
                 wait_left, is_tx, ttg, hvars>>

(* Loop exit: the ack came or WAIT_FOR_DATA_ACK passed; then              *)
(* remove_packet_from_buffer().                                            *)
data_ack_wait_end ==
  /\ spc = "ackwait" /\ (got_data_ack \/ wait_left = 0)
  /\ remove_packet_from_buffer
  /\ spc' = "idle"
  /\ UNCHANGED <<lpp_new_is_on, fifo, rvars, got_data_ack, timeout_polled,
                 wait_left, ttg, rounds, delivered, losses, sends>>

(* CCR2 interrupt (glossy.c:138-143): TBCCTL2 = 0, poll send_timeout_process. *)
send_timeout_isr ==
  /\ ccr2 = 0
  /\ ccr2' = Disabled /\ timeout_polled' = TRUE
  /\ UNCHANGED <<lpp_new_is_on, radio, fifo, rvars, valid, got_data_ack, spc,
                 wait_left, is_tx, ttg, hvars>>

send_timeout_process_nocheck ==
  /\ timeout_polled /\ spc = "idle"
  /\ timeout_polled' = FALSE
  /\ remove_packet_from_buffer
  /\ UNCHANGED <<lpp_new_is_on, fifo, rvars, got_data_ack, spc, wait_left,
                 ttg, rounds, delivered, losses, sends>>

(* send_timeout_process: if (buffer.valid) remove_packet_from_buffer().   *)
(* It runs once the sender's current process step (possibly the busy wait *)
(* of send_data_packet) has returned.                                      *)
send_timeout_process ==
  /\ timeout_polled /\ spc = "idle"
  /\ timeout_polled' = FALSE
  /\ IF valid
     THEN remove_packet_from_buffer
     ELSE UNCHANGED <<valid, ccr2, radio, reports, outcome, is_tx>>
  /\ UNCHANGED <<lpp_new_is_on, fifo, rvars, got_data_ack, spc, wait_left,
                 ttg, rounds, delivered, losses, sends>>

(***************************************************************************)
(* Environment: Glossy rounds and the passage of time                      *)
(***************************************************************************)
Elapse(x, d) == IF x >= d THEN x - d ELSE IF x > 0 THEN 0 ELSE x

(* One Glossy round, from the scheduler's timer interrupt at both nodes:  *)
(* rime_mac->off(0) is mac_off(0), which disables CCR2 and CCR3, clears  *)
(* lpp_new_is_on, turns the radio off and removes a buffered packet,      *)
(* reporting it by post_send; the flood flushes the radio buffers and     *)
(* leaves the radio off.  At the end the sender (not the sink) calls       *)
(* rime_mac->on(); the sink only polls glossy_print_report_process.  A     *)
(* node whose latch found a new configuration also polls adaptation.  The *)
(* round preempts a busy wait, whose deadline passes meanwhile.            *)
GlossyRound ==
  /\ ttg = 0
  /\ mac_off_report
  /\ valid' = FALSE /\ ccr2' = Disabled /\ ccr3' = Disabled
  /\ radio' = [n \in Nodes |-> FALSE]
  /\ fifo' = [n \in Nodes |-> <<>>]
  /\ lpp_new_is_on' = [n \in Nodes |-> n = Sender]
  /\ print_polled' = TRUE
  /\ adapt_polled' \in [Nodes -> BOOLEAN]
  /\ wait_left' = Elapse(wait_left, ROUND_TICKS)
  /\ ttg' = FAR /\ rounds' = rounds + 1
  /\ UNCHANGED <<pt, probe_polled, got_data_ack, timeout_polled, spc, sends, losses,
                 delivered>>

(* Something must run before the clock moves: a compare interrupt or the  *)
(* round that is due, a polled process that can run, or a step of the     *)
(* busy wait that is not just waiting.                                     *)
Urgent ==
  \/ ccr3 = 0 \/ ccr2 = 0 \/ ttg = 0
  \/ probe_polled \/ adapt_polled[Receiver] \/ fifo[Receiver] # <<>>
  \/ spc = "idle" /\ (timeout_polled \/ adapt_polled[Sender] \/ fifo[Sender] # <<>>)
  \/ spc = "ackwait" /\ (got_data_ack \/ wait_left = 0 \/ fifo[Sender] # <<>>)

(* One tick.  The time to the next round stays FAR for as long as it      *)
(* likes (a Glossy period is far longer than a duty cycle) and then counts *)
(* down; after the last round it stays FAR.                                *)
Tick ==
  /\ ~Urgent
  /\ ccr3' = Elapse(ccr3, 1) /\ ccr2' = Elapse(ccr2, 1)
  /\ wait_left' = Elapse(wait_left, 1)
  /\ ttg' \in IF ttg < FAR THEN {ttg - 1}
              ELSE IF rounds < MaxRounds THEN {FAR, FAR - 1} ELSE {FAR}
  /\ UNCHANGED <<lpp_new_is_on, radio, fifo, pt, probe_polled, print_polled, adapt_polled,
                 valid, got_data_ack, timeout_polled, spc, is_tx, hvars>>

(* The sink is in its steady duty cycle, in an on-phase (probe sent) or   *)
(* an off-phase; the sender holds no packet and its radio is off; the     *)
(* next round is far.                                                      *)
Init ==
  /\ \/ pt = "on" /\ ccr3 \in 1 .. ON /\ radio = [n \in Nodes |-> n = Receiver]
     \/ pt = "off" /\ ccr3 \in 1 .. OFF + MAX_RANDOM_OFF /\ radio = [n \in Nodes |-> FALSE]
  /\ lpp_new_is_on = [n \in Nodes |-> TRUE]
  /\ fifo = [n \in Nodes |-> <<>>]
  /\ probe_polled = FALSE /\ print_polled = FALSE
  /\ adapt_polled = [n \in Nodes |-> FALSE]
  /\ valid = FALSE /\ got_data_ack = FALSE /\ ccr2 = Disabled
  /\ timeout_polled = FALSE /\ spc = "idle" /\ wait_left = 0 /\ is_tx = FALSE
  /\ ttg = FAR /\ rounds = 0 /\ losses = 0 /\ sends = 0 /\ reports = 0
  /\ outcome = "none" /\ delivered = {}

ReceiverStep == dutycycle \/ send_probe_process \/ receiver_read_packet
SenderStep   == sender_read_packet \/ read_data_ack \/ data_ack_wait_end
                \/ send_timeout_isr \/ send_timeout_process

Next ==
  \/ ReceiverStep \/ print_report_process \/ adaptation_process
  \/ send_packet \/ SenderStep
  \/ GlossyRound \/ Tick

(* Interrupts fire when due, polled processes and the busy loop run, the  *)
(* print process finishes and the clock advances.  relunicast need not    *)
(* send again.                                                             *)
Fairness ==
  /\ WF_vars(Tick) /\ WF_vars(GlossyRound)
  /\ WF_vars(ReceiverStep) /\ WF_vars(SenderStep) /\ WF_vars(print_report_process)
  /\ WF_vars(adaptation_process)

Spec == Init /\ [][Next]_vars /\ Fairness

(***************************************************************************)
(* Properties                                                              *)
(***************************************************************************)
TypeOK ==
  /\ valid \in BOOLEAN /\ spc \in {"idle", "ackwait"}
  /\ outcome \in {"none", "ack", "nack"}
  /\ reports \in 0 .. sends

(* The interface relunicast sees: send_packet takes the attempt (or       *)
(* refuses it with post_send(0) while LPP_NEW is off) and post_send        *)
(* reports it; got is whether the sink passed up this attempt's DATA.      *)
Mac == INSTANCE MacUnicast WITH
         busy <- is_tx, got <- sends \in delivered,
         sent <- sends, reports <- reports, last <- outcome

(* LPP_NEW implements the MAC interface of MacUnicast.  relunicast has no  *)
(* timer of its own while an attempt is out, so post_send must come       *)
(* exactly once per attempt, from whichever of send_data_packet, the send *)
(* timeout and a Glossy round's mac_off removes the packet first, never    *)
(* with an ack for a DATA the sink did not pass up, and never not at all. *)
MacRefined == Mac!Spec

(* The sink's duty cycle comes back after every Glossy round: its radio   *)
(* is switched on again and again.                                         *)
SinkDutyCycleResumes == []<>(radio[Receiver])
====
