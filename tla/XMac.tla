-------------------------------- MODULE XMac --------------------------------
(***************************************************************************)
(* One X-MAC unicast handshake between a sender and a duty-cycled receiver *)
(* (core/net/mac/xmac.c, GLOSSY build, WITH_DATA_ACK), with the Glossy     *)
(* rounds that stop and restart the MAC (glossy_interface.h, glossy.c).    *)
(*                                                                         *)
(* Time is explicit: every timer is a countdown of abstract ticks and Tick *)
(* advances all of them at once, but only when no handler is due.  The     *)
(* receiver's duty cycle is the powercycle protothread run from the Timer  *)
(* B CCR3 interrupt, its receive timeout the CCR2 interrupt; the sender's  *)
(* send_packet busy-waits on RTIMER_NOW, so each of its loops is a state   *)
(* with a deadline.  read_packet runs in process context when a frame is   *)
(* in the receiver's radio buffer.                                         *)
(***************************************************************************)
EXTENDS Integers, Sequences, TLC

CONSTANTS
  Sender, Receiver,     \* the two nodes (model values)
  ON, OFF,              \* xmac_config.on_time / off_time (t_l, t_s)
  STROBE_WAIT,          \* xmac_config.strobe_wait_time
  T_WAIT,               \* the DATA_ACK wait of send_packet
  TIMEOUT_TIME,         \* the receiver's wait for the DATA after a STROBE_ACK
  TIMER_WRAP,           \* ticks until a compare value set in the past matches
  READ_LATENCY,         \* ticks the receiver's process may leave its buffer unread
  ROUND_TICKS,          \* duration of a Glossy round, as seen by RTIMER_NOW
  DRAIN_BEFORE_SEND,    \* the radio driver hands every pending frame to the
                        \* MAC before the sender's next send_packet
  MaxSends,             \* bound on the handshakes the sender starts
  MaxLoss,              \* bound on frames lost in one handshake
  MaxRounds             \* bound on Glossy rounds

Nodes == {Sender, Receiver}

STROBE_TIME_one_on == ON + OFF

(* adaptation_process: strobe_time = 2 * t_l + t_s.                        *)
STROBE_TIME == 2 * ON + OFF

Disabled == -1          \* TBCCTLx without CCIE: the compare never fires

(* X-MAC frame headers: type, sender, receiver.  A DATA frame also carries *)
(* the number of the handshake that sent it (its payload, abstracted); the *)
(* other frames carry 0.                                                   *)
FrameTypes == {"STROBE", "DATA", "STROBE_ACK", "DATA_ACK"}
Frames == [type : FrameTypes, sender : Nodes, receiver : Nodes, hs : 0 .. MaxSends]
Hdr(t, from, to) == [type |-> t, sender |-> from, receiver |-> to, hs |-> 0]

VARIABLES
  rad,          \* per node: radio_is_on (flag) and the transceiver (on)
  xmac_is_on,   \* per node
  fifo,         \* per node: frames received and not yet read
  \* receiver (powercycle, timeout, read_packet)
  pt,           \* where powercycle yielded: "begin", "off" (l.290), "on" (l.306)
  ccr3,         \* ticks until CCR3 fires, or Disabled
  ccr2,         \* ticks until CCR2 (timeout) fires, or Disabled
  last_on_ago,  \* ticks since last_on
  was_timeout,
  in_on_phase,
  \* sender (send_packet)
  spc,          \* "idle", "strobe", "swait", "after", "dwait", "done"
  train_left,   \* ticks left of t0 + strobe_time
  wait_left,    \* ticks left of the current inner wait (strobe ack / data ack)
  got_strobe_ack,
  got_data_ack,
  \* environment and history
  sends,        \* handshakes started
  losses,       \* frames lost in the current handshake
  rounds,       \* Glossy rounds so far
  delivered,    \* handshakes whose DATA read_packet passed up
  slow_in_hs,   \* in this handshake a frame waited T_WAIT ticks for read_packet
  unread_age,   \* ticks since the receiver's buffer last became non-empty
  adapt         \* the receiver's adaptation_process is polled (new configuration)

rvars == <<pt, ccr3, ccr2, last_on_ago, was_timeout, in_on_phase>>
svars == <<spc, train_left, wait_left, got_strobe_ack, got_data_ack>>
hvars == <<sends, losses, rounds, delivered, slow_in_hs>>
vars  == <<rad, xmac_is_on, fifo, rvars, svars, hvars, unread_age, adapt>>

(***************************************************************************)
(* on() and off(): the radio is switched, and radio_is_on updated, only    *)
(* while X-MAC is on and the flag says the radio is in the other state.    *)
(***************************************************************************)
on(r, x)  == IF x /\ ~r.flag THEN [flag |-> TRUE, on |-> TRUE] ELSE r
off(r, x) == IF x /\ r.flag THEN [flag |-> FALSE, on |-> FALSE] ELSE r

(* radio->send(f) to node `to', on top of the buffers buf: the frame      *)
(* reaches to's buffer if to's transceiver is on, unless it is lost (at    *)
(* most MaxLoss per handshake).                                            *)
SendFrame(buf, f, to) ==
  \/ /\ losses < MaxLoss
     /\ losses' = losses + 1
     /\ fifo' = buf
  \/ /\ losses' = losses
     /\ fifo' = IF rad[to].on THEN [buf EXCEPT ![to] = Append(@, f)] ELSE buf

(* Timer B compare set to `base + d' where base lies `ago' ticks in the    *)
(* past: it fires after d - ago ticks, or after the timer wraps if that   *)
(* point has already passed.                                               *)
CompareIn(d, ago) == IF d - ago > 0 THEN d - ago ELSE TIMER_WRAP

(***************************************************************************)
(* Receiver                                                                *)
(***************************************************************************)
(* powercycle(), one resumption from the CCR3 interrupt.  From "begin" or  *)
(* "on" the loop head runs: with off_time > 0 and no pending timeout the   *)
(* radio goes off (unless sending) and CCR3 += off_time; otherwise the    *)
(* on-phase code (l.293-306) follows at once.  From "off" only the         *)
(* on-phase code runs: last_on, was_timeout, on(), CCR3 += on_time.  With *)
(* X-MAC off CCR3 is not advanced and matches again after a wrap.  The     *)
(* receiver never sends, so the we_are_sending tests are always passed.   *)
OnPhase(r) ==
  /\ last_on_ago' = 0
  /\ was_timeout' = FALSE
  /\ rad' = [rad EXCEPT ![r] = on(@, xmac_is_on[r])]
  /\ in_on_phase' = FALSE
  /\ ccr3' = IF xmac_is_on[r] THEN ON ELSE TIMER_WRAP
  /\ pt' = "on"

powercycle ==
  LET r == Receiver IN
  /\ ccr3 = 0
  /\ IF pt # "off" /\ OFF > 0 /\ ~was_timeout
     THEN /\ in_on_phase' = TRUE
          /\ rad' = [rad EXCEPT ![r] = off(@, xmac_is_on[r])]
          /\ ccr3' = IF xmac_is_on[r] THEN OFF ELSE TIMER_WRAP
          /\ pt' = "off"
          /\ UNCHANGED <<last_on_ago, was_timeout>>
     ELSE OnPhase(r)
  /\ UNCHANGED <<xmac_is_on, fifo, ccr2, svars, hvars, unread_age, adapt>>

(* CCR2: TBCCTL2 = 0 (glossy.c:154), then timeout(): off() unless sending *)
(* and CCR3 = last_on + on_time + off_time with the interrupt enabled.     *)
timeout_no_ccie ==
  LET r == Receiver IN
  /\ ccr2 = 0
  /\ ccr2' = Disabled
  /\ rad' = [rad EXCEPT ![r] = off(@, xmac_is_on[r])]
  /\ ccr3' = IF ccr3 = Disabled THEN Disabled ELSE CompareIn(ON + OFF, last_on_ago)
  /\ UNCHANGED <<xmac_is_on, fifo, pt, last_on_ago, was_timeout, in_on_phase,
                 svars, hvars, unread_age, adapt>>

timeout ==
  LET r == Receiver IN
  /\ ccr2 = 0
  /\ ccr2' = Disabled
  /\ rad' = [rad EXCEPT ![r] = off(@, xmac_is_on[r])]
  /\ ccr3' = CompareIn(ON + OFF, last_on_ago)
  /\ UNCHANGED <<xmac_is_on, fifo, pt, last_on_ago, was_timeout, in_on_phase,
                 svars, hvars, unread_age, adapt>>

(* read_packet() on the oldest frame in the receiver's buffer.  A STROBE   *)
(* for us from someone else, when no timeout is pending, disables CCR3,   *)
(* arms CCR2, sets was_timeout, turns the radio on and answers with a      *)
(* STROBE_ACK whose sender and receiver are both the strober.  A DATA for *)
(* us turns the radio off, is passed up, and is answered by a DATA_ACK     *)
(* with the same addresses.  Anything else is dropped.                     *)
read_packet_every_strobe ==
  LET r == Receiver
      f == Head(fifo[r])
      rest == [fifo EXCEPT ![r] = Tail(@)]
  IN
  /\ fifo[r] # <<>>
  /\ \/ /\ f.type = "STROBE" /\ f.receiver = r /\ f.sender # r
        /\ ccr3' = Disabled
        /\ ccr2' = TIMEOUT_TIME
        /\ was_timeout' = TRUE
        /\ rad' = [rad EXCEPT ![r] = on(@, xmac_is_on[r])]
        /\ SendFrame(rest, Hdr("STROBE_ACK", f.sender, f.sender), f.sender)
        /\ UNCHANGED <<pt, last_on_ago, in_on_phase, delivered>>
     \/ /\ f.type = "DATA" /\ f.receiver = r
        /\ rad' = [rad EXCEPT ![r] = off(@, xmac_is_on[r])]
        /\ delivered' = delivered \cup {f.hs}
        /\ SendFrame(rest, Hdr("DATA_ACK", f.sender, f.sender), f.sender)
        /\ UNCHANGED <<pt, ccr3, ccr2, last_on_ago, was_timeout, in_on_phase>>
     \/ /\ ~(f.type = "STROBE" /\ f.receiver = r /\ f.sender # r)
        /\ ~(f.type = "DATA" /\ f.receiver = r)
        /\ fifo' = rest
        /\ UNCHANGED <<rad, rvars, losses, delivered>>
  /\ unread_age' = IF Tail(fifo[r]) = <<>> THEN 0 ELSE unread_age
  /\ UNCHANGED <<xmac_is_on, svars, sends, rounds, slow_in_hs, adapt>>

read_packet ==
  LET r == Receiver
      f == Head(fifo[r])
      rest == [fifo EXCEPT ![r] = Tail(@)]
  IN
  /\ fifo[r] # <<>>
  /\ \/ /\ f.type = "STROBE" /\ f.receiver = r /\ f.sender # r /\ ~was_timeout
        /\ ccr3' = Disabled
        /\ ccr2' = TIMEOUT_TIME
        /\ was_timeout' = TRUE
        /\ rad' = [rad EXCEPT ![r] = on(@, xmac_is_on[r])]
        /\ SendFrame(rest, Hdr("STROBE_ACK", f.sender, f.sender), f.sender)
        /\ UNCHANGED <<pt, last_on_ago, in_on_phase, delivered>>
     \/ /\ f.type = "DATA" /\ f.receiver = r
        /\ rad' = [rad EXCEPT ![r] = off(@, xmac_is_on[r])]
        /\ delivered' = delivered \cup {f.hs}
        /\ SendFrame(rest, Hdr("DATA_ACK", f.sender, f.sender), f.sender)
        /\ UNCHANGED <<pt, ccr3, ccr2, last_on_ago, was_timeout, in_on_phase>>
     \/ /\ ~(f.type = "STROBE" /\ f.receiver = r /\ f.sender # r /\ ~was_timeout)
        /\ ~(f.type = "DATA" /\ f.receiver = r)
        /\ fifo' = rest
        /\ UNCHANGED <<rad, rvars, losses, delivered>>
  /\ unread_age' = IF Tail(fifo[r]) = <<>> THEN 0 ELSE unread_age
  /\ UNCHANGED <<xmac_is_on, svars, sends, rounds, slow_in_hs, adapt>>

(***************************************************************************)
(* Sender: send_packet() for a unicast to the receiver.  Each action is    *)
(* one pass of a busy loop, or the code between two loops.                 *)
(***************************************************************************)
(* Entry: got_data_ack = 0, we_are_sending = 1, off(), then on() to hear   *)
(* the strobe ack; t0 = RTIMER_NOW().  With X-MAC off the call returns at  *)
(* once and changes nothing, so that case is left out.                     *)
StartSend ==
  LET s == Sender IN
  /\ spc = "idle" /\ sends < MaxSends /\ xmac_is_on[s]
  /\ DRAIN_BEFORE_SEND => fifo[s] = <<>>
  /\ rad' = [rad EXCEPT ![s] = on(off(@, TRUE), TRUE)]
  /\ got_data_ack' = FALSE /\ got_strobe_ack' = FALSE
  /\ train_left' = STROBE_TIME /\ wait_left' = 0
  /\ spc' = "strobe"
  /\ sends' = sends + 1 /\ losses' = 0 /\ slow_in_hs' = FALSE
  /\ UNCHANGED <<xmac_is_on, fifo, rvars, rounds, delivered, unread_age, adapt>>

(* Between two calls of send_packet the sender's radio driver passes a    *)
(* pending frame to read_packet, which drops a STROBE_ACK or DATA_ACK: it  *)
(* is neither a STROBE nor a DATA.                                         *)
SenderInput ==
  /\ spc = "idle" /\ fifo[Sender] # <<>>
  /\ Head(fifo[Sender]).type \in {"STROBE_ACK", "DATA_ACK"}
  /\ fifo' = [fifo EXCEPT ![Sender] = Tail(@)]
  /\ UNCHANGED <<rad, xmac_is_on, rvars, svars, hvars, unread_age, adapt>>

(* Strobe loop body (l.497-505): while no ack and before t0 + strobe_time,  *)
(* send a STROBE and start waiting strobe_wait_time for its ack.           *)
SendStrobe ==
  /\ spc = "strobe" /\ ~got_strobe_ack /\ train_left > 0
  /\ SendFrame(fifo, Hdr("STROBE", Sender, Receiver), Receiver)
  /\ wait_left' = STROBE_WAIT /\ spc' = "swait"
  /\ UNCHANGED <<rad, xmac_is_on, rvars, train_left, got_strobe_ack, got_data_ack,
                 sends, rounds, delivered, slow_in_hs, unread_age, adapt>>

(* Inner loop body (l.508-521): read a frame; only a STROBE_ACK carrying   *)
(* our address as sender and receiver counts.                              *)
ReadStrobeAck ==
  LET f == Head(fifo[Sender]) IN
  /\ spc = "swait" /\ ~got_strobe_ack /\ wait_left > 0 /\ fifo[Sender] # <<>>
  /\ fifo' = [fifo EXCEPT ![Sender] = Tail(@)]
  /\ got_strobe_ack' = (f.type = "STROBE_ACK" /\ f.sender = Sender /\ f.receiver = Sender)
  /\ UNCHANGED <<rad, xmac_is_on, rvars, spc, train_left, wait_left, got_data_ack,
                 hvars, unread_age, adapt>>

(* Inner loop exit: an ack arrived or strobe_wait_time passed.             *)
StrobeWaitEnd ==
  /\ spc = "swait" /\ (got_strobe_ack \/ wait_left = 0)
  /\ spc' = "strobe"
  /\ UNCHANGED <<rad, xmac_is_on, fifo, rvars, train_left, wait_left,
                 got_strobe_ack, got_data_ack, hvars, unread_age, adapt>>

(* After the strobe loop (l.551-575, PACKETBUF_ATTR_RELIABLE is never set): *)
(* with a strobe ack, on(), send the DATA and wait T_WAIT for the         *)
(* DATA_ACK; without one, off() and return.                                *)
StrobeLoopExit ==
  LET s == Sender IN
  /\ spc = "strobe" /\ (got_strobe_ack \/ train_left = 0)
  /\ \/ /\ got_strobe_ack
        /\ rad' = [rad EXCEPT ![s] = on(@, xmac_is_on[s])]
        /\ SendFrame(fifo, [Hdr("DATA", s, Receiver) EXCEPT !.hs = sends], Receiver)
        /\ wait_left' = T_WAIT /\ spc' = "dwait"
     \/ /\ ~got_strobe_ack
        /\ rad' = [rad EXCEPT ![s] = off(@, xmac_is_on[s])]
        /\ spc' = "done"
        /\ UNCHANGED <<fifo, wait_left, losses>>
  /\ UNCHANGED <<xmac_is_on, rvars, train_left, got_strobe_ack, got_data_ack,
                 sends, rounds, delivered, slow_in_hs, unread_age, adapt>>

(* DATA_ACK loop body (l.589-598): any frame whose sender and receiver are *)
(* both our address is taken as the DATA_ACK; its type is not checked.     *)
ReadDataAck ==
  LET f == Head(fifo[Sender]) IN
  /\ spc = "dwait" /\ ~got_data_ack /\ wait_left > 0 /\ fifo[Sender] # <<>>
  /\ fifo' = [fifo EXCEPT ![Sender] = Tail(@)]
  /\ got_data_ack' = (f.sender = Sender /\ f.receiver = Sender)
  /\ UNCHANGED <<rad, xmac_is_on, rvars, spc, train_left, wait_left, got_strobe_ack,
                 hvars, unread_age, adapt>>

(* DATA_ACK loop exit, then off() (l.606).                                 *)
DataWaitEnd ==
  /\ spc = "dwait" /\ (got_data_ack \/ wait_left = 0)
  /\ rad' = [rad EXCEPT ![Sender] = off(@, xmac_is_on[Sender])]
  /\ spc' = "done"
  /\ UNCHANGED <<xmac_is_on, fifo, rvars, train_left, wait_left, got_strobe_ack,
                 got_data_ack, hvars, unread_age, adapt>>

(* we_are_sending = 0 and return; the caller reads got_data_ack.           *)
Return ==
  /\ spc = "done"
  /\ spc' = "idle"
  /\ UNCHANGED <<rad, xmac_is_on, fifo, rvars, train_left, wait_left,
                 got_strobe_ack, got_data_ack, hvars, unread_age, adapt>>

(***************************************************************************)
(* Environment: Glossy rounds and the passage of time                      *)
(***************************************************************************)
(* turn_on(), l.850-863: CCR3 = TBR + (in_on_phase ? random % off_time :   *)
(* on_time) with the interrupt enabled; a random 0 sets the compare to the *)
(* current count, which next matches after a wrap.                         *)
turn_on_ccr3 ==
  IF in_on_phase THEN {CompareIn(v, 0) : v \in 0 .. OFF - 1} ELSE {ON}

LAST_ON_CAP == ON + OFF   \* last_on further back than this gives the same compare
Elapse(x, d) == IF x >= d THEN x - d ELSE IF x > 0 THEN 0 ELSE x
Later(x, d)  == IF x + d < LAST_ON_CAP THEN x + d ELSE LAST_ON_CAP

(* turn_off(keep_radio_on), l.865-874: xmac_is_on = 0 and the transceiver *)
(* switched by radio->on() or radio->off() directly, past radio_is_on.     *)
turn_off(r, keep_radio_on) == [r EXCEPT !.on = keep_radio_on]

(* One Glossy round at both nodes (glossy_scheduler, non-sink branch):     *)
(* rime_mac->off(0) is turn_off(0), which clears xmac_is_on and switches  *)
(* the transceiver off without touching radio_is_on; the round disables   *)
(* CCR2 and CCR3 (glossy_disable/enable_other_interrupts), glossy_stop    *)
(* turns the radio off and flushes its buffers; rime_mac->on() is turn_on. *)
(* The round runs in a timer interrupt, so it preempts send_packet, whose  *)
(* deadlines pass meanwhile.                                               *)
GlossyRound ==
  /\ rounds < MaxRounds
  /\ rounds' = rounds + 1
  /\ rad' = [n \in Nodes |-> turn_off(rad[n], FALSE)]
  /\ fifo' = [n \in Nodes |-> <<>>]
  /\ xmac_is_on' = [n \in Nodes |-> TRUE]
  /\ ccr2' = Disabled
  /\ ccr3' \in turn_on_ccr3
  /\ last_on_ago' = Later(last_on_ago, ROUND_TICKS)
  /\ train_left' = Elapse(train_left, ROUND_TICKS)
  /\ wait_left' = Elapse(wait_left, ROUND_TICKS)
  /\ unread_age' = 0
  /\ adapt' \in {adapt, TRUE}
  /\ UNCHANGED <<pt, was_timeout, in_on_phase, spc, got_strobe_ack, got_data_ack,
                 sends, losses, delivered, slow_in_hs>>

(* adaptation_process at the receiver, polled because the round latched a  *)
(* new configuration (glossy_interface.h:373-381): set_xmac_config, l.884- *)
(* 897, is turn_off(0), the new times, turn_on().  The times stay the      *)
(* model's constants, so what shows is the restart: the transceiver off    *)
(* behind radio_is_on, CCR3 re-armed by turn_on, CCR2 and the radio buffer *)
(* left as they are.  It runs in process context, between two interrupts   *)
(* or reads.  (At the sender it runs only between two send_packet calls,   *)
(* when its radio is already off, and changes nothing modelled.)           *)
set_xmac_config ==
  /\ adapt
  /\ adapt' = FALSE
  /\ rad' = [rad EXCEPT ![Receiver] = turn_off(@, FALSE)]
  /\ xmac_is_on' = [xmac_is_on EXCEPT ![Receiver] = TRUE]
  /\ ccr3' \in turn_on_ccr3
  /\ UNCHANGED <<fifo, pt, ccr2, last_on_ago, was_timeout, in_on_phase, svars, hvars,
                 unread_age>>

(* Something must run before the clock moves: a compare interrupt that is  *)
(* due, the polled adaptation_process (a process step is far shorter than  *)
(* a tick), the receiver's process when its buffer has held frames for     *)
(* READ_LATENCY ticks, or a step of send_packet's busy loops that is not   *)
(* just waiting.                                                           *)
Urgent ==
  \/ ccr3 = 0 \/ ccr2 = 0 \/ adapt
  \/ fifo[Receiver] # <<>> /\ unread_age >= READ_LATENCY
  \/ spc \in {"strobe", "done"}
  \/ spc = "swait" /\ (got_strobe_ack \/ wait_left = 0 \/ fifo[Sender] # <<>>)
  \/ spc = "dwait" /\ (got_data_ack \/ wait_left = 0 \/ fifo[Sender] # <<>>)

Tick ==
  /\ ~Urgent
  /\ ccr3' = Elapse(ccr3, 1) /\ ccr2' = Elapse(ccr2, 1)
  /\ last_on_ago' = Later(last_on_ago, 1)
  /\ train_left' = Elapse(train_left, 1) /\ wait_left' = Elapse(wait_left, 1)
  /\ unread_age' = IF fifo[Receiver] # <<>> THEN unread_age + 1 ELSE 0
  /\ slow_in_hs' = (slow_in_hs \/ unread_age' >= T_WAIT)
  /\ UNCHANGED <<rad, xmac_is_on, fifo, pt, was_timeout, in_on_phase, spc,
                 got_strobe_ack, got_data_ack, sends, losses, rounds, delivered, adapt>>

(* The receiver is in its steady duty cycle, anywhere in an on-phase       *)
(* (yielded at l.306) or an off-phase (yielded at l.290), with last_on the *)
(* start of the current or last on-phase; no frame is pending, and the     *)
(* sender node's radio is off.  (Right after xmac_init the first on-phase  *)
(* comes only after two off-phases: CCR3 = TBR + off_time, then the loop   *)
(* head adds off_time again.)                                              *)
Init ==
  /\ \/ /\ pt = "on" /\ in_on_phase = FALSE /\ ccr3 \in 1 .. ON
        /\ last_on_ago = ON - ccr3
        /\ rad = [n \in Nodes |-> [flag |-> n = Receiver, on |-> n = Receiver]]
     \/ /\ pt = "off" /\ in_on_phase = TRUE /\ ccr3 \in 1 .. OFF
        /\ last_on_ago = Later(ON, OFF - ccr3)
        /\ rad = [n \in Nodes |-> [flag |-> FALSE, on |-> FALSE]]
  /\ xmac_is_on = [n \in Nodes |-> TRUE]
  /\ fifo = [n \in Nodes |-> <<>>]
  /\ ccr2 = Disabled /\ was_timeout = FALSE
  /\ spc = "idle" /\ train_left = 0 /\ wait_left = 0
  /\ got_strobe_ack = FALSE /\ got_data_ack = FALSE
  /\ sends = 0 /\ losses = 0 /\ rounds = 0 /\ slow_in_hs = FALSE
  /\ delivered = {} /\ unread_age = 0 /\ adapt = FALSE

SenderStep == SendStrobe \/ ReadStrobeAck \/ StrobeWaitEnd \/ StrobeLoopExit
              \/ ReadDataAck \/ DataWaitEnd \/ Return

Next ==
  \/ powercycle \/ timeout \/ read_packet
  \/ StartSend \/ SenderStep \/ SenderInput
  \/ GlossyRound \/ set_xmac_config \/ Tick

(* Interrupts fire when due, the busy loops spin, the receiver's process   *)
(* and a polled adaptation_process are eventually scheduled, and the       *)
(* clock advances.  Starting a send and Glossy rounds are not forced.      *)
Fairness ==
  /\ WF_vars(Tick) /\ WF_vars(powercycle) /\ WF_vars(timeout)
  /\ WF_vars(read_packet) /\ WF_vars(SenderStep) /\ WF_vars(SenderInput)
  /\ WF_vars(set_xmac_config)

Spec == Init /\ [][Next]_vars /\ Fairness

(***************************************************************************)
(* Properties                                                              *)
(***************************************************************************)
(* The interface relunicast sees: send_packet takes the attempt, and its  *)
(* return, after which send() reads got_data_ack, reports it.  got is     *)
(* whether the receiver's read_packet passed up this handshake's DATA.     *)
Mac == INSTANCE MacUnicast WITH
         busy    <- spc # "idle",
         got     <- sends \in delivered,
         sent    <- sends,
         reports <- IF spc = "idle" THEN sends ELSE sends - 1,
         last    <- IF spc # "idle" \/ sends = 0 THEN "none"
                    ELSE IF got_data_ack THEN "ack" ELSE "nack"

(* X-MAC implements the MAC interface of MacUnicast: every handshake ends  *)
(* in exactly one report, a DATA_ACK (got_data_ack, which relunicast takes *)
(* as delivery) is reported only if the receiver passed up the DATA of     *)
(* this handshake, not an earlier one, and no handshake stays unfinished. *)
MacRefined == Mac!Spec

(* A handshake that lost no frame, met no Glossy round (since boot) and    *)
(* whose receiver read every frame within T_WAIT ends with the DATA_ACK:   *)
(* strobing for 2 * t_l + t_s always covers one whole on-phase.            *)
AckedWhenLossless ==
  spc = "done" /\ losses = 0 /\ rounds = 0 /\ ~slow_in_hs => got_data_ack

(* The receiver's duty cycle never stops: its radio is switched on again   *)
(* and again, also after timeouts and Glossy rounds.                       *)
DutyCycleResumes == []<>(rad[Receiver].on)

(* radio_is_on says whether the transceiver is on: on() and off() trust  *)
(* it and do nothing when it already has the wanted value.                 *)
RadioFlagTracksRadio ==
  \A n \in Nodes : xmac_is_on[n] => rad[n].flag = rad[n].on

====
