----------------------------- MODULE RelCollect -----------------------------
(***************************************************************************)
(* Data collection towards the sink as the adaptive-mac application builds *)
(* it: relcollect (core/net/rime/relcollect.c) over relunicast             *)
(* (relunicast.c) over X-MAC, with the neighbor table of neighbor.c.       *)
(* relcollect.h defines STATIC 1, so the routes are the fixed table that   *)
(* relcollect_open installs (the ETH table: LOCATION == ETH holds because  *)
(* ETH is undefined and ETHZ is 0), rel_update_rtmetric and the ETX        *)
(* updates are compiled out, and the only change to a neighbor table is    *)
(* the loop check of rel_send_queued_packet.                               *)
(*                                                                         *)
(* With MAC_PROTOCOL == XMAC, send() calls unicast_send, which runs the    *)
(* whole X-MAC handshake (strobes, strobe ack, data, data ack) before it   *)
(* returns, and then reads xmac_got_data_ack().  The parent sends the data *)
(* ack in read_packet and then passes the packet up through relunicast to *)
(* rel_node_packet_received.  One step of the model is one expiry of a    *)
(* node's relunicast ctimer: the handshake with its outcome, the parent's *)
(* processing of the packet if it got it, and the sender's callbacks.  The *)
(* two nodes touch disjoint state, so running the parent's processing in  *)
(* the same step loses no behaviour.  Timer values (REXMIT_TIME and the    *)
(* Glossy-aware schedule_send) are abstracted away.                        *)
(*                                                                         *)
(* Each node holds one queuebuf pool (QUEUEBUF_CONF_NUM); the forwarding   *)
(* queue and relunicast's copy of the packet in flight (c->buf) take their *)
(* queuebufs from it.                                                      *)
(***************************************************************************)
EXTENDS Integers, Sequences, FiniteSets, SequencesExt, TLC

CONSTANTS
  Nodes,                 \* node ids (rimeaddr u8[0]) of the modelled nodes
  Rexmits,               \* values of current_cfg.n passed to relcollect_send
  MaxOriginate(_),       \* bound on the packets node n's application sends
  QUEUEBUF_NUM,          \* queuebuf pool size (QUEUEBUF_CONF_NUM)
  MAX_FORWARDING_QUEUE,  \* capacity of the forwarding packetqueue
  NUM_RECENT_PACKETS     \* entries of the duplicate-detection ring

(* contiki-conf.h: the sink's address for LOCATION ETHZ.                   *)
SINK_ID == 200

(* relcollect_open, STATIC, LOCATION == ETH: the parent of every node.     *)
ETH_TABLE_LOW ==
  (1 :> 17) @@ (2 :> 12) @@ (3 :> 109) @@ (4 :> 23) @@ (5 :> 2) @@
  (6 :> 2) @@ (7 :> 14) @@ (8 :> 23) @@ (9 :> 10) @@ (10 :> 29) @@
  (11 :> 26) @@ (12 :> 29) @@ (13 :> 33) @@ (14 :> 4) @@ (15 :> 33) @@
  (16 :> 26) @@ (17 :> 3) @@ (18 :> 6) @@ (19 :> 23) @@ (20 :> 13) @@
  (21 :> 5) @@ (22 :> 11) @@ (23 :> 12) @@ (24 :> 6) @@ (25 :> 18) @@
  (26 :> 30) @@ (27 :> 28) @@ (28 :> 200) @@ (29 :> 200) @@ (30 :> 5) @@
  (31 :> 23) @@ (32 :> 102) @@ (33 :> 105) @@ (34 :> 105)

ETH_TABLE_HIGH ==
  (101 :> 7) @@ (102 :> 13) @@ (103 :> 33) @@ (104 :> 33) @@
  (105 :> 200) @@ (106 :> 29) @@ (107 :> 12) @@ (108 :> 102) @@
  (109 :> 29)

ETH_TABLE == ETH_TABLE_LOW @@ ETH_TABLE_HIGH

ASSUME SINK_ID \in Nodes
ASSUME \A n \in Nodes \ {SINK_ID} : n \in DOMAIN ETH_TABLE /\ ETH_TABLE[n] \in Nodes

NULL == 0                \* rimeaddr_null
Uint8 == 256
REXMIT_FIELD == 32       \* PACKETBUF_ATTR_MAX_REXMIT is carried in 5 bits

Uint16 == 65536

(* A packet: its relcollect header (originator, EPACKET_ID, the hop that  *)
(* sent it, MAX_REXMIT) and, of the application's payload (struct         *)
(* message), the 16-bit seq_no; the energest fields are left out.         *)
Packets == [orig : Nodes, id : 0..Uint8 - 1, seq_no : 0..Uint16 - 1,
            sender : Nodes \cup {NULL}, rexmit : 0..REXMIT_FIELD * 8]
NoPacket == [orig |-> NULL, id |-> 0, seq_no |-> 0, sender |-> NULL, rexmit |-> 0]

(* recv_relcollect, the sink's callback: what it prints of a packet is    *)
(* the originator and the payload's seq_no (print_msg.rx, print_msg.seq_no) *)
(* next to timing and energy figures that are abstracted away.            *)
recv_relcollect(p) == <<p.orig, p.seq_no>>

Key(p) == recv_relcollect(p)
Recent == [orig : Nodes \cup {NULL}, id : 0..Uint8 - 1]

VARIABLES
  conn,        \* per node: relcollect_conn, relunicast_conn, neighbor table,
               \* forwarding queue and duplicate ring
  \* history variables
  originated,  \* keys of the packets the applications sent
  delivered,   \* keys passed to the sink's recv callback, in order
  dropped,     \* keys dropped because the queue or the pool was full
  timedout     \* keys relunicast gave up on

vars == <<conn, originated, delivered, dropped, timedout>>

(***************************************************************************)
(* Helpers on one node's state s.                                          *)
(***************************************************************************)
(* neighbor_best: the static table has one entry, the parent.  After      *)
(* neighbor_remove of that entry the code reads the freed last_best        *)
(* (neighbor.c:265 compares with &last_best, so it is never cleared): the *)
(* result is undefined.  The model returns NULL; the static ETH tree has   *)
(* no loop, so the removal never happens.                                  *)
neighbor_best(s) == IF s.nbrs = {} THEN NULL ELSE CHOOSE b \in s.nbrs : TRUE

(* neighbor_add(addr, 1, 1): an address already in the list keeps its      *)
(* entry, otherwise a new one is allocated.  The pool holds MAX_NEIGHBORS  *)
(* (16) entries and a static table uses one, so allocation never fails and *)
(* the recycling of the worst entry is unreachable.  Metric and ETX are    *)
(* constants under STATIC and are not represented.                         *)
neighbor_add(nbrs, addr) == nbrs \cup {addr}

(* neighbor_remove(addr): the entry with that address leaves the list and  *)
(* the pool; last_best is not reset (see neighbor_best above).             *)
neighbor_remove(s, addr) == [s EXCEPT !.nbrs = @ \ {addr}]

PoolUsed(s) == Len(s.queue) + IF s.buf = NoPacket THEN 0 ELSE 1

(* packetqueue_enqueue_packetbuf succeeds if the queue has room and a       *)
(* queuebuf can be allocated for the copy.                                 *)
CanEnqueue_le(s) == Len(s.queue) < MAX_FORWARDING_QUEUE /\ PoolUsed(s) <= QUEUEBUF_NUM

CanEnqueue(s) == Len(s.queue) < MAX_FORWARDING_QUEUE /\ PoolUsed(s) < QUEUEBUF_NUM

(* relunicast_send: refused while transmitting; the old c->buf is freed    *)
(* before the new one is allocated, and a failed allocation returns 0.     *)
relunicast_send(s, p, to) ==
  IF s.is_tx THEN s
  ELSE LET freed == [s EXCEPT !.buf = NoPacket]
       IN IF PoolUsed(freed) >= QUEUEBUF_NUM THEN freed
          ELSE [freed EXCEPT !.buf = p, !.max_rxmit = p.rexmit, !.rxmit = 0,
                             !.is_tx = TRUE, !.receiver = to]

(* rel_send_queued_packet: send the head of the queue to the best          *)
(* neighbor unless a packet is being forwarded; a best neighbor that sent  *)
(* us the packet is removed first.  The result of relunicast_send is       *)
(* ignored: forwarding is set either way.                                  *)
rel_send_queued_packet(s) ==
  IF s.queue = <<>> \/ s.forwarding THEN s
  ELSE LET p  == Head(s.queue)
           b0 == neighbor_best(s)
           s1 == IF b0 # NULL /\ b0 = p.sender
                 THEN neighbor_remove(s, b0) ELSE s
           b  == neighbor_best(s1)
       IN IF b = NULL THEN s1
          ELSE relunicast_send([s1 EXCEPT !.forwarding = TRUE], p, b)

(* rel_node_packet_sent / rel_node_packet_timedout, after relunicast has   *)
(* cleared is_tx: the head of the queue is done, send the next one.        *)
FinishHead_no_next(s) == [s EXCEPT !.forwarding = FALSE, !.queue = Tail(@)]

FinishHead(s) ==
  rel_send_queued_packet([s EXCEPT !.forwarding = FALSE, !.queue = Tail(@)])

(* relunicast send(), timed out or acked: is_tx is cleared and rxmit     *)
(* (a uint8_t) decremented before relcollect's timedout or sent callback  *)
(* runs, so the callback's relunicast_send is not refused.                 *)
ClearTx(s) == [s EXCEPT !.is_tx = FALSE, !.rxmit = (@ - 1) % Uint8]

TxDone_callback_first(s) == ClearTx(FinishHead(s))

TxDone(s) == FinishHead(ClearTx(s))

(* relunicast send(), another attempt: c->rxmit++.                         *)
Attempted(s) == [s EXCEPT !.rxmit = (@ + 1) % Uint8]

IsDuplicate_id_only(s, p) ==
  \E i \in DOMAIN s.recent : s.recent[i].id = p.id

IsDuplicate(s, p) ==
  \E i \in DOMAIN s.recent : s.recent[i] = [orig |-> p.orig, id |-> p.id]

(* rel_node_packet_received at node m for packet p: drop a duplicate,      *)
(* else record it in the ring; the sink delivers it, any other node        *)
(* enqueues and forwards it, or drops it when the queue is full.           *)
RecordRecent(s, p) ==
  [s EXCEPT !.recent[s.recent_ptr] = [orig |-> p.orig, id |-> p.id],
            !.recent_ptr = (@ + 1) % NUM_RECENT_PACKETS]

rel_node_packet_received_no_record(m, s, p) ==
  IF IsDuplicate(s, p) THEN s
  ELSE IF m = SINK_ID \/ ~CanEnqueue(s) THEN s
  ELSE rel_send_queued_packet([s EXCEPT !.queue = Append(@, p)])

rel_node_packet_received(m, s, p) ==
  IF IsDuplicate(s, p) THEN s
  ELSE LET s1 == RecordRecent(s, p)
       IN IF m = SINK_ID \/ ~CanEnqueue(s1) THEN s1
          ELSE rel_send_queued_packet([s1 EXCEPT !.queue = Append(@, p)])

Accepted(m, s, p) == ~IsDuplicate(s, p)
Delivers(m, s, p) == Accepted(m, s, p) /\ m = SINK_ID
DropsFull(m, s, p) ==
  Accepted(m, s, p) /\ m # SINK_ID /\ ~CanEnqueue(RecordRecent(s, p))

(***************************************************************************)
(* Actions                                                                 *)
(***************************************************************************)
(* relcollect_send(&c, rexmits) at a node other than the sink, on state s *)
(* for the payload seq_no: the packet takes the EPACKET_ID seqno++ and is  *)
(* enqueued, then sent at once if there is a best neighbor; a failed       *)
(* enqueue drops it (dropped_packets_count++).                             *)
NewPacket(n, s, rexmits, seq_no) ==
  [orig |-> n, id |-> s.seqno, seq_no |-> seq_no, sender |-> NULL, rexmit |-> rexmits]

relcollect_send(n, s, rexmits, seq_no) ==
  LET s1 == [s EXCEPT !.seqno = (@ + 1) % Uint8]
      s2 == [s1 EXCEPT !.queue = Append(@, NewPacket(n, s, rexmits, seq_no))]
  IN IF ~CanEnqueue(s1) THEN s1
     ELSE IF neighbor_best(s1) # NULL THEN rel_send_queued_packet(s2)
     ELSE s2

(* One turn of app_process's loop at node n: after the data_rate wait,    *)
(* msg.seq_no++ (a uint16_t), the payload, and                             *)
(* relcollect_send(&c, current_cfg.n).  The sink's app_process waits       *)
(* forever after relcollect_set_sink; the waits are abstracted away.       *)
app_process(n) ==
  /\ n # SINK_ID
  /\ conn[n].msg_seq_no < MaxOriginate(n)
  /\ \E r \in Rexmits :
       LET seq == (conn[n].msg_seq_no + 1) % Uint16
           s   == [conn[n] EXCEPT !.msg_seq_no = seq]
           p   == NewPacket(n, s, r, seq)
       IN /\ conn' = [conn EXCEPT ![n] = relcollect_send(n, s, r, seq)]
          /\ originated' = originated \cup {Key(p)}
          /\ dropped' = IF CanEnqueue(s) THEN dropped ELSE dropped \cup {Key(p)}
  /\ UNCHANGED <<delivered, timedout>>

(* relunicast send(), run by the ctimer of node n, when the packet has     *)
(* used up its retransmissions: is_tx is cleared and rxmit decremented,    *)
(* then relcollect's timedout callback.                                    *)
SendTimedOut(n) ==
  LET s == conn[n] IN
  /\ s.is_tx
  /\ s.rxmit > s.max_rxmit
  /\ conn' = [conn EXCEPT ![n] = TxDone(s)]
  /\ timedout' = timedout \cup {Key(s.buf)}
  /\ UNCHANGED <<originated, delivered, dropped>>

(* relunicast send() otherwise: one X-MAC handshake with the receiver.     *)
(* "nostrobe": no strobe ack (parent asleep, busy sending, or lost);       *)
(* "datalost": strobe ack but the data frame lost; "ackLost": the parent   *)
(* got the data but the data ack was lost; "acked": both arrived.  With an *)
(* ack, relunicast clears is_tx and calls relcollect's sent callback;      *)
(* without, the retransmission is scheduled (the ctimer stays armed).      *)
Outcomes == {"nostrobe", "datalost", "ackLost", "acked"}

SendAttempt(n) ==
  LET s == conn[n]
      m == s.receiver
      q == [s.buf EXCEPT !.sender = n, !.rexmit = @ % REXMIT_FIELD]
  IN
  /\ s.is_tx
  /\ s.rxmit <= s.max_rxmit
  /\ \E o \in Outcomes :
       LET got   == o \in {"ackLost", "acked"}
           snd   == IF o = "acked" THEN TxDone(Attempted(s)) ELSE Attempted(s)
       IN /\ conn' = IF got
                     THEN [conn EXCEPT ![n] = snd,
                                       ![m] = rel_node_packet_received(m, conn[m], q)]
                     ELSE [conn EXCEPT ![n] = snd]
          /\ delivered' = IF got /\ Delivers(m, conn[m], q)
                          THEN Append(delivered, Key(q)) ELSE delivered
          /\ dropped' = IF got /\ DropsFull(m, conn[m], q)
                        THEN dropped \cup {Key(q)} ELSE dropped
  /\ UNCHANGED <<originated, timedout>>

(* relunicast_open: no transmission in progress, rxmit = 0; c->buf and   *)
(* c->receiver keep the zeroed static connection's values.               *)
relunicast_open == [is_tx |-> FALSE, rxmit |-> 0, max_rxmit |-> 0,
                    buf |-> NoPacket, receiver |-> NULL]

(* relcollect_open with STATIC: relunicast_open, seqno = 1, and the sink   *)
(* gets no neighbor while every other node neighbor_adds its entry of the  *)
(* ETH table; the forwarding queue and the duplicate ring start zeroed.    *)
(* app_process sets msg.seq_no = 0 before its loop.                        *)
Init ==
  /\ conn = [n \in Nodes |->
       [queue |-> <<>>, forwarding |-> FALSE, seqno |-> 1, msg_seq_no |-> 0,
        nbrs |-> IF n = SINK_ID THEN {} ELSE neighbor_add({}, ETH_TABLE[n]),
        recent |-> [i \in 0..NUM_RECENT_PACKETS - 1 |-> [orig |-> NULL, id |-> 0]],
        recent_ptr |-> 0] @@ relunicast_open]
  /\ originated = {} /\ delivered = <<>> /\ dropped = {} /\ timedout = {}

Send(n) == SendTimedOut(n) \/ SendAttempt(n)

Next == \E n \in Nodes : app_process(n) \/ Send(n)

(* A ctimer that is set eventually fires: the relunicast timer of a node   *)
(* that transmits is weakly fair.  Link outcomes are not assumed fair:     *)
(* progress comes from the retransmission bound.                           *)
Fairness == \A n \in Nodes : WF_vars(Send(n))

Spec == Init /\ [][Next]_vars /\ Fairness

(***************************************************************************)
(* Properties                                                              *)
(***************************************************************************)
NodeState ==
  [queue : Seq(Packets), forwarding : BOOLEAN, seqno : 0..Uint8 - 1,
   msg_seq_no : 0..Uint16 - 1,
   is_tx : BOOLEAN, rxmit : 0..Uint8 - 1, max_rxmit : 0..REXMIT_FIELD * 8,
   buf : Packets \cup {NoPacket}, receiver : Nodes \cup {NULL},
   nbrs : SUBSET Nodes, recent : [0..NUM_RECENT_PACKETS - 1 -> Recent],
   recent_ptr : 0..NUM_RECENT_PACKETS - 1]

TypeOK ==
  /\ conn \in [Nodes -> NodeState]
  /\ \A n \in Nodes : Len(conn[n].queue) <= MAX_FORWARDING_QUEUE
  /\ \A n \in Nodes : PoolUsed(conn[n]) <= QUEUEBUF_NUM
  /\ originated \subseteq Nodes \X (0..Uint16 - 1)
  /\ delivered \in Seq(Nodes \X (0..Uint16 - 1))
  /\ dropped \subseteq Nodes \X (0..Uint16 - 1)
  /\ timedout \subseteq Nodes \X (0..Uint16 - 1)

(* rel_send_queued_packet sets c->forwarding before calling                *)
(* relunicast_send and ignores its result; only relunicast's sent and      *)
(* timedout callbacks clear it.  So a node whose relunicast_send fails     *)
(* (no queuebuf for c->buf) forwards nothing ever again.  The property:    *)
(* a forwarding node always has a transmission in progress.                *)
ForwardingImpliesTransmitting ==
  \A n \in Nodes : conn[n].forwarding => conn[n].is_tx

(* The sink's application receives each originator's packets in the order *)
(* the originator sent them, each at most once (strictly increasing        *)
(* seq_no), although a lost X-MAC data ack makes a relay retransmit a      *)
(* packet its parent already holds, a relay's own packets and forwarded    *)
(* ones share its queue, and a relay may give up on a packet its parent    *)
(* already has: the stop-and-wait of relunicast, the FIFO forwarding      *)
(* queue and the recent_packets ring of rel_node_packet_received together. *)
DeliveredInOrder ==
  \A o \in Nodes :
    IsSorted(SelectSeq(delivered, LAMBDA k : k[1] = o), LAMBDA a, b : a[2] < b[2])

(* No packet vanishes: every packet an application sent has reached the   *)
(* sink, waits in some forwarding queue, or was dropped for a reason the   *)
(* code accounts for (a full queue or pool, or relunicast timing out).     *)
NoSilentLoss ==
  \A k \in originated :
     \/ k \in Range(delivered) \/ k \in dropped \/ k \in timedout
     \/ \E n \in Nodes : \E i \in DOMAIN conn[n].queue : Key(conn[n].queue[i]) = k

(* Every forwarding queue that holds packets is eventually emptied: the    *)
(* retransmission bound of relunicast's send() ends every attempt, and     *)
(* the sent and timedout callbacks move on to the next packet.             *)
QueueDrains ==
  \A n \in Nodes : conn[n].queue # <<>> ~> conn[n].queue = <<>>
====
