------------------------------- MODULE Glossy -------------------------------
(***************************************************************************)
(* The Glossy flood engine of one node (core/dev/glossy.c), together with  *)
(* the hardware it drives: the CC2420 radio (mode, SFD pin, the frame on   *)
(* the air) and the Timer B capture/compare units whose interrupt runs     *)
(* timerb1_interrupt: CCR1 captures both SFD edges, CCR4 is the initiator  *)
(* timeout.                                                                *)
(*                                                                         *)
(* The interrupt handler runs to completion (the MSP430 does not nest      *)
(* interrupts), so each dispatch branch of timerb1_interrupt is one atomic *)
(* step, including the busy-wait loops of glossy_begin_rx.  The other      *)
(* nodes of the network are the environment: they put frames on the air   *)
(* whose relay counter and integrity are chosen from small sets.  The      *)
(* caller (the round scheduler) may call glossy_start when no session is   *)
(* open and glossy_stop at any moment of an open session.                  *)
(*                                                                         *)
(* Clock values are abstracted away.  What the timestamps t_rx_start,      *)
(* t_rx_stop, t_tx_start and t_tx_stop are used for is kept as the order   *)
(* in which they were last written (a history variable).                   *)
(***************************************************************************)
EXTENDS Integers, Sequences, SequencesExt, FiniteSets

CONSTANTS
  TxMaxes,     \* values the caller passes as tx_max_
  DataLens,    \* values the caller passes as data_len_
  Modes,       \* <<initiator, sync>> pairs the caller passes
  RxSlots      \* relay counters carried by the frames other nodes send

ASSUME TxMaxes \subseteq 1..255 /\ TxMaxes # {}
ASSUME DataLens \subseteq 1..100 /\ DataLens # {}
ASSUME Modes \subseteq BOOLEAN \X BOOLEAN /\ Modes # {}
ASSUME RxSlots \subseteq 0..255

(* glossy.h: frame layout constants and the relay-counter cutoff.          *)
FOOTER_LEN == 2
GLOSSY_HEADER_LEN == 1
GLOSSY_SLOT_LEN == 1
SlotCutoff == 200          \* "GLOSSY_SLOT_FIELD < 200" and the timeout marker
SlotMod == 256             \* slot_t is uint8_t

Statuses == {"OFF", "WAITING", "RECEIVING", "RECEIVED",
             "TRANSMITTING", "TRANSMITTED", "ABORTED"}

(* What the environment can put on the air: a Glossy frame of the right   *)
(* length and header ("ok"), a frame of another length, one with a wrong  *)
(* header byte, one whose CRC check fails, and one whose bytes stop        *)
(* arriving before the receive timeout.  NoFrame is the air while this     *)
(* node transmits.                                                         *)
FrameKinds == {"ok", "badlen", "badhdr", "badcrc", "stall"}
Frames == [kind : FrameKinds, slot : RxSlots]
NoFrame == [kind |-> "none", slot |-> 0]

Stamps == {"rx_start", "rx_stop", "tx_start", "tx_stop"}

VARIABLES
  glossy_status, initiator, sync, tx_max, packet_len,
  rx_cnt, tx_cnt,
  slot_field,       \* GLOSSY_SLOT_FIELD of the packet buffer
  tx_slot_last,
  T_slot_h_set,     \* T_slot_h # 0: a slot length has been estimated
  t_ref_l_updated,
  slot,             \* relay count of the last reference point
  radio,            \* CC2420 mode: "off", "rx", "txcal" (STXON issued), "tx"
  sfd,              \* SFD pin level
  sfd_ifg,          \* TBCCTL1 CCIFG: an SFD edge is captured, not yet served
  ccr4,             \* TBCCTL4: "off", "armed", "fired" (CCIFG pending)
  frame,            \* the frame currently on the air towards this node
  \* history variables
  in_session,       \* between glossy_start and glossy_stop
  delivered,        \* the caller's buffer holds a received payload
  hdr_ok,           \* every frame counted this session had GLOSSY_HEADER
  refs,             \* sync reference points computed this session
  tx_on_air,        \* transmissions this session
  stamps,           \* timestamp names, in the order they were last written
  stamped,          \* timestamp names written during this session
  sample_ok         \* the last slot-length sample used one rx-tx-rx hop

engine == <<glossy_status, initiator, sync, tx_max, packet_len, rx_cnt,
            tx_cnt, slot_field, tx_slot_last, T_slot_h_set,
            t_ref_l_updated, slot>>
hw == <<radio, sfd, sfd_ifg, ccr4, frame>>
ghost == <<in_session, delivered, hdr_ok, refs, tx_on_air, stamps,
           stamped, sample_ok>>
vars == <<engine, hw, ghost>>

params == <<initiator, sync, tx_max, packet_len>>

-----------------------------------------------------------------------------
(* The radio strobes a step issues, reduced to the last one that decides  *)
(* the mode: "none", "off" (SRFOFF), "on" (SRXON: radio_on and            *)
(* radio_abort_tx) or "tx" (STXON: radio_start_tx, the radio calibrates   *)
(* before SFD rises).  A strobe ends any frame in progress; Timer B        *)
(* captures the falling SFD edge that this causes.                         *)
Radio(cmd) ==
  /\ radio' = CASE cmd = "off" -> "off"
                [] cmd = "on"  -> "rx"
                [] cmd = "tx"  -> "txcal"
                [] OTHER       -> radio
  /\ sfd' = (sfd /\ cmd = "none")
  /\ frame' = IF cmd = "none" THEN frame ELSE NoFrame

(* Writing a timestamp moves its name to the end of the history.           *)
Stamp(s) ==
  /\ stamps' = Append(Remove(stamps, s), s)
  /\ stamped' = stamped \cup {s}

PacketLen(dl, sy) ==
  IF sy THEN dl + FOOTER_LEN + GLOSSY_SLOT_LEN + GLOSSY_HEADER_LEN
        ELSE dl + FOOTER_LEN + GLOSSY_HEADER_LEN

-----------------------------------------------------------------------------
(* glossy_start: a new session.  The receiver turns the radio on; the      *)
(* initiator writes the TXFIFO, starts the first transmission and arms     *)
(* the initiator timeout (turn_radio_on = 1 at every call site).  A sync  *)
(* session clears t_ref_l_updated.  The scheduler calls it from a later  *)
(* timer interrupt than glossy_stop, so an SFD edge captured at the stop   *)
(* has been served (status OFF) or cleared (CLEAR_SFD_INT) before.         *)
(* Mutation: t_ref_l_updated not cleared for a sync session.              *)
glossy_start_keep_ref(dl, ini, sy, tm) ==
  /\ ~in_session /\ ~sfd_ifg
  /\ initiator' = ini /\ sync' = sy /\ tx_max' = tm
  /\ packet_len' = PacketLen(dl, sy)
  /\ tx_cnt' = 0 /\ rx_cnt' = 0
  /\ glossy_status' = IF ini THEN "RECEIVED" ELSE "WAITING"
  /\ IF sy THEN slot_field' = 0
     ELSE IF ini THEN slot_field' \in RxSlots
     ELSE UNCHANGED slot_field
  /\ UNCHANGED t_ref_l_updated
  /\ Radio(IF ini THEN "tx" ELSE "on")
  /\ sfd_ifg' = sfd
  /\ ccr4' = IF ini THEN "armed" ELSE ccr4
  /\ in_session' = TRUE /\ delivered' = FALSE /\ hdr_ok' = TRUE
  /\ refs' = 0 /\ tx_on_air' = 0 /\ stamped' = {}
  /\ UNCHANGED <<tx_slot_last, T_slot_h_set, slot, stamps, sample_ok>>

glossy_start(dl, ini, sy, tm) ==
  /\ ~in_session /\ ~sfd_ifg
  /\ initiator' = ini /\ sync' = sy /\ tx_max' = tm
  /\ packet_len' = PacketLen(dl, sy)
  /\ tx_cnt' = 0 /\ rx_cnt' = 0
  /\ glossy_status' = IF ini THEN "RECEIVED" ELSE "WAITING"
  /\ IF sy THEN slot_field' = 0
     ELSE IF ini THEN slot_field' \in RxSlots     \* last application byte
     ELSE UNCHANGED slot_field                    \* not read before a reception
  /\ t_ref_l_updated' = (t_ref_l_updated /\ ~sy)
  /\ Radio(IF ini THEN "tx" ELSE "on")
  /\ sfd_ifg' = sfd
  /\ ccr4' = IF ini THEN "armed" ELSE ccr4
  /\ in_session' = TRUE /\ delivered' = FALSE /\ hdr_ok' = TRUE
  /\ refs' = 0 /\ tx_on_air' = 0 /\ stamped' = {}
  /\ UNCHANGED <<tx_slot_last, T_slot_h_set, slot, stamps, sample_ok>>

(* glossy_stop: disable the timeout, radio off, flush, status OFF.  The    *)
(* caller reads the returned rx_cnt.                                       *)
glossy_stop ==
  /\ in_session
  /\ ccr4' = "off"
  /\ Radio("off")
  /\ sfd_ifg' = (sfd_ifg \/ sfd)
  /\ glossy_status' = "OFF"
  /\ in_session' = FALSE
  /\ UNCHANGED <<params, rx_cnt, tx_cnt, slot_field, tx_slot_last,
                 T_slot_h_set, t_ref_l_updated, slot, delivered, hdr_ok, refs,
                 tx_on_air, stamps, stamped, sample_ok>>

-----------------------------------------------------------------------------
(* The branches of timerb1_interrupt.  Every branch reads TBIV, which      *)
(* clears the pending source of highest priority: the SFD capture (CCR1)   *)
(* before CCR4.  A served CCR4 stays enabled ("armed").                    *)
Tbiv == IF sfd_ifg THEN "CCR1" ELSE "CCR4"
Ccr4AfterRead == IF sfd_ifg THEN ccr4 ELSE "armed"

(* glossy_begin_rx: take t_rx_start, then busy-wait for the length byte    *)
(* and, for packets longer than 8 bytes, the header byte.  A timeout, a    *)
(* wrong length or a wrong header ends in radio_abort_rx (ABORTED).  Our   *)
(* own transmission (NoFrame) never fills the RXFIFO.                      *)
RxAborts(f) ==
  \/ f.kind \in {"none", "stall", "badlen"}
  \/ f.kind = "badhdr" /\ packet_len > 8

glossy_begin_rx ==
  /\ Stamp("rx_start")
  /\ glossy_status' = IF RxAborts(frame) THEN "ABORTED" ELSE "RECEIVING"
  /\ Radio("none")
  /\ ccr4' = Ccr4AfterRead
  /\ UNCHANGED <<params, rx_cnt, tx_cnt, slot_field, tx_slot_last,
                 T_slot_h_set, t_ref_l_updated, slot, in_session, delivered,
                 hdr_ok, refs, tx_on_air, sample_ok>>

(* The SFD fell at the end of a reception and the interrupt came within   *)
(* the fast-path window: radio_start_tx, then glossy_end_rx.  On a good    *)
(* CRC the relay counter is incremented; the session ends if tx_max        *)
(* transmissions are done, otherwise the frame is relayed.  The            *)
(* slot-length estimate is taken from the second or later reception when  *)
(* it follows this node's own transmission by one relay.  A bad CRC        *)
(* aborts the transmission before it starts.                               *)
(* Whether glossy_end_rx takes a slot-length sample                       *)
(* (glossy_estimate_slot_lengths), given the incremented relay counter.    *)
(* Mutation: the guard without "rx_cnt > 1".                               *)
glossy_estimate_slot_lengths_any_rx(field) ==
  /\ sync /\ field < SlotCutoff /\ field = tx_slot_last + 2

glossy_estimate_slot_lengths(field) ==
  /\ sync /\ field < SlotCutoff
  /\ rx_cnt + 1 > 1 /\ field = tx_slot_last + 2

glossy_end_rx ==
  LET field    == IF sync THEN (frame.slot + 1) % SlotMod ELSE frame.slot
      estimate == glossy_estimate_slot_lengths(field)
  IN
  IF frame.kind # "badcrc"
  THEN /\ slot_field' = field
       /\ IF tx_cnt = tx_max
            THEN Radio("off") /\ glossy_status' = "OFF"
            ELSE Radio("tx") /\ glossy_status' = "RECEIVED"
       /\ rx_cnt' = rx_cnt + 1
       /\ T_slot_h_set' = (T_slot_h_set \/ estimate)
       /\ sample_ok' = IF estimate
                         THEN /\ stamps = <<"rx_stop", "tx_start", "tx_stop", "rx_start">>
                              /\ stamped = Stamps
                         ELSE sample_ok
       /\ Stamp("rx_stop")
       /\ hdr_ok' = (hdr_ok /\ frame.kind # "badhdr")
       /\ ccr4' = IF initiator THEN "off" ELSE Ccr4AfterRead
  ELSE /\ Radio("on")
       /\ glossy_status' = "WAITING"
       /\ ccr4' = Ccr4AfterRead
       /\ UNCHANGED <<slot_field, rx_cnt, T_slot_h_set, sample_ok, stamps,
                      stamped, hdr_ok>>

EndRxFast ==
  /\ glossy_status = "RECEIVING" /\ ~sfd
  /\ glossy_end_rx
  /\ sfd_ifg' = FALSE
  /\ UNCHANGED <<params, tx_cnt, tx_slot_last, t_ref_l_updated, slot,
                 in_session, delivered, refs, tx_on_air>>

(* The interrupt came later than the fast-path window: drop the frame.    *)
EndRxLate ==
  /\ glossy_status = "RECEIVING" /\ ~sfd
  /\ glossy_status' = "WAITING"
  /\ sfd_ifg' = FALSE /\ ccr4' = Ccr4AfterRead
  /\ UNCHANGED <<params, rx_cnt, tx_cnt, slot_field, tx_slot_last,
                 T_slot_h_set, t_ref_l_updated, slot, radio, sfd, frame,
                 ghost>>

(* glossy_begin_tx: our own SFD rose.  The first transmission after the   *)
(* first reception copies the payload to the caller's buffer; the first   *)
(* one after a reception, once a slot length is known, computes the sync  *)
(* reference point (glossy_compute_sync_reference_point).                  *)
(* glossy_compute_sync_reference_point: t_ref_l and slot (uint8_t) from    *)
(* the relay counter; t_ref_l_updated is set.                              *)
(* Mutation: slot computed without the uint8_t wrap.                       *)
glossy_compute_sync_reference_point_signed ==
  /\ t_ref_l_updated' = TRUE
  /\ slot' = slot_field - 1
  /\ refs' = refs + 1

glossy_compute_sync_reference_point ==
  /\ t_ref_l_updated' = TRUE
  /\ slot' = (slot_field - 1) % SlotMod
  /\ refs' = refs + 1

glossy_begin_tx ==
  LET compute == /\ sync /\ T_slot_h_set /\ ~t_ref_l_updated
                 /\ rx_cnt > 0 /\ slot_field < SlotCutoff
  IN
  /\ Stamp("tx_start")
  /\ glossy_status' = "TRANSMITTING"
  /\ tx_slot_last' = slot_field
  /\ delivered' = (delivered \/ (~initiator /\ rx_cnt = 1))
  /\ IF compute
       THEN glossy_compute_sync_reference_point
       ELSE UNCHANGED <<t_ref_l_updated, slot, refs>>
  /\ Radio("none")
  /\ ccr4' = Ccr4AfterRead
  /\ UNCHANGED <<params, rx_cnt, tx_cnt, slot_field, T_slot_h_set,
                 in_session, hdr_ok, tx_on_air, sample_ok>>

(* glossy_end_tx: stop after tx_max transmissions, except that a sync     *)
(* initiator with tx_max = 1 keeps listening; radio_flush_tx.              *)
(* Mutation: the incremented count compared but not stored.                *)
glossy_end_tx_no_store ==
  /\ Stamp("tx_stop")
  /\ tx_cnt' = tx_cnt
  /\ IF tx_cnt + 1 = tx_max /\ (~sync \/ tx_max - (IF initiator THEN 1 ELSE 0) > 0)
       THEN Radio("off") /\ glossy_status' = "OFF"
       ELSE Radio("none") /\ glossy_status' = "WAITING"
  /\ ccr4' = Ccr4AfterRead
  /\ UNCHANGED <<params, rx_cnt, slot_field, tx_slot_last, T_slot_h_set,
                 t_ref_l_updated, slot, in_session, delivered, hdr_ok, refs,
                 tx_on_air, sample_ok>>

glossy_end_tx ==
  /\ Stamp("tx_stop")
  /\ tx_cnt' = tx_cnt + 1
  /\ IF tx_cnt + 1 = tx_max /\ (~sync \/ tx_max - (IF initiator THEN 1 ELSE 0) > 0)
       THEN Radio("off") /\ glossy_status' = "OFF"
       ELSE Radio("none") /\ glossy_status' = "WAITING"
  /\ ccr4' = Ccr4AfterRead
  /\ UNCHANGED <<params, rx_cnt, slot_field, tx_slot_last, T_slot_h_set,
                 t_ref_l_updated, slot, in_session, delivered, hdr_ok, refs,
                 tx_on_air, sample_ok>>

(* The initiator timeout (CCR4 while WAITING).  With nothing received the *)
(* flood restarts, its relay counter set to the cutoff so that no node    *)
(* takes a reference from it, and the timeout is re-armed; otherwise the   *)
(* timeout is disabled.                                                    *)
(* Mutation: the retransmission started without setting status RECEIVED. *)
InitiatorTimeout_no_status ==
  /\ IF rx_cnt = 0
       THEN /\ tx_cnt' = 0
            /\ IF sync THEN slot_field' = SlotCutoff ELSE slot_field' \in RxSlots
            /\ Radio("tx")
            /\ ccr4' = "armed"
       ELSE /\ ccr4' = "off"
            /\ Radio("none")
            /\ UNCHANGED <<tx_cnt, slot_field>>
  /\ UNCHANGED <<glossy_status, params, rx_cnt, tx_slot_last, T_slot_h_set,
                 t_ref_l_updated, slot, ghost>>

InitiatorTimeout ==
  /\ IF rx_cnt = 0
       THEN /\ tx_cnt' = 0
            /\ IF sync THEN slot_field' = SlotCutoff ELSE slot_field' \in RxSlots
            /\ glossy_status' = "RECEIVED"
            /\ Radio("tx")
            /\ ccr4' = "armed"
       ELSE /\ ccr4' = "off"
            /\ Radio("none")
            /\ UNCHANGED <<tx_cnt, slot_field, glossy_status>>
  /\ UNCHANGED <<params, rx_cnt, tx_slot_last, T_slot_h_set, t_ref_l_updated,
                 slot, ghost>>

(* Status-only branches: ABORTED goes back to WAITING; any other event     *)
(* while Glossy is on flushes the RXFIFO and goes back to WAITING; with    *)
(* Glossy off the event belongs to the MAC layer.                          *)
SetStatus(s) ==
  /\ glossy_status' = s
  /\ Radio("none")
  /\ ccr4' = Ccr4AfterRead
  /\ UNCHANGED <<params, rx_cnt, tx_cnt, slot_field, tx_slot_last,
                 T_slot_h_set, t_ref_l_updated, slot, ghost>>

(* One run of timerb1_interrupt, dispatched in the order of the code on   *)
(* the status, the level of the SFD pin and the TBIV source.               *)
timerb1_interrupt ==
  /\ sfd_ifg \/ ccr4 = "fired"
  /\ \/ EndRxFast
     \/ EndRxLate
     \/ /\ ~(glossy_status = "RECEIVING" /\ ~sfd)
        /\ sfd_ifg' = FALSE
        /\ CASE glossy_status = "WAITING" /\ sfd       -> glossy_begin_rx
             [] glossy_status = "RECEIVED" /\ sfd      -> glossy_begin_tx
             [] glossy_status = "TRANSMITTING" /\ ~sfd -> glossy_end_tx
             [] glossy_status = "ABORTED"              -> SetStatus("WAITING")
             [] glossy_status = "WAITING" /\ Tbiv = "CCR4" -> InitiatorTimeout
             [] glossy_status # "OFF"                  -> SetStatus("WAITING")
             [] OTHER                                  -> SetStatus("OFF")

-----------------------------------------------------------------------------
(* The environment: other nodes' frames, our own frame on the air, and the *)
(* timer compare.  An edge is captured only after the previous one was     *)
(* served: every frame lasts longer than the interrupt latency.            *)
FrameStart(f) ==
  /\ radio = "rx" /\ ~sfd /\ ~sfd_ifg
  /\ sfd' = TRUE /\ sfd_ifg' = TRUE /\ frame' = f
  /\ UNCHANGED <<engine, radio, ccr4, ghost>>

FrameEnd ==
  /\ radio = "rx" /\ sfd /\ ~sfd_ifg
  /\ sfd' = FALSE /\ sfd_ifg' = TRUE
  /\ UNCHANGED <<engine, radio, ccr4, frame, ghost>>

TxSfdUp ==
  /\ radio = "txcal" /\ ~sfd_ifg
  /\ radio' = "tx" /\ sfd' = TRUE /\ sfd_ifg' = TRUE
  /\ tx_on_air' = IF initiator THEN tx_on_air ELSE tx_on_air + 1
  /\ UNCHANGED <<engine, ccr4, frame, in_session, delivered, hdr_ok, refs,
                 stamps, stamped, sample_ok>>

(* After a transmission the CC2420 returns to receive mode.                *)
TxSfdDown ==
  /\ radio = "tx" /\ ~sfd_ifg
  /\ radio' = "rx" /\ sfd' = FALSE /\ sfd_ifg' = TRUE
  /\ UNCHANGED <<engine, ccr4, frame, ghost>>

(* Every step that leaves the radio calibrating for a transmission also  *)
(* disables CCR4 or sets it a full initiator timeout (F_CPU / 400, about   *)
(* 2.5 ms) ahead, and the SFD rises 192 us after STXON: CCR4 cannot fire  *)
(* in between.  It can fire during a reception or a transmission.          *)
Ccr4Fires ==
  /\ ccr4 = "armed" /\ radio # "txcal"
  /\ ccr4' = "fired"
  /\ UNCHANGED <<engine, radio, sfd, sfd_ifg, frame, ghost>>

-----------------------------------------------------------------------------
Init ==
  /\ glossy_status = "OFF"
  /\ initiator = FALSE /\ sync = FALSE
  /\ tx_max = CHOOSE m \in TxMaxes : TRUE
  /\ packet_len = 0
  /\ rx_cnt = 0 /\ tx_cnt = 0
  /\ slot_field = 0 /\ tx_slot_last = 0
  /\ T_slot_h_set = FALSE /\ t_ref_l_updated = FALSE /\ slot = 0
  /\ radio = "off" /\ sfd = FALSE /\ sfd_ifg = FALSE /\ ccr4 = "off"
  /\ frame = NoFrame
  /\ in_session = FALSE /\ delivered = FALSE /\ hdr_ok = TRUE
  /\ refs = 0 /\ tx_on_air = 0
  /\ stamps = <<>> /\ stamped = {} /\ sample_ok = TRUE

Caller ==
  \/ \E dl \in DataLens, m \in Modes, tm \in TxMaxes :
        glossy_start(dl, m[1], m[2], tm)
  \/ glossy_stop

Environment ==
  \/ \E f \in Frames : FrameStart(f)
  \/ FrameEnd
  \/ TxSfdUp
  \/ TxSfdDown
  \/ Ccr4Fires

Next == Caller \/ timerb1_interrupt \/ Environment

Spec == Init /\ [][Next]_vars

-----------------------------------------------------------------------------
TypeOK ==
  /\ glossy_status \in Statuses
  /\ initiator \in BOOLEAN /\ sync \in BOOLEAN
  /\ tx_max \in TxMaxes /\ packet_len \in 0..255
  /\ rx_cnt \in 0..255 /\ tx_cnt \in 0..255
  /\ slot_field \in 0..255 /\ tx_slot_last \in 0..255 /\ slot \in 0..255
  /\ T_slot_h_set \in BOOLEAN /\ t_ref_l_updated \in BOOLEAN
  /\ radio \in {"off", "rx", "txcal", "tx"}
  /\ sfd \in BOOLEAN /\ sfd_ifg \in BOOLEAN
  /\ ccr4 \in {"off", "armed", "fired"}
  /\ frame \in Frames \cup {NoFrame}
  /\ in_session \in BOOLEAN /\ delivered \in BOOLEAN /\ hdr_ok \in BOOLEAN
  /\ refs \in Nat /\ tx_on_air \in Nat
  /\ stamps \in Seq(Stamps) /\ stamped \subseteq Stamps
  /\ sample_ok \in BOOLEAN

(* A receiver relays at most tx_max times per session: glossy_end_rx turns *)
(* the radio off instead of relaying once tx_cnt reached tx_max, and       *)
(* glossy_end_tx stops the session at tx_max.                              *)
ReceiverTxBound == ~initiator => tx_on_air <= tx_max

(* After a sync session the scheduler reads is_t_ref_l_updated() as "this *)
(* flood gave a reference point": it is set exactly when one reference was *)
(* computed in this session (glossy_start clears it, glossy_begin_tx sets  *)
(* it at most once).                                                       *)
SyncReferenceFresh == sync => (t_ref_l_updated <=> refs = 1)

(* Every slot-length sample (glossy_estimate_slot_lengths) is computed from *)
(* the end of the previous reception, this node's next transmission and    *)
(* the reception that followed it, all taken in this session, in order.    *)
SlotSampleFromLastHop == sample_ok

(* Every time this node's own frame goes on the air the engine expects it  *)
(* (status RECEIVED), so the SFD interrupt runs glossy_begin_tx and counts *)
(* the transmission; no strobe leaves the radio transmitting behind the    *)
(* engine's back.                                                          *)
TxOnlyWhenExpected ==
  [][radio = "txcal" /\ radio' = "tx" => glossy_status = "RECEIVED"]_vars

(* A receiver whose glossy_stop returns a nonzero reception count finds    *)
(* the received payload in its buffer (spec section 8, frame round-trip).  *)
PayloadDelivered == ~in_session /\ ~initiator /\ rx_cnt >= 1 => delivered

(* Every frame the engine counts as received carried GLOSSY_HEADER (spec   *)
(* section 3: a wrong header byte rejects the frame).                       *)
HeaderChecked == hdr_ok

=============================================================================
