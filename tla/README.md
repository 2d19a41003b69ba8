# TLA+ models of pTunes

This directory holds TLA+ models of the pTunes runtime (Contiki, MSP430/CC2420
"sky" motes) and the TLC configurations that check them. `PROJECT.json` lists
the components, the runs, the mutants that show each property can fail, the
mapping from each TLA+ definition to the source lines it models, the findings,
and the hazards of the code.

## The system and its parts

pTunes adapts the MAC-layer parameters of a sensor network at runtime. Its
on-node parts are these:

| Part | Source | Role |
|---|---|---|
| Glossy flood engine | `core/dev/glossy.c`, `glossy.h` | One flood: the initiator transmits. Every receiver relays each reception immediately, up to `tx_max` times. The relay counter in the packet (`GLOSSY_SLOT_FIELD`) gives a common time reference (`t_ref_l`). Everything happens in the Timer B interrupt `timerb1_interrupt`, driven by the SFD edges of the radio. A compare timer (CCR4) restarts the initiator's flood if nothing comes back. |
| Round scheduler | `apps/adaptive-mac/glossy_interface.h` | A protothread `glossy_scheduler`, run from an rtimer interrupt, once per `GLOSSY_PERIOD`. It runs one config flood from the sink. It then runs `N_NODES` report floods, one per `schedule[]` entry. At the end of the round it estimates the clock skew and latches a new configuration. Nodes first bootstrap over three consecutive synchronised periods. A node that misses the sync widens its guard time by `sync_missed`. |
| Dissemination / adaptation | `apps/adaptive-mac/adaptive-mac.lifetime_gain.c` | At the sink, `dissemination_process` reads a new configuration from the UART. It waits until Glossy is off. It then stores the configuration in `glossy_config_data`, which the next config flood carries. On every node, `adaptation_process` is polled by the scheduler's latch and applies `new_cfg` to the MAC. |
| MAC layers | `core/net/mac/xmac.c`, `lpp.c`, `lpp_new.c` | The duty-cycled MAC protocols whose on/off times the configuration sets. |
| Rime collection | `core/net/rime/relunicast.c`, `relcollect.c`, `neighbor.c` | Reliable unicast with retransmissions, and a tree-based collection protocol over it, carrying the application's data to the sink. |
| FTSP | `core/net/rime/ftsp.c` | An alternative time synchronisation (not used with Glossy). |
| Others | `time.c`, `trickle-test.c`, `vib-sensor.c`, ECLiPSe headers | A seconds counter, a test program, a simulator sensor, and generated solver headers. They have no protocol state. |

The parts interact as follows:
- The scheduler calls `glossy_start`/`glossy_stop` and reads `get_rx_cnt`, `is_t_ref_l_updated` and `get_t_ref_l`.
- The dissemination process and the scheduler share `glossy_config_data` and `new_cfg`. The process runs in thread context. The scheduler runs in the rtimer interrupt, which can preempt it between any two statements.
- The adaptation process reads `new_cfg` and reconfigures the MAC.
- Collection runs over the MAC between Glossy rounds.

## Modules

### `Glossy` — the flood engine of one node (`glossy.c`)

**State.**
- The engine's statics: `glossy_status`, `initiator`, `sync`, `tx_max`, `packet_len`, `rx_cnt`, `tx_cnt`, the relay counter of the buffer `slot_field`, `tx_slot_last`, whether `T_slot_h` is set, `t_ref_l_updated` and the reference `slot`.
- The hardware the engine drives: the radio mode, the SFD pin, the CCR1 capture flag, the CCR4 timer, and the frame on the air.
- History variables for the properties: `in_session`, `delivered`, `hdr_ok`, `refs`, `tx_on_air`, the order of the timestamps, and `sample_ok`.

**Actions.**
- The caller: `glossy_start(data_len, initiator, sync, tx_max)` and `glossy_stop`.
- `timerb1_interrupt`, with one disjunct per dispatch branch:
  - the fast end-of-reception path `EndRxFast` (lines 69-90);
  - the late path `EndRxLate`;
  - SFD up/down in each status (`glossy_begin_rx`, `glossy_end_rx`, `glossy_begin_tx`, `glossy_end_tx`);
  - `ABORTED`;
  - the initiator timeout `InitiatorTimeout`;
  - the stray-event flush `SetStatus`.
- The environment: other nodes' frames (`FrameStart` over `Frames`: well-formed, bad length, bad header, bad CRC, or a stalled frame), the end of a frame, the radio's own SFD edges while it transmits, and CCR4 firing.

Each interrupt branch is one atomic step, because the MSP430 does not nest interrupts. The busy-wait loops of `glossy_begin_rx` are inside the step. Their outcome is a frame property (`RxAborts`).

**Abstractions.**
- Clock values are abstracted away. The timestamps are kept as the order in which they were written, because that order is what `glossy_estimate_slot_lengths` relies on.
- The relay counter keeps its `uint8_t` wrap (`SlotMod`) and the cutoff of 200.
- `TBIV` priority is kept: an SFD capture is served before a pending CCR4 (`Tbiv`, `Ccr4AfterRead`).

**Dead code.** The `else` branch of the initiator timeout (`rx_cnt > 0`: just clear `TBCCTL4`, glossy.c:129-131) is unreachable. `glossy_end_rx` already clears `TBCCTL4` for the initiator on its first reception. The model keeps the branch and TLC confirms that it never fires.

### `GlossyScheduler` — rounds, bootstrap, guard, configuration (`glossy_interface.h`, `adaptive-mac.lifetime_gain.c`)

**State.**
- Per node: where the protothread yielded (`pc`: sleep, config flood, gap, report flood), `report_idx`, `skew_estimated`, `sync_missed` (a `uint8_t`), `is_t_ref_l_updated` as read after the config flood, `glossy_config_data`, `config_seq_no`, `new_cfg` and `current_cfg`.
- The sink's `dissemination_process` state, and the configuration flooded this period.
- History variables:
  - `old_age`: how many periods ago `t_ref_l_old` was taken;
  - `skew_gap`: the period distance of the last skew sample;
  - `real_sync` and `prev_missed`: whether the current and the previous flood gave a reference.

**Actions.** Each action is one protothread resumption, from one `PT_YIELD` to the next:
- `Wake`: timer fires, `glossy_start`.
- `SinkConfigEnd` / `ReceiverConfigEnd`: `glossy_stop` of the config flood. This covers the bootstrap reset, the missed-sync count and the start of the report phase.
- `ReportStart` / `ReportEnd`: one report flood per `schedule[]` entry.
- `RoundEnd`: `estimate_period_skew` and the configuration latch `LatchConfig`, which sets `new_cfg` and polls adaptation.
- `NewPeriod`: the period barrier.
- `UartLine`, `DisseminateSeqNo`, `DisseminateValues`: the three steps of `dissemination_process` between which the rtimer can preempt.
- `Adapt`: `adaptation_process`.

**Floods.** A flood is reduced to what `glossy_stop` reports, chosen nondeterministically:
- whether the node heard it;
- whether the payload was copied (the `Glossy` model shows it may not be);
- whether a reference was taken.

**Values.** The values of the k-th UART line are the number k, and boot values are 0. So a configuration is intact exactly when its values equal its sequence number.

**Guard time.** The spec's example widens the guard only after two consecutive misses; the code widens it on the first. `GuardGrowsOnlyAfterTwoMisses` states the example, and TLC finds it violated after a single missed flood. No run checks it: the rule comes from an example, not from the code, and the earlier widening is harmless to correctness.

### `RelCollect` — collection over reliable unicast (`relcollect.c`, `relunicast.c`, `neighbor.c`, `app_process`)

The build fixes the configuration this module follows:
- `MAC_PROTOCOL` is `XMAC`.
- `STATIC` is 1 (`relcollect.h:94`), so routes are the fixed table that `relcollect_open` installs, and the rtmetric/ETX code is compiled out.
- `LOCATION == ETH` selects the ETH table: `ETH` is undefined, so it is 0, the same as `ETHZ`.

**State.** `conn[n]` holds everything node n keeps:
- the application: `msg_seq_no`, the 16-bit `msg.seq_no` of `app_process`.
- relcollect: `seqno`, `forwarding`, the forwarding queue.
- relunicast: `is_tx`, `rxmit`, `max_rxmit`, `buf` (the queuebuf `c->buf`), `receiver`.
- the neighbor table as a set, `nbrs`. `neighbor_add` and `neighbor_remove` are set union and difference. With one entry per node the pool of 16 never fills, so `neighbor_add`'s recycling branch is unreachable. `neighbor_periodic` is never scheduled, because its `ctimer_set` is compiled out under `STATIC`.
- the duplicate ring `recent` / `recent_ptr`.

The history variables `originated`, `delivered`, `dropped` and `timedout` record what happened to every packet. A packet is known by what the sink's `recv_relcollect` prints of it: the originator and the payload's `seq_no`. Duplicate detection, in contrast, uses relcollect's 8-bit `EPACKET_ID`.

**Actions.**
- `Init` is `relcollect_open` (with `relunicast_open` and `neighbor_add` of the node's ETH-table entry) followed by `app_process`'s `msg.seq_no = 0`.
- `app_process(n)`: one turn of the application's loop. It increments `msg.seq_no` and calls `relcollect_send(&c, current_cfg.n)`, where `relcollect_send` enqueues the packet or drops it. The sink's application never sends. The start-up delays and the `data_rate` waits are abstracted away.
- `SendTimedOut(n)` and `SendAttempt(n)`: one expiry of relunicast's ctimer, i.e. one run of `send()`. With X-MAC, `unicast_send` performs the whole strobe / strobe-ack / data / data-ack handshake before `send()` reads `xmac_got_data_ack()`. The handshake's outcome is chosen from `Outcomes`: no strobe ack, data lost, data ack lost, or acked. When the parent got the data, its `read_packet` has already sent the ack and passed the packet up, so the parent's `rel_node_packet_received` runs in the same step. The two nodes' states are disjoint, so nothing is lost by this.
- The callbacks (`FinishHead`: dequeue and `rel_send_queued_packet`) run inside the step, after `is_tx` is cleared (`TxDone`), as the code orders them.

**How the outcomes are justified.** The four `Outcomes` are what `MacUnicast` lets a MAC report to relunicast. "acked" needs the DATA passed up. "ackLost" is a nack after delivery. "nostrobe" and "datalost" are nacks without delivery, and relunicast cannot tell them apart. `XMac` checks `MacRefined`, so the X-MAC handshake gives only these reports. `MacUnicast` also allows the DATA to be passed up after the nack, and X-MAC does this when the receiver reads it later than `T_WAIT`. That happens within one on-phase, while relunicast waits `REXMIT_TIME`, at least `T_DUTY` (a whole duty cycle), before it retries. So `RelCollect` folds the late delivery into "ackLost".

**Abstractions.**
- Of the payload only `seq_no` is kept; the energest and timing fields are left out. `FORWARD_PACKET_LIFETIME` is 0, so a queued packet never expires.
- Timer values and `schedule_send`'s placement of a send around the Glossy round are abstracted to "the ctimer fires".
- The queuing statistics are data only and are left out.
- Each node has one queuebuf pool, shared by the forwarding queue and `c->buf`.
- `PACKETBUF_ATTR_MAX_REXMIT` keeps its 5-bit width at forwarders (`REXMIT_FIELD`).

**Runs.** The run `relcollect_core` uses the three-hop branch 3 → 109 → 29 → 200 of the ETH table, in which node 3 sends two packets, node 29 one and node 109 none. Two packets from the far end are the fewest that show the order in which one originator's packets arrive; two packets at every node put the run past 15 minutes. A pool of 3 queuebufs lets node 29's pool fill (its own packet and node 3's two), so a packet is dropped, and a relay can still time out. The other limits are the code's: `MAX_FORWARDING_QUEUE` 50 and a ring of 20. The run checks these properties:
- `TypeOK` includes "queuebufs in use ≤ pool".
- `ForwardingImpliesTransmitting`: `forwarding` is never left set without a transmission. `rel_send_queued_packet` ignores `relunicast_send`'s result, so this holds only because the callbacks run after `is_tx` is cleared, and because the queue stays below the pool while `c->buf` is held.
- `DeliveredInOrder`: the sink gets each originator's packets in the order they were sent, each at most once. This holds although a lost data ack makes a relay retransmit a packet its parent already has, a relay interleaves its own packets with forwarded ones, and a relay may give up on a packet its parent already holds. It rests on relunicast's stop-and-wait, the FIFO forwarding queue and the duplicate ring together.
- `NoSilentLoss`: every packet is delivered, queued, or dropped or timed out for a reason the code counts.
- `QueueDrains`: every queue eventually empties. Retransmissions are bounded, so this holds without any fairness on the link.

The model stops once every application has sent its packets and every queue is empty, so the cfg has `CHECK_DEADLOCK FALSE`. The fairness is weak fairness on each node's `send()` ctimer: an armed ctimer fires.

### `XMac` — one X-MAC handshake against a duty-cycled receiver (`xmac.c`)

This models `xmac.c` as the pTunes build compiles it: `GLOSSY` defined, `WITH_DATA_ACK` on, unicast only. One node sends (`Sender`) and one node duty-cycles (`Receiver`). Time is explicit, counted in ticks. Each timer compare is a countdown, and `Tick` advances them all. `Tick` is enabled only when no interrupt is due and no busy loop is ready to move on (`Urgent`), so interrupts fire when their compare hits.

State and code:
- `rad[n]` is the pair (`radio_is_on`, the radio's real power state), and `xmac_is_on` is the MAC's own flag. `on`/`off` are the helpers at 229-243: they act only when `xmac_is_on` holds and the flag differs.
- `fifo[n]` is the frames the radio has received and `read_packet` has not yet processed.
- The receiver has `pt`, its place in `powercycle`; `ccr3` and `ccr2`, the compare registers of the powercycle and the strobe timeout (−1 when disabled); `last_on_ago`, `was_timeout` and `in_on_phase`.
- The sender has `spc`, its place in `send_packet`'s busy loops; `train_left` and `wait_left`, the two `RTIMER_CLOCK_LT` deadlines; `got_strobe_ack` and `got_data_ack`.

Actions:
- `powercycle` is one CCR3 interrupt: the off branch, or `OnPhase`. When `xmac_is_on` is clear, CCR3 is not re-armed but stays enabled, so it fires again after a full timer wrap (`TIMER_WRAP`).
- `timeout` is the CCR2 interrupt. It re-arms CCR3 at `last_on + on_time + off_time`, which `CompareIn` wraps when that time is already past.
- `read_packet` is the whole input handler. A STROBE for us is acked only if `!was_timeout` (684), and CCR2 is armed. A DATA is passed up and acked, and the radio turned off. Anything else is dropped.
- `StartSend` to `Return` are the steps of `send_packet`'s strobe, wait and data-ack loops. Data acks are recognised by address only, as at line 593.
- `SenderInput` is `read_packet` on the sender while it is idle: a leftover ack is dropped.
- `GlossyRound` is a Glossy round on a non-sink node (`glossy_interface.h` 291-388): `rime_mac->off(0)`, timer interrupts disabled, the radio off and flushed, then `rime_mac->on()`. `turn_on` sets CCR3 to `random_rand() % off_time` or `on_time`. `turn_off(keep_radio_on)` (865-874) clears `xmac_is_on` and switches the transceiver directly, past `radio_is_on`. A round may latch a new configuration, which polls the receiver's `adaptation_process` (`adapt`).
- `set_xmac_config` is that process: `turn_off(0)`, the new times, and `turn_on()` (884-897). The times are constants of the model, so only the restart shows. It is urgent like an interrupt, because Contiki serves polled processes before the clock can move on. At the sender it runs only between two `send_packet` calls, with the radio already off, and changes nothing modelled.

`PACKETBUF_ATTR_RELIABLE` is never set in this repository, so after the strobe loop the sender turns the radio off unless a strobe was acked.

Init is the steady duty cycle, in either phase. `xmac_init` arms CCR3 for `off_time`, and the first pass of `powercycle` adds another `off_time`. So a node at boot spends two off-phases before its first on-phase. The model starts after that.

Two assumptions stand for code outside the repository (the cc2420 driver and Contiki's process scheduler):
- `READ_LATENCY` bounds how long the receiver's buffer may stay non-empty before `read_packet` runs. `unread_age` counts the ticks since the buffer last became non-empty.
- `DRAIN_BEFORE_SEND`: relunicast sends from a ctimer callback (relunicast.c:140, 213), so the process yields between two sends and pending input is read first.

Properties:
- `MacRefined`: X-MAC implements `MacUnicast` (see below). Every handshake ends in exactly one report, and a data ack is reported only if the receiver passed up this handshake's DATA. This covers the untyped test at line 593 and the `!was_timeout` test at 684. It depends on the adaptation restart being served at once. If `set_xmac_config` ran a tick late, its `turn_on` would re-arm CCR3 while the strobe timeout is pending. The on-phase would then clear `was_timeout` and ack a queued second STROBE. The sender would take that STROBE_ACK for the DATA_ACK, and TLC finds undelivered data reported as acked.
- `AckedWhenLossless`: a handshake with no lost frame, no Glossy round, and a receiver that never left a frame unread for `T_WAIT` ticks ends with the data ack. This checks the strobe train length (`2*on_time + off_time`) against the receiver's whole cycle.
- `DutyCycleResumes`: the receiver's radio is on infinitely often, whatever rounds and strobes arrive.
- `RadioFlagTracksRadio` is checked in its own run, and fails (see the finding).

### `LppNew` — receiver-initiated LPP against the sink (`lpp_new.c`)

LPP_NEW is the `MAC_PROTOCOL` whose timing the pTunes configuration sets in the `GLOSSY` build. The receiver announces itself: each on-phase of its `dutycycle` protothread (run from the CCR3 interrupt) polls `send_probe_process`, which sends a probe. A sender keeps its unicast in `buffer`, with its radio on and the CCR2 send timeout armed. When `read_packet` sees a probe from the destination, `send_data_packet` sends the DATA and busy-waits `WAIT_FOR_DATA_ACK` for the ack. The attempt ends in `remove_packet_from_buffer`, which calls relunicast's `post_send(got_data_ack)`. Three paths reach it: the end of the ack wait, `send_timeout_process` (polled by the CCR2 interrupt), and `mac_off` at a Glossy round.

The model has one sender and the sink as receiver, with explicit ticks of one clock tick (256 rtimer ticks):
- `dutycycle`, `send_probe_process` and `receiver_read_packet` are the sink's side. The sink calls `rime_mac->off(0)` at each round and turns the MAC on again only at the end of `glossy_print_report_process` (`print_report_process`).
- `send_packet`, `sender_read_packet`, `read_data_ack`, `data_ack_wait_end`, `send_timeout_isr` and `send_timeout_process` are the sender's side. `post_send` stands for relunicast's handler. `is_tx` records that relunicast waits for its report.
- `send_packet` is relunicast's ctimer event. Contiki serves polls before events, so it runs only when no poll of the sender is pending. `schedule_send` keeps it at least `SLACK_BEFORE_GLOSSY` before the next round (`SendScheduled`).
- `adaptation_process` runs `set_lpp_new_config` (`mac_off(0)`, new times, `mac_on()`) at a node whose round brought a new configuration. The times stay the model's constants, so only the restart shows.
- `GlossyRound` is `mac_off(0)` at both nodes, the flood (radios off, buffers flushed), and `mac_on` at the sender. `ttg` is `TIME_TO_GLOSSY`. It stays at `FAR` as long as it likes, then counts down. `dutycycle` disables CCR3 when the next on-phase would come too close to the round.
- `Tick` advances the timers only when nothing is due (`Urgent`). Every poll is served before the clock moves, because a process step is far shorter than a tick.

Properties:
- `MacRefined`: LPP_NEW implements `MacUnicast`. `post_send` comes exactly once per attempt, from whichever of the ack wait, the send timeout and a round's `mac_off` removes the packet first. A CCR2 interrupt during the ack wait leaves a stale poll, which only `send_timeout_process`'s `buffer.valid` test defuses. Under LPP_NEW relunicast has no timer of its own, so a missing report would stall it forever.
- `SinkDutyCycleResumes`: the sink's radio is switched on again and again, across rounds.

No lossless-ack property is checked for this build. `tx_timeout` is 2·on + off + 12 = 3801 ticks, commented "k = 1", but two probes can be on + off + `LPP_NEW_MAX_RANDOM_OFF_TIME` = 4045 ticks apart, so a unicast sent just after a probe times out with nothing lost. That is a fact of the configuration, recorded as a hazard. The same bug shape in the old LPP (a `tx_timeout` without the random adjustment) is a mutant that `Lpp`'s `AckedWhenLossless` catches.

### `MacUnicast` — what relunicast needs from a MAC

An abstract specification of one relunicast connection's view of the MAC. The MAC `Accept`s an attempt and later `Report`s it once, with an ack only after the receiver passed the DATA up (`Deliver`). It may also `Refuse` an attempt with an immediate nack. Weak fairness on `Report` says no accepted attempt stays unreported. `XMac`, `LppNew` and `Lpp` each instantiate it with a refinement mapping (`busy`, `got`, `sent`, `reports`, `last`) and check `MacRefined == Mac!Spec` as a property.

### `Lpp` — the old probe-based LPP (`lpp.c`, with `relunicast.c` and `relcollect.c`)

The non-`GLOSSY` build, where `MAC_PROTOCOL` is `LPP`. A forwarder relays its child's packets to the sink, its duty-cycled parent.

**State.**
- `fw`: the forwarder's LPP list `mq`, where each item records broadcast or unicast, its removal timer, its attempt number and its `acknowledged` flag. It also holds relcollect's forwarding queue length `fq` and `forwarding` flag, and relunicast's `is_tx`, `rxmit`, retransmission ctimer `rt` and queuebuf `buf`, plus the radio.
- The sink's radio, both nodes' duty-cycle phase `pt` and timer `dt`, and the sink's lateness `late`.
- `fifo`: the frames each radio has received and `read_packet` has not yet read.
- `lp` and `spc`: where the forwarder is in `read_packet`'s probe loop and `send_packet_to_radio`'s ack wait.
- History variables: `sends`, `reports`, `outcome`, `delivered`, `clean` (no frame lost in this attempt), and `shadowed` (a broadcast went out just before the unicast).

**Actions.**
- `dutycycle_on` / `dutycycle_off`: the two phases of `dutycycle`. The sink subtracts its lateness from the off timer, modulo 65536.
- `send_attempt` / `send_timedout`: relunicast's `send()`. `send_attempt` calls `send_packet`, which may be refused when memb or queuebuf is exhausted; no `post_send` follows a refusal.
- `fwd_read_probe`, `probe_loop_send`, `probe_loop_end`, `ack_wait_read`, `ack_wait_end`: `read_packet` on a probe from the sink. It sends every queued packet for the sink, broadcasts first, and waits for the ack after the unicast.
- `removal_timer(i)`: the removal ctimer, running `remove_queued_packet`. So does the end of a unicast's ack wait. This calls `post_send` and then `rel_send_queued_packet`.
- `fwd_read_data` (the child's DATA into the forwarding queue) and `sink_read_packet` (the sink acks, passes the DATA up, and turns its radio off).
- Environment: the child sends, a broadcast is queued, or `set_lpp_config` restarts a node's duty cycle.

**Properties.**
- `MacRefined`: LPP implements `MacUnicast`. A refused attempt has no report, so it maps to a stuttering step. `remove_queued_packet` reports the item's `acknowledged` (set only by a matching ACK in the wait, lpp.c:582), not the global `got_data_ack`. So the property rests on which ACK the forwarder accepts. The sink must ack only unicast DATA (lpp.c:682): if it also acked a broadcast, a forwarder whose unicast was lost would take the broadcast's ACK for its own, and TLC finds undelivered data reported as acked.
- `AckedWhenLossless`: an attempt with no frame lost and no broadcast sent just before it is acked. This checks `tx_timeout` = 2·on + off + 3 against the sink's probe gap, including the sink's lateness correction.
- `RadioOnWhileQueued`: the forwarder's radio is on whenever LPP's list is non-empty.
- `DrainsUnlessWedged`: the forwarding queue eventually empties unless the forwarder is `Wedged`.

**Observations.** TLC reaches two behaviours that are recorded as hazards:
- **Wedge.** A child packet can take the last queuebuf between a nack and the retransmission. `send_packet` then returns 0 without `post_send`, and relunicast, which has no timer of its own under LPP, stays `is_tx` for good. `Wedged` names this state, and `DrainsUnlessWedged` shows it is the only way the queue stops.
- **Broadcast shadowing.** The probe loop sends a broadcast and the unicast back to back. The sink reads the broadcast, turns its radio off, and misses the unicast. Without the `shadowed` premise, `AckedWhenLossless` fails.

### `FTSP` — flooding time synchronisation (`ftsp.c`)

FTSP is compiled only in the build without Glossy (`contiki-conf.h`: `WITH_FTSP 1` when `GLOSSY` is 0). Nothing in the repository calls `ftsp_set_mode` or `ftsp_send`, so every node stays in timer mode. Each node runs three Contiki processes, and `ftsp_recv` is its broadcast callback. Each process step runs to completion, so each is one action:
- `msg_send(n)`: the beacon etimer of `ftsp_process` expires. A node that knows a root, is not sending, and is the root or has `ENTRY_SEND_LIMIT` entries sets `STATE_SENDING` and posts `send_ready`. The other branch only counts `heart_beats`, which nothing reads effectively (see below).
- `SendProcess(n)`: `ftsp_send_process` broadcasts `msg` with `seq_num`. The root increments `seq_num` only when `broadcast_send` succeeds. Any neighbour may miss the frame.
- `ftsp_recv(n, m)`: `packetbuf_copyto(&msg_rcv)` runs first and overwrites `root_id`, `node_id` and the global time. Only when `STATE_PROCESSING` is clear are the sequence number and arrival time also taken and `msg_ready` posted.
- `process_msg(n)`: `ftsp_msg_process` runs `process_msg`:
  - The beacon is accepted from a lower root, or from the same root with `(int8_t)(seq - seq_num) > 0` (`Accepts`).
  - `add_new_entry` then checks the time error, but only when the node is synced. The fourth outlier in a row runs `clear_table`, and the sample is stored anyway.
  - Entries older than `0x7FFFFFFF` ticks are emptied, and the sample goes into a free slot or the oldest one.
  - `calculate_conversion` sets `num_entries`.

Clock values are abstracted away. A table entry keeps the root sequence number it samples, and whether its global and local times came from different beacons. Whether a sample is an outlier, and whether old entries age out, are environment choices, each with a budget. The regression itself (averages, skew, `local_to_global`) is not modelled.

`IGNORE_ROOT_MSG`: the test `~((heart_beats < IGNORE_ROOT_MSG) && (msg.root_id == node_id))` applies a bitwise `~` to 0 or 1 and is never false. The model keeps it as the constant it evaluates to (`IgnoreRootGuard`). It is harmless here, because only `SINK_ID` ever declares itself root: the root timeout is commented out.

A beacon is assumed to be delivered or lost before its sender's next beacon, 60 s later (`Delivered`).

Properties:
- `SamplesInBeaconOrder`: each table holds samples of distinct root beacons, in the order the root sent them. Forwarders repeat their last number every period, and beacons from several senders arrive in any order.
- `NoBeaconFromFuture`: every synced node's `seq_num` is older than the root's next number, because the beacon is stamped before the root increments.
- `TableEntriesUntorn` fails (`ftsp_torn`): node 29 buffers the root's beacon, node 3's beacon arrives before `ftsp_msg_process` runs, and the stored entry pairs the root beacon's arrival time with node 3's global time. The `PRINTF` in that branch calls the second beacon "ignored".

No liveness property is checked. A beacon that arrives while one is pending is dropped. Since `etimer_reset` keeps each node's beacon phase, whether a node can be starved of new samples depends on clock drift, which the model does not represent.

## Runs

| Run | Config | Expect | What it shows |
|---|---|---|---|
| glossy_core | `MCGlossy.cfg` | pass | See the list below the table. |
| glossy_payload | `MCGlossy_payload.cfg` | violation | A receiver stopped between its first reception and its first relay returns `rx_cnt = 1` with the payload never copied (`memcpy` only in `glossy_begin_tx`). |
| scheduler_core | `MCGlossyScheduler.cfg` | pass | The skew used after bootstrap is always measured over exactly one period, despite missed floods and restarts. Every configuration update eventually reaches the sink's latch, although the dissemination process can only proceed while Glossy is off. |
| scheduler_torn | `MCGlossyScheduler_torn.cfg` | violation | A flood between `seq_no++` and the value copy gives receivers the new sequence number with old values, permanently. |
| scheduler_lost | `MCGlossyScheduler_lost.cfg` | violation | A second UART line is overwritten in `new_cfg` by the round-end latch and never flooded. |
| relcollect_core | `MCRelCollect.cfg` | pass | See the `RelCollect` section: pool bound, forwarding flag, in-order delivery at most once, no silent loss, routes kept, queues drain. |
| xmac_core | `MCXMac.cfg` | pass | See the `XMac` section: it refines `MacUnicast`, a lossless timely handshake is acked, the duty cycle resumes. |
| ftsp_core | `MCFTSP.cfg` | pass | See the `FTSP` section: tables sample distinct root beacons in order, and no node is ahead of the root. |
| ftsp_torn | `MCFTSP_torn.cfg` | violation | A beacon arriving while another is pending overwrites the buffered global time, and a table entry pairs two beacons' times. |
| lpp_core | `MCLppNew.cfg` | pass | See the `LppNew` section: it refines `MacUnicast`: each unicast attempt is reported to relunicast exactly once and eventually, and the sink's duty cycle resumes after every round. |
| lpp_old_core | `MCLpp.cfg` | pass | See the `Lpp` section: the old LPP refines `MacUnicast`, a lossless unshadowed attempt is acked, the radio stays on while packets are queued, and the forwarding queue drains unless the queuebuf pool wedges relunicast. |
| xmac_radio_flag | `MCXMacFlag.cfg` | violation | A Glossy round in the receiver's on-phase turns the radio off behind `radio_is_on`. In the next on-phase `on()` sees the flag set and leaves the radio off, so the receiver is deaf for that phase. |

The glossy_core run shows that, over every interleaving of interrupts, frames, timeouts and stops:
- a receiver never transmits more than `tx_max` times;
- a sync session computes its reference point exactly once, and the flag says so;
- slot-length samples always come from one rx-tx-rx hop of the current session;
- the radio never transmits when the engine does not expect it.

Each violation run is a finding in `PROJECT.json`. Each property of a passing run has a mutant: a plausible bug in the code it covers, which TLC shows violates it.

## Bounds

**`MCGlossy`.**
- `tx_max` ∈ {1, 2}. With 2, a receiver relays twice and an initiator retransmits.
- A payload of 6 bytes, as both of pTunes' payload structs have, so `packet_len` is 10 and the header is checked. `HeaderChecked` states the spec's rule for shorter frames. No run checks it, because pTunes never floods them.
- All four initiator/sync modes.
- Relay counters {0, 1, 2, 3, 199, 255}. These reach the normal hops, the 200 cutoff, and the wrap from 255 to 0.
- One session at a time is enough, because the engine holds one. Sessions follow each other without bound, so stale state across sessions is explored.

**`MCGlossyScheduler`.**
- One sink and one receiver.
- `N_NODES = 2`: the second `schedule[]` entry names an absent node, as the ETHZ schedule does for ids 101-109. This exercises both the gap and the round-end branch of the report loop.
- At most two UART updates (`MaxUpdates`), so that an update can overtake another.
- `MaxMisses`, the bound on consecutive missed floods, is 2. The `uint8_t` wrap of `sync_missed` needs 256, which TLC reaches (`GuardNeverShrinksWhileMissing` fails) but too slowly for a standing run; it is kept as a hazard. `SinkAdoptsFloodedConfig` likewise fails under these bounds and is kept as a hazard, since `scheduler_lost` checks the same window.

Every interleaving of floods lost, copied or synchronised is explored within these bounds.

**`MCXMac`.**
- `on_time` 3 and `off_time` 7 ticks. The strobe train is then 13 ticks, `STROBE_WAIT` and `T_WAIT` are 2, and the strobe timeout is 4. These keep the code's ratios: the train outlasts a whole cycle, and the timeout is shorter than the off-phase. With `off_time` 6 the timeout's compare at line 253 could fall in the past, which at the real constants needs a delay of several ms.
- `TIMER_WRAP` 12 stands for the 16-bit timer's period. It only has to be longer than any other wait.
- Two sends, so a second handshake meets the first one's leftovers. At most one frame is lost per handshake, and there are at most two Glossy rounds of 3 ticks. Each round may latch a new configuration, after which the receiver's `set_xmac_config` restarts its MAC. Two rounds let a round, the restart it triggers and a second round all fall within one handshake or its aftermath. A third send as well takes the run past a minute, with each mutant run as long, and adds only a third handshake meeting the same leftovers.
- `READ_LATENCY` 2 equals `T_WAIT`, so a data ack can come too late. `AckedWhenLossless` excludes exactly those handshakes (`slow_in_hs`).

**`MCFTSP`.**
- A chain 200 — 29 — 3, with the sink as root. Node 3 hears the root only through node 29, and node 29 hears two senders.
- The code's table limits: 8 entries, 4 to be synced and 3 to send.
- Seven root beacons (`MaxBeacons`). That is the fewest after which node 3 has the entries it needs to send, so node 29 can hold two senders' beacons at once. The cap stays below the 128-beacon window of the 8-bit sequence number. It also ends the model, so the cfg has `CHECK_DEADLOCK FALSE`.
- One lost frame or failed send, and one aging of old entries.
- No outliers (`MaxOutliers` 0): a clear needs four in a row, and that many put the run past the time limit. The counting of outliers is listed as a hazard.

**`MCLppNew`.**
- The `GLOSSY` build's `MAC_CONF 1` constants in clock ticks: on 1, off 13, random extension 0-2, `tx_timeout` 15, ack wait 1. `SLACK_BEFORE_GLOSSY` is 3801 div 256 + 2 = 16, less one tick for the ctimer's phase.
- `FAR` is 30, beyond the 2·off + random + on = 29 at which `dutycycle` looks ahead.
- Three send attempts, two lost frames, and one Glossy round of one tick. Two losses let a retransmission follow a lost probe or a lost ack. The round lets the sink's restart follow a send.

**`MCLpp`.**
- on_time 1 and off_time 3 ticks, so `tx_timeout` is 8 and `T_DUTY` 4. An off_time of 4 already takes the run to four minutes. The ratios that matter are kept: `tx_timeout` covers a whole cycle plus the adjustment, and the retransmission delay exceeds a cycle.
- One retransmission (`MAX_RXMIT` 1), and two child packets.
- A pool of 4 queuebufs, so `MAX_QUEUED_PACKETS` is 2 and the pool can run out. This is what reaches the wedge.
- One broadcast, one lost frame, one reconfiguration, and a sink lateness of at most 1 tick.

**Not modelled in `XMac`.**

- Broadcast, the sender's own duty cycle, the non-`GLOSSY` path, and configurations with different times (`set_xmac_config` restarts the MAC with the same ones). The sender is awake throughout its send.
- At boot, the double off-phase described above.

## Fairness

The scheduler's steps are rtimer interrupts, which fire on time, so each `SchedulerStep(n)` has weak fairness. So do `NewPeriod` (time passes), `Adapt` (a polled process runs) and `DisseminateValues`, which has no guard.

`DisseminateSeqNo` is enabled only while Glossy is off. The process waits in a `PROCESS_PAUSE` loop that Contiki's scheduler re-runs forever, so the step is enabled infinitely often. It gets strong fairness.

The engine model has no liveness property and no fairness.

In `XMac`, `Tick`, `powercycle`, `timeout`, `read_packet`, `set_xmac_config`, the sender's steps and `SenderInput` have weak fairness. Interrupts fire when they are due, busy loops spin, and the driver's process is scheduled. `GlossyRound` and `StartSend` have none: rounds and sends need not happen.

In `LppNew`, `Tick`, `GlossyRound`, the sink's steps, the sender's steps and the print process have weak fairness. Interrupts fire when due, polled processes run, and the round comes once its time has come. `send_packet` has none: relunicast need not send.

In `Lpp`, every system step is weakly fair: ctimers fire and received frames are read. The child's packets, broadcasts and reconfigurations have no fairness, since they need not happen.

## Not modelled (yet), and the plan

The following parts are not modelled yet:
- In `lpp.c`: the forwarder's own probes, the sink's broadcasts, the PRR counters, announcements and `listen_callback`. X-MAC, LPP_NEW and LPP are modelled for one sender and one receiver. `RelCollect` still takes one handshake's outcome as a single step.
- In `LppNew`: broadcasts and the `EXCLUDE_TRICKLE_ENERGY` replacement of a buffered broadcast, the sender's own duty cycle (it only decides whether the radio stays on after a remove), the PRR counters, and configurations with different times.
- FTSP's clock arithmetic (see the `FTSP` section).

The hazards these parts carry are listed in `PROJECT.json`.

The plan for later work, in order:
1. A multi-node flood that composes `Glossy` instances over a shared medium. It will refine an abstract flood specification: each node receives the packet at most once per relay and stops after `tx_max`.
2. FTSP with outliers, in a smaller topology, to check `clear_table`'s counting.

Also left out, on purpose:
- Interrupt masking inside `glossy_start` (`glossy_disable_other_interrupts`).
- DCO calibration and energest accounting.
- The print processes, `change_data_rate_process` (it only changes `app_process`'s wait) and the energest figures in each packet.
- Heap exhaustion at `malloc` (glossy.c:270).
- The UART parser's `strncpy` into a 10-byte buffer.
- Node reboots. Nothing in relcollect survives one, and no code handles one. A rebooted node restarts its packet ids at 1 (`relcollect_open`), and its parent's duplicate ring still holds the old ids, so the first new packets are acked and then dropped. A scratch variant of `RelCollect` with one reboot of node 3 reaches this in 7 steps. With the run cap reached, it is recorded as a hazard, not a run.
- FTSP liveness. Under the bounds, a node that misses beacons may never reach `ENTRY_SEND_LIMIT` entries, so "eventually synchronised" does not hold by configuration and is not stated.
