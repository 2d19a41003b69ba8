-------------------------- MODULE GlossyScheduler --------------------------
(***************************************************************************)
(* The Glossy round scheduler of apps/adaptive-mac/glossy_interface.h:    *)
(* the protothread glossy_scheduler of the sink and of every other node,  *)
(* estimate_period_skew, the configuration latch at the end of a round,   *)
(* and the two processes that share the configuration with it: the sink's *)
(* dissemination_process, which writes a configuration read from the UART *)
(* into glossy_config_data, and every node's adaptation_process, which    *)
(* applies new_cfg (adaptive-mac.lifetime_gain.c).                         *)
(*                                                                         *)
(* Each action is one resumption of the protothread, from one PT_YIELD to *)
(* the next, with the flood engine reduced to the outcome glossy_stop      *)
(* reports: whether the flood was received, whether its payload reached   *)
(* the buffer, whether a reference point was taken (is_t_ref_l_updated).  *)
(* Clock values are abstracted away; the periods are kept as a barrier:   *)
(* a node wakes for period p+1 only after every node has ended period p.  *)
(* The values of a configuration (t_l, t_s, n) are one number: the values *)
(* of the k-th line read from the UART are k, those of current_cfg at boot *)
(* are 0.  glossy_config_data is a sequence number and such a value; with  *)
(* every update flooded, sequence number k carries the values k.           *)
(***************************************************************************)
EXTENDS Integers, Sequences, FiniteSets

CONSTANTS
  Sink,          \* the node with address SINK_ID
  Receivers,     \* every other node
  N_NODES,       \* report phases per round (entries of schedule[])
  MaxUpdates,    \* bound on configuration updates arriving on the UART
  MaxMisses      \* bound on consecutive floods a bootstrapped node misses

ASSUME Sink \notin Receivers
ASSUME N_NODES \in Nat \ {0}
ASSUME MaxUpdates \in Nat /\ MaxMisses \in Nat

Nodes == {Sink} \cup Receivers
GLOSSY_BOOTSTRAP_PERIODS == 3
Uint8 == 256

Values == 0..MaxUpdates
Configs == [seq : 0..Uint8 - 1, val : Values]
NoConfig == [seq |-> -1, val |-> -1]
InitConfig == [seq |-> 0, val |-> 0]

VARIABLES
  pc,               \* where each protothread yielded
  report_idx,
  skew_estimated,
  sync_missed,      \* uint8_t
  synced,           \* is_t_ref_l_updated() as the scheduler sees it
  glossy_config_data,
  config_seq_no,
  new_cfg,
  current_cfg,
  adapt_polled,     \* adaptation_process has been polled
  dissem,           \* dissemination_process: "idle", "pending", "seq_done"
  uart_updates,     \* configurations read from the UART so far
  flooded,          \* the configuration the sink floods this period
  woke, ended,      \* nodes that woke for / ended the current period
  \* history variables
  old_age,          \* periods since t_ref_l_old was taken (2: two or more)
  skew_gap,         \* periods between the references of the last skew
  real_sync,        \* the last config flood really gave a reference
  prev_missed       \* the config flood before the last one gave none

sched == <<pc, report_idx, skew_estimated, sync_missed, synced>>
cfg == <<glossy_config_data, config_seq_no, new_cfg, current_cfg,
         adapt_polled, dissem, uart_updates>>
period == <<flooded, woke, ended>>
ghost == <<old_age, skew_gap, real_sync, prev_missed>>
vars == <<sched, cfg, period, ghost>>

GLOSSY_IS_BOOTSTRAPPING(n) == skew_estimated[n] < GLOSSY_BOOTSTRAP_PERIODS
GLOSSY_IS_ON(n) == pc[n] \in {"config", "report"}

-----------------------------------------------------------------------------
(* The configuration latch: a sequence number in glossy_config_data that  *)
(* differs from config_seq_no is latched with its values into new_cfg and  *)
(* adaptation_process is polled.                                           *)
(* Mutation: config_seq_no not updated.                                     *)
LatchConfig_no_seq(n, data) ==
  IF data.seq # config_seq_no[n]
    THEN /\ new_cfg' = [new_cfg EXCEPT ![n] = data.val]
         /\ adapt_polled' = [adapt_polled EXCEPT ![n] = TRUE]
         /\ UNCHANGED config_seq_no
    ELSE UNCHANGED <<config_seq_no, new_cfg, adapt_polled>>

LatchConfig(n, data) ==
  IF data.seq # config_seq_no[n]
    THEN /\ config_seq_no' = [config_seq_no EXCEPT ![n] = data.seq]
         /\ new_cfg' = [new_cfg EXCEPT ![n] = data.val]
         /\ adapt_polled' = [adapt_polled EXCEPT ![n] = TRUE]
    ELSE UNCHANGED <<config_seq_no, new_cfg, adapt_polled>>

(* estimate_period_skew and the configuration latch that end every round. *)
(* With a reference this period, period_skew is taken against            *)
(* t_ref_l_old, which then moves to the new reference; during bootstrap   *)
(* the count est of references grows.  A sequence number that differs from   *)
(* the latched one is latched with its values and the adaptation process  *)
(* is polled.                                                              *)
RoundEnd(n, sy, est, data) ==
  /\ skew_estimated' = [skew_estimated EXCEPT ![n] =
       IF sy /\ est < GLOSSY_BOOTSTRAP_PERIODS THEN est + 1 ELSE est]
  /\ IF sy
       THEN /\ skew_gap' = [skew_gap EXCEPT ![n] = old_age[n]]
            /\ old_age' = [old_age EXCEPT ![n] = 0]
       ELSE UNCHANGED <<skew_gap, old_age>>
  /\ LatchConfig(n, data)
  /\ pc' = [pc EXCEPT ![n] = "sleep"]
  /\ ended' = ended \cup {n}

(* The period's first resumption: MAC off, other interrupts off,           *)
(* glossy_start of the config flood.  The sink is its initiator and floods *)
(* what glossy_config_data holds now; the others receive with sync on.     *)
(* Either way glossy_start clears t_ref_l_updated.                         *)
Wake(n) ==
  /\ pc[n] = "sleep" /\ n \notin woke
  /\ pc' = [pc EXCEPT ![n] = "config"]
  /\ woke' = woke \cup {n}
  /\ synced' = [synced EXCEPT ![n] = FALSE]
  /\ flooded' = IF n = Sink THEN glossy_config_data[Sink] ELSE flooded
  /\ UNCHANGED <<report_idx, skew_estimated, sync_missed, cfg, ended, ghost>>

(* Sink, after the config flood: glossy_stop.  Bootstrapped, a flood       *)
(* without reference advances the reference by GLOSSY_PERIOD, and the      *)
(* report phases follow; bootstrapping, the round ends here.               *)
SinkConfigEnd ==
  /\ pc[Sink] = "config"
  /\ \E sy \in BOOLEAN :
       /\ real_sync' = [real_sync EXCEPT ![Sink] = sy]
       /\ IF GLOSSY_IS_BOOTSTRAPPING(Sink)
            THEN /\ synced' = [synced EXCEPT ![Sink] = sy]
                 /\ RoundEnd(Sink, sy, skew_estimated[Sink], glossy_config_data[Sink])
                 /\ UNCHANGED report_idx
            ELSE /\ synced' = [synced EXCEPT ![Sink] = TRUE]
                 /\ pc' = [pc EXCEPT ![Sink] = "gap"]
                 /\ report_idx' = [report_idx EXCEPT ![Sink] = 0]
                 /\ UNCHANGED <<skew_estimated, config_seq_no, new_cfg,
                                adapt_polled, ended, old_age, skew_gap>>
  /\ UNCHANGED <<sync_missed, glossy_config_data, current_cfg, dissem,
                 uart_updates, flooded, woke, prev_missed>>

(* A bootstrapping receiver whose config flood gave no reference restarts *)
(* the count of references (skew_estimated = 0).                           *)
(* Mutation: the count kept.                                                *)
BootstrapCount_no_reset(n, sy) == skew_estimated[n]

BootstrapCount(n, sy) == IF sy THEN skew_estimated[n] ELSE 0

(* Receiver, after the config flood: glossy_stop.  The flood may be       *)
(* missed; when received, the payload reaches glossy_config_data unless   *)
(* the stop came before the first relay, and a reference point may have   *)
(* been taken.  Bootstrapping, a flood without reference restarts the     *)
(* count and the round ends; bootstrapped, a flood without reference      *)
(* extrapolates the reference (t_ref_l + GLOSSY_PERIOD + period_skew) and *)
(* counts a missed sync, a flood with one resets the count, and the       *)
(* report phases follow.                                                   *)
ReceiverConfigEnd(n) ==
  /\ n \in Receivers /\ pc[n] = "config"
  /\ \E heard, copied, sy \in BOOLEAN :
       /\ heard => flooded # NoConfig
       /\ copied => heard
       /\ sy => copied
       /\ ~sy /\ ~GLOSSY_IS_BOOTSTRAPPING(n) => sync_missed[n] < MaxMisses
       /\ LET data == IF copied THEN flooded ELSE glossy_config_data[n] IN
          /\ glossy_config_data' = [glossy_config_data EXCEPT ![n] = data]
          /\ real_sync' = [real_sync EXCEPT ![n] = sy]
          /\ IF GLOSSY_IS_BOOTSTRAPPING(n)
               THEN /\ synced' = [synced EXCEPT ![n] = sy]
                    /\ RoundEnd(n, sy, BootstrapCount(n, sy), data)
                    /\ UNCHANGED <<report_idx, sync_missed, prev_missed>>
               ELSE /\ synced' = [synced EXCEPT ![n] = TRUE]
                    /\ sync_missed' = [sync_missed EXCEPT ![n] =
                         IF sy THEN 0 ELSE (@ + 1) % Uint8]
                    /\ prev_missed' = [prev_missed EXCEPT ![n] = ~real_sync[n]]
                    /\ pc' = [pc EXCEPT ![n] = "gap"]
                    /\ report_idx' = [report_idx EXCEPT ![n] = 0]
                    /\ UNCHANGED <<skew_estimated, config_seq_no, new_cfg,
                                   adapt_polled, ended, old_age, skew_gap>>
  /\ UNCHANGED <<current_cfg, dissem, uart_updates, flooded, woke>>

(* The timer reaches report phase report_idx: glossy_start of a report    *)
(* flood (initiator iff schedule[report_idx] is this node, no sync).       *)
ReportStart(n) ==
  /\ pc[n] = "gap"
  /\ pc' = [pc EXCEPT ![n] = "report"]
  /\ UNCHANGED <<report_idx, skew_estimated, sync_missed, synced, cfg,
                 period, ghost>>

(* The report flood's duration is over: glossy_stop; the next phase, or   *)
(* the end of the round after the last one.                                *)
(* Mutation: the loop bound compared with <=.                              *)
ReportEnd_le(n) ==
  /\ pc[n] = "report"
  /\ report_idx' = [report_idx EXCEPT ![n] = @ + 1]
  /\ IF report_idx[n] + 1 <= N_NODES
       THEN /\ pc' = [pc EXCEPT ![n] = "gap"]
            /\ UNCHANGED <<skew_estimated, config_seq_no, new_cfg,
                           adapt_polled, ended, old_age, skew_gap>>
       ELSE RoundEnd(n, synced[n], skew_estimated[n], glossy_config_data[n])
  /\ UNCHANGED <<sync_missed, synced, glossy_config_data, current_cfg,
                 dissem, uart_updates, flooded, woke, real_sync, prev_missed>>

ReportEnd(n) ==
  /\ pc[n] = "report"
  /\ report_idx' = [report_idx EXCEPT ![n] = @ + 1]
  /\ IF report_idx[n] + 1 < N_NODES
       THEN /\ pc' = [pc EXCEPT ![n] = "gap"]
            /\ UNCHANGED <<skew_estimated, config_seq_no, new_cfg,
                           adapt_polled, ended, old_age, skew_gap>>
       ELSE RoundEnd(n, synced[n], skew_estimated[n], glossy_config_data[n])
  /\ UNCHANGED <<sync_missed, synced, glossy_config_data, current_cfg,
                 dissem, uart_updates, flooded, woke, real_sync, prev_missed>>

-----------------------------------------------------------------------------
(* dissemination_process at the sink: a configuration line arrives on the *)
(* UART and is parsed into new_cfg, the variable the round-end latch also *)
(* writes; once Glossy is off, the sequence number of glossy_config_data  *)
(* is incremented and then new_cfg is copied into it, in separate         *)
(* statements that the timer interrupt running glossy_scheduler can       *)
(* preempt.                                                                 *)
UartLine ==
  /\ dissem = "idle" /\ uart_updates < MaxUpdates
  /\ dissem' = "pending"
  /\ uart_updates' = uart_updates + 1
  /\ new_cfg' = [new_cfg EXCEPT ![Sink] = uart_updates + 1]
  /\ UNCHANGED <<sched, glossy_config_data, config_seq_no, current_cfg,
                 adapt_polled, period, ghost>>

DisseminateSeqNo ==
  /\ dissem = "pending" /\ ~GLOSSY_IS_ON(Sink)
  /\ glossy_config_data' = [glossy_config_data EXCEPT ![Sink].seq = (@ + 1) % Uint8]
  /\ dissem' = "seq_done"
  /\ UNCHANGED <<sched, config_seq_no, new_cfg, current_cfg, adapt_polled,
                 uart_updates, period, ghost>>

DisseminateValues ==
  /\ dissem = "seq_done"
  /\ glossy_config_data' = [glossy_config_data EXCEPT ![Sink].val = new_cfg[Sink]]
  /\ dissem' = "idle"
  /\ UNCHANGED <<sched, config_seq_no, new_cfg, current_cfg, adapt_polled,
                 uart_updates, period, ghost>>

(* adaptation_process: applies new_cfg to the MAC and to current_cfg.      *)
Adapt(n) ==
  /\ adapt_polled[n]
  /\ current_cfg' = [current_cfg EXCEPT ![n] = new_cfg[n]]
  /\ adapt_polled' = [adapt_polled EXCEPT ![n] = FALSE]
  /\ UNCHANGED <<sched, glossy_config_data, config_seq_no, new_cfg, dissem,
                 uart_updates, period, ghost>>

(* GLOSSY_PERIOD elapses once every node has ended its round.              *)
NewPeriod ==
  /\ ended = Nodes
  /\ woke' = {} /\ ended' = {} /\ flooded' = NoConfig
  /\ old_age' = [n \in Nodes |-> IF old_age[n] < 2 THEN old_age[n] + 1 ELSE 2]
  /\ UNCHANGED <<sched, cfg, skew_gap, real_sync, prev_missed>>

-----------------------------------------------------------------------------
Init ==
  /\ pc = [n \in Nodes |-> "sleep"]
  /\ report_idx = [n \in Nodes |-> 0]
  /\ skew_estimated = [n \in Nodes |-> 0]
  /\ sync_missed = [n \in Nodes |-> 0]
  /\ synced = [n \in Nodes |-> FALSE]
  /\ glossy_config_data = [n \in Nodes |-> InitConfig]
  /\ config_seq_no = [n \in Nodes |-> 0]
  /\ new_cfg = [n \in Nodes |-> 0]
  /\ current_cfg = [n \in Nodes |-> 0]
  /\ adapt_polled = [n \in Nodes |-> FALSE]
  /\ dissem = "idle" /\ uart_updates = 0
  /\ flooded = NoConfig /\ woke = {} /\ ended = {}
  /\ old_age = [n \in Nodes |-> 2]
  /\ skew_gap = [n \in Nodes |-> 2]
  /\ real_sync = [n \in Nodes |-> FALSE]
  /\ prev_missed = [n \in Nodes |-> FALSE]

SchedulerStep(n) ==
  \/ Wake(n)
  \/ n = Sink /\ SinkConfigEnd
  \/ ReceiverConfigEnd(n)
  \/ ReportStart(n)
  \/ ReportEnd(n)

Next ==
  \/ \E n \in Nodes : SchedulerStep(n) \/ Adapt(n)
  \/ UartLine \/ DisseminateSeqNo \/ DisseminateValues
  \/ NewPeriod

(* The timer interrupts that resume the protothreads always come, and    *)
(* time passes.  Contiki's event loop resumes a paused process again and  *)
(* again, and Glossy is off for most of every period, so the update that  *)
(* waits for Glossy to be off is taken (strong fairness); a polled        *)
(* process runs.                                                            *)
Fairness ==
  /\ \A n \in Nodes : WF_vars(SchedulerStep(n)) /\ WF_vars(Adapt(n))
  /\ WF_vars(NewPeriod)
  /\ SF_vars(DisseminateSeqNo) /\ WF_vars(DisseminateValues)

Spec == Init /\ [][Next]_vars /\ Fairness

-----------------------------------------------------------------------------
(* Every variable keeps the range of its C type and of the protothread.   *)
TypeOK ==
  /\ pc \in [Nodes -> {"sleep", "config", "gap", "report"}]
  /\ report_idx \in [Nodes -> 0..N_NODES]
  /\ skew_estimated \in [Nodes -> 0..GLOSSY_BOOTSTRAP_PERIODS]
  /\ sync_missed \in [Nodes -> 0..Uint8 - 1]
  /\ synced \in [Nodes -> BOOLEAN]
  /\ glossy_config_data \in [Nodes -> Configs]
  /\ config_seq_no \in [Nodes -> 0..Uint8 - 1]
  /\ new_cfg \in [Nodes -> Values] /\ current_cfg \in [Nodes -> Values]
  /\ adapt_polled \in [Nodes -> BOOLEAN]
  /\ dissem \in {"idle", "pending", "seq_done"}
  /\ uart_updates \in 0..MaxUpdates
  /\ flooded \in Configs \cup {NoConfig}
  /\ woke \subseteq Nodes /\ ended \subseteq woke

(* Bootstrap (skew_estimated < GLOSSY_BOOTSTRAP_PERIODS) must leave a     *)
(* receiver with a period_skew measured between the references of two    *)
(* consecutive periods: from the second reference on, estimate_period_skew *)
(* never measures across a period whose flood gave no reference, which is *)
(* what the reset of skew_estimated on an unsynchronised bootstrap round  *)
(* is for.  The wake-up of the next period is computed from that skew.    *)
BootstrapSkewFromConsecutivePeriods ==
  \A n \in Receivers : skew_estimated[n] >= 2 => skew_gap[n] = 1

(* Every configuration line the sink reads from the UART is eventually    *)
(* latched by the sink's own round end (config_seq_no), although the      *)
(* dissemination process may only write it while Glossy is off.           *)
SinkLatchesEveryUpdate ==
  \A k \in 1..MaxUpdates : uart_updates = k ~> config_seq_no[Sink] >= k

(* The guard time (GLOSSY_GUARD_TIME * (1 + sync_missed)) is widened only *)
(* after two consecutive config floods without a reference.               *)
GuardGrowsOnlyAfterTwoMisses ==
  \A n \in Receivers : sync_missed[n] > 0 => prev_missed[n]

(* While a bootstrapped receiver keeps missing the sink's floods, its     *)
(* guard time never shrinks: sync_missed only decreases on a flood that   *)
(* really gave a reference.                                                *)
GuardNeverShrinksWhileMissing ==
  [][\A n \in Receivers :
       sync_missed'[n] < sync_missed[n] => real_sync'[n]]_vars

(* Every node other than the sink latches (and hands to                   *)
(* adaptation_process) the values of the UART line its latched sequence   *)
(* number counts; it re-latches only on a new sequence number, so a wrong  *)
(* pairing is never repaired.                                               *)
ReceiverConfigIntact ==
  \A n \in Receivers : new_cfg[n] = config_seq_no[n]

(* The values of the last configuration line read from the UART are       *)
(* eventually flooded to the network.                                      *)
LastUpdateFlooded ==
  uart_updates = MaxUpdates ~> flooded.val = MaxUpdates

(* The sink latches only the configuration it flooded in this period, so *)
(* it never switches its MAC parameters before the other nodes can.      *)
SinkAdoptsFloodedConfig ==
  [][config_seq_no'[Sink] # config_seq_no[Sink] =>
       [seq |-> config_seq_no'[Sink], val |-> new_cfg'[Sink]] = flooded]_vars

=============================================================================
