-------------------------------- MODULE FTSP --------------------------------
(***************************************************************************)
(* The flooding time synchronisation protocol of ftsp.c, as compiled in    *)
(* the non-Glossy build (contiki-conf.h: WITH_FTSP 1, timer mode only).    *)
(*                                                                         *)
(* Every node runs three Contiki processes: ftsp_process, whose beacon     *)
(* etimer calls msg_send; ftsp_send_process, which broadcasts on           *)
(* send_ready; and ftsp_msg_process, which runs process_msg on msg_ready.  *)
(* ftsp_recv is the broadcast callback.  Each runs to completion, so each  *)
(* is one atomic action.                                                   *)
(*                                                                         *)
(* Clock values are abstracted away.  A message's global time is known by  *)
(* the node that stamped it; msg_rcv.node_id stands for the sender of the  *)
(* global time the buffer holds and lt_from for the sender whose arrival   *)
(* set msg_rcv.local_time.  A table entry keeps the root sequence number   *)
(* it samples and whether its two times come from different messages.     *)
(* Whether a sample's time error exceeds ENTRY_THROWOUT_LIMIT, and whether *)
(* an entry has aged past 0x7FFFFFFF ticks, are choices of the             *)
(* environment, each with a budget.                                        *)
(***************************************************************************)
EXTENDS Integers, Sequences, FiniteSets

CONSTANTS
  Nodes,              \* node ids
  SINK_ID,            \* the node that declares itself root (ftsp_init)
  Nbrs(_),            \* radio neighbours of a node
  MAX_ENTRIES,        \* regression table size
  ENTRY_VALID_LIMIT,  \* entries needed to be synced
  ENTRY_SEND_LIMIT,   \* entries needed to send beacons
  MaxLoss,            \* total beacon receptions lost or sends failed
  MaxOutliers,        \* total samples with a time error above the limit
  MaxStale,           \* total times entries age out of the table
  MaxBeacons          \* beacons the root counts (seq_num stays below 256)

ASSUME /\ SINK_ID \in Nodes /\ \A n \in Nodes : Nbrs(n) \subseteq Nodes \ {n}
       /\ MaxBeacons < 128

NONE == 65535       \* msg.root_id = 0xFFFF: no root known
SEQ  == 256         \* seq_num is a uint8_t

VARIABLES
  root_id,      \* msg.root_id
  seq_num,      \* seq_num
  num_entries,  \* num_entries
  num_errors,   \* num_errors
  table,        \* the FULL entries of table[], oldest first
  processing,   \* state & STATE_PROCESSING (msg_ready posted)
  sending,      \* state & STATE_SENDING
  send_ready,   \* send_ready posted to ftsp_send_process
  msg_rcv,      \* msg_rcv
  inbox,        \* beacons on their way to each node
  losses, outliers, stales

vars == <<root_id, seq_num, num_entries, num_errors, table, processing,
          sending, send_ready, msg_rcv, inbox, losses, outliers, stales>>

Msg == [root_id : Nodes \cup {NONE}, node_id : Nodes, seq_num : 0..SEQ-1]

\* (int8_t)(a - b) > 0
Newer(a, b) == (a - b) % SEQ \in 1..(SEQ \div 2 - 1)

\* is_synced(): enough entries, or the node is the root.
IsSynced(n) == num_entries[n] >= ENTRY_VALID_LIMIT \/ root_id[n] = n

\* The guard ~((heart_beats < IGNORE_ROOT_MSG) && (msg.root_id == node_id))
\* applies a bitwise ~ to 0 or 1, giving -1 or -2: it is never false.
IgnoreRootGuard == TRUE

Init ==
  /\ root_id = [n \in Nodes |-> IF n = SINK_ID THEN n ELSE NONE]
  /\ seq_num = [n \in Nodes |-> 0]
  /\ num_entries = [n \in Nodes |-> 0]
  /\ num_errors = [n \in Nodes |-> 0]
  /\ table = [n \in Nodes |-> <<>>]
  /\ processing = [n \in Nodes |-> FALSE]
  /\ sending = [n \in Nodes |-> FALSE]
  /\ send_ready = [n \in Nodes |-> FALSE]
  /\ msg_rcv = [n \in Nodes |-> [root_id |-> 0, node_id |-> 0, seq_num |-> 0, lt_from |-> 0]]
  /\ inbox = [n \in Nodes |-> {}]
  /\ losses = 0 /\ outliers = 0 /\ stales = 0

(* ftsp_process: the beacon etimer expires and msg_send runs.  A node with *)
(* too few entries only counts a heart beat, which nothing reads, so that  *)
(* branch changes no modelled state.  The root's beacons are capped.      *)
msg_send(n) ==
  /\ root_id[n] # NONE /\ ~sending[n]
  /\ root_id[n] = n => seq_num[n] < MaxBeacons
  /\ num_entries[n] >= ENTRY_SEND_LIMIT \/ root_id[n] = n
  /\ sending' = [sending EXCEPT ![n] = TRUE]
  /\ send_ready' = [send_ready EXCEPT ![n] = TRUE]
  /\ UNCHANGED <<root_id, seq_num, num_entries, num_errors, table, processing,
                 msg_rcv, inbox, losses, outliers, stales>>

\* A beacon stays in flight far less than a beacon period (60 s).
Delivered(n) == \A k \in Nbrs(n) : \A m \in inbox[k] : m.node_id # n

(* Mutant: the root increments seq_num before the message is stamped. *)
SendProcess_inc_first(n) ==
  /\ send_ready[n] /\ Delivered(n)
  /\ LET s == IF root_id[n] = n THEN (seq_num[n] + 1) % SEQ ELSE seq_num[n]
         m == [root_id |-> root_id[n], node_id |-> n, seq_num |-> s]
     IN \E lost \in SUBSET Nbrs(n) :
          /\ losses + Cardinality(lost) <= MaxLoss
          /\ inbox' = [k \in Nodes |-> IF k \in Nbrs(n) \ lost THEN inbox[k] \cup {m} ELSE inbox[k]]
          /\ seq_num' = [seq_num EXCEPT ![n] = s]
          /\ losses' = losses + Cardinality(lost)
  /\ sending' = [sending EXCEPT ![n] = FALSE]
  /\ send_ready' = [send_ready EXCEPT ![n] = FALSE]
  /\ UNCHANGED <<root_id, num_entries, num_errors, table, processing, msg_rcv, outliers, stales>>

(* ftsp_send_process: broadcast msg with seq_num; the root counts the      *)
(* beacon only when broadcast_send succeeds.  Either way STATE_SENDING is  *)
(* cleared.  Neighbours in lost miss the frame.                            *)
SendProcess(n) ==
  /\ send_ready[n] /\ Delivered(n)
  /\ LET m == [root_id |-> root_id[n], node_id |-> n, seq_num |-> seq_num[n]]
     IN \/ \E lost \in SUBSET Nbrs(n) :
             /\ losses + Cardinality(lost) <= MaxLoss
             /\ inbox' = [k \in Nodes |-> IF k \in Nbrs(n) \ lost THEN inbox[k] \cup {m} ELSE inbox[k]]
             /\ seq_num' = IF root_id[n] = n
                           THEN [seq_num EXCEPT ![n] = (@ + 1) % SEQ] ELSE seq_num
             /\ losses' = losses + Cardinality(lost)
        \/ /\ losses < MaxLoss
           /\ losses' = losses + 1
           /\ UNCHANGED <<inbox, seq_num>>
  /\ sending' = [sending EXCEPT ![n] = FALSE]
  /\ send_ready' = [send_ready EXCEPT ![n] = FALSE]
  /\ UNCHANGED <<root_id, num_entries, num_errors, table, processing, msg_rcv, outliers, stales>>

(* ftsp_recv: packetbuf_copyto fills root_id, node_id and global_time of   *)
(* msg_rcv before STATE_PROCESSING is tested; only a free buffer also      *)
(* takes the sequence number and arrival time and posts msg_ready.         *)
ftsp_recv(n, m) ==
  /\ m \in inbox[n]
  /\ inbox' = [inbox EXCEPT ![n] = @ \ {m}]
  /\ msg_rcv' = [msg_rcv EXCEPT ![n] =
        IF processing[n]
        THEN [@ EXCEPT !.root_id = m.root_id, !.node_id = m.node_id]
        ELSE [root_id |-> m.root_id, node_id |-> m.node_id,
              seq_num |-> m.seq_num, lt_from |-> m.node_id]]
  /\ processing' = [processing EXCEPT ![n] = TRUE]
  /\ UNCHANGED <<root_id, seq_num, num_entries, num_errors, table, sending,
                 send_ready, losses, outliers, stales>>

\* The table after add_new_entry: an optional clear_table, the k oldest
\* entries aged out, and the sample written to a free or the oldest slot.
NewTable(n, cleared, k, entry) ==
  LET t0 == IF cleared THEN <<>> ELSE table[n]
      t1 == SubSeq(t0, k + 1, Len(t0))
  IN IF Len(t1) < MAX_ENTRIES THEN Append(t1, entry) ELSE Append(Tail(t1), entry)

\* Mutant: (int8_t)(a - b) >= 0, a repeated sequence number accepted.
NewerOrSame(a, b) == (a - b) % SEQ \in 0..(SEQ \div 2 - 1)
Accepts_ge(n, r) ==
  \/ r.root_id < root_id[n] /\ IgnoreRootGuard
  \/ root_id[n] = r.root_id /\ NewerOrSame(r.seq_num, seq_num[n])

\* process_msg's test: a lower root, or the same root with a newer number.
Accepts(n, r) ==
  \/ r.root_id < root_id[n] /\ IgnoreRootGuard
  \/ root_id[n] = r.root_id /\ Newer(r.seq_num, seq_num[n])

(* ftsp_msg_process: process_msg on the buffered beacon, then             *)
(* add_new_entry and calculate_conversion when it is accepted.  The time  *)
(* error is checked only when the node is synced under the root just      *)
(* adopted; the fourth outlier in a row clears the table, and the sample  *)
(* is stored regardless.                                                  *)
process_msg(n) ==
  /\ processing[n]
  /\ LET r      == msg_rcv[n]
         accept == Accepts(n, r)
         root2  == IF r.root_id < root_id[n] /\ IgnoreRootGuard THEN r.root_id ELSE root_id[n]
         synced == num_entries[n] >= ENTRY_VALID_LIMIT \/ root2 = n
     IN \/ /\ accept
           /\ \E big \in IF synced /\ outliers < MaxOutliers THEN BOOLEAN ELSE {FALSE},
                 k \in 0..(IF stales < MaxStale THEN MAX_ENTRIES ELSE 0) :
                LET errs    == IF ~synced THEN num_errors[n]
                               ELSE IF big THEN num_errors[n] + 1 ELSE 0
                    cleared == synced /\ big /\ errs > 3
                    t       == NewTable(n, cleared, k,
                                 [seq |-> r.seq_num, torn |-> r.node_id # r.lt_from])
                IN /\ k <= Len(IF cleared THEN <<>> ELSE table[n])
                   /\ root_id' = [root_id EXCEPT ![n] = root2]
                   /\ seq_num' = [seq_num EXCEPT ![n] = r.seq_num]
                   /\ num_errors' = [num_errors EXCEPT ![n] = errs]
                   /\ table' = [table EXCEPT ![n] = t]
                   /\ num_entries' = [num_entries EXCEPT ![n] = Len(t)]
                   /\ outliers' = outliers + (IF big THEN 1 ELSE 0)
                   /\ stales' = stales + (IF k > 0 THEN 1 ELSE 0)
        \/ /\ ~accept
           /\ UNCHANGED <<root_id, seq_num, num_errors, table, num_entries, outliers, stales>>
  /\ processing' = [processing EXCEPT ![n] = FALSE]
  /\ UNCHANGED <<sending, send_ready, msg_rcv, inbox, losses>>


Next ==
  \E n \in Nodes :
    \/ msg_send(n)
    \/ SendProcess(n)
    \/ \E m \in inbox[n] : ftsp_recv(n, m)
    \/ process_msg(n)

Spec == Init /\ [][Next]_vars

-----------------------------------------------------------------------------
TypeOK ==
  /\ root_id \in [Nodes -> Nodes \cup {NONE}]
  /\ seq_num \in [Nodes -> 0..SEQ-1]
  /\ \A n \in Nodes : Len(table[n]) <= MAX_ENTRIES /\ num_entries[n] = Len(table[n])
  /\ inbox \in [Nodes -> SUBSET Msg]

(* The regression table samples distinct root beacons in the order the     *)
(* root sent them: each entry's sequence number is newer than the one      *)
(* before it (process_msg's acceptance test against forwarded and repeated *)
(* beacons, add_new_entry's replacement of the oldest slot).               *)
SamplesInBeaconOrder ==
  \A n \in Nodes : \A i \in 1..Len(table[n]) - 1 :
    Newer(table[n][i + 1].seq, table[n][i].seq)

(* No node believes in a beacon the root has not sent: the root's next     *)
(* sequence number is newer than every other node's (ftsp_send_process     *)
(* stamps seq_num before the root increments it).                          *)
NoBeaconFromFuture ==
  \A n \in Nodes \ {SINK_ID} :
    table[n] # <<>> => Newer(seq_num[SINK_ID], seq_num[n])

(* Every entry's global time and local time come from the same beacon      *)
(* (ftsp_recv copies a new beacon into msg_rcv while one is pending).      *)
TableEntriesUntorn ==
  \A n \in Nodes : \A i \in 1..Len(table[n]) : ~table[n][i].torn

=============================================================================
