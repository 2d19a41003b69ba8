------------------------------ MODULE MCGlossy ------------------------------
(* Model-checking instance of Glossy: tx_max 1 and 2 (1 exercises the     *)
(* sync-initiator exception of glossy_end_tx), the repository's payload    *)
(* length (6 bytes: glossy_config_struct and glossy_report_struct), every  *)
(* initiator/sync combination, and relay counters around the relay of     *)
(* one hop (0..3), below the cutoff (199) and at the uint8 wrap (255).      *)
EXTENDS Glossy

MCTxMaxes == {1, 2}
MCDataLens == {6}
MCModes == BOOLEAN \X BOOLEAN
MCRxSlots == {0, 1, 2, 3, 199, 255}

(* A short payload: packets of at most 8 bytes skip the header check.     *)
MCShortDataLens == {4}
=============================================================================
