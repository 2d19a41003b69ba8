------------------------ MODULE MCGlossyScheduler ------------------------
(* One sink and one other node; the round has two report phases, the     *)
(* second for a node id of schedule[] that is not in the network.         *)
EXTENDS GlossyScheduler

CONSTANTS s, r1

MCReceivers == {r1}
=============================================================================
