------------------------------- MODULE MCXMac -------------------------------
(* X-MAC with the timing constants scaled to small tick counts that keep    *)
(* their order: strobe_wait < on_time < timeout < off_time.                 *)
EXTENDS XMac
=============================================================================
