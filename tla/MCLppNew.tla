------------------------------ MODULE MCLppNew ------------------------------
(* LPP_NEW with one tick = one clock tick = RTIMER_SECOND / CLOCK_SECOND =  *)
(* 256 rtimer ticks: on_time 256 -> 1, off_time 3277 -> 13,                *)
(* LPP_NEW_MAX_RANDOM_OFF_TIME 512 -> 2, tx_timeout 3801 -> 15 (MAC_CONF 1 *)
(* of the GLOSSY build), WAIT_FOR_DATA_ACK 136 -> 1.  schedule_send keeps *)
(* tx_timeout / 256 + 2 = 16 clock ticks before Glossy, one of which the   *)
(* ctimer's tick phase may take.                                           *)
EXTENDS LppNew

MC_SLACK_BEFORE_GLOSSY == 3801 \div 256 + 2 - 1
====
