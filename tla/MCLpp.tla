-------------------------------- MODULE MCLpp --------------------------------
(* LPP with the non-GLOSSY defaults scaled down: on_time 1 tick, off_time *)
(* 3 ticks instead of 16 (t_s is set at run time by adaptation_process), *)
(* so tx_timeout 8 and T_DUTY 4.                                           *)
EXTENDS Lpp
====
