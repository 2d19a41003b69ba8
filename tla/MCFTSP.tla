------------------------------- MODULE MCFTSP -------------------------------
(* A chain sink 200 -- 29 -- 3, as on the ETH testbed's relay branch: node *)
(* 3 hears the root only through node 29's beacons.                        *)
EXTENDS FTSP

MCNbrs(n) == CASE n = 200 -> {29}
               [] n = 29  -> {200, 3}
               [] n = 3   -> {29}
=============================================================================
