---------------------------- MODULE MCRelCollect ----------------------------
(***************************************************************************)
(* A branch of the ETH tree: 3 sends through 109 and 29 to the sink 200.   *)
(* 29 originates a packet of its own, so it interleaves its own packet     *)
(* with forwarded ones and their retransmissions, and holding its own and  *)
(* node 3's two packets it reaches a pool of three queuebufs once its      *)
(* c->buf is allocated.                                                    *)
(***************************************************************************)
EXTENDS RelCollect

MCNodes == {200, 29, 109, 3}

(* Node 3, three hops out, sends two packets, so the order in which one   *)
(* originator's packets reach the sink can be observed; 29 sends one and  *)
(* 109 only relays.                                                        *)
MCMaxOriginate(n) == CASE n = 3 -> 2 [] n = 109 -> 0 [] OTHER -> 1
====
