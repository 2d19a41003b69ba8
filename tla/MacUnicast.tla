----------------------------- MODULE MacUnicast -----------------------------
(***************************************************************************)
(* What relunicast (core/net/rime/relunicast.c) relies on from the MAC     *)
(* below it, for the unicasts of one connection: the MAC takes one attempt *)
(* at a time, tells relunicast exactly once how it ended (X-MAC through    *)
(* xmac_got_data_ack() after send_packet returns, LPP and LPP_NEW through  *)
(* post_send), reports an acknowledgement only if the receiver passed the  *)
(* attempt's DATA up, and never leaves an attempt unreported.              *)
(*                                                                         *)
(* A refused attempt (the MAC is off) is reported at once as not           *)
(* acknowledged.  The DATA of the last attempt may still reach the         *)
(* receiver after that attempt was reported as not acknowledged: the late  *)
(* copy that relunicast's retransmission duplicates.                       *)
(***************************************************************************)
EXTENDS Naturals

VARIABLES
  busy,     \* an accepted attempt has not been reported yet
  got,      \* the receiver passed up the DATA of the last attempt
  sent,     \* attempts handed to the MAC
  reports,  \* reports given back to relunicast
  last      \* how the last attempt was reported: "none", "ack" or "nack"

mvars == <<busy, got, sent, reports, last>>

Init ==
  /\ busy = FALSE /\ got = FALSE
  /\ sent = 0 /\ reports = 0 /\ last = "none"

(* The MAC takes an attempt and keeps it until it reports it.              *)
Accept ==
  /\ ~busy
  /\ busy' = TRUE /\ got' = FALSE
  /\ sent' = sent + 1 /\ last' = "none"
  /\ UNCHANGED reports

(* The MAC turns an attempt down and reports it as not acknowledged.       *)
Refuse ==
  /\ ~busy
  /\ got' = FALSE
  /\ sent' = sent + 1 /\ reports' = reports + 1 /\ last' = "nack"
  /\ UNCHANGED busy

(* The receiver passes up the DATA of the last attempt, at most once:      *)
(* while the attempt is pending, or late, after a report without ack.      *)
Deliver ==
  /\ ~got /\ sent > 0 /\ (busy \/ last = "nack")
  /\ got' = TRUE
  /\ UNCHANGED <<busy, sent, reports, last>>

(* The pending attempt is reported; an ack only after its delivery.        *)
Report(ack) ==
  /\ busy /\ (ack => got)
  /\ busy' = FALSE
  /\ reports' = reports + 1
  /\ last' = IF ack THEN "ack" ELSE "nack"
  /\ UNCHANGED <<got, sent>>

Next == Accept \/ Refuse \/ Deliver \/ \E ack \in BOOLEAN : Report(ack)

(* Every accepted attempt is eventually reported.                          *)
Spec == Init /\ [][Next]_mvars /\ WF_mvars(\E ack \in BOOLEAN : Report(ack))

====
