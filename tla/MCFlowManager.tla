---------------------------- MODULE MCFlowManager ----------------------------
(***************************************************************************)
(* FlowManager with two remote hosts and one local host, and room for two  *)
(* of three conversations and for one of two sources.  The first           *)
(* conversation of r1 is opened by either end and closed by FINs or an     *)
(* RST; the second one and the one of r2 are single SYNs.  A sweep visits  *)
(* one of two buckets.                                                     *)
(***************************************************************************)
EXTENDS FlowManager

MCFrom(remote, port) ==
  [src_ip |-> remote, dst_ip |-> "host", src_port |-> "high", dst_port |-> port]

MCPacket ==
  [tuple : {MCFrom("r1", "p1")}, flags : {{"FIN", "ACK"}, {"RST"}},
   direction : {"INBOUND"}]
    \cup [tuple : {Reversed(MCFrom("r1", "p1"))}, flags : {{"FIN", "ACK"}, {"ACK"}},
          direction : {"OUTBOUND"}]
    \cup [tuple : {MCFrom("r1", "p2"), MCFrom("r2", "p1")}, flags : {{"SYN"}},
          direction : {"INBOUND"}]

MCFlowBucket == [t \in Tuple |-> IF "p2" \in {t.src_port, t.dst_port} THEN 1 ELSE 0]
MCSourceBucket == [s \in Source |-> IF s = "r2" THEN 1 ELSE 0]
=============================================================================
