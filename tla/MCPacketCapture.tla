--------------------------- MODULE MCPacketCapture ---------------------------
(***************************************************************************)
(* PacketCapture with a remote host that opens two conversations (the      *)
(* second one makes it a port scan), is answered, resets and sends packets *)
(* without ports, and a whitelisted host.                                  *)
(***************************************************************************)
EXTENDS PacketCapture

MCFrom(remote, port) ==
  [src_ip |-> remote, dst_ip |-> "host", src_port |-> "high", dst_port |-> port]
MCBack(t) ==
  [src_ip |-> t.dst_ip, dst_ip |-> t.src_ip, src_port |-> t.dst_port, dst_port |-> t.src_port]

MCPacket ==
  [tuple : {MCFrom("remote", "p1")}, flags : {{"SYN"}, {"RST"}}, direction : {"INBOUND"},
   has_ports : {TRUE}]
    \cup [tuple : {MCFrom("remote", "p2")}, flags : {{"ACK"}}, direction : {"INBOUND"},
          has_ports : {TRUE}]
    \cup [tuple : {MCBack(MCFrom("remote", "p1"))}, flags : {{"ACK"}}, direction : {"OUTBOUND"},
          has_ports : {TRUE}]
    \cup [tuple : {MCFrom("remote", "none")}, flags : {{}}, direction : {"INBOUND"},
          has_ports : {FALSE}]
    \cup [tuple : {MCFrom("admin", "p1")}, flags : {{"SYN"}}, direction : {"INBOUND"},
          has_ports : {TRUE}]

\* The buckets the hash function chooses, for every tuple and address that occurs.
MCTuple == {p.tuple : p \in MCPacket} \cup {MCBack(p.tuple) : p \in MCPacket}

MCFlowBucket == [t \in MCTuple |-> IF "p2" \in {t.src_port, t.dst_port} THEN 1 ELSE 0]
MCSourceBucket == [s \in {t.src_ip : t \in MCTuple} |-> 0]
=============================================================================
