----------------------------- MODULE MCDecoders -----------------------------
(***************************************************************************)
(* The decoders of outside input, side by side: packets at and around the  *)
(* lengths that parse() compares, documents with values at and around the  *)
(* limits of their fields, and exchanges with the server.                  *)
(***************************************************************************)
EXTENDS PacketParser, Config, AiProtocol

MCLengths == {19, 20, 27, 28, 39, 40, 60, 67, 68, 80, 119, 120, 128}

MCRawPackets ==
  LET header == [len: MCLengths, version: {4, 6}, ihl: {4, 5, 15},
                 tot_len: MCLengths \cup {0, 121, 65535}, frag_off: {0, 1}]
      tcp(h, n) == [len |-> h.len, version |-> h.version, ihl |-> h.ihl, tot_len |-> h.tot_len,
                    frag_off |-> h.frag_off, protocol |-> 6, doff |-> n, udp_len |-> 0]
      udp(h, n) == [tcp(h, 0) EXCEPT !.protocol = 17, !.udp_len = n]
  IN {tcp(h, n) : h \in header, n \in {4, 5, 15}}
       \cup {udp(h, n) : h \in header, n \in {7, 8, 9, 65535}}
       \cup {[tcp(h, 0) EXCEPT !.protocol = 1] : h \in header}

MCValues ==
  [kind: {"unsigned"}, n: {0, 1, 10, 11, 99, 100, 999, 1000, 3600, 3601, 60000, 60001, 65535,
                           65536, 65537, INT_MAX, INT_MAX + 1, UINT32_MAX, UINT32_MAX + 1,
                           UINT32_MAX + 2}]
    \cup {[kind |-> "integer", n |-> -1], [kind |-> "other", n |-> 0],
          [kind |-> "absent", n |-> 0]}

MCOtherValues ==
  {[kind |-> "unsigned", n |-> 0], [kind |-> "unsigned", n |-> INT_MAX + 1],
   [kind |-> "integer", n |-> -1], [kind |-> "other", n |-> 0]}

\* Every section given.
MCFullDocument == [NoDocument EXCEPT !.section = [s \in Sections |-> "object"]]

MCDocuments ==
  {[MCFullDocument EXCEPT !.value[f] = v, !.value[g] = w] :
     f, g \in Fields, v \in MCValues, w \in MCOtherValues}
    \cup {[NoDocument EXCEPT !.section = kinds, !.value[f] = v] :
            kinds \in [Sections -> {"object", "other", "absent"}], f \in Fields,
            v \in MCOtherValues}
    \cup [root: {"no_json", "object", "other"}, section: {MCFullDocument.section},
          value: {MCFullDocument.value}, enabled: {"boolean", "other", "absent"},
          artifact_dir: {"string", "empty", "other", "absent"},
          whitelist: {"strings", "other", "absent"}]

Init == ParserInit /\ ConfigInit /\ ProtocolInit

Next ==
  \/ /\ document = NoDocument /\ exchange = Idle
     /\ ParserNext /\ UNCHANGED <<document, exchange>>
  \/ /\ packet = NoPacket /\ exchange = Idle
     /\ ConfigNext /\ UNCHANGED <<packet, exchange>>
  \/ /\ packet = NoPacket /\ document = NoDocument
     /\ ProtocolNext /\ UNCHANGED <<packet, document>>

Spec == Init /\ [][Next]_<<packet, document, exchange>>
=============================================================================
