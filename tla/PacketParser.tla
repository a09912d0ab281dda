---------------------------- MODULE PacketParser ----------------------------
(***************************************************************************)
(* capture/packet_parser.cpp: what PacketParser::parse() makes of a packet *)
(* the kernel copied to the queue.                                         *)
(*                                                                         *)
(* A packet is its copied length and the header fields that speak of       *)
(* lengths; they need not agree with each other, nor with the copy.        *)
(* Addresses, ports and flags are carried over and decide nothing here.    *)
(***************************************************************************)
EXTENDS Integers

CONSTANT RawPackets  \* the packets looked at

VARIABLE packet      \* the packet parsed last

IPHDR == 20            \* sizeof(struct iphdr)
TCPHDR == 20           \* sizeof(struct tcphdr)
UDPHDR == 8            \* sizeof(struct udphdr)
IHL_UNIT_BYTES == 4
TCP_DATA_OFFSET_UNIT_BYTES == 4
IPVERSION == 4
IPPROTO_TCP == 6
IPPROTO_UDP == 17
UINT16 == 65536        \* values of an uint16_t
SIZE == 1048576        \* bound: values of a size_t, more than any length here

\* Bytes that the kernel copies of a packet at most.
MAX_COPY_BYTES == 128

Nibble == 0..15
Octet  == 0..255
Word   == 0..(UINT16 - 1)

RawPacket ==
  [len: Word, version: Nibble, ihl: Nibble, tot_len: Word, frag_off: Word,
   protocol: Octet, doff: Nibble, udp_len: Word]

ASSUME ParserAssumption == RawPackets \subseteq RawPacket

-----------------------------------------------------------------------------
ip_header_len(raw)  == raw.ihl * IHL_UNIT_BYTES
tcp_header_len(raw) == raw.doff * TCP_DATA_OFFSET_UNIT_BYTES

\* The rest of the copy behind the IP header; unsigned, so it wraps.
transport_len(raw) == (raw.len - ip_header_len(raw)) % SIZE

\* The basic header can be read: there is a source address to look up.
HeaderReadable(raw) ==
  /\ raw.len >= IPHDR
  /\ raw.version = IPVERSION
  /\ ip_header_len(raw) >= IPHDR

\* Bug: the IP header is taken to be in the copy.
ReachesTransportUnchecked(raw) ==
  /\ HeaderReadable(raw)
  /\ raw.tot_len >= ip_header_len(raw)
  /\ raw.frag_off = 0

\* The first fragment, with its whole IP header in the copy.
ReachesTransport(raw) ==
  /\ HeaderReadable(raw)
  /\ raw.tot_len >= ip_header_len(raw)
  /\ raw.frag_off = 0
  /\ raw.len >= ip_header_len(raw)

ReadsTcp(raw) ==
  ReachesTransport(raw) /\ raw.protocol = IPPROTO_TCP /\ transport_len(raw) >= TCPHDR

ReadsUdp(raw) ==
  ReachesTransport(raw) /\ raw.protocol = IPPROTO_UDP /\ transport_len(raw) >= UDPHDR

TcpPorts(raw) ==
  /\ ReadsTcp(raw)
  /\ tcp_header_len(raw) >= TCPHDR
  /\ tcp_header_len(raw) <= transport_len(raw)
  /\ ip_header_len(raw) + tcp_header_len(raw) <= raw.tot_len

UdpPorts(raw) ==
  /\ ReadsUdp(raw)
  /\ raw.udp_len >= UDPHDR
  /\ ip_header_len(raw) + raw.udp_len <= raw.tot_len

\* parse(): whether there is a result, whether it has ports, and its payload_len.
parse(raw) ==
  [found       |-> HeaderReadable(raw),
   has_ports   |-> TcpPorts(raw) \/ UdpPorts(raw),
   payload_len |->
     IF TcpPorts(raw)
     THEN (raw.tot_len - ip_header_len(raw) - tcp_header_len(raw)) % UINT16
     ELSE IF UdpPorts(raw) THEN (raw.udp_len - UDPHDR) % UINT16 ELSE 0]

\* How far into the buffer parse() reads: the memcpy() of each header it gets to.
ReadEnds(raw) ==
  (IF raw.len >= IPHDR THEN {IPHDR} ELSE {})
    \cup (IF ReadsTcp(raw) THEN {ip_header_len(raw) + TCPHDR} ELSE {})
    \cup (IF ReadsUdp(raw) THEN {ip_header_len(raw) + UDPHDR} ELSE {})

NoPacket ==
  [len |-> 0, version |-> 0, ihl |-> 0, tot_len |-> 0, frag_off |-> 0, protocol |-> 0,
   doff |-> 0, udp_len |-> 0]

ParserInit == packet = NoPacket
ParserNext == packet = NoPacket /\ packet' \in RawPackets
ParserSpec == ParserInit /\ [][ParserNext]_packet

-----------------------------------------------------------------------------
(***************************************************************************)
(* Properties.                                                             *)
(***************************************************************************)
\* Nothing is read outside the copy.
ReadsInside(raw) == \A end \in ReadEnds(raw) : end <= raw.len

\* Ports come with headers and a payload that lie one after the other in the datagram;
\* the payload length that the statistics use has not wrapped.
WithinDatagram(raw) ==
  parse(raw).has_ports =>
    /\ parse(raw).found
    /\ LET header == IF raw.protocol = IPPROTO_TCP THEN tcp_header_len(raw) ELSE UDPHDR
           end    == ip_header_len(raw) + header
       IN /\ end <= raw.len
          /\ end + parse(raw).payload_len <= raw.tot_len
          /\ raw.protocol = IPPROTO_TCP => end + parse(raw).payload_len = raw.tot_len

\* An unfragmented datagram with headers as the standards want them.
Conforming(raw) ==
  /\ raw.version = IPVERSION /\ raw.ihl >= 5 /\ raw.frag_off = 0
  /\ \/ /\ raw.protocol = IPPROTO_TCP /\ raw.doff >= 5
        /\ ip_header_len(raw) + tcp_header_len(raw) <= raw.tot_len
     \/ /\ raw.protocol = IPPROTO_UDP /\ raw.udp_len >= UDPHDR
        /\ ip_header_len(raw) + raw.udp_len <= raw.tot_len

\* The copy is long enough: no such datagram gets past the rules for want of bytes.
CopySuffices(raw) ==
  /\ Conforming(raw)
  /\ raw.len = IF raw.tot_len <= MAX_COPY_BYTES THEN raw.tot_len ELSE MAX_COPY_BYTES
  => parse(raw).has_ports

\* Whatever the header fields claim, parse() stays in the copy and in the datagram, and
\* it sees the ports of every well-formed datagram although the kernel cuts it off.
ParserSound == ReadsInside(packet) /\ WithinDatagram(packet) /\ CopySuffices(packet)
=============================================================================
