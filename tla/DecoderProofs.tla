---------------------------- MODULE DecoderProofs ----------------------------
(***************************************************************************)
(* The decoders of outside input are sound, for every input: parse() from  *)
(* the ranges of the header fields alone, parse_config() for every         *)
(* document and every width of an int that the code can be built with, and *)
(* the protocol with the inference server for every flow and every reply.  *)
(***************************************************************************)
EXTENDS PacketParser, Config, AiProtocol, TLAPS

-----------------------------------------------------------------------------
(* parse() *)

\* The values of 16 bits.
LEMMA WordRange ==
  /\ 0 \in Word
  /\ \A n \in Word : n \in Nat /\ n < 65536
<1>1. UINT16 \in Nat /\ UINT16 > 0
  BY DEF UINT16
<1>2. 0 \in Word /\ \A n \in Word : n \in Nat /\ n < UINT16
  BY <1>1 DEF Word
<1> QED
  BY <1>2 DEF UINT16

\* The ranges of the fields, and of the two header lengths.
LEMMA Ranges ==
  ASSUME NEW raw \in RawPacket
  PROVE  /\ raw.len \in Nat /\ raw.len < 65536
         /\ raw.tot_len \in Nat /\ raw.tot_len < 65536
         /\ raw.udp_len \in Nat /\ raw.udp_len < 65536
         /\ raw.ihl \in 0..15 /\ raw.doff \in 0..15
         /\ ip_header_len(raw) = 4 * raw.ihl /\ tcp_header_len(raw) = 4 * raw.doff
         /\ ip_header_len(raw) \in 0..60 /\ tcp_header_len(raw) \in 0..60
<1>1. /\ raw.len \in Word /\ raw.tot_len \in Word /\ raw.udp_len \in Word
      /\ raw.ihl \in Nibble /\ raw.doff \in Nibble
  BY DEF RawPacket
<1>2. raw.ihl \in 0..15 /\ raw.doff \in 0..15
  BY <1>1 DEF Nibble
<1>3. /\ ip_header_len(raw) = 4 * raw.ihl /\ tcp_header_len(raw) = 4 * raw.doff
      /\ ip_header_len(raw) \in 0..60 /\ tcp_header_len(raw) \in 0..60
  BY <1>2 DEF ip_header_len, tcp_header_len, IHL_UNIT_BYTES, TCP_DATA_OFFSET_UNIT_BYTES
<1> QED
  BY <1>1, <1>2, <1>3, WordRange

\* With the whole IP header in the copy the unsigned subtraction does not wrap.
LEMMA TransportLen ==
  ASSUME NEW raw \in RawPacket, ReachesTransport(raw)
  PROVE  transport_len(raw) = raw.len - ip_header_len(raw)
<1>1. raw.len - ip_header_len(raw) \in Nat /\ raw.len - ip_header_len(raw) < 65536
  BY Ranges DEF ReachesTransport
<1>2. \A n \in Nat : n < 65536 => n % SIZE = n
  BY DEF SIZE
<1> QED
  BY <1>1, <1>2 DEF transport_len

\* Each memcpy() of a header stays in the copy.
LEMMA ReadsStayInside ==
  ASSUME NEW raw \in RawPacket
  PROVE  ReadsInside(raw)
<1>1. ReadsTcp(raw) => ip_header_len(raw) + TCPHDR <= raw.len
  BY Ranges, TransportLen DEF ReadsTcp, TCPHDR
<1>2. ReadsUdp(raw) => ip_header_len(raw) + UDPHDR <= raw.len
  BY Ranges, TransportLen DEF ReadsUdp, UDPHDR
<1> QED
  BY Ranges, <1>1, <1>2 DEF ReadsInside, ReadEnds

\* The payload length is exact: neither subtraction goes below zero.
LEMMA PayloadExact ==
  ASSUME NEW raw \in RawPacket
  PROVE  /\ TcpPorts(raw) => parse(raw).payload_len
                               = raw.tot_len - ip_header_len(raw) - tcp_header_len(raw)
         /\ ~TcpPorts(raw) /\ UdpPorts(raw) => parse(raw).payload_len = raw.udp_len - UDPHDR
<1>m. \A n \in Nat : n < 65536 => n % UINT16 = n
  BY DEF UINT16
<1>1. TcpPorts(raw) =>
        /\ raw.tot_len - ip_header_len(raw) - tcp_header_len(raw) \in Nat
        /\ raw.tot_len - ip_header_len(raw) - tcp_header_len(raw) < 65536
  <2>1. TcpPorts(raw) => ip_header_len(raw) + tcp_header_len(raw) <= raw.tot_len
    BY DEF TcpPorts
  <2>2. \A t, i, c \in Nat : t < 65536 /\ i + c <= t => t - i - c \in Nat /\ t - i - c < 65536
    OBVIOUS
  <2>3. /\ raw.tot_len \in Nat /\ raw.tot_len < 65536
        /\ ip_header_len(raw) \in Nat /\ tcp_header_len(raw) \in Nat
    BY Ranges
  <2> QED
    BY <2>1, <2>2, <2>3
<1>2. UdpPorts(raw) => raw.udp_len - UDPHDR \in Nat /\ raw.udp_len - UDPHDR < 65536
  BY Ranges DEF UdpPorts, UDPHDR
<1> QED
  BY <1>m, <1>1, <1>2 DEF parse

\* The headers and the payload fit into the datagram one after the other.
LEMMA StaysWithinDatagram ==
  ASSUME NEW raw \in RawPacket
  PROVE  WithinDatagram(raw)
<1>f. parse(raw).has_ports => parse(raw).found /\ (TcpPorts(raw) \/ UdpPorts(raw))
  BY DEF parse, TcpPorts, UdpPorts, ReadsTcp, ReadsUdp, ReachesTransport
<1>1. CASE TcpPorts(raw)
  <2>1. raw.protocol = IPPROTO_TCP /\ ReachesTransport(raw)
    BY <1>1 DEF TcpPorts, ReadsTcp
  <2>2. ip_header_len(raw) + tcp_header_len(raw) <= raw.len
    BY Ranges, <1>1, <2>1, TransportLen DEF TcpPorts
  <2>3. ip_header_len(raw) + tcp_header_len(raw) + parse(raw).payload_len = raw.tot_len
    BY Ranges, <1>1, PayloadExact
  <2> QED
    BY Ranges, <1>f, <2>1, <2>2, <2>3 DEF WithinDatagram
<1>2. CASE ~TcpPorts(raw) /\ UdpPorts(raw)
  <2>1. raw.protocol # IPPROTO_TCP /\ ReachesTransport(raw)
    BY <1>2 DEF UdpPorts, ReadsUdp, IPPROTO_TCP, IPPROTO_UDP
  <2>2. ip_header_len(raw) + UDPHDR <= raw.len
    BY Ranges, <1>2, <2>1, TransportLen DEF UdpPorts, ReadsUdp, UDPHDR
  <2>3. ip_header_len(raw) + UDPHDR + parse(raw).payload_len <= raw.tot_len
    BY Ranges, <1>2, PayloadExact DEF UdpPorts, UDPHDR
  <2> QED
    BY Ranges, <1>f, <2>1, <2>2, <2>3 DEF WithinDatagram
<1>3. CASE ~TcpPorts(raw) /\ ~UdpPorts(raw)
  BY <1>3, <1>f DEF WithinDatagram
<1> QED
  BY <1>1, <1>2, <1>3

\* 128 bytes hold the longest two headers there are, 60 bytes each.
LEMMA CopyAlwaysSuffices ==
  ASSUME NEW raw \in RawPacket
  PROVE  CopySuffices(raw)
<1> SUFFICES ASSUME Conforming(raw),
                    raw.len = IF raw.tot_len <= MAX_COPY_BYTES THEN raw.tot_len
                              ELSE MAX_COPY_BYTES
             PROVE  TcpPorts(raw) \/ UdpPorts(raw)
  BY DEF CopySuffices, parse
<1>1. raw.ihl >= 5 /\ raw.version = IPVERSION /\ raw.frag_off = 0
  BY DEF Conforming
<1>2. CASE /\ raw.protocol = IPPROTO_TCP /\ raw.doff >= 5
           /\ ip_header_len(raw) + tcp_header_len(raw) <= raw.tot_len
  <2>1. ip_header_len(raw) + tcp_header_len(raw) <= raw.len
    BY Ranges, <1>2 DEF MAX_COPY_BYTES
  <2>2. ReachesTransport(raw)
    BY Ranges, <1>1, <1>2, <2>1 DEF ReachesTransport, HeaderReadable, IPHDR
  <2>3. transport_len(raw) >= tcp_header_len(raw)
    BY Ranges, <2>1, <2>2, TransportLen
  <2> QED
    BY Ranges, <1>2, <2>2, <2>3, TransportLen DEF TcpPorts, ReadsTcp, TCPHDR
<1>3. CASE /\ raw.protocol = IPPROTO_UDP /\ raw.udp_len >= UDPHDR
           /\ ip_header_len(raw) + raw.udp_len <= raw.tot_len
  <2>1. ip_header_len(raw) + UDPHDR <= raw.len
    BY Ranges, <1>3 DEF MAX_COPY_BYTES, UDPHDR
  <2>2. ReachesTransport(raw)
    BY Ranges, <1>1, <1>3, <2>1 DEF ReachesTransport, HeaderReadable, IPHDR, UDPHDR
  <2>3. transport_len(raw) >= UDPHDR
    BY Ranges, <2>1, <2>2, TransportLen DEF UDPHDR
  <2> QED
    BY <1>3, <2>2, <2>3 DEF UdpPorts, ReadsUdp
<1> QED
  BY <1>2, <1>3 DEF Conforming

\* parse() stays in the copy and in the datagram and sees the ports of every well-formed
\* datagram, for all values of all header fields.
THEOREM ParserIsSound == ParserSpec => []ParserSound
<1> DEFINE Inv == packet \in RawPacket
<1>1. ParserInit => Inv
  <2>1. 0 \in Word /\ 0 \in Nibble /\ 0 \in Octet
    BY WordRange DEF Nibble, Octet
  <2> QED
    BY <2>1 DEF ParserInit, NoPacket, RawPacket
<1>2. Inv /\ [ParserNext]_packet => Inv'
  BY ParserAssumption DEF ParserNext
<1>3. Inv => ParserSound
  BY ReadsStayInside, StaysWithinDatagram, CopyAlwaysSuffices DEF ParserSound
<1> QED
  BY <1>1, <1>2, <1>3, PTL DEF ParserSpec

-----------------------------------------------------------------------------
(* parse_config() *)

\* The fields one by one.
LEMMA FieldNames ==
  Fields = {"queue_num", "block_ttl_seconds", "window_seconds", "distinct_port_threshold",
            "syn_threshold", "queue_capacity", "startup_timeout_ms", "response_timeout_ms",
            "max_restarts", "restart_reset_seconds"}
  BY DEF Fields, SectionOf

\* An int holds every number from 0 to INT_MAX, an uint32_t from 0 to UINT32_MAX.
LEMMA NarrowCasts ==
  ASSUME NEW n \in Nat
  PROVE  /\ n <= INT_MAX => to_int(n) = n
         /\ n <= UINT32_MAX => n % (UINT32_MAX + 1) = n
         /\ n <= UINT16_MAX => n % (UINT16_MAX + 1) = n
<1>1. \A m \in Nat : n < m => n % m = n
  OBVIOUS
<1>2. INT_MAX \in Nat /\ UINT32_MAX \in Nat /\ INT_MAX <= UINT32_MAX
  BY ConfigAssumption
<1>3. n <= UINT32_MAX => n % (UINT32_MAX + 1) = n
  BY <1>1, <1>2
<1>4. n <= INT_MAX => to_int(n) = n
  BY <1>2, <1>3 DEF to_int
<1>5. n <= UINT16_MAX => n % (UINT16_MAX + 1) = n
  BY DEF UINT16_MAX
<1> QED
  BY <1>3, <1>4, <1>5

\* A number in the range of its field is not changed by the cast.
LEMMA CastLossless ==
  ASSUME NEW f \in Fields, NEW n \in Int, n >= Least[f], n <= Most[f]
  PROVE  Cast(f, n) = n
<1>1. n \in Nat
  BY FieldNames DEF Least
<1>2. CASE f = "queue_num"
  BY <1>1, <1>2, NarrowCasts DEF Cast, Most
<1>3. CASE f = "syn_threshold"
  BY <1>1, <1>3, NarrowCasts DEF Cast, Most
<1>4. CASE f \in {"distinct_port_threshold", "queue_capacity"}
  BY <1>4 DEF Cast
<1>5. CASE f \in {"block_ttl_seconds", "window_seconds", "startup_timeout_ms",
                  "response_timeout_ms", "max_restarts", "restart_reset_seconds"}
  <2>1. Most[f] <= INT_MAX
    BY <1>5, ConfigAssumption DEF Most
  <2>2. INT_MAX \in Int /\ Most[f] \in Int
    BY <1>5, ConfigAssumption DEF Most
  <2>3. n <= INT_MAX
    BY <2>1, <2>2
  <2>4. Cast(f, n) = to_int(n)
    BY <1>5 DEF Cast
  <2> QED
    BY <1>1, <2>3, <2>4, NarrowCasts
<1> QED
  BY <1>2, <1>3, <1>4, <1>5, FieldNames

\* What is read of a document is an integer.
LEMMA ReadInteger ==
  ASSUME NEW d \in Document, NEW f \in Fields
  PROVE  read_nonnegative_integer(d, f) \in Int
<1>1. d.value \in [Fields -> JsonValue]
  BY DEF Document
<1>2. d.value[f].n \in Int
  BY <1>1 DEF JsonValue
<1>3. Default[f] \in Int
  BY FieldNames DEF Default
<1> QED
  BY <1>2, <1>3 DEF read_nonnegative_integer, ValueAt

\* An accepted document is used as it stands.
LEMMA AcceptedAsWritten ==
  ASSUME NEW d \in Document, Accepted(d), NEW f \in Fields
  PROVE  /\ parse_config(d)[f] = read_nonnegative_integer(d, f)
         /\ parse_config(d)[f] =
              IF ValueAt(d, f).kind = "absent" THEN Default[f] ELSE d.value[f].n
<1>1. /\ read_nonnegative_integer(d, f) >= Least[f]
      /\ read_nonnegative_integer(d, f) <= Most[f]
  BY DEF Accepted, InRange
<1>2. parse_config(d)[f] = read_nonnegative_integer(d, f)
  BY <1>1, ReadInteger, CastLossless DEF parse_config
<1>3. ValueAt(d, f).kind # "absent" => ValueAt(d, f) = d.value[f]
  BY DEF ValueAt
<1> QED
  BY <1>2, <1>3 DEF read_nonnegative_integer

\* Every section of it has been looked at.
LEMMA NoSectionPassedOver ==
  ASSUME NEW d \in Document, Accepted(d), NEW s \in Sections
  PROVE  SectionKind(d, s) # "other"
<1>1. CASE s \in {"rules", "ai"}
  BY <1>1 DEF Accepted, SectionKind
<1>2. CASE s = "port_scan"
  BY <1>2, FieldNames DEF Accepted, HasValue, SectionOf
<1>3. CASE s = "syn_flood"
  BY <1>3, FieldNames DEF Accepted, HasValue, SectionOf
<1> QED
  BY <1>1, <1>2, <1>3 DEF Sections

\* The other components can work with it.
LEMMA AcceptedUsable ==
  ASSUME NEW d \in Document, Accepted(d)
  PROVE  Usable(parse_config(d))
<1> DEFINE cfg == parse_config(d)
<1>1. \A f \in Fields : cfg[f] \in Int /\ cfg[f] >= Least[f] /\ cfg[f] <= Most[f]
  BY AcceptedAsWritten, ReadInteger DEF Accepted, InRange
<1> HIDE DEF cfg
<1>2. /\ cfg.queue_num \in Int /\ cfg.queue_num >= 0 /\ cfg.queue_num <= UINT16_MAX
      /\ cfg.block_ttl_seconds >= 1 /\ cfg.window_seconds >= 1
      /\ cfg.block_ttl_seconds \in Int /\ cfg.window_seconds \in Int
  BY <1>1, FieldNames DEF Least, Most
<1>3. /\ cfg.distinct_port_threshold \in Int /\ cfg.distinct_port_threshold >= 1
      /\ cfg.distinct_port_threshold <= UINT16_MAX + 1
      /\ cfg.syn_threshold \in Int /\ cfg.syn_threshold >= 1
      /\ cfg.syn_threshold <= UINT32_MAX
      /\ cfg.queue_capacity \in Int /\ cfg.queue_capacity >= 1
  BY <1>1, FieldNames DEF Least, Most
<1>4. /\ cfg.startup_timeout_ms \in Int /\ cfg.startup_timeout_ms >= 1000
      /\ cfg.response_timeout_ms \in Int /\ cfg.response_timeout_ms >= 100
      /\ cfg.max_restarts >= 0
      /\ cfg.restart_reset_seconds \in Int /\ cfg.restart_reset_seconds >= 1
      /\ cfg.restart_reset_seconds <= 3600
  BY <1>1, FieldNames DEF Least, Most
<1>5. cfg.restart_reset_seconds * 1000 <= INT_MAX
  BY <1>4, ConfigAssumption
<1> QED
  BY <1>2, <1>3, <1>4, <1>5 DEF Usable, cfg

\* The defaults, and with them an empty document, are accepted.
LEMMA DefaultsAccepted == NoDocument \in Document /\ Accepted(NoDocument)
<1>1. NoDocument \in Document
  BY DEF NoDocument, Document, JsonValue
<1>2. \A f \in Fields : ValueAt(NoDocument, f) = [kind |-> "absent", n |-> 0]
  BY DEF ValueAt, NoDocument
<1>3. \A f \in Fields : HasValue(NoDocument, f)
  BY <1>2, FieldNames DEF HasValue, SectionKind, NoDocument, SectionOf, Sections
<1>4. \A f \in Fields : read_nonnegative_integer(NoDocument, f) = Default[f]
  BY <1>2 DEF read_nonnegative_integer
<1>5. \A f \in Fields : Default[f] >= Least[f] /\ Default[f] <= Most[f]
  BY FieldNames, ConfigAssumption DEF Default, Least, Most, UINT16_MAX
<1>6. InRange(NoDocument)
  BY <1>4, <1>5 DEF InRange
<1> QED
  BY <1>1, <1>3, <1>6 DEF Accepted, NoDocument, Sections

\* Whatever is accepted is what the document says or the default, without loss, and can
\* be used, for every document.
THEOREM ConfigIsSound == ConfigSpec => []ConfigSound
<1> DEFINE Inv == document \in Document
<1>1. ConfigInit => Inv
  BY DefaultsAccepted DEF ConfigInit
<1>2. Inv /\ [ConfigNext]_document => Inv'
  BY ConfigAssumption DEF ConfigNext
<1>3. Inv => ConfigSound
  BY DefaultsAccepted, AcceptedAsWritten, NoSectionPassedOver, AcceptedUsable
  DEF ConfigSound
<1> QED
  BY <1>1, <1>2, <1>3, PTL DEF ConfigSpec

-----------------------------------------------------------------------------
(* The exchange with the server *)

\* u consists of m elements of s and n elements of t.
Joins(u, s, t, m, n) ==
  /\ Len(u) = m + n
  /\ \A i \in 1 .. m : u[i] = s[i]
  /\ \A i \in 1 .. n : u[m + i] = t[i]

\* The same of the six groups of features.
JoinsSix(u, a, b, c, d, e, g) ==
  /\ Len(u) = 27
  /\ \A i \in 1 .. 5 : u[i] = a[i]
  /\ \A i \in 1 .. 4 : u[5 + i] = b[i] /\ u[9 + i] = c[i]
  /\ \A i \in 1 .. 4 : u[13 + i] = d[i] /\ u[17 + i] = e[i]
  /\ \A i \in 1 .. 6 : u[21 + i] = g[i]

\* Concatenation, position by position.
LEMMA Joined ==
  ASSUME NEW S, NEW s \in Seq(S), NEW t \in Seq(S)
  PROVE  s \o t \in Seq(S) /\ Joins(s \o t, s, t, Len(s), Len(t))
BY DEF Joins

\* Where the elements of six sequences are when they are joined one after the other.
LEMMA SixParts ==
  ASSUME NEW a, NEW b, NEW c, NEW d, NEW e, NEW g,
         NEW ab, NEW abc, NEW abcd, NEW abcde, NEW all,
         Joins(ab, a, b, 5, 4), Joins(abc, ab, c, 9, 4), Joins(abcd, abc, d, 13, 4),
         Joins(abcde, abcd, e, 17, 4), Joins(all, abcde, g, 21, 6)
  PROVE  JoinsSix(all, a, b, c, d, e, g)
<1>1. \A i \in 1 .. 9 : all[i] = ab[i]
  BY DEF Joins
<1>2. \A i \in 1 .. 17 : all[i] = abcd[i]
  BY DEF Joins
<1>3. \A i \in 1 .. 5 : all[i] = a[i]
  BY <1>1 DEF Joins
<1>4. \A i \in 1 .. 4 : all[5 + i] = b[i]
  BY <1>1 DEF Joins
<1>5. \A i \in 1 .. 4 : all[9 + i] = c[i]
  BY <1>2 DEF Joins
<1>6. \A i \in 1 .. 4 : all[13 + i] = d[i]
  BY <1>2 DEF Joins
<1>7. \A i \in 1 .. 4 : all[17 + i] = e[i]
  BY DEF Joins
<1>8. Len(all) = 27 /\ \A i \in 1 .. 6 : all[21 + i] = g[i]
  BY DEF Joins
<1> QED
  BY <1>3, <1>4, <1>5, <1>6, <1>7, <1>8 DEF JoinsSix

\* Six sequences one after the other.
LEMMA JoinedSix ==
  ASSUME NEW S, NEW a \in Seq(S), NEW b \in Seq(S), NEW c \in Seq(S), NEW d \in Seq(S),
         NEW e \in Seq(S), NEW g \in Seq(S), NEW all, all = a \o b \o c \o d \o e \o g,
         Len(a) = 5, Len(b) = 4, Len(c) = 4, Len(d) = 4, Len(e) = 4, Len(g) = 6
  PROVE  all \in Seq(S) /\ JoinsSix(all, a, b, c, d, e, g)
<1>1. PICK ab : ab = a \o b /\ ab \in Seq(S) /\ Joins(ab, a, b, 5, 4)
  BY Joined, Zenon
<1>2. Len(ab) = 9
  BY <1>1 DEF Joins
<1>3. PICK abc : abc = ab \o c /\ abc \in Seq(S) /\ Joins(abc, ab, c, 9, 4)
  BY <1>1, <1>2, Joined, Zenon
<1>4. Len(abc) = 13
  BY <1>3 DEF Joins
<1>5. PICK abcd : abcd = abc \o d /\ abcd \in Seq(S) /\ Joins(abcd, abc, d, 13, 4)
  BY <1>3, <1>4, Joined, Zenon
<1>6. Len(abcd) = 17
  BY <1>5 DEF Joins
<1>7. PICK abcde : abcde = abcd \o e /\ abcde \in Seq(S) /\ Joins(abcde, abcd, e, 17, 4)
  BY <1>5, <1>6, Joined, Zenon
<1>8. Len(abcde) = 21
  BY <1>7 DEF Joins
<1>9. all = abcde \o g
  BY <1>1, <1>3, <1>5, <1>7, Zenon
<1>10. all \in Seq(S) /\ Joins(all, abcde, g, 21, 6)
  BY <1>7, <1>8, <1>9, Joined, Zenon
<1> QED
  BY <1>1, <1>3, <1>5, <1>7, <1>10, SixParts, Zenon

\* Whose feature, which, and that it is a number.
Side == {"Flow", "Fwd", "Bwd"}
What == {"Duration", "Packets", "Length", "LengthMax", "LengthMin", "LengthMean", "LengthStd",
         "IATMean", "IATStd", "IATMax", "IATMin", "FIN", "SYN", "RST", "PSH", "ACK", "URG"}
Feature == Side \X What \X {"number"}

\* No feature of a flow is NaN: neither with a single packet, nor with a variance that
\* rounding made negative.
LEMMA AllNumbers ==
  ASSUME NEW count \in Nat, NEW variance \in {-1, 0, 1}
  PROVE  mean(count) = "number" /\ stddev(count, variance) = "number"
BY DEF mean, stddev, Quotient, Root

\* A feature that is a plain number.
LEMMA FeatureTriple ==
  ASSUME NEW dir \in Side, NEW what \in What
  PROVE  <<dir, what, "number">> \in Feature
BY DEF Feature

\* Tuples written out are sequences, with the length one sees.
LEMMA FourTuple ==
  ASSUME NEW S, NEW a \in S, NEW b \in S, NEW c \in S, NEW d \in S
  PROVE  <<a, b, c, d>> \in Seq(S) /\ Len(<<a, b, c, d>>) = 4
OBVIOUS

\* The same for five.
LEMMA FiveTuple ==
  ASSUME NEW S, NEW a \in S, NEW b \in S, NEW c \in S, NEW d \in S, NEW e \in S
  PROVE  <<a, b, c, d, e>> \in Seq(S) /\ Len(<<a, b, c, d, e>>) = 5
OBVIOUS

\* The same for six.
LEMMA SixTuple ==
  ASSUME NEW S, NEW a \in S, NEW b \in S, NEW c \in S, NEW d \in S, NEW e \in S, NEW f \in S
  PROVE  <<a, b, c, d, e, f>> \in Seq(S) /\ Len(<<a, b, c, d, e, f>>) = 6
OBVIOUS

\* The four features of the lengths of one direction.
LEMMA LengthFeatures ==
  ASSUME NEW dir \in Side, NEW count \in Nat, NEW variance \in {-1, 0, 1}
  PROVE  /\ LengthStats(dir, count, variance) \in Seq(Feature)
         /\ Len(LengthStats(dir, count, variance)) = 4
<1>1. /\ <<dir, "LengthMax", "number">> \in Feature /\ <<dir, "LengthMin", "number">> \in Feature
      /\ <<dir, "LengthMean", mean(count)>> \in Feature
      /\ <<dir, "LengthStd", stddev(count, variance)>> \in Feature
  BY AllNumbers, FeatureTriple DEF What
<1> QED
  BY <1>1, FourTuple DEF LengthStats

\* The four features of the intervals of one direction.
LEMMA IatFeatures ==
  ASSUME NEW dir \in Side, NEW count \in Nat, NEW variance \in {-1, 0, 1}
  PROVE  /\ IatStats(dir, count, variance) \in Seq(Feature)
         /\ Len(IatStats(dir, count, variance)) = 4
<1>1. /\ <<dir, "IATMean", mean(count)>> \in Feature
      /\ <<dir, "IATStd", stddev(count, variance)>> \in Feature
      /\ <<dir, "IATMax", "number">> \in Feature /\ <<dir, "IATMin", "number">> \in Feature
  BY AllNumbers, FeatureTriple DEF What
<1> QED
  BY <1>1, FourTuple DEF IatStats

\* The six counts of TCP flags.
LEMMA FlagFeatures == FlagCounts \in Seq(Feature) /\ Len(FlagCounts) = 6
<1>1. \A what \in What : <<"Flow", what, "number">> \in Feature
  BY FeatureTriple DEF Side
<1> QED
  BY <1>1, SixTuple DEF FlagCounts, What

\* flow_to_features() puts together 27 numbers in the order of the model.
LEMMA FeaturesAgree ==
  ASSUME NEW flow \in Flows
  PROVE  /\ flow_to_features(flow) \in Seq(Feature)
         /\ Len(flow_to_features(flow)) = 27 /\ Len(FEATURES) = 27
         /\ \A i \in 1 .. 27 :
              <<flow_to_features(flow)[i][1], flow_to_features(flow)[i][2]>> = FEATURES[i]
<1> DEFINE a == << <<"Flow", "Duration", "number">>,
                   <<"Fwd", "Packets", "number">>, <<"Bwd", "Packets", "number">>,
                   <<"Fwd", "Length", "number">>, <<"Bwd", "Length", "number">> >>
           b == LengthStats("Fwd", flow.forward, flow.variance)
           c == LengthStats("Bwd", flow.backward, flow.variance)
           d == IatStats("Fwd", Iats(flow.forward), flow.variance)
           e == IatStats("Bwd", Iats(flow.backward), flow.variance)
           g == FlagCounts
<1>1. /\ flow.forward \in Nat /\ flow.backward \in Nat /\ flow.variance \in {-1, 0, 1}
      /\ Iats(flow.forward) \in Nat /\ Iats(flow.backward) \in Nat
  <2>1. flow.forward \in Counts /\ flow.backward \in Counts /\ flow.variance \in {-1, 0, 1}
    BY DEF Flows
  <2>2. \A n \in Nat : Iats(n) \in Nat
    BY DEF Iats
  <2> QED
    BY <2>1, <2>2, ProtocolAssumption
<1>2. a \in Seq(Feature) /\ Len(a) = 5
  <2>1. \A dir \in Side, what \in What : <<dir, what, "number">> \in Feature
    BY FeatureTriple
  <2> QED
    BY <2>1, FiveTuple DEF Side, What
<1>3. b \in Seq(Feature) /\ Len(b) = 4 /\ c \in Seq(Feature) /\ Len(c) = 4
  BY <1>1, LengthFeatures DEF Side
<1>4. d \in Seq(Feature) /\ Len(d) = 4 /\ e \in Seq(Feature) /\ Len(e) = 4
  BY <1>1, IatFeatures DEF Side
<1>5. g \in Seq(Feature) /\ Len(g) = 6
  BY FlagFeatures
<1>6. flow_to_features(flow) = a \o b \o c \o d \o e \o g
  BY DEF flow_to_features
<1>7. ASSUME NEW i \in 1 .. 5
      PROVE  <<a[i][1], a[i][2]>> = FEATURES[i]
  BY DEF FEATURES
<1>8. ASSUME NEW i \in 1 .. 4
      PROVE  /\ <<b[i][1], b[i][2]>> = FEATURES[5 + i]
             /\ <<c[i][1], c[i][2]>> = FEATURES[9 + i]
  BY DEF LengthStats, FEATURES
<1>9. ASSUME NEW i \in 1 .. 4
      PROVE  /\ <<d[i][1], d[i][2]>> = FEATURES[13 + i]
             /\ <<e[i][1], e[i][2]>> = FEATURES[17 + i]
  BY DEF IatStats, FEATURES
<1>10. ASSUME NEW i \in 1 .. 6
       PROVE  <<g[i][1], g[i][2]>> = FEATURES[21 + i]
  BY DEF FlagCounts, FEATURES
<1>11. Len(FEATURES) = 27
  BY DEF FEATURES
<1> HIDE DEF a, b, c, d, e, g
<1>12. PICK all : all = flow_to_features(flow)
  OBVIOUS
<1>13. all \in Seq(Feature) /\ JoinsSix(all, a, b, c, d, e, g)
  BY <1>2, <1>3, <1>4, <1>5, <1>6, <1>12, JoinedSix, Zenon
<1>14. ASSUME NEW i \in 1 .. 27
       PROVE  <<all[i][1], all[i][2]>> = FEATURES[i]
  <2>1. CASE i \in 1 .. 5
    BY <1>7, <1>13, <2>1 DEF JoinsSix
  <2>2. CASE i \in 6 .. 13
    <3>1. PICK n \in 1 .. 4 : i = 5 + n \/ i = 9 + n
      BY <2>2
    <3>2. all[5 + n] = b[n] /\ all[9 + n] = c[n]
      BY <1>13, Zenon DEF JoinsSix
    <3> QED
      BY <1>8, <3>1, <3>2, Zenon
  <2>3. CASE i \in 14 .. 21
    <3>1. PICK n \in 1 .. 4 : i = 13 + n \/ i = 17 + n
      BY <2>3
    <3>2. all[13 + n] = d[n] /\ all[17 + n] = e[n]
      BY <1>13, Zenon DEF JoinsSix
    <3> QED
      BY <1>9, <3>1, <3>2, Zenon
  <2>4. CASE i \in 22 .. 27
    <3>1. PICK n \in 1 .. 6 : i = 21 + n
      BY <2>4
    <3>2. all[21 + n] = g[n]
      BY <1>13, Zenon DEF JoinsSix
    <3> QED
      BY <1>10, <3>1, <3>2, Zenon
  <2> QED
    BY <2>1, <2>2, <2>3, <2>4
<1>15. Len(all) = 27
  BY <1>13 DEF JoinsSix
<1> QED
  BY <1>11, <1>12, <1>13, <1>14, <1>15, Zenon

\* Integer division does not put the end of a flow before its beginning.
LEMMA EpochInOrder ==
  ASSUME NEW anchor \in Nat, NEW first \in Nat, NEW last \in Nat, first <= last
  PROVE  /\ to_epoch_ms(anchor, first) \in Nat /\ to_epoch_ms(anchor, last) \in Nat
         /\ to_epoch_ms(anchor, first) <= to_epoch_ms(anchor, last)
BY DEF to_epoch_ms

\* The server finds nothing wrong with a request of the sensor.
LEMMA RequestsAreValid ==
  ASSUME NEW flow \in Flows
  PROVE  ErrorCode(serialize_flow_request(flow)) = "none"
<1> DEFINE request == serialize_flow_request(flow)
           features == flow_to_features(flow)
<1>1. /\ features \in Seq(Feature) /\ Len(features) = 27 /\ Len(FEATURES) = 27
  BY FeaturesAgree
<1>2. /\ request.schema_version = 1
      /\ request.feature_schema_version = FEATURE_SCHEMA_VERSION
      /\ request.first_seen_ms = to_epoch_ms(flow.anchor, flow.first_seen)
      /\ request.last_seen_ms = to_epoch_ms(flow.anchor, flow.last_seen)
      /\ request.end_reason = flow_end_reason_to_string(flow.reason)
  BY DEF serialize_flow_request, FLOW_FEATURE_SCHEMA_VERSION, FEATURE_SCHEMA_VERSION
<1>3. /\ flow.anchor \in Nat /\ flow.first_seen \in Nat /\ flow.last_seen \in Nat
      /\ flow.first_seen <= flow.last_seen
      /\ flow.reason \in {"TCP_FIN", "TCP_RESET", "TIMEOUT"}
  BY ProtocolAssumption DEF Flows
<1>4. /\ request.first_seen_ms \in Nat /\ request.last_seen_ms \in Nat
      /\ request.first_seen_ms <= request.last_seen_ms
  <2>1. /\ to_epoch_ms(flow.anchor, flow.first_seen) \in Nat
        /\ to_epoch_ms(flow.anchor, flow.last_seen) \in Nat
        /\ to_epoch_ms(flow.anchor, flow.first_seen) <= to_epoch_ms(flow.anchor, flow.last_seen)
    BY <1>3, EpochInOrder, Zenon
  <2> HIDE DEF request
  <2> QED
    BY <1>2, <2>1, Zenon
<1>5. request.end_reason \in {"tcp_fin", "tcp_reset", "timeout"}
  <2> HIDE DEF request
  <2> QED
    BY <1>2, <1>3 DEF flow_end_reason_to_string
<1>6. /\ Len(request.features) = 27 /\ DOMAIN request.features = 1 .. 27
      /\ \A i \in 1 .. 27 : request.features[i] = "number"
  <2>1. request.features = [i \in DOMAIN features |->
                              IF features[i][3] = "number" THEN "number" ELSE "null"]
    BY DEF serialize_flow_request
  <2> HIDE DEF request, features
  <2>2. /\ DOMAIN features = 1 .. Len(features)
        /\ \A i \in 1 .. Len(features) : features[i] \in Feature
    <3>1. features \in Seq(Feature)
      BY <1>1
    <3> QED
      BY <3>1
  <2>3. DOMAIN features = 1 .. 27 /\ \A i \in 1 .. 27 : features[i] \in Feature
    BY <1>1, <2>2, Zenon
  <2>4. \A i \in 1 .. 27 : features[i][3] = "number"
    BY <2>3 DEF Feature
  <2>5. request.features = [i \in 1 .. 27 |-> "number"]
    BY <2>1, <2>3, <2>4
  <2> QED
    BY <2>5
<1> HIDE DEF request, features
<1>7. ErrorCode(request) = "none"
  <2>1. ~(\/ request.first_seen_ms < 0 \/ request.last_seen_ms < 0
          \/ request.first_seen_ms > request.last_seen_ms
          \/ request.end_reason \notin {"tcp_fin", "tcp_reset", "timeout"})
    BY <1>4, <1>5
  <2>2. ~(\E i \in DOMAIN request.features : request.features[i] # "number")
    BY <1>6
  <2>3. Len(request.features) = Len(FEATURES)
    BY <1>1, <1>6
  <2> QED
    BY <1>2, <2>1, <2>2, <2>3, Zenon DEF ErrorCode
<1> QED
  BY <1>7 DEF request

\* The client reads out of the reply to a flow what the server's model says of it, and
\* listens to the model it expects only.
LEMMA JudgementRead ==
  ASSUME NEW flow \in Flows, NEW expected, NEW by, NEW score \in Scores
  PROVE  parse_ai_response(ServerReply(serialize_flow_request(flow), by, score),
                           flow.flow_id, expected)
           = IF by = expected
             THEN [some |-> TRUE, ok |-> TRUE, anomaly |-> {score > THRESHOLD},
                   score |-> {score}]
             ELSE Refused
<1> DEFINE request == serialize_flow_request(flow)
           reply == ServerReply(request, by, score)
           judgement == [some |-> TRUE, ok |-> TRUE, anomaly |-> {score > THRESHOLD},
                         score |-> {score}]
<1>1. ErrorCode(request) = "none" /\ request.flow_id = flow.flow_id
  BY RequestsAreValid DEF serialize_flow_request
<1> HIDE DEF request
<1>2. /\ reply.schema_version = {1} /\ reply.flow_id = {flow.flow_id}
      /\ reply.model_version = {by} /\ reply.ok = {TRUE}
      /\ reply.anomaly = {score > THRESHOLD} /\ reply.score = {score}
      /\ reply.threshold = {THRESHOLD}
  BY <1>1 DEF ServerReply
<1> HIDE DEF reply
<1>3. FALSE \notin reply.ok /\ TRUE \in reply.ok
  BY <1>2
<1>4. RepliesTo(reply, flow.flow_id, expected) <=> by = expected
  BY <1>2 DEF RepliesTo, get_int, INT_VALUES
<1>5. score >= 0 /\ THRESHOLD >= 0
  BY ProtocolAssumption
<1>6. parse_ai_response(reply, flow.flow_id, expected)
        = IF by = expected THEN judgement ELSE Refused
  <2>1. CASE by = expected
    <3>1. /\ RepliesTo(reply, flow.flow_id, expected) /\ reply.anomaly # {}
          /\ \E s \in reply.score : s >= 0
          /\ \E t \in reply.threshold : t >= 0
      BY <1>2, <1>4, <1>5, <2>1
    <3> QED
      BY <1>2, <1>3, <2>1, <3>1 DEF parse_ai_response
  <2>2. CASE by # expected
    BY <1>4, <2>2 DEF parse_ai_response
  <2> QED
    BY <2>1, <2>2
<1> QED
  BY <1>6 DEF reply, request

\* Whatever arrives: what is understood of a reply is in the reply.
LEMMA StrayUnderstood ==
  ASSUME NEW reply \in StrayReplies, NEW id, NEW expected,
         parse_ai_response(reply, id, expected).some
  PROVE  /\ reply.flow_id = {id} /\ reply.model_version = {expected}
         /\ parse_ai_response(reply, id, expected).ok =>
              /\ parse_ai_response(reply, id, expected).anomaly # {}
              /\ \E s \in parse_ai_response(reply, id, expected).score : s >= 0
<1> DEFINE understood == parse_ai_response(reply, id, expected)
           Error == /\ RepliesTo(reply, id, expected) /\ FALSE \in reply.ok
                    /\ reply.error_code \notin {{}, {""}}
           Judged == /\ RepliesTo(reply, id, expected) /\ TRUE \in reply.ok
                     /\ reply.anomaly # {}
                     /\ \E s \in reply.score : s >= 0
                     /\ \E t \in reply.threshold : t >= 0
<1>1. reply.flow_id \in Optional(FlowIds) /\ reply.model_version \in Optional(ModelVersions)
  BY DEF StrayReplies
<1>2. RepliesTo(reply, id, expected)
        => reply.flow_id = {id} /\ reply.model_version = {expected}
  BY <1>1 DEF RepliesTo, Optional
<1>3. \/ Error /\ understood = [some |-> TRUE, ok |-> FALSE, error_code |-> reply.error_code]
      \/ Judged /\ understood = [some |-> TRUE, ok |-> TRUE, anomaly |-> reply.anomaly,
                                 score |-> reply.score]
  <2>1. ~(Error /\ Judged)
    <3>1. reply.ok \in {{}, {TRUE}, {FALSE}}
      BY DEF StrayReplies, Optional
    <3> QED
      BY <3>1
  <2>2. CASE Error
    BY <2>1, <2>2 DEF parse_ai_response
  <2>3. CASE Judged
    BY <2>1, <2>3 DEF parse_ai_response
  <2>4. CASE ~Error /\ ~Judged
    <3>1. understood = Refused
      BY <2>4 DEF parse_ai_response
    <3> HIDE DEF understood
    <3>2. ~understood.some
      BY <3>1 DEF Refused
    <3> QED
      BY <3>2 DEF understood
  <2> QED
    BY <2>2, <2>3, <2>4
<1> HIDE DEF understood
<1>4. RepliesTo(reply, id, expected)
  BY <1>3
<1>5. understood.ok => understood.anomaly # {} /\ \E s \in understood.score : s >= 0
  <2>1. CASE understood = [some |-> TRUE, ok |-> FALSE, error_code |-> reply.error_code]
    <3>1. ~understood.ok
      BY <2>1
    <3> QED
      BY <3>1
  <2>2. CASE Judged /\ understood = [some |-> TRUE, ok |-> TRUE, anomaly |-> reply.anomaly,
                                     score |-> reply.score]
    <3>1. understood.anomaly = reply.anomaly /\ understood.score = reply.score
      BY <2>2
    <3> QED
      BY <2>2, <3>1
  <2> QED
    BY <1>3, <2>1, <2>2
<1> QED
  BY <1>2, <1>4, <1>5 DEF understood

\* The exchanges there can be.
Exchanges ==
  \/ exchange = Idle
  \/ \E flow \in Flows, version \in ModelVersions :
       exchange = [stage |-> "sent", flow |-> flow, expected |-> version]
  \/ \E flow \in Flows, expected \in ModelVersions, version \in ModelVersions, score \in Scores :
       exchange = [stage |-> "answered", id |-> flow.flow_id,
                   expected |-> expected, by |-> version, score |-> score,
                   reply |-> ServerReply(serialize_flow_request(flow), version, score)]
  \/ \E id \in FlowIds, version \in ModelVersions, reply \in StrayReplies :
       exchange = [stage |-> "stray", id |-> id, expected |-> version, reply |-> reply]

\* Sensor and server agree, for every flow, score, threshold and model version: no feature
\* is NaN or out of place, so that _validate_request() accepts each request, and
\* parse_ai_response() takes nothing but the expected model's judgement of this flow.
THEOREM ProtocolAgrees == ProtocolSpec => []ExchangeAgrees
<1>1. ProtocolInit => Exchanges
  BY DEF ProtocolInit, Exchanges
<1>2. Exchanges /\ [ProtocolNext]_exchange => Exchanges'
  <2> SUFFICES ASSUME Exchanges, [ProtocolNext]_exchange
               PROVE  Exchanges'
    OBVIOUS
  <2>1. CASE SendFlow
    BY <2>1, Zenon DEF SendFlow, Exchanges
  <2>2. CASE ServerAnswersFlow
    <3>1. PICK flow \in Flows, version \in ModelVersions :
            exchange = [stage |-> "sent", flow |-> flow, expected |-> version]
      BY <2>2 DEF ServerAnswersFlow, Exchanges, Idle
    <3>2. exchange.flow = flow /\ exchange.expected = version
      BY <3>1
    <3> QED
      BY <2>2, <3>2, Zenon DEF ServerAnswersFlow, Exchanges
  <2>3. CASE StrayReplyArrives
    BY <2>3, Zenon DEF StrayReplyArrives, Exchanges
  <2>4. CASE UNCHANGED exchange
    BY <2>4, Zenon DEF Exchanges
  <2> QED
    BY <2>1, <2>2, <2>3, <2>4 DEF ProtocolNext
<1>3. Exchanges => ExchangeAgrees
  <2> SUFFICES ASSUME Exchanges
               PROVE  FeaturesInOrder /\ JudgementGetsThrough /\ StrayReplyHarmless
    BY DEF ExchangeAgrees
  <2>1. CASE exchange = Idle
    BY <2>1 DEF Idle, FeaturesInOrder, JudgementGetsThrough, StrayReplyHarmless
  <2>2. CASE \E flow \in Flows, version \in ModelVersions :
               exchange = [stage |-> "sent", flow |-> flow, expected |-> version]
    <3>1. PICK flow \in Flows, version \in ModelVersions :
            exchange = [stage |-> "sent", flow |-> flow, expected |-> version]
      BY <2>2
    <3>2. exchange.stage = "sent" /\ exchange.flow = flow
      BY <3>1
    <3>3. JudgementGetsThrough /\ StrayReplyHarmless
      BY <3>2 DEF JudgementGetsThrough, StrayReplyHarmless
    <3>4. /\ Len(flow_to_features(flow)) = Len(FEATURES)
          /\ \A i \in DOMAIN flow_to_features(flow) :
               <<flow_to_features(flow)[i][1], flow_to_features(flow)[i][2]>> = FEATURES[i]
      <4>1. DOMAIN flow_to_features(flow) = 1 .. Len(flow_to_features(flow))
        BY FeaturesAgree
      <4> QED
        BY <4>1, FeaturesAgree, Zenon
    <3> QED
      BY <3>2, <3>3, <3>4, Zenon DEF FeaturesInOrder
  <2>3. CASE \E flow \in Flows, expected \in ModelVersions, version \in ModelVersions,
                score \in Scores :
               exchange = [stage |-> "answered", id |-> flow.flow_id,
                           expected |-> expected, by |-> version, score |-> score,
                           reply |-> ServerReply(serialize_flow_request(flow), version, score)]
    <3>1. PICK flow \in Flows, expected \in ModelVersions, version \in ModelVersions,
               score \in Scores :
            exchange = [stage |-> "answered", id |-> flow.flow_id,
                        expected |-> expected, by |-> version, score |-> score,
                        reply |-> ServerReply(serialize_flow_request(flow), version, score)]
      BY <2>3
    <3>2. /\ exchange.stage = "answered" /\ exchange.id = flow.flow_id
          /\ exchange.expected = expected /\ exchange.by = version /\ exchange.score = score
          /\ exchange.reply = ServerReply(serialize_flow_request(flow), version, score)
      BY <3>1
    <3>3. FeaturesInOrder /\ StrayReplyHarmless
      BY <3>2 DEF FeaturesInOrder, StrayReplyHarmless
    <3>4. JudgementGetsThrough
      <4>1. Understood = IF exchange.by = exchange.expected
                         THEN [some |-> TRUE, ok |-> TRUE, anomaly |-> {score > THRESHOLD},
                               score |-> {score}]
                         ELSE Refused
        <5>1. Understood = parse_ai_response(
                             ServerReply(serialize_flow_request(flow), version, score),
                             flow.flow_id, expected)
          BY <3>2, Zenon DEF Understood
        <5>2. CASE version = expected
          BY <3>2, <5>1, <5>2, JudgementRead
        <5>3. CASE version # expected
          <6>1. Understood = Refused
            BY <5>1, <5>3, JudgementRead
          <6> QED
            BY <3>2, <5>3, <6>1, Zenon
        <5> QED
          BY <5>2, <5>3
      <4> QED
        BY <3>2, <4>1, Zenon DEF JudgementGetsThrough
    <3> QED
      BY <3>3, <3>4
  <2>4. CASE \E id \in FlowIds, version \in ModelVersions, reply \in StrayReplies :
               exchange = [stage |-> "stray", id |-> id, expected |-> version, reply |-> reply]
    <3>1. PICK id \in FlowIds, version \in ModelVersions, reply \in StrayReplies :
            exchange = [stage |-> "stray", id |-> id, expected |-> version, reply |-> reply]
      BY <2>4
    <3>2. /\ exchange.stage = "stray" /\ exchange.id = id /\ exchange.expected = version
          /\ exchange.reply = reply
      BY <3>1
    <3>3. FeaturesInOrder /\ JudgementGetsThrough
      BY <3>2 DEF FeaturesInOrder, JudgementGetsThrough
    <3>4. StrayReplyHarmless
      <4>1. Understood = parse_ai_response(reply, id, version)
        BY <3>2, Zenon DEF Understood
      <4>2. Understood.some =>
              /\ reply.flow_id = {id} /\ reply.model_version = {version}
              /\ Understood.ok => /\ Understood.anomaly # {}
                                  /\ \E s \in Understood.score : s >= 0
        BY <4>1, StrayUnderstood, Zenon
      <4> QED
        BY <3>2, <4>2, Zenon DEF StrayReplyHarmless
    <3> QED
      BY <3>3, <3>4
  <2> QED
    BY <2>1, <2>2, <2>3, <2>4 DEF Exchanges
<1> QED
  BY <1>1, <1>2, <1>3, PTL DEF ProtocolSpec
=============================================================================
