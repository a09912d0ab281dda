-------------------------- MODULE FlowManagerProofs --------------------------
(***************************************************************************)
(* The safety properties of FlowManager for every set of packets, every    *)
(* limit of its tables and every hash function.                            *)
(***************************************************************************)
EXTENDS FlowManager, FiniteSetTheorems, TLAPS

-----------------------------------------------------------------------------
(* Tuples and their reverse. *)

\* Reversing a tuple is an involution on the tuples the tables can hold.
LEMMA Reversal ==
  ASSUME NEW k \in Tuple
  PROVE  Reversed(k) \in Tuple /\ Reversed(Reversed(k)) = k
<1>1. CASE \E p \in Packet : k = p.tuple
  BY <1>1, FlowManagerAssumption DEF Tuple
<1>2. CASE \E p \in Packet : k = Reversed(p.tuple)
  <2>1. PICK p \in Packet : k = Reversed(p.tuple)
    BY <1>2
  <2>2. Reversed(k) = p.tuple
    BY <2>1, FlowManagerAssumption
  <2> QED
    BY <2>1, <2>2 DEF Tuple
<1> QED
  BY <1>1, <1>2 DEF Tuple

\* The tuple of a packet, and its source.
LEMMA PacketTuple ==
  ASSUME NEW p \in Packet
  PROVE  p.tuple \in Tuple /\ p.tuple.src_ip \in Source
BY DEF Tuple, Source

-----------------------------------------------------------------------------
(* What observe_packet does to the flows, key by key. *)

\* A packet opens at most one flow, its own.
LEMMA UpdatedDomain ==
  ASSUME NEW fl, NEW p, NEW t
  PROVE  DOMAIN UpdatedFlows(fl, p, t) =
           IF Opens(fl, p.tuple) THEN DOMAIN fl \cup {p.tuple} ELSE DOMAIN fl
BY DEF UpdatedFlows

\* A packet never changes who opened a flow and when, and no packet takes it back.
LEMMA CountedFlow ==
  ASSUME NEW flow \in Flow, NEW side \in Sides, NEW flags, NEW t \in Nat
  PROVE  /\ Counted(flow, side, flags, t) \in Flow
         /\ Counted(flow, side, flags, t).origin = flow.origin
         /\ Counted(flow, side, flags, t).first_seen = flow.first_seen
<1>1. UpTo(PACKET_CAP, flow.packets + 1) \in 0 .. PACKET_CAP
  BY DEF UpTo, PACKET_CAP, Flow
<1>2. (IF "FIN" \in flags THEN flow.fin \cup {side} ELSE flow.fin) \in SUBSET Sides
  BY DEF Flow
<1>3. (flow.rst \/ "RST" \in flags) \in BOOLEAN
  OBVIOUS
<1>4. (flow.fin_handshake_complete
        \/ (flow.fin = Sides /\ "ACK" \in flags /\ "FIN" \notin flags)) \in BOOLEAN
  OBVIOUS
<1> QED
  BY <1>1, <1>2, <1>3, <1>4 DEF Counted, Flow

\* A new flow begins now.
LEMMA NewFlowFlow ==
  ASSUME NEW direction, NEW t \in Nat
  PROVE  /\ NewFlow(direction, t) \in Flow
         /\ NewFlow(direction, t).first_seen = t
BY DEF NewFlow, Flow, PACKET_CAP

\* A packet changes no flow's origin or beginning.
LEMMA UpdatedFlow ==
  ASSUME NEW fl, \A k \in DOMAIN fl : fl[k] \in Flow,
         NEW p, NEW t \in Nat, NEW k \in DOMAIN UpdatedFlows(fl, p, t)
  PROVE  /\ UpdatedFlows(fl, p, t)[k] \in Flow
         /\ k \in DOMAIN fl =>
              /\ UpdatedFlows(fl, p, t)[k].origin = fl[k].origin
              /\ UpdatedFlows(fl, p, t)[k].first_seen = fl[k].first_seen
         /\ k \notin DOMAIN fl =>
              /\ k = p.tuple
              /\ UpdatedFlows(fl, p, t)[k].origin = NewFlow(p.direction, t).origin
              /\ UpdatedFlows(fl, p, t)[k].first_seen = t
<1> DEFINE opened == IF Opens(fl, p.tuple)
                     THEN [x \in DOMAIN fl \cup {p.tuple} |->
                             IF x = p.tuple THEN NewFlow(p.direction, t) ELSE fl[x]]
                     ELSE fl
           side == IF k = p.tuple THEN "forward" ELSE "backward"
<1>1. k \in DOMAIN opened
  BY DEF UpdatedFlows
<1>2. UpdatedFlows(fl, p, t)[k] = IF k \in Lookup(opened, p.tuple)
                                  THEN Counted(opened[k], side, p.flags, t)
                                  ELSE opened[k]
  BY <1>1 DEF UpdatedFlows
<1>3. Opens(fl, p.tuple) => p.tuple \notin DOMAIN fl
  BY DEF Opens, Lookup
<1>4. /\ opened[k] \in Flow
      /\ k \in DOMAIN fl => opened[k] = fl[k]
      /\ k \notin DOMAIN fl => k = p.tuple /\ opened[k] = NewFlow(p.direction, t)
  <2>1. NewFlow(p.direction, t) \in Flow
    BY NewFlowFlow
  <2> QED
    BY <1>1, <1>3, <2>1
<1>5. side \in Sides
  BY DEF Sides
<1>6. /\ UpdatedFlows(fl, p, t)[k] \in Flow
      /\ UpdatedFlows(fl, p, t)[k].origin = opened[k].origin
      /\ UpdatedFlows(fl, p, t)[k].first_seen = opened[k].first_seen
  <2> HIDE DEF opened, side
  <2> QED
    BY <1>2, <1>4, <1>5, CountedFlow
<1> QED
  <2> HIDE DEF opened
  <2> QED
    BY <1>4, <1>6, NewFlowFlow

-----------------------------------------------------------------------------
(* The index, on values: what each operation that maintains it by hand does. *)

Exact(fl, index) ==
  /\ DOMAIN index = {k.src_ip : k \in DOMAIN fl}
  /\ \A s \in DOMAIN index : index[s] = {k \in DOMAIN fl : k.src_ip = s}

\* Opening a flow enters it in the index.
LEMMA UpdatedIndexExact ==
  ASSUME NEW fl, NEW index, Exact(fl, index), NEW p, NEW t
  PROVE  Exact(UpdatedFlows(fl, p, t), UpdatedIndex(fl, index, p))
<1>1. CASE ~Opens(fl, p.tuple)
  BY <1>1, UpdatedDomain DEF UpdatedIndex, Exact
<1>2. CASE Opens(fl, p.tuple)
  <2>1. DOMAIN UpdatedFlows(fl, p, t) = DOMAIN fl \cup {p.tuple}
    BY <1>2, UpdatedDomain
  <2>2. /\ DOMAIN UpdatedIndex(fl, index, p) = DOMAIN index \cup {p.tuple.src_ip}
        /\ \A s \in DOMAIN index \cup {p.tuple.src_ip} :
             UpdatedIndex(fl, index, p)[s] =
               IF s = p.tuple.src_ip THEN KeysOf(index, s) \cup {p.tuple} ELSE index[s]
    BY <1>2 DEF UpdatedIndex
  <2>3. DOMAIN UpdatedIndex(fl, index, p) = {k.src_ip : k \in DOMAIN UpdatedFlows(fl, p, t)}
    BY <2>1, <2>2 DEF Exact
  <2>4. KeysOf(index, p.tuple.src_ip) = {k \in DOMAIN fl : k.src_ip = p.tuple.src_ip}
    BY DEF KeysOf, Exact
  <2>5. ASSUME NEW s \in DOMAIN UpdatedIndex(fl, index, p)
        PROVE  UpdatedIndex(fl, index, p)[s] =
                 {k \in DOMAIN UpdatedFlows(fl, p, t) : k.src_ip = s}
    <3>1. CASE s = p.tuple.src_ip
      BY <2>1, <2>2, <2>4, <3>1
    <3>2. CASE s # p.tuple.src_ip
      <4>1. s \in DOMAIN index /\ UpdatedIndex(fl, index, p)[s] = index[s]
        BY <2>2, <3>2
      <4>2. index[s] = {k \in DOMAIN fl : k.src_ip = s}
        BY <4>1 DEF Exact
      <4> QED
        BY <2>1, <3>2, <4>1, <4>2
    <3> QED
      BY <3>1, <3>2
  <2> QED
    BY <2>3, <2>5 DEF Exact
<1> QED
  BY <1>1, <1>2

\* Removing flows one by one from both tables.
LEMMA UnindexedExact ==
  ASSUME NEW fl, NEW index, Exact(fl, index), NEW keys \in SUBSET DOMAIN fl
  PROVE  Exact(Erased(fl, keys), Unindexed(index, keys))
<1> DEFINE left(s) == index[s] \ {k \in keys : k.src_ip = s}
           emptied == {s \in DOMAIN index : left(s) = {} /\ \E k \in keys : k.src_ip = s}
<1>1. DOMAIN Erased(fl, keys) = DOMAIN fl \ keys
  BY DEF Erased
<1>2. /\ DOMAIN Unindexed(index, keys) = DOMAIN index \ emptied
      /\ \A s \in DOMAIN index \ emptied : Unindexed(index, keys)[s] = left(s)
  BY DEF Unindexed
<1>3. \A s \in DOMAIN index : left(s) = {k \in DOMAIN fl \ keys : k.src_ip = s}
  BY DEF Exact
<1>4. \A s \in DOMAIN index : s \in emptied <=> left(s) = {}
  <2>1. SUFFICES ASSUME NEW s \in DOMAIN index, left(s) = {}
                 PROVE  \E k \in keys : k.src_ip = s
    OBVIOUS
  <2>2. PICK k \in DOMAIN fl : k.src_ip = s
    BY DEF Exact
  <2> QED
    BY <1>3, <2>1, <2>2
<1>5. DOMAIN index \ emptied = {k.src_ip : k \in DOMAIN fl \ keys}
  <2>1. ASSUME NEW s \in DOMAIN index \ emptied
        PROVE  s \in {k.src_ip : k \in DOMAIN fl \ keys}
    BY <1>3, <1>4
  <2>2. ASSUME NEW k \in DOMAIN fl \ keys
        PROVE  k.src_ip \in DOMAIN index \ emptied
    <3>1. k.src_ip \in DOMAIN index
      BY DEF Exact
    <3>2. k \in left(k.src_ip)
      BY <1>3, <3>1
    <3> QED
      BY <3>1, <3>2
  <2> QED
    BY <2>1, <2>2
<1> QED
  BY <1>1, <1>2, <1>3, <1>5 DEF Exact

\* discard_source_flows() empties one entry of the index and removes just the flows
\* that it names.
LEMMA DiscardExact ==
  ASSUME NEW fl, NEW index, Exact(fl, index), NEW src
  PROVE  /\ Exact(Erased(fl, KeysOf(index, src)), Erased(index, {src}))
         /\ \A k \in DOMAIN Erased(fl, KeysOf(index, src)) : k.src_ip # src
<1>1. KeysOf(index, src) = {k \in DOMAIN fl : k.src_ip = src}
  BY DEF KeysOf, Exact
<1>2. DOMAIN Erased(fl, KeysOf(index, src)) = {k \in DOMAIN fl : k.src_ip # src}
  BY <1>1 DEF Erased
<1>3. /\ DOMAIN Erased(index, {src}) = DOMAIN index \ {src}
      /\ \A s \in DOMAIN index \ {src} : Erased(index, {src})[s] = index[s]
  BY DEF Erased
<1>4. DOMAIN index \ {src} = {k.src_ip : k \in {x \in DOMAIN fl : x.src_ip # src}}
  BY DEF Exact
<1>5. ASSUME NEW s \in DOMAIN index \ {src}
      PROVE  index[s] = {k \in {x \in DOMAIN fl : x.src_ip # src} : k.src_ip = s}
  BY DEF Exact
<1> QED
  BY <1>2, <1>3, <1>4, <1>5 DEF Exact

-----------------------------------------------------------------------------
(* The statistics of one source. *)

\* An entry after a packet: untouched, counted on inside its window, or begun anew.
LEMMA UpdatedStatsAt ==
  ASSUME NEW stats, \A s \in DOMAIN stats : stats[s] \in SourceStats,
         NEW p \in Packet, NEW t \in Nat, NEW s \in DOMAIN UpdatedStats(stats, p, t)
  PROVE  /\ UpdatedStats(stats, p, t)[s] \in SourceStats
         /\ \/ s \in DOMAIN stats /\ UpdatedStats(stats, p, t)[s] = stats[s]
            \/ s \in DOMAIN stats /\ ~WindowOver(stats[s], t)
            \/ UpdatedStats(stats, p, t)[s].window_start = t
<1> DEFINE src   == p.tuple.src_ip
           empty == [recent_dst_ports |-> {}, syn_count |-> 0, window_start |-> t]
           entry == IF src \in DOMAIN stats /\ ~WindowOver(stats[src], t)
                    THEN stats[src] ELSE empty
           counted == [entry EXCEPT
                         !.recent_dst_ports = @ \cup {p.tuple.dst_port},
                         !.syn_count = IF "SYN" \in p.flags THEN UpTo(SYN_CAP, @ + 1) ELSE @]
<1>1. CASE Refused(stats, src)
  BY <1>1 DEF UpdatedStats
<1>2. CASE ~Refused(stats, src)
  <2>1. UpdatedStats(stats, p, t) =
          [x \in DOMAIN stats \cup {src} |-> IF x = src THEN counted ELSE stats[x]]
    BY <1>2 DEF UpdatedStats
  <2>2. CASE s # src
    <3> HIDE DEF counted
    <3> QED
      BY <2>1, <2>2
  <2>3. CASE s = src
    <3>1. UpdatedStats(stats, p, t)[s] = counted
      <4> HIDE DEF counted
      <4> QED
        BY <2>1, <2>3
    <3>2. entry \in SourceStats
      BY FlowManagerAssumption DEF SourceStats
    <3>3. counted \in SourceStats /\ counted.window_start = entry.window_start
      <4> HIDE DEF entry
      <4>1. p.tuple.dst_port \in {x.dst_port : x \in Tuple}
        BY PacketTuple
      <4>2. UpTo(SYN_CAP, entry.syn_count + 1) \in 0 .. SYN_CAP
        BY <3>2, FlowManagerAssumption DEF UpTo, SourceStats
      <4> QED
        BY <3>2, <4>1, <4>2 DEF SourceStats
    <3>4. \/ src \in DOMAIN stats /\ ~WindowOver(stats[src], t)
          \/ entry.window_start = t
      OBVIOUS
    <3> HIDE DEF counted, entry
    <3> QED
      BY <2>3, <3>1, <3>3, <3>4
  <2> QED
    BY <2>2, <2>3
<1> QED
  BY <1>1, <1>2

\* The table of sources takes a new one only below its limit.
LEMMA UpdatedStatsSize ==
  ASSUME NEW stats, IsFiniteSet(DOMAIN stats), Cardinality(DOMAIN stats) <= MAX_SOURCES,
         NEW p \in Packet, NEW t
  PROVE  /\ DOMAIN UpdatedStats(stats, p, t) \in {DOMAIN stats, DOMAIN stats \cup {p.tuple.src_ip}}
         /\ IsFiniteSet(DOMAIN UpdatedStats(stats, p, t))
         /\ Cardinality(DOMAIN UpdatedStats(stats, p, t)) <= MAX_SOURCES
<1> DEFINE src == p.tuple.src_ip
<1>1. CASE Refused(stats, src)
  BY <1>1 DEF UpdatedStats
<1>2. CASE ~Refused(stats, src)
  <2>1. DOMAIN UpdatedStats(stats, p, t) = DOMAIN stats \cup {src}
    BY <1>2 DEF UpdatedStats
  <2>2. /\ IsFiniteSet(DOMAIN stats \cup {src})
        /\ Cardinality(DOMAIN stats \cup {src}) =
             IF src \in DOMAIN stats THEN Cardinality(DOMAIN stats)
             ELSE Cardinality(DOMAIN stats) + 1
    BY FS_AddElement
  <2>3. Cardinality(DOMAIN stats) \in Nat
    BY FS_CardinalityType
  <2> QED
    BY <1>2, <2>1, <2>2, <2>3, FlowManagerAssumption DEF Refused
<1> QED
  BY <1>1, <1>2

\* The same for the table of flows.
LEMMA UpdatedFlowsSize ==
  ASSUME NEW fl, IsFiniteSet(DOMAIN fl), Cardinality(DOMAIN fl) <= MAX_FLOWS, NEW p, NEW t
  PROVE  /\ IsFiniteSet(DOMAIN UpdatedFlows(fl, p, t))
         /\ Cardinality(DOMAIN UpdatedFlows(fl, p, t)) <= MAX_FLOWS
<1>1. CASE ~Opens(fl, p.tuple)
  BY <1>1, UpdatedDomain
<1>2. CASE Opens(fl, p.tuple)
  <2>1. DOMAIN UpdatedFlows(fl, p, t) = DOMAIN fl \cup {p.tuple}
    BY <1>2, UpdatedDomain
  <2>2. /\ IsFiniteSet(DOMAIN fl \cup {p.tuple})
        /\ Cardinality(DOMAIN fl \cup {p.tuple}) <= Cardinality(DOMAIN fl) + 1
    BY FS_AddElement, FS_CardinalityType
  <2>3. Cardinality(DOMAIN fl) \in Nat /\ Cardinality(DOMAIN fl) < MAX_FLOWS
    BY <1>2, FS_CardinalityType DEF Opens
  <2>4. Cardinality(DOMAIN fl \cup {p.tuple}) \in Nat
    BY <2>2, FS_CardinalityType
  <2> QED
    BY <2>1, <2>2, <2>3, <2>4, FlowManagerAssumption
<1> QED
  BY <1>1, <1>2

\* A table without some of its entries is within its limit, too.
LEMMA SmallerTable ==
  ASSUME NEW S, NEW T \in SUBSET S, IsFiniteSet(S), NEW limit \in Nat, Cardinality(S) <= limit
  PROVE  IsFiniteSet(T) /\ Cardinality(T) <= limit
<1>1. IsFiniteSet(T) /\ Cardinality(T) <= Cardinality(S)
  BY FS_Subset
<1>2. Cardinality(T) \in Nat /\ Cardinality(S) \in Nat
  BY <1>1, FS_CardinalityType
<1> QED
  BY <1>1, <1>2

-----------------------------------------------------------------------------
(* The inductive invariant: the properties, and that the tables are finite. *)

IInv ==
  /\ TypeOK /\ IndexExact /\ OneFlowPerConversation
  /\ IsFiniteSet(DOMAIN flows) /\ IsFiniteSet(DOMAIN source_stats)

\* A step that only erases flows, and unindexes exactly what it erases.
LEMMA ErasingHolds ==
  ASSUME IInv, NEW gone, flows' = Erased(flows, gone),
         Exact(flows', flow_keys_by_source'),
         DOMAIN source_stats' \subseteq DOMAIN source_stats,
         \A s \in DOMAIN source_stats' : source_stats'[s] = source_stats[s],
         now' = now,
         flow_cursor' \in 0 .. BUCKETS - 1, source_cursor' \in 0 .. BUCKETS - 1
  PROVE  IInv'
<1>1. /\ DOMAIN flows' = DOMAIN flows \ gone
      /\ \A k \in DOMAIN flows' : flows'[k] = flows[k]
  BY DEF Erased
<1>2. /\ IsFiniteSet(DOMAIN flows') /\ Cardinality(DOMAIN flows') <= MAX_FLOWS
      /\ IsFiniteSet(DOMAIN source_stats') /\ Cardinality(DOMAIN source_stats') <= MAX_SOURCES
  <2>1. /\ IsFiniteSet(DOMAIN flows) /\ Cardinality(DOMAIN flows) <= MAX_FLOWS
        /\ IsFiniteSet(DOMAIN source_stats) /\ Cardinality(DOMAIN source_stats) <= MAX_SOURCES
    BY DEF IInv, TypeOK
  <2>2. MAX_FLOWS \in Nat /\ MAX_SOURCES \in Nat
    BY FlowManagerAssumption
  <2>3. DOMAIN flows' \in SUBSET DOMAIN flows
    BY <1>1
  <2> QED
    BY <2>1, <2>2, <2>3, SmallerTable
<1>3. IndexExact'
  BY DEF Exact, IndexExact
<1>4. DOMAIN flow_keys_by_source' \subseteq Source
  BY <1>1, <1>3 DEF IndexExact, IInv, TypeOK, Source
<1>5. TypeOK'
  BY <1>1, <1>2, <1>4 DEF IInv, TypeOK
<1>6. OneFlowPerConversation'
  BY <1>1 DEF IInv, OneFlowPerConversation
<1> QED
  BY <1>1, <1>2, <1>3, <1>5, <1>6 DEF IInv

\* observe_packet()
LEMMA ObservePacketHolds ==
  ASSUME IInv, NEW p \in Packet, observe_packet(p)
  PROVE  IInv'
<1> USE FlowManagerAssumption
<1>1. flows' = UpdatedFlows(flows, p, now) /\ now' = now
  BY DEF observe_packet
<1>2. DOMAIN flows' = IF Opens(flows, p.tuple) THEN DOMAIN flows \cup {p.tuple} ELSE DOMAIN flows
  BY <1>1, UpdatedDomain
<1>3. DOMAIN flows' \subseteq Tuple
  BY <1>2, PacketTuple DEF IInv, TypeOK
<1>4. \A k \in DOMAIN flows' : flows'[k] \in Flow
  BY <1>1, UpdatedFlow DEF IInv, TypeOK
<1>5. IsFiniteSet(DOMAIN flows') /\ Cardinality(DOMAIN flows') <= MAX_FLOWS
  BY <1>1, UpdatedFlowsSize DEF IInv, TypeOK
<1>6. IndexExact'
  <2>1. Exact(flows, flow_keys_by_source)
    BY DEF IInv, IndexExact, Exact
  <2>2. Exact(flows', flow_keys_by_source')
    BY <1>1, <2>1, UpdatedIndexExact DEF observe_packet
  <2> QED
    BY <2>2 DEF IndexExact, Exact
<1>7. OneFlowPerConversation'
  <2> SUFFICES ASSUME NEW k \in DOMAIN flows', Reversed(k) \in DOMAIN flows'
               PROVE  Reversed(k) = k
    BY DEF OneFlowPerConversation
  <2>1. CASE k \in DOMAIN flows /\ Reversed(k) \in DOMAIN flows
    BY <2>1 DEF IInv, OneFlowPerConversation
  <2>2. CASE ~(k \in DOMAIN flows /\ Reversed(k) \in DOMAIN flows)
    <3>1. /\ Opens(flows, p.tuple)
          /\ p.tuple \notin DOMAIN flows /\ Reversed(p.tuple) \notin DOMAIN flows
      BY <1>2, <2>2 DEF Opens, Lookup
    <3>2. k = p.tuple \/ Reversed(k) = p.tuple
      BY <1>2, <2>2
    <3>3. Reversed(Reversed(k)) = k
      BY <1>3, Reversal
    <3> QED
      BY <1>2, <3>1, <3>2, <3>3
  <2> QED
    BY <2>1, <2>2
<1>8. /\ DOMAIN source_stats' \subseteq Source
      /\ \A s \in DOMAIN source_stats' : source_stats'[s] \in SourceStats
      /\ IsFiniteSet(DOMAIN source_stats') /\ Cardinality(DOMAIN source_stats') <= MAX_SOURCES
  <2>1. CASE source_stats' = source_stats
    BY <2>1 DEF IInv, TypeOK
  <2>2. CASE source_stats' = UpdatedStats(source_stats, p, now)
    <3>1. /\ DOMAIN source_stats' \in
               {DOMAIN source_stats, DOMAIN source_stats \cup {p.tuple.src_ip}}
          /\ IsFiniteSet(DOMAIN source_stats')
          /\ Cardinality(DOMAIN source_stats') <= MAX_SOURCES
      BY <2>2, UpdatedStatsSize DEF IInv, TypeOK
    <3>2. \A s \in DOMAIN source_stats' : source_stats'[s] \in SourceStats
      BY <2>2, UpdatedStatsAt DEF IInv, TypeOK
    <3> QED
      BY <3>1, <3>2, PacketTuple DEF IInv, TypeOK
  <2> QED
    BY <2>1, <2>2 DEF observe_packet, ObservedStats
<1>9. DOMAIN flow_keys_by_source' \subseteq Source
  BY <1>3, <1>6 DEF IndexExact, Source
<1>10. TypeOK'
  BY <1>3, <1>4, <1>5, <1>8, <1>9 DEF observe_packet, IInv, TypeOK
<1> QED
  BY <1>5, <1>6, <1>7, <1>8, <1>10 DEF IInv

\* The sweep stays inside the buckets.
LEMMA CursorMoves ==
  ASSUME NEW cursor \in 0 .. BUCKETS - 1
  PROVE  NextCursor(cursor) \in 0 .. BUCKETS - 1
<1>1. Quota \in Nat /\ BUCKETS \in Nat \ {0}
  BY FlowManagerAssumption DEF Quota
<1>2. cursor + Quota \in Nat
  BY <1>1
<1> QED
  BY <1>1, <1>2 DEF NextCursor

\* Every operation keeps the invariant.
LEMMA StepHolds ==
  ASSUME IInv, [Next]_vars
  PROVE  IInv'
<1>1. Exact(flows, flow_keys_by_source)
  BY DEF IInv, IndexExact, Exact
<1>2. flow_cursor \in 0 .. BUCKETS - 1 /\ source_cursor \in 0 .. BUCKETS - 1
  BY DEF IInv, TypeOK
<1>3. ASSUME NEW p \in Packet, observe_packet(p)
      PROVE  IInv'
  BY <1>3, ObservePacketHolds
<1>4. ASSUME NEW t \in Tuple, extract_completed(t)
      PROVE  IInv'
  <2>1. Completed(flows, t) \in SUBSET DOMAIN flows
    BY DEF Completed, Lookup
  <2>2. Exact(flows', flow_keys_by_source')
    BY <1>1, <1>4, <2>1, UnindexedExact DEF extract_completed
  <2> QED
    BY <1>2, <1>4, <2>2, ErasingHolds DEF extract_completed
<1>5. ASSUME NEW s \in Source, discard_source_flows(s)
      PROVE  IInv'
  <2>1. flow_keys_by_source[s] = KeysOf(flow_keys_by_source, s)
    BY <1>5 DEF discard_source_flows, KeysOf
  <2>2. Exact(flows', flow_keys_by_source')
    BY <1>1, <1>5, <2>1, DiscardExact DEF discard_source_flows
  <2> QED
    BY <1>2, <1>5, <2>2, ErasingHolds DEF discard_source_flows
<1>6. CASE cleanup_expired
  <2>1. ExpiredFlows(flows, flow_cursor, now) \in SUBSET DOMAIN flows
    BY DEF ExpiredFlows
  <2>2. Exact(flows', flow_keys_by_source')
    BY <1>1, <1>6, <2>1, UnindexedExact DEF cleanup_expired
  <2>3. /\ DOMAIN source_stats' \subseteq DOMAIN source_stats
        /\ \A s \in DOMAIN source_stats' : source_stats'[s] = source_stats[s]
    BY <1>6 DEF cleanup_expired, Erased
  <2>4. flow_cursor' \in 0 .. BUCKETS - 1 /\ source_cursor' \in 0 .. BUCKETS - 1
    BY <1>2, <1>6, CursorMoves DEF cleanup_expired
  <2> QED
    BY <1>6, <2>2, <2>3, <2>4, ErasingHolds DEF cleanup_expired
<1>7. CASE Advance
  BY <1>7 DEF Advance, tables, IInv, TypeOK, IndexExact, OneFlowPerConversation
<1>8. CASE UNCHANGED vars
  BY <1>8 DEF vars, tables, IInv, TypeOK, IndexExact, OneFlowPerConversation
<1> QED
  BY <1>3, <1>4, <1>5, <1>6, <1>7, <1>8 DEF Next

\* The invariant holds in every reachable state.
LEMMA Invariance == Spec => []IInv
<1>1. Init => IInv
  <2> SUFFICES ASSUME Init PROVE IInv
    OBVIOUS
  <2>1. DOMAIN flows = {} /\ DOMAIN source_stats = {} /\ DOMAIN flow_keys_by_source = {}
    BY DEF Init
  <2>2. IsFiniteSet({}) /\ Cardinality({}) = 0
    BY FS_EmptySet
  <2>3. TypeOK
    BY <2>1, <2>2, FlowManagerAssumption DEF Init, TypeOK
  <2>4. IndexExact /\ OneFlowPerConversation
    BY <2>1 DEF IndexExact, OneFlowPerConversation
  <2> QED
    BY <2>1, <2>2, <2>3, <2>4 DEF IInv
<1> QED
  BY <1>1, StepHolds, PTL DEF Spec

-----------------------------------------------------------------------------
\* Both tables keep to the limits that observe_packet and update_source_stats enforce,
\* whatever is swept, extracted or discarded between.
THEOREM TablesBounded == Spec => []TypeOK
<1>1. IInv => TypeOK
  BY DEF IInv
<1> QED
  BY <1>1, Invariance, PTL

\* The index that update_flow, extract_completed, discard_source_flows and the sweep
\* maintain by hand is always the one a fresh scan of the flows would build.
THEOREM IndexStaysExact == Spec => []IndexExact
<1>1. IInv => IndexExact
  BY DEF IInv
<1> QED
  BY <1>1, Invariance, PTL

\* update_flow never stores the two directions of a conversation as two flows.
THEOREM ConversationsShareAFlow == Spec => []OneFlowPerConversation
<1>1. IInv => OneFlowPerConversation
  BY DEF IInv
<1> QED
  BY <1>1, Invariance, PTL

\* update_source_stats only adds to the counts of a window that is still running.
THEOREM WindowsApart == Spec => WindowsDoNotMix
<1> DEFINE Apart ==
      \A s \in DOMAIN source_stats \cap DOMAIN source_stats' :
        /\ source_stats'[s] # source_stats[s]
        /\ source_stats'[s].window_start = source_stats[s].window_start
        => now < source_stats[s].window_start + WINDOW
<1>1. ASSUME IInv, [Next]_vars
      PROVE  Apart
  <2> SUFFICES ASSUME NEW s \in DOMAIN source_stats \cap DOMAIN source_stats',
                      source_stats'[s] # source_stats[s],
                      source_stats'[s].window_start = source_stats[s].window_start
               PROVE  now < source_stats[s].window_start + WINDOW
    OBVIOUS
  <2>1. PICK p \in Packet : source_stats' = UpdatedStats(source_stats, p, now)
    BY <1>1 DEF Next, observe_packet, ObservedStats, extract_completed, discard_source_flows,
       cleanup_expired, Advance, tables, vars, Erased
  <2>2. \/ ~WindowOver(source_stats[s], now)
        \/ source_stats'[s].window_start = now
    BY <1>1, <2>1, UpdatedStatsAt DEF IInv, TypeOK
  <2>3. source_stats[s].window_start \in Nat /\ now \in Nat
    BY <1>1 DEF IInv, TypeOK, SourceStats
  <2> QED
    BY <2>2, <2>3, FlowManagerAssumption DEF WindowOver
<1>2. IInv /\ [Next]_vars => [Apart]_vars
  BY <1>1
<1> QED
  BY <1>2, Invariance, PTL DEF Spec, WindowsDoNotMix
=============================================================================
