------------------------- MODULE PacketCaptureProofs -------------------------
(***************************************************************************)
(* The safety properties of PacketCapture, the composition of the flow     *)
(* table, the block list, the rules and the decisions of the client, for   *)
(* every set of packets (a host that talks to itself included), every      *)
(* whitelist, threshold and time to live, and every size of the tables.    *)
(***************************************************************************)
EXTENDS PacketCapture, TLAPS

-----------------------------------------------------------------------------
(***************************************************************************)
(* The inductive invariant.  The parts about the tables are predicates on  *)
(* values, because a step calls several operations of a table in a row.    *)
(* Every part compares a table with last_expiry, the history of blocks.    *)
(***************************************************************************)
TimeOK ==
  /\ now \in Nat /\ tick_now \in Nat /\ tick_now <= now
  /\ cpc \in {"loop", "apply", "expired"}

\* The locals of on_tick() are in use only where it uses them, and a verdict is only
\* given in the loop.
Phases ==
  /\ cpc # "apply" => drained = {}
  /\ cpc # "expired" => expired = {}
  /\ cpc # "loop" => verdict = {}

\* The time the capture thread works with.
Sampled == IF cpc = "loop" THEN now ELSE tick_now

\* The block list agrees with the history of blocks: an address is listed with its last
\* expiry, or that has passed for the capture thread as well.
Ledger ==
  \A ip \in FM!Source :
    IF ip \in DOMAIN block_map THEN block_map[ip] = last_expiry[ip]
    ELSE last_expiry[ip] <= Sampled

BlocksOK ==
  /\ DOMAIN block_map \subseteq FM!Source \ WHITELIST
  /\ last_expiry \in [FM!Source -> Nat]
  /\ Ledger

\* A flow a source opened is younger than the last block of that source.
AfterBlock(key, flow, expiry) ==
  flow.origin = "REMOTE_INITIATED" => flow.first_seen >= expiry[key.src_ip]

Exact(fl, index) ==
  /\ DOMAIN index = {k.src_ip : k \in DOMAIN fl}
  /\ \A s \in DOMAIN index : index[s] = {k \in DOMAIN fl : k.src_ip = s}

FlowsOK(fl, index, expiry, t) ==
  /\ DOMAIN fl \subseteq FM!Tuple
  /\ \A k \in DOMAIN fl :
       fl[k] \in FM!Flow /\ fl[k].first_seen <= t /\ AfterBlock(k, fl[k], expiry)
  /\ Exact(fl, index)

\* Flows on their way to consume_flow().
EndedOK(ended, expiry) ==
  \A e \in ended : e.key \in FM!Tuple /\ e.flow \in FM!Flow /\ AfterBlock(e.key, e.flow, expiry)

\* Statistics at a threshold are those of a source that was blocked for them.
StatsOK(stats, expiry, t) ==
  /\ DOMAIN stats \subseteq FM!Source
  /\ \A s \in DOMAIN stats :
       /\ stats[s] \in FM!SourceStats /\ stats[s].window_start <= t
       /\ RuleHit(stats[s]) => expiry[s] >= stats[s].window_start + TTL

RecordsOK == \A r \in submitted \cup decisions \cup drained : r.src_ip \in FM!Source

IInv ==
  /\ TimeOK /\ Phases /\ BlocksOK /\ RecordsOK /\ DropIffBlocked
  /\ FlowsOK(flows, flow_keys_by_source, last_expiry, now)
  /\ EndedOK(expired, last_expiry)
  /\ StatsOK(source_stats, last_expiry, now)

-----------------------------------------------------------------------------
(* The operations of the flow table, as this thread calls them: the lemmas *)
(* of FlowManagerProofs for the instance FM.                               *)

\* The tuple of a packet, and its source.
LEMMA PacketTuple ==
  ASSUME NEW p \in Packet
  PROVE  p.tuple \in FM!Tuple /\ p.tuple.src_ip \in FM!Source
BY DEF FM!Tuple, FM!Source

\* A packet opens at most one flow, its own.
LEMMA UpdatedDomain ==
  ASSUME NEW fl, NEW p, NEW t
  PROVE  DOMAIN FM!UpdatedFlows(fl, p, t) =
           IF FM!Opens(fl, p.tuple) THEN DOMAIN fl \cup {p.tuple} ELSE DOMAIN fl
BY DEF FM!UpdatedFlows

\* A packet never changes who opened a flow and when, and no packet takes it back.
LEMMA CountedFlow ==
  ASSUME NEW flow \in FM!Flow, NEW side \in FM!Sides, NEW flags, NEW t \in Nat
  PROVE  /\ FM!Counted(flow, side, flags, t) \in FM!Flow
         /\ FM!Counted(flow, side, flags, t).origin = flow.origin
         /\ FM!Counted(flow, side, flags, t).first_seen = flow.first_seen
<1>1. FM!UpTo(FM!PACKET_CAP, flow.packets + 1) \in 0 .. FM!PACKET_CAP
  BY DEF FM!UpTo, FM!PACKET_CAP, FM!Flow
<1>2. (IF "FIN" \in flags THEN flow.fin \cup {side} ELSE flow.fin) \in SUBSET FM!Sides
  BY DEF FM!Flow
<1>3. (flow.rst \/ "RST" \in flags) \in BOOLEAN
  OBVIOUS
<1>4. (flow.fin_handshake_complete
        \/ (flow.fin = FM!Sides /\ "ACK" \in flags /\ "FIN" \notin flags)) \in BOOLEAN
  OBVIOUS
<1> QED
  BY <1>1, <1>2, <1>3, <1>4 DEF FM!Counted, FM!Flow

\* A new flow begins now.
LEMMA NewFlowFlow ==
  ASSUME NEW direction, NEW t \in Nat
  PROVE  /\ FM!NewFlow(direction, t) \in FM!Flow
         /\ FM!NewFlow(direction, t).first_seen = t
BY DEF FM!NewFlow, FM!Flow, FM!PACKET_CAP

\* A packet changes no flow's origin or beginning.
LEMMA UpdatedFlow ==
  ASSUME NEW fl, \A k \in DOMAIN fl : fl[k] \in FM!Flow,
         NEW p, NEW t \in Nat, NEW k \in DOMAIN FM!UpdatedFlows(fl, p, t)
  PROVE  /\ FM!UpdatedFlows(fl, p, t)[k] \in FM!Flow
         /\ k \in DOMAIN fl =>
              /\ FM!UpdatedFlows(fl, p, t)[k].origin = fl[k].origin
              /\ FM!UpdatedFlows(fl, p, t)[k].first_seen = fl[k].first_seen
         /\ k \notin DOMAIN fl =>
              /\ k = p.tuple
              /\ FM!UpdatedFlows(fl, p, t)[k].origin = FM!NewFlow(p.direction, t).origin
              /\ FM!UpdatedFlows(fl, p, t)[k].first_seen = t
<1> DEFINE opened == IF FM!Opens(fl, p.tuple)
                     THEN [x \in DOMAIN fl \cup {p.tuple} |->
                             IF x = p.tuple THEN FM!NewFlow(p.direction, t) ELSE fl[x]]
                     ELSE fl
           side == IF k = p.tuple THEN "forward" ELSE "backward"
<1>1. k \in DOMAIN opened
  BY DEF FM!UpdatedFlows
<1>2. FM!UpdatedFlows(fl, p, t)[k] = IF k \in FM!Lookup(opened, p.tuple)
                                  THEN FM!Counted(opened[k], side, p.flags, t)
                                  ELSE opened[k]
  BY <1>1 DEF FM!UpdatedFlows
<1>3. FM!Opens(fl, p.tuple) => p.tuple \notin DOMAIN fl
  BY DEF FM!Opens, FM!Lookup
<1>4. /\ opened[k] \in FM!Flow
      /\ k \in DOMAIN fl => opened[k] = fl[k]
      /\ k \notin DOMAIN fl => k = p.tuple /\ opened[k] = FM!NewFlow(p.direction, t)
  <2>1. FM!NewFlow(p.direction, t) \in FM!Flow
    BY NewFlowFlow
  <2> QED
    BY <1>1, <1>3, <2>1
<1>5. side \in FM!Sides
  BY DEF FM!Sides
<1>6. /\ FM!UpdatedFlows(fl, p, t)[k] \in FM!Flow
      /\ FM!UpdatedFlows(fl, p, t)[k].origin = opened[k].origin
      /\ FM!UpdatedFlows(fl, p, t)[k].first_seen = opened[k].first_seen
  <2> HIDE DEF opened, side
  <2> QED
    BY <1>2, <1>4, <1>5, CountedFlow
<1> QED
  <2> HIDE DEF opened
  <2> QED
    BY <1>4, <1>6, NewFlowFlow

\* Opening a flow enters it in the index.
LEMMA UpdatedIndexExact ==
  ASSUME NEW fl, NEW index, Exact(fl, index), NEW p, NEW t
  PROVE  Exact(FM!UpdatedFlows(fl, p, t), FM!UpdatedIndex(fl, index, p))
<1>1. CASE ~FM!Opens(fl, p.tuple)
  BY <1>1, UpdatedDomain DEF FM!UpdatedIndex, Exact
<1>2. CASE FM!Opens(fl, p.tuple)
  <2>1. DOMAIN FM!UpdatedFlows(fl, p, t) = DOMAIN fl \cup {p.tuple}
    BY <1>2, UpdatedDomain
  <2>2. /\ DOMAIN FM!UpdatedIndex(fl, index, p) = DOMAIN index \cup {p.tuple.src_ip}
        /\ \A s \in DOMAIN index \cup {p.tuple.src_ip} :
             FM!UpdatedIndex(fl, index, p)[s] =
               IF s = p.tuple.src_ip THEN FM!KeysOf(index, s) \cup {p.tuple} ELSE index[s]
    BY <1>2 DEF FM!UpdatedIndex
  <2>3. DOMAIN FM!UpdatedIndex(fl, index, p) = {k.src_ip : k \in DOMAIN FM!UpdatedFlows(fl, p, t)}
    BY <2>1, <2>2 DEF Exact
  <2>4. FM!KeysOf(index, p.tuple.src_ip) = {k \in DOMAIN fl : k.src_ip = p.tuple.src_ip}
    BY DEF FM!KeysOf, Exact
  <2>5. ASSUME NEW s \in DOMAIN FM!UpdatedIndex(fl, index, p)
        PROVE  FM!UpdatedIndex(fl, index, p)[s] =
                 {k \in DOMAIN FM!UpdatedFlows(fl, p, t) : k.src_ip = s}
    <3>1. CASE s = p.tuple.src_ip
      BY <2>1, <2>2, <2>4, <3>1
    <3>2. CASE s # p.tuple.src_ip
      <4>1. s \in DOMAIN index /\ FM!UpdatedIndex(fl, index, p)[s] = index[s]
        BY <2>2, <3>2
      <4>2. index[s] = {k \in DOMAIN fl : k.src_ip = s}
        BY <4>1 DEF Exact
      <4> QED
        BY <2>1, <3>2, <4>1, <4>2
    <3> QED
      BY <3>1, <3>2
  <2> QED
    BY <2>3, <2>5 DEF Exact
<1> QED
  BY <1>1, <1>2

\* Removing flows one by one from both tables.
LEMMA UnindexedExact ==
  ASSUME NEW fl, NEW index, Exact(fl, index), NEW keys \in SUBSET DOMAIN fl
  PROVE  Exact(FM!Erased(fl, keys), FM!Unindexed(index, keys))
<1> DEFINE left(s) == index[s] \ {k \in keys : k.src_ip = s}
           emptied == {s \in DOMAIN index : left(s) = {} /\ \E k \in keys : k.src_ip = s}
<1>1. DOMAIN FM!Erased(fl, keys) = DOMAIN fl \ keys
  BY DEF FM!Erased
<1>2. /\ DOMAIN FM!Unindexed(index, keys) = DOMAIN index \ emptied
      /\ \A s \in DOMAIN index \ emptied : FM!Unindexed(index, keys)[s] = left(s)
  BY DEF FM!Unindexed
<1>3. \A s \in DOMAIN index : left(s) = {k \in DOMAIN fl \ keys : k.src_ip = s}
  BY DEF Exact
<1>4. \A s \in DOMAIN index : s \in emptied <=> left(s) = {}
  <2>1. SUFFICES ASSUME NEW s \in DOMAIN index, left(s) = {}
                 PROVE  \E k \in keys : k.src_ip = s
    OBVIOUS
  <2>2. PICK k \in DOMAIN fl : k.src_ip = s
    BY DEF Exact
  <2> QED
    BY <1>3, <2>1, <2>2
<1>5. DOMAIN index \ emptied = {k.src_ip : k \in DOMAIN fl \ keys}
  <2>1. ASSUME NEW s \in DOMAIN index \ emptied
        PROVE  s \in {k.src_ip : k \in DOMAIN fl \ keys}
    BY <1>3, <1>4
  <2>2. ASSUME NEW k \in DOMAIN fl \ keys
        PROVE  k.src_ip \in DOMAIN index \ emptied
    <3>1. k.src_ip \in DOMAIN index
      BY DEF Exact
    <3>2. k \in left(k.src_ip)
      BY <1>3, <3>1
    <3> QED
      BY <3>1, <3>2
  <2> QED
    BY <2>1, <2>2
<1> QED
  BY <1>1, <1>2, <1>3, <1>5 DEF Exact

\* discard_source_flows() empties one entry of the index and removes just the flows
\* that it names.
LEMMA DiscardExact ==
  ASSUME NEW fl, NEW index, Exact(fl, index), NEW src
  PROVE  /\ Exact(FM!Erased(fl, FM!KeysOf(index, src)), FM!Erased(index, {src}))
         /\ \A k \in DOMAIN FM!Erased(fl, FM!KeysOf(index, src)) : k.src_ip # src
<1>1. FM!KeysOf(index, src) = {k \in DOMAIN fl : k.src_ip = src}
  BY DEF FM!KeysOf, Exact
<1>2. DOMAIN FM!Erased(fl, FM!KeysOf(index, src)) = {k \in DOMAIN fl : k.src_ip # src}
  BY <1>1 DEF FM!Erased
<1>3. /\ DOMAIN FM!Erased(index, {src}) = DOMAIN index \ {src}
      /\ \A s \in DOMAIN index \ {src} : FM!Erased(index, {src})[s] = index[s]
  BY DEF FM!Erased
<1>4. DOMAIN index \ {src} = {k.src_ip : k \in {x \in DOMAIN fl : x.src_ip # src}}
  BY DEF Exact
<1>5. ASSUME NEW s \in DOMAIN index \ {src}
      PROVE  index[s] = {k \in {x \in DOMAIN fl : x.src_ip # src} : k.src_ip = s}
  BY DEF Exact
<1> QED
  BY <1>2, <1>3, <1>4, <1>5 DEF Exact

\* An entry after a packet: in its old window, or in one that begins now; the other
\* sources' entries stay.
LEMMA UpdatedStatsAt ==
  ASSUME NEW stats, \A s \in DOMAIN stats : stats[s] \in FM!SourceStats,
         NEW p \in Packet, NEW t \in Nat, NEW s \in DOMAIN FM!UpdatedStats(stats, p, t)
  PROVE  /\ FM!UpdatedStats(stats, p, t)[s] \in FM!SourceStats
         /\ \/ /\ s \in DOMAIN stats
               /\ FM!UpdatedStats(stats, p, t)[s].window_start = stats[s].window_start
            \/ FM!UpdatedStats(stats, p, t)[s].window_start = t
         /\ s # p.tuple.src_ip =>
              s \in DOMAIN stats /\ FM!UpdatedStats(stats, p, t)[s] = stats[s]
<1> DEFINE src   == p.tuple.src_ip
           empty == [recent_dst_ports |-> {}, syn_count |-> 0, window_start |-> t]
           entry == IF src \in DOMAIN stats /\ ~FM!WindowOver(stats[src], t)
                    THEN stats[src] ELSE empty
           counted == [entry EXCEPT
                         !.recent_dst_ports = @ \cup {p.tuple.dst_port},
                         !.syn_count = IF "SYN" \in p.flags
                                       THEN FM!UpTo(SYN_THRESHOLD, @ + 1) ELSE @]
<1>1. CASE FM!Refused(stats, src)
  BY <1>1 DEF FM!UpdatedStats
<1>2. CASE ~FM!Refused(stats, src)
  <2>1. FM!UpdatedStats(stats, p, t) =
          [x \in DOMAIN stats \cup {src} |-> IF x = src THEN counted ELSE stats[x]]
    BY <1>2 DEF FM!UpdatedStats
  <2>2. CASE s # src
    <3> HIDE DEF counted
    <3> QED
      BY <2>1, <2>2
  <2>3. CASE s = src
    <3>1. FM!UpdatedStats(stats, p, t)[s] = counted
      <4> HIDE DEF counted
      <4> QED
        BY <2>1, <2>3
    <3>2. entry \in FM!SourceStats
      BY CaptureAssumption DEF FM!SourceStats
    <3>3. counted \in FM!SourceStats /\ counted.window_start = entry.window_start
      <4> HIDE DEF entry
      <4>1. p.tuple.dst_port \in {x.dst_port : x \in FM!Tuple}
        BY PacketTuple
      <4>2. FM!UpTo(SYN_THRESHOLD, entry.syn_count + 1) \in 0 .. SYN_THRESHOLD
        BY <3>2, CaptureAssumption DEF FM!UpTo, FM!SourceStats
      <4> QED
        BY <3>2, <4>1, <4>2 DEF FM!SourceStats
    <3>4. \/ src \in DOMAIN stats /\ entry = stats[src]
          \/ entry.window_start = t
      OBVIOUS
    <3> HIDE DEF counted, entry
    <3> QED
      BY <2>3, <3>1, <3>3, <3>4
  <2> QED
    BY <2>2, <2>3
<1> QED
  BY <1>1, <1>2


-----------------------------------------------------------------------------
(* What the calls of a step do to the parts of the invariant. *)

\* The source of a tuple.
LEMMA TupleSource ==
  ASSUME NEW k \in FM!Tuple
  PROVE  k.src_ip \in FM!Source
BY DEF FM!Source

\* update_flow() for a source whose last block is over, or for the host itself.
LEMMA ObservedFlowsOK ==
  ASSUME NEW fl, NEW index, NEW expiry, NEW t \in Nat, FlowsOK(fl, index, expiry, t),
         NEW p \in Packet,
         p.direction = "OUTBOUND" \/ t >= expiry[p.tuple.src_ip]
  PROVE  FlowsOK(FM!UpdatedFlows(fl, p, t), FM!UpdatedIndex(fl, index, p), expiry, t)
<1> DEFINE new == FM!UpdatedFlows(fl, p, t)
<1>1. DOMAIN new = IF FM!Opens(fl, p.tuple) THEN DOMAIN fl \cup {p.tuple} ELSE DOMAIN fl
  BY UpdatedDomain
<1>2. DOMAIN new \subseteq FM!Tuple
  BY <1>1, PacketTuple DEF FlowsOK
<1>3. ASSUME NEW k \in DOMAIN new
      PROVE  new[k] \in FM!Flow /\ new[k].first_seen <= t /\ AfterBlock(k, new[k], expiry)
  <2>1. \A x \in DOMAIN fl : fl[x] \in FM!Flow
    BY DEF FlowsOK
  <2>2. CASE k \in DOMAIN fl
    <3>1. /\ new[k] \in FM!Flow
          /\ new[k].origin = fl[k].origin /\ new[k].first_seen = fl[k].first_seen
      BY <2>1, <2>2, UpdatedFlow
    <3> HIDE DEF new
    <3> QED
      BY <2>2, <3>1 DEF FlowsOK, AfterBlock
  <2>3. CASE k \notin DOMAIN fl
    <3>1. /\ new[k] \in FM!Flow /\ k = p.tuple
          /\ new[k].origin = FM!NewFlow(p.direction, t).origin /\ new[k].first_seen = t
      BY <2>1, <2>3, UpdatedFlow
    <3>2. p.direction = "OUTBOUND" => new[k].origin # "REMOTE_INITIATED"
      BY <3>1 DEF FM!NewFlow
    <3> HIDE DEF new
    <3> QED
      BY <3>1, <3>2 DEF AfterBlock
  <2> QED
    BY <2>2, <2>3
<1>4. Exact(new, FM!UpdatedIndex(fl, index, p))
  BY UpdatedIndexExact DEF FlowsOK
<1> QED
  BY <1>2, <1>3, <1>4 DEF FlowsOK

\* extract_completed() and the sweep: what is erased is what is handed on.
LEMMA ErasedFlowsOK ==
  ASSUME NEW fl, NEW index, NEW expiry, NEW t, FlowsOK(fl, index, expiry, t),
         NEW keys \in SUBSET DOMAIN fl
  PROVE  /\ FlowsOK(FM!Erased(fl, keys), FM!Unindexed(index, keys), expiry, t)
         /\ EndedOK({[key |-> k, flow |-> fl[k]] : k \in keys}, expiry)
<1>1. Exact(FM!Erased(fl, keys), FM!Unindexed(index, keys))
  BY UnindexedExact DEF FlowsOK
<1>2. /\ DOMAIN FM!Erased(fl, keys) = DOMAIN fl \ keys
      /\ \A k \in DOMAIN fl \ keys : FM!Erased(fl, keys)[k] = fl[k]
  BY DEF FM!Erased
<1>3. FlowsOK(FM!Erased(fl, keys), FM!Unindexed(index, keys), expiry, t)
  BY <1>1, <1>2 DEF FlowsOK
<1>4. ASSUME NEW k \in keys
      PROVE  k \in FM!Tuple /\ fl[k] \in FM!Flow /\ AfterBlock(k, fl[k], expiry)
  BY DEF FlowsOK
<1> QED
  BY <1>3, <1>4 DEF EndedOK

\* discard_source_flows() and block(): through the index no flow of the source is missed.
LEMMA DiscardedFlowsOK ==
  ASSUME NEW fl, NEW index, NEW expiry \in [FM!Source -> Nat], NEW t,
         FlowsOK(fl, index, expiry, t), NEW src \in FM!Source, NEW e
  PROVE  FlowsOK(FM!Erased(fl, FM!KeysOf(index, src)), FM!Erased(index, {src}),
                 [expiry EXCEPT ![src] = e], t)
<1> DEFINE rest == FM!Erased(fl, FM!KeysOf(index, src))
<1>1. Exact(rest, FM!Erased(index, {src})) /\ \A k \in DOMAIN rest : k.src_ip # src
  BY DiscardExact DEF FlowsOK
<1>2. DOMAIN rest \subseteq DOMAIN fl /\ \A k \in DOMAIN rest : rest[k] = fl[k]
  BY DEF FM!Erased
<1>3. ASSUME NEW k \in DOMAIN rest
      PROVE  [expiry EXCEPT ![src] = e][k.src_ip] = expiry[k.src_ip]
  <2>1. k \in FM!Tuple
    BY <1>2 DEF FlowsOK
  <2> QED
    BY <1>1, <2>1, TupleSource
<1>4. ASSUME NEW k \in DOMAIN rest
      PROVE  /\ rest[k] \in FM!Flow /\ rest[k].first_seen <= t
             /\ AfterBlock(k, rest[k], [expiry EXCEPT ![src] = e])
  <2> HIDE DEF rest
  <2> QED
    BY <1>2, <1>3 DEF FlowsOK, AfterBlock
<1>5. DOMAIN rest \subseteq FM!Tuple
  BY <1>2 DEF FlowsOK
<1> QED
  BY <1>1, <1>4, <1>5 DEF FlowsOK

\* A later block is as good a reason for the statistics as the one before.
LEMMA BlockedStatsOK ==
  ASSUME NEW stats, NEW expiry \in [FM!Source -> Nat], NEW t \in Nat, StatsOK(stats, expiry, t),
         NEW src \in FM!Source, NEW e \in Nat, e >= expiry[src]
  PROVE  StatsOK(stats, [expiry EXCEPT ![src] = e], t)
<1> SUFFICES ASSUME NEW s \in DOMAIN stats, RuleHit(stats[s])
             PROVE  [expiry EXCEPT ![src] = e][s] >= stats[s].window_start + TTL
  BY DEF StatsOK
<1>1. /\ s \in FM!Source /\ stats[s].window_start \in Nat
      /\ expiry[s] >= stats[s].window_start + TTL
  BY DEF StatsOK, FM!SourceStats
<1>2. TTL \in Nat
  BY CaptureAssumption
<1> QED
  BY <1>1, <1>2

\* Removing statistics disturbs none of the others.
LEMMA ErasedStatsOK ==
  ASSUME NEW stats, NEW expiry, NEW t, StatsOK(stats, expiry, t), NEW keys
  PROVE  StatsOK(FM!Erased(stats, keys), expiry, t)
BY DEF StatsOK, FM!Erased

\* observe_packet() returns the statistics it changed, or it has changed none.
LEMMA ObservedStatsCases ==
  ASSUME NEW fl, NEW stats, NEW p, NEW t
  PROVE  \/ FM!ObservedStats(fl, stats, p, t) = stats
         \/ /\ FM!StatsReturned(fl, stats, p, t)
            /\ FM!ObservedStats(fl, stats, p, t) = FM!UpdatedStats(stats, p, t)
BY DEF FM!ObservedStats, FM!StatsReturned, FM!UpdatedStats

\* So the rules see each change: when they do not fire, the changed entry is harmless;
\* when they do, its source is blocked from now on.
LEMMA ObservedStatsOK ==
  ASSUME NEW fl, NEW stats, NEW expiry \in [FM!Source -> Nat], NEW t \in Nat,
         StatsOK(stats, expiry, t), NEW p \in Packet, NEW e \in Nat, e >= expiry[p.tuple.src_ip],
         \/ e >= t + TTL
         \/ ~ (/\ FM!StatsReturned(fl, stats, p, t)
               /\ RuleHit(FM!ObservedStats(fl, stats, p, t)[p.tuple.src_ip]))
  PROVE  StatsOK(FM!ObservedStats(fl, stats, p, t), [expiry EXCEPT ![p.tuple.src_ip] = e], t)
<1> DEFINE src == p.tuple.src_ip
           new == FM!UpdatedStats(stats, p, t)
<1>0. src \in FM!Source
  BY PacketTuple
<1>1. CASE FM!ObservedStats(fl, stats, p, t) = stats
  BY <1>0, <1>1, BlockedStatsOK
<1>2. CASE FM!StatsReturned(fl, stats, p, t) /\ FM!ObservedStats(fl, stats, p, t) = new
  <2>1. DOMAIN new \subseteq FM!Source
    BY <1>0 DEF StatsOK, FM!UpdatedStats
  <2>2. \A s \in DOMAIN stats : stats[s] \in FM!SourceStats
    BY DEF StatsOK
  <2>3. ASSUME NEW s \in DOMAIN new
        PROVE  new[s] \in FM!SourceStats /\ new[s].window_start <= t
    <3>1. new[s] \in FM!SourceStats
      BY <2>2, UpdatedStatsAt
    <3>2. \/ s \in DOMAIN stats /\ new[s].window_start = stats[s].window_start
          \/ new[s].window_start = t
      BY <2>2, UpdatedStatsAt
    <3> HIDE DEF new
    <3> QED
      BY <3>1, <3>2 DEF StatsOK
  <2>4. ASSUME NEW s \in DOMAIN new, RuleHit(new[s])
        PROVE  [expiry EXCEPT ![src] = e][s] >= new[s].window_start + TTL
    <3>0. TTL \in Nat /\ new[s].window_start \in Nat
      BY <2>3, CaptureAssumption DEF FM!SourceStats
    <3>1. CASE s = src
      <4>1. e >= t + TTL
        BY <1>2, <2>4, <3>1
      <4> HIDE DEF new
      <4> QED
        BY <1>0, <2>3, <3>0, <3>1, <4>1
    <3>2. CASE s # src
      <4>1. s \in DOMAIN stats /\ new[s] = stats[s]
        BY <2>2, <3>2, UpdatedStatsAt
      <4> HIDE DEF new
      <4> QED
        BY <2>4, <3>2, <4>1 DEF StatsOK
    <3> QED
      BY <3>1, <3>2
  <2> HIDE DEF new
  <2> QED
    BY <1>2, <2>1, <2>3, <2>4 DEF StatsOK
<1> QED
  BY <1>1, <1>2, ObservedStatsCases

\* Nothing becomes wrong by the passing of time.
LEMMA LaterOK ==
  ASSUME NEW fl, NEW index, NEW stats, NEW expiry, NEW t \in Nat, NEW u \in Nat, t <= u
  PROVE  /\ FlowsOK(fl, index, expiry, t) => FlowsOK(fl, index, expiry, u)
         /\ StatsOK(stats, expiry, t) => StatsOK(stats, expiry, u)
BY DEF FlowsOK, StatsOK, FM!Flow, FM!SourceStats

-----------------------------------------------------------------------------
(* The steps. *)

\* What ~is_blocked() tells at the time the thread works with.
LEMMA NotBlocked ==
  ASSUME TimeOK, BlocksOK, NEW ip \in FM!Source, ~is_blocked(ip, Sampled)
  PROVE  last_expiry[ip] <= Sampled
BY DEF TimeOK, BlocksOK, Ledger, Sampled, is_blocked, BL!IsBlocked

\* block() at the time the thread works with, for an address that may be blocked.
LEMMA BlockHolds ==
  ASSUME TimeOK, BlocksOK, NEW ip \in FM!Source \ WHITELIST, Block(ip, Sampled),
         UNCHANGED <<now, cpc, tick_now>>
  PROVE  /\ BlocksOK'
         /\ last_expiry' = [last_expiry EXCEPT ![ip] = Sampled + TTL]
         /\ Sampled + TTL \in Nat
<1>1. /\ DOMAIN block_map' = DOMAIN block_map \cup {ip}
      /\ \A x \in DOMAIN block_map' :
           block_map'[x] = IF x = ip THEN Sampled + TTL ELSE block_map[x]
  BY DEF Block, BL!Assigned
<1>2. last_expiry' = [last_expiry EXCEPT ![ip] = Sampled + TTL]
  BY DEF Block
<1>3. Sampled + TTL \in Nat /\ Sampled' = Sampled
  BY CaptureAssumption DEF TimeOK, Sampled
<1>4. last_expiry' \in [FM!Source -> Nat]
  BY <1>2, <1>3 DEF BlocksOK
<1>5. Ledger'
  BY <1>1, <1>2, <1>3 DEF BlocksOK, Ledger
<1> QED
  BY <1>1, <1>2, <1>3, <1>4, <1>5 DEF BlocksOK

\* consume_flow() makes records of flows that began after the last block of their source.
LEMMA ConsumeRecords ==
  ASSUME NEW ended, EndedOK(ended, last_expiry), Consume(ended), RecordsOK
  PROVE  /\ \A r \in submitted' \ submitted :
              r.src_ip \in FM!Source /\ r.first_seen >= last_expiry[r.src_ip]
         /\ \A r \in submitted' : r.src_ip \in FM!Source
         /\ decisions' = decisions
<1>1. ASSUME NEW r \in submitted', r \notin submitted
      PROVE  r.src_ip \in FM!Source /\ r.first_seen >= last_expiry[r.src_ip]
  <2>1. PICK e \in ended : /\ r = RecordOf(e.key, e.flow)
                           /\ Submittable(e.key, e.flow, now)
    BY <1>1 DEF Consume
  <2>2. r.src_ip = e.key.src_ip /\ r.first_seen = e.flow.first_seen
    BY <2>1 DEF RecordOf
  <2> QED
    BY <2>1, <2>2, TupleSource DEF EndedOK, AfterBlock, Submittable
<1> QED
  BY <1>1 DEF Consume, RecordsOK

\* A packet that is observed without a rule hit, in either direction.
LEMMA ObserveAndExtractHolds ==
  ASSUME IInv, NEW p \in Packet, cpc = "loop", ObserveAndExtract(p),
         \/ p.direction = "OUTBOUND"
         \/ p.direction = "INBOUND" /\ ~is_blocked(p.tuple.src_ip, now) /\ ~Violates(p),
         UNCHANGED <<now, blocks, tick>>
  PROVE  /\ FlowsOK(flows', flow_keys_by_source', last_expiry', now')
         /\ StatsOK(source_stats', last_expiry', now')
         /\ RecordsOK'
         /\ \A r \in submitted' \ submitted : r.first_seen >= last_expiry[r.src_ip]
<1> DEFINE fl    == FM!UpdatedFlows(flows, p, now)
           index == FM!UpdatedIndex(flows, flow_keys_by_source, p)
           done  == CompletedBy(fl, p)
<1>1. /\ flows' = FM!Erased(fl, done) /\ flow_keys_by_source' = FM!Unindexed(index, done)
      /\ source_stats' = FM!ObservedStats(flows, source_stats, p, now)
      /\ Consume({[key |-> k, flow |-> fl[k]] : k \in done})
  BY DEF ObserveAndExtract
<1>2. /\ now \in Nat /\ now' = now /\ Sampled = now /\ last_expiry' = last_expiry
      /\ last_expiry \in [FM!Source -> Nat] /\ drained' = drained
      /\ p.tuple.src_ip \in FM!Source
  BY PacketTuple DEF IInv, TimeOK, BlocksOK, Sampled, blocks, tick
<1>3. p.direction = "OUTBOUND" \/ now >= last_expiry[p.tuple.src_ip]
  BY <1>2, NotBlocked DEF IInv
<1>4. FlowsOK(fl, index, last_expiry, now)
  BY <1>2, <1>3, ObservedFlowsOK DEF IInv
<1>5. done \in SUBSET DOMAIN fl
  BY DEF CompletedBy, FM!Completed, FM!Lookup
<1>6. /\ FlowsOK(flows', flow_keys_by_source', last_expiry, now)
      /\ EndedOK({[key |-> k, flow |-> fl[k]] : k \in done}, last_expiry)
  <2> HIDE DEF fl, index, done
  <2> QED
    BY <1>1, <1>4, <1>5, ErasedFlowsOK
<1>7. /\ RecordsOK'
      /\ \A r \in submitted' \ submitted : r.first_seen >= last_expiry[r.src_ip]
  <2> HIDE DEF fl, done
  <2> QED
    BY <1>1, <1>2, <1>6, ConsumeRecords DEF IInv, RecordsOK
<1>8. StatsOK(source_stats', last_expiry, now)
  <2>1. CASE p.direction = "OUTBOUND"
    <3>1. source_stats' = source_stats
      BY <1>1, <2>1 DEF FM!ObservedStats, FM!CountsForRules
    <3> QED
      BY <3>1 DEF IInv
  <2>2. CASE ~Violates(p)
    <3> DEFINE e == last_expiry[p.tuple.src_ip]
    <3>1. e \in Nat /\ last_expiry = [last_expiry EXCEPT ![p.tuple.src_ip] = e]
      BY <1>2
    <3>2. StatsOK(source_stats, last_expiry, now) /\ e >= last_expiry[p.tuple.src_ip]
      BY <3>1 DEF IInv
    <3>3. ~ (/\ FM!StatsReturned(flows, source_stats, p, now)
             /\ RuleHit(FM!ObservedStats(flows, source_stats, p, now)[p.tuple.src_ip]))
      BY <2>2 DEF Violates
    <3> HIDE DEF e
    <3>4. StatsOK(FM!ObservedStats(flows, source_stats, p, now),
                  [last_expiry EXCEPT ![p.tuple.src_ip] = e], now)
      BY <1>2, <3>1, <3>2, <3>3, ObservedStatsOK
    <3> QED
      BY <1>1, <3>1, <3>4
  <2> QED
    BY <2>1, <2>2
<1> QED
  BY <1>2, <1>6, <1>7, <1>8

\* A packet that is decided without being observed.
LEMMA UnobservedHolds ==
  ASSUME IInv, NEW p \in Packet, InboundUnobserved(p) \/ OutboundUnobserved(p)
  PROVE  IInv'
<1>1. UNCHANGED <<now, blocks, tables, tick, client>> /\ cpc = "loop"
  BY DEF InboundUnobserved, OutboundUnobserved
<1>2. DropIffBlocked'
  <2>1. CASE InboundUnobserved(p)
    BY <1>1, <2>1 DEF InboundUnobserved, IInv, BlocksOK, is_whitelisted, is_blocked,
       BL!IsBlocked, Verdict, DropIffBlocked, blocks
  <2>2. CASE OutboundUnobserved(p)
    BY <2>2 DEF OutboundUnobserved, Verdict, DropIffBlocked
  <2> QED
    BY <2>1, <2>2
<1> QED
  BY <1>1, <1>2 DEF IInv, TimeOK, Phases, BlocksOK, Ledger, Sampled, RecordsOK, blocks, tables,
     tick, client

\* A packet that is observed and accepted.
LEMMA PassedHolds ==
  ASSUME IInv, NEW p \in Packet, InboundPassed(p) \/ OutboundObserved(p)
  PROVE  /\ IInv'
         /\ \A r \in submitted' \ submitted : r.first_seen >= last_expiry[r.src_ip]
<1>1. /\ UNCHANGED <<now, blocks, tick>> /\ cpc = "loop" /\ Verdict(p, TRUE)
      /\ ObserveAndExtract(p)
      /\ \/ p.direction = "OUTBOUND"
         \/ p.direction = "INBOUND" /\ ~is_blocked(p.tuple.src_ip, now) /\ ~Violates(p)
  BY DEF InboundPassed, OutboundObserved, InboundObserved
<1>2. /\ FlowsOK(flows', flow_keys_by_source', last_expiry', now')
      /\ StatsOK(source_stats', last_expiry', now')
      /\ RecordsOK'
      /\ \A r \in submitted' \ submitted : r.first_seen >= last_expiry[r.src_ip]
  BY <1>1, ObserveAndExtractHolds
<1>3. DropIffBlocked'
  BY <1>1 DEF is_blocked, BL!IsBlocked, Verdict, DropIffBlocked, blocks
<1>4. TimeOK' /\ Phases' /\ BlocksOK' /\ EndedOK(expired', last_expiry')
  BY <1>1 DEF IInv, TimeOK, Phases, BlocksOK, Ledger, Sampled, blocks, tick
<1> QED
  BY <1>2, <1>3, <1>4 DEF IInv

\* A packet that trips a rule.
LEMMA RuleHitHolds ==
  ASSUME IInv, NEW p \in Packet, InboundRuleHit(p)
  PROVE  IInv'
<1> DEFINE src   == p.tuple.src_ip
           fl    == FM!UpdatedFlows(flows, p, now)
           index == FM!UpdatedIndex(flows, flow_keys_by_source, p)
           e     == now + TTL
<1>1. /\ UNCHANGED <<now, tick, client>> /\ cpc = "loop" /\ p.direction = "INBOUND"
      /\ ~is_blocked(src, now) /\ src \in FM!Source \ WHITELIST
      /\ Block(src, now) /\ Verdict(p, FALSE)
      /\ source_stats' = FM!ObservedStats(flows, source_stats, p, now)
  BY PacketTuple DEF InboundRuleHit, InboundObserved, is_whitelisted
<1>2. /\ now \in Nat /\ now' = now /\ Sampled = now /\ last_expiry \in [FM!Source -> Nat]
      /\ TTL \in Nat \ {0} /\ expired = {} /\ expired' = {}
  BY <1>1, CaptureAssumption DEF IInv, TimeOK, Phases, BlocksOK, Sampled, tick
<1>3. BlocksOK' /\ last_expiry' = [last_expiry EXCEPT ![src] = e] /\ e \in Nat
  BY <1>1, <1>2, BlockHolds DEF IInv, tick
<1>4. last_expiry[src] <= now
  BY <1>1, <1>2, NotBlocked DEF IInv
<1>5. FlowsOK(fl, index, last_expiry, now)
  <2>1. now >= last_expiry[p.tuple.src_ip]
    BY <1>1, <1>2, <1>4
  <2> QED
    BY <1>2, <2>1, ObservedFlowsOK DEF IInv
<1>6. FlowsOK(flows', flow_keys_by_source', last_expiry', now')
  <2>1. /\ flows' = FM!Erased(fl, FM!KeysOf(index, src))
        /\ flow_keys_by_source' = FM!Erased(index, {src})
    BY DEF InboundRuleHit, Discard
  <2> HIDE DEF fl, index, e, src
  <2> QED
    BY <1>1, <1>2, <1>3, <1>5, <2>1, DiscardedFlowsOK
<1>7. StatsOK(source_stats', last_expiry', now')
  <2>1. e >= last_expiry[p.tuple.src_ip] /\ e >= now + TTL
    BY <1>1, <1>2, <1>4
  <2>2. StatsOK(source_stats, last_expiry, now)
    BY DEF IInv
  <2>3. last_expiry' = [last_expiry EXCEPT ![p.tuple.src_ip] = e] /\ e \in Nat
    BY <1>3
  <2> HIDE DEF e, src
  <2> QED
    BY <1>1, <1>2, <2>1, <2>2, <2>3, ObservedStatsOK
<1>8. DropIffBlocked'
  <2>1. is_blocked(src, now)'
    BY <1>1, <1>2 DEF Block, BL!Assigned, is_blocked, BL!IsBlocked
  <2> QED
    BY <1>1, <2>1 DEF Verdict, DropIffBlocked
<1>9. TimeOK' /\ Phases' /\ RecordsOK' /\ EndedOK(expired', last_expiry')
  BY <1>1, <1>2 DEF IInv, TimeOK, Phases, RecordsOK, EndedOK, tick, client
<1> QED
  BY <1>3, <1>6, <1>7, <1>8, <1>9 DEF IInv

\* The tick begins: it takes the decisions and the time.
LEMMA OnTickHolds ==
  ASSUME IInv, on_tick
  PROVE  IInv'
<1>1. /\ UNCHANGED <<now, blocks, tables, expired, submitted>> /\ cpc = "loop"
      /\ cpc' = "apply" /\ tick_now' = now /\ drained' = decisions /\ decisions' = {}
      /\ verdict' = {}
  BY DEF on_tick
<1>2. TimeOK' /\ Sampled' = Sampled
  BY <1>1 DEF IInv, TimeOK, Sampled
<1>3. Phases' /\ RecordsOK' /\ DropIffBlocked'
  BY <1>1 DEF IInv, Phases, RecordsOK, DropIffBlocked
<1>4. BlocksOK'
  BY <1>1, <1>2 DEF IInv, BlocksOK, Ledger, blocks
<1> QED
  BY <1>1, <1>2, <1>3, <1>4 DEF IInv, blocks, tables

\* One decision is applied, with the time of the tick.
LEMMA ApplyHolds ==
  ASSUME IInv, NEW d \in drained, apply_ai_decision(d)
  PROVE  IInv'
<1>1. /\ UNCHANGED <<now, source_stats, flow_cursor, source_cursor, cpc, tick_now, expired,
                     client, verdict>>
      /\ cpc = "apply" /\ drained' = drained \ {d}
  BY DEF apply_ai_decision
<1>2. TimeOK' /\ Phases' /\ RecordsOK' /\ verdict = {} /\ expired = {}
  BY <1>1 DEF IInv, TimeOK, Phases, RecordsOK, client
<1>3. DropIffBlocked' /\ EndedOK(expired', last_expiry')
  BY <1>1, <1>2 DEF DropIffBlocked, EndedOK
<1>4. CASE UNCHANGED <<blocks, flows, flow_keys_by_source>>
  <2>1. BlocksOK'
    BY <1>1, <1>4 DEF IInv, BlocksOK, Ledger, Sampled, blocks
  <2> QED
    BY <1>1, <1>2, <1>3, <1>4, <2>1 DEF IInv, blocks
<1>5. CASE /\ ~AlreadyHandled(d.src_ip, tick_now)
           /\ Discard(flows, flow_keys_by_source, d.src_ip)
           /\ Block(d.src_ip, tick_now)
  <2> DEFINE src == d.src_ip
             e   == tick_now + TTL
  <2>1. /\ Sampled = tick_now /\ now \in Nat /\ now' = now /\ tick_now \in Nat
        /\ TTL \in Nat /\ last_expiry \in [FM!Source -> Nat]
    BY <1>1, CaptureAssumption DEF IInv, TimeOK, BlocksOK, Sampled
  <2>2. src \in FM!Source \ WHITELIST /\ ~is_blocked(src, tick_now)
    BY <1>5 DEF IInv, RecordsOK, AlreadyHandled, is_whitelisted
  <2>3. BlocksOK' /\ last_expiry' = [last_expiry EXCEPT ![src] = e] /\ e \in Nat
    BY <1>1, <1>5, <2>1, <2>2, BlockHolds DEF IInv
  <2>4. last_expiry[src] <= tick_now
    BY <2>1, <2>2, NotBlocked DEF IInv
  <2>5. last_expiry[src] <= e
    BY <2>1, <2>2, <2>4
  <2>6. /\ flows' = FM!Erased(flows, FM!KeysOf(flow_keys_by_source, src))
        /\ flow_keys_by_source' = FM!Erased(flow_keys_by_source, {src})
    BY <1>5 DEF Discard
  <2> HIDE DEF e, src
  <2>7. FlowsOK(flows', flow_keys_by_source', last_expiry', now')
    BY <2>1, <2>2, <2>3, <2>6, DiscardedFlowsOK DEF IInv
  <2>8. StatsOK(source_stats', last_expiry', now')
    <3>1. StatsOK(source_stats, last_expiry, now) /\ e >= last_expiry[src] /\ src \in FM!Source
      BY <2>1, <2>2, <2>3, <2>5 DEF IInv
    <3>2. StatsOK(source_stats, [last_expiry EXCEPT ![src] = e], now)
      BY <2>1, <2>3, <3>1, BlockedStatsOK
    <3> QED
      BY <1>1, <2>1, <2>3, <3>2
  <2> QED
    BY <1>2, <1>3, <2>3, <2>7, <2>8 DEF IInv
<1> QED
  BY <1>4, <1>5 DEF apply_ai_decision

\* The sweep of the flow table: what times out goes to the list of ended flows.
LEMMA CleanupFlowsHolds ==
  ASSUME IInv, CleanupFlows
  PROVE  IInv'
<1> DEFINE gone == FM!ExpiredFlows(flows, flow_cursor, tick_now)
           old  == FM!ExpiredStats(source_stats, source_cursor, tick_now)
<1>1. /\ UNCHANGED <<now, blocks, tick_now, drained, client, verdict>> /\ drained = {}
      /\ cpc = "apply" /\ cpc' = "expired"
      /\ flows' = FM!Erased(flows, gone)
      /\ flow_keys_by_source' = FM!Unindexed(flow_keys_by_source, gone)
      /\ expired' = {[key |-> k, flow |-> flows[k]] : k \in gone}
      /\ source_stats' = FM!Erased(source_stats, old)
  BY DEF CleanupFlows
<1>2. /\ now' = now /\ last_expiry' = last_expiry /\ gone \in SUBSET DOMAIN flows
  BY <1>1 DEF blocks, FM!ExpiredFlows
<1>3. /\ FlowsOK(flows', flow_keys_by_source', last_expiry', now')
      /\ EndedOK(expired', last_expiry')
  <2> HIDE DEF gone, old
  <2> QED
    BY <1>1, <1>2, ErasedFlowsOK DEF IInv
<1>4. StatsOK(source_stats', last_expiry', now')
  <2> HIDE DEF gone, old
  <2> QED
    BY <1>1, <1>2, ErasedStatsOK DEF IInv
<1> HIDE DEF gone, old
<1>5. TimeOK' /\ Phases' /\ RecordsOK' /\ DropIffBlocked'
  BY <1>1 DEF IInv, TimeOK, Phases, RecordsOK, DropIffBlocked, client
<1>6. BlocksOK'
  BY <1>1 DEF IInv, BlocksOK, Ledger, Sampled, blocks
<1> QED
  BY <1>3, <1>4, <1>5, <1>6 DEF IInv

\* One of the flows that timed out goes to the client, or nowhere.
LEMMA ConsumeExpiredHolds ==
  ASSUME IInv, NEW e \in expired, ConsumeExpired(e)
  PROVE  /\ IInv'
         /\ \A r \in submitted' \ submitted : r.first_seen >= last_expiry[r.src_ip]
<1>1. /\ UNCHANGED <<now, blocks, tables, cpc, tick_now, drained, verdict>>
      /\ cpc = "expired" /\ expired' = expired \ {e} /\ Consume({e})
  BY DEF ConsumeExpired
<1>2. EndedOK({e}, last_expiry) /\ EndedOK(expired', last_expiry')
  BY <1>1 DEF IInv, EndedOK, blocks
<1>3. /\ \A r \in submitted' \ submitted : r.first_seen >= last_expiry[r.src_ip]
      /\ RecordsOK'
  BY <1>1, <1>2, ConsumeRecords DEF IInv, RecordsOK
<1>4. TimeOK' /\ Phases' /\ DropIffBlocked' /\ BlocksOK'
  BY <1>1 DEF IInv, TimeOK, Phases, DropIffBlocked, BlocksOK, Ledger, Sampled, blocks
<1> QED
  BY <1>1, <1>2, <1>3, <1>4 DEF IInv, blocks, tables

\* What the clean-up of the block list erases was over when the tick began.
LEMMA ReleasedIsOver ==
  ASSUME IInv, NEW P \in BL!Pops(expiry_heap, tick_now),
         NEW ip \in BL!Released(block_map, P)
  PROVE  block_map[ip] = last_expiry[ip] /\ last_expiry[ip] \in Nat /\ last_expiry[ip] <= tick_now
<1>1. PICK h \in P : h.ip = ip /\ h.expiry = block_map[ip]
  BY DEF BL!Released
<1>2. h.expiry <= tick_now
  BY DEF BL!Pops, BL!Due
<1>3. ip \in DOMAIN block_map /\ ip \in FM!Source
  BY DEF BL!Released, IInv, BlocksOK
<1> QED
  BY <1>1, <1>2, <1>3 DEF IInv, BlocksOK, Ledger

\* cleanup_expired() of the block list, at the end of a tick.
LEMMA CleanupBlocksHolds ==
  ASSUME IInv, CleanupBlocks
  PROVE  IInv'
<1>1. /\ UNCHANGED <<now, last_expiry, tables, drained, expired, client, verdict>>
      /\ cpc = "expired" /\ expired = {} /\ cpc' = "loop" /\ tick_now' = 0
  BY DEF CleanupBlocks
<1>2. PICK P \in BL!Pops(expiry_heap, tick_now) :
        block_map' = BL!Without(block_map, BL!Released(block_map, P))
  BY DEF CleanupBlocks
<1>3. /\ DOMAIN block_map' = DOMAIN block_map \ BL!Released(block_map, P)
      /\ \A ip \in DOMAIN block_map' : block_map'[ip] = block_map[ip]
  BY <1>2 DEF BL!Without
<1>4. TimeOK' /\ Phases' /\ RecordsOK' /\ DropIffBlocked'
  BY <1>1 DEF IInv, TimeOK, Phases, RecordsOK, DropIffBlocked, client
<1>5. Ledger'
  <2>1. /\ now \in Nat /\ tick_now \in Nat /\ tick_now <= now
        /\ Sampled = tick_now /\ Sampled' = now
        /\ last_expiry \in [FM!Source -> Nat] /\ last_expiry' = last_expiry
    BY <1>1 DEF IInv, TimeOK, BlocksOK, Sampled
  <2> SUFFICES ASSUME NEW ip \in FM!Source
               PROVE  IF ip \in DOMAIN block_map' THEN block_map'[ip] = last_expiry[ip]
                      ELSE last_expiry[ip] <= now
    BY <2>1 DEF Ledger
  <2>2. CASE ip \in BL!Released(block_map, P)
    BY <1>3, <2>1, <2>2, ReleasedIsOver
  <2>3. CASE ip \notin BL!Released(block_map, P)
    BY <1>3, <2>1, <2>3 DEF IInv, BlocksOK, Ledger
  <2> QED
    BY <2>2, <2>3
<1>6. BlocksOK'
  BY <1>1, <1>3, <1>5 DEF IInv, BlocksOK
<1> QED
  BY <1>1, <1>4, <1>6 DEF IInv, tables

\* The client's worker and the clock run at any time.
LEMMA OutsideHolds ==
  ASSUME IInv, (\E r \in submitted : ClientDecides(r)) \/ Advance
  PROVE  IInv'
<1>1. CASE \E r \in submitted : ClientDecides(r)
  <2>1. PICK r \in submitted : ClientDecides(r)
    BY <1>1
  <2>2. UNCHANGED <<now, blocks, tables, tick>> /\ verdict' = {}
    BY <2>1 DEF ClientDecides
  <2>3. RecordsOK'
    BY <2>1 DEF IInv, RecordsOK, ClientDecides, tick
  <2> QED
    BY <2>2, <2>3 DEF IInv, TimeOK, Phases, BlocksOK, Ledger, Sampled, DropIffBlocked, blocks,
       tables, tick
<1>2. CASE Advance
  <2>1. /\ UNCHANGED <<blocks, tables, tick, client>> /\ verdict' = {} /\ now' = now + 1
        /\ now \in Nat /\ now' \in Nat /\ now <= now'
    BY <1>2 DEF Advance, IInv, TimeOK
  <2>2. TimeOK' /\ Phases' /\ RecordsOK' /\ DropIffBlocked'
    BY <2>1 DEF IInv, TimeOK, Phases, RecordsOK, DropIffBlocked, tick, client
  <2>3. Sampled \in Nat /\ Sampled' \in Nat /\ Sampled <= Sampled'
    BY <2>1 DEF IInv, TimeOK, Sampled, tick
  <2>4. BlocksOK'
    BY <2>1, <2>3 DEF IInv, BlocksOK, Ledger, blocks
  <2>5. /\ FlowsOK(flows', flow_keys_by_source', last_expiry', now')
        /\ StatsOK(source_stats', last_expiry', now')
    BY <2>1, LaterOK DEF IInv, blocks, tables
  <2> QED
    BY <2>1, <2>2, <2>4, <2>5 DEF IInv, blocks, tick
<1> QED
  BY <1>1, <1>2

-----------------------------------------------------------------------------
\* Before the first packet all tables are empty.
LEMMA InitHolds ==
  ASSUME Init
  PROVE  IInv
<1>1. TimeOK /\ Phases /\ RecordsOK /\ DropIffBlocked
  BY DEF Init, FM!Init, BL!Init, TimeOK, Phases, RecordsOK, DropIffBlocked
<1>2. BlocksOK
  BY DEF Init, FM!Init, BL!Init, BlocksOK, Ledger, Sampled
<1>3. /\ FlowsOK(flows, flow_keys_by_source, last_expiry, now)
      /\ StatsOK(source_stats, last_expiry, now) /\ EndedOK(expired, last_expiry)
  BY DEF Init, FM!Init, FlowsOK, Exact, StatsOK, EndedOK
<1> QED
  BY <1>1, <1>2, <1>3 DEF IInv

\* Every packet, every step of a tick and every decision keeps the invariant.
LEMMA StepHolds ==
  ASSUME IInv, [Next]_vars
  PROVE  IInv'
<1>1. CASE \E p \in Packet : OnPacket(p)
  BY <1>1, UnobservedHolds, PassedHolds, RuleHitHolds DEF OnPacket
<1>2. CASE Tick
  BY <1>2, OnTickHolds, ApplyHolds, CleanupFlowsHolds, ConsumeExpiredHolds, CleanupBlocksHolds
     DEF Tick
<1>3. CASE (\E r \in submitted : ClientDecides(r)) \/ Advance
  BY <1>3, OutsideHolds
<1>4. CASE UNCHANGED vars
  BY <1>4 DEF IInv, TimeOK, Phases, BlocksOK, Ledger, Sampled, RecordsOK, DropIffBlocked,
     is_blocked, BL!IsBlocked, vars, blocks, tables, tick, client
<1> QED
  BY <1>1, <1>2, <1>3, <1>4 DEF Next

\* The invariant holds in every reachable state.
LEMMA Invariance == Spec => []IInv
<1>1. Init => IInv
  BY InitHolds
<1>2. IInv /\ [Next]_vars => IInv'
  BY StepHolds
<1> QED
  BY <1>1, <1>2, PTL DEF Spec

-----------------------------------------------------------------------------
\* While a source is blocked, the table holds no flow it opened: handle_inbound() and
\* apply_ai_decisions() discard them when they block, and a packet of a blocked source
\* is dropped before it is observed.  Every such flow is younger than the last block.
THEOREM NothingOfTheBlocked == Spec => []BlockedHasNoFlows
<1>1. ASSUME IInv
      PROVE  BlockedHasNoFlows
  <2> SUFFICES ASSUME NEW k \in DOMAIN flows, flows[k].origin = "REMOTE_INITIATED",
                      is_blocked(k.src_ip, now)
               PROVE  FALSE
    BY DEF BlockedHasNoFlows
  <2>1. /\ flows[k] \in FM!Flow /\ flows[k].first_seen <= now /\ k \in FM!Tuple
        /\ flows[k].first_seen >= last_expiry[k.src_ip]
    BY <1>1 DEF IInv, FlowsOK, AfterBlock
  <2>2. block_map[k.src_ip] = last_expiry[k.src_ip] /\ now < block_map[k.src_ip]
    BY <1>1, <2>1, TupleSource DEF is_blocked, BL!IsBlocked, IInv, BlocksOK, Ledger
  <2>3. now \in Nat /\ flows[k].first_seen \in Nat /\ last_expiry[k.src_ip] \in Nat
    BY <1>1, <2>1, TupleSource DEF IInv, TimeOK, BlocksOK, FM!Flow
  <2> QED
    BY <2>1, <2>2, <2>3
<1> QED
  BY <1>1, Invariance, PTL

\* The verdict on an inbound packet and the block list never disagree once the packet was
\* handled, and an outbound packet is accepted whatever is blocked: handle_inbound() and
\* handle_outbound(), the clean-up of the block list running late included.
THEOREM VerdictsFollowTheList == Spec => []DropIffBlocked
<1>1. IInv => DropIffBlocked
  BY DEF IInv
<1> QED
  BY <1>1, Invariance, PTL

\* Statistics at a threshold of a rule are those of a source that was blocked for the
\* whole time to live from their window on: no change of the statistics escapes the
\* rules, with a full flow table or a full table of sources too.
THEOREM NoHitIsMissed == Spec => []ThresholdBlocks
<1>1. IInv => ThresholdBlocks
  BY DEF IInv, StatsOK, ThresholdBlocks, RuleHit, PortScan, SynFlood
<1> QED
  BY <1>1, Invariance, PTL

\* No flow record reaches the AI client with traffic from before the end of the last
\* block of its source, although the flows that time out are consumed with another
\* sample of the clock than the one they were swept with.
THEOREM NothingResurfaces == Spec => SubmittedAfterBlock
<1>1. IInv /\ [Next]_vars
        => [\A r \in submitted' \ submitted : r.first_seen >= last_expiry[r.src_ip]]_vars
  <2> SUFFICES ASSUME IInv, Next
               PROVE  \A r \in submitted' \ submitted : r.first_seen >= last_expiry[r.src_ip]
    OBVIOUS
  <2>1. CASE \E p \in Packet : InboundPassed(p) \/ OutboundObserved(p)
    BY <2>1, PassedHolds
  <2>2. CASE \E e \in expired : ConsumeExpired(e)
    BY <2>2, ConsumeExpiredHolds
  <2>3. CASE \/ \E p \in Packet : \/ InboundUnobserved(p) \/ OutboundUnobserved(p)
                                   \/ InboundRuleHit(p)
             \/ \E d \in drained : apply_ai_decision(d)
             \/ CleanupFlows \/ CleanupBlocks \/ on_tick \/ Advance
    <3>1. submitted' = submitted
      BY <2>3 DEF InboundUnobserved, OutboundUnobserved, InboundRuleHit, apply_ai_decision,
         CleanupFlows, CleanupBlocks, on_tick, Advance, client
    <3> QED
      BY <3>1
  <2>4. CASE \E r \in submitted : ClientDecides(r)
    BY <2>4 DEF ClientDecides
  <2> QED
    BY <2>1, <2>2, <2>3, <2>4 DEF Next, OnPacket, Tick
<1> QED
  BY <1>1, Invariance, PTL DEF Spec, SubmittedAfterBlock

\* block() on an address whose block runs is never reached, and the clean-up erases
\* nothing that runs, stale heap entries of earlier blocks included: a block lasts
\* exactly as long as it was given when it began.
THEOREM BlocksRunTheirTime == Spec => RunningBlockKept
<1> DEFINE Kept == \A ip \in DOMAIN block_map :
                     now' < block_map[ip]
                       => ip \in DOMAIN block_map' /\ block_map'[ip] = block_map[ip]
<1>1. ASSUME IInv, NEW ip, NEW t \in Nat, t <= now, now' = now, ~is_blocked(ip, t), Block(ip, t)
      PROVE  Kept
  <2>1. /\ DOMAIN block_map' = DOMAIN block_map \cup {ip}
        /\ \A x \in DOMAIN block_map : x # ip => block_map'[x] = block_map[x]
    BY <1>1 DEF Block, BL!Assigned
  <2>2. ip \in DOMAIN block_map => block_map[ip] \in Nat /\ now \in Nat /\ ~(now < block_map[ip])
    BY <1>1 DEF is_blocked, BL!IsBlocked, IInv, TimeOK, BlocksOK, Ledger
  <2> QED
    BY <1>1, <2>1, <2>2
<1>2. ASSUME IInv, Next
      PROVE  Kept
  <2>1. CASE \E p \in Packet : InboundRuleHit(p)
    <3>1. PICK p \in Packet : InboundRuleHit(p)
      BY <2>1
    <3>2. /\ now \in Nat /\ now <= now /\ now' = now /\ ~is_blocked(p.tuple.src_ip, now)
          /\ Block(p.tuple.src_ip, now)
      BY <1>2, <3>1 DEF InboundRuleHit, InboundObserved, IInv, TimeOK
    <3> QED
      BY <1>1, <1>2, <3>2
  <2>2. CASE \E d \in drained : apply_ai_decision(d)
    <3>1. PICK d \in drained : apply_ai_decision(d)
      BY <2>2
    <3>2. tick_now \in Nat /\ tick_now <= now /\ now' = now
      BY <1>2, <3>1 DEF apply_ai_decision, IInv, TimeOK
    <3>3. \/ UNCHANGED block_map
          \/ ~is_blocked(d.src_ip, tick_now) /\ Block(d.src_ip, tick_now)
      BY <3>1 DEF apply_ai_decision, AlreadyHandled, blocks
    <3> QED
      BY <1>1, <1>2, <3>2, <3>3
  <2>3. CASE CleanupBlocks
    <3>1. PICK P \in BL!Pops(expiry_heap, tick_now) :
            block_map' = BL!Without(block_map, BL!Released(block_map, P))
      BY <2>3 DEF CleanupBlocks
    <3>2. /\ DOMAIN block_map' = DOMAIN block_map \ BL!Released(block_map, P)
          /\ \A ip \in DOMAIN block_map' : block_map'[ip] = block_map[ip]
      BY <3>1 DEF BL!Without
    <3>3. now \in Nat /\ tick_now \in Nat /\ tick_now <= now /\ now' = now
      BY <1>2, <2>3 DEF CleanupBlocks, IInv, TimeOK
    <3>4. ASSUME NEW ip \in BL!Released(block_map, P)
          PROVE  ~(now' < block_map[ip])
      BY <1>2, <3>3, ReleasedIsOver
    <3> QED
      BY <3>2, <3>4
  <2>4. CASE \/ \E p \in Packet : \/ InboundUnobserved(p) \/ OutboundUnobserved(p)
                                   \/ InboundPassed(p) \/ OutboundObserved(p)
             \/ \E e \in expired : ConsumeExpired(e)
             \/ \E r \in submitted : ClientDecides(r)
             \/ CleanupFlows \/ on_tick \/ Advance
    <3>1. block_map' = block_map
      BY <2>4 DEF InboundUnobserved, OutboundUnobserved, InboundPassed, OutboundObserved,
         ConsumeExpired, ClientDecides, CleanupFlows, on_tick, Advance, blocks
    <3> QED
      BY <3>1
  <2> QED
    BY <1>2, <2>1, <2>2, <2>3, <2>4 DEF Next, OnPacket, Tick
<1>3. IInv /\ [Next]_vars => [Kept]_vars
  BY <1>2
<1> QED
  BY <1>3, Invariance, PTL DEF Spec, RunningBlockKept
=============================================================================
