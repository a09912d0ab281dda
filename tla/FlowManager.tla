----------------------------- MODULE FlowManager -----------------------------
(***************************************************************************)
(* flow/flow_manager.cpp: the table of two-way conversations, its index by *)
(* source address, the per-source statistics the rules look at, and the    *)
(* clean-up that sweeps a part of the buckets of each table per tick.      *)
(*                                                                         *)
(* A packet is its tuple, its TCP flags and its direction.  A flow keeps   *)
(* what decides its fate: when it began and was last seen, who opened it,  *)
(* which sides showed a FIN, whether an RST was seen.  Lengths, gaps and   *)
(* the other flag counts feed the feature vector only.                     *)
(*                                                                         *)
(* The class is used by one thread.  Its methods are operators on values,  *)
(* so that PacketCapture can call several of them in one step; the actions *)
(* below exercise them one by one.                                         *)
(***************************************************************************)
EXTENDS Naturals, FiniteSets

CONSTANTS
  Packet,          \* [tuple, flags, direction] records that may arrive
  WINDOW,          \* window_seconds_
  FLOW_TIMEOUT,    \* FLOW_TIMEOUT_SEC
  MAX_FLOWS,       \* max_flows_
  MAX_SOURCES,     \* max_sources_
  BUCKETS,         \* bucket_count() of either table, fixed by reserve()
  MIN_QUOTA,       \* fewest buckets per sweep, 64 in the code
  FlowBucket,      \* bucket of a tuple
  SourceBucket,    \* bucket of an address
  SYN_CAP,         \* bound: SYNs are counted up to here
  MaxTime          \* bound: the clock stops here

\* The forms of FiveTuple: the protocol number is left out, since it takes part in
\* comparisons only.
Reversed(tuple) ==
  [src_ip |-> tuple.dst_ip, dst_ip |-> tuple.src_ip,
   src_port |-> tuple.dst_port, dst_port |-> tuple.src_port]

Direction == {"INBOUND", "OUTBOUND"}

Tuple  == {p.tuple : p \in Packet} \cup {Reversed(p.tuple) : p \in Packet}
Source == {t.src_ip : t \in Tuple}

ASSUME FlowManagerAssumption ==
  /\ \A p \in Packet : /\ Reversed(Reversed(p.tuple)) = p.tuple
                       /\ p.direction \in Direction
  /\ WINDOW \in Nat \ {0} /\ FLOW_TIMEOUT \in Nat \ {0}
  /\ MAX_FLOWS \in Nat /\ MAX_SOURCES \in Nat
  /\ BUCKETS \in Nat \ {0} /\ MIN_QUOTA \in Nat \ {0}
  /\ FlowBucket \in [Tuple -> 0 .. BUCKETS - 1]
  /\ SourceBucket \in [Source -> 0 .. BUCKETS - 1]
  /\ SYN_CAP \in Nat /\ MaxTime \in Nat

VARIABLES
  now,                  \* Clock::now() in seconds
  flows,                \* flows_
  flow_keys_by_source,  \* flow_keys_by_source_
  source_stats,         \* source_stats_
  flow_cursor,          \* flow_cursor_
  source_cursor         \* source_cursor_

tables == <<flows, flow_keys_by_source, source_stats, flow_cursor, source_cursor>>
vars   == <<now, tables>>

\* Packets are counted up to two: all that is asked is whether there was a second.
PACKET_CAP == 2
Sides == {"forward", "backward"}

Flow == [origin : {"REMOTE_INITIATED", "LOCAL_INITIATED"},
         first_seen : Nat, last_seen : Nat, packets : 0 .. PACKET_CAP,
         fin : SUBSET Sides, rst : BOOLEAN, fin_handshake_complete : BOOLEAN]

SourceStats == [recent_dst_ports : SUBSET {t.dst_port : t \in Tuple},
                syn_count : 0 .. SYN_CAP, window_start : Nat]

\* A map without some of its keys.
Erased(map, keys) == [k \in DOMAIN map \ keys |-> map[k]]

UpTo(cap, n) == IF n > cap THEN cap ELSE n

-----------------------------------------------------------------------------
(* update_flow *)

\* Bug: the reply direction is not looked up.
LookupForwardOnly(fl, tuple) == {tuple} \cap DOMAIN fl

\* The key a packet's flow is stored under: its own tuple, else the reversed one;
\* the empty set when there is none.  (Also get_flow and extract_completed.)
Lookup(fl, tuple) ==
  IF tuple \in DOMAIN fl THEN {tuple} ELSE {Reversed(tuple)} \cap DOMAIN fl

\* The packet opens a flow of its own.
Opens(fl, tuple) == Lookup(fl, tuple) = {} /\ Cardinality(DOMAIN fl) < MAX_FLOWS

NewFlow(direction, t) ==
  [origin |-> IF direction = "OUTBOUND" THEN "LOCAL_INITIATED" ELSE "REMOTE_INITIATED",
   first_seen |-> t, last_seen |-> t, packets |-> 0, fin |-> {}, rst |-> FALSE,
   fin_handshake_complete |-> FALSE]

\* A packet of the given side.  The closing ACK only counts when both FINs were
\* there before it.
Counted(flow, side, flags, t) ==
  [flow EXCEPT
     !.packets = UpTo(PACKET_CAP, @ + 1),
     !.fin = IF "FIN" \in flags THEN @ \cup {side} ELSE @,
     !.rst = @ \/ "RST" \in flags,
     !.fin_handshake_complete =
        @ \/ (flow.fin = Sides /\ "ACK" \in flags /\ "FIN" \notin flags),
     !.last_seen = t]

UpdatedFlows(fl, p, t) ==
  LET opened == IF Opens(fl, p.tuple)
                THEN [k \in DOMAIN fl \cup {p.tuple} |->
                        IF k = p.tuple THEN NewFlow(p.direction, t) ELSE fl[k]]
                ELSE fl
      side(k) == IF k = p.tuple THEN "forward" ELSE "backward"
  IN  [k \in DOMAIN opened |->
         IF k \in Lookup(opened, p.tuple)
         THEN Counted(opened[k], side(k), p.flags, t)
         ELSE opened[k]]

KeysOf(index, src) == IF src \in DOMAIN index THEN index[src] ELSE {}

UpdatedIndex(fl, index, p) ==
  IF Opens(fl, p.tuple)
  THEN [s \in DOMAIN index \cup {p.tuple.src_ip} |->
          IF s = p.tuple.src_ip THEN KeysOf(index, s) \cup {p.tuple} ELSE index[s]]
  ELSE index

-----------------------------------------------------------------------------
(* observe_packet and update_source_stats *)

\* Whether observe_packet goes on to the statistics, given the updated flows: an
\* inbound packet without a stored flow, or the opening side of a remote flow.
CountsForRules(fl, p) ==
  /\ p.direction = "INBOUND"
  /\ \/ Lookup(fl, p.tuple) = {}
     \/ /\ p.tuple \in DOMAIN fl
        /\ fl[p.tuple].origin = "REMOTE_INITIATED"

\* A new source is refused when the table is full.
Refused(stats, src) == src \notin DOMAIN stats /\ Cardinality(DOMAIN stats) >= MAX_SOURCES

\* Bug: the window ends one second late.
WindowOverLate(s, t) == t - s.window_start > WINDOW

\* The window of an entry is over.
WindowOver(s, t) == t - s.window_start >= WINDOW

UpdatedStats(stats, p, t) ==
  LET src   == p.tuple.src_ip
      empty == [recent_dst_ports |-> {}, syn_count |-> 0, window_start |-> t]
      entry == IF src \in DOMAIN stats /\ ~WindowOver(stats[src], t)
               THEN stats[src] ELSE empty
      counted == [entry EXCEPT
                    !.recent_dst_ports = @ \cup {p.tuple.dst_port},
                    !.syn_count = IF "SYN" \in p.flags THEN UpTo(SYN_CAP, @ + 1) ELSE @]
  IN  IF Refused(stats, src) THEN stats
      ELSE [s \in DOMAIN stats \cup {src} |-> IF s = src THEN counted ELSE stats[s]]

\* The statistics after observe_packet.
ObservedStats(fl, stats, p, t) ==
  IF CountsForRules(UpdatedFlows(fl, p, t), p)
  THEN UpdatedStats(stats, p, t) ELSE stats

\* observe_packet returns the statistics of the source, not a null pointer.
StatsReturned(fl, stats, p, t) ==
  /\ CountsForRules(UpdatedFlows(fl, p, t), p)
  /\ ~Refused(stats, p.tuple.src_ip)

-----------------------------------------------------------------------------
(* extract_completed, discard_source_flows, unindex_flow *)

\* The flow of this tuple, when it is over by RST or by FINs and an ACK.
Completed(fl, tuple) ==
  {k \in Lookup(fl, tuple) : fl[k].rst \/ fl[k].fin_handshake_complete}

\* Bug: one ended flow takes its source out of the index altogether.
UnindexedSource(index, keys) == Erased(index, {k.src_ip : k \in keys})

\* unindex_flow for each of the keys: an entry that becomes empty is erased.
Unindexed(index, keys) ==
  LET left(s) == index[s] \ {k \in keys : k.src_ip = s}
      emptied == {s \in DOMAIN index : left(s) = {} /\ \E k \in keys : k.src_ip = s}
  IN  [s \in DOMAIN index \ emptied |-> left(s)]

-----------------------------------------------------------------------------
(* sweep_expired and cleanup_expired *)

Quota == IF BUCKETS \div 10 > MIN_QUOTA THEN BUCKETS \div 10 ELSE MIN_QUOTA

\* The buckets one sweep visits.
Visited(cursor) ==
  {(cursor + i) % BUCKETS : i \in {n \in 0 .. BUCKETS - 1 : n < Quota}}

\* Bug: every sweep begins at the same bucket.
NextCursorStays(cursor) == cursor

NextCursor(cursor) == (cursor + Quota) % BUCKETS

\* Flows without a packet for FLOW_TIMEOUT, as far as the sweep gets to see them.
ExpiredFlows(fl, cursor, t) ==
  {k \in DOMAIN fl :
     FlowBucket[k] \in Visited(cursor) /\ t - fl[k].last_seen >= FLOW_TIMEOUT}

ExpiredStats(stats, cursor, t) ==
  {s \in DOMAIN stats : SourceBucket[s] \in Visited(cursor) /\ WindowOver(stats[s], t)}

-----------------------------------------------------------------------------
Init ==
  /\ now = 0
  /\ flows = [k \in {} |-> {}]
  /\ flow_keys_by_source = [s \in {} |-> {}]
  /\ source_stats = [s \in {} |-> {}]
  /\ flow_cursor = 0 /\ source_cursor = 0

\* observe_packet; add_packet is the inbound case.  (A packet of an unknown hook
\* changes nothing.)
observe_packet(p) ==
  /\ flows' = UpdatedFlows(flows, p, now)
  /\ flow_keys_by_source' = UpdatedIndex(flows, flow_keys_by_source, p)
  /\ source_stats' = ObservedStats(flows, source_stats, p, now)
  /\ UNCHANGED <<now, flow_cursor, source_cursor>>

extract_completed(tuple) ==
  /\ Completed(flows, tuple) # {}
  /\ flows' = Erased(flows, Completed(flows, tuple))
  /\ flow_keys_by_source' = Unindexed(flow_keys_by_source, Completed(flows, tuple))
  /\ UNCHANGED <<now, source_stats, flow_cursor, source_cursor>>

discard_source_flows(src) ==
  /\ src \in DOMAIN flow_keys_by_source
  /\ flows' = Erased(flows, flow_keys_by_source[src])
  /\ flow_keys_by_source' = Erased(flow_keys_by_source, {src})
  /\ UNCHANGED <<now, source_stats, flow_cursor, source_cursor>>

cleanup_expired ==
  LET gone == ExpiredFlows(flows, flow_cursor, now)
  IN  /\ flows' = Erased(flows, gone)
      /\ flow_keys_by_source' = Unindexed(flow_keys_by_source, gone)
      /\ source_stats' = Erased(source_stats, ExpiredStats(source_stats, source_cursor, now))
      /\ flow_cursor' = NextCursor(flow_cursor)
      /\ source_cursor' = NextCursor(source_cursor)
      /\ UNCHANGED now

Advance ==
  /\ now < MaxTime
  /\ now' = now + 1
  /\ UNCHANGED tables

Next ==
  \/ \E p \in Packet : observe_packet(p)
  \/ \E t \in Tuple : extract_completed(t)
  \/ \E s \in Source : discard_source_flows(s)
  \/ cleanup_expired
  \/ Advance

Spec == Init /\ [][Next]_vars

\* PacketSource::loop() calls the tick, and with it cleanup_expired, at least once a
\* second while it runs.
FairSpec == Spec /\ WF_vars(cleanup_expired)

-----------------------------------------------------------------------------
(***************************************************************************)
(* Properties.                                                             *)
(***************************************************************************)
\* Types; neither table grows beyond its limit.
TypeOK ==
  /\ now \in Nat
  /\ DOMAIN flows \subseteq Tuple
  /\ \A k \in DOMAIN flows : flows[k] \in Flow
  /\ Cardinality(DOMAIN flows) <= MAX_FLOWS
  /\ DOMAIN source_stats \subseteq Source
  /\ \A s \in DOMAIN source_stats : source_stats[s] \in SourceStats
  /\ Cardinality(DOMAIN source_stats) <= MAX_SOURCES
  /\ DOMAIN flow_keys_by_source \subseteq Source
  /\ flow_cursor \in 0 .. BUCKETS - 1 /\ source_cursor \in 0 .. BUCKETS - 1

\* The index by source is exact and has no empty entries, so that blocking a source
\* reaches all of its flows and nothing leaks: four operations maintain it by hand.
IndexExact ==
  /\ DOMAIN flow_keys_by_source = {k.src_ip : k \in DOMAIN flows}
  /\ \A s \in DOMAIN flow_keys_by_source :
       flow_keys_by_source[s] = {k \in DOMAIN flows : k.src_ip = s}

\* Both directions of a conversation share one flow, whoever was seen first and
\* whatever was swept in between.
OneFlowPerConversation ==
  \A k \in DOMAIN flows : Reversed(k) \in DOMAIN flows => Reversed(k) = k

\* The counts of a source never span more than one window: a step that adds to an
\* entry without restarting it finds its window still running.
WindowsDoNotMix ==
  [][\A s \in DOMAIN source_stats \cap DOMAIN source_stats' :
       /\ source_stats'[s] # source_stats[s]
       /\ source_stats'[s].window_start = source_stats[s].window_start
       => now < source_stats[s].window_start + WINDOW]_vars

\* A flow that went silent does not stay: the sweeps, each over a part of the
\* buckets, get to it or a packet revives it.
SilentFlowsLeave ==
  \A k \in Tuple :
    LET silent == k \in DOMAIN flows /\ now - flows[k].last_seen >= FLOW_TIMEOUT
    IN  silent ~> ~silent

\* The comment of sweep_expired: erasing late does not change any verdict.  A source
\* that a table without expired entries would take is then taken by this one.
LateSweepHarmless ==
  LET live == {s \in DOMAIN source_stats : ~WindowOver(source_stats[s], now)}
  IN  \A s \in Source :
        (s \in live \/ Cardinality(live) < MAX_SOURCES) => ~Refused(source_stats, s)
=============================================================================
