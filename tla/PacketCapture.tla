---------------------------- MODULE PacketCapture ----------------------------
(***************************************************************************)
(* capture/packet_capture.cpp: what the capture thread does with a packet  *)
(* and in its tick.  It composes FlowManager and BlockList, which belong   *)
(* to this thread, with the rules (detect/) and the whitelist; the AI      *)
(* client is outside: it keeps or drops the flow records it is given and   *)
(* may return a decision on one at any time.                               *)
(*                                                                         *)
(* Handling a packet is one step.  A tick is several, because the clock    *)
(* goes on and the client's worker runs while on_tick() works with the     *)
(* time it sampled at its start; consume_flow() samples the clock anew.    *)
(* The statistics counters and the notification of the user are left out.  *)
(***************************************************************************)
EXTENDS Naturals, FiniteSets

CONSTANTS
  Packet,          \* [tuple, flags, direction, has_ports] records that may arrive
  WHITELIST,       \* addresses of the whitelist
  PORT_THRESHOLD,  \* distinct_port_threshold
  SYN_THRESHOLD,   \* syn_threshold
  TTL,             \* block_ttl_seconds
  MAX_EXPIRY_CLEANUPS_PER_TICK,
  WINDOW, FLOW_TIMEOUT, MAX_FLOWS, MAX_SOURCES, BUCKETS, MIN_QUOTA,
  FlowBucket, SourceBucket,
  CLIENT_CAPACITY, \* records and decisions the client holds
  MaxTime          \* bound: the clock stops here

VARIABLES
  now,             \* Clock::now() in seconds
  block_map, expiry_heap,
  flows, flow_keys_by_source, source_stats, flow_cursor, source_cursor,
  cpc,             \* where the capture thread is: in its loop or in on_tick()
  tick_now,        \* local now of on_tick()
  drained,         \* what drain_decisions() returned and is not applied yet
  expired,         \* local expired of on_tick(), the part not consumed yet
  verdict,         \* of the packet just handled: {} or one [src_ip, direction, accept]
  submitted,       \* records with the client
  decisions,       \* decisions the client holds for the next tick
  last_expiry      \* history: when the last block of an address ends or ended

\* SYNs beyond the threshold need not be told apart.
FM == INSTANCE FlowManager WITH SYN_CAP <- SYN_THRESHOLD
\* The bound on the heap is for BlockList by itself.
BL == INSTANCE BlockList WITH IP <- FM!Source, MaxHeap <- 0

ASSUME CaptureAssumption == TTL \in Nat \ {0} /\ SYN_THRESHOLD \in Nat

blocks == <<block_map, expiry_heap, last_expiry>>
tables == <<flows, flow_keys_by_source, source_stats, flow_cursor, source_cursor>>
tick   == <<cpc, tick_now, drained, expired>>
client == <<submitted, decisions>>
vars   == <<now, blocks, tables, tick, client, verdict>>

-----------------------------------------------------------------------------
(* Whitelist, rules, and the shared parts of the handlers. *)

is_whitelisted(ip) == ip \in WHITELIST

is_blocked(ip, t) == BL!IsBlocked(block_map, ip, t)

\* is_match() of the two rules.
PortScan(stats) == Cardinality(stats.recent_dst_ports) >= PORT_THRESHOLD
SynFlood(stats) == stats.syn_count >= SYN_THRESHOLD

\* Bug: the port rule fires beyond its threshold, not at it.
RuleHitLate(stats) ==
  Cardinality(stats.recent_dst_ports) > PORT_THRESHOLD \/ SynFlood(stats)

\* RuleEngine::check over the rules.
RuleHit(stats) == PortScan(stats) \/ SynFlood(stats)

\* block_list_.block(ip, ttl, t)
Block(ip, t) ==
  /\ block_map' = BL!Assigned(block_map, ip, t + TTL)
  /\ expiry_heap' = BL!Pushed(expiry_heap, ip, t + TTL)
  /\ last_expiry' = [last_expiry EXCEPT ![ip] = t + TTL]

\* Bug: only the index is cleared.
DiscardIndexOnly(fl, index, src) ==
  /\ flows' = fl
  /\ flow_keys_by_source' = FM!Erased(index, {src})

\* flow_manager_.discard_source_flows(src) on the tables given.
Discard(fl, index, src) ==
  /\ flows' = FM!Erased(fl, FM!KeysOf(index, src))
  /\ flow_keys_by_source' = FM!Erased(index, {src})

\* The conditions of consume_flow: an ended flow goes to the client.
Submittable(key, flow, t) ==
  /\ flow.origin = "REMOTE_INITIATED"
  /\ flow.packets > 1
  /\ ~is_whitelisted(key.src_ip)
  /\ ~is_blocked(key.src_ip, t)

RecordOf(key, flow) == [src_ip |-> key.src_ip, first_seen |-> flow.first_seen]

\* consume_flow for a set of at most one ended flow; the client may drop it.
Consume(ended) ==
  LET records == {RecordOf(e.key, e.flow) : e \in
                    {x \in ended : Submittable(x.key, x.flow, now)}}
  IN  /\ \/ submitted' = submitted
         \/ /\ Cardinality(submitted) + Cardinality(decisions) < CLIENT_CAPACITY
            /\ submitted' = submitted \cup records
      /\ UNCHANGED decisions

Verdict(p, accept) ==
  verdict' = {[src_ip |-> p.tuple.src_ip, direction |-> p.direction, accept |-> accept]}

\* extract_completed for the packet's flow.
CompletedBy(fl, p) == FM!Completed(fl, p.tuple)

\* observe_packet without a rule hit, extract_completed and consume_flow.
ObserveAndExtract(p) ==
  LET fl    == FM!UpdatedFlows(flows, p, now)
      index == FM!UpdatedIndex(flows, flow_keys_by_source, p)
      done  == CompletedBy(fl, p)
  IN  /\ flows' = FM!Erased(fl, done)
      /\ flow_keys_by_source' = FM!Unindexed(index, done)
      /\ source_stats' = FM!ObservedStats(flows, source_stats, p, now)
      /\ Consume({[key |-> k, flow |-> fl[k]] : k \in done})
      /\ UNCHANGED <<flow_cursor, source_cursor>>

\* observe_packet returns statistics and a rule fires on them.
Violates(p) ==
  /\ FM!StatsReturned(flows, source_stats, p, now)
  /\ RuleHit(FM!ObservedStats(flows, source_stats, p, now)[p.tuple.src_ip])

-----------------------------------------------------------------------------
Init ==
  /\ FM!Init /\ BL!Init
  /\ cpc = "loop" /\ tick_now = 0 /\ drained = {} /\ expired = {}
  /\ verdict = {}
  /\ submitted = {} /\ decisions = {}
  /\ last_expiry = [ip \in FM!Source |-> 0]

\* handle_inbound when it returns before observing the packet.
InboundUnobserved(p) ==
  /\ cpc = "loop" /\ p.direction = "INBOUND"
  /\ \/ is_whitelisted(p.tuple.src_ip) /\ Verdict(p, TRUE)
     \/ /\ ~is_whitelisted(p.tuple.src_ip)
        /\ is_blocked(p.tuple.src_ip, now) /\ Verdict(p, FALSE)
     \/ /\ ~is_whitelisted(p.tuple.src_ip) /\ ~is_blocked(p.tuple.src_ip, now)
        /\ ~p.has_ports /\ Verdict(p, TRUE)
  /\ UNCHANGED <<now, blocks, tables, tick, client>>

InboundObserved(p) ==
  /\ cpc = "loop" /\ p.direction = "INBOUND"
  /\ ~is_whitelisted(p.tuple.src_ip) /\ ~is_blocked(p.tuple.src_ip, now)
  /\ p.has_ports

\* Bug: the packet that trips the rule is let through.
InboundRuleHitAccepted(p) ==
  /\ InboundObserved(p) /\ Violates(p)
  /\ source_stats' = FM!ObservedStats(flows, source_stats, p, now)
  /\ Discard(FM!UpdatedFlows(flows, p, now),
             FM!UpdatedIndex(flows, flow_keys_by_source, p), p.tuple.src_ip)
  /\ Block(p.tuple.src_ip, now)
  /\ Verdict(p, TRUE)
  /\ UNCHANGED <<now, flow_cursor, source_cursor, tick, client>>

\* handle_inbound when a rule fires: discard, block, drop.
InboundRuleHit(p) ==
  /\ InboundObserved(p) /\ Violates(p)
  /\ source_stats' = FM!ObservedStats(flows, source_stats, p, now)
  /\ Discard(FM!UpdatedFlows(flows, p, now),
             FM!UpdatedIndex(flows, flow_keys_by_source, p), p.tuple.src_ip)
  /\ Block(p.tuple.src_ip, now)
  /\ Verdict(p, FALSE)
  /\ UNCHANGED <<now, flow_cursor, source_cursor, tick, client>>

\* handle_inbound when no rule fires.
InboundPassed(p) ==
  /\ InboundObserved(p) /\ ~Violates(p)
  /\ ObserveAndExtract(p)
  /\ Verdict(p, TRUE)
  /\ UNCHANGED <<now, blocks, tick>>

\* handle_outbound to a whitelisted or blocked address, or without ports.
OutboundUnobserved(p) ==
  /\ cpc = "loop" /\ p.direction = "OUTBOUND"
  /\ \/ is_whitelisted(p.tuple.dst_ip)
     \/ is_blocked(p.tuple.dst_ip, now)
     \/ ~p.has_ports
  /\ Verdict(p, TRUE)
  /\ UNCHANGED <<now, blocks, tables, tick, client>>

\* handle_outbound otherwise.
OutboundObserved(p) ==
  /\ cpc = "loop" /\ p.direction = "OUTBOUND"
  /\ ~is_whitelisted(p.tuple.dst_ip) /\ ~is_blocked(p.tuple.dst_ip, now)
  /\ p.has_ports
  /\ ObserveAndExtract(p)
  /\ Verdict(p, TRUE)
  /\ UNCHANGED <<now, blocks, tick>>

-----------------------------------------------------------------------------

\* on_tick(): sample the clock and take the decisions.
on_tick ==
  /\ cpc = "loop"
  /\ cpc' = "apply" /\ tick_now' = now
  /\ drained' = decisions /\ decisions' = {}
  /\ verdict' = {}
  /\ UNCHANGED <<now, blocks, tables, expired, submitted>>

\* Bug: a decision about a blocked source starts its block again.
AlreadyHandledWhitelistOnly(ip, t) == is_whitelisted(ip)

\* apply_ai_decisions skips a whitelisted or already blocked source.
AlreadyHandled(ip, t) == is_whitelisted(ip) \/ is_blocked(ip, t)

\* apply_ai_decisions: one decision.
apply_ai_decision(d) ==
  /\ cpc = "apply" /\ d \in drained
  /\ drained' = drained \ {d}
  /\ \/ AlreadyHandled(d.src_ip, tick_now)
        /\ UNCHANGED <<blocks, flows, flow_keys_by_source>>
     \/ /\ ~AlreadyHandled(d.src_ip, tick_now)
        /\ Discard(flows, flow_keys_by_source, d.src_ip)
        /\ Block(d.src_ip, tick_now)
  /\ UNCHANGED <<now, source_stats, flow_cursor, source_cursor, cpc, tick_now, expired,
                 client, verdict>>

\* flow_manager_.cleanup_expired(now)
CleanupFlows ==
  /\ cpc = "apply" /\ drained = {}
  /\ LET gone == FM!ExpiredFlows(flows, flow_cursor, tick_now)
     IN  /\ flows' = FM!Erased(flows, gone)
         /\ flow_keys_by_source' = FM!Unindexed(flow_keys_by_source, gone)
         /\ expired' = {[key |-> k, flow |-> flows[k]] : k \in gone}
  /\ source_stats' =
       FM!Erased(source_stats, FM!ExpiredStats(source_stats, source_cursor, tick_now))
  /\ flow_cursor' = FM!NextCursor(flow_cursor)
  /\ source_cursor' = FM!NextCursor(source_cursor)
  /\ cpc' = "expired"
  /\ UNCHANGED <<now, blocks, tick_now, drained, client, verdict>>

\* consume_flow for one of the flows that timed out.
ConsumeExpired(e) ==
  /\ cpc = "expired" /\ e \in expired
  /\ expired' = expired \ {e}
  /\ Consume({e})
  /\ UNCHANGED <<now, blocks, tables, cpc, tick_now, drained, verdict>>

\* block_list_.cleanup_expired(now), and back to the loop.
CleanupBlocks ==
  /\ cpc = "expired" /\ expired = {}
  /\ \E P \in BL!Pops(expiry_heap, tick_now) :
       /\ expiry_heap' = expiry_heap \ P
       /\ block_map' = BL!Without(block_map, BL!Released(block_map, P))
  /\ cpc' = "loop" /\ tick_now' = 0
  /\ UNCHANGED <<now, last_expiry, tables, drained, expired, client, verdict>>

-----------------------------------------------------------------------------
\* The client queues a decision; only anomalies are queued.
ClientDecides(r) ==
  /\ submitted' = submitted \ {r}
  /\ decisions' = decisions \cup {r}
  /\ verdict' = {}
  /\ UNCHANGED <<now, blocks, tables, tick>>

Advance ==
  /\ now < MaxTime
  /\ now' = now + 1
  /\ verdict' = {}
  /\ UNCHANGED <<blocks, tables, tick, client>>

\* on_packet().  A packet of an unknown hook, or without a readable IP header, is accepted
\* before any state is looked at and is not among the packets.
OnPacket(p) ==
  \/ InboundUnobserved(p) \/ InboundRuleHit(p) \/ InboundPassed(p)
  \/ OutboundUnobserved(p) \/ OutboundObserved(p)

Tick ==
  \/ on_tick
  \/ \E d \in drained : apply_ai_decision(d)
  \/ CleanupFlows
  \/ \E e \in expired : ConsumeExpired(e)
  \/ CleanupBlocks

Next ==
  \/ \E p \in Packet : OnPacket(p)
  \/ Tick
  \/ \E r \in submitted : ClientDecides(r)
  \/ Advance

Spec == Init /\ [][Next]_vars

\* The loop of PacketSource reaches its tick whatever arrives, and a tick is a bounded
\* sequence of calls that do not wait.
FairSpec == Spec /\ WF_vars(Tick)

-----------------------------------------------------------------------------
(***************************************************************************)
(* Properties.                                                             *)
(***************************************************************************)
\* While a source is blocked there is no flow it opened: blocking removes them all,
\* through the index, and nothing of a blocked source is observed.
BlockedHasNoFlows ==
  \A k \in DOMAIN flows :
    flows[k].origin = "REMOTE_INITIATED" => ~is_blocked(k.src_ip, now)

\* An inbound packet is dropped exactly when its source is blocked once it was handled:
\* the packet that trips a rule is the first one dropped.  An outbound packet never is,
\* not even when the host has blocked itself over its own loopback traffic.
DropIffBlocked ==
  \A v \in verdict :
    v.accept <=> v.direction = "OUTBOUND" \/ ~is_blocked(v.src_ip, now)

\* No source gets away with statistics at a threshold: it was blocked for it.
ThresholdBlocks ==
  \A s \in DOMAIN source_stats :
    \/ Cardinality(source_stats[s].recent_dst_ports) >= PORT_THRESHOLD
    \/ source_stats[s].syn_count >= SYN_THRESHOLD
    => last_expiry[s] >= source_stats[s].window_start + TTL

\* What the client is given never holds traffic from before the end of a block: a
\* flow cut off by a block does not resurface when the block is over.
SubmittedAfterBlock ==
  [][\A r \in submitted' \ submitted : r.first_seen >= last_expiry[r.src_ip]]_vars

\* A running block is neither prolonged nor cut short, by repeated decisions or by
\* the clean-up of old heap entries.
RunningBlockKept ==
  [][\A ip \in DOMAIN block_map :
       now' < block_map[ip]
         => ip \in DOMAIN block_map' /\ block_map'[ip] = block_map[ip]]_vars

=============================================================================
