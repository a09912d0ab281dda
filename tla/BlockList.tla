------------------------------ MODULE BlockList ------------------------------
(***************************************************************************)
(* response/block_list.cpp: the blocked addresses.  block_map_ is the      *)
(* truth; expiry_heap_ is a min-heap of (expiry, ip) entries that are      *)
(* never updated in place: prolonging a block pushes a second entry and    *)
(* leaves the first one to be recognised as stale when it is popped.       *)
(*                                                                         *)
(* The heap is the set of its entries; "copy" tells equal (expiry, ip)     *)
(* pairs apart, so that the set has the size of the heap.                  *)
(*                                                                         *)
(* The operators on values (Assigned, Pushed, Pops, Released) are used by  *)
(* PacketCapture as well; the actions below exercise the class by itself.  *)
(***************************************************************************)
EXTENDS Naturals, FiniteSets

CONSTANTS
  IP,                            \* addresses
  TTL,                           \* block_ttl_seconds
  MAX_EXPIRY_CLEANUPS_PER_TICK,  \* 16384 in the code
  MaxTime,                       \* bound: the clock stops here
  MaxHeap                        \* bound: number of heap entries

ASSUME BlockListAssumption ==
  /\ TTL \in Nat \ {0}
  /\ MAX_EXPIRY_CLEANUPS_PER_TICK \in Nat \ {0}
  /\ MaxTime \in Nat
  /\ MaxHeap \in Nat

VARIABLES
  now,          \* Clock::now() in seconds
  block_map,    \* block_map_: function from the listed addresses to expiries
  expiry_heap   \* expiry_heap_

vars == <<now, block_map, expiry_heap>>

HeapEntry == [expiry : Nat, ip : IP, copy : Nat]

-----------------------------------------------------------------------------
\* insert_or_assign
Assigned(map, ip, expiry) ==
  [x \in DOMAIN map \cup {ip} |-> IF x = ip THEN expiry ELSE map[x]]

\* expiry_heap_.push
Pushed(heap, ip, expiry) ==
  LET entry(n) == [expiry |-> expiry, ip |-> ip, copy |-> n]
      fresh == CHOOSE n \in 0 .. Cardinality(heap) : entry(n) \notin heap
  IN  heap \cup {entry(fresh)}

\* is_blocked
IsBlocked(map, ip, t) == ip \in DOMAIN map /\ t < map[ip]

\* The expired entries of the heap at time t.
Due(heap, t) == {h \in heap : h.expiry <= t}

\* Bug: without std::greater the priority_queue is a max-heap.
PopsLatestFirst(heap, t) ==
  {P \in SUBSET Due(heap, t) :
     /\ \A h \in P, g \in heap \ P : h.expiry >= g.expiry
     /\ Cardinality(P) <= MAX_EXPIRY_CLEANUPS_PER_TICK
     /\ \/ Cardinality(P) = MAX_EXPIRY_CLEANUPS_PER_TICK
        \/ \E g \in heap \ P : g.expiry > t
        \/ P = Due(heap, t)}

\* The sets of entries one clean-up may pop: the earliest ones, in any order
\* among equals, all that are due up to the limit per tick.
Pops(heap, t) ==
  {P \in SUBSET Due(heap, t) :
     /\ \A h \in P, g \in heap \ P : h.expiry <= g.expiry
     /\ \/ P = Due(heap, t)
        \/ Cardinality(P) = MAX_EXPIRY_CLEANUPS_PER_TICK
     /\ Cardinality(P) <= MAX_EXPIRY_CLEANUPS_PER_TICK}

\* Bug: the popped entry is not compared with the map.
ReleasedUnchecked(map, P) == {ip \in DOMAIN map : \E h \in P : h.ip = ip}

\* Addresses erased from the map by popping P: only those whose current expiry
\* is the one of a popped entry.
Released(map, P) ==
  {ip \in DOMAIN map : \E h \in P : h.ip = ip /\ h.expiry = map[ip]}

Without(map, S) == [x \in DOMAIN map \ S |-> map[x]]

-----------------------------------------------------------------------------
Init ==
  /\ now = 0
  /\ block_map = [x \in {} |-> 0]
  /\ expiry_heap = {}

\* block(ip, ttl, now)
block(ip) ==
  /\ Cardinality(expiry_heap) < MaxHeap
  /\ block_map' = Assigned(block_map, ip, now + TTL)
  /\ expiry_heap' = Pushed(expiry_heap, ip, now + TTL)
  /\ UNCHANGED now

\* cleanup_expired(t): t was sampled when the tick began, so it may be older
\* than the clock.
cleanup_expired(t) ==
  /\ \E P \in Pops(expiry_heap, t) :
       /\ expiry_heap' = expiry_heap \ P
       /\ block_map' = Without(block_map, Released(block_map, P))
  /\ UNCHANGED now

Advance ==
  /\ now < MaxTime
  /\ now' = now + 1
  /\ UNCHANGED <<block_map, expiry_heap>>

Next ==
  \/ \E ip \in IP : block(ip)
  \/ \E t \in 0 .. now : cleanup_expired(t)
  \/ Advance

Spec == Init /\ [][Next]_vars

\* PacketSource::loop() calls the tick at least once a second while it runs, so
\* clean-ups that see the current time never cease.
FairSpec == Spec /\ WF_vars(cleanup_expired(now))

-----------------------------------------------------------------------------
(***************************************************************************)
(* Properties.                                                             *)
(***************************************************************************)
\* Types; no expiry lies further ahead than one time to live.
TypeOK ==
  /\ now \in Nat
  /\ DOMAIN block_map \subseteq IP
  /\ \A ip \in DOMAIN block_map : block_map[ip] \in TTL .. (now + TTL)
  /\ expiry_heap \subseteq HeapEntry

\* Every listed address has a heap entry with its current expiry.  Without it
\* cleanup_expired could never erase the address and the map would grow for
\* ever (block() prolonging a block is where it could break).
HeapCoversMap ==
  \A ip \in DOMAIN block_map :
    \E h \in expiry_heap : h.ip = ip /\ h.expiry = block_map[ip]

\* The verdicts of is_blocked() are those of a list without heap and clean-up:
\* erasing late, erasing in instalments and stale heap entries are invisible
\* (the comment of cleanup_expired claims it: "late deletion keeps the verdict
\* exact").
Abs == INSTANCE BlockListAbs WITH
  blocked_until <- [ip \in IP |-> IF IsBlocked(block_map, ip, now)
                                  THEN block_map[ip] ELSE 0]

RefinesAbs == Abs!AbsSpec

\* An expired address does not stay in the map: it is erased or blocked anew,
\* although each clean-up pops a limited number of entries.
ExpiredReleased ==
  \A ip \in IP :
    (ip \in DOMAIN block_map /\ block_map[ip] <= now)
      ~> ~(ip \in DOMAIN block_map /\ block_map[ip] <= now)
=============================================================================
