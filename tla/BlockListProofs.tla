--------------------------- MODULE BlockListProofs ---------------------------
(***************************************************************************)
(* BlockList for every set of addresses, time to live, limit per tick and  *)
(* bound: types, the heap covers the map, and the verdicts are those of    *)
(* the abstract list.                                                      *)
(***************************************************************************)
EXTENDS BlockList, FiniteSetTheorems, TLAPS

\* The heap stays finite; needed to number the copies of a pushed entry.
FiniteHeap == IsFiniteSet(expiry_heap)

IInv == TypeOK /\ FiniteHeap /\ HeapCoversMap

-----------------------------------------------------------------------------
\* A finite heap cannot hold the copies 0 .. n of one entry when n is its size.
LEMMA FreshCopy ==
  ASSUME NEW heap, IsFiniteSet(heap), NEW ip, NEW expiry
  PROVE  \E n \in 0 .. Cardinality(heap) :
           [expiry |-> expiry, ip |-> ip, copy |-> n] \notin heap
<1> DEFINE N == Cardinality(heap)
           f == [n \in 0 .. N |-> [expiry |-> expiry, ip |-> ip, copy |-> n]]
<1>1. N \in Nat
  BY FS_CardinalityType
<1> SUFFICES ASSUME \A n \in 0 .. N : f[n] \in heap PROVE FALSE
  OBVIOUS
<1>2. f \in Injection(0 .. N, heap)
  BY DEF Injection, IsInjective
<1>3. Cardinality(0 .. N) <= N
  <2> HIDE DEF f
  <2> QED BY <1>2, FS_Injection
<1>4. Cardinality(0 .. N) = N + 1
  BY <1>1, FS_Interval
<1> QED BY <1>1, <1>3, <1>4

\* What a push does: it adds one entry with the given address and expiry.
LEMMA PushedEntry ==
  ASSUME NEW heap, IsFiniteSet(heap), NEW ip, NEW expiry
  PROVE  \E n \in Nat :
           Pushed(heap, ip, expiry)
             = heap \cup {[expiry |-> expiry, ip |-> ip, copy |-> n]}
<1> DEFINE entry(n) == [expiry |-> expiry, ip |-> ip, copy |-> n]
           fresh == CHOOSE n \in 0 .. Cardinality(heap) : entry(n) \notin heap
<1>1. fresh \in 0 .. Cardinality(heap)
  BY FreshCopy
<1>2. fresh \in Nat
  BY <1>1
<1>3. Pushed(heap, ip, expiry) = heap \cup {entry(fresh)}
  BY DEF Pushed
<1> HIDE DEF fresh
<1> QED BY <1>2, <1>3

-----------------------------------------------------------------------------
\* The conjunction of types, finiteness of the heap and coverage of the map is
\* inductive: every operation of block_list.cpp preserves it.
THEOREM Invariance == Spec => []IInv
<1> USE BlockListAssumption
<1>1. Init => IInv
  BY FS_EmptySet DEF Init, IInv, TypeOK, FiniteHeap, HeapCoversMap, HeapEntry
<1>2. IInv /\ [Next]_vars => IInv'
  <2> SUFFICES ASSUME IInv, [Next]_vars PROVE IInv'
    OBVIOUS
  <2> USE DEF IInv, TypeOK, FiniteHeap, HeapCoversMap
  <2>1. ASSUME NEW ip \in IP, block(ip) PROVE IInv'
    <3>1. PICK n \in Nat : expiry_heap' = expiry_heap \cup
                              {[expiry |-> now + TTL, ip |-> ip, copy |-> n]}
      BY <2>1, PushedEntry DEF block
    <3>2. now' = now /\ block_map' = Assigned(block_map, ip, now + TTL)
      BY <2>1 DEF block
    <3>3. TypeOK'
      BY <3>1, <3>2 DEF Assigned, HeapEntry
    <3>4. FiniteHeap'
      BY <3>1, FS_AddElement
    <3>5. HeapCoversMap'
      <4> SUFFICES ASSUME NEW x \in DOMAIN block_map'
                   PROVE  \E h \in expiry_heap' : h.ip = x /\ h.expiry = block_map'[x]
        OBVIOUS
      <4> DEFINE e == [expiry |-> now + TTL, ip |-> ip, copy |-> n]
      <4>1. CASE x = ip
        <5>1. e \in expiry_heap' /\ e.ip = x /\ e.expiry = now + TTL
          BY <3>1, <4>1
        <5>2. block_map'[x] = now + TTL
          BY <3>2, <4>1 DEF Assigned
        <5> QED BY <5>1, <5>2
      <4>2. CASE x # ip
        <5>1. x \in DOMAIN block_map /\ block_map'[x] = block_map[x]
          BY <3>2, <4>2 DEF Assigned
        <5>2. expiry_heap \subseteq expiry_heap'
          BY <3>1
        <5> QED BY <5>1, <5>2
      <4> QED BY <4>1, <4>2
    <3> QED BY <3>3, <3>4, <3>5
  <2>2. ASSUME NEW t \in 0 .. now, cleanup_expired(t) PROVE IInv'
    <3>1. PICK P \in Pops(expiry_heap, t) :
            /\ expiry_heap' = expiry_heap \ P
            /\ block_map' = Without(block_map, Released(block_map, P))
      BY <2>2 DEF cleanup_expired
    <3>2. now' = now
      BY <2>2 DEF cleanup_expired
    <3>3. TypeOK'
      BY <3>1, <3>2 DEF Without
    <3>4. FiniteHeap'
      BY <3>1, FS_Difference
    <3>5. HeapCoversMap'
      BY <3>1 DEF Without, Released
    <3> QED BY <3>3, <3>4, <3>5
  <2>3. CASE Advance
    BY <2>3 DEF Advance
  <2>4. CASE UNCHANGED vars
    BY <2>4 DEF vars
  <2> QED BY <2>1, <2>2, <2>3, <2>4 DEF Next
<1> QED BY <1>1, <1>2, PTL DEF Spec

\* Types and the bound on expiries hold for every instance.
THEOREM TypeCorrect == Spec => []TypeOK
<1>1. IInv => TypeOK
  BY DEF IInv
<1> QED BY <1>1, Invariance, PTL

\* Every address in block_map_ can be released by a later clean-up.
THEOREM HeapCovers == Spec => []HeapCoversMap
<1>1. IInv => HeapCoversMap
  BY DEF IInv
<1> QED BY <1>1, Invariance, PTL

-----------------------------------------------------------------------------
\* The map with its lazy heap implements the list without clean-up: what
\* is_blocked answers changes only when an address is blocked or time passes.
THEOREM Refinement == Spec => RefinesAbs
<1> USE BlockListAssumption
<1> DEFINE until == [ip \in IP |-> IF IsBlocked(block_map, ip, now)
                                   THEN block_map[ip] ELSE 0]
<1>1. Init => Abs!AbsInit
  BY DEF Init, Abs!AbsInit, IsBlocked
<1>2. IInv /\ [Next]_vars => [Abs!AbsNext]_(Abs!abs_vars)
  <2> SUFFICES ASSUME IInv, [Next]_vars
               PROVE  Abs!AbsNext \/ UNCHANGED Abs!abs_vars
    OBVIOUS
  <2> USE DEF IInv, TypeOK
  <2>1. ASSUME NEW ip \in IP, block(ip) PROVE Abs!AbsBlock(ip)
    <3>1. now' = now /\ block_map' = Assigned(block_map, ip, now + TTL)
      BY <2>1 DEF block
    <3>2. DOMAIN block_map' = DOMAIN block_map \cup {ip}
      BY <3>1 DEF Assigned
    <3>3. block_map'[ip] = now + TTL /\ now < now + TTL
      BY <3>1 DEF Assigned
    <3>4. \A x \in DOMAIN block_map : x # ip => block_map'[x] = block_map[x]
      BY <3>1 DEF Assigned
    <3>5. \A x \in IP : until'[x] = IF x = ip THEN now + TTL ELSE until[x]
      BY <3>1, <3>2, <3>3, <3>4 DEF IsBlocked
    <3>6. until' = [until EXCEPT ![ip] = now + TTL]
      BY <3>5
    <3> QED BY <3>1, <3>6 DEF Abs!AbsBlock
  <2>2. ASSUME NEW t \in 0 .. now, cleanup_expired(t)
        PROVE  UNCHANGED Abs!abs_vars
    <3>1. PICK P \in Pops(expiry_heap, t) :
            block_map' = Without(block_map, Released(block_map, P))
      BY <2>2 DEF cleanup_expired
    <3>2. now' = now
      BY <2>2 DEF cleanup_expired
    <3>3. \A ip \in Released(block_map, P) : block_map[ip] <= now
      BY <3>1 DEF Pops, Due, Released, HeapEntry
    <3>4. until' = until
      BY <3>1, <3>2, <3>3 DEF Without, IsBlocked, Released
    <3> QED BY <3>2, <3>4 DEF Abs!abs_vars
  <2>3. ASSUME Advance PROVE Abs!AbsAdvance
    <3>1. now' = now + 1 /\ block_map' = block_map
      BY <2>3 DEF Advance
    <3>2. until' = Abs!Running(until, now')
      BY <3>1 DEF Abs!Running, IsBlocked
    <3> QED BY <3>1, <3>2 DEF Abs!AbsAdvance
  <2>4. CASE UNCHANGED vars
    BY <2>4 DEF vars, Abs!abs_vars, IsBlocked
  <2> QED BY <2>1, <2>2, <2>3, <2>4 DEF Next, Abs!AbsNext
<1> QED BY <1>1, <1>2, Invariance, PTL DEF Spec, RefinesAbs, Abs!AbsSpec
=============================================================================
