---------------------------- MODULE BlockListAbs ----------------------------
(***************************************************************************)
(* What a block list promises to the packet path: a blocked address stays  *)
(* blocked until its expiry and not one instant longer.  There is no map,  *)
(* no heap and no clean-up here; an address that is not blocked has the    *)
(* expiry 0.                                                               *)
(***************************************************************************)
EXTENDS Naturals

CONSTANTS
  IP,       \* addresses
  TTL       \* block_ttl_seconds

VARIABLES
  now,            \* steady clock
  blocked_until   \* [IP -> Nat]: expiry of the running block, 0 if there is none

abs_vars == <<now, blocked_until>>

\* The blocks of f that are still running at time t.
Running(f, t) == [ip \in IP |-> IF t < f[ip] THEN f[ip] ELSE 0]

AbsInit ==
  /\ now = 0
  /\ blocked_until = [ip \in IP |-> 0]

\* An address is blocked, or its block is prolonged, from this instant.
AbsBlock(ip) ==
  /\ blocked_until' = [blocked_until EXCEPT ![ip] = now + TTL]
  /\ UNCHANGED now

\* Time passes; blocks end by themselves.
AbsAdvance ==
  /\ now' \in Nat
  /\ now < now'
  /\ blocked_until' = Running(blocked_until, now')

AbsNext == AbsAdvance \/ \E ip \in IP : AbsBlock(ip)

AbsSpec == AbsInit /\ [][AbsNext]_abs_vars
=============================================================================
