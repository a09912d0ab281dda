------------------------ MODULE MCFirewallQueueGuard ------------------------
\* FirewallQueueGuard has no parameters and finitely many states.
EXTENDS FirewallQueueGuard
=============================================================================
