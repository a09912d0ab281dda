----------------------------- MODULE MCBlockList -----------------------------
\* BlockList with two addresses, blocks of two seconds and at most two pops per tick,
\* up to four heap entries.
EXTENDS BlockList
=============================================================================
