----------------------------- MODULE MCUserHeap -----------------------------
EXTENDS UserHeap

\* No bytes, a few, and a product that wraps to 4 in size_t.
MCProducts == {<<0, 3>>, <<2, 3>>, <<20, 13>>}
=============================================================================
