------------------------- MODULE MCQueryAttribution -------------------------
(* QueryAttribution for TLC: the constants are given in the .cfg files.    *)
EXTENDS QueryAttribution
=============================================================================
