----------------------------- MODULE MCMediaRing -----------------------------
(* Model-checking instances of the media ring.  The cursor modulus is a     *)
(* multiple of the slot count, as 2^64 is for every power of two, and small *)
(* enough that both cursors wrap several times around the state graph.      *)
EXTENDS MediaRing
=============================================================================
