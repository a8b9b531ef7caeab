----------------------------- MODULE MCBtusbSco ------------------------------
(* Two senders, air modes with different settings, and enough notifications  *)
(* for connect, disconnect and reconnect with the other codec.              *)
EXTENDS BtusbSco, TLC
CONSTANTS s1, s2
MCAltFor == ("cvsd" :> 2) @@ ("transp" :> 3)
=============================================================================
