--------------------------- MODULE MCPipeWireBridge --------------------------
(* Two slots and more frames than slots, so that both sides meet a full and *)
(* an empty ring; buffers smaller than, as large as and larger than a slot. *)
EXTENDS PipeWireBridge
=============================================================================
