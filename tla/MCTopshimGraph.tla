--------------------------- MODULE MCTopshimGraph ----------------------------
(* Two utterances of two frames; the channels hold one or two messages, so  *)
(* that senders meet full channels.                                         *)
EXTENDS TopshimGraph
=============================================================================
