------------------------------ MODULE MCHfpSmoke -----------------------------
(* No delay line, or one of three samples; frames of one to four samples (a  *)
(* frame may be longer than the line and wrap it) and drain frames of two,   *)
(* so that the last drain frame is a short one; a tone of two ticks.         *)
EXTENDS HfpSmoke
=============================================================================
