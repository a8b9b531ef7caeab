----------------------------- MODULE MCA2dpSmoke -----------------------------
(* Three runs; tones of one and two ticks, an empty file, one that splits a  *)
(* frame, and files of whole ticks and of a tick and a half.                 *)
EXTENDS A2dpSmoke
=============================================================================
