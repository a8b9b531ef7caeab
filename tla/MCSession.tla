------------------------------ MODULE MCSession ------------------------------
(* Two clients over channels of capacity one, so that a caller waits for room *)
(* and a Configure, which emits two events, waits in the middle.  The reports *)
(* run backwards against one another in the clock and in the octets.          *)
EXTENDS Session

MCReports == {[time |-> 1, octets |-> 0], [time |-> 0, octets |-> 1]}
=============================================================================
