------------------------------ MODULE MCTopshim ------------------------------
(* The topshim demo.  The actors: two utterances of two frames, and channels *)
(* that hold one or two messages, so that senders meet full ones.  The       *)
(* capture frames: three over a table of four descriptors, so that with two  *)
(* leases alive a third capture runs out at every step of its construction.  *)
(*                                                                           *)
(* The two models share no variable and every property speaks of one of      *)
(* them, so TLC need not interleave them: one moves while the other rests in *)
(* its initial state.  The fairness is that of the actors: a behaviour in    *)
(* which only frames move is not fair to them, and serves the invariants.    *)
EXTENDS TopshimGraph, HardwareFrame

VARIABLE moving  \* the half that moves

TopshimInit == moving \in {"actors", "frames"} /\ Init /\ FrameInit

TopshimNext ==
  /\ \/ moving = "actors" /\ Next /\ UNCHANGED frameVars
     \/ moving = "frames" /\ FrameNext /\ UNCHANGED vars
  /\ UNCHANGED moving

TopshimSpec == TopshimInit /\ [][TopshimNext]_<<vars, frameVars, moving>> /\ GraphFairness
=============================================================================
