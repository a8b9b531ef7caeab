------------------------------- MODULE HfpCall -------------------------------
(***************************************************************************)
(* main of src/bin/floss_hfp_smoke.rs: StartScoCall, the full-duplex test  *)
(* (here it has an outcome; HfpSmoke puts the real ones in its place), and *)
(* StopScoCall, which main goes on to whatever the test returned.  Nothing *)
(* catches Ctrl-C: the program may be killed between any two steps.        *)
(*                                                                         *)
(* Floss (external) brings an accepted call up some time later, or never;  *)
(* the headset may hang up.  Floss answers on the socketpair it was given: *)
(* the codec when the call is up, zero when a stop is complete.  The       *)
(* program holds the far end of that pair too, and never sees it closed.   *)
(***************************************************************************)
EXTENDS Naturals

VARIABLES
  pc,        \* what the program does next
  late,      \* the deadline of the current wait has passed
  startRx,   \* the start listener: "silent", "codec", "other"
  stopRx,    \* the stop listener: "silent", "zero", "other"
  test,      \* test_result: "pending", "ok", "err"
  exit,      \* "none", "ok", "err", "killed"
  accepted,  \* StartScoCall returned true
  asked,     \* StopScoCall: "no", "no listener" to issue it with, "error", "yes"
  call       \* Floss's call: "down", "starting", "up", "stopping"

vars == <<pc, late, startRx, stopRx, test, exit, accepted, asked, call>>

Init ==
  /\ pc = "set_active" /\ late = FALSE
  /\ startRx = "silent" /\ stopRx = "silent"
  /\ test = "pending" /\ exit = "none"
  /\ accepted = FALSE /\ asked = "no"
  /\ call = "down"

\* main returns.
Return(result) == pc' = "exit" /\ exit' = result

\* The test block returns; main goes on to stop_sco.
EndTest(result) == pc' = "stop" /\ test' = result

-----------------------------------------------------------------------------
\* SetHfpActiveDevice and the start listener, each with `?`.
SetActive ==
  /\ pc = "set_active"
  /\ \/ pc' = "start" /\ UNCHANGED exit
     \/ Return("err")
  /\ UNCHANGED <<late, startRx, stopRx, test, accepted, asked, call>>

\* StartScoCall: accepted, or rejected, or an error of the call, which may hide
\* a call that Floss has begun.
StartScoCall ==
  /\ pc = "start"
  /\ \/ pc' = "wait_start" /\ accepted' = TRUE /\ call' = "starting" /\ UNCHANGED exit
     \/ Return("err") /\ call' \in {"down", "starting"} /\ UNCHANGED accepted
  /\ UNCHANGED <<late, startRx, stopRx, test, asked>>

\* wait_for_listener: a byte, or ten seconds.
WaitStart ==
  /\ pc = "wait_start"
  /\ \/ startRx \in {"codec", "other"} /\ pc' = "codecs" /\ UNCHANGED test
     \/ late /\ EndTest("err")
  /\ late' = FALSE
  /\ UNCHANGED <<startRx, stopRx, exit, accepted, asked, call>>

\* GetHfpAudioFinalCodecs fails or disagrees, or both codecs are as expected.
FinalCodecs ==
  /\ pc = "codecs"
  /\ \/ startRx = "codec" /\ pc' = "connect" /\ UNCHANGED test
     \/ EndTest("err")
  /\ UNCHANGED <<late, startRx, stopRx, exit, accepted, asked, call>>

\* Seeded fault: a failure to connect leaves main at once.
ConnectOrReturn ==
  /\ pc = "connect"
  /\ \/ call = "up" /\ pc' = "exercise" /\ UNCHANGED exit
     \/ late /\ Return("err")
  /\ late' = FALSE
  /\ UNCHANGED <<startRx, stopRx, test, accepted, asked, call>>

\* connect_sco_uipc: Floss's socket is there while the call is up; a failure
\* before the deadline is retried.
Connect ==
  /\ pc = "connect"
  /\ \/ call = "up" /\ pc' = "exercise" /\ UNCHANGED test
     \/ late /\ EndTest("err")
  /\ late' = FALSE
  /\ UNCHANGED <<startRx, stopRx, exit, accepted, asked, call>>

\* The exercise under its timeout, and the checks of what it captured.
Exercise(result) ==
  /\ pc = "exercise"
  /\ EndTest(result)
  /\ UNCHANGED <<late, startRx, stopRx, exit, accepted, asked, call>>

-----------------------------------------------------------------------------
Stopping == IF call = "down" THEN "down" ELSE "stopping"

\* stop_sco: the listener comes first, then StopScoCall with it; an error of
\* the call leaves open whether Floss has heard it.
StopScoCall ==
  /\ pc = "stop"
  /\ \/ /\ Return("err")
        /\ asked' = "no listener" /\ UNCHANGED call
     \/ /\ Return("err")
        /\ asked' = "error" /\ call' \in {call, Stopping}
     \/ /\ pc' = "wait_stop" /\ UNCHANGED exit
        /\ asked' = "yes" /\ call' = Stopping
  /\ late' = FALSE
  /\ UNCHANGED <<startRx, stopRx, test, accepted>>

\* wait_for_listener for the stop, and the match on both results.
WaitStop ==
  /\ pc = "wait_stop"
  /\ \/ /\ stopRx \in {"zero", "other"}
        /\ Return(IF test = "ok" /\ stopRx = "zero" THEN "ok" ELSE "err")
     \/ late /\ Return("err")
  /\ UNCHANGED <<late, startRx, stopRx, test, accepted, asked, call>>

\* The timer of the current wait fires.
DeadlinePasses ==
  /\ pc \in {"wait_start", "connect", "wait_stop"} /\ ~late
  /\ late' = TRUE
  /\ UNCHANGED <<pc, startRx, stopRx, test, exit, accepted, asked, call>>

\* Ctrl-C: the process dies where it is, and tells Floss nothing.
Kill ==
  /\ pc # "exit"
  /\ Return("killed")
  /\ UNCHANGED <<late, startRx, stopRx, test, accepted, asked, call>>

-----------------------------------------------------------------------------
\* Floss has the call up and reports its codec; or gives up.
FlossStarts ==
  /\ call = "starting"
  /\ \/ call' = "up" /\ startRx' \in {"codec", "other"}
     \/ call' = "down" /\ startRx' \in {"silent", "other"}
  /\ UNCHANGED <<pc, late, stopRx, test, exit, accepted, asked>>

\* The headset hangs up.
HangUp ==
  /\ call = "up"
  /\ call' = "down"
  /\ UNCHANGED <<pc, late, startRx, stopRx, test, exit, accepted, asked>>

\* Floss finishes a stop: zero once the call is down, anything else otherwise.
FlossStops ==
  /\ pc = "wait_stop" /\ stopRx = "silent"
  /\ \/ call' = "down" /\ stopRx' = "zero"
     \/ UNCHANGED call /\ stopRx' = "other"
  /\ UNCHANGED <<pc, late, startRx, test, exit, accepted, asked>>

\* main up to the exercise, and after it.
Program ==
  \/ SetActive \/ StartScoCall \/ WaitStart \/ FinalCodecs \/ Connect
  \/ StopScoCall \/ WaitStop

Floss == FlossStarts \/ HangUp \/ FlossStops

Next ==
  \/ Program \/ (\E result \in {"ok", "err"} : Exercise(result))
  \/ DeadlinePasses \/ Kill \/ Floss

Spec == Init /\ [][Next]_vars
=============================================================================
