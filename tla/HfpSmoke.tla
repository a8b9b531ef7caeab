------------------------------- MODULE HfpSmoke ------------------------------
(***************************************************************************)
(* src/bin/floss_hfp_smoke.rs as a whole: the call (HfpCall) around one of *)
(* its exercises, the loopback (HfpLoopback) or the reference tone         *)
(* (exercise_full_duplex, below), under main's timeout, and the checks of  *)
(* what was captured.  The tone exercise uses the variables of the         *)
(* loopback that it shares with it; a tone frame counts as one sample.     *)
(***************************************************************************)
EXTENDS Integers, Sequences, SequencesExt

CONSTANTS Delays, MaxRead, DrainFrame, Capacity, MaxUplink,  \* of HfpLoopback
          Ticks  \* frames of the reference tone

ASSUME SmokeAssumption ==
  /\ Delays \subseteq Nat
  /\ {MaxRead, DrainFrame, Capacity, MaxUplink, Ticks} \subseteq Nat \ {0}

VARIABLES pc, late, startRx, stopRx, test, exit, accepted, asked, call,
          now, uplink, capture, tx, frame, captured, queue, playback, out, line,
          cursor, remaining, played, result,
          mode  \* args.loopback: "loopback" or "tone"

C == INSTANCE HfpCall
L == INSTANCE HfpLoopback

callVars == <<pc, late, startRx, stopRx, test, exit, accepted, asked, call>>
loopbackOnly == <<tx, frame, queue, out, line, cursor, remaining>>
exercise == <<now, uplink, capture, captured, playback, played, result, loopbackOnly, mode>>
vars == <<callVars, exercise>>

Init ==
  /\ C!Init
  /\ L!Init
  /\ mode = "loopback"

\* The tone has no line, no channel, and a playback task of its own.
ToneInit ==
  /\ C!Init
  /\ now = "capturing" /\ uplink = 0
  /\ capture = "read" /\ tx = FALSE /\ frame = <<>> /\ captured = <<>>
  /\ queue = <<>>
  /\ playback = "tone" /\ out = <<>> /\ played = <<>>
  /\ line = <<>> /\ remaining = 0 /\ cursor = 0
  /\ result = "running"
  /\ mode = "tone"

-----------------------------------------------------------------------------
(* exercise_full_duplex.                                                   *)

\* One tick of the tone is written; after the last one the writer shuts down.
TonePlayback ==
  /\ result = "running" /\ playback = "tone"
  /\ IF Len(played) < Ticks
       THEN played' = Append(played, 1) /\ UNCHANGED playback
       ELSE playback' = "done" /\ UNCHANGED played
  /\ UNCHANGED <<now, uplink, capture, captured, loopbackOnly, result>>

\* A read returns one sample of the microphone, or one of a microphone that is
\* muted.
ToneRead ==
  /\ result = "running" /\ capture = "read" /\ uplink < MaxUplink
  /\ uplink' = uplink + 1
  /\ \E sample \in {0, 1} : captured' = Append(captured, sample)
  /\ UNCHANGED <<now, capture, playback, played, loopbackOnly, result>>

\* The deadline wins the select.
ToneCaptureEnds ==
  /\ result = "running" /\ capture = "read" /\ now = "over"
  /\ capture' = "done"
  /\ UNCHANGED <<now, uplink, captured, playback, played, loopbackOnly, result>>

\* Floss closes the socket: read returns 0.
ToneEof ==
  /\ result = "running" /\ capture = "read"
  /\ capture' = "done"
  /\ UNCHANGED <<now, uplink, captured, playback, played, loopbackOnly, result>>

\* A read, a write or the shutdown fails.
ToneFails ==
  /\ result = "running" /\ (capture = "read" \/ playback = "tone")
  /\ result' = "err"
  /\ UNCHANGED <<now, uplink, capture, captured, playback, played, loopbackOnly>>

ToneStep ==
  TonePlayback \/ ToneRead \/ ToneCaptureEnds \/ ToneEof \/ ToneFails \/ L!Join

-----------------------------------------------------------------------------
\* main's part of a step leaves the exercise alone, and the other way round.
Main(A) == A /\ UNCHANGED exercise
Exercising(A) == pc = "exercise" /\ A /\ UNCHANGED <<callVars, mode>>

CallStep == Main(C!Program)
DeadlinePasses == Main(C!DeadlinePasses)
Kill == Main(C!Kill)
FlossStep == Main(C!Floss)

Tick == Exercising(L!Tick)
LoopbackStep == mode = "loopback" /\ Exercising(L!Step)
FullDuplexStep == mode = "tone" /\ Exercising(ToneStep)

\* timeout(seconds + delay + 5): the exercise is dropped.
Timeout ==
  /\ pc = "exercise" /\ result = "running" /\ now = "over"
  /\ C!Exercise("err")
  /\ UNCHANGED exercise

\* captured.bytes and captured.peak are not zero.
HasSound == \E i \in DOMAIN captured : captured[i] # 0

\* Seeded fault: silence passes the checks.
FinishUnchecked ==
  /\ pc = "exercise" /\ result # "running"
  /\ \/ result = "ok" /\ C!Exercise("ok")
     \/ C!Exercise("err")
  /\ UNCHANGED exercise

\* The exercise has returned: an error of it, silence, or a capture file that
\* cannot be written fails the test.
Finish ==
  /\ pc = "exercise" /\ result # "running"
  /\ \/ result = "ok" /\ HasSound /\ C!Exercise("ok")
     \/ C!Exercise("err")
  /\ UNCHANGED exercise

Next ==
  \/ CallStep \/ DeadlinePasses \/ Kill \/ FlossStep
  \/ Tick \/ LoopbackStep \/ FullDuplexStep \/ Timeout \/ Finish

Spec == (Init \/ ToneInit) /\ [][Next]_vars

\* What a task does on its own.  Reads need the headset's microphone and are
\* owed to nobody; playback needs a headset that accepts it.
OwnSteps ==
  \/ mode = "loopback" /\ Exercising(L!CaptureStep \/ L!Join)
  \/ mode = "tone" /\ Exercising(ToneCaptureEnds \/ L!Join)
Playback ==
  \/ mode = "loopback" /\ Exercising(L!PlaybackStep)
  \/ mode = "tone" /\ Exercising(TonePlayback)

\* D-Bus calls return, timers fire and the runtime polls a task that can go on.
FairSpec ==
  /\ Spec
  /\ WF_vars(CallStep) /\ WF_vars(DeadlinePasses)
  /\ WF_vars(Tick) /\ WF_vars(OwnSteps) /\ WF_vars(Finish)

-----------------------------------------------------------------------------
\* "sender exists before capture deadline" (floss_hfp_smoke.rs:342): the
\* expect never panics, whatever deadline or read wins the selects.
SenderExists == capture # "panic"

\* "every captured byte replaces and emits the byte from exactly N seconds
\* earlier" (floss_hfp_smoke.rs:361): what was played, is being written, is
\* held in the line, waits in the channel and is being sent make up, in this
\* order, Delay samples of silence followed by the attenuated capture.  Only
\* the frame whose send meets the capture deadline may be missing at the end,
\* and an exercise that returns has played all of it, the tail included.
EchoIsExact ==
  mode = "loopback" =>
    LET echo == played \o out \o L!Oldest(remaining) \o L!Echo(FlattenSeq(queue)) \o L!Echo(frame)
        whole == L!Silence(L!Delay) \o L!Echo(captured)
    IN /\ IsPrefix(echo, whole)
       /\ Len(whole) - Len(echo) <= MaxRead
       /\ tx => echo = whole
       /\ result = "ok" => echo = played

\* Whatever happened to the listener, the codecs, the socket and the exercise,
\* main returns from an accepted start only through stop_sco: the call it
\* leaves behind is down or being stopped, and where stop_sco itself fails,
\* for want of a socketpair or in the D-Bus call, the run reports an error.
\* A run that Ctrl-C ends promises nothing.
StopOnEveryExit ==
  accepted /\ exit \in {"ok", "err"} =>
    \/ asked = "yes" /\ call \in {"down", "stopping"}
    \/ asked \in {"no listener", "error"} /\ exit = "err"

\* "From this point onward every exit path must issue StopScoCall"
\* (floss_hfp_smoke.rs:466): no run whose start was accepted returns without
\* having issued it.  stop_sco makes its socketpair first, with `?`, and so
\* returns without it when there is none.
StopIssued == accepted /\ exit \in {"ok", "err"} => asked \in {"yes", "error"}

\* A run that reports success has played its whole tone, or has both tasks of
\* the loopback done, has heard the microphone, and leaves no SCO call behind.
SuccessIsSound ==
  exit = "ok" =>
    /\ call = "down"
    /\ capture = "done" /\ playback = "done"
    /\ mode = "tone" => Len(played) = Ticks
    /\ \E i \in DOMAIN captured : captured[i] # 0

\* Every run ends, whether Floss answers on a listener or not: by the deadlines
\* of its tasks if the headset accepts playback, and by main's timeout if it
\* does not.  That the D-Bus calls return is assumed: they have no timeout.
RunEnds == (WF_vars(Playback) \/ WF_vars(Timeout)) => <>(pc = "exit")
=============================================================================
