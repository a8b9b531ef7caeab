---------------------------- MODULE HfpSmokeProofs ---------------------------
(***************************************************************************)
(* floss_hfp_smoke, for every delay, read, frame, channel and tone: the    *)
(* sender the capture task expects is there, main returns only through     *)
(* stop_sco, success is sound, and the echo is exact.  The last one rests on         *)
(* EchoProofs (as E), whose invariant of the loopback alone is carried     *)
(* over to the loopback under main's call and timeout.                     *)
(***************************************************************************)
EXTENDS HfpSmoke, TLAPS

E == INSTANCE EchoProofs

-----------------------------------------------------------------------------
\* The inductive form of SenderExists: the task gives its sender up only once
\* the capture deadline has passed, and has it while it sends.
SenderInv ==
  /\ capture \in {"read", "send", "done"}
  /\ capture = "send" => tx
  /\ mode = "loopback" /\ capture = "read" /\ ~tx => now # "capturing"

\* The inductive form of StopOnEveryExit: where a call that was accepted and not
\* yet asked to stop can be, and what each outcome of the request leaves.
StopInv ==
  /\ accepted \in BOOLEAN /\ asked \in {"no", "no listener", "error", "yes"}
  /\ exit # "none" => pc = "exit"
  /\ asked = "no" => pc # "wait_stop" /\ exit # "ok"
  /\ accepted /\ asked = "no" =>
       \/ pc \in {"wait_start", "codecs", "connect", "exercise", "stop"}
       \/ exit = "killed"
  /\ asked = "yes" => pc \in {"wait_stop", "exit"} /\ call \in {"down", "stopping"}
  /\ asked \in {"no listener", "error"} => exit = "err"

\* The inductive form of SuccessIsSound: what each result along the way has seen.
SuccessInv ==
  /\ mode \in {"tone", "loopback"}
  /\ mode = "tone" =>
       /\ played \in Seq(Nat) /\ Len(played) <= Ticks
       /\ playback = "done" => Len(played) = Ticks
  /\ result = "ok" => capture = "done" /\ playback = "done"
  /\ test = "ok" => result = "ok" /\ HasSound
  /\ stopRx = "zero" => call = "down" /\ pc \in {"wait_stop", "exit"}
  /\ exit = "ok" => test = "ok" /\ stopRx = "zero"

-----------------------------------------------------------------------------
\* What each group of steps leaves alone.
LEMMA CallSteps ==
  CallStep \/ DeadlinePasses \/ Kill \/ FlossStep => UNCHANGED exercise
  BY DEF CallStep, DeadlinePasses, Kill, FlossStep, Main

LEMMA ExerciseSteps ==
  Tick \/ LoopbackStep \/ FullDuplexStep => UNCHANGED <<callVars, mode>> /\ pc = "exercise"
  BY DEF Tick, LoopbackStep, FullDuplexStep, Exercising

LEMMA ConstantFacts ==
  /\ Ticks \in Nat /\ Ticks > 0 /\ MaxRead \in Nat /\ DrainFrame \in Nat /\ DrainFrame > 0
  /\ \A delay \in Delays : delay \in Nat
  BY SmokeAssumption

LEMMA SenderStep ==
  ASSUME SenderInv, [Next]_vars
  PROVE  SenderInv'
<1> USE DEF SenderInv
<1>1. CASE UNCHANGED exercise
  BY <1>1 DEF exercise, loopbackOnly
<1>2. CASE Tick
  BY <1>2 DEF Tick, Exercising, L!Tick, L!captureVars
<1>3. CASE LoopbackStep
  <2>1. UNCHANGED mode
    BY <1>3, ExerciseSteps
  <2>2. CASE L!PlaybackStep \/ L!Join \/ L!Fail
    BY <2>1, <2>2 DEF L!PlaybackStep, L!Receive, L!Write, L!RecvNone, L!DrainTick,
                      L!ShutdownWriter, L!Join, L!Fail, L!captureVars
  <2>3. CASE L!PhaseEnds
    BY <2>1, <2>3 DEF L!PhaseEnds, L!PhaseOver, L!CaptureOver
  <2>4. CASE L!SendFrame \/ L!SendTimesOut
    BY <2>1, <2>4 DEF L!SendFrame, L!SendTimesOut, L!CaptureOver
  <2>5. CASE L!ReadSome
    BY <1>3, <2>1, <2>5 DEF L!ReadSome, L!Read, L!CaptureOver, LoopbackStep
  <2>6. CASE L!ReadEof
    BY <2>1, <2>6 DEF L!ReadEof
  <2> QED
    BY <1>3, <2>2, <2>3, <2>4, <2>5, <2>6 DEF LoopbackStep, Exercising, L!Step, L!CaptureStep
<1>4. CASE FullDuplexStep
  BY <1>4 DEF FullDuplexStep, Exercising, ToneStep, TonePlayback, ToneRead, ToneCaptureEnds,
              ToneEof, ToneFails, L!Join, L!captureVars, loopbackOnly
<1>5. CASE Timeout \/ Finish
  BY <1>1, <1>5 DEF Timeout, Finish
<1> QED
  BY <1>1, <1>2, <1>3, <1>4, <1>5, CallSteps DEF Next, vars

LEMMA StopStep ==
  ASSUME StopInv, [Next]_vars
  PROVE  StopInv'
<1> USE DEF StopInv
<1>1. CASE CallStep
  <2>1. CASE C!SetActive
    BY <2>1 DEF C!SetActive, C!Return
  <2>2. CASE C!StartScoCall
    <3>1. pc = "start" /\ asked = "no" /\ exit = "none" /\ ~accepted
      BY <2>2 DEF C!StartScoCall
    <3>2. asked' = "no"
      BY <2>2, <3>1 DEF C!StartScoCall
    <3>3. CASE pc' = "wait_start" /\ accepted' = TRUE /\ UNCHANGED exit
      BY <3>1, <3>2, <3>3
    <3>4. CASE pc' = "exit" /\ exit' = "err" /\ UNCHANGED accepted
      BY <3>1, <3>2, <3>4
    <3> QED
      BY <2>2, <3>3, <3>4 DEF C!StartScoCall, C!Return
  <2>3. CASE C!WaitStart \/ C!FinalCodecs \/ C!Connect
    BY <2>3 DEF C!WaitStart, C!FinalCodecs, C!Connect, C!EndTest
  <2>4. CASE C!StopScoCall
    BY <2>4 DEF C!StopScoCall, C!Stopping, C!Return
  <2>5. CASE C!WaitStop
    BY <2>5 DEF C!WaitStop, C!Return
  <2> QED
    BY <1>1, <2>1, <2>2, <2>3, <2>4, <2>5 DEF CallStep, Main, C!Program
<1>2. CASE DeadlinePasses \/ Kill
  BY <1>2 DEF DeadlinePasses, Kill, Main, C!DeadlinePasses, C!Kill, C!Return
<1>3. CASE FlossStep
  <2>1. UNCHANGED <<pc, exit, accepted, asked>>
    BY <1>3 DEF FlossStep, Main, C!Floss, C!FlossStarts, C!HangUp, C!FlossStops
  <2>2. call \in {"down", "stopping"} => call' \in {"down", "stopping"}
    BY <1>3 DEF FlossStep, Main, C!Floss, C!FlossStarts, C!HangUp, C!FlossStops
  <2> QED
    BY <2>1, <2>2
<1>4. CASE Tick \/ LoopbackStep \/ FullDuplexStep
  BY <1>4, ExerciseSteps DEF callVars
<1>5. CASE Timeout \/ Finish
  BY <1>5 DEF Timeout, Finish, C!Exercise, C!EndTest
<1>6. CASE UNCHANGED vars
  BY <1>6 DEF vars, callVars
<1> QED
  BY <1>1, <1>2, <1>3, <1>4, <1>5, <1>6 DEF Next

LEMMA SuccessStep ==
  ASSUME SuccessInv, [Next]_vars
  PROVE  SuccessInv'
<1> USE DEF SuccessInv, HasSound
<1>1. CASE CallStep
  BY <1>1 DEF CallStep, Main, exercise, C!Program, C!SetActive, C!StartScoCall, C!WaitStart,
              C!FinalCodecs, C!Connect, C!StopScoCall, C!WaitStop, C!Return, C!EndTest
<1>2. CASE DeadlinePasses \/ Kill \/ FlossStep
  BY <1>2 DEF DeadlinePasses, Kill, FlossStep, Main, exercise, C!DeadlinePasses, C!Kill,
              C!Return, C!Floss, C!FlossStarts, C!HangUp, C!FlossStops
<1>3. CASE Tick
  BY <1>3 DEF Tick, Exercising, L!Tick, L!captureVars, L!playbackVars, callVars
<1>4. CASE LoopbackStep
  <2>1. UNCHANGED <<callVars, mode>> /\ mode = "loopback"
    BY <1>4, ExerciseSteps DEF LoopbackStep
  <2>2. result = "running" /\ result' \in {"running", "ok", "err"}
        /\ (result' = "ok" => capture' = "done" /\ playback' = "done")
    BY <1>4 DEF LoopbackStep, Exercising, L!Step, L!CaptureStep, L!PhaseEnds, L!SendFrame,
         L!SendTimesOut, L!ReadSome, L!Read, L!ReadEof, L!PlaybackStep, L!Receive, L!Write,
         L!RecvNone, L!DrainTick, L!ShutdownWriter, L!Join, L!Fail, L!captureVars,
         L!playbackVars
  <2> QED
    BY <2>1, <2>2 DEF callVars
<1>5. CASE FullDuplexStep
  <2>1. UNCHANGED <<callVars, mode>> /\ mode = "tone"
    BY <1>5, ExerciseSteps DEF FullDuplexStep
  <2>2. CASE TonePlayback
    <3>1. CASE Len(played) < Ticks
      <4>1. played' \in Seq(Nat) /\ Len(played') = Len(played) + 1 /\ playback' = "tone"
        BY <2>1, <2>2, <3>1 DEF TonePlayback
      <4> QED
        BY <2>1, <2>2, <3>1, <4>1, ConstantFacts DEF TonePlayback, callVars
    <3>2. CASE ~(Len(played) < Ticks)
      <4>1. Len(played) = Ticks
        BY <2>1, <3>2, ConstantFacts
      <4> QED
        BY <2>1, <2>2, <3>2, <4>1 DEF TonePlayback, callVars
    <3> QED
      BY <3>1, <3>2
  <2>3. CASE ToneRead \/ ToneCaptureEnds \/ ToneEof \/ ToneFails
    BY <2>1, <2>3 DEF ToneRead, ToneCaptureEnds, ToneEof, ToneFails, callVars
  <2>4. CASE L!Join
    BY <2>1, <2>4 DEF L!Join, L!captureVars, L!playbackVars, callVars
  <2> QED
    BY <1>5, <2>2, <2>3, <2>4 DEF FullDuplexStep, Exercising, ToneStep
<1>6. CASE Timeout \/ Finish
  BY <1>6 DEF Timeout, Finish, C!Exercise, C!EndTest, exercise
<1>7. CASE UNCHANGED vars
  BY <1>7 DEF vars, callVars, exercise
<1> QED
  BY <1>1, <1>2, <1>3, <1>4, <1>5, <1>6, <1>7 DEF Next

-----------------------------------------------------------------------------
\* The expect on the sender in exercise_loopback never panics, whatever the
\* deadlines, the frames and the channel's capacity are.
THEOREM SenderNeverMissing == Spec => []SenderExists
<1>1. Init \/ ToneInit => SenderInv
  BY DEF Init, ToneInit, L!Init, SenderInv
<1>2. SenderInv /\ [Next]_vars => SenderInv'
  BY SenderStep
<1>3. SenderInv => SenderExists
  BY DEF SenderInv, SenderExists
<1> QED
  BY <1>1, <1>2, <1>3, PTL DEF Spec

\* main returns from an accepted StartScoCall only through stop_sco: it leaves a
\* call that is down or being stopped, or reports that stop_sco itself failed.
THEOREM EveryExitStops == Spec => []StopOnEveryExit
<1>1. Init \/ ToneInit => StopInv
  BY DEF Init, ToneInit, C!Init, StopInv
<1>2. StopInv /\ [Next]_vars => StopInv'
  BY StopStep
<1>3. StopInv => StopOnEveryExit
  BY DEF StopInv, StopOnEveryExit
<1> QED
  BY <1>1, <1>2, <1>3, PTL DEF Spec

\* A run that reports success has done all of its exercise, has heard the
\* microphone and leaves no SCO call behind.
THEOREM SuccessMeansDone == Spec => []SuccessIsSound
<1>1. Init \/ ToneInit => SuccessInv
  <2>1. Init => SuccessInv
    BY DEF Init, C!Init, L!Init, SuccessInv
  <2>2. ToneInit => played \in Seq(Nat) /\ Len(played) = 0
    BY DEF ToneInit
  <2>3. ToneInit => SuccessInv
    BY <2>2, ConstantFacts DEF ToneInit, C!Init, SuccessInv
  <2> QED
    BY <2>1, <2>3
<1>2. SuccessInv /\ [Next]_vars => SuccessInv'
  BY SuccessStep
<1>3. SuccessInv => SuccessIsSound
  BY DEF SuccessInv, SuccessIsSound, HasSound
<1> QED
  BY <1>1, <1>2, <1>3, PTL DEF Spec

-----------------------------------------------------------------------------
(* The echo of floss_hfp_smoke.                                            *)

EchoInv == mode = "loopback" => E!EchoInv

\* The steps of the loopback are those EchoProofs reasons about.
LEMMA SameSteps ==
  /\ L!Init => E!Init
  /\ L!Tick => E!Tick
  /\ L!Step => E!Step
  /\ UNCHANGED exercise => UNCHANGED E!vars
<1> USE DEF L!captureVars, E!captureVars, L!playbackVars, E!playbackVars, L!CaptureOver,
            E!CaptureOver, L!PhaseOver, E!PhaseOver, L!Delay, E!Delay
<1>1. L!Init => E!Init
  BY DEF L!Init, E!Init, L!Silence, E!Silence
<1>2. L!Tick => E!Tick
  BY DEF L!Tick, E!Tick
<1>3. L!CaptureStep \/ L!ReadSome \/ L!ReadEof => E!CaptureStep \/ E!ReadSome \/ E!ReadEof
  BY DEF L!CaptureStep, E!CaptureStep, L!PhaseEnds, E!PhaseEnds, L!SendFrame, E!SendFrame,
         L!SendTimesOut, E!SendTimesOut, L!ReadSome, E!ReadSome, L!Read, E!Read, L!ReadEof,
         E!ReadEof
<1>4. ASSUME L!Receive PROVE E!Receive
  BY <1>4 DEF L!Receive, E!Receive, L!ThroughLine, E!ThroughLine, L!SwapFrame, E!SwapFrame,
         L!SwapSample, E!SwapSample, L!Advance, E!Advance, L!Echo, E!Echo, L!Attenuate,
         E!Attenuate
<1>5. L!DrainTick => E!DrainTick
  BY DEF L!DrainTick, E!DrainTick, L!Oldest, E!Oldest
<1>6. L!Write \/ L!RecvNone \/ L!ShutdownWriter => E!Write \/ E!RecvNone \/ E!ShutdownWriter
  BY DEF L!Write, E!Write, L!RecvNone, E!RecvNone, L!ShutdownWriter, E!ShutdownWriter
<1>7. L!Join \/ L!Fail => E!Join \/ E!Fail
  BY DEF L!Join, E!Join, L!Fail, E!Fail
<1>8. UNCHANGED exercise => UNCHANGED E!vars
  BY DEF exercise, loopbackOnly, E!vars
<1>9. L!Step => E!Step
  BY <1>3, <1>4, <1>5, <1>6, <1>7 DEF L!Step, E!Step, L!PlaybackStep, E!PlaybackStep
<1> QED
  BY <1>1, <1>2, <1>8, <1>9

LEMMA EchoStep ==
  ASSUME SenderInv, EchoInv, [Next]_vars
  PROVE  EchoInv'
<1> SUFFICES ASSUME mode' = "loopback" PROVE E!EchoInv'
  BY DEF EchoInv
<1>1. UNCHANGED mode
  BY CallSteps, ExerciseSteps DEF Next, Timeout, Finish, exercise, vars
<1>2. E!Sizes /\ E!SenderHeld /\ E!EchoInv
  BY <1>1, SmokeAssumption DEF EchoInv, SenderInv, E!Sizes, E!SenderHeld
<1>3. [E!Next]_(E!vars)
  <2>1. CASE UNCHANGED exercise
    BY <2>1, SameSteps
  <2>2. CASE Tick \/ LoopbackStep
    BY <2>2, SameSteps DEF Tick, LoopbackStep, Exercising, E!Next
  <2>3. ~FullDuplexStep
    BY <1>1 DEF FullDuplexStep
  <2>4. CASE Timeout \/ Finish
    BY <2>1, <2>4 DEF Timeout, Finish
  <2> QED
    BY <2>1, <2>2, <2>3, <2>4, CallSteps DEF Next, vars
<1> QED
  BY <1>2, <1>3, E!EchoStep

\* A sequence that matches another from its start on is a prefix of it.
LEMMA MatchesIsPrefix ==
  ASSUME NEW s \in Seq(Nat), NEW w \in Seq(Nat), E!Matches(s, w, 0)
  PROVE  /\ IsPrefix(s, w)
         /\ Len(s) = Len(w) => s = w
<1>1. \A i \in 1 .. Len(s) : s[i] = w[i]
  BY DEF E!Matches
<1>2. Len(s) \in Nat /\ Len(w) \in Nat /\ Len(s) <= Len(w)
  BY DEF E!Matches
<1>3. Len(s) = Len(w) => s = w
  BY <1>1, <1>2
<1>4. SubSeq(s, 1, Len(s)) = SubSeq(w, 1, Len(s))
  BY <1>1, <1>2
<1> QED
  BY <1>2, <1>3, <1>4 DEF IsPrefix

LEMMA FlattenChannel ==
  ASSUME NEW q \in Seq(Seq(Nat)), NEW c \in Seq(Nat), NEW n \in Nat, NEW m \in Nat,
         E!Segments(q, c, n, m)
  PROVE  FlattenSeq(q) = [j \in 1 .. m - n |-> c[n + j]]
<1>1. CASE Len(q) = 0
  <2>1. m = n /\ q = <<>> /\ FlattenSeq(q) = q
    BY <1>1 DEF FlattenSeq, E!Segments
  <2>2. [j \in 1 .. m - n |-> c[n + j]] = <<>>
    BY <2>1
  <2> QED
    BY <2>1, <2>2
<1>2. CASE Len(q) # 0
  <2>1. LET flat[i \in 1 .. Len(q)] == IF i = 1 THEN q[i] ELSE flat[i - 1] \o q[i]
        IN  flat[Len(q)] = [j \in 1 .. m - n |-> c[n + j]]
    BY <1>2, E!SegmentsFlatten, ZenonT(40)
  <2>2. FlattenSeq(q) = LET flat[i \in 1 .. Len(q)] == IF i = 1 THEN q[i] ELSE flat[i - 1] \o q[i]
                        IN  flat[Len(q)]
    BY <1>2 DEF FlattenSeq
  <2> QED
    BY <2>1, <2>2
<1> QED
  BY <1>1, <1>2

LEMMA EchoMeaning == EchoInv => EchoIsExact
<1> SUFFICES ASSUME E!EchoInv, mode = "loopback" PROVE EchoIsExact
  BY DEF EchoInv, EchoIsExact
<1> DEFINE echo == played \o out \o L!Oldest(remaining) \o L!Echo(FlattenSeq(queue)) \o L!Echo(frame)
           whole == L!Silence(L!Delay) \o L!Echo(captured)
<1>1. PICK flat \in Seq(Nat) :
        LET e == played \o out \o E!Oldest(remaining) \o E!Echo(flat) \o E!Echo(frame)
            w == E!Silence(E!Delay) \o E!Echo(captured)
        IN /\ \E n, m \in Nat : /\ E!Segments(queue, captured, n, m)
                                /\ flat = [j \in 1 .. m - n |-> captured[n + j]]
           /\ w \in Seq(Nat) /\ e \in Seq(Nat)
           /\ E!Matches(e, w, 0)
           /\ Len(w) - Len(e) <= MaxRead
           /\ tx => Len(e) = Len(w)
           /\ result = "ok" => e = played
  BY E!EchoMeaning
<1>2. queue \in Seq(Seq(Nat)) /\ captured \in Seq(Nat)
  BY DEF E!EchoInv, E!EchoTypes
<1>3. FlattenSeq(queue) = flat
  BY <1>1, <1>2, FlattenChannel
<1>4. /\ echo = played \o out \o E!Oldest(remaining) \o E!Echo(flat) \o E!Echo(frame)
      /\ whole = E!Silence(E!Delay) \o E!Echo(captured)
  BY <1>3 DEF L!Oldest, E!Oldest, L!Echo, E!Echo, L!Silence, E!Silence, L!Delay, E!Delay,
              L!Attenuate, E!Attenuate
<1> HIDE DEF echo, whole
<1>5. /\ whole \in Seq(Nat) /\ echo \in Seq(Nat) /\ E!Matches(echo, whole, 0)
      /\ Len(whole) - Len(echo) <= MaxRead
      /\ tx => Len(echo) = Len(whole)
      /\ result = "ok" => echo = played
  BY <1>1, <1>4
<1>6. IsPrefix(echo, whole) /\ (Len(echo) = Len(whole) => echo = whole)
  BY <1>5, MatchesIsPrefix
<1> QED
  BY <1>5, <1>6 DEF EchoIsExact, echo, whole

\* exercise_loopback plays, after the silence of the delay, exactly the
\* attenuated capture: no sample is lost, repeated or moved between the capture,
\* the channel, the delay line and the drain, for every delay and frame size,
\* but for the one frame whose send meets the capture deadline.
THEOREM EchoNeverSlips == Spec => []EchoIsExact
<1>1. Init \/ ToneInit => SenderInv /\ EchoInv
  <2>1. Init \/ ToneInit => SenderInv
    BY DEF Init, ToneInit, L!Init, SenderInv
  <2>2. E!Sizes
    BY SmokeAssumption DEF E!Sizes
  <2>3. Init => E!EchoInv
    BY <2>2, SameSteps, E!EchoInit DEF Init
  <2> QED
    BY <2>1, <2>3 DEF EchoInv, ToneInit
<1>2. SenderInv /\ EchoInv /\ [Next]_vars => SenderInv' /\ EchoInv'
  BY SenderStep, EchoStep
<1>3. EchoInv => EchoIsExact
  BY EchoMeaning
<1> QED
  BY <1>1, <1>2, <1>3, PTL DEF Spec
=============================================================================
