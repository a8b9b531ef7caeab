------------------------------ MODULE A2dpSmoke ------------------------------
(***************************************************************************)
(* src/bin/floss_audio_smoke.rs, run several times against one Floss: stop *)
(* a stream an earlier run has left, set the codec, start, feed PCM, stop. *)
(* Every `?` after the start leaves the stream to the next run, and so     *)
(* does a run that is killed.                                              *)
(*                                                                         *)
(* Floss (external) starts and suspends the stream some time after it was  *)
(* asked to, and writes one byte to the listener it was given last: one    *)
(* when the stream has started, or goes on because a suspend has failed,   *)
(* zero when it has stopped, whoever caused the change.                    *)
(* GetA2dpAudioStarted stays true until a suspend is done.                 *)
(***************************************************************************)
EXTENDS Naturals, Sequences

CONSTANTS Tones,      \* tick counts of test tones
          Files,      \* lengths of PCM files, in bytes
          TickBytes,  \* bytes of one 20 ms tick
          FrameBytes, \* bytes of one frame of all channels
          DrainTicks, \* silent ticks after a tone
          MaxRuns     \* bound: runs of the program

ASSUME A2dpAssumption ==
  /\ Tones \cup Files \subseteq Nat
  /\ {TickBytes, FrameBytes, DrainTicks, MaxRuns} \subseteq Nat \ {0}
  /\ TickBytes % FrameBytes = 0

VARIABLES
  pc,      \* what the program does next
  late,    \* the deadline of the current wait has passed
  rx,      \* the current listener: "none", "silent", "one", "zero"; after a
           \* run that returned Ok, the status it has printed
  source,  \* args: a tone or a PCM file
  chunks,  \* lengths of the writes still to do
  sent,    \* bytes Floss was given
  exit,    \* "none", "ok", "err", "killed"
  runs,    \* runs begun
  audio    \* Floss's stream: "stopped", "starting", "started", "suspending"

a2dpVars == <<pc, late, rx, source, chunks, sent, exit, runs, audio>>

Sources == [kind : {"tone"}, size : Tones] \cup [kind : {"file"}, size : Files]

A2dpInit ==
  /\ pc = "set_active" /\ late = FALSE /\ rx = "none"
  /\ source \in Sources
  /\ chunks = <<>> /\ sent = 0 /\ exit = "none"
  /\ runs = 1
  /\ audio \in {"stopped", "started"}

Goto(next) == pc' = next /\ late' = FALSE /\ UNCHANGED exit
Return(result) == pc' = "exit" /\ late' = FALSE /\ exit' = result
payload == <<source, chunks, sent, runs>>

\* GetA2dpAudioStarted.
Started == audio \in {"started", "suspending"}

-----------------------------------------------------------------------------
(* main, up to the start.                                                  *)

\* A D-Bus call without an effect on the stream, with `?`.
Call(at, next) ==
  /\ pc = at
  /\ Goto(next) \/ Return("err")
  /\ UNCHANGED <<rx, payload, audio>>

SetActiveDevice == Call("set_active", "existing")
SetVolume == Call("volume", "start")

\* stop_existing_stream asks whether there is a stream to stop.
StopExisting ==
  /\ pc = "existing"
  /\ Goto(IF Started THEN "pre_stop" ELSE "config") \/ Return("err")
  /\ UNCHANGED <<rx, payload, audio>>

Suspending == IF audio = "started" THEN "suspending" ELSE audio

\* A listener and StopAudioRequest; an error may hide a stop that was heard.
StopAudioRequest(at, next) ==
  /\ pc = at
  /\ \/ Goto(next) /\ rx' = "silent" /\ audio' = Suspending
     \/ Return("err") /\ rx' = "none" /\ audio' \in {audio, Suspending}
  /\ UNCHANGED payload

PreStop == StopAudioRequest("pre_stop", "pre_wait")

\* wait_for_listener, with the status the caller asks for.  The program holds
\* the far end of the listener too, so the wait never sees it closed.
WaitForListener(at, next, expected) ==
  /\ pc = at
  /\ \/ rx \in expected /\ Goto(next)
     \/ rx \in {"one", "zero"} \ expected /\ Return("err")
     \/ late /\ Return("err")
  /\ rx' = "none"
  /\ UNCHANGED <<payload, audio>>

PreWait == WaitForListener("pre_wait", "pre_poll", {"zero"})

\* Seeded fault: the poll has no deadline.
PollForever(at, next) ==
  /\ pc = at
  /\ \/ ~Started /\ Goto(next)
     \/ ~late /\ Return("err")
  /\ UNCHANGED <<rx, payload, audio>>

\* wait_for_audio_state(false): poll until a deadline.  A poll that finds the
\* stream still there before it is a stuttering step.
PollStopped(at, next) ==
  /\ pc = at
  /\ \/ ~Started /\ Goto(next)
     \/ Started /\ late /\ Return("err")
     \/ Return("err")
  /\ UNCHANGED <<rx, payload, audio>>

PrePoll == PollStopped("pre_poll", "config")

\* Seeded fault: the suspend a codec change causes is not waited for.
SetAudioConfigAtOnce ==
  /\ pc = "config"
  /\ \/ Goto("volume") /\ audio' \in {audio, Suspending}
     \/ Return("err") /\ audio' \in {audio, Suspending}
  /\ UNCHANGED <<rx, payload>>

\* SetAudioConfig: a new codec suspends a stream that has started meanwhile, and
\* the call does not wait for it.
SetAudioConfig ==
  /\ pc = "config"
  /\ \/ Goto("config_poll") /\ audio' \in {audio, Suspending}
     \/ Return("err") /\ audio' \in {audio, Suspending}
  /\ UNCHANGED <<rx, payload>>

ConfigPoll == PollStopped("config_poll", "volume")

\* A listener and StartAudioRequest, which Floss rejects while it suspends.
StartAudioRequest ==
  /\ pc = "start"
  /\ LET begun == IF audio = "stopped" THEN "starting" ELSE audio
     IN \/ /\ audio # "suspending"
           /\ Goto("wait_start") /\ rx' = "silent" /\ audio' = begun
        \/ Return("err") /\ rx' = "none" /\ audio' \in {audio, begun}
  /\ UNCHANGED payload

WaitStart == WaitForListener("wait_start", "confirm", {"one"})

\* GetA2dpAudioStarted once more.
Confirm ==
  /\ pc = "confirm"
  /\ \/ Started /\ Goto("connect")
     \/ Return("err")
  /\ UNCHANGED <<rx, payload, audio>>

-----------------------------------------------------------------------------
(* The transfer, and the stop.                                             *)

\* connect_uipc: Floss's socket is there while it streams; a failure before the
\* deadline is retried.
ConnectUipc ==
  /\ pc = "connect"
  /\ \/ audio = "started" /\ Goto("plan")
     \/ late /\ Return("err")
  /\ UNCHANGED <<rx, payload, audio>>

\* pcm.chunks(frame_bytes): whole ticks, and the rest.
FileChunks(length) ==
  [i \in 1 .. (length + TickBytes - 1) \div TickBytes |->
     IF i * TickBytes <= length THEN TickBytes ELSE length % TickBytes]

\* write_test_tone's two loops, or write_pcm_file's check and chunks; the file
\* is read only now, and may be missing.
Plan ==
  /\ pc = "plan"
  /\ IF source.kind = "tone"
       THEN chunks' = [i \in 1 .. source.size + DrainTicks |-> TickBytes] /\ Goto("write")
       ELSE \/ /\ source.size > 0 /\ source.size % FrameBytes = 0
               /\ chunks' = FileChunks(source.size) /\ Goto("write")
            \/ UNCHANGED chunks /\ Return("err")
  /\ UNCHANGED <<rx, source, sent, runs, audio>>

\* write_all of one chunk: Floss takes it while it streams.
Write ==
  /\ pc = "write" /\ chunks # <<>> /\ audio = "started"
  /\ sent' = sent + Head(chunks)
  /\ chunks' = Tail(chunks)
  /\ UNCHANGED <<pc, late, rx, source, exit, runs, audio>>

\* Floss has closed the socket, or closes it now.
WriteFails ==
  /\ pc = "write"
  /\ Return("err")
  /\ UNCHANGED <<rx, payload, audio>>

\* stream.shutdown().
ShutdownWriter ==
  /\ pc = "write" /\ chunks = <<>>
  /\ Goto("stop")
  /\ UNCHANGED <<rx, payload, audio>>

Stop == StopAudioRequest("stop", "wait_stop")

\* Seeded fault: the run ends without waiting for the answer to its stop.
WaitStopAtOnce ==
  /\ pc = "wait_stop"
  /\ Return("ok")
  /\ UNCHANGED <<rx, payload, audio>>

\* The last wait: the status is printed, whatever it is.
WaitStop ==
  /\ pc = "wait_stop"
  /\ \/ rx \in {"one", "zero"} /\ Return("ok") /\ UNCHANGED rx
     \/ late /\ Return("err") /\ rx' = "none"
  /\ UNCHANGED <<payload, audio>>

\* The timer of the current wait fires.
DeadlinePasses ==
  /\ pc \in {"pre_wait", "pre_poll", "config_poll", "wait_start", "connect", "wait_stop"}
  /\ ~late
  /\ late' = TRUE
  /\ UNCHANGED <<pc, rx, payload, exit, audio>>

\* Ctrl-C: nothing in the program catches it.
Kill ==
  /\ pc # "exit"
  /\ Return("killed")
  /\ rx' = "none"
  /\ UNCHANGED <<payload, audio>>

\* The next run finds Floss as the last one has left it.
Rerun ==
  /\ pc = "exit" /\ runs < MaxRuns
  /\ pc' = "set_active" /\ exit' = "none"
  /\ source' \in Sources
  /\ chunks' = <<>> /\ sent' = 0
  /\ runs' = runs + 1
  /\ rx' = "none"
  /\ UNCHANGED <<late, audio>>

-----------------------------------------------------------------------------
(* Floss and the headset (external).                                       *)

Answer(status) == rx' = IF rx = "silent" THEN status ELSE rx
program == <<pc, late, payload, exit>>

FlossStarts ==
  /\ audio = "starting"
  /\ \/ audio' = "started" /\ Answer("one")
     \/ audio' = "stopped" /\ Answer("zero")
  /\ UNCHANGED program

\* A suspend may fail: the program expects a status other than zero (146).
FlossSuspends ==
  /\ audio = "suspending"
  /\ \/ audio' = "stopped" /\ Answer("zero")
     \/ audio' = "started" /\ Answer("one")
  /\ UNCHANGED program

\* The headset suspends the stream or goes out of reach.
RemoteSuspends ==
  /\ audio = "started"
  /\ audio' = "stopped" /\ Answer("zero")
  /\ UNCHANGED program

\* The daemon dies, and its listener with it, unanswered.
FlossDies ==
  /\ audio # "stopped"
  /\ audio' = "stopped"
  /\ UNCHANGED <<program, rx>>

-----------------------------------------------------------------------------
Program ==
  \/ SetActiveDevice \/ StopExisting \/ PreStop \/ PreWait \/ PrePoll \/ SetAudioConfig
  \/ ConfigPoll \/ SetVolume \/ StartAudioRequest \/ WaitStart \/ Confirm \/ ConnectUipc
  \/ Plan \/ Write \/ WriteFails \/ ShutdownWriter \/ Stop \/ WaitStop

A2dpNext ==
  \/ Program \/ DeadlinePasses \/ Kill \/ Rerun
  \/ FlossStarts \/ FlossSuspends \/ RemoteSuspends \/ FlossDies

A2dpSpec == A2dpInit /\ [][A2dpNext]_a2dpVars

\* A poll that finds the stream still there goes on; it is owed no D-Bus error.
Owed == Program /\ (pc \in {"pre_poll", "config_poll"} /\ Started => late)

\* D-Bus calls return, timers fire, and a write ends: Floss takes the PCM while
\* it streams and closes the socket when it does not.  Floss owes no answer.
A2dpFairSpec == A2dpSpec /\ WF_a2dpVars(Owed) /\ WF_a2dpVars(DeadlinePasses)

-----------------------------------------------------------------------------
\* "Starting again while LOCAL_SUSPEND_PENDING is set races the Floss state
\* machine" (floss_audio_smoke.rs:242): StartAudioRequest is never issued while
\* a suspend is under way, whether an earlier run, this run's stop or the codec
\* change has caused it, and however late an earlier start has come through.
NoStartDuringSuspend == pc = "start" => audio # "suspending"

\* The bytes of the source: the tone and its silent tail, or the whole file.
SourceBytes ==
  IF source.kind = "tone" THEN (source.size + DrainTicks) * TickBytes ELSE source.size

\* A run that reports success has given Floss the whole source, its last short
\* chunk included, and leaves the stream stopped, unless the status it prints
\* after "A2DP stopped" says otherwise: it does not look at it (281).
SuccessIsWhole ==
  exit = "ok" => sent = SourceBytes /\ (audio = "stopped" \/ rx = "one")

\* Every run ends, even if Floss never starts, never answers or goes away.
RunEnds == (pc # "exit") ~> (pc = "exit")
=============================================================================
