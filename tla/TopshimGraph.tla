---------------------------- MODULE TopshimGraph -----------------------------
(***************************************************************************)
(* The four actors of src/topshim/actors.rs as main.rs wires them: the     *)
(* controller proxy, the microphone, the VAD and the playback sink, their  *)
(* bounded channels, and the shutdown watch.                               *)
(*                                                                         *)
(* A microphone frame is "speech" or "silence" (the VAD's verdict on it);  *)
(* whether its time stamp lies within 50 ms of the last echo is a free     *)
(* choice once there is an echo.  An utterance is the number of its        *)
(* frames left to play.  A branch of a `biased` select is taken only when  *)
(* no earlier branch is ready; what arrives after that look is as if it    *)
(* came after the branch.  Nobody reads the inboxes of an ended actor.     *)
(***************************************************************************)
EXTENDS Naturals, Sequences

CONSTANTS Utterances,       \* how many utterances main starts
          UtteranceFrames,  \* frames of one utterance
          MicCapacity,      \* mpsc::channel(8) of microphone frames
          EchoCapacity,     \* mpsc::channel(8) of echo references
          None              \* Option::None

ASSUME GraphAssumption ==
  /\ Utterances \in Nat
  /\ UtteranceFrames \in Nat
  /\ MicCapacity \in Nat \ {0}
  /\ EchoCapacity \in Nat \ {0}
  /\ None \notin Nat

VARIABLES
  shutdown,    \* the value of the watch channel
  toStart,     \* utterances main has still to start
  joined,      \* tasks main has awaited
  mainErr,     \* main has returned the error of a task
  proxy,       \* "select", "done"
  captureReq,  \* the microphone's request: "none", "queued", "frame", "error", "dropped"
  playReq,     \* the sink's request: "none", "queued", "receipt", "dropped"
  mic,         \* "select", "capture", "fence", "send", "done", "failed"
  micFrame,    \* the frame the microphone actor holds
  micQ,        \* microphone_tx -> microphone_rx
  vad,         \* "select", "done"
  latestEcho,  \* playback sequence of the last echo, or None
  speechActive,
  burst,       \* the speech burst so far: did a frame overlap playback, was an interrupt sent
  bargeQ,      \* the capacity-one interrupt inbox: 0 or 1
  sink,        \* "select", "play", "echo", "done", "failed"
  starts,      \* Start commands in the sink's inbox
  playing,     \* frames left of `current`, or None
  sequence,    \* the sink's frame counter
  echoQ,       \* echo_tx -> echo_rx
  overrun      \* frames the hardware was given since the interrupt arrived

mainVars == <<shutdown, toStart, joined, mainErr>>
reqVars == <<captureReq, playReq>>
micVars == <<mic, micFrame>>
vadVars == <<vad, latestEcho, speechActive, burst>>
sinkVars == <<sink, playing, sequence>>
vars == <<mainVars, proxy, reqVars, micVars, micQ, vadVars, bargeQ, sinkVars, starts,
          echoQ, overrun>>

Quiet == [overlap |-> FALSE, interrupted |-> FALSE]

Init ==
  /\ shutdown = FALSE /\ toStart = Utterances /\ joined = 0 /\ mainErr = FALSE
  /\ proxy = "select" /\ captureReq = "none" /\ playReq = "none"
  /\ mic = "select" /\ micFrame = "silence" /\ micQ = <<>>
  /\ vad = "select" /\ latestEcho = None /\ speechActive = FALSE /\ burst = Quiet
  /\ sink = "select" /\ playing = None /\ sequence = 0 /\ starts = 0
  /\ bargeQ = 0 /\ echoQ = <<>> /\ overrun = 0

Ended(task) == task \in {"done", "failed"}

-----------------------------------------------------------------------------
(* main.                                                                   *)

StartUtterance ==
  /\ ~shutdown /\ toStart > 0 /\ starts < 2
  /\ toStart' = toStart - 1
  /\ starts' = starts + 1
  /\ UNCHANGED <<shutdown, joined, mainErr, proxy, reqVars, micVars, micQ, vadVars, bargeQ,
                 sinkVars, echoQ, overrun>>

\* Ctrl-C or DORSCHE_DEMO_MS: the watch turns true, playback_tx is dropped.
Shutdown ==
  /\ ~shutdown
  /\ shutdown' = TRUE
  /\ UNCHANGED <<toStart, joined, mainErr, proxy, reqVars, micVars, micQ, vadVars, bargeQ,
                 sinkVars, starts, echoQ, overrun>>

\* The tasks are awaited in order; the first error ends main.
Join ==
  LET tasks == <<proxy, mic, vad, sink>>
  IN  /\ shutdown
      /\ joined < 4 /\ ~mainErr
      /\ Ended(tasks[joined + 1])
      /\ joined' = joined + 1
      /\ mainErr' = (tasks[joined + 1] = "failed")
      /\ UNCHANGED <<shutdown, toStart, proxy, reqVars, micVars, micQ, vadVars, bargeQ,
                     sinkVars, starts, echoQ, overrun>>

-----------------------------------------------------------------------------
(* The controller proxy: shutdown, then playback, then capture.            *)

Dropped(request) == IF request = "queued" THEN "dropped" ELSE request

ProxyShutdown ==
  /\ proxy = "select" /\ shutdown
  /\ proxy' = "done"
  /\ captureReq' = Dropped(captureReq)
  /\ playReq' = Dropped(playReq)
  /\ UNCHANGED <<mainVars, micVars, micQ, vadVars, bargeQ, sinkVars, starts, echoQ, overrun>>

ProxyPlay ==
  /\ proxy = "select" /\ ~shutdown
  /\ playReq = "queued"
  /\ playReq' = "receipt"
  /\ overrun' = IF bargeQ = 1 THEN overrun + 1 ELSE 0
  /\ UNCHANGED <<mainVars, proxy, captureReq, micVars, micQ, vadVars, bargeQ, sinkVars,
                 starts, echoQ>>

\* Seeded fault: an error of the capture call ends the proxy.
ProxyCaptureOrStop ==
  /\ proxy = "select" /\ ~shutdown
  /\ playReq # "queued" /\ captureReq = "queued"
  /\ \/ captureReq' = "frame" /\ UNCHANGED <<proxy, playReq>>
     \/ captureReq' = "error" /\ proxy' = "done" /\ playReq' = "dropped"
  /\ UNCHANGED <<mainVars, micVars, micQ, vadVars, bargeQ, sinkVars, starts, echoQ, overrun>>

ProxyCapture ==
  /\ proxy = "select" /\ ~shutdown
  /\ playReq # "queued" /\ captureReq = "queued"
  /\ captureReq' \in {"frame", "error"}
  /\ UNCHANGED <<mainVars, proxy, playReq, micVars, micQ, vadVars, bargeQ, sinkVars,
                 starts, echoQ, overrun>>

-----------------------------------------------------------------------------
(* The microphone: an unbiased select.                                     *)

MicShutdown ==
  /\ mic = "select" /\ shutdown
  /\ mic' = "done"
  /\ UNCHANGED <<mainVars, proxy, reqVars, micFrame, micQ, vadVars, bargeQ, sinkVars,
                 starts, echoQ, overrun>>

MicTick ==
  /\ mic = "select"
  /\ IF Ended(proxy) THEN mic' = "failed" /\ UNCHANGED captureReq
                     ELSE mic' = "capture" /\ captureReq' = "queued"
  /\ UNCHANGED <<mainVars, proxy, playReq, micFrame, micQ, vadVars, bargeQ, sinkVars,
                 starts, echoQ, overrun>>

MicReply ==
  /\ mic = "capture"
  /\ captureReq \in {"frame", "error", "dropped"}
  /\ mic' = IF captureReq = "frame" THEN "fence" ELSE "failed"
  /\ captureReq' = "none"
  /\ UNCHANGED <<mainVars, proxy, playReq, micFrame, micQ, vadVars, bargeQ, sinkVars,
                 starts, echoQ, overrun>>

\* SharedPcmFrame::from_cpp adopts the frame or fails.
MicAdopt ==
  /\ mic = "fence"
  /\ \/ mic' = "send" /\ micFrame' \in {"speech", "silence"}
     \/ mic' = "failed" /\ UNCHANGED micFrame
  /\ UNCHANGED <<mainVars, proxy, reqVars, micQ, vadVars, bargeQ, sinkVars, starts,
                 echoQ, overrun>>

\* Seeded fault: a receiver that is gone is taken for a full channel.
MicSendForever ==
  /\ mic = "send"
  /\ vad = "select" /\ Len(micQ) < MicCapacity
  /\ micQ' = Append(micQ, micFrame) /\ mic' = "select"
  /\ UNCHANGED <<mainVars, proxy, reqVars, micFrame, vadVars, bargeQ, sinkVars, starts,
                 echoQ, overrun>>

MicSend ==
  /\ mic = "send"
  /\ \/ /\ vad = "select" /\ Len(micQ) < MicCapacity
        /\ micQ' = Append(micQ, micFrame) /\ mic' = "select"
     \/ /\ Ended(vad)
        /\ mic' = "done" /\ UNCHANGED micQ
  /\ UNCHANGED <<mainVars, proxy, reqVars, micFrame, vadVars, bargeQ, sinkVars, starts,
                 echoQ, overrun>>

-----------------------------------------------------------------------------
(* The VAD: shutdown, then echo, then microphone.                          *)

VadShutdown ==
  /\ vad = "select" /\ shutdown
  /\ vad' = "done"
  /\ UNCHANGED <<mainVars, proxy, reqVars, micVars, micQ, latestEcho, speechActive, burst,
                 bargeQ, sinkVars, starts, echoQ, overrun>>

VadEcho ==
  /\ vad = "select" /\ ~shutdown
  /\ echoQ # <<>>
  /\ latestEcho' = Head(echoQ)
  /\ echoQ' = Tail(echoQ)
  /\ UNCHANGED <<mainVars, proxy, reqVars, micVars, micQ, vad, speechActive, burst,
                 bargeQ, sinkVars, starts, overrun>>

\* try_send: a full inbox already holds the interrupt; a sink that is gone is ignored.
VadMicrophone ==
  /\ vad = "select" /\ ~shutdown
  /\ echoQ = <<>> /\ micQ # <<>>
  /\ micQ' = Tail(micQ)
  /\ \E aligned \in {FALSE, latestEcho # None} :
       LET speaking == Head(micQ) = "speech"
           interrupt == speaking /\ ~speechActive /\ aligned
       IN /\ bargeQ' = IF interrupt /\ ~Ended(sink) THEN 1 ELSE bargeQ
          /\ overrun' = IF interrupt /\ bargeQ = 0 THEN 0 ELSE overrun
          /\ speechActive' = speaking
          /\ burst' = IF speaking
                        THEN [overlap |-> burst.overlap \/ aligned,
                              interrupted |-> burst.interrupted \/ interrupt]
                        ELSE Quiet
  /\ UNCHANGED <<mainVars, proxy, reqVars, micVars, vad, latestEcho, sinkVars, starts, echoQ>>

-----------------------------------------------------------------------------
(* The playback sink: shutdown, interrupt, command, clock.                 *)

SinkShutdown ==
  /\ sink = "select" /\ shutdown
  /\ sink' = "done"
  /\ UNCHANGED <<mainVars, proxy, reqVars, micVars, micQ, vadVars, bargeQ, playing, sequence,
                 starts, echoQ, overrun>>

SinkInterrupt ==
  /\ sink = "select" /\ ~shutdown
  /\ bargeQ = 1
  /\ bargeQ' = 0
  /\ playing' = None
  /\ UNCHANGED <<mainVars, proxy, reqVars, micVars, micQ, vadVars, sink, sequence, starts,
                 echoQ, overrun>>

SinkStart ==
  /\ sink = "select" /\ ~shutdown
  /\ bargeQ = 0 /\ starts > 0
  /\ starts' = starts - 1
  /\ playing' = UtteranceFrames
  /\ UNCHANGED <<mainVars, proxy, reqVars, micVars, micQ, vadVars, bargeQ, sink, sequence,
                 echoQ, overrun>>

\* Seeded fault: the clock branch comes before the interrupt.
SinkTickFirst ==
  /\ sink = "select" /\ ~shutdown
  /\ playing # None
  /\ IF playing = 0
       THEN playing' = None /\ UNCHANGED <<sink, playReq>>
       ELSE /\ playing' = playing - 1
            /\ sink' = "play" /\ playReq' = "queued"
  /\ UNCHANGED <<mainVars, proxy, captureReq, micVars, micQ, vadVars, bargeQ, sequence,
                 starts, echoQ, overrun>>

\* Seeded fault: a finished utterance stays current.
SinkTickKeepsFinished ==
  /\ sink = "select" /\ ~shutdown
  /\ bargeQ = 0 /\ starts = 0
  /\ playing # None /\ playing > 0
  /\ playing' = playing - 1
  /\ sink' = "play" /\ playReq' = "queued"
  /\ UNCHANGED <<mainVars, proxy, captureReq, micVars, micQ, vadVars, bargeQ, sequence,
                 starts, echoQ, overrun>>

SinkTick ==
  /\ sink = "select" /\ ~shutdown
  /\ bargeQ = 0 /\ starts = 0
  /\ playing # None
  /\ IF playing = 0
       THEN playing' = None /\ UNCHANGED <<sink, playReq>>
       ELSE /\ playing' = playing - 1
            /\ sink' = "play" /\ playReq' = "queued"
  /\ UNCHANGED <<mainVars, proxy, captureReq, micVars, micQ, vadVars, bargeQ, sequence,
                 starts, echoQ, overrun>>

SinkReceipt ==
  /\ sink = "play"
  /\ playReq \in {"receipt", "dropped"}
  /\ sink' = IF playReq = "receipt" THEN "echo" ELSE "failed"
  /\ playReq' = "none"
  /\ UNCHANGED <<mainVars, proxy, captureReq, micVars, micQ, vadVars, bargeQ, playing,
                 sequence, starts, echoQ, overrun>>

\* Seeded fault: the frame is counted before it is mirrored, and lost if there is no room.
SinkEchoTrySend ==
  /\ sink = "echo"
  /\ sequence' = sequence + 1
  /\ sink' = "select"
  /\ echoQ' = IF vad = "select" /\ Len(echoQ) < EchoCapacity THEN Append(echoQ, sequence)
                                                             ELSE echoQ
  /\ UNCHANGED <<mainVars, proxy, reqVars, micVars, micQ, vadVars, bargeQ, playing, starts,
                 overrun>>

SinkEcho ==
  /\ sink = "echo"
  /\ \/ /\ vad = "select" /\ Len(echoQ) < EchoCapacity
        /\ echoQ' = Append(echoQ, sequence)
        /\ sequence' = sequence + 1
        /\ sink' = "select"
     \/ /\ Ended(vad)
        /\ sink' = "done" /\ UNCHANGED <<echoQ, sequence>>
  /\ UNCHANGED <<mainVars, proxy, reqVars, micVars, micQ, vadVars, bargeQ, playing, starts,
                 overrun>>

-----------------------------------------------------------------------------
Main == StartUtterance \/ Shutdown \/ Join
Proxy == ProxyShutdown \/ ProxyPlay \/ ProxyCapture
Mic == MicShutdown \/ MicTick \/ MicReply \/ MicAdopt \/ MicSend
Vad == VadShutdown \/ VadEcho \/ VadMicrophone
Sink == SinkShutdown \/ SinkInterrupt \/ SinkStart \/ SinkTick \/ SinkReceipt \/ SinkEcho

Next == Main \/ Proxy \/ Mic \/ Vad \/ Sink

Spec == Init /\ [][Next]_vars

\* The runtime polls every task, the clocks tick, and main's join goes on; no
\* fairness is asked of the user who starts utterances and presses Ctrl-C.
GraphFairness ==
  /\ WF_vars(Proxy) /\ WF_vars(Mic) /\ WF_vars(Vad) /\ WF_vars(Sink) /\ WF_vars(Join)

-----------------------------------------------------------------------------
(* Properties.                                                             *)

\* run_playback_sink and the capacity-one inbox: once an interrupt is pending,
\* the hardware gets at most the one frame already on its way, however many
\* utterances and microphone frames are queued.
InterruptBounded == overrun <= 1

\* run_playback_sink mirrors every frame the hardware took into the echo track
\* once and in order: what the VAD last saw, what waits in the channel and the
\* sink's counter are consecutive.
EchoMirrorsPlayback ==
  vad = "select" =>
    /\ \A i \in 1 .. Len(echoQ) : echoQ[i] + Len(echoQ) - i + 1 = sequence
    /\ IF latestEcho = None THEN sequence = Len(echoQ)
                            ELSE latestEcho + Len(echoQ) + 1 = sequence

\* A capture error, a slow VAD or a full channel never takes playback down:
\* the sink fails only when the proxy has left on shutdown.
SinkFailsOnlyAtShutdown == sink = "failed" => shutdown

\* Wherever Ctrl-C meets the actors (in a capture, on a full channel, waiting
\* for a receipt), all four tasks end and main returns.
ShutdownCompletes ==
  shutdown ~> (/\ \A task \in {proxy, mic, vad, sink} : Ended(task)
               /\ joined = 4 \/ mainErr)

\* Playback is never stuck behind the echo track or the proxy: what is being
\* played ends, by itself, by an interrupt or by shutdown.
PlaybackEnds == (playing # None) ~> (playing = None \/ Ended(sink))

\* The requirement of TEST_PLAN.md on speech during playback: a burst of speech
\* that overlaps the echo track has interrupted playback.
OverlapInterrupts == burst.overlap => burst.interrupted
=============================================================================
