----------------------------- MODULE HfpLoopback -----------------------------
(***************************************************************************)
(* exercise_loopback of src/bin/floss_hfp_smoke.rs: one task reads the     *)
(* microphone from the SCO socket, another echoes it to the headset        *)
(* through a circular delay line, and a bounded channel joins them.        *)
(*                                                                         *)
(* The unit is a 16-bit sample, not a byte: the socket delivers whole      *)
(* samples.  The k-th sample of the uplink has amplitude 2k, so that each  *)
(* can be told from every other and from silence, and the gain is 1/2.     *)
(* Time is which of the two deadlines has passed.                          *)
(***************************************************************************)
EXTENDS Integers, Sequences

CONSTANTS Delays,      \* lengths of the delay line, in samples; 0 for a direct echo
          MaxRead,     \* most samples one read returns
          DrainFrame,  \* samples of one 10 ms frame
          Capacity,    \* mpsc::channel(8)
          MaxUplink    \* bound: samples the headset sends

VARIABLES
  now,         \* "capturing", "draining" past capture_deadline, "over" past drain_deadline
  uplink,      \* samples the headset has sent
  capture,     \* the capture task: "read", "send", "done", "panic"
  tx,          \* the task's own sender is still Some
  frame,       \* the frame being sent
  captured,    \* captured_pcm
  queue,       \* frames in the channel
  playback,    \* the playback task: "recv", "write", "drain", "done"
  out,         \* the frame being written
  line,        \* delay_line
  cursor,      \* delay_cursor
  remaining,   \* samples of the line still to drain
  played,      \* what the headset was given
  result       \* of try_join!: "running", "ok", "err"

captureVars == <<capture, tx, frame, captured>>
playbackVars == <<playback, out, line, cursor, remaining, played>>
vars == <<now, uplink, captureVars, queue, playbackVars, result>>

Silence(n) == [i \in 1 .. n |-> 0]

\* delay_line.len(), which never changes.
Delay == Len(line)

Init ==
  /\ now = "capturing"
  /\ uplink = 0
  /\ capture = "read" /\ tx = TRUE /\ frame = <<>> /\ captured = <<>>
  /\ queue = <<>>
  /\ playback = "recv" /\ out = <<>> /\ played = <<>>
  /\ \E delay \in Delays : line = Silence(delay) /\ remaining = delay
  /\ cursor = 0
  /\ result = "running"

CaptureOver == now # "capturing"

\* phase_deadline has passed: capture_deadline while the sender is there,
\* drain_deadline afterwards.
PhaseOver == IF tx THEN CaptureOver ELSE now = "over"

\* The clock passes the next deadline; without a delay the two are one.
Tick ==
  /\ result = "running" /\ now # "over"
  /\ now' = IF now = "capturing" /\ Delay > 0 THEN "draining" ELSE "over"
  /\ UNCHANGED <<uplink, captureVars, queue, playbackVars, result>>

-----------------------------------------------------------------------------
(* The capture task.                                                       *)

\* Seeded fault: a clone of the sender outlives the capture phase and the task.
PhaseEndsKeepsSender ==
  /\ result = "running" /\ capture = "read" /\ PhaseOver
  /\ capture' = IF tx /\ Delay > 0 /\ now # "over" THEN "read" ELSE "done"
  /\ tx' = tx
  /\ UNCHANGED <<now, uplink, frame, captured, queue, playbackVars, result>>

\* sleep_until(phase_deadline) wins: the capture phase turns into the drain
\* phase, if there is one; otherwise the task ends and drops its sender.
PhaseEnds ==
  /\ result = "running" /\ capture = "read" /\ PhaseOver
  /\ capture' = IF tx /\ Delay > 0 THEN "read" ELSE "done"
  /\ tx' = FALSE
  /\ UNCHANGED <<now, uplink, frame, captured, queue, playbackVars, result>>

\* Seeded fault: the clock is not looked at again after the read.
ReadUnchecked(n) ==
  /\ result = "running" /\ capture = "read"
  /\ uplink + n <= MaxUplink
  /\ uplink' = uplink + n
  /\ frame' = [i \in 1 .. n |-> 2 * (uplink + i)]
  /\ captured' = captured \o frame'
  /\ capture' = IF tx THEN "send" ELSE "panic"
  /\ UNCHANGED <<now, tx, queue, playbackVars, result>>

\* A read returns n samples.  After capture_deadline they are dropped, and so
\* is the sender; before it they are recorded and sent on.
Read(n) ==
  /\ result = "running" /\ capture = "read"
  /\ uplink + n <= MaxUplink
  /\ uplink' = uplink + n
  /\ IF CaptureOver
       THEN tx' = FALSE /\ UNCHANGED <<capture, frame, captured>>
       ELSE /\ frame' = [i \in 1 .. n |-> 2 * (uplink + i)]
            /\ captured' = captured \o frame'
            /\ capture' = IF tx THEN "send" ELSE "panic"
            /\ tx' = tx
  /\ UNCHANGED <<now, queue, playbackVars, result>>

\* The peer closes the socket: read returns 0 and the task ends.
ReadEof ==
  /\ result = "running" /\ capture = "read"
  /\ capture' = "done" /\ tx' = FALSE
  /\ UNCHANGED <<now, uplink, frame, captured, queue, playbackVars, result>>

\* sender.send(frame) completes.
SendFrame ==
  /\ result = "running" /\ capture = "send"
  /\ Len(queue) < Capacity
  /\ queue' = Append(queue, frame)
  /\ frame' = <<>> /\ capture' = "read"
  /\ UNCHANGED <<now, uplink, tx, captured, playbackVars, result>>

\* capture_deadline passes while the send waits: the frame is lost.
SendTimesOut ==
  /\ result = "running" /\ capture = "send" /\ CaptureOver
  /\ tx' = FALSE /\ frame' = <<>> /\ capture' = "read"
  /\ UNCHANGED <<now, uplink, captured, queue, playbackVars, result>>

-----------------------------------------------------------------------------
(* The playback task.                                                      *)

\* (f32::from(input) * gain).round() for the gain 1/2; amplitudes are not
\* negative here, and nothing a gain of at most one makes needs the clamp.
Attenuate(sample) == (sample + 1) \div 2

Echo(f) == [i \in DOMAIN f |-> Attenuate(f[i])]

\* delay_cursor += 1, back to the start at the end of the line.
Advance(c) == IF c + 1 = Delay THEN 0 ELSE c + 1

\* mem::swap of one sample of the frame with the line.
SwapSample(s, sample) ==
  [line |-> [s.line EXCEPT ![s.cursor + 1] = sample],
   cursor |-> Advance(s.cursor),
   out |-> Append(s.out, s.line[s.cursor + 1])]

\* The line after a frame f that meets it at cursor c.
SwapFrame(f, c) ==
  LET swapped[i \in 0 .. Len(f)] ==
        IF i = 0 THEN [line |-> line, cursor |-> c, out |-> <<>>]
                 ELSE SwapSample(swapped[i - 1], f[i])
  IN  swapped[Len(f)]

\* Seeded fault: the cursor starts again with every frame.
ThroughLineFromStart(f) ==
  IF Delay = 0 THEN [line |-> line, cursor |-> cursor, out |-> f] ELSE SwapFrame(f, 0)

\* A frame goes through the delay line, which may be shorter than the frame.
ThroughLine(f) ==
  IF Delay = 0 THEN [line |-> line, cursor |-> cursor, out |-> f] ELSE SwapFrame(f, cursor)

\* rx.recv() returns a frame: attenuate it and pass it through the line.
Receive ==
  /\ result = "running" /\ playback = "recv" /\ queue # <<>>
  /\ LET s == ThroughLine(Echo(Head(queue)))
     IN line' = s.line /\ cursor' = s.cursor /\ out' = s.out
  /\ queue' = Tail(queue)
  /\ playback' = "write"
  /\ UNCHANGED <<now, uplink, captureVars, remaining, played, result>>

\* write_all of the echoed frame completes.
Write ==
  /\ result = "running" /\ playback = "write"
  /\ played' = played \o out
  /\ out' = <<>> /\ playback' = "recv"
  /\ UNCHANGED <<now, uplink, captureVars, queue, line, cursor, remaining, result>>

\* rx.recv() returns None: the channel is empty and neither the task nor a
\* send under way holds a sender.
RecvNone ==
  /\ result = "running" /\ playback = "recv" /\ queue = <<>>
  /\ ~tx /\ capture # "send"
  /\ playback' = "drain"
  /\ UNCHANGED <<now, uplink, captureVars, queue, out, line, cursor, remaining, played, result>>

\* The next samples of the line, from the cursor on.
Oldest(length) == [i \in 1 .. length |-> line[((cursor + i - 1) % Delay) + 1]]

\* One tick of the drain: at most a frame of the line.
DrainTick ==
  /\ result = "running" /\ playback = "drain" /\ remaining # 0
  /\ LET length == IF remaining < DrainFrame THEN remaining ELSE DrainFrame
     IN /\ played' = played \o Oldest(length)
        /\ cursor' = (cursor + length) % Delay
        /\ remaining' = remaining - length
  /\ UNCHANGED <<now, uplink, captureVars, queue, playback, out, line, result>>

\* writer.shutdown() after the drain.
ShutdownWriter ==
  /\ result = "running" /\ playback = "drain" /\ remaining = 0
  /\ playback' = "done"
  /\ UNCHANGED <<now, uplink, captureVars, queue, out, line, cursor, remaining, played, result>>

-----------------------------------------------------------------------------
\* try_join! has both results.
Join ==
  /\ result = "running" /\ capture = "done" /\ playback = "done"
  /\ result' = "ok"
  /\ UNCHANGED <<now, uplink, captureVars, queue, playbackVars>>

\* A read, a write or the shutdown fails, and try_join! drops both tasks.
Fail ==
  /\ result = "running"
  /\ capture = "read" \/ playback \in {"write", "drain"}
  /\ result' = "err"
  /\ UNCHANGED <<now, uplink, captureVars, queue, playbackVars>>

ReadSome == \E n \in 1 .. MaxRead : Read(n)

CaptureStep == PhaseEnds \/ SendFrame \/ SendTimesOut
PlaybackStep == Receive \/ Write \/ RecvNone \/ DrainTick \/ ShutdownWriter

\* What the two tasks do, and what ends them.
Step == CaptureStep \/ ReadSome \/ ReadEof \/ PlaybackStep \/ Join \/ Fail

Next == Tick \/ Step

Spec == Init /\ [][Next]_vars
=============================================================================
