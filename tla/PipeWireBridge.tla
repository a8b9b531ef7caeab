--------------------------- MODULE PipeWireBridge ----------------------------
(***************************************************************************)
(* The PipeWire adapter (src/wireless/pipewire.rs) and the program around  *)
(* it (src/bin/dorsche_pipewire.rs): a PipeWire thread on one side of a    *)
(* ring, a pump task between the ring and Floss's socket on the other.     *)
(* As a source, Floss's microphone PCM goes to PipeWire; as a sink,        *)
(* PipeWire's playback goes to Floss.                                      *)
(*                                                                         *)
(* The ring is FrameQueue, which MediaRing implements, with its wakeup: a  *)
(* waiting pump sees a frame that is there.  A frame is its sequence       *)
(* number and its length in units, of which a slot holds SlotUnits.        *)
(***************************************************************************)
EXTENDS Naturals, Sequences

CONSTANTS Slots,      \* RingPair::create(16, ..)
          SlotUnits,  \* bytes_per_interval
          MaxUnits,   \* bound: the largest PipeWire buffer
          MaxFrames   \* bound: frames the peer or PipeWire brings

ASSUME BridgeAssumption ==
  /\ {Slots, SlotUnits, MaxUnits} \subseteq Nat \ {0}
  /\ MaxFrames \in Nat

VARIABLES
  direction,   \* args.direction: "source", "sink"
  queue, lent, dropped,   \* the ring
  sequence,    \* the producer's next sequence number
  brought,     \* frames the peer sent, or buffers PipeWire filled
  pump,        \* "reserve", "read" / "acquire", "write" / "ended"
  pumpErr,     \* the pump returned an error
  pw,          \* the PipeWire thread: "running", "stopped"
  delivered,   \* frames handed on: to PipeWire, or to Floss
  main         \* "pumping", "stop", "exit"

ring == <<queue, lent, dropped>>
vars == <<direction, ring, sequence, brought, pump, pumpErr, pw, delivered, main>>

Frames == [sequence : 0 .. MaxFrames, units : 0 .. MaxUnits]

Q == INSTANCE FrameQueue WITH Capacity <- Slots, CountModulus <- MaxFrames + 2

Init ==
  /\ direction \in {"source", "sink"}
  /\ Q!Init
  /\ sequence = 0 /\ brought = 0
  /\ pump = IF direction = "source" THEN "reserve" ELSE "acquire"
  /\ pumpErr = FALSE /\ pw = "running"
  /\ delivered = <<>>
  /\ main = "pumping"

Pumping(pc) == main = "pumping" /\ pump = pc

\* The pump returns an error; select! hands it to main.
PumpFails ==
  pump' = "ended" /\ pumpErr' = TRUE /\ main' = "stop"

-----------------------------------------------------------------------------
(* Source: pump_peer_to_ring, and the process callback of run_source.      *)

\* try_reserve succeeds: the slot is reserved before anything is read.
PumpReserve ==
  /\ Pumping("reserve") /\ Len(queue) < Slots
  /\ pump' = "read"
  /\ UNCHANGED <<direction, ring, sequence, brought, pumpErr, pw, delivered, main>>

\* Seeded fault: an overrun is counted and tried again.
PumpOverrunRetries ==
  /\ Pumping("reserve")
  /\ Q!Refuse
  /\ UNCHANGED <<direction, sequence, brought, pump, pumpErr, pw, delivered, main>>

\* try_reserve fails: "PipeWire source ring overrun" ends the pump.
PumpOverrun ==
  /\ Pumping("reserve")
  /\ Q!Refuse
  /\ PumpFails
  /\ UNCHANGED <<direction, sequence, brought, pw, delivered>>

\* Seeded fault: the number of the frame is not advanced.
PumpReadSameNumber ==
  /\ Pumping("read") /\ brought < MaxFrames
  /\ brought' = brought + 1
  /\ Q!Enqueue([sequence |-> sequence, units |-> SlotUnits])
  /\ pump' = "reserve"
  /\ UNCHANGED <<direction, sequence, pumpErr, pw, delivered, main>>

\* read_exact of one interval into the slot, and commit.
PumpRead ==
  /\ Pumping("read") /\ brought < MaxFrames
  /\ brought' = brought + 1
  /\ Q!Enqueue([sequence |-> sequence, units |-> SlotUnits])
  /\ sequence' = sequence + 1
  /\ pump' = "reserve"
  /\ UNCHANGED <<direction, pumpErr, pw, delivered, main>>

\* read_exact fails: the peer is gone.
PumpReadFails ==
  /\ Pumping("read")
  /\ PumpFails
  /\ UNCHANGED <<direction, ring, sequence, brought, pw, delivered>>

\* process with a buffer of n units: the oldest frame is leased, what fits is
\* copied, and the lease is dropped with the rest.
SourceProcess(n) ==
  /\ direction = "source" /\ pw = "running" /\ queue # <<>>
  /\ delivered' = Append(delivered, [Head(queue) EXCEPT !.units = IF n < @ THEN n ELSE @])
  /\ queue' = Tail(queue)
  /\ UNCHANGED <<direction, lent, dropped, sequence, brought, pump, pumpErr, pw, main>>

\* A buffer without mapped memory, or a frame whose descriptor disagrees with the
\* stream: the frame is leased and dropped uncopied.
SourceProcessUnmapped ==
  /\ direction = "source" /\ pw = "running" /\ queue # <<>>
  /\ queue' = Tail(queue)
  /\ UNCHANGED <<direction, lent, dropped, sequence, brought, pump, pumpErr, pw, delivered, main>>

-----------------------------------------------------------------------------
(* Sink: the process callback of run_sink, and pump_ring_to_host.          *)

\* process with n units: refused and counted when the ring is full, dropped
\* when they exceed a slot, published otherwise.  A callback without a buffer,
\* without mapped data or with an extent outside of it returns before it looks
\* at the ring, and is a stuttering step.
SinkProcess(n) ==
  /\ direction = "sink" /\ pw = "running" /\ brought < MaxFrames
  /\ brought' = brought + 1
  /\ \/ Q!Refuse /\ UNCHANGED sequence
     \/ n > SlotUnits /\ Len(queue) < Slots /\ UNCHANGED <<ring, sequence>>
     \/ n <= SlotUnits /\ sequence' = sequence + 1
        /\ Q!Enqueue([sequence |-> sequence, units |-> n])
  /\ UNCHANGED <<direction, pump, pumpErr, pw, delivered, main>>

\* Seeded fault: the pump goes back to waiting while one frame is queued.
PumpAcquireKeepsOne ==
  /\ Pumping("acquire") /\ Len(queue) > 1
  /\ Q!Lend
  /\ pump' = "write"
  /\ UNCHANGED <<direction, sequence, brought, pumpErr, pw, delivered, main>>

\* try_acquire returns a frame; with none the pump waits in wait_readable.
PumpAcquire ==
  /\ Pumping("acquire")
  /\ Q!Lend
  /\ pump' = "write"
  /\ UNCHANGED <<direction, sequence, brought, pumpErr, pw, delivered, main>>

\* try_acquire rejects a descriptor, or wait_readable fails: the pump ends.
PumpAcquireFails ==
  /\ Pumping("acquire")
  /\ PumpFails
  /\ UNCHANGED <<direction, ring, sequence, brought, pw, delivered>>

\* write_all of the payload completes and the lease is dropped.
PumpWrite ==
  /\ Pumping("write")
  /\ delivered' = Append(delivered, Head(queue))
  /\ Q!GiveBack
  /\ pump' = "acquire"
  /\ UNCHANGED <<direction, sequence, brought, pumpErr, pw, main>>

\* The frame is not PCM, or write_all fails: the lease is dropped, the pump ends.
PumpWriteFails ==
  /\ Pumping("write")
  /\ Q!GiveBack
  /\ PumpFails
  /\ UNCHANGED <<direction, sequence, brought, pw, delivered>>

-----------------------------------------------------------------------------
\* The PipeWire main loop ends or cannot start; its thread only reports it.
PipeWireStops ==
  /\ pw = "running"
  /\ pw' = "stopped"
  /\ UNCHANGED <<direction, ring, sequence, brought, pump, pumpErr, delivered, main>>

\* Ctrl-C wins the select!; the pump is dropped, and with it a lease it holds.
CtrlC ==
  /\ main = "pumping"
  /\ main' = "stop" /\ pump' = "ended"
  /\ IF lent THEN Q!GiveBack ELSE UNCHANGED ring
  /\ UNCHANGED <<direction, sequence, brought, pumpErr, pw, delivered>>

\* data_path.stop() and the exit; the PipeWire thread ends with the process.
StopAndExit ==
  /\ main = "stop"
  /\ main' = "exit" /\ pw' = "stopped"
  /\ UNCHANGED <<direction, ring, sequence, brought, pump, pumpErr, delivered>>

SourceStep == PumpReserve \/ PumpOverrun \/ PumpRead \/ PumpReadFails
SinkStep == PumpAcquire \/ PumpWrite \/ PumpWriteFails
Process == SourceProcessUnmapped \/ \E n \in 0 .. MaxUnits : SourceProcess(n) \/ SinkProcess(n)

Next ==
  \/ SourceStep \/ SinkStep \/ PumpAcquireFails
  \/ Process \/ PipeWireStops \/ CtrlC \/ StopAndExit

Spec == Init /\ [][Next]_vars

\* The runtime polls a pump that can go on: Floss takes what is written, and
\* a peer that is connected sends.  PipeWire owes no callbacks.
FairSpec ==
  /\ Spec
  /\ WF_vars(SourceStep) /\ WF_vars(SinkStep) /\ WF_vars(StopAndExit)

-----------------------------------------------------------------------------
\* The other side hears each frame at most once and in the order of the
\* numbers, whichever side of the ring is the slow one; and as a sink the host
\* hears every published frame, the numbers written and those in the ring
\* being the ones handed out, without a gap.
StreamInOrder ==
  LET stream == delivered \o queue
  IN /\ \A i, j \in DOMAIN stream : i < j => stream[i].sequence < stream[j].sequence
     /\ direction = "sink" /\ ~pumpErr /\ main = "pumping" => Len(stream) = sequence

\* A source whose PipeWire thread has died does not keep the stream open: the
\* ring fills up and the overrun ends the pump, while the peer keeps sending.
SourceDeathEnds ==
  (direction = "source" /\ pw = "stopped") ~> (main = "exit" \/ brought = MaxFrames)

\* A published frame is written to the host, or the program ends.
PublishedIsWritten ==
  \A i \in 1 .. MaxFrames :
    (direction = "sink" /\ sequence >= i) ~> (main = "exit" \/ Len(delivered) >= i)
=============================================================================
