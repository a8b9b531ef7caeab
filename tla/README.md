# Dorsche: a TLA+ verification of the audio data and control planes

Dorsche moves Bluetooth audio between Floss (the vendored Android Bluetooth
stack), PipeWire and a small actor graph.  This directory holds TLA+ modules
translated from its code, the TLC configurations that check them on small
instances, and TLAPS proofs for every instance.  `PROJECT.json` maps every
definition to the lines it models and lists runs, mutants, findings and hazards.

## The system

| Part | Code | State | Operations | What is hard about it |
|---|---|---|---|---|
| Media ring | `src/wireless/data_plane.rs` | slots, two cursors and a drop counter in shared memory; an eventfd; the runtime's readiness flag | reserve, write, commit, signal; acquire, release, wait; moving an endpoint to another process | two processes without a lock; wrapping cursors; a wakeup racing the decision to sleep |
| Session actor | `src/wireless/session.rs` | state, configuration, position; two bounded channels | configure, start, suspend, stop, update position, get position, close | several clients, full channels, cancelled calls, a consumer that leaves |
| Floss LE client | `src/wireless/floss.rs`, `src/bin/dorsche_pipewire.rs`, `src/bin/floss_le_audio_smoke.rs` | which directions were started, which PCM configurations are known | start, wait, roll back, connect, stop | every D-Bus call can fail; deadlines race confirmations |
| Topshim graph | `src/topshim/actors.rs`, `src/main.rs` | four tasks, seven channels, a shutdown watch | capture, play, detect speech, interrupt, shut down | blocking sends between actors, priorities, shutdown at any point |
| Capture frames | `src/dorsche_core.cc`, `include/dorsche_core.h`, `src/topshim/frame.rs` | two descriptors, two mappings, a fence, reference counts | construct, transfer, wait, map, clone, drop | ownership across two languages, failure after each step |
| Types and providers | `src/wireless/types.rs`, `src/wireless/provider.rs` | none (pure), a provider list | validate, size, register, select, fall back | arithmetic edges, two codec checks that must agree, checks across nested lists |
| PipeWire bridge | `src/wireless/pipewire.rs` | a stream and a ring endpoint | process callbacks | real-time callbacks against the ring |
| HFP and A2DP smoke tests | `src/bin/floss_hfp_smoke.rs`, `src/bin/floss_audio_smoke.rs` | a call or a stream, a UIPC socket, a delay line | start, exercise, stop | stop on every error path, what an earlier run has left, deadlines within deadlines |
| btusb patches | `kernel/patches/` | SCO URBs, the alternate setting, packet lengths | submit, switch, flush, notify | kernel concurrency |

The ring carries PCM between the Floss UIPC socket and PipeWire; the Floss
client opens and closes that socket; sessions describe what is streamed; the
topshim graph is a separate full-duplex demo over capture frames.  The HFP smoke
test drives the SCO path of Floss, which the kernel patches make safe underneath;
the A2DP smoke test drives its media path.

## The modules

A module `X` that is run has an `MCX.tla` and a `MCX.cfg` that give it a small
instance; `TopshimGraph` and `HardwareFrame` share `MCTopshim`.  `AudioConfig` and `RingLayout` hold operators that `Negotiation` and
`FlossLeUnicast` use, and `HfpCall` and `HfpLoopback` are run inside `HfpSmoke`.
Definitions marked *Seeded fault* are deliberately wrong variants of the
definition that follows them; substituting one must break the property that
`PROJECT.json` pairs it with.

| Module | Models | How state and steps correspond to the code |
|---|---|---|
| `FrameQueue` | what the users of a ring rely on | a bounded FIFO queue with a lease on its head and a count of refused frames |
| `MediaRing` | `data_plane.rs` | one action per shared-memory access: the slot is written in two steps each for payload and descriptor (`Torn` in between), the head store and the eventfd write of `commit` are separate, `wait_readable` is split at its awaits; tokio's readiness flag and the epoll edge are external |
| `Session` | `session.rs` | one action per command, executed when received; its events are then emitted one at a time into the bounded channel, and the answer goes out after the last; clients send, wait, cancel and drop; the receiver consumes or leaves |
| `RingLayout` | the sizes and offsets of `data_plane.rs` | what `create` computes, what `validate_header` accepts, where the slot of a cursor lies |
| `AudioConfig` | `types.rs` | one operator per `validate`; the nested loops of the broadcast check are recursive functions that carry `seen_bis` |
| `Negotiation` | `provider.rs` | the registry as a sequence; register, request with or without a fallback, open a session of the granted type, configure it |
| `FlossLeUnicast` | `floss.rs` and its two callers | a program counter over every D-Bus call, each of which succeeds, fails, or takes effect and loses its reply; PCM property maps are parsed with `AudioConfig`, rings are made with `RingLayout`, and the smoke test moves its intervals |
| `PipeWireBridge` | `pipewire.rs`, the pumps of `dorsche_pipewire.rs` | INSTANCEs `FrameQueue` for the ring: the PipeWire callbacks are one side, the pump the other, main's select around them |
| `TopshimGraph` | `actors.rs`, `main.rs` | four tasks with their channels; a `select!` is the disjunction of its arms with the priorities of `biased` as guards; a blocking send is a state of its task |
| `HardwareFrame` | `dorsche_core.cc`, `frame.rs` | a descriptor table and, for every frame, which variable holds which number; one action per system call, with its failure |
| `HfpCall` | main of `floss_hfp_smoke.rs` | a program counter from `SetHfpActiveDevice` to the exit; Floss answers, is late, or is silent |
| `HfpLoopback` | `exercise_loopback` | the two joined futures, the channel between them and the delay line, sample by sample |
| `HfpSmoke` | `floss_hfp_smoke.rs` as a whole | INSTANCEs the two modules above and adds `exercise_full_duplex`, main's timeout and the checks of what was captured |
| `A2dpSmoke` | `floss_audio_smoke.rs` | a program counter over main and its helpers, run after run against one Floss, which keeps its stream when a run fails or is killed |
| `BtusbSco` | the two kernel patches | senders, the work item and the notification as threads, with the mutex of patch 0001; the USB core is external |
| `MediaRingProofs`, `PipeWireBridgeProofs` | | the theorems about the module each is named after |
| `SessionProofs` | | the theorems about `Session`, and about `Negotiation` with `AudioConfig` |
| `FlossProofs` | | the theorems about `RingLayout` and `FlossLeUnicast` |
| `ClassicAudioProofs` | | the theorems about `BtusbSco` and `A2dpSmoke` |
| `TopshimProofs` | | the theorems about `HardwareFrame` and `TopshimGraph` |
| `HfpSmokeProofs`, `EchoProofs` | | the theorems about `HfpSmoke`; `EchoProofs` has the lemmas about `HfpLoopback` alone |

Samples, frames, configurations and names are model values or small numbers.
Logging, statistics and D-Bus encodings are left out.

## What the runs show

| Run | Instance | Properties |
|---|---|---|
| `ring` | 2 slots, cursors modulo 4, an index type modulo 2, an eventfd that saturates at 2, 2 frames | `SlotExclusive`, `LeaseIntact`: no slot is written while it is queued or leased, and no lease is torn. `NoLostWakeup`, `WakeupAnnounced`: a consumer never sleeps over a frame. `ImplementsQueue`: refinement of `FrameQueue`. `OldestFrameConsumed`: liveness |
| `session` | 2 clients, channels of capacity 1, a valid and an invalid configuration, 2 position reports that disagree in clock and octets, software and offload sessions | `EventsTellAll`: the events sent and queued lead an observer to exactly the actor's state, configuration and position. `ObservedLifeCycle`: the observer only sees legal transitions. `EveryCallReturns`. With a second valid configuration the liveness check takes too long; the two safety properties are proved for any set of them |
| `floss_le` | both programs, every selection of directions, property maps with a missing field, an unsupported rate and 44.1 kHz at 7.5 ms among them, 2 intervals | `NothingLeftRunning`: after a rolled-back start or a stop, Floss runs at most a direction whose last request went unanswered. `DataPathComplete`: a path handed out is acknowledged and described in exactly the selected directions, an interval is whole frames, and a ring that was made for it is sound and holds one. `OnlyTransferLasts`: a run ends or stays in a transfer that has seen no error, and a smoke test with a partner that keeps up ends |
| `negotiation` | 3 providers, up to 2 registered, requests on and beyond their limits, up to 2 subgroups of up to 2 BIS | `NoHiddenFallback`, `SelectionStable`. `GrantIsConfigurable`: `supports` and `validate` agree on what software LC3 grants. `ConfigurationSound`: of the broadcasts whose other fields are valid the loops accept exactly those with matching codecs and without a repeated BIS, and a session gets only what its type carries |
| `pipewire` | 2 slots, buffers smaller than, equal to and larger than a slot, 5 frames, both directions | `StreamInOrder`: once each, in order, and without a gap as a sink. `SourceDeathEnds`, `PublishedIsWritten` |
| `topshim` | 2 utterances of 2 frames, channels of capacity 1 and 2; 3 capture frames, 4 descriptors, 2 references | `InterruptBounded`: at most one more frame after an interrupt. `EchoMirrorsPlayback`, `SinkFailsOnlyAtShutdown`, `ShutdownCompletes`, `PlaybackEnds`. `OwnedExactlyOnce`: no leak, no double close, on any failure path. `LeaseReadOnly`: from its adoption to its last drop a frame is filled, not writable by C++, and kept by Rust's own descriptor. `AdoptsValidDescriptors` |
| `hfp` | either exercise; no delay or 3 samples, reads of 1 to 4, drain frames of 2, a channel of 2, 6 samples, a tone of 2 frames | `EchoIsExact`: delayed, sample for sample, to the end. `SenderExists`: the `expect` never fires. `StopOnEveryExit`: a run that returns after an accepted start has asked for the stop, the call being down or going down, or reports that it could not. `SuccessIsSound`: the microphone was heard, all was played, no call is left. `RunEnds` |
| `a2dp` | 3 runs, tones, files with and without a short last chunk, an empty file and one that splits a frame, a stream that may be there from the start | `NoStartDuringSuspend`: however late an earlier start comes through. `SuccessIsWhole`: all bytes sent, the stream stopped unless Floss answered the stop with another status than zero. `RunEnds` |
| `btusb` | 2 senders, two different settings, 6 notifications, 3 URBs in flight | `NoStaleSubmission`, `InFlightFitsSetting`, `SettingFollowsConnection`, `SendReturns` |

`topshim` takes the actors and the frames of their program together.  The two
models share no variable and each property speaks of one of them, so the run lets
one move while the other rests instead of multiplying their states.

### Why the bounds are enough

- *Ring.* Both cursors wrap, the ring is full and empty at every phase of the
  wrap, and the eventfd saturates.  Two frames tell a slot's old content from
  its new one.  The safety properties are proved for all sizes.
- *Channels.* Capacity 1 makes every sender meet a full channel, and a command
  with two events (Configure) block between them.
- *Floss, the call and the A2DP stream.* These are finite programs: the runs
  cover them entirely.  The later A2DP runs meet a Floss in each state that
  an earlier one can leave.
- *Negotiation.* Two registrations are enough for one provider to come before
  another; two subgroups of two BIS repeat an index within and across subgroups.
- *Loopback.* A read can be longer than the line, so that the cursor wraps in
  the middle of a frame, and the last drain frame is a short one.
- *Frames.* Two leases leave two of four descriptors: the third capture runs out
  at each of its steps.
- *btusb.* Six notifications are connect, disconnect and reconnect with another
  codec, twice.  The bound ends the notifications, which is what
  `SettingFollowsConnection` speaks about: the last one decides.

`CHECK_DEADLOCK FALSE` appears where the program really ends: a program's
exit, a session whose actor is done, a graph that has shut down.

### Fairness

A task that can go on is polled (weak fairness): tokio and the kernel's
workqueue promise that.  Timers fire.  Strong fairness is used twice.
In `MediaRing` for `TryAcquire`: whoever owns the consumer calls it again and
again between its waits.  In `BtusbSco` for the senders and the work item, because a
Linux mutex is handed to a waiter in the end.  Nothing is asked of the user, of
PipeWire's callbacks or of the producer of frames.  What is asked of partners:

- `EveryCallReturns`: the receiver of events keeps consuming or is dropped.
- `OnlyTransferLasts` and both `RunEnds`: a D-Bus call returns, with an answer or
  an error.  The code puts no timeout around its calls.  What Floss announces
  later (a confirmation, a byte on a listener) is owed nothing; deadlines bound
  these waits.
- `OnlyTransferLasts`: the transfers of the LE programs have no timeout, so one
  that waits for Floss, or the bridge for Ctrl-C, may wait for ever, and the
  property says that nothing else may.  Its second part names the assumption
  under which a smoke test ends (`WF_vars(\E d \in Directions : MoveInterval(d))`).
- `RunEnds` of the HFP test: Floss takes what is played, or main's timeout fires.
  The property says so (`WF_vars(Playback) \/ WF_vars(Timeout)`), so that it
  shows both that the tasks end without the timeout and that the timeout ends a
  stalled run.
- `RunEnds` of the A2DP test: Floss takes the PCM that is written, or closes the
  socket; `write_all` has no timeout there.  A poll that finds the stream still
  there is owed nothing; only its deadline is.
- `PublishedIsWritten`: Floss takes what is written to its socket, or the write
  fails.  `SourceDeathEnds`: the peer goes on sending, or the read fails.

## What is proved

All theorems hold for every value of the constants that satisfies the named
assumptions.

`MediaRingProofs` assumes `RingAssumption` (at least two slots, fewer than
cursor values) and `WrapAssumption` (the slot count divides the range of the
index type, and that the range of the cursors).  The second is not enforced by
`RingPair::create`, which accepts any count from two up; with a count that does
not divide 2^64 the slots would jump when a cursor wraps, after 2^64 frames.

- `TypeCorrect`, `ProducerOwnsSlot` (`SlotExclusive`), `LeaseNeverTorn`
  (`LeaseIntact`), `WakeupNeverLost` (`NoLostWakeup`), `WakeupIsAnnounced`
  (`WakeupAnnounced`).
- `RingImplementsQueue`: the refinement of `FrameQueue`.

None of these is inductive alone.  `IInv` adds four facts.  `Occupancy`: at most
`SlotCount` frames between tail and head, and fewer while one is being written.
`PublishedWhole`: every slot between them holds a complete frame.
`SlotProgress`: how far the producer's own slot is.  `ClearingSafe`: when the
consumer is about to clear its readiness flag, an unseen signal will set it
again.  The arithmetic (slots at different distances from tail differ, whatever
the wrap) is in the lemmas `ModMod`, `SlotOfCursor`, `SlotsDistinct` and
`CursorMoves`.  The refinement shows that the head store appends
(`PublishEnqueues`), a dropped lease removes the head (`DropLeaseDequeues`), and
every other step stutters.

`ClassicAudioProofs` assumes `BtusbAssumption` (the settings for the air modes are
not zero) and `A2dpAssumption` (sizes are numbers, a tick is whole frames).

- `TypeCorrect`, `SubmissionsAreCurrent` (`NoStaleSubmission`),
  `InFlightIsCurrent` (`InFlightFitsSetting`), `RunningIsBacked`
  (`RunningHasEndpoint`, which only the proof uses).
  `IInv` says who holds the mutex in which state (`MutexHeld`), that a URB built
  under it fits the selected setting (`BuiltUrbFits`), and that between the kill
  and the selection of the new setting nothing is in flight and
  `BTUSB_ISOC_RUNNING` is clear (`QuietDuringSwitch`).
- `StartsNeverRace` (`NoStartDuringSuspend`).  `RaceInv` extends it to the volume
  call that comes between the last poll and the start.
- `SuccessSendsAll` (`SuccessIsWhole`), for every tone, file and chunk size.
  `WholeInv` gives the bytes sent after `k` writes in closed form (`Upto`), and
  says that the listener of the last stop answers zero only once the stream is
  gone.

`FlossProofs` assumes `WordAssumption` (a word larger than the header) and
`FlossAssumption` (a PCM description's interval is a number).

- `CreatedRingIsSound`: every slot count and capacity `create` accepts gives a
  header that `validate_header` accepts, and slots that are aligned, inside the
  mapping and apart, for all cursors.  It is the memory-level reason why
  `MediaRing` may treat slots as separate variables.  The argument is that
  `AlignUp` rounds up to a multiple of the line (`AlignUpFits`), and that offsets
  grow by at least a stride (`Monotone`).
- `RunsLeaveNothing` (`NothingLeftRunning`).  `StreamInv` adds that a direction
  Floss streams has been recorded as started or is in doubt, and that after the
  peer's stop request only the host's direction is left.
- `PathsAreComplete` (`DataPathComplete`), for every PCM description.  `PathInv`
  says at each step of the program which directions are acknowledged and which
  are described, and that every description kept was parsed (`ParsedMap`); the
  rings are sound by `CreatedRingIsSound`.  The property speaks of the rings the
  programs make: the capacity they pass is the interval `as u32`
  (`floss_le_audio_smoke.rs:187`, `dorsche_pipewire.rs:105`), so that an interval
  of 2^32 bytes or more would be cut, and the property excepts it.

`SessionProofs` assumes `SessionAssumption` and, for the registry,
`NegotiationAssumption` (no capability or request is the marker for `None`, and
broadcasts have subgroups of the code's type).

- `NothingGoesUntold` (`EventsTellAll`) and `LifeCycleIsObserved`
  (`ObservedLifeCycle`), for any clients, configurations, reports and capacities.
  An adapter runs behind the actor by the events in the channel and in the
  actor's hands.  `SessionInv` says that these form a chain of sessions from what
  the adapter knows to what the actor holds, each a legal change from the one
  before (`Leads`).  A handler lengthens the chain at its end (`LeadsFurther`),
  the adapter takes its first link (`LeadsOn`), and the chain's end is what the
  recursive `Replay` computes (`LeadsIsReplay`).
- `FallbackIsExplicit` (`NoHiddenFallback`) and `RegistrationKeepsSelection`
  (`SelectionStable`), for any providers and requests.  `RegistryInv` adds that
  the registry holds only capabilities, so that `Select` returns `None` only when
  nobody accepts (`SelectFinds`).
- `GrantsAreConfigurable` (`GrantIsConfigurable`), with `ProviderAssumption`: the
  name `floss-host-lc3` belongs to the software provider.
- `ConfigurationsAreSound` (`ConfigurationSound`), for broadcasts of any shape.
  `InnerLoop` and `OuterLoop` say what the loops have accepted and seen after `n`
  turns (`InnerTurn`, `OuterTurn`): `ok` holds exactly while the prefix is sound,
  and `seen` is then the set of its indices.

`TopshimProofs` assumes `FrameAssumption` (the mark of a free descriptor is no
frame) and, for the echo, `GraphAssumption`.

- `DescriptorsOwnedOnce` (`OwnedExactlyOnce`), `LeasesReadOnly`
  (`LeaseReadOnly`), `OnlyValidAdopted` (`AdoptsValidDescriptors`), for every
  number of frames and every size of the descriptor table.  Whether a close hits
  the right number depends on which variables are set.  `Holds` says for each
  stage which of a frame's variables hold a descriptor; `Agree` says that exactly
  these do, that no two hold the same, and that every descriptor opened for the
  frame is in one of them.  `drop(raw)` closes whatever C++ still holds, which
  `Holds` shows to be nothing.  A step touches one frame (`LocalStep`) and opens,
  closes, moves or replaces a descriptor or ends the frame (`OpenStep`,
  `CloseStep`, `MoveStep`, `ReplaceStep`, `GoneStep`); every failure path is one
  of these.
- `EchoTrackIsExact` (`EchoMirrorsPlayback`), `InterruptOverrunBounded`
  (`InterruptBounded`) and `PlaybackOutlivesErrors` (`SinkFailsOnlyAtShutdown`),
  for every number of utterances and every capacity.  `BargeInv`: when a frame
  has already passed a pending interrupt, no other is on its way to the hardware.
  `RefusalInv`: a playback request is dropped only on shutdown.

`HfpSmokeProofs` assumes `SmokeAssumption` (sizes are positive numbers).

- `SenderNeverMissing` (`SenderExists`): the task gives its sender up only after
  the capture deadline (`SenderInv`).
- `EveryExitStops` (`StopOnEveryExit`): where main can be while an accepted call
  has not been asked to stop, and that Floss takes no call up again once a stop
  has been accepted (`StopInv`).
- `SuccessMeansDone` (`SuccessIsSound`): what each partial result has seen
  (`SuccessInv`).
- `EchoNeverSlips` (`EchoIsExact`), for every delay, read size, drain frame and
  capacity.  The invariant, `EchoInv` of `EchoProofs`, names two positions in the
  capture: up to the first the samples have gone into the delay line, from there
  to the second they are in the channel, after it comes the frame in the capture
  task's hands.  What has been played, the frame about to be written and the line
  from the cursor on are, in this order, the beginning of the silence followed by
  the attenuated capture.  That the swap of a whole frame, longer or shorter than
  the line, keeps this is shown for the recursive `SwapFrame` by induction over
  its samples.

`PipeWireBridgeProofs` assumes `BridgeAssumption`:

- `StreamsInOrder` (`StreamInOrder`), for every ring and slot size.  `IInv` adds
  that the next number is above all those delivered or queued (`Ordered`), and
  that only the pump of the chosen direction runs and holds a lease only while it
  writes (`PumpSide`).

Induction over data is carried out without an operator parameter, by taking the
least number outside a set (`LeastElement` in `SessionProofs`, `SetInduction` in
`EchoProofs`).

### What is only model-checked

The liveness properties, since fairness is out of the prover's reach:
`OldestFrameConsumed`, `EveryCallReturns`, `OnlyTransferLasts`, `SourceDeathEnds`,
`PublishedIsWritten`, `ShutdownCompletes`, `PlaybackEnds`, `RunEnds` (HFP and
A2DP), `SettingFollowsConnection` and `SendReturns`.  Every invariant, action
property and refinement of a passing run has a theorem.

## Where code and documentation disagree

1. `floss_le_stop`: `start_software_unicast` promises to roll back "on
   partial failure" (`floss.rs:141`), but a PCM configuration that cannot be
   read returns through `?` with the directions running (`floss.rs:195`): this
   is the counterexample TLC prints.  `stop()` is to be used "on every exit
   path" (`floss.rs:240`), but the smoke test's duplex transfer and the set-up of
   the ring in `dorsche_pipewire.rs` leave through `?` without it: `tlc -continue`
   goes on to these (`failedAt` is `"io"` or `"setup"`).
2. `topshim_barge_in`: the test plan requires "prompt playback cancellation"
   when speech overlaps playback (`docs/TEST_PLAN.md:92`); the interrupt is sent
   only on the first frame of a burst of speech, so that a burst which begins
   before its echo reference is aligned never interrupts.
3. `hfp_stop`: "From this point onward every exit path must issue StopScoCall"
   (`floss_hfp_smoke.rs:466`; `README.md:126` and `docs/TEST_PLAN.md:78` say the
   same), but `stop_sco` makes its socketpair first and returns through `?` when
   it cannot have one (line 432): the call stays up.  Ctrl-C, which nothing
   catches, ends a run without the stop as well; `StopIssued` leaves it out.

## What is not modelled

- Odd-length reads of the HFP test (the unit is a sample), and statistics beyond
  silence against sound.
- The sample encoding and the levels of the LE smoke test; the one frame its
  `capture_peer` has in its ring at a time.
- The probe, format pod and stream set-up of `pipewire.rs`, and the capabilities
  query of kernel patch 0002: calls into PipeWire, and a read without a state.
- Errors of the eventfd other than `WouldBlock`, which need a descriptor that is
  no eventfd, and of `readable()`, which come when the runtime shuts down.
  `PipeWireBridge` has a pump that fails for such a reason (`PumpAcquireFails`).
- In `btusb_work`, a notification between the reads of `sco_num` and of the air
  mode, and the failure of `usb_autopm_get_interface`.
- Buffers of the PipeWire sink that are dropped uncounted: nothing is said of
  how many are lost.
- PCM arithmetic of the VAD; the sample values of a captured frame.
- `bridge.rs`, module declarations, shell scripts, service configuration: no
  state.  Floss, PipeWire, tokio and the USB core are external: modelled as far
  as the code relies on them.

## Plan

The order was: the ring first (all audio passes through it, without a lock),
then what drives it (session, Floss client, PipeWire bridge), then the separate
programs (topshim graph with its frames, HFP and A2DP tests), the kernel patches,
and the pure parts (types, providers, ring layout).  Left:

1. `Session` with `validate_for` of `AudioConfig` in place of its set of valid
   configurations: two clients and concrete configurations are a large instance.
2. `PipeWireBridge` over `MediaRing` itself instead of `FrameQueue`, now that the
   refinement is proved.
