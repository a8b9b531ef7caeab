--------------------------- MODULE FlossLeUnicast ----------------------------
(***************************************************************************)
(* One program run that streams LE Audio through Floss:                    *)
(* start_software_unicast, the data path it returns and its stop()         *)
(* (src/wireless/floss.rs), inside the two programs that call them, the    *)
(* PipeWire bridge and the LE Audio smoke test.                            *)
(*                                                                         *)
(* "host" is host_to_peer, "peer" is peer_to_host.  Every D-Bus call may   *)
(* fail; a start request may be accepted, rejected, fail, or take effect   *)
(* and lose its reply.  Floss (external) confirms an accepted direction    *)
(* some time later, and the remote side may take a direction down at any   *)
(* time.                                                                   *)
(***************************************************************************)
EXTENDS AudioConfig, RingLayout, FiniteSets

CONSTANTS PcmMaps,   \* the property maps Floss may describe its PCM with
          Intervals  \* data intervals a smoke test transfers

\* The fields of a parsed map are unsigned.
ASSUME FlossAssumption ==
  /\ Intervals \in Nat
  /\ \A map \in PcmMaps : "data_interval_us" \in DOMAIN map => map["data_interval_us"] \in Nat

VARIABLES
  program,     \* "pipewire" or "smoke"
  directions,  \* FlossLeDirections, as the set of the selected ones
  pc,          \* the call the program is about to make
  late,        \* the deadline of the current wait has passed
  polled,      \* directions the current poll has seen started
  started,     \* host_started, peer_started
  pcm,         \* direction -> its parsed PCM configuration, or NoPcm
  asked,       \* directions a stop request has been issued for
  io,          \* direction -> "running", "ok", "err": the byte pumps
  moved,       \* direction -> intervals a smoke test has transferred
  unheard,     \* directions a request was issued for whose outcome is not known
  failedAt,    \* the phase whose error the program is returning, or "none"
  floss        \* direction -> "stopped", "starting", "started"

vars == <<program, directions, pc, late, polled, started, pcm, asked, io, moved,
          unheard, failedAt, floss>>

NoPcm == [none |-> TRUE]

Directions == {"host", "peer"}

\* The program has parsed its arguments, with the checks on the group and the
\* directions that start_software_unicast makes again.
Init ==
  /\ program \in {"pipewire", "smoke"}
  /\ directions \in IF program = "smoke" THEN SUBSET Directions \ {{}}
                                         ELSE {{"host"}, {"peer"}}
  /\ pc = IF program = "smoke" THEN "group_status" ELSE "proxy"
  /\ late = FALSE
  /\ polled = {}
  /\ started = {}
  /\ pcm = [d \in Directions |-> NoPcm]
  /\ asked = {}
  /\ io = [d \in Directions |-> "running"]
  /\ moved = [d \in Directions |-> 0]
  /\ unheard = {}
  /\ failedAt = "none"
  /\ floss = [d \in Directions |-> "stopped"]

Goto(next) == pc' = next /\ UNCHANGED failedAt

\* Return an error of this phase without any cleanup.
Fail(phase) == pc' = "ended" /\ failedAt' = phase

\* Return an error of this phase after stop_directions.
RollBack(phase) == pc' = "rollback_peer" /\ failedAt' = phase

fixed == <<program, directions>>
transfer == <<io, moved>>

-----------------------------------------------------------------------------
(* start_software_unicast.                                                 *)

\* A call that starts nothing: it leads to `next`, or ends the run.
Preliminary(at, next, needed) ==
  /\ pc = at
  /\ IF needed THEN Goto(next) \/ Fail("preparation") ELSE Goto(next)
  /\ UNCHANGED <<fixed, late, polled, started, pcm, asked, transfer, unheard, floss>>

GroupStatus == Preliminary("group_status", "proxy", TRUE)

Proxy == Preliminary("proxy", "activate", TRUE)
GroupSetActive == Preliminary("activate", "source_metadata", TRUE)
SourceMetadata == Preliminary("source_metadata", "sink_metadata", "host" \in directions)
SinkMetadata == Preliminary("sink_metadata", "start_host", "peer" \in directions)

\* Host/PeerStartAudioRequest, when the direction is selected.
StartRequest(d, at, next) ==
  /\ pc = at
  /\ IF d \in directions
       THEN \E outcome \in {"accepted", "rejected", "error", "lost_reply"} :
              /\ floss' = IF outcome \in {"accepted", "lost_reply"}
                            THEN [floss EXCEPT ![d] = "starting"] ELSE floss
              /\ unheard' = IF outcome = "lost_reply" THEN unheard \cup {d} ELSE unheard
              /\ IF outcome = "accepted"
                   THEN started' = started \cup {d} /\ Goto(next)
                   ELSE UNCHANGED started /\ RollBack("start")
       ELSE Goto(next) /\ UNCHANGED <<started, unheard, floss>>
  /\ late' = FALSE
  /\ polled' = {}
  /\ UNCHANGED <<fixed, pcm, asked, transfer>>

StartHost == StartRequest("host", "start_host", "start_peer")
StartPeer == StartRequest("peer", "start_peer", "poll_host")

\* wait_started asks for one direction after the other.
Poll(d, at, next) ==
  /\ pc = at
  /\ \/ /\ Goto(next)
        /\ polled' = IF d \in directions => floss[d] = "started"
                       THEN polled \cup {d} ELSE polled \ {d}
     \/ /\ d \in directions
        /\ RollBack("start")
        /\ UNCHANGED polled
  /\ UNCHANGED <<fixed, late, started, pcm, asked, transfer, unheard, floss>>

PollHost == Poll("host", "poll_host", "poll_peer")
PollPeer == Poll("peer", "poll_peer", "decide")

\* Seeded fault: wait_started polls without a deadline.
DecideWithoutDeadline ==
  /\ pc = "decide"
  /\ IF polled = Directions THEN Goto("host_pcm") ELSE Goto("poll_host")
  /\ UNCHANGED <<fixed, late, polled, started, pcm, asked, transfer, unheard, floss>>

Decide ==
  /\ pc = "decide"
  /\ IF polled = Directions THEN Goto("host_pcm")
     ELSE IF late THEN RollBack("start")
     ELSE Goto("poll_host")
  /\ UNCHANGED <<fixed, late, polled, started, pcm, asked, transfer, unheard, floss>>

\* An Instant::now() of wait_started or connect_with_deadline comes out late.
DeadlinePasses ==
  /\ pc \in {"poll_host", "poll_peer", "decide", "connect"}
  /\ ~late
  /\ late' = TRUE
  /\ UNCHANGED <<fixed, pc, polled, started, pcm, asked, transfer, unheard, failedAt, floss>>

\* The properties that are looked up, by the field each of them fills.
Properties == {"sample_rate_hz", "bits_per_sample", "channels", "data_interval_us"}

\* Seeded fault: the interval is not checked.
ParsePcmConfigUnchecked(map) ==
  /\ Properties \subseteq DOMAIN map
  /\ PcmValid(map)

\* parse_pcm_config succeeds.
ParsePcmConfig(map) ==
  /\ Properties \subseteq DOMAIN map
  /\ PcmValid(map)
  /\ IntervalIsWhole(map)

\* get_*_pcm_config and parse_pcm_config; an error of either is returned as it is.
PcmConfig(d, at, next) ==
  /\ pc = at
  /\ IF d \in directions
       THEN \/ \E map \in {m \in PcmMaps : ParsePcmConfig(m)} :
                 pcm' = [pcm EXCEPT ![d] = map] /\ Goto(next)
            \/ Fail("pcm") /\ UNCHANGED pcm
       ELSE Goto(next) /\ UNCHANGED pcm
  /\ late' = FALSE
  /\ UNCHANGED <<fixed, polled, started, asked, transfer, unheard, floss>>

HostPcmConfig == PcmConfig("host", "host_pcm", "peer_pcm")
PeerPcmConfig == PcmConfig("peer", "peer_pcm", "connect")

\* Seeded fault: the socket error is returned without stop_directions.
ConnectWithoutRollback ==
  /\ pc = "connect"
  /\ \/ Goto("setup")
     \/ ~late /\ Goto("connect")
     \/ late /\ Fail("connect")
  /\ UNCHANGED <<fixed, late, polled, started, pcm, asked, transfer, unheard, floss>>

ConnectWithDeadline ==
  /\ pc = "connect"
  /\ \/ Goto("setup")
     \/ ~late /\ Goto("connect")
     \/ late /\ RollBack("connect")
  /\ UNCHANGED <<fixed, late, polled, started, pcm, asked, transfer, unheard, floss>>

\* One stop request; whether it arrives is not looked at.
StopRequest(d) ==
  /\ asked' = asked \cup {d}
  /\ \/ floss' = [floss EXCEPT ![d] = "stopped"] /\ UNCHANGED unheard
     \/ unheard' = unheard \cup {d} /\ UNCHANGED floss

\* stop_directions, peer before host.
RollBackDirection(d, at, next) ==
  /\ pc = at
  /\ IF d \in started THEN StopRequest(d) ELSE UNCHANGED <<asked, unheard, floss>>
  /\ Goto(next)
  /\ UNCHANGED <<fixed, late, polled, started, pcm, transfer>>

RollBackPeer == RollBackDirection("peer", "rollback_peer", "rollback_host")
RollBackHost == RollBackDirection("host", "rollback_host", "ended")

-----------------------------------------------------------------------------
(* The programs, from the returned FlossLeDataPath to their exit.          *)

\* What a program gives RingPair::create, from bytes_per_interval.
RingSlots == IF program = "smoke" THEN 8 ELSE 16
RingCapacity(d) == AsU32(BytesPerInterval(pcm[d]))

\* Directions that go through a media ring.
Ringed == IF program = "smoke" THEN directions \cap {"peer"} ELSE directions

RingsCreated == \A d \in Ringed : Creates(RingSlots, RingCapacity(d))

\* dorsche_pipewire makes its ring with `?` between take_stream and the pump;
\* capture_peer makes its ring inside the transfer, whose error is kept.
Setup ==
  /\ pc = "setup"
  /\ \/ (program = "pipewire" => RingsCreated) /\ Goto("stream")
     \/ program = "pipewire" /\ Fail("setup")
  /\ UNCHANGED <<fixed, late, polled, started, pcm, asked, transfer, unheard, floss>>

\* write_tone or capture_peer transfers one interval; the latter sends it
\* through the ring, which is empty before and after.
MoveInterval(d) ==
  /\ pc = "stream" /\ program = "smoke" /\ d \in directions
  /\ d \in Ringed => RingsCreated
  /\ io[d] = "running" /\ moved[d] < Intervals
  /\ moved' = [moved EXCEPT ![d] = @ + 1]
  /\ UNCHANGED <<fixed, pc, late, polled, started, pcm, asked, io, unheard, failedAt, floss>>

\* A transfer is complete, a pump is interrupted, or either fails.
IoEnds(d) ==
  /\ pc = "stream" /\ d \in directions
  /\ io[d] = "running"
  /\ \/ (program = "smoke" => moved[d] = Intervals) /\ io' = [io EXCEPT ![d] = "ok"]
     \/ io' = [io EXCEPT ![d] = "err"]
  /\ UNCHANGED <<fixed, pc, late, polled, started, pcm, asked, moved, unheard, failedAt, floss>>

\* A single direction keeps its result for after stop(); duplex takes its
\* error out of try_join! with `?`.
IoDone ==
  /\ pc = "stream"
  /\ \/ /\ \A d \in directions : io[d] = "ok"
        /\ Goto("stop_proxy")
     \/ /\ \E d \in directions : io[d] = "err"
        /\ IF Cardinality(directions) = 1 THEN Goto("stop_proxy") ELSE Fail("io")
  /\ UNCHANGED <<fixed, late, polled, started, pcm, asked, transfer, unheard, floss>>

\* FlossLeDataPath::stop.
StopProxy ==
  /\ pc = "stop_proxy"
  /\ Goto("stop_peer") \/ Fail("stop")
  /\ UNCHANGED <<fixed, late, polled, started, pcm, asked, transfer, unheard, floss>>

StopDirection(d, at, next) ==
  /\ pc = at
  /\ IF d \in directions THEN StopRequest(d) ELSE UNCHANGED <<asked, unheard, floss>>
  /\ Goto(next)
  /\ UNCHANGED <<fixed, late, polled, started, pcm, transfer>>

StopPeer == StopDirection("peer", "stop_peer", "stop_host")
StopHost == StopDirection("host", "stop_host", "ended")

-----------------------------------------------------------------------------
(* Floss and the remote side (external).                                   *)

FlossConfirms(d) ==
  /\ floss[d] = "starting"
  /\ floss' = [floss EXCEPT ![d] = "started"]
  /\ UNCHANGED <<fixed, pc, late, polled, started, pcm, asked, transfer, unheard, failedAt>>

RemoteStops(d) ==
  /\ floss[d] # "stopped"
  /\ floss' = [floss EXCEPT ![d] = "stopped"]
  /\ UNCHANGED <<fixed, pc, late, polled, started, pcm, asked, transfer, unheard, failedAt>>

-----------------------------------------------------------------------------
Program ==
  \/ GroupStatus \/ Proxy \/ GroupSetActive \/ SourceMetadata \/ SinkMetadata
  \/ StartHost \/ StartPeer \/ PollHost \/ PollPeer \/ Decide
  \/ HostPcmConfig \/ PeerPcmConfig \/ ConnectWithDeadline
  \/ RollBackPeer \/ RollBackHost
  \/ Setup \/ IoDone \/ StopProxy \/ StopPeer \/ StopHost

Next ==
  \/ Program
  \/ DeadlinePasses
  \/ \E d \in Directions : MoveInterval(d) \/ IoEnds(d) \/ FlossConfirms(d) \/ RemoteStops(d)

Spec == Init /\ [][Next]_vars

\* The transfer of d waits, without a timeout, for Floss to take or to bring an
\* interval, or, in the bridge, for Ctrl-C.
Waits(d) ==
  /\ pc = "stream" /\ io[d] = "running"
  /\ program = "smoke" => moved[d] < Intervals /\ (d \in Ringed => RingsCreated)

\* The runtime polls the program, D-Bus calls return and time passes.  A transfer
\* that is complete, or has no ring, returns; one that waits is owed nothing.
FairSpec ==
  /\ Spec
  /\ WF_vars(Program)
  /\ WF_vars(DeadlinePasses)
  /\ WF_vars(\E d \in Directions : ~Waits(d) /\ IoEnds(d))

-----------------------------------------------------------------------------
(* Properties.                                                             *)

\* When start_software_unicast has failed to start, to confirm or to connect, or
\* stop() has run, Floss streams only in a direction whose last request has been
\* left unanswered: a start whose reply was lost, which is never rolled back, or
\* a stop request that did not get through.
NothingLeftRunning ==
  pc = "ended" /\ failedAt \in {"none", "start", "connect"} =>
    {d \in Directions : floss[d] # "stopped"} \subseteq unheard

\* The ring of a direction has been made and is in use.
RingInUse(d) == d \in Ringed /\ (moved[d] > 0 \/ (program = "pipewire" /\ pc # "setup"))

\* A data path is complete and can carry its PCM: all its directions have been
\* acknowledged, exactly they have a configuration (the unwrap() of the smoke
\* test and the context()? of the bridge never see None), an interval is a whole
\* number of frames, and a ring in use passes validate_header, has its slots
\* apart and holds an interval in each, unless `as u32` has cut its size.
DataPathComplete ==
  pc \in {"setup", "stream", "stop_proxy", "stop_peer", "stop_host"} =>
    /\ started = directions
    /\ \A d \in Directions : d \in directions <=> pcm[d] # NoPcm
    /\ \A d \in directions :
         LET frame == pcm[d].channels * (pcm[d].bits_per_sample \div 8)
             bytes == BytesPerInterval(pcm[d])
             header == Header(RingSlots, RingCapacity(d))
             len == MapLen(RingSlots, RingCapacity(d))
         IN /\ bytes % frame = 0
            /\ (bytes \div frame) * 1000000 = pcm[d].sample_rate_hz * pcm[d].data_interval_us
            /\ RingInUse(d) => /\ bytes < WordSize => header.payload_capacity = bytes
                               /\ HeaderValid(header, len)
                               /\ LayoutSound(header, len, 0 .. RingSlots)

\* The program waits in its transfers, and none of them has failed.
Streaming ==
  /\ \A d \in directions : io[d] # "err"
  /\ \E d \in directions : Waits(d)

\* Only a transfer may last: a run ends, or stays for ever in a transfer that
\* waits for its partner and has seen no error.  No wait for a confirmation or
\* for the socket and no cleanup does, since deadlines bound them.  A smoke test
\* whose partner keeps taking and bringing intervals ends.
OnlyTransferLasts ==
  /\ <>[](pc = "ended" \/ Streaming)
  /\ program = "smoke" /\ WF_vars(\E d \in Directions : MoveInterval(d)) => <>(pc = "ended")

\* The two contracts in the comments of floss.rs: "on partial failure, all
\* already-started directions are explicitly rolled back" (141) and "Callers
\* should use this on every exit path" of stop (240).  However a run ends, unless
\* inside stop() itself, each direction it started has been asked to stop.
StartedIsStopped ==
  pc = "ended" /\ failedAt # "stop" => started \subseteq asked
=============================================================================
