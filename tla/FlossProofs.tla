----------------------------- MODULE FlossProofs -----------------------------
(***************************************************************************)
(* The LE Audio client of Floss, for every PCM description, ring and       *)
(* number of intervals.                                                    *)
(*                                                                         *)
(* RingLayout: what RingPair::create computes is right for every slot      *)
(* count and every capacity it accepts.                                    *)
(*                                                                         *)
(* FlossLeUnicast: NothingLeftRunning speaks of the end of a run only, so  *)
(* StreamInv follows the directions from their start request to their stop *)
(* request: a direction Floss streams is one the program knows it has      *)
(* started, or one whose last request it has not heard of; and between the *)
(* two stop requests, peer before host, only the host direction is left.   *)
(* PathInv follows what start_software_unicast has collected so far.       *)
(***************************************************************************)
EXTENDS FlossLeUnicast, TLAPS

-----------------------------------------------------------------------------
(* The layout of a media ring.                                             *)

\* A remainder is one, and a quotient loses less than the divisor.
LEMMA DivMod ==
  ASSUME NEW v \in Nat, NEW d \in Nat \ {0}
  PROVE  /\ v % d \in 0 .. d - 1
         /\ v \div d \in Nat
         /\ v = d * (v \div d) + (v % d)
OBVIOUS

\* align_up gives a multiple of the cache line, large enough and less than a
\* line too large.
LEMMA AlignUpFits ==
  ASSUME NEW v \in Nat
  PROVE  /\ AlignUp(v, CacheLine) \in Nat
         /\ AlignUp(v, CacheLine) % CacheLine = 0
         /\ v <= AlignUp(v, CacheLine)
         /\ AlignUp(v, CacheLine) < v + CacheLine
<1>1. /\ (v + 63) \div 64 \in Nat
      /\ v + 63 = 64 * ((v + 63) \div 64) + ((v + 63) % 64)
      /\ (v + 63) % 64 \in 0 .. 63
  OBVIOUS
<1> QED
  BY <1>1 DEF AlignUp, CacheLine

\* A product of naturals grows with its factor.
LEMMA Monotone ==
  ASSUME NEW a \in Nat, NEW b \in Nat, NEW s \in Nat, a + 1 <= b
  PROVE  a * s \in Nat /\ b * s \in Nat /\ a * s + s <= b * s
<1>1. PICK k \in Nat : b = a + 1 + k
  <2>1. b - a - 1 \in Nat
    OBVIOUS
  <2> QED
    BY <2>1
<1>2. b * s = a * s + s + k * s
  BY <1>1
<1>3. k * s \in Nat /\ a * s \in Nat
  OBVIOUS
<1> QED
  BY <1>2, <1>3

\* Whole strides keep the alignment of a stride.
LEMMA MultipleOfLine ==
  ASSUME NEW m \in Nat, NEW s \in Nat, s % CacheLine = 0
  PROVE  (m * s) % CacheLine = 0
<1>1. s \div 64 \in Nat /\ s = 64 * (s \div 64)
  BY DEF CacheLine
<1> DEFINE q == s \div 64
<1>2. q \in Nat /\ s = 64 * q
  BY <1>1
<1> HIDE DEF q
<1>3. m * q \in Nat
  BY <1>2
<1>4. m * s = 64 * (m * q)
  BY <1>2
<1>5. \A x \in Nat : (64 * x) % 64 = 0
  OBVIOUS
<1> QED
  BY <1>3, <1>4, <1>5 DEF CacheLine

\* Every ring create makes passes validate_header in either process, and its
\* slots are aligned, inside the mapping and disjoint, for every cursor.
THEOREM CreatedRingIsSound ==
  ASSUME NEW slots \in Nat, NEW capacity \in Nat, Creates(slots, capacity)
  PROVE  /\ HeaderValid(Header(slots, capacity), MapLen(slots, capacity))
         /\ LayoutSound(Header(slots, capacity), MapLen(slots, capacity), Nat)
<1> DEFINE stride == SlotStride(capacity)
           header == Header(slots, capacity)
<1>1. /\ stride \in Nat /\ stride % CacheLine = 0
      /\ DescriptorBytes + capacity <= stride
  BY AlignUpFits DEF SlotStride, DescriptorBytes
<1>2. stride < WordSize /\ slots >= 2
  BY DEF Creates
<1>3. AsU32(stride) = stride
  BY <1>1, <1>2, WordAssumption DEF AsU32
<1>4. /\ header.slot_stride = stride /\ header.slot_count = slots
      /\ header.header_bytes = HeaderBytes /\ header.payload_capacity = capacity
  BY <1>3 DEF Header
<1>5. HeaderValid(header, MapLen(slots, capacity))
  BY <1>1, <1>2, <1>4 DEF HeaderValid, MapLen
<1>6. ASSUME NEW i \in Nat
      PROVE  /\ i % slots \in Nat /\ (i % slots) + 1 <= slots
             /\ SlotOffset(header, i) = HeaderBytes + (i % slots) * stride
             /\ (i % slots) * stride \in Nat
             /\ SlotEnd(header, i) <= HeaderBytes + (i % slots) * stride + stride
  <2>1. i % slots \in Nat /\ (i % slots) + 1 <= slots
    BY <1>2, DivMod
  <2>2. (i % slots) * stride \in Nat
    BY <1>1, <2>1, Monotone
  <2>3. SlotOffset(header, i) = HeaderBytes + (i % slots) * stride
    BY <1>4 DEF SlotOffset
  <2>4. SlotEnd(header, i) <= HeaderBytes + (i % slots) * stride + stride
    BY <1>1, <1>4, <2>2, <2>3 DEF SlotEnd, HeaderBytes, DescriptorBytes
  <2> QED
    BY <2>1, <2>2, <2>3, <2>4
<1>7. ASSUME NEW i \in Nat
      PROVE  /\ SlotOffset(header, i) % CacheLine = 0
             /\ SlotOffset(header, i) >= HeaderBytes
             /\ SlotEnd(header, i) <= MapLen(slots, capacity)
  <2>1. i % slots \in Nat
    BY <1>6
  <2>2. ((i % slots) * stride) % CacheLine = 0
    BY <1>1, <2>1, MultipleOfLine
  <2>3. (i % slots) * stride \in Nat
    BY <1>6
  <2>4. SlotOffset(header, i) % CacheLine = 0
    <3>1. \A x \in Nat : x % 64 = 0 => (256 + x) % 64 = 0
      OBVIOUS
    <3> QED
      BY <1>6, <2>2, <2>3, <3>1 DEF CacheLine, HeaderBytes
  <2>5. (i % slots) * stride + stride <= slots * stride
    BY <1>1, <1>6, Monotone
  <2>6. MapLen(slots, capacity) = HeaderBytes + stride * slots
    BY DEF MapLen
  <2>7. stride * slots = slots * stride /\ slots * stride \in Nat
    BY <1>1
  <2>8. /\ SlotOffset(header, i) \in Int
        /\ SlotEnd(header, i) \in Int
    BY <1>4, <1>6 DEF SlotEnd, HeaderBytes, DescriptorBytes
  <2> QED
    <3>1. SlotEnd(header, i) <= HeaderBytes + (i % slots) * stride + stride
      BY <1>6
    <3>2. SlotOffset(header, i) = HeaderBytes + (i % slots) * stride
      BY <1>6
    <3> HIDE DEF stride, header
    <3>3. \A x, y, z, e \in Int : e <= HeaderBytes + x + y /\ x + y <= z => e <= HeaderBytes + z
      BY DEF HeaderBytes
    <3>4. SlotEnd(header, i) <= HeaderBytes + slots * stride
      BY <1>1, <2>3, <2>5, <2>7, <2>8, <3>1, <3>3
    <3> QED
      BY <2>3, <2>4, <2>6, <2>7, <3>2, <3>4 DEF HeaderBytes
<1>8. ASSUME NEW i \in Nat, NEW j \in Nat, i % slots < j % slots
      PROVE  SlotEnd(header, i) <= SlotOffset(header, j)
  <2>1. (i % slots) * stride + stride <= (j % slots) * stride
    <3>1. i % slots \in Nat /\ j % slots \in Nat
      BY <1>6
    <3>2. (i % slots) + 1 <= (j % slots)
      BY <1>8, <3>1
    <3> HIDE DEF stride
    <3> QED
      BY <1>1, <3>1, <3>2, Monotone
  <2>2. SlotEnd(header, i) \in Int
    BY <1>4, <1>6 DEF SlotEnd, HeaderBytes, DescriptorBytes
  <2> QED
    BY <1>1, <1>6, <2>1, <2>2 DEF HeaderBytes
<1> QED
  BY <1>4, <1>5, <1>7, <1>8 DEF LayoutSound

-----------------------------------------------------------------------------
(* An LE Audio run.                                                        *)

\* Directions Floss streams or is about to, and that are not in doubt.
Running == {d \in Directions : floss[d] # "stopped"} \ unheard

StreamInv ==
  /\ directions \subseteq Directions
  /\ started \subseteq directions
  /\ floss \in [Directions -> {"stopped", "starting", "started"}]
  /\ unheard \subseteq Directions
  /\ Running \subseteq started
  /\ pc \in {"rollback_host", "stop_host"} => "peer" \notin Running
  /\ pc = "ended" /\ failedAt \in {"none", "start", "connect"} => Running = {}

LEMMA StreamInit == Init => StreamInv
  BY DEF Init, StreamInv, Running, Directions

\* The steps that concern neither the streams nor what is known of them.
LEMMA QuietStep ==
  ASSUME StreamInv, UNCHANGED <<directions, started, floss, unheard>>,
         pc' \in {"rollback_host", "stop_host"} => pc' = pc,
         pc' = "ended" => (failedAt' \notin {"none", "start", "connect"}
                            \/ (pc = "ended" /\ failedAt' = failedAt))
  PROVE  StreamInv'
  BY DEF StreamInv, Running

LEMMA StartStep ==
  ASSUME StreamInv, StartHost \/ StartPeer
  PROVE  StreamInv'
<1>1. PICK d \in Directions : \E at, next \in {"start_host", "start_peer", "poll_host"} :
        StartRequest(d, at, next)
  BY DEF StartHost, StartPeer, Directions
<1>2. pc' \in {"start_host", "start_peer", "poll_host", "rollback_peer"} /\ directions' = directions
  BY <1>1 DEF StartRequest, Goto, RollBack, fixed
<1>3. /\ started' \subseteq directions
      /\ floss' \in [Directions -> {"stopped", "starting", "started"}]
      /\ unheard' \subseteq Directions
  BY <1>1 DEF StartRequest, StreamInv
<1>4. Running' \subseteq started'
  BY <1>1 DEF StartRequest, StreamInv, Running
<1> QED
  BY <1>2, <1>3, <1>4 DEF StreamInv

\* A stop request leaves its direction stopped or in doubt.
LEMMA StopRequestStep ==
  ASSUME StreamInv, NEW d \in Directions, StopRequest(d)
  PROVE  /\ floss' \in [Directions -> {"stopped", "starting", "started"}]
         /\ unheard' \subseteq Directions
         /\ Running' \subseteq Running \ {d}
  BY DEF StopRequest, StreamInv, Running

\* stop_directions and stop() ask whom they must: the direction they pass over
\* is not running.
LEMMA StopStep ==
  ASSUME StreamInv, RollBackPeer \/ RollBackHost \/ StopPeer \/ StopHost
  PROVE  StreamInv'
<1>1. ASSUME NEW d \in Directions,
             \/ (d \in started /\ StopRequest(d)) \/ (d \in directions /\ StopRequest(d))
             \/ (d \notin started /\ UNCHANGED <<asked, unheard, floss>>)
      PROVE  /\ floss' \in [Directions -> {"stopped", "starting", "started"}]
             /\ unheard' \subseteq Directions
             /\ Running' \subseteq Running \ {d}
  <2>1. CASE StopRequest(d)
    BY <2>1, StopRequestStep
  <2>2. CASE d \notin started /\ UNCHANGED <<asked, unheard, floss>>
    BY <2>2 DEF StreamInv, Running
  <2> QED
    BY <1>1, <2>1, <2>2
<1>2. CASE RollBackPeer \/ StopPeer
  <2>1. /\ floss' \in [Directions -> {"stopped", "starting", "started"}]
        /\ unheard' \subseteq Directions /\ Running' \subseteq Running \ {"peer"}
    BY <1>1, <1>2 DEF RollBackPeer, StopPeer, RollBackDirection, StopDirection, Directions, StreamInv
  <2>2. UNCHANGED <<directions, started>> /\ pc' \in {"rollback_host", "stop_host"}
    BY <1>2 DEF RollBackPeer, StopPeer, RollBackDirection, StopDirection, Goto, fixed
  <2> QED
    BY <2>1, <2>2 DEF StreamInv
<1>3. CASE RollBackHost \/ StopHost
  <2>1. /\ floss' \in [Directions -> {"stopped", "starting", "started"}]
        /\ unheard' \subseteq Directions /\ Running' \subseteq Running \ {"host"}
    BY <1>1, <1>3 DEF RollBackHost, StopHost, RollBackDirection, StopDirection, Directions, StreamInv
  <2>2. UNCHANGED <<directions, started>> /\ pc' = "ended" /\ "peer" \notin Running
    BY <1>3 DEF RollBackHost, StopHost, RollBackDirection, StopDirection, Goto, fixed, StreamInv
  <2>3. Running' = {}
    BY <2>1, <2>2 DEF Running, Directions
  <2> QED
    BY <2>1, <2>2, <2>3 DEF StreamInv
<1> QED
  BY <1>2, <1>3

LEMMA StreamStep == StreamInv /\ [Next]_vars => StreamInv'
<1> SUFFICES ASSUME StreamInv, [Next]_vars PROVE StreamInv'
  OBVIOUS
<1> USE DEF Goto, Fail, RollBack, fixed
<1>1. CASE GroupStatus \/ Proxy \/ GroupSetActive \/ SourceMetadata \/ SinkMetadata
  BY <1>1, QuietStep DEF GroupStatus, Proxy, GroupSetActive, SourceMetadata, SinkMetadata, Preliminary
<1>2. CASE StartHost \/ StartPeer
  BY <1>2, StartStep
<1>3. CASE PollHost \/ PollPeer
  BY <1>3, QuietStep DEF PollHost, PollPeer, Poll
<1>4. CASE Decide
  BY <1>4, QuietStep DEF Decide
<1>5. CASE HostPcmConfig \/ PeerPcmConfig
  BY <1>5, QuietStep DEF HostPcmConfig, PeerPcmConfig, PcmConfig
<1>6. CASE ConnectWithDeadline
  BY <1>6, QuietStep DEF ConnectWithDeadline
<1>7. CASE RollBackPeer \/ RollBackHost \/ StopPeer \/ StopHost
  BY <1>7, StopStep
<1>8. CASE Setup \/ IoDone \/ StopProxy
  BY <1>8, QuietStep DEF Setup, IoDone, StopProxy
<1>9. CASE DeadlinePasses
  BY <1>9, QuietStep DEF DeadlinePasses
<1>10. ASSUME NEW d \in Directions, MoveInterval(d) \/ IoEnds(d) PROVE StreamInv'
  BY <1>10, QuietStep DEF MoveInterval, IoEnds
<1>11. ASSUME NEW d \in Directions, FlossConfirms(d) \/ RemoteStops(d) PROVE StreamInv'
  <2>1. UNCHANGED <<directions, started, unheard, pc, failedAt>>
    BY <1>11 DEF FlossConfirms, RemoteStops
  <2>2. floss' \in [Directions -> {"stopped", "starting", "started"}] /\ Running' \subseteq Running
    BY <1>11, <2>1 DEF FlossConfirms, RemoteStops, StreamInv, Running
  <2> QED
    BY <2>1, <2>2 DEF StreamInv
<1>12. CASE UNCHANGED vars
  BY <1>12, QuietStep DEF vars
<1> QED
  BY <1>1, <1>2, <1>3, <1>4, <1>5, <1>6, <1>7, <1>8, <1>9, <1>10, <1>11, <1>12 DEF Next, Program

\* After a failed start, confirmation or connection, and after stop(), Floss
\* streams only in directions whose last request has been left unanswered.
THEOREM RunsLeaveNothing == Spec => []NothingLeftRunning
<1>1. StreamInv => NothingLeftRunning
  BY DEF StreamInv, Running, NothingLeftRunning
<1> QED
  BY <1>1, StreamInit, StreamStep, PTL DEF Spec

\* The inductive form of DataPathComplete: what has been acknowledged and read by
\* each point of start_software_unicast, and which rings a transfer relies on.
Acknowledged == {"poll_host", "poll_peer", "decide", "host_pcm", "peer_pcm", "connect", "setup",
                 "stream", "stop_proxy", "stop_peer", "stop_host"}
Described == {"connect", "setup", "stream", "stop_proxy", "stop_peer", "stop_host"}
Undescribed == {"group_status", "proxy", "activate", "source_metadata", "sink_metadata",
                "start_host", "start_peer", "poll_host", "poll_peer", "decide", "host_pcm"}

PathInv ==
  /\ directions \subseteq Directions
  /\ DOMAIN pcm = Directions
  /\ moved \in [Directions -> Nat]
  /\ pc \in Acknowledged => started = directions
  /\ pc = "start_peer" => started = directions \cap {"host"}
  /\ pc \in {"group_status", "proxy", "activate", "source_metadata", "sink_metadata",
             "start_host"} => started = {}
  /\ pc \in Undescribed => \A d \in Directions : pcm[d] = NoPcm
  /\ pc = "peer_pcm" => /\ "host" \in directions <=> pcm["host"] # NoPcm
                        /\ pcm["peer"] = NoPcm
  /\ pc \in Described => \A d \in Directions : d \in directions <=> pcm[d] # NoPcm
  /\ \A d \in Directions : pcm[d] # NoPcm => pcm[d] \in PcmMaps /\ ParsePcmConfig(pcm[d])
  /\ pc \in Described \ {"connect", "setup"} /\ program = "pipewire" => RingsCreated
  /\ \A d \in Directions : d \in Ringed /\ moved[d] > 0 =>
       pc \notin Undescribed \cup {"peer_pcm", "connect", "setup"} /\ RingsCreated

LEMMA PathInit == Init => PathInv
<1> SUFFICES ASSUME Init PROVE PathInv
  OBVIOUS
<1>1. \A d \in Directions : moved[d] = 0 /\ pcm[d] = NoPcm
  BY DEF Init
<1>2. directions \subseteq Directions /\ pc \in {"group_status", "proxy"} /\ started = {}
  BY DEF Init, Directions
<1> QED
  BY <1>1, <1>2 DEF Init, PathInv, Acknowledged, Described, Undescribed

\* What a parsed map is: not NoPcm, and with fields of the right kind.
LEMMA ParsedMap ==
  ASSUME NEW map \in PcmMaps, ParsePcmConfig(map)
  PROVE  /\ map # NoPcm
         /\ map.data_interval_us \in Nat /\ map.sample_rate_hz \in Nat
         /\ map.channels \in 1 .. 8 /\ map.bits_per_sample \in {16, 24, 32}
         /\ (map.sample_rate_hz * map.data_interval_us) % 1000000 = 0
<1>1. "data_interval_us" \in DOMAIN map
  BY SMT DEF ParsePcmConfig, Properties
<1>2. map # NoPcm
  BY <1>1, SMT DEF NoPcm
<1>3. map["data_interval_us"] \in Nat
  BY <1>1, FlossAssumption, SMT
<1>4. PcmValid(map) /\ IntervalIsWhole(map)
  BY SMT DEF ParsePcmConfig
<1> QED
  BY <1>2, <1>3, <1>4, SMT DEF PcmValid, IntervalIsWhole, SampleRates

\* A whole number of frames is what it is a multiple of.
LEMMA WholeQuotient ==
  ASSUME NEW q \in Nat, NEW f \in Nat \ {0}
  PROVE  q * f \in Nat /\ (q * f) % f = 0 /\ (q * f) \div f = q
<1> DEFINE p == q * f
           k == p \div f
           r == p % f
<1>1. p \in Nat
  OBVIOUS
<1>2. k \in Nat /\ r \in 0 .. f - 1 /\ p = f * k + r
  BY <1>1, DivMod
<1> HIDE DEF k, r
<1>3. ~(k + 1 <= q)
  <2> SUFFICES ASSUME k + 1 <= q PROVE FALSE
    OBVIOUS
  <2>1. k * f + f <= q * f
    BY <1>2, Monotone
  <2> QED
    BY <1>2, <2>1
<1>4. ~(q + 1 <= k)
  <2> SUFFICES ASSUME q + 1 <= k PROVE FALSE
    OBVIOUS
  <2>1. q * f + f <= k * f
    BY <1>2, Monotone
  <2> QED
    BY <1>2, <2>1
<1>5. k = q
  BY <1>2, <1>3, <1>4
<1>6. r = 0
  BY <1>2, <1>5
<1> QED
  BY <1>1, <1>5, <1>6 DEF k, r

\* An interval of a valid configuration: whole frames, at the sample rate.
LEMMA IntervalOfFrames ==
  ASSUME NEW map \in PcmMaps, ParsePcmConfig(map)
  PROVE  LET frame == map.channels * (map.bits_per_sample \div 8)
         IN /\ BytesPerInterval(map) \in Nat
            /\ BytesPerInterval(map) % frame = 0
            /\ (BytesPerInterval(map) \div frame) * 1000000
                 = map.sample_rate_hz * map.data_interval_us
<1> DEFINE frame == map.channels * (map.bits_per_sample \div 8)
           product == map.sample_rate_hz * map.data_interval_us
           q == product \div 1000000
<1>1. product \in Nat /\ product % 1000000 = 0
  BY ParsedMap, SMT
<1>2. q \in Nat /\ q * 1000000 = product
  <2> HIDE DEF product
  <2> QED
    BY <1>1, SMT
<1>3. frame \in Nat \ {0}
  BY ParsedMap, SMT
<1>4. BytesPerInterval(map) = q * frame
  <2>1. map.channels \in Nat /\ map.bits_per_sample \div 8 \in Nat
    BY ParsedMap, SMT
  <2>2. \A x, y, z \in Nat : (x * y) * z = x * (y * z)
    BY SMT
  <2>3. BytesPerInterval(map) = (q * map.channels) * (map.bits_per_sample \div 8)
    BY SMT DEF BytesPerInterval
  <2> HIDE DEF q
  <2> QED
    BY <1>2, <2>1, <2>2, <2>3, SMT
<1> HIDE DEF frame, product, q
<1>5. q * frame \in Nat /\ (q * frame) % frame = 0 /\ (q * frame) \div frame = q
  BY <1>2, <1>3, WholeQuotient, SMT
<1> QED
  BY <1>2, <1>4, <1>5, SMT DEF frame, product

\* The steps that change neither what was described nor what was moved.
LEMMA QuietPath ==
  ASSUME PathInv, UNCHANGED <<program, directions, started, pcm, moved>>,
         pc' \in Acknowledged => pc \in Acknowledged,
         pc' = "start_peer" => pc = "start_peer",
         pc' \in Undescribed \ (Acknowledged \cup {"start_peer"})
           => pc \in Undescribed \ (Acknowledged \cup {"start_peer"}),
         pc' \in Undescribed => pc \in Undescribed,
         pc' = "peer_pcm" => pc = "peer_pcm",
         pc' \in Described => pc \in Described,
         pc' \in {"connect", "setup"} => pc \in {"connect", "setup"},
         pc' \in Described \ {"connect", "setup"} =>
           \/ pc \in Described \ {"connect", "setup"}
           \/ program = "pipewire" => RingsCreated
  PROVE  PathInv'
<1>1. RingsCreated' = RingsCreated /\ Ringed' = Ringed
  BY DEF RingsCreated, Ringed, RingSlots, RingCapacity
<1> QED
  BY <1>1 DEF PathInv, Acknowledged, Undescribed, Described

LEMMA PathStart ==
  ASSUME PathInv, StartHost \/ StartPeer
  PROVE  PathInv'
<1>1. UNCHANGED <<program, directions, pcm, moved>>
  BY DEF StartHost, StartPeer, StartRequest, fixed, transfer
<1>2. RingsCreated' = RingsCreated /\ Ringed' = Ringed
  BY <1>1 DEF RingsCreated, Ringed, RingSlots, RingCapacity
<1>3. CASE StartHost
  <2>1. pc = "start_host" /\ started = {}
    BY <1>3 DEF StartHost, StartRequest, PathInv
  <2>2. \/ pc' = "rollback_peer"
        \/ pc' = "start_peer" /\ started' = directions \cap {"host"}
    BY <1>3, <2>1 DEF StartHost, StartRequest, Goto, RollBack
  <2> QED
    BY <1>1, <1>2, <2>1, <2>2 DEF PathInv, Acknowledged, Undescribed, Described
<1>4. CASE StartPeer
  <2>1. pc = "start_peer" /\ started = directions \cap {"host"} /\ directions \subseteq Directions
    BY <1>4 DEF StartPeer, StartRequest, PathInv
  <2>2. started = IF "peer" \in directions THEN directions \ {"peer"} ELSE directions
    BY <2>1 DEF Directions
  <2>3. \/ pc' = "rollback_peer"
        \/ pc' = "poll_host" /\ "peer" \in directions /\ started' = started \cup {"peer"}
        \/ pc' = "poll_host" /\ "peer" \notin directions /\ started' = started
    BY <1>4 DEF StartPeer, StartRequest, Goto, RollBack
  <2>4. pc' = "rollback_peer" \/ (pc' = "poll_host" /\ started' = directions)
    BY <2>2, <2>3
  <2> QED
    BY <1>1, <1>2, <2>1, <2>4 DEF PathInv, Acknowledged, Undescribed, Described
<1> QED
  BY <1>3, <1>4

LEMMA PathPcm ==
  ASSUME PathInv, HostPcmConfig \/ PeerPcmConfig
  PROVE  PathInv'
<1>1. UNCHANGED <<program, directions, started, moved>>
  BY DEF HostPcmConfig, PeerPcmConfig, PcmConfig, fixed, transfer
<1>2. Ringed' = Ringed
  BY <1>1 DEF Ringed
<1>3. /\ pc \in {"host_pcm", "peer_pcm"} /\ started = directions
      /\ pc' \in {"peer_pcm", "connect", "ended"}
  BY DEF HostPcmConfig, PeerPcmConfig, PcmConfig, PathInv, Goto, Fail, Acknowledged
<1>4. \A d \in Directions : d \in Ringed => ~(moved[d] > 0)
  BY <1>3 DEF PathInv, Undescribed
<1>5. /\ DOMAIN pcm' = Directions
      /\ \A d \in Directions : pcm'[d] # NoPcm => pcm'[d] \in PcmMaps /\ ParsePcmConfig(pcm'[d])
  BY DEF HostPcmConfig, PeerPcmConfig, PcmConfig, PathInv
<1>6. CASE HostPcmConfig
  <2>1. pc = "host_pcm" /\ \A d \in Directions : pcm[d] = NoPcm
    BY <1>6 DEF HostPcmConfig, PcmConfig, PathInv, Undescribed
  <2>2. \/ pc' = "ended"
        \/ /\ pc' = "peer_pcm" /\ pcm'["peer"] = NoPcm
           /\ "host" \in directions <=> pcm'["host"] # NoPcm
    BY <1>6, <2>1, ParsedMap DEF HostPcmConfig, PcmConfig, Goto, Fail, PathInv, Directions
  <2> QED
    BY <1>1, <1>2, <1>3, <1>4, <1>5, <2>2 DEF PathInv, Acknowledged, Undescribed, Described
<1>7. CASE PeerPcmConfig
  <2>1. pc = "peer_pcm" /\ pcm["peer"] = NoPcm /\ ("host" \in directions <=> pcm["host"] # NoPcm)
    BY <1>7 DEF PeerPcmConfig, PcmConfig, PathInv
  <2>2. \/ pc' = "ended"
        \/ /\ pc' = "connect"
           /\ "host" \in directions <=> pcm'["host"] # NoPcm
           /\ "peer" \in directions <=> pcm'["peer"] # NoPcm
    BY <1>7, <2>1, ParsedMap DEF PeerPcmConfig, PcmConfig, Goto, Fail, PathInv, Directions
  <2> QED
    BY <1>1, <1>2, <1>3, <1>4, <1>5, <2>2 DEF PathInv, Acknowledged, Undescribed, Described, Directions
<1> QED
  BY <1>6, <1>7

LEMMA PathMove ==
  ASSUME PathInv, NEW d \in Directions, MoveInterval(d)
  PROVE  PathInv'
<1>1. UNCHANGED <<program, directions, started, pcm, pc>> /\ pc = "stream" /\ program = "smoke"
  BY DEF MoveInterval, fixed
<1>2. RingsCreated' = RingsCreated /\ Ringed' = Ringed
  BY <1>1 DEF RingsCreated, Ringed, RingSlots, RingCapacity
<1>3. moved' \in [Directions -> Nat] /\ \A e \in Directions : e # d => moved'[e] = moved[e]
  BY DEF MoveInterval, PathInv
<1>4. d \in Ringed => RingsCreated
  BY DEF MoveInterval
<1> QED
  BY <1>1, <1>2, <1>3, <1>4 DEF PathInv, Undescribed, Described, Acknowledged

LEMMA PathStep == PathInv /\ [Next]_vars => PathInv'
<1> SUFFICES ASSUME PathInv, [Next]_vars PROVE PathInv'
  OBVIOUS
<1> USE DEF Goto, Fail, RollBack, fixed, transfer
<1>1. CASE GroupStatus \/ Proxy \/ GroupSetActive \/ SourceMetadata \/ SinkMetadata
  BY <1>1, QuietPath DEF GroupStatus, Proxy, GroupSetActive, SourceMetadata, SinkMetadata,
                         Preliminary, Acknowledged, Undescribed, Described
<1>2. CASE StartHost \/ StartPeer
  BY <1>2, PathStart
<1>3. CASE PollHost \/ PollPeer \/ Decide
  BY <1>3, QuietPath DEF PollHost, PollPeer, Poll, Decide, Acknowledged, Undescribed, Described
<1>4. CASE HostPcmConfig \/ PeerPcmConfig
  BY <1>4, PathPcm
<1>5. CASE ConnectWithDeadline \/ Setup
  BY <1>5, QuietPath DEF ConnectWithDeadline, Setup, Acknowledged, Undescribed, Described
<1>6. CASE RollBackPeer \/ RollBackHost \/ StopPeer \/ StopHost
  BY <1>6, QuietPath DEF RollBackPeer, RollBackHost, StopPeer, StopHost, RollBackDirection,
                         StopDirection, Acknowledged, Undescribed, Described
<1>7. CASE IoDone \/ StopProxy
  BY <1>7, QuietPath DEF IoDone, StopProxy, Acknowledged, Undescribed, Described
<1>8. CASE DeadlinePasses \/ UNCHANGED vars
  BY <1>8, QuietPath DEF DeadlinePasses, vars
<1>9. ASSUME NEW d \in Directions, IoEnds(d) \/ FlossConfirms(d) \/ RemoteStops(d) PROVE PathInv'
  BY <1>9, QuietPath DEF IoEnds, FlossConfirms, RemoteStops
<1>10. ASSUME NEW d \in Directions, MoveInterval(d) PROVE PathInv'
  BY <1>10, PathMove
<1> QED
  BY <1>1, <1>2, <1>3, <1>4, <1>5, <1>6, <1>7, <1>8, <1>9, <1>10 DEF Next, Program

\* Whatever PCM Floss describes, a data path that start_software_unicast returns
\* is complete and can carry it: acknowledged and described in exactly its
\* directions, intervals of whole frames, and sound rings.
THEOREM PathsAreComplete == Spec => []DataPathComplete
<1>1. ASSUME PathInv PROVE DataPathComplete
  <2> SUFFICES ASSUME pc \in {"setup", "stream", "stop_proxy", "stop_peer", "stop_host"}
               PROVE  DataPathComplete
    BY DEF DataPathComplete
  <2>1. started = directions /\ \A d \in Directions : d \in directions <=> pcm[d] # NoPcm
    BY <1>1 DEF PathInv, Acknowledged, Described
  <2>2. ASSUME NEW d \in directions
        PROVE  pcm[d] \in PcmMaps /\ ParsePcmConfig(pcm[d])
    BY <1>1, <2>1 DEF PathInv
  <2>3. ASSUME NEW d \in directions, RingInUse(d)
        PROVE  /\ BytesPerInterval(pcm[d]) < WordSize
                    => Header(RingSlots, RingCapacity(d)).payload_capacity = BytesPerInterval(pcm[d])
               /\ HeaderValid(Header(RingSlots, RingCapacity(d)), MapLen(RingSlots, RingCapacity(d)))
               /\ LayoutSound(Header(RingSlots, RingCapacity(d)), MapLen(RingSlots, RingCapacity(d)),
                              0 .. RingSlots)
    <3>1. d \in Directions /\ RingsCreated
      BY <1>1, <2>3 DEF PathInv, RingInUse, Described
    <3>2. BytesPerInterval(pcm[d]) \in Nat
      BY <2>2, IntervalOfFrames
    <3>3. /\ RingCapacity(d) \in Nat /\ RingSlots \in Nat
          /\ BytesPerInterval(pcm[d]) < WordSize => RingCapacity(d) = BytesPerInterval(pcm[d])
      BY <3>2, WordAssumption DEF RingCapacity, RingSlots, AsU32
    <3>4. Creates(RingSlots, RingCapacity(d))
      BY <2>3, <3>1 DEF RingsCreated, RingInUse
    <3>5. /\ HeaderValid(Header(RingSlots, RingCapacity(d)), MapLen(RingSlots, RingCapacity(d)))
          /\ LayoutSound(Header(RingSlots, RingCapacity(d)), MapLen(RingSlots, RingCapacity(d)), Nat)
      BY <3>3, <3>4, CreatedRingIsSound
    <3>6. 0 .. RingSlots \subseteq Nat
      BY <3>3
    <3>7. LayoutSound(Header(RingSlots, RingCapacity(d)), MapLen(RingSlots, RingCapacity(d)),
                      0 .. RingSlots)
      BY <3>5, <3>6 DEF LayoutSound
    <3>8. Header(RingSlots, RingCapacity(d)).payload_capacity = RingCapacity(d)
      BY DEF Header
    <3> QED
      BY <3>3, <3>5, <3>7, <3>8
  <2> QED
    BY <2>1, <2>2, <2>3, IntervalOfFrames, SMT DEF DataPathComplete
<1> QED
  BY <1>1, PathInit, PathStep, PTL DEF Spec
=============================================================================
