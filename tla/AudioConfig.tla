----------------------------- MODULE AudioConfig -----------------------------
(***************************************************************************)
(* The configurations of src/wireless/types.rs and their checks.  A byte   *)
(* blob is TRUE when it is not empty, the PHYs and a channel allocation    *)
(* are sets, and fields no check reads are left out.                       *)
(***************************************************************************)
EXTENDS Integers, Sequences

Unicast == [encoding : {"encoding", "decoding"}, offloaded : BOOLEAN, broadcast : {FALSE}]
Broadcast == [encoding : {"encoding"}, offloaded : BOOLEAN, broadcast : {TRUE}]
SessionTypes == Unicast \cup Broadcast

SampleRates == {8000, 16000, 24000, 32000, 44100, 48000}

\* PcmConfiguration::validate.
PcmValid(pcm) ==
  /\ pcm.sample_rate_hz \in SampleRates
  /\ pcm.bits_per_sample \in {16, 24, 32}
  /\ pcm.channels \in 1 .. 8
  /\ pcm.data_interval_us > 0

\* bytes_per_interval succeeds: an interval is a whole number of frames.
IntervalIsWhole(pcm) ==
  PcmValid(pcm) /\ (pcm.sample_rate_hz * pcm.data_interval_us) % 1000000 = 0

\* What bytes_per_interval returns then.
BytesPerInterval(pcm) ==
  ((pcm.sample_rate_hz * pcm.data_interval_us) \div 1000000)
    * pcm.channels * (pcm.bits_per_sample \div 8)

\* Lc3Configuration, BisConfiguration and BroadcastSubgroup.
Lc3Configurations ==
  [sampling_frequency_hz : Nat, frame_duration_us : Nat, octets_per_codec_frame : Nat,
   codec_frames_per_sdu : Nat, audio_channel_allocation : SUBSET STRING]
BisConfigurations == [bis_index : Nat, lc3 : Lc3Configurations]
BroadcastSubgroups == [codec : Lc3Configurations, bis : Seq(BisConfigurations)]

\* Lc3Configuration::validate.
Lc3Valid(lc3) ==
  /\ lc3.sampling_frequency_hz \in SampleRates
  /\ lc3.frame_duration_us \in {7500, 10000}
  /\ lc3.octets_per_codec_frame > 0
  /\ lc3.codec_frames_per_sdu > 0

\* IsoQos::validate.
QosValid(qos) ==
  /\ qos.sdu_interval_us > 0
  /\ qos.phys # {}
  /\ qos.max_sdu > 0
  /\ qos.presentation_delay_min_us <= qos.presentation_delay_max_us

\* AseConfiguration::validate.
AseValid(ase) ==
  /\ ase.ase_id # 0
  /\ Lc3Valid(ase.lc3)
  /\ QosValid(ase.qos)
  /\ ase.lc3.octets_per_codec_frame * ase.lc3.codec_frames_per_sdu <= ase.qos.max_sdu
  /\ ~(ase.transparent /\ ase.codec_configuration)

\* One turn of the inner loop of BroadcastConfiguration::validate: `ok` turns
\* false at the first failed ensure!, `seen` is seen_bis.
CheckBis(codec, acc, bis) ==
  [ok |-> /\ acc.ok
          /\ bis.bis_index \in 1 .. 31
          /\ bis.bis_index \notin acc.seen
          /\ Lc3Valid(bis.lc3)
          /\ bis.lc3 = codec,
   seen |-> acc.seen \cup {bis.bis_index}]

\* The inner loop, from what the outer one has found so far.
CheckAllBis(acc, subgroup) ==
  LET after[n \in 0 .. Len(subgroup.bis)] ==
        IF n = 0 THEN acc ELSE CheckBis(subgroup.codec, after[n - 1], subgroup.bis[n])
  IN  after[Len(subgroup.bis)]

\* Seeded fault: seen_bis is declared inside the outer loop.
CheckSubgroupAlone(acc, subgroup) ==
  CheckAllBis([ok |-> acc.ok /\ Lc3Valid(subgroup.codec) /\ subgroup.bis # <<>>, seen |-> {}],
              subgroup)

\* One turn of the outer loop.
CheckSubgroup(acc, subgroup) ==
  CheckAllBis([ok |-> acc.ok /\ Lc3Valid(subgroup.codec) /\ subgroup.bis # <<>>,
               seen |-> acc.seen],
              subgroup)

\* The outer loop.
CheckSubgroups(subgroups) ==
  LET after[n \in 0 .. Len(subgroups)] ==
        IF n = 0 THEN [ok |-> TRUE, seen |-> {}] ELSE CheckSubgroup(after[n - 1], subgroups[n])
  IN  after[Len(subgroups)]

\* BroadcastConfiguration::validate: the checks before the loops, and all of it.
BroadcastFields(b) ==
  /\ b.broadcast_id <= 16777215
  /\ b.presentation_delay_us > 0
  /\ PcmValid(b.pcm)
  /\ b.subgroups # <<>>

BroadcastValid(b) == BroadcastFields(b) /\ CheckSubgroups(b.subgroups).ok

\* AudioConfiguration::validate_for.
ValidateFor(k, type) ==
  \/ k.kind = "Pcm" /\ PcmValid(k.pcm) /\ ~type.offloaded
  \/ /\ k.kind = "LeAudio" /\ ~type.broadcast
     /\ k.group_id >= 0
     /\ PcmValid(k.pcm)
     /\ k.ases # <<>> /\ \A i \in DOMAIN k.ases : AseValid(k.ases[i])
  \/ k.kind = "LeBroadcast" /\ type.broadcast /\ BroadcastValid(k)
=============================================================================
