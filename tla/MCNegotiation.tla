---------------------------- MODULE MCNegotiation ----------------------------
(* The software provider, a DSP with narrower codecs and no multidirectional *)
(* streams, and a broadcaster; requests on and beyond their limits;          *)
(* broadcasts of up to two subgroups of up to two BIS each.                  *)
EXTENDS Negotiation, SequencesExt

Lc3(rate, duration, octets, frames) ==
  [sampling_frequency_hz |-> rate, frame_duration_us |-> duration,
   octets_per_codec_frame |-> octets, codec_frames_per_sdu |-> frames,
   audio_channel_allocation |-> {"left", "right"}]

Good == Lc3(48000, 10000, 120, 1)
Other == Lc3(16000, 7500, 40, 1)
Channels == {"left", "right"}

Dsp ==
  [name |-> "dsp", session_types |-> {t \in SessionTypes : t.offloaded},
   codecs |-> {[sampling_frequencies_hz |-> {48000}, frame_durations_us |-> {10000},
                octets_per_frame_min |-> 100, octets_per_frame_max |-> 155,
                max_codec_frames_per_sdu |-> 1, channel_allocations |-> Channels]},
   supports_multidirectional |-> FALSE]

Broadcaster ==
  [SoftwareLc3({"left"}) EXCEPT !.name = "broadcaster",
                                !.session_types = {t \in SessionTypes : ~t.offloaded}]

MCCapabilities == {SoftwareLc3(Channels), Dsp, Broadcaster}

Codecs == {Good, Other, [Other EXCEPT !.audio_channel_allocation = {"left"}],
           Lc3(48000, 10000, 120, 0), Lc3(48000, 10000, 401, 1), Lc3(48000, 5000, 120, 1)}

MCRequests ==
  [session_type : SessionTypes, codec : Codecs, require_multidirectional : BOOLEAN]

Pcm(rate, interval) ==
  [sample_rate_hz |-> rate, bits_per_sample |-> 16, channels |-> 2,
   data_interval_us |-> interval]
Pcms == {Pcm(48000, 10000), Pcm(44000, 10000), Pcm(48000, 0)}

Ase(id, max, transparent) ==
  [ase_id |-> id, lc3 |-> Good, transparent |-> transparent, codec_configuration |-> TRUE,
   qos |-> [sdu_interval_us |-> 10000, phys |-> {"2M"}, max_sdu |-> max,
            presentation_delay_min_us |-> 0, presentation_delay_max_us |-> 40000]]
Ases == {Ase(1, 120, FALSE), Ase(0, 120, FALSE), Ase(1, 119, FALSE), Ase(2, 120, TRUE)}

Bis == [bis_index : {1, 31, 32}, lc3 : {Good}] \cup [bis_index : {2}, lc3 : {Other}]
Subgroups == [codec : {Good}, bis : SeqOf(Bis, 2)]

MCConfigs ==
  [kind : {"Pcm"}, pcm : Pcms]
  \cup [kind : {"LeAudio"}, group_id : {-1, 0}, pcm : {Pcm(48000, 10000)}, ases : SeqOf(Ases, 2)]
  \cup [kind : {"LeBroadcast"}, broadcast_id : {16777215}, presentation_delay_us : {40000},
        pcm : {Pcm(48000, 10000)}, subgroups : SeqOf(Subgroups, 2)]
=============================================================================
