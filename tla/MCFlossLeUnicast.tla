-------------------------- MODULE MCFlossLeUnicast ---------------------------
(* Both programs, every selection of directions, every failure.  Floss       *)
(* describes its PCM with two good maps, 44.1 kHz at 7.5 ms (no whole number *)
(* of frames), an interval of zero, a rate that is not supported, and a map  *)
(* without its channels.                                                     *)
EXTENDS FlossLeUnicast

Map(rate, bits, interval) ==
  [sample_rate_hz |-> rate, bits_per_sample |-> bits, channels |-> 2,
   data_interval_us |-> interval]

MCPcmMaps ==
  {Map(48000, 16, 10000), Map(44100, 24, 10000), Map(44100, 16, 7500), Map(48000, 16, 0),
   Map(22050, 16, 10000),
   [sample_rate_hz |-> 48000, bits_per_sample |-> 16, data_interval_us |-> 10000]}
=============================================================================
