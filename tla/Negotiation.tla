----------------------------- MODULE Negotiation -----------------------------
(***************************************************************************)
(* CapabilityRegistry (src/wireless/provider.rs): platform code registers  *)
(* providers, asks for a session with or without an explicit fallback,     *)
(* and configures the session it was granted, which checks the             *)
(* configuration for its type (src/wireless/types.rs).  The platform code  *)
(* is the environment of this model.                                       *)
(***************************************************************************)
EXTENDS AudioConfig

CONSTANTS Capabilities,         \* what the providers of the platform report
          Requests,             \* session requests
          AudioConfigurations,  \* configurations
          MaxProviders          \* bound: registrations

VARIABLES
  providers,  \* the registry, in registration order
  granted,    \* None, or the last grant
  session,    \* None, or the type of the session opened on it
  attempt     \* None, or the last configuration and the verdict on it

negotiationVars == <<providers, granted, session, attempt>>

None == [none |-> TRUE]

ASSUME NegotiationAssumption ==
  /\ None \notin Capabilities /\ None \notin Requests /\ MaxProviders \in Nat
  /\ \A k \in AudioConfigurations : k.kind = "LeBroadcast" => k.subgroups \in Seq(BroadcastSubgroups)

NegotiationInit == providers = <<>> /\ granted = None /\ session = None /\ attempt = None

-----------------------------------------------------------------------------
\* CodecCapability::supports.
CodecSupports(c, codec) ==
  /\ codec.sampling_frequency_hz \in c.sampling_frequencies_hz
  /\ codec.frame_duration_us \in c.frame_durations_us
  /\ codec.octets_per_codec_frame \in c.octets_per_frame_min .. c.octets_per_frame_max
  /\ codec.codec_frames_per_sdu <= c.max_codec_frames_per_sdu
  /\ codec.audio_channel_allocation \subseteq c.channel_allocations

\* ProviderCapabilities::supports, and CapabilityProvider::accepts.
Accepts(p, request) ==
  /\ request.session_type \in p.session_types
  /\ \E c \in p.codecs : CodecSupports(c, request.codec)
  /\ request.require_multidirectional => p.supports_multidirectional

\* Seeded fault: a frame length the LC3 check does not know.
SoftwareLc3WithShortFrames(channels) ==
  [name |-> "floss-host-lc3",
   session_types |-> {t \in Unicast : ~t.offloaded},
   codecs |-> {[sampling_frequencies_hz |-> SampleRates,
                frame_durations_us |-> {5000, 7500, 10000},
                octets_per_frame_min |-> 20, octets_per_frame_max |-> 400,
                max_codec_frames_per_sdu |-> 4, channel_allocations |-> channels]},
   supports_multidirectional |-> TRUE]

\* SoftwareLc3Provider::new, for a set of channels that stands for u32::MAX.
SoftwareLc3(channels) ==
  [name |-> "floss-host-lc3",
   session_types |-> {t \in Unicast : ~t.offloaded},
   codecs |-> {[sampling_frequencies_hz |-> SampleRates,
                frame_durations_us |-> {7500, 10000},
                octets_per_frame_min |-> 20, octets_per_frame_max |-> 400,
                max_codec_frames_per_sdu |-> 4, channel_allocations |-> channels]},
   supports_multidirectional |-> TRUE]

\* The software provider is the only one that reports this name.
ASSUME ProviderAssumption ==
  \A p \in Capabilities : p.name = "floss-host-lc3" =>
    \E c \in p.codecs : p = SoftwareLc3(c.channel_allocations)

\* select: the first provider in registration order that accepts, or None.
Select(ps, request) ==
  LET accepting == {i \in DOMAIN ps : Accepts(ps[i], request)}
  IN IF accepting = {} THEN None
     ELSE ps[CHOOSE i \in accepting : \A j \in accepting : i <= j]

\* Seeded fault: without an explicit fallback a software session will do.
SelectOrFallbackImplicit(ps, preferred, fallback) ==
  IF Select(ps, preferred) # None
    THEN [served |-> preferred, provider |-> Select(ps, preferred)]
    ELSE LET other == IF fallback # None THEN fallback
                      ELSE [preferred EXCEPT !.session_type.offloaded = FALSE]
         IN [served |-> other, provider |-> Select(ps, other)]

\* require_explicit_fallback.  `served` is the request the provider was chosen
\* for.
SelectOrFallback(ps, preferred, fallback) ==
  IF Select(ps, preferred) # None
    THEN [served |-> preferred, provider |-> Select(ps, preferred)]
    ELSE [served |-> fallback,
          provider |-> IF fallback = None THEN None ELSE Select(ps, fallback)]

-----------------------------------------------------------------------------
\* Seeded fault: a new provider goes to the front.
RegisterFirst(p) ==
  /\ granted = None /\ session = None
  /\ Len(providers) < MaxProviders
  /\ providers' = <<p>> \o providers
  /\ UNCHANGED <<granted, session, attempt>>

\* register.  A grant borrows the registry, so none is held meanwhile.
Register(p) ==
  /\ granted = None /\ session = None
  /\ Len(providers) < MaxProviders
  /\ providers' = Append(providers, p)
  /\ UNCHANGED <<granted, session, attempt>>

Request(preferred, fallback) ==
  /\ granted = None /\ session = None
  /\ LET s == SelectOrFallback(providers, preferred, fallback)
     IN /\ s.provider # None
        /\ granted' = [preferred |-> preferred, fallback |-> fallback,
                       served |-> s.served, provider |-> s.provider]
  /\ UNCHANGED <<providers, session, attempt>>

\* A session of the type that was granted; the borrow of the registry ends.
Open ==
  /\ granted # None
  /\ session' = granted.served.session_type
  /\ granted' = None
  /\ UNCHANGED <<providers, attempt>>

\* The session checks a configuration.
ConfigureSession(k) ==
  /\ session # None /\ attempt = None
  /\ attempt' = [config |-> k, ok |-> ValidateFor(k, session)]
  /\ UNCHANGED <<providers, granted, session>>

NegotiationNext ==
  \/ \E p \in Capabilities : Register(p)
  \/ \E preferred \in Requests, fallback \in Requests \cup {None} :
       Request(preferred, fallback)
  \/ Open
  \/ \E k \in AudioConfigurations : ConfigureSession(k)

NegotiationSpec == NegotiationInit /\ [][NegotiationNext]_negotiationVars

-----------------------------------------------------------------------------
\* "No hidden fallback changes SessionType" (provider.rs:87): a grant is for
\* the preferred request whenever any registered provider accepts it, and
\* otherwise for the fallback the caller has named; its provider is registered
\* and accepts exactly that request.
NoHiddenFallback ==
  granted # None =>
    /\ \E i \in DOMAIN providers : providers[i] = granted.provider
    /\ Accepts(granted.provider, granted.served)
    /\ \/ granted.served = granted.preferred
       \/ /\ granted.served = granted.fallback
          /\ \A i \in DOMAIN providers : ~Accepts(providers[i], granted.preferred)

\* "Select in registration order" (provider.rs:85): a provider registered later
\* never takes a request away from the one that has been serving it.
SelectionStable ==
  [][\A request \in Requests :
       Select(providers, request) # None =>
         Select(providers', request) = Select(providers, request)]_negotiationVars

\* The two codec checks agree: what the software provider grants can be
\* configured, as long as an SDU holds a codec frame.  (supports() has no lower
\* bound on codec_frames_per_sdu; Lc3Configuration::validate has.)
GrantIsConfigurable ==
  granted # None /\ granted.provider.name = "floss-host-lc3" =>
    (Lc3Valid(granted.served.codec) <=> granted.served.codec.codec_frames_per_sdu > 0)

\* What a sound broadcast is: over all its subgroups no two BIS share an index.
SoundBroadcast(b) ==
  \A i \in DOMAIN b.subgroups :
    LET bis == b.subgroups[i].bis
    IN /\ bis # <<>>
       /\ \A j \in DOMAIN bis :
            /\ bis[j].bis_index \in 1 .. 31
            /\ Lc3Valid(bis[j].lc3) /\ bis[j].lc3 = b.subgroups[i].codec
            /\ \A k \in DOMAIN b.subgroups : \A l \in DOMAIN b.subgroups[k].bis :
                 bis[j].bis_index = b.subgroups[k].bis[l].bis_index => i = k /\ j = l

\* A configured session carries what its type can: offloaded sessions no bare
\* PCM, a broadcast session a broadcast or PCM and no other session one; and of
\* the broadcasts whose other fields are valid the loops over subgroups and BIS
\* accept exactly the sound ones.
ConfigurationSound ==
  attempt # None =>
    /\ attempt.ok => /\ attempt.config.kind = "Pcm" => ~session.offloaded
                     /\ attempt.config.kind = "LeAudio" => ~session.broadcast
                     /\ attempt.config.kind = "LeBroadcast" => session.broadcast
    /\ /\ attempt.config.kind = "LeBroadcast" /\ session.broadcast
       /\ BroadcastFields(attempt.config)
       => (attempt.ok <=> SoundBroadcast(attempt.config))
=============================================================================
