CONSTANTS
  Capabilities <- MCCapabilities
  Requests <- MCRequests
  AudioConfigurations <- MCConfigs
  MaxProviders = 2
SPECIFICATION NegotiationSpec
INVARIANTS NoHiddenFallback GrantIsConfigurable ConfigurationSound
PROPERTY SelectionStable
CHECK_DEADLOCK FALSE
