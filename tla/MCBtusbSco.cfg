CONSTANTS
  s1 = s1
  s2 = s2
  Senders = {s1, s2}
  AltFor <- MCAltFor
  MaxNotify = 6
  MaxInFlight = 3
  Free = Free
SPECIFICATION FairSpec
INVARIANTS NoStaleSubmission InFlightFitsSetting
PROPERTIES SettingFollowsConnection SendReturns
