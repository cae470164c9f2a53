SPECIFICATION Spec
CONSTANTS
  None = None
  Profiles <- MCProfiles
  Saved <- MCSaved
  Freq <- Frequency
  ScanPeriod = 1
  DwellTime = 1
  DwellInterval = 1
  MtActive = 2
  HeaderBy = 1
  FrameTime = 2
  Glitches = 1
  Commands = 1
INVARIANTS
  OnTheRightNetwork
PROPERTIES
  HearsAgain
  ScanHeals
