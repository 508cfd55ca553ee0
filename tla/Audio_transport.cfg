SPECIFICATION Spec
CONSTANTS
  Gms = {"gm"}
  Listeners = {"player"}
  Lists <- MCLists
  Edits <- MCEdits
  Scenes <- MCScenes
  Ambience <- MCAmbience
  Length <- MCLength
  Probed = {"short", "song"}
  Stream <- MCStream
  MaxPlaying = 2
  Skew = 1
  Asks <- MCAsks
  MaxOps = 2
  MaxClock = 3
  MaxFailures = 1
INVARIANTS AmbienceLeavesUnlessSpoiled RepeatsNothingUnlessReseeded EndAdvancesUnlessMissed
PROPERTY NothingCut
CHECK_DEADLOCK FALSE
