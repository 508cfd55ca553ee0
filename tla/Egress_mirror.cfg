SPECIFICATION Spec
CONSTANTS
  Actor = "actor"
  Tokens = {"token"}
  Notes = {"note"}
  Player = "player"
  Worlds <- MCWorlds
  MaxCommits = 3
INVARIANTS MirrorUnlessLeft OnlyShownUnlessReowned
CHECK_DEADLOCK FALSE
