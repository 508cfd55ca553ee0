SPECIFICATION Spec
CONSTANTS
  Absent = Absent
  Obj = Obj
  None = None
  Gm = Gm
  Player = Player
  Template = "template"
  Worlds <- MCWorlds
  MaxEdits = 3
  MaxCalls = 2
INVARIANT ArrivesUnlessTorn
PROPERTY LocalEditsStand
CHECK_DEADLOCK FALSE
