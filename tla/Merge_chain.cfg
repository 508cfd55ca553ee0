SPECIFICATION Spec
CONSTANTS
  Absent = Absent
  Obj = Obj
  None = None
  Gm = Gm
  Player = Player
  Template = "template"
  Worlds <- MCChained
  MaxEdits = 3
  MaxCalls = 3
PROPERTY LocalEditsStand
CHECK_DEADLOCK FALSE
