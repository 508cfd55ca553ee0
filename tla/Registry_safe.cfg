SPECIFICATION Spec
CONSTANTS
  s1 = s1
  s2 = s2
  s3 = s3
  w1 = w1
  d1 = d1
  d2 = d2
  Sockets = {s1, s2}
  Admins = {s1}
  Writers = {w1}
  Deleters = {d1}
  HandlersDrop = TRUE
  MaxSeq = 2
  MaxRooms = 3
CHECK_DEADLOCK FALSE
INVARIANTS OneRoomUnlessTorn UpToDateUnlessTorn NoGhostUnlessAbandoned
