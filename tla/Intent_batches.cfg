CONSTANTS
  C1 = C1  C2 = C2  C3 = C3  M = M
  I1 = I1  I2 = I2  I3 = I3  F1 = F1  F2 = F2  S1 = S1  S2 = S2
  Docs <- MCDocs
  TypeOf <- MCTypeOf
  Bodies <- MCBodies
  Worlds <- MCWorlds
  Owned <- MCOwned
  Asset = a
  Root = root
  MaxOps = 3
SPECIFICATION Spec
INVARIANTS OneActiveUnlessTwice ForestUnlessTangled
  LogTellsAllUnlessAdopted UndoesUnlessTangled
PROPERTIES OnlyOwnDeleted AssetHopsToSurvivor
CHECK_DEADLOCK FALSE
