SPECIFICATION Spec
CONSTANTS
  DataShards = 2
  ParityShards = 2
  Contents <- MCContents
  Geometries <- MCGeometries
  MaxEncodes = 2
  MaxDecodes = 1
  MaxDamage = 2
  MinRead = 9
  streamBS = 2
INVARIANTS
  AnyRowsInvert
  TablesAgree
  DecodeHonest
  DecodeServes
  StreamServes
  StreamVerdict
CHECK_DEADLOCK FALSE
