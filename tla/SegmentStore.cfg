SPECIFICATION TableSpec
CONSTANTS
  CodeSize = 4
  SegSize = 16
  ParaSize = 1
  MemTotal = 64
  Addrs <- MCAddrs
  UserNames <- MCNames
INVARIANTS TableTypeOK OneSegmentPerAddress CodeAndDataNamesUnique
PROPERTIES TypeOnlyFromStackToData
