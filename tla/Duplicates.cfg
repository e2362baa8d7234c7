SPECIFICATION Spec
CONSTANTS
  Signatures = {"a", "b"}
  RefLists <- MCRefLists
  TgtLists <- MCTgtLists
  Mins = {0, 2}
  Maxs = {0}
  MinSize = 2
  MaxDists = {40, 70}
INVARIANTS DistanceExact NearestKept SharedEqually
CHECK_DEADLOCK FALSE
