SPECIFICATION Spec
CONSTANTS
  w1 = w1
  w2 = w2
  c1 = c1
  c2 = c2
  Workers = {w1, w2}
  Containers = {c1, c2}
  ContainerOf <- MCContainerOf
  StartSettings <- MCStartSettings
  MaxKeys = 2
  LifeSeconds = 2
  PerSecond = 2
  MaxTime = 8
  MaxChanges = 2
CHECK_DEADLOCK FALSE
INVARIANTS NewSessionsWork KeysOutliveRestarts SameSecondOnly EarlierSessionsEnd
PROPERTY RefusedForGood
