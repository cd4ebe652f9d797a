SPECIFICATION Spec
CONSTANTS
  Workers = {w1, w2}
  MAX_REQUESTS_PER_WINDOW = 3
  WindowTicks = 1
  LinkTicks = 2
  MaxLinks = 5
INVARIANT UsedOnce
