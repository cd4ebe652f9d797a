SPECIFICATION Spec
CONSTANTS
  Workers = {w1, w2}
  MAX_REQUESTS_PER_WINDOW = 2
  WindowTicks = 1
  LinkTicks = 2
  MaxLinks = 4
SYMMETRY Symmetric
INVARIANTS FewOpen NearLimit FewUses
PROPERTIES LinksInTurn ResetClosesOlder
