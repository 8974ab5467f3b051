CONSTANTS
  None = None
  Hosts = {h1, h2}
  Interval = 3
  MaxTime = 4
  MaxBoots = 1
SPECIFICATION Spec
SYMMETRY Symmetry
CHECK_DEADLOCK FALSE
INVARIANTS TypeOK Conservation
PROPERTIES TotalsGrow LossBounded
