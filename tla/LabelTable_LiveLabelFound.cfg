CONSTANTS
  Label = {a, b, c}
  Vector = {u}
  Capacities = {2, 3}
SPECIFICATION Spec
INVARIANT LiveLabelFound
