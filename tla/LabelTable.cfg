CONSTANTS
  Label = {a, b, c}
  Vector = {u, w}
  Capacities = {1, 2}
SPECIFICATION Spec
INVARIANTS LookupSound DeletedAccounting FreeListExact LookupComplete
PROPERTIES LiveSlotsKept ImplementsLabelIndex
