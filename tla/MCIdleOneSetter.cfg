SPECIFICATION Spec
CONSTANTS
  Setter = {s}
  Conn = {c1, c2, c3, c4}
  IdleLimits = {0, 1, 2, 4}
  Nil = Nil
SYMMETRY Symmetry
INVARIANTS
  OnePlace

PROPERTIES
  ImplementsIdleSet
