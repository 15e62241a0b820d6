\* Two threads whose first calls of a kind overlap.
SPECIFICATION Spec
CONSTANTS
  Client = {t1, t2}
  Nobody = Nobody
  Pool = 2
INVARIANT HandlesKept
CHECK_DEADLOCK FALSE
