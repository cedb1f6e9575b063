SPECIFICATION Spec
CONSTANTS
  Requests = {r1, r2}
  Probes = {p1}
  Warm = Warm
  Timeout = 1
  Cooldown = 2
  MaxTime = 3
INVARIANT NeverRaises
