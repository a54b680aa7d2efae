SPECIFICATION Spec
CONSTANTS
  a1 = a1  a2 = a2  r1 = r1  r2 = r2  None = None
  Adapters = {a1}
  Countries = {"ID"}
  AdaptersFor <- MCOne
  Requests = {r1, r2}
  Kinds = {"silent"}
  Latencies = {0}
  MinRequests = 10
  Cooldown = 2
  Streak = 5
  Totals = {0, 1, 2, 3, 4, 5}
SYMMETRY Symmetry
INVARIANT StreakOpensCircuit
