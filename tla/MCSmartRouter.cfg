SPECIFICATION FairSpec
CONSTANTS
  a1 = a1  a2 = a2  r1 = r1  r2 = r2  None = None
  Adapters = {a1, a2}
  Countries = {"ID", "TH"}
  AdaptersFor <- MCBoth
  Requests = {r1, r2}
  Kinds = {"silent", "simswap"}
  Latencies = {1000}
  MinRequests = 1
  Cooldown = 2
  Streak = 1
  Totals = {0, 1, 2, 3, 4}
INVARIANT CircuitReflectsStats
PROPERTY OutageEnds
