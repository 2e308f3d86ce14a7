SPECIFICATION MCSpec
CONSTANTS
  Operators = {o1}
  Requirements = {lic, abs}
  Required = {lic}
  Expiring = {lic}
  Documents = {d1, d2}
  Requests = {q1, q2}
  Lone = q1
  Sweeps = {s1}
  Windows = 2
  MaxFaults = 1
INVARIANTS EverComplete NobodyLeftBehind NobodyUncovered WarnedOnce
PROPERTY EveryLapseSuspends
