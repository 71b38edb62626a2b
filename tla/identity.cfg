SPECIFICATION Spec
CONSTANTS
  Machines = {m1, m2}
  Pids = {p1, p2, p3}
  None = None
  Names <- MCNames
  Setups <- MCSetups
  Plugins = {}
  MaxRow = 2
  MaxLoads = 2
  m1 = m1
  m2 = m2
INVARIANT OnePidPerPipeline
INVARIANT CompletedLoadClosed
INVARIANT NoSilentHole
SYMMETRY Symmetry
CHECK_DEADLOCK FALSE
