\* Re-running process after faults and a kill.
SPECIFICATION ProcessSpec
CONSTANTS
  None = None
  Tx = {t1, t2}
  Text = {x1}
  Rev = {r1}
  Issue = {i1}
  Worker = {w1, w2}
  Preexisting = {}
  LedgerOps = {"create", "flag"}
  Commands = {"process"}
  Faults = {"unavailable", "rejected"}
  Ceiling = 2
  StaleAfter = 2
  CallLimit = 1
  Limit = 2
  BatchSize = 1
  Quiet = {"upgrade"}
  MaxEdits = 2
  MaxUpgrades = 0
  MaxCrashes = 1
  MaxFaults = 1
PROPERTY QueueDrains
PROPERTY LifecycleSpec
