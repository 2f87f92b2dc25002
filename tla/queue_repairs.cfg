\* Re-running index after races between a flush, a rename and two commands.
SPECIFICATION IndexSpec
CONSTANTS
  None = None
  Tx = {t1}
  Text = {x1, x2}
  Rev = {r1}
  Issue = {i1}
  Worker = {w1, w2}
  Preexisting = {t1}
  LedgerOps = {"create", "edit", "rename"}
  Commands = {"index"}
  Faults = {"unavailable"}
  Ceiling = 2
  StaleAfter = 2
  CallLimit = 1
  Limit = 1
  BatchSize = 1
  Quiet = {"upgrade"}
  MaxEdits = 2
  MaxUpgrades = 0
  MaxCrashes = 1
  MaxFaults = 1
PROPERTY IndexRepairs
