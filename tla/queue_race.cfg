\* One transaction, two commands, every ledger operation, the model swapped between runs.
SPECIFICATION Spec
CONSTANTS
  None = None
  Tx = {t1}
  Text = {x1, x2}
  Rev = {r1, r2}
  Issue = {i1}
  Worker = {w1, w2}
  Preexisting = {t1}
  LedgerOps = {"create", "edit", "reclassify", "flag", "resolve", "reopen", "rename"}
  Commands = {"index", "process"}
  Faults = {"unavailable", "rejected"}
  Ceiling = 2
  StaleAfter = 2
  CallLimit = 1
  Limit = 1
  BatchSize = 1
  Quiet = {"upgrade"}
  MaxEdits = 3
  MaxUpgrades = 1
  MaxCrashes = 0
  MaxFaults = 1
SYMMETRY Symmetry
INVARIANT TypeOK
INVARIANT RetryBudget
INVARIANT DoneHasVector
INVARIANT SearchCoherent
