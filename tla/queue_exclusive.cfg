\* Two commands; the ledger changes between runs; each claim is one batch.
SPECIFICATION Spec
CONSTANTS
  None = None
  Tx = {t1, t2}
  Text = {x1, x2}
  Rev = {r1}
  Issue = {i1}
  Worker = {w1, w2}
  Preexisting = {}
  LedgerOps = {"create", "edit", "reclassify", "flag", "resolve"}
  Commands = {"process"}
  Faults = {"unavailable", "contract"}
  Ceiling = 2
  StaleAfter = 2
  CallLimit = 1
  Limit = 2
  BatchSize = 2
  Quiet = {"upgrade", "edit"}
  MaxEdits = 4
  MaxUpgrades = 0
  MaxCrashes = 0
  MaxFaults = 3
INVARIANT ClaimsExclusive
INVARIANT NoStranding
INVARIANT NoSilentDrift
INVARIANT IneligibleNotQueued
PROPERTY FailedStaysFailed
