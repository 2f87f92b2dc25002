\* Every kind of run and failure, two parser upgrades; readings share their reference.
SPECIFICATION Spec
CONSTANTS
  None = None
  Msg = {m1, m2}
  Reading = {p1, p2}
  Ref = {r1}
  Shared = r1
  RefOf <- MCRefOf
  SyncAfter = 0
  MaxMessages = 1
  Ops = {"sync", "after", "backfill", "reparse", "pick"}
  Faults = {"throttled", "fetch", "persist"}
  MaxDay = 2
  MaxFaults = 1
  MaxCrashes = 1
  MaxUpgrades = 2
SYMMETRY Symmetry
INVARIANT TypeOK
INVARIANT StoredOnce
INVARIANT EmailsMatchRows
PROPERTY ProcessedUntouched
