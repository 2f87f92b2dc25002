\* Incremental syncs, backfills and re-parses under throttling and kills.
SPECIFICATION FairSpec
CONSTANTS
  None = None
  Msg = {m1, m2}
  Reading = {p1}
  Ref = {r1}
  Shared = r1
  RefOf <- MCRefOf
  SyncAfter = 0
  MaxMessages = 2
  Ops = {"sync", "backfill", "reparse"}
  Faults = {"throttled"}
  MaxDay = 3
  MaxFaults = 2
  MaxCrashes = 1
  MaxUpgrades = 0
INVARIANT NothingSkipped
PROPERTY EveryMessageArrives
