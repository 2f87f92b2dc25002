\* Snapshots, rotation and restores next to a session and a pooled reader.
SPECIFICATION Spec
CONSTANTS
  None = None
  Tx = {t1, t2}
  Writers = {w1}
  Readers = {r1}
  Keep = 2
  Quiet = {"window"}
  MaxFiles = 4
  MaxRestores = 1
  MaxFaults = 1
  MaxKills = 1
SYMMETRY Symmetry
INVARIANT TypeOK
PROPERTY RestoreTakesAlone
PROPERTY SafetyIsThePast
PROPERTY BackupsRetained
