\* A restore while the MCP server keeps its read-only connection.
SPECIFICATION Spec
CONSTANTS
  None = None
  Tx = {t1}
  Writers = {w1}
  Readers = {r1}
  Keep = 15
  Quiet = {"window"}
  MaxFiles = 3
  MaxRestores = 1
  MaxFaults = 0
  MaxKills = 0
PROPERTY RestoreTakes
