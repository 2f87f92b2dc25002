\* A file no candidate opens stays locked, and a statement ends.
CHECK_DEADLOCK FALSE
CONSTANTS
  None = None
  Profiles <- MCProfiles
  Issuers = {"HDFC", "SBI", "OTHER"}
  Preferred <- MCPreferred
  Secrets <- MCSecrets
  Opening = {0, 10}
  Amounts = {2, 8}
  Findings <- MCFindings
  CardSheets <- MCCardSheets
  MaxLines = 3
SPECIFICATION Spec
INVARIANTS ReadingSound
