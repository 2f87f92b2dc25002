\* Two requests at a time: ingestion, uploads, profiles, unlocking, extraction, reconciliation, kills.
SPECIFICATION FairSpec
CONSTANTS
  None = None
  a1 = a1
  p1 = p1
  p2 = p2
  p3 = p3
  acc = acc
  l1 = l1
  Sess = {s1, s2}
  Att = {a1}
  Pdf = {p1, p2, p3}
  Uploads = {p1, p2, p3}
  Key = {k1, k2}
  Details = {}
  Account = {acc}
  Line = {l1}
  PdfOf <- MCPdfOf
  KindOf <- MCKindOf
  KeyOf <- MCKeyOf
  AccountOf <- MCAccountOf
  CardIn <- MCCardIn
  LinesOf <- MCLinesOf
  ReadsAs <- MCReadsAs
  Referenced = {l1}
  Quiet = {"ingest", "statement", "lines"}
  MaxStatements = 2
  MaxFaults = 1
  MaxRequests = 3
  MaxDecisions = 1
\* The requests run out.
CHECK_DEADLOCK FALSE
INVARIANTS TypeOK OneStatementPerSource VerdictEvidenced LockedIsLocked
PROPERTIES DecisionsKept Implements SavedKeyOpens
