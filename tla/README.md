# MyMonee, specified

MyMonee is a local-first personal-finance application: a Python back end (FastAPI, SQLAlchemy over
one SQLite file, a CLI and an MCP server) and a React front end. It reads bank alerts from Gmail,
turns them into a ledger, classifies and reconciles the ledger, keeps a vault of credit-card
statements, backs itself up, and maintains an index of text embeddings for semantic search.

This directory holds TLA+ models of the parts of that system where order, failure and concurrency
decide whether it is right, the TLC runs that check them, and TLAPS proofs of the results that hold
for every size of the system. `PROJECT.json` maps each definition to the lines it stands for.

## 1. Inventory

| Component | State it keeps | Operations | Talks to |
| --- | --- | --- | --- |
| Embedding queue (`services/embeddings`) | `embedding_jobs` (status, attempts, `next_attempt_at`, `updated_at`), `transaction_embeddings` | flush hook, bulk enqueue, claim, heartbeat, batch, one-by-one fallback, defer/fail/done, search, status | ledger (session flushes), embedding-g2 over HTTP |
| Email ingestion (`ingestion`) | `emails`, `sync_state` (watermark), `ingestion_runs`, `ingestion_events` | incremental sync, backfill, forced re-parse | Gmail API, parsers, ledger |
| Gmail OAuth (`ingestion/gmail/oauth.py`) | tokens in the keychain, the pending authorization | start, callback, refresh, reset | Google, settings |
| Ledger (`services/transactions`, `ledger`, `deduplication`, `reconciliation`, `data_issues`, `classification`) | `transactions`, `postings`, `financial_events`, `transaction_links`, rules, flags | classify, exclude, reimburse, flag, resolve, deduplicate, pair transfers | every writer of the ledger; the queue through the flush hook |
| Statement vault (`statements`) | `credit_card_statements`, their lines, files on disk, password profiles | discover, download, unlock, extract, validate, reconcile, delete | Gmail, ledger |
| Backup (`services/backup`, `services/archive`) | the database file, its rotated backups, archives | snapshot, prune, restore, export, import | every open session (the file is swapped beneath them) |
| Statement parsing and validation (`statements/parsers`, `password_engine`, `validator`) | nothing | password candidates, rows and figures of a PDF, verdict | called by the vault |
| Categories and labels (`services/categories`, `api/routes/rules`, `classification`) | `categories`, `subcategories`, `classification_rules`, corrections | create, rename, delete, teach, relabel | every row, rule, bill and suggestion that names a category |
| Subscriptions and bills (`api/routes/recurring`) | `recurring_transactions`, each with a subscription or a bill | create, confirm, ignore, update, delete, list | categories, transactions, the agent |
| Dashboards and analytics (`services/dashboard`, `analytics`) | nothing | overview, trends, spending, deep dive, income, merchants | read the ledger and the categories |
| AI suggestions (`services/ai`) | `ai_operations`: suggestions, their status, their context | suggest, serve from cache, feedback | Gemini, OpenRouter |
| Auth and settings (`services/auth`, `config`) | `settings` rows, a 60-second cache | check, change | every API request |
| Scheduler (`scheduler`) | one periodic job, `run_full_reconciliation` (it does not ingest, although ARCHITECTURE.md, line 296, says so) | start, stop | ledger |
| MCP server (`mcp`) | the gate, the rate-limit window | reports, pages, classification | an agent; the ledger over a read-only engine and a session of its own |
| Onboarding, doctor, CLI, web UI | nothing of their own beyond settings rows | wizards, diagnostics, entry points | the above |

What is hard, and where:

* **Two writers of one SQLite file.** The API server, the CLI and the scheduler open their own
  sessions. pysqlite starts a transaction only at the first DML statement, so everything a session
  reads before its first write may be out of date when it commits.
* **A network call in the middle of a read-modify-write.** The embedding worker reads texts, calls a
  service that may take minutes, and writes statuses; ingestion reads a watermark, pages through
  Gmail, and writes it back; the AI and OAuth services do the same with other state.
* **Work that outlives its process.** Jobs, ingestion runs and statements are left `running`,
  `extracting` or half written by a killed process, and something has to take them up again.
* **Leases and retries.** Claims expire by the clock; failures are counted towards a ceiling by
  whoever sees them.
* **One fact in two places.** What counts as spending is written in the dashboard and in analytics; a
  pair is a link and flags on two rows; an event has two postings; a statement has a status, a report,
  an unlocked copy and lines. Operations written apart have to keep them together.
* **What is remembered and what is there.** A label is checked before it is written, a suggestion
  before the provider answers, a page by offset before the list shrinks.
* **Files next to the database.** A restore replaces the database under open sessions, after taking a
  safety snapshot that itself rotates old backups away.

What makes each component correct, in one line each:

* queue: every indexable row ends with a vector of its current text; a job is never lost, never held
  by two commands, never retried past its ceiling, never done without a vector; search never mixes models;
* ingestion: no message between two watermarks is skipped; a message is stored once; a failed message
  leaves nothing half written;
* ledger: an event balances; no money is paired twice; what the user excluded stays out of spending; a
  taught rule is remembered;
* statements: a source is stored once; a verdict stands on a reading that was finished, of a file that
  was opened; the user's decisions outlive reconciliations; a saved password opens what waits for it;
* statement checks: a bank statement that is validated was read completely and with the right signs, a card's
  satisfies its equation;
* labels and reports: a label names a category and one of its subcategories; every report of the same
  money agrees; income belongs to one month;
* agent: a page walk misses no more than moved; the rate limit holds;
* backup: a restore takes effect, and what it replaced is in the snapshot it names; rotation removes only what
  newer backups stand in for.

## 2. Modules

| Module | What it is |
| --- | --- |
| `EmbeddingQueue` | the queue, its ledger-side hook, its commands and its environment |
| `JobLifecycle` | the abstract specification: what the documentation promises about one job |
| `MCEmbeddingQueue` | TLC instance (symmetry sets) |
| `EmbeddingQueueProofs` | its inductive invariants and theorems, those of commands left in peace, and the refinement of `JobLifecycle` |
| `Ingestion` | a run over the mailbox, its savepoints, the watermark, re-parsing, failures and kills |
| `MCIngestion` | TLC instance (`Shared`: the reference all readings carry, or none; symmetry) |
| `IngestionProofs` | its inductive invariants and theorems |
| `BackupRestore` | snapshots, rotation, archives and restores next to other connections to the file |
| `MCBackupRestore` | TLC instance |
| `BackupRestoreProofs` | its inductive invariant and theorems |
| `StatementVault` | statements from mail or upload to their matches in the ledger, with the requests that work on them |
| `StatementLifecycle` | the abstract specification: what the vault promises about a statement's readings |
| `MCStatementVault` | TLC instance: one locked, one plain, one broken PDF |
| `StatementVaultProofs` | its inductive invariants, its theorems and its refinement |
| `StatementChecks`, `MCStatementChecks` | the algorithms the vault calls: passwords tried, rows read, verdict |
| `StatementChecksProofs` | sums over a statement's lines, its invariant and theorem |
| `Ledger`, `MCLedger` | rows, postings, links, flags and rules, next to the reconciliation |
| `LedgerProofs` | its inductive invariants and theorems |
| `Taxonomy` | categories and subcategories, and the rows, rules and bills that name them |
| `Recurring` | subscriptions and bills; extends `Taxonomy` |
| `Reports` | what dashboard, analytics and agent report; extends `Recurring` |
| `Advice` | AI suggestions; extends `Taxonomy` |
| `AgentServer` | the MCP server; extends `Advice` and `Reports` |
| `Desk`, `MCDesk` | the five composed over one database, and their TLC instance |
| `DeskProofs` | the agent's server: inductive invariants and theorems |
| `RowProofs` | what rows name and what is reported of them: inductive invariant, sums, theorems; extends `DeskProofs` |

### 2.1 EmbeddingQueue

State. `ledger[t]` is the committed row of a transaction: whether it is absent, a real ledger row or
excluded (`not_a_transaction`), its composed text, and its data-issue flags. `jobs[t]` is its row of
`embedding_jobs`; `age` is the time since `updated_at` and `wait` the time until `next_attempt_at`, in
ticks. `vectors[t][r]` is the row of `transaction_embeddings` for model revision `r`, with the text it
was made of and, as a ghost, the model that really produced it (`by`). `edit` is a ledger flush between
its hook and its commit. `worker[w]` is one CLI command: the revision of the contract it fetched, the
claimed jobs still to do, the batch at hand, what it plans for each of its documents, and the rows of
the batch that have been deleted under it (`gone`).

Grain. A step is what one commit, or one reply of the service, makes visible. The writes of one SQLite
transaction are one step; what was read before its first write is an earlier one. So a flush is two
steps (hook, commit), an `index` command reads the ledger in one step and commits the enqueued jobs in
another, and a batch is: heartbeat and reads, the reply, the commit, and the backstop if that raised.
Heartbeat and reads are one step although a flush could fall between them: what it would change is
read later than the heartbeat anyway, and a deleted row raises in both.

Hook. `HookVerdict` is `enqueue_transaction_embedding` as the hook calls it (no contract: any stored
vector of the same content makes the job redundant). `CreateTransaction`, `EditTransaction`,
`Reclassify`, `OpenFlag`, `ResolveFlag` and `ReopenFlag` differ in the row they write and in what
`_effective_open_flag_ids` makes of the flags: a resolved flag takes its transaction out of the flagged
set whatever other flags it has, and a flag set back to open is dirty rather than new, so it is not
seen at all. `RenameCategory` changes texts without any hook.

Rows by id. `gone` and the verdict `"stale"` say that an ORM object outlived its row. Updating such an
object raises `StaleDataError` at flush and reading an expired one raises `ObjectDeletedError`;
deleting it only warns. A row inserted later for the same transaction is another row.

Failures. `unavailable` (transport, 5xx, 429, and unexpected exceptions) defers with exponential
backoff; `contract` fails the documents for good; `rejected` (4xx) falls back to one request per
document. A commit inside that loop (`_defer_jobs`, `_fail_jobs`) publishes the documents already
answered and expires the rest (`expired`).

Time. `Tick` passes only when every command is outside the claim-to-commit part of a run or inside a
call, and a call ends within `CallLimit` ticks, less than `StaleAfter`: five attempts of 35 s and four
pauses of at most 30 s stay below `stale_job_seconds` = 300. Local database steps take no time; the
claims that expire do so because of calls, not because of a slow disk.

Left out. Which jobs of the due ones a limit picks (the `created_at` order) is arbitrary. Two ledger
flushes do not overlap. Transactions are never deleted by the application, so the hook's deletion
branch has no action. Column-level dirtiness is not tracked: an UPDATE writes the columns the code
assigns. The compatibility key is one revision. `embedding_status` is a read-only report.

### 2.2 JobLifecycle

absent, pending, running, then done, deferred (pending) or failed; cancelled from anywhere; an outcome
only for a running job; done and failed jobs only re-enqueued. Sets of jobs move together because one
commit settles a batch. `EmbeddingQueue!LifecycleSpec` is its specification under the refinement
mapping `status <- jobs[t].status`.

### 2.3 Ingestion

State. `mail[m]` is the day a message reached the mailbox, `parser[m]` what the installed rules and
parsers make of it (skip it, fail on it, or a reading: the transaction whose fingerprint is stored),
`emails[m]` and `txs[m]` the committed e-mail row and transactions, `watermark` the day of
`sync_state["gmail.last_internal_date_ms"]`. `run` holds what a run has read and what it has written but
not committed.

Grain. `run_ingestion_pipeline` inserts its `ingestion_runs` row first and never commits: its caller
does (`api/deps.py`). So a run holds SQLite's write lock from start to end, runs exclude each other, and
one step per message is as fine as anybody can see. Each message has a savepoint: `FetchFails` and
`PersistFails` undo it, and differ in that a message which was fetched has been counted for the
watermark. `Begin` reads the watermark and lists; a run that fails to log in or to list changes nothing
modelled here and is no step. When the process is killed (`Crash`) the copies are dropped.

Windows. Gmail's `after:` is by day and the watermark is taken one day back (`Window`). A list is newest
first and cut at `max_messages` (`Cut`). `"after"` starts at a day the user gives, `"backfill"` and
`"reparse"` at `sync_after_date`, `"pick"` is a list of the reclassify scripts; the last two force
re-parsing. `Upgrade` installs other rules and parsers between runs.

Storing. `Stored` is `_persist_parsed`: the row with the same fingerprint, else the row with the same
reference, else, when forced, a row of the same message; only then a new row.

Left out. Statistics and status of a run, event rows, accounts, merchants and postings created on the
way, the lookback in days when neither a watermark nor `sync_after_date` exists, and Gmail's own query
semantics (which messages match at all).

### 2.4 BackupRestore

State. `file`, `logs` and `gen` are SQLite in WAL mode: the contents of the database file, of the log
linked next to it (`logs[gen]`), and of logs that were unlinked while in use (`logs[g]`, `g < gen`).
Contents are sets of committed writes. `conn` says which log each connection of another process uses:
`Writers` are sessions of commands or of the server, `Readers` the read-only connections the MCP server
keeps in a pool (`mcp/readonly_db.py` passes no `NullPool`, `db/session.py` does). `backups` are the files
of `data/backups` in the order of the timestamps in their names.

SQLite is external. Its part was taken from experiments with the calls the code makes (SQLite 3.40): a
commit goes to the log; the last writer to close copies its log into the file and removes the log by
path; a read-only connection does neither; a log unlinked while open lives on for those who have it
open, and the last of them may still copy it into the file.

Actions. `CreateBackup` is snapshot, verification and pruning; `CreateFails` leaves nothing or an empty
listed file. A restore is four steps: `StartRestore` (verify; an archive is also extracted),
`SafetySnapshot` or `SafetyFails` (which the code only logs), `Swap` (SQLite's backup into the live
file; the candidate may have been pruned by the safety snapshot, and connecting to it then creates an
empty database), `Unlink`. `Kill` ends it anywhere. `Quiet = {"window"}` assumes that nobody else acts
between verification and copy; connections stay open all the same.

Left out. Connections of the restoring process itself (they see I/O errors after the unlinking, and the
restored contents are lost as well), connections inside a read transaction during a checkpoint, uploads
that overwrite a listed backup, the statement files of an archive, the JSON export.

### 2.5 StatementVault

State. `stmt[i]` is the row of a statement: its source (attachment), content (by hash), account, status,
report, and whether it has been unlocked; `disk[i]` its files; `lines[i]` its extracted lines, each with
its match; `profile` the password profiles; `ledger` the transactions a line can stand for, from an alert
or from an import. `job[s]` is the request session `s` is in: where it is and what it has read so far.

Grain. A step lies between two commits of a request; what a request reads before its first write is an
earlier step. So discovery is list, download, store, next; upload is a store; a profile is saved,
committed, and then each locked statement of the account is tried in turn from a list that was read
before; extraction commits EXTRACTING, the lines, and the verdict, with parsing in between. Matching reads
lines and ledger in one step and writes in another. `Interrupt` ends a request anywhere, by a kill or by a
commit that finds the database busy; `LoseFile` is what `restore_archive` leaves (rows without files).

Failing extractions. What raises is caught and committed as EXTRACTION_FAILED, with whatever was written
by then: nothing when the PDF cannot be read (`ParserRaises`), some of the new lines in place of the earlier
ones, with or without the new report, or all of it when only the verdict was missing (`ExtractionRaises`).

Matches. `Matches` is every outcome `match_statement_transaction` may come to for a line and some entries:
no entry, one accepted, proposed or taken for a card payment, whichever purchase it stands for, since amounts,
dates and wording decide and these are not modelled; or a certain one, by a reference number both have. Each
matching is chosen anew, so that two runs over the same ledger may differ: more than the code does, which is
deterministic, and the properties hold all the same.

Contents. A PDF is broken, plain or locked with one password, and lists some purchases; what the validator
makes of it is a constant here (`ReadsAs`) and computed in `StatementChecks`.

Quiet. `"ingest"`: one request ingests at a time; `"statement"`: no two requests work on the same
statement, which includes that no two save the profile of one account, since each goes on to that
account's locked statements, and that an upload naming an account waits for the statement it stored;
`"lines"`: the user decides about a line while no request works on its statement. Each is what one user
at one browser does, and nothing in the code enforces it; section 3 says what fails without. A line is
known by its row: `FreshTag` gives a stored line a number that none has.

Left out. Which mails the discovery patterns match, the scores of a match, audit events, file names,
instalment plans and liabilities.

### 2.6 StatementLifecycle

Open, read, judged: nothing is read from an unopened statement, what is open stays open, and a verdict is
passed once on a reading that was begun. `StatementVault!Implements` is its specification with
`open <- unlocked`, `reading <- EXTRACTING`, `judged <- VALIDATED or REVIEW_REQUIRED`.

### 2.7 StatementChecks

`Tries` are the candidates of `password_engine` for an issuer, a profile and a preferred strategy, each at
its place: that of its strategy in `Order` (0 is the preferred one's) and that among what the strategy makes.
`Try` takes the first place not yet tried. `Rows` is what `axis_bank` makes of printed lines of which tables
and text lines are found or not (`tabled`, `plain`); a table tells the direction by its column, text by a word
(`named`). A row has the place of its line; those that were not found have none, and `Upto` adds up what is
there. `BankVerdict` and `CardVerdict` are the validator's checks with their levels. The bank is assumed to
print a truthful statement, and what is claimed of it is claimed when all four of its figures were found.
Of a card the claim is the equation the validator tests: Scapia's, or the standard one with fees, which is
tested only if something is due. `ReadingSound` is the conjunction of three claims about them; the passwords
are those of the issuer's strategies and the preferred one.

### 2.8 Ledger

State. `tx[t]` is a row's columns that matter here (amount, type, label, who set it, the flags
`excluded`, `duplicate`, `refund`, `transfer`); `posted[t]` the two sides of its event; `links` the
refund, transfer and duplicate links; `issues` the flags; `rules` the classification rules in order of
age; `runs[p]` what reconciliation `p` loaded. `said` and `taught` are histories: what the user said of a
row, and the last lesson about a merchant and name.

Grain. A request is one step: it reads and writes a few rows under SQLite's lock. A reconciliation
(the scheduler's, or a request's) reads every candidate before its first write and is two or three steps:
load, refunds, transfers. `Written` is SQLAlchemy's unit of work: a commit writes the columns that changed
since the row was loaded, and no others, so a stale row overwrites only what the run itself set. A row is
held as long as the routine's own lists do: the refund candidates are let go when `pair_refunds` returns.
A link that is already there fails on its unique constraint and the whole run is rolled back.

`TransferLinks` is the set of pairings the loop may come to: debits take their turn by date, in any order
on the same day (the query does not say), and each takes the earliest receipt that is left. A parser reads
`debit` or `credit`; a statement import writes `outflow` or `inflow` (`ConstantsAssumption`).

Histories. `said` ends with what the code is asked to forget (a re-parse, a label). `taught` is what the
user may expect of the next row. A rule serves every row of its merchant and every row of its name, so a
lesson from a row of another name of that merchant, or of none, changes what an earlier lesson said:
`Expecting` voids those keys, as editing or deleting the rule does.

Left out. The search for duplicate candidates (any pair may be merged, as the route allows), anomalies,
notes and tags, confidences and audit rows, merchants being merged.

### 2.9 Taxonomy, Recurring, Reports, Advice, AgentServer, Desk

`Taxonomy` has what the user does to categories, subcategories and rules, and every way a row is labelled:
by ingestion, the user, a rule or relabelling. A deletion that something still refers to fails on its
foreign key or reassigns, as the code does in each case. `strayed` is a ghost on a label that came apart
in one of the two ways named in section 3.

`Recurring` keeps the parent and its child apart, since an update reaches the parent only, and computes
both lists. `Reports` has each report as an operator over rows and categories, with the filter of the
file it comes from; dates are (year, month, day), amounts whole. A row may name nobody: the dashboard leaves
it out of its merchants and the deep dive does not, and a rule is looked for by name only where there is one.
`ReportsAgree` says what the reports' totals have to do with each other; the table of subcategories that the
agent is handed is not among them. `SubcategoriesTold` would claim it; it is false (section 3), and no run asks.

`Advice` is a question (`asking`: what was read before the call), the answer, and the table `ops`. A
cached answer is served while its context and its category are there.

`AgentServer` follows a call through the gate (a semaphore of one), a thread, the rate check, its
reads and its commit. A cancelled call frees the gate and its thread goes on (`orphan`). A walk asks for
page after page with the cursor of the last; a row's `Offset` is how many rows come before it, and `watch`
records what entered and left the listing meanwhile.

`Desk` is their composition: one of them moves, the others' variables stay.

## 3. Runs

| Run | Checks | Instance | Shows |
| --- | --- | --- | --- |
| `queue_race` | `TypeOK`, `RetryBudget`, `DoneHasVector`, `SearchCoherent` | 1 transaction, 2 texts, 2 revisions, 2 commands, every ledger operation, 3 edits, 1 upgrade, 1 fault | counters, statuses, vectors and search results stay consistent in every interleaving (1.1 million states) |
| `queue_exclusive` | `ClaimsExclusive`, `NoStranding`, `NoSilentDrift`, `IneligibleNotQueued`, `FailedStaysFailed` | 2 transactions in one batch, 2 commands, 4 edits between runs, 3 faults | the documented guarantees hold when each claim is one batch and the ledger changes only between runs |
| `queue_drains` | `LifecycleSpec`, `QueueDrains` | 2 transactions in two batches, created and flagged, 2 commands, 1 kill, 1 fault | the queue refines `JobLifecycle`; re-running `process` drains it, what a killed command held included |
| `queue_repairs` | `IndexRepairs` | 1 transaction, 2 texts, edits and renames, 2 commands, 1 kill, 1 fault | re-running `index` heals whatever races left behind |
| `ingest_sync` | `NothingSkipped`, `EveryMessageArrives` | 2 messages over 4 days, syncs, backfills and re-parses, 2 throttlings, 1 kill | throttling and kills never lose a message from the window, and syncing on brings each one in |
| `ingest_reparse` | `TypeOK`, `StoredOnce`, `EmailsMatchRows`, `ProcessedUntouched` | 2 messages, 2 readings with a shared reference, every kind of run, lists cut at 1, 1 failure of each kind, 1 kill, 2 upgrades | one transaction per message through re-parses; rows and statuses agree |
| `backup_rotation` | `TypeOK`, `RestoreTakesAlone`, `SafetyIsThePast`, `BackupsRetained` | 2 writes, 1 session, 1 pooled reader, 4 files with 2 retained, 1 restore, 1 fault, 1 kill | an undisturbed restore works, its safety snapshot is what it replaced, rotation is safe |
| `restore_undone` | `RestoreTakes` violated | 1 write, 1 session, 1 reader, 1 restore | the finding below |
| `vault` | `TypeOK`, `OneStatementPerSource`, `VerdictEvidenced`, `LockedIsLocked`, `DecisionsKept`, `Implements`, `SavedKeyOpens` | 2 sessions, 1 mail and 3 uploads (locked, plain, broken), 2 passwords, 2 statements, 1 referenced purchase in the locked one, 3 requests, 1 decision, 1 fault (426 000 states) | verdicts are evidenced, sources stored once, decisions kept; a saved password opens what waits; the vault implements its lifecycle |
| `checks` | `ReadingSound` | 3 issuers, small profiles, bank statements of up to 3 lines, every way tables, text and figures are found, card summaries (553 000 states) | a bank statement validated with all figures found was read right, a card's satisfies its equation; no password of the issuer's strategies or the preferred one is left untried |
| `ledger` | `TypeOK`, `EventsBalance`, `LinksCoherent`, `ExclusionsHold`, `RulesRemember` | 4 rows, 1 merchant, 2 labels, the scheduler, four stories (436 000 states) | events balance, nothing is paired twice, exclusions hold, rules are remembered |
| `desk` | `LabelsFit`, `ReportsAgree`, `IncomeOnce`, `WalkMisses`, `RateHolds` | 5 rows around the turn of a year, one of them nameless, 2 bills, 4 calls, ten stories (73 700 states) | labels fit, reports agree, income counts once, walks and the rate limit hold |

Why the bounds are enough. The races are between at most three parties on one row: a flush and two
commands; a third command only repeats what a second can do. Two texts are needed to tell a stale
vector from a current one, two revisions to mix models, two transactions to have a batch in which one
row disturbs another, batches of one to have a later batch whose lease runs out. `Ceiling = 2` makes
both branches of the backoff reachable with one fault and one rollback.

Ingestion: the watermark relates a message to at most one other (the newer one that moved it), and it
takes three days for a message to leave the one-day overlap. Two upgrades make a message parsed, failed
and parsed again. Backups: retaining 2 of 4 files lets a safety snapshot prune the candidate; one
restore already leaves connections on an unlinked log, and a second only repeats it (two restores with
five files were explored for 18 million states without a violation).

Vault: two statements are needed for a source stored twice and for a profile that opens one statement and
not another; two sessions for a request that reads before another writes; three requests for discovery,
then a profile, then a re-extraction or an unlock that meets them. One line suffices to tell lines read
once, twice or not at all; that another purchase's entry may be matched is left to the theorems, where lines
are any. Ledger and desk: a story is a budget of steps of each kind (`Budgets`), so that
rows, rules, flags, pairs and runs need not all multiply; within a story every order is explored. The
ledger's rows are chosen so that one credit is the refund and the transfer of the same debits, one row
has its merchant resolved and its twin has not, and one comes from a statement. The desk's dates put a
salary and a purchase on each side of New Year. Checks: three lines allow a loss in the middle and
losses that make up for one another.

`Quiet` names the assumption a run makes: `"upgrade"` that the model is not swapped while a command
runs, `"edit"` that the ledger is not edited while a command runs, `"window"` that nobody else acts
inside a restore, and those of `StatementVault` (2.5).

Fairness. `Progress`: time passes, a flush that began commits, and a started command takes its next
step; nothing forces an edit, a fault, a kill or an upgrade. `UserReruns` and `UserReindexes` say that
somebody keeps running the command: nothing schedules it (docs/EMBEDDINGS.md, section 4), so that is an
assumption about the user. Edits and faults are bounded, so "eventually" means once they have stopped.
Vault: `WF(Advance(s))`, a request that began goes on to its end; its calls (Gmail, PyMuPDF) return or raise.
That a request is made is no assumption: `SavedKeyOpens` starts from a profile being saved. Deadlock is
not checked where a behaviour really ends, because its requests or stories run out.
Ingestion: `WF(RunStep)`, a run in progress goes on (its loop has no waiting of its own but Gmail's
replies, which succeed or fail), and `WF(Begin("sync"))`, the user keeps syncing: the scheduler does not.

### Findings

`restore_undone`. The restored pages are in the write-ahead log as long as any other process has the
database open, and the restore unlinks that log ("so restored database starts clean", backup.py, line
301). It reports success; new sessions read the old ledger. If the other connection can write, the
restored contents come back over whatever was written since when it closes.

### Where the code and its documents part, without a run of its own

The properties named below are checked in a passing run under an assumption; each fails as said without it.

Queue, ingestion, backup:

* `_mark_done` does not look at what became of the row since its text was read. A flush that commits an
  edit during the inference re-arms the job, and the late commit marks it done: no vector of the current
  text, no queued job, until somebody runs `index`. The hook's header says job state "can never drift from
  the ledger": `NoSilentDrift` fails in `queue_exclusive` without `"edit"` in `Quiet`.
* `_heartbeat` refreshes the batch about to be processed and not the later ones of the same claim (`index`
  claims 10 000 jobs), so they become reclaimable after 300 s of work on the earlier ones, against "live
  work is never stolen": `ClaimsExclusive` fails with three transactions and batches of one.
* The heartbeat reads the ids of its batch outside the `try`. A job deleted by the hook raises out of the
  command and leaves its remaining jobs `running`, against "every claimed job is left in a controlled
  state": `NoStranding` fails without `"edit"` and
  with batches of one. They are reclaimed after the stale window (`QueueDrains`).
* Only throttled fetches hold the watermark back ("only when every discovered message was fetched",
  pipeline.py, line 775). Another failure is counted as a parsing error, and once the watermark is two days
  on no incremental sync lists the message again: `NothingSkipped` fails in `ingest_sync` with `"fetch"`
  among the `Faults`.
* Resolving one of two open flags queues a transaction that is still flagged (against docs/EMBEDDINGS.md,
  line 94): `IneligibleNotQueued` fails in `queue_exclusive` with `Issue = {i1, i2}`.
* A model swapped during a run stores vectors of the new model under the revision fetched before:
  `SearchCoherent` fails without `Quiet = {"upgrade"}`.
* A renamed category changes the text of its rows and queues nothing.
* The backstop of one command puts a job another command failed for good back to pending:
  `FailedStaysFailed` fails with `Ceiling = 3` and edits during runs.
* An edit that re-arms a running job, followed by the late commit of the first item, takes the job from pending
  to done, so `LifecycleSpec` fails as well once `queue_drains` allows edits: it only creates and flags.
* Without reference numbers, a message parsed, failed and parsed again by other parsers gets a second
  transaction: `StoredOnce` fails with `Shared = None`.
* A list cut at `max_messages`, or a run from a date the user gives, moves the watermark past messages that
  nobody has listed: `NothingSkipped` fails with `"after"` among the `Ops` or `MaxMessages = 1`.
* An ingestion run that failed on messages but extracted nothing is reported successful.
* The safety snapshot of a restore may prune the very backup being restored, which is then replaced by an
  empty database: `RestoreTakes` fails that way as well, without readers, at `Keep = 2`.
* A commit between the safety snapshot and the copy is in neither: `SafetyIsThePast` fails with `Quiet = {}`.
* A safety snapshot that fails is only logged, and the settings page then calls it "verified".

Statements (service.py and its neighbours in `statements`):

* Two saves of one account's profile try the same locked statements and reprocess them side by side
  (service.py:808), also when no two requests were started on one statement: `Implements` fails with three
  sessions unless `"statement"` excludes it.
* Two extractions of one statement at once store its lines twice (service.py:605), and a reconciliation
  overwrites what the user confirmed between its read and its commit (reconciliation.py:197):
  `VerdictEvidenced` fails without `"statement"`, `DecisionsKept` without `"lines"` in `Quiet`. A
  re-extraction loses the user's decisions; two lines may match one ledger row; an import has no
  guard against an entry that is there (against ARCHITECTURE.md, line 615).
* Re-extracting a locked statement makes it EXTRACTION_FAILED, and no saved profile opens it afterwards.
  A kill leaves EXTRACTING, which no batch picks up. DOWNLOAD_FAILED is never retried by itself.
* A manual unlock with `save_to_profile` replaces the whole configuration and does not try it on the other
  statements; an upload that names an unknown account is processed without a profile; a list read before
  the loop can set PASSWORD_FAILED on a statement opened meanwhile; two profile saves lose an update.
* A batch counts a failed re-extraction as validated (routes/statements.py:561);
  `unlocked_statements_count` is always 0 (service.py:828); the audit event of a failed unlock is rolled back.
* The validator's card equation ignores interest and refunds (ARCHITECTURE.md, line 604), "MAJOR_DIFFERENCE
  (do not import)" is not enforced, and card rows are never compared with the stated purchases: only no
  rows at all is noticed. Without the opening balance no running balance is checked, without totals two
  lost lines at the end that cancel pass: `BankSound` asks for all figures. Of a card other than
  Scapia's that is due nothing no equation is tested (validator.py:177), and `CardSound` claims none.
* The dashboard's merchants leave out rows that name nobody (dashboard.py:319), so they do not add up to the
  month's spending; the deep dive's do. `OverviewAgrees` adds them.

Ledger:

* One rule serves a merchant and a name, so a lesson about one printed name of a merchant relabels what was
  taught from another (rules.py:93). With a second name in the run and without the excuse in `Expecting`,
  `RulesRemember` fails.
* Imported lines get the directions `outflow` and `inflow` (emi.py:59, :108) where ARCHITECTURE.md, line 220
  says `debit` and `credit`; totals, refunds and transfers miss them.
* Unmarking a duplicate clears `excludes_from_spending` whatever else excluded the row
  (deduplication.py:221); unmarking a primary deletes the links while its duplicates stay excluded.
  Classifying an excluded row leaves its type `not_a_transaction` (transactions.py:284). Resolving a flag
  touches neither postings nor links (data_issues.py:233), and dismissing it later undoes nothing.
* A forced re-parse resets the user's exclusion and type and leaves the postings (pipeline.py:429): `said`
  is cleared there, and `EventsBalance` is about the event alone. An unlabelled event has one side.
* Two reconciliations with a row arriving between their reads can pair money twice: `LinksCoherent`
  fails with a second runner. Neither looks at `user_verified`.
* Of several rules for one payment address only the top one is consulted, and each classification appends
  another (rules.py:64, :113). `apply_to_past` records no correction (ARCHITECTURE.md, line 260). Merging
  merchants fails on a foreign key when a rule names the old one.

Labels, bills, reports, agent:

* PATCH of a rule with a category alone keeps the old subcategory (routes/rules.py:80); two sessions that
  label one row can mix their category and subcategory. Both are `strayed` in the model, and `LabelsFit`
  excuses nothing else.
* Renaming "Transfers" or "Income" changes the slug the filters ask for (categories.py:92). A category a
  correction, rule or bill names cannot be deleted, though the message says "reassign them first".
* An update of a subscription does not reach the amount and status that are listed (recurring.py:234);
  a frequency spelled "Yearly" costs twelve times as much in the application's list as in the agent's
  (recurring.py:65, mcp/service.py:566); the agent's burn counts ignored ones.
* The agent's deep dive of a category asks each subcategory for `period_spend` (mcp/service.py:281), which
  analytics/category.py:186 calls `spend`, so every subcategory is told as 0, where server.py:72 tells the
  agent that aggregate values are authoritative and docs/HERMES_INTEGRATION_GUIDE.md:190 promises the
  subcategories: `SubcategoriesTold` fails in `desk`, in the second state, with the first purchase under a
  subcategory. It reads one more key that analytics does not return (:291). Its merchant
  history has no upper date. `apply_to_past` through the agent always fails (:985), and the handler names
  `ErrorCode.INTERNAL_ERROR`, which does not exist (:1010). The agent's labels count as the user's.
* Paging by offset over a list that shrinks hides rows (`WalkMisses` bounds how many); an amount filter
  applied after the page was fetched ends the walk early (:487). A cancelled call commits late, and the
  rate limit is exceeded by one per cancelled call (`RateHolds` allows exactly that).
* A suggestion is checked against categories read before the call; it is cached under the model that
  answered, so the answer of a fallback is never served (ai/service.py:267); feedback judges only the
  latest open one.

## 4. Proofs

### 4.1 EmbeddingQueueProofs

It proves, for any sets of transactions, texts, revisions and commands, any ceiling,
limits and bounds:

* `TypeCorrect`, `HeldRowsAreThere`: the state is well formed, and every row a command holds exists;
* `BudgetKept`: a pending or running job has attempts left;
* `DoneIsEvidenced`: a done job has a stored vector.

None is inductive. The commit of a batch rewrites rows it read several steps ago, so its type depends on
those rows existing, which depends on every deletion being noticed by every holder (`HeldRowsExist`), on
the batch and the rest of the claim being disjoint, and on plans being about rows of the batch (`Sound`).
A job marked done without inference had a vector when it was read; that it still has one follows from
vectors never being deleted. `Inv` is the conjunction; there is one lemma per action, and two frame
lemmas (`CommandStep`, `LocalStep`) carry what an action does not touch.

Assumptions: `ConstantsAssumption` (ranges of the parameters), `NoneAssumption` (an absent row is not a
row), `BackoffAssumption` (powers of two are naturals; `^` has no axioms in the backends).

Seven more properties of the queue hold only when somebody keeps still. Each is proved under the weakest
conditions found, with any number of transactions, texts, revisions and commands:

* `SearchesOneModel` (`SearchCoherent`), assuming `"upgrade" \in Quiet`: no model is swapped under a running
  command. `SearchInv` says that a stored vector was made by the model it is filed under, that a command
  has the contract of the live one, and so have the answers it holds;
* assuming `OneBatch`: `ClaimsAreExclusive` (`ClaimsExclusive`), `FailureIsFinal` (`FailedStaysFailed`),
  `NothingStranded` (`NoStranding`, also without kills), `NothingDrifts` (`NoSilentDrift`, also without renamed
  categories);
* assuming `OneBatch` and `EligibilityKnown`: `IneligibleIsCancelled` (`IneligibleNotQueued`) and
  `LifecycleImplemented` (`LifecycleSpec`).

`OneBatch` is the undisturbed run: `process` claims what one batch takes, the ledger is not edited while a
command runs, and a batch is answered or fails as a whole. Each part is needed.
The second batch of a claim outlives the lease while the first is at the service, so another command takes
its jobs. The fallback to single documents commits in between. `index` and a flush re-arm jobs that a command
holds. A kill strands jobs. `EligibilityKnown` leaves out the two ways a flag escapes the hook, a flag
that is set back to open and a second flag next to a resolved one; a renamed category escapes it always.

Nothing in the code but the stale window keeps two commands apart, so `ClaimsExclusive` is about time:
`RunInv` says that what a command holds is running and no older than its call (`Leased`), which
`LeaseAssumption` (a call ends within less than the window) makes unclaimable for others; that the commands'
jobs are disjoint (`Apart`); that a plan fits the row and the vectors it was made from, and these have not
changed (`Informed`); and that a flush, being alone, commits with a verdict that still holds (`EditAlone`).
It follows that the commit of a lone batch finds every row it read and never raises. `RunsNext` then puts
every step into one of four kinds (`Effect`): it leaves the jobs alone, claims some, settles a batch, or is
the ledger's. The theorems and the refinement go through these kinds, not through the actions.

### 4.2 IngestionProofs

For any messages, readings, limits and bounds:

* `TypeCorrect`, `KeptTogether` (`EmailsMatchRows`), `ProcessedKept` (`ProcessedUntouched`);
* `OneTransaction` (`StoredOnce`), assuming `SharedReference`: all readings of messages share a reference;
* `NoMessageSkipped` (`NothingSkipped`), assuming `NoGaps`: throttling is the only way a message fails, no
  list is cut, and runs are syncs, backfills and re-parses.

The run works on copies that its commit publishes, so every property needs a counterpart about the
copies (`RunSound`, `OnceInRun`). The watermark needs two more: what is not in the copies is either still
in the list or was not in the mailbox when it was listed, hence not older than anything listed.
`NothingSkipped` fails outside `NoGaps`, and the list in section 3 says how.

### 4.3 BackupRestoreProofs

For any connections, limits and bounds:

* `TypeCorrect`, `InvariantHolds`;
* `RestoreWorksAlone` (`RestoreTakesAlone`): between copy and end others may connect, write and leave, so
  the copy has to be in the file and in whatever log they filled (`CopySound`); that an unlinked log is
  followed by an empty one, used by nobody yet, is `Generations`;
* `SafetySnapshotKept` (`SafetyIsThePast`), assuming `"window" \in Quiet`: the newest file is never pruned;
* `RotationIsSafe` (`BackupsRetained`): whichever snapshot rotates, what it takes leaves `Keep` newer backups
  behind. The count is of the files left, not of those looked at: the newest backup that goes still had
  `Keep` newer ones, and these stay (`PrunedLeaves`).

### 4.4 StatementVaultProofs

For any sessions, files, accounts, passwords and bounds, in two layers:

* whatever requests run at the same time (`Invariance`, `TypeCorrect`): the vault is well formed. `Inv` adds
  to the types that an opened or locked statement has a content (`RowsSound`), that a request knows only
  statements that are there and has what its next step uses (`JobsSound`), that a line's tag is its own
  (`LinesSound`), and that imports are finitely many, so that a new tag exists;
* when no two requests work on one statement (`"statement" \in Quiet`): `LockedStaysLocked`
  (`LockedIsLocked`), `VerdictsHaveEvidence` (`VerdictEvidenced`) and `Refinement` (`Implements`). The
  strengthening `InvApart` says that requests hold disjoint statements (`Apart`) and what each may rely on
  between two of its commits (`Phases`): between EXTRACTING and the verdict nobody moves the status, and the
  lines are those of the content, each once. An extraction that raises may leave some of them, without a verdict
  (`RaisedStatement`, `RaisedLines`); which matches the lines have is never used (`MatchingsType`). For the
  refinement every action is one of three kinds: it begins a reading, ends one, or writes nothing the
  lifecycle sees;
* with `"lines"` as well, `DecisionsSurvive` (`DecisionsKept`): a reconciliation writes the lines it read as
  they were (`ReadCurrent`);
* when one request ingests at a time, `OncePerSource` (`OneStatementPerSource`): a candidate on its way to
  being stored has no statement yet (`Novel`).

### 4.5 StatementChecksProofs

* `ReadingIsSound` (`ReadingSound`), for bank statements of any length and amounts whose rows are found and
  misread in any way, once all four figures are found; any card summaries, each with the equation its issuer's
  check tests; any profiles and passwords, as far as the issuer's strategies and the preferred one make them.
  `ChecksInv` says that the bank's balances follow from its lines (`LinesTrue`), and that nothing tried so far
  opens the file (`Attempting`). The totals come first: sums are defined by recursion, so what is said of them
  is proved of a least place where it fails (`Least`): they add up (`UptoAdds`), and a sum that has no more at
  any place and as much in all has as much at every place (`UptoPinches`). Rows from tables can only lack
  lines, hence each total pins its own. Rows from text may also take a deposit for a withdrawal; then only the
  two totals together pin the lines, and the running balance, which by then goes from each line to the next,
  the directions. For passwords, what is made at any place is made at a first place (`MadeIsCandidate`), and
  the places of the preferred strategy come before all others.

### 4.6 LedgerProofs

For any rows and readings of them, labels, names, merchants, reconciling parties and bounds:

* `TypeCorrect` (`TypeOK`), with `RunsSound`: what a run has loaded is there;
* `DoubleEntry` (`EventsBalance`): only mail brings an event, and mail is read as debit or credit;
* `ExclusionsKept` (`ExclusionsHold`): every word of the user leaves a mark on the row (`Stands`) that no
  rule, relabelling of past rows or stale commit takes away. That a reconciliation keeps it is `Marks`: of a
  row it loaded it only changes columns towards exclusion, and only a credit's row becomes a refund;
* `NothingPairedTwice` (`LinksCoherent`), assuming `OneRunner`: what a run has read as unpaired still is when
  it commits (`PairsOpen`), and one pairing is disjoint in itself, by the order of turns
  (`PairingDisjoint`). With two runners it fails (section 3);
* `RulesRemembered` (`RulesRemember`): a merchant and a name have at most one rule each (`OneEach`), and what
  was taught is decided by a rule that is on (`Remembers`), which then is the one `find_matching_rule` picks.

### 4.7 DeskProofs

* `RateLimitKept` (`RateHolds`), for any calls, limit and window. `RateInv` adds that a call which was not given
  up holds the gate while it runs (`GateHeld`), so that between its check and its stamp only calls given up
  can stamp; that each counted call of the last minute has a stamp of its own (`Stamped`, an injection), so
  that the check counts no fewer stamps than calls; and that who has passed the check still has room in
  every minute it falls in (`RoomLeft`).
* `WalksMissNoMore` (`WalkMisses`), for any listing, page size and number of pages. `WalkMisses` speaks of a
  walk that has ended; `WalkInv` says what holds on the way (`Accounted`): of the rows listed throughout, the
  unseen ones before the cursor are no more than have departed, and the repeats, with the seen rows still
  ahead of the cursor, no more than have arrived. The same holds of a page that was read and has yet to be
  told (`PageFits`), and there is at most one (`OnePage`). That steps of others keep it is `Pushed`: when a
  listing changes, no more of the rows that stay are pushed past an offset than have come before it, and, with
  the two listings exchanged, no more slip back than have gone. That a page keeps it is `PageOffsets` and
  `OneMore`: it is the rows from the cursor on, and the extra row fetched is there if any is.

### 4.8 RowProofs

* `LabelsStand` (`LabelsFit`), for any categories, rows, rules, bills, suggestions and calls. A label is checked
  before it is written, and an answer or a thread writes later. `LabelInv` adds that living categories have
  different slugs, that the subcategories a question read stood under their categories or are gone
  (`Stands`: an id is never used again, nor moved), that stored suggestions do, and that a thread of
  the agent has read a row. A row two sessions label at once is `strayed`, as section 3 says.
* `ReportsSayTheSame` (`ReportsAgree`), for any rows, named or not, and any months asked for. What it says of
  the agent is about totals; subcategories are told as 0. The reports are sums, and a sum of the library is
  defined by recursion, one chosen element after another. An induction is not to be had here, so each fact
  about sums is proved of a least part of the set for which it fails (`LeastPart`, from well-foundedness): the
  function summed with exists and is unique (`AdderExists`, `AdderIs`), the order of elements does not matter
  (`AnyFirst`), disjoint parts add up (`SumSplits`), and rows laid out by any key add up to those that have
  one (`TotalByKeys`; `NamesAddUp` for merchants, with the nameless rows beside them). The rest is which rows
  a report takes. Months lie in a row (`MonthsInARow`: shifting adds to their number, over any turn of the
  year), the months of a period are its buckets (`PeriodIs`), the two filters of spending take the same rows
  (`OneFilter`), and every report splits what it takes by category, subcategory, month, day or merchant.
  `OneFilter` and the breakdown by category hold because every row's label is there: of the inductive
  invariant they need `RowsFit`.
* `IncomeCountsOnce` (`IncomeOnce`): the month a credit pays for is its own or the next, a report of a month
  takes the credits whose month it is (`IncomeMonth`), and different months have different numbers.

Assumptions of both modules: `TaxonomyAssumption`, `RowAssumption`, `ReportsAssumption`, `AgentServerAssumption`
(finite ids, what was read and asked for is of its type; seeded categories have different slugs), and for the
walk `WalkAssumption` (no walk yet is not a walk).

### 4.9 Model-checked only

* Liveness: `QueueDrains`, `IndexRepairs`, `EveryMessageArrives`, `SavedKeyOpens`.
* `LifecycleSpec` beyond one batch: `queue_drains` checks it with claims of two batches, kills and flags.

## 5. Plan

Done: every module of section 2 with its runs, and theorems for every safety property but those of 4.9.
What is left is proofs:

1. `LifecycleSpec` under the conditions of `queue_drains`: claims of several batches, where a command may
   lose a job to another.

## 6. Not modelled

* Embedding text, vectors and wire format: formatting and float32 packing; texts and vectors are abstract.
* Gmail OAuth: one user, a pending authorization in the process, tokens in the keychain. Reading it showed
  that a refresh in flight during a disconnect stores tokens again, and that `clear_credentials` leaves the
  entry of the older keychain service.
* Bank alert and card statement parsers, PyMuPDF: regular expressions over text and page geometry, without
  state. Their outcome is a constant or a choice (`parser`, `ReadsAs`, `CardSheets`).
* Authentication and settings: a hash, a cookie and a cached object; nothing of it takes several steps.
* Onboarding, CLI, doctor, application shell: pages over settings rows and entry points. Commands that
  matter are actions of what they call.
* Within modelled components: insights and anomalies (wording over the same sums), bundling of
  instalments into liabilities, discovery patterns and account resolution, duplicate candidates, statistics
  and events of an ingestion run, uploads over a listed backup, the JSON export.
* The web UI, packaging, scripts.
