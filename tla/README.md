# dbgov-cli: a TLA+ verification project

dbgov-cli is a command-line tool that puts guardrails around changes of MySQL and
PostgreSQL databases: every command is classified by risk, authorized, executed and
audited. There is no server. Everything that is concurrent here is several
*invocations* of the same program that share files (the audit log, the outcome spool,
the context file, their lock files, the credential store), and the database that other
sessions change at the same time. These are the parts a unit test hardly reaches, and the
parts modelled here.

The project holds state-machine modules, their TLC instances, and theorems that TLAPS
checks for every value of the constants. `PROJECT.json` lists the runs, what each
definition translates (file and lines), a mutant for every property, the hazards, the
findings and the theorems.

## 1. Inventory

| Component | Source | State | Operations | Hard behaviour | Correct when |
|---|---|---|---|---|---|
| Mutation evidence | `cmd/mutation_audit.go` | append-only log, `<log>.outcome-spool/`, two lock files | begin (intent), finish (outcome), ordinary append, replay, quarantine, spool | appends that end in one of four ways, crashes, lock time-outs, a fallback outside the append lock, sequence numbers from a clock | an effect has an intent, a reported outcome is never lost, evidence never contradicts itself, replay is in order |
| Outcome accounting | `cmd/mutation_audit.go`, `internal/audit`, `internal/backend` | none | constructors of outcomes, `ValidMutationOutcome` | off by one, unknown commits | every outcome built is accepted, and says where the batch stopped |
| Governed schema execution | `cmd/schema.go`, `gitops.go`, `rollback.go` | plan, two collections, snapshot | apply, import, reconcile, rollback | table-by-table reads beside other sessions, stale plans, partial MySQL batches, commits of unknown effect | what executes was planned for the schema in the snapshot, and the outcome is honest |
| Schema diff | `internal/schema` | none | `Diff`, `PruneChanges` | order of statements, tables kept as text, foreign keys | an accepted plan leads to the desired schema, and executes where no foreign key stands against the order of names |
| Backends | `internal/backend/{mysql,postgres}` | a connection, a transaction | introspect, table DDL, render, `ExecDDL`, `ExecDMLBound`, query | partial execution, lost replies, aborted transactions | counts and errors tell what happened |
| Context control plane | `cmd/ctx*.go`, `internal/dbgovctx` | context file, its lock, credential store | set, import, use, delete, role set/unset, migrate-credentials, legacy upgrade | authorization by a policy read before the lock | every change is allowed by the policy in force when it happens; the current context exists |
| Audit prune | `cmd/audit_prune.go` | rotated logs | preview, authorize, delete | logs rotate meanwhile, policy changes meanwhile | only what was previewed is deleted, under a policy that cannot change |
| Data exec | `cmd/data.go` | one transaction | explain, authorize, explain again, execute | the plan changes after the authorization | what runs is what was authorized |
| Local file mutations | `cmd/local_mutation.go`, dump, export, install, snapshots | output directories, `snapshots/` beside the audit log | preflight, create directories, temporary file, rename, sync | failure in the middle, power loss, other invocations in the same tree | counts match files, what counts as written survives, no change without its snapshot |
| Authorization | `internal/safety`, `cmd/governance.go` | none | risk tiers, required flags | a plan that changes after it was authorized | nothing is dropped or cut without its flag and ticket |
| SQL classification | `internal/sqlclass` | none | kind of a DML statement, is it a read, is it one statement | keywords inside literals, names, comments, dollar quotes, in two dialects | what is written is what is classified |
| Redaction, audit query, telemetry, doctor, installer | the rest | none or own files | text and I/O | text | outside this project, see section 8 |

How they interact: a governed command reads (database or context file), plans, is
authorized, calls `beginMutationAudit`, performs its side effect, and calls one of the
`finish...MutationAudit` constructors. Mutation evidence serializes appends of all
invocations with the *path lock* and guards the spool with the *spool lock*, always in that
order. The control plane holds the *context lock* while it changes the file, and audit
prune holds it while it also takes the other two: the lock order is context lock, path
lock, spool lock, everywhere.

## 2. Modules

| Module | Models | Lines |
|---|---|---|
| `MutationAudit` | mutation evidence | state machine |
| `AuditEvidence` | what mutation evidence promises, without locks, files and failures | abstract specification |
| `OutcomeAccounting` | outcome constructors and predicate | operators, extended by the next four |
| `SchemaExecution` | planning, authorization, stable collection, snapshot, `ExecDDL`, outcome, rollback | state machine |
| `ContextControl` | context file, credentials, audit prune | state machine |
| `DataExec` | one governed DML statement, its retry, the backend close | state machine |
| `LocalWrites` | directories and files of dump, export, install and snapshots; rollback list | state machine |
| `SqlClass` | the SQL scanner, `ClassifyDML`, `HasMultipleStatements`; what statements mean and what may stand between their tokens | operators, and a generator of texts |
| `SqlReads` | whether a statement only reads (`IsReadOnly`), over the scanner of `SqlClass` | recursive operators |
| `MCMutationAudit`, `MCSchemaExecution`, `MCContextControl`, `MCDataExec`, `MCLocalWrites`, `MCSqlClass` | instances for TLC | constants |
| `MutationAuditProofs` | type correctness; intent before effect; reported outcomes are kept; `MutationAudit` implements `AuditEvidence`; outcomes agree; the queue fails closed; what may be logged is never queued; the orders of the log and of the queue | proofs |
| `AuditEvidenceProofs` | the abstract promise is sound | proofs |
| `OutcomeAccountingProofs` | validity and form of outcomes | proofs |
| `SchemaExecutionProofs` | the planner; snapshots, honest outcomes, losses and successes of governed schema execution | proofs |
| `ContextControlProofs` | governed changes, composed updates, credentials, outcomes | proofs |
| `DataExecProofs` | governed plans, honest outcomes, safe retries | proofs |
| `LocalWritesProofs` | durable files, honest counts, listed changes | proofs |
| `SqlClassProofs` | changes are classified as written, with any noise in them | proofs |

`SchemaExecutionProofs`, `ContextControlProofs`, `DataExecProofs` and `LocalWritesProofs` extend
`OutcomeAccountingProofs`; `MCSqlClass` extends `SqlReads`, which extends `SqlClass`.
A proof module that proves several invariants one on top of the other has a section for each.

### MutationAudit

One process is one invocation. A *mutator* runs begin, the side effect, finish; a *reader*
runs a command that only emits an ordinary audit event through `appendQueuedAuditEvent`.
`pathLock` and `spoolLock` are the two lock files, `log` the audit log, `spool` the
directory entries (`temp` is `*.json.tmp`, `indeterminate` the quarantined `.indeterminate`).
A process identifier stands for the random `mutationId`.

An action covers the code between two points where another process or a crash can come
in: `AcquirePathLock`, `OpenQueue` (verify, lock and list the spool), `ReplayAppend`,
`RemoveReplayed`, `MarkIndeterminate`, `CloseQueue`, `AppendCommitted`, `AppendUncertain`,
`AppendNotCommitted`, `Mutate`, `StampFallback`, `WriteTemp`, `CommitSpool`, and for what
goes wrong `PathLockFails`, `QueueFails`, `SpoolFails`, `Crash`.

* An append ends in one of the states of the audit library: committed, committed with an
  error (`CommittedPostCommitError` and a committed record with an error are treated
  alike by the code, and are one case here), not committed, indeterminate (the record
  is or is not in the log).
* A crash is the death of the process. The operating system frees its locks; files written
  stay. Loss of power, after which unsynced data could vanish, is not modelled.
* Time-outs of locks and all I/O errors are failures, and spend one of `MaxFaults`.
* `clock` counts the calls of `now()` that stamp records. The number in a spool file's name
  comes from another reading of the clock, which here is *any* number up to `MaxSeq`:
  clocks may step back, and may stand before 1970.
* `report` is what the caller is told: `ok`; `incomplete` (the outcome is safely queued);
  `lost` (spooling failed too); `uncertain` (the record may be in the log); `refused`;
  `warned` (a reader's event was dropped).

### AuditEvidence and the refinement

The abstract specification knows four things: what is `recorded`, what is `owed` (kept for
replay), how each mutation ended (`effect`), and whose caller was told that the answer is kept
(`promised`). Its steps are `Announce`, `Perform`, `Record`, `Owe`, `Replay`, `Retire`; it has
no processes. The mapping at the end of `MutationAudit` reads them off the log, the spool
without its `*.tmp` files, and the reports; a record is reduced to whose it is and what it
says, so that duplicates and the order of the log disappear. `ImplementsEvidence` then says that
no crash, time-out, quarantine or uncertain append makes a step the promise does not
allow: an answer is owed until it is recorded, a mutation is not performed after it was
answered for as skipped, and two answers never differ.

### OutcomeAccounting

`finishBatchMutationAudit`, `finishDDLMutationAudit`, `finishSkippedMutationAudit`,
`finishMutationAuditProgress` and the outcome of `data exec`, as functions from (items,
done, error) to an outcome record, and `ValidMutationOutcome`, which refuses one. `Unset`
is the empty string.

### SchemaExecution

One process is one `schema apply`, `import` (also `reconcile` without `--prune`),
`prune` (`reconcile --prune`) or `rollback`. A table is a function from columns to what is said of
them: a type, and a detail (nothing more; a NOT NULL, DEFAULT or key; or a foreign key to a column
of another table, by `References`).
Each database read is a step: one for the introspection, one per table for its DDL
(`schemaAndDDLFromTableDDL`). Runs go `Introspect`, (`ReadTableDDL`*, `PlanFromDDL`),
`Begin`, `FirstIntrospection`, `ReadTableDDL`*, `SecondIntrospection`, `ReadTableDDL`*,
`TakeSnapshot`, then the statements, then `Finish`. `ForeignDDL` is another session.

* On MySQL every statement commits by itself and its reply may be lost, so that the
  statement counted as failed took effect. On PostgreSQL the statements run inside a
  transaction that locks the tables it touched, and the commit may fail with an unknown
  effect.
* Opacity is a matter of each table, as in `ParseSchemaDDL`: import, reconcile and rollback keep
  the text of a table with any detail as it is, on both sides (`OpaqueText` of the server's text,
  `raw` of the desired one). On MySQL every text the server gives is such a text, since it names an
  engine or quotes a default. They accept two such tables only when they are the same, refuse any
  other change of one, and create one only as the single change of a plan (`Unsupported`). Apply reads
  names and types by introspection and never sees a detail. `RenderDDL` of MySQL refuses `MODIFY COLUMN`.
* The server knows foreign keys (`KeysAllow`): the column a key refers to must be there, is not
  dropped and keeps its type, and its table is not dropped while another refers to it. `Diff` and
  `PruneChanges` know nothing of this and order tables by their names. A plan that drops a table
  before its referrer fails at that statement, on MySQL after the ones before it took effect; so
  does the creation of a table whose foreign key finds nothing. (Creations cannot be in the wrong
  order among themselves: a table with a foreign key is opaque text, and is created alone.)
  `PlanReachesDesired` therefore says three things: every statement finds what it speaks of (`Fits`),
  the last leads to exactly the `Goal`, and all are accepted by the server *when no key stands
  against that order* (`InKeyOrder`). What happens otherwise is the business of `OutcomeHonest` and
  `EveryIntentAccounted`: the refusal is counted as the failed statement, exactly where it came.
* Of foreign keys are not modelled: a table that refers to itself, the unique key the referenced
  columns need, keys of several columns, and ON DELETE actions. An equal type is not required where
  a key is made. A column with a key keeps its type on both servers here, which refuses more than
  they do.
* Not modelled of the tables: their rows (a conversion of a type that the data refuses, a NOT NULL
  column that rows lack), auto-increment columns, and what the parsers refuse for its form.
  A success of apply speaks of columns and types only, for it compares nothing else.
* `Begin` merges rendering, dry run, authorization and the intent: none of them reads the
  database, and each can only end the run. The authorization is part of it: the risk of
  the plan (`RiskOf`, `OverallRisk`, `LeastRisk`), one tier more in a protected context
  (`EffectiveRisk`), a ticket from R2 on, and the flags the plan needs (`RequiredFlags`).
  `grant` is what the caller gave. Import without `reconcile` and reconcile without `--prune`
  are one command here: they plan alike.
* `work` is what the open transaction of a PostgreSQL run made of the tables it touched, and has
  locked; `TransactionView` lays it over the committed schema, and the commit makes it the schema.
* A rollback can go back to a fixed schema or to the snapshot another run of the instance took
  (`Load`), whenever that is.
* `hidden` are the tables with structure a snapshot cannot hold (indexes of other kinds,
  triggers, policies, views and the rest of `validateTableDDLFeatures`), which other sessions
  add and drop (`ForeignStructure`); reading the DDL of such a table ends the run. On MySQL
  triggers are not looked for, which the repository documents; there `hidden` is what
  `validateOpaqueMySQLDDL` refuses, another storage engine for example.
* `drift` counts changes by others while a run collects its state. Two collections that
  agree can be fooled only when the old state comes back: `SnapshotIsPastState` holds up
  to two such changes and fails with three, which TLC confirmed; the bound in the
  property is exact. The changelog promises that *detectable* drift stops the run.
* The queries of one introspection (columns, indexes, foreign keys) are one read, and so are
  those of one PostgreSQL table's DDL; changes between them are not modelled.

### ContextControl

One process is one control-plane command. It reads the file without a lock and is
authorized by what it finds (`Authorize`), upgrades a legacy file (`ReadLegacy`, `Truncate`,
`WriteUpgraded`: `os.WriteFile` truncates, then writes), takes the lock and reads again
(`LockAndLoad`), compares the policy and stores credentials (`Verify`), and replaces the
file (`Save`). Audit prune runs `Preview`, `Authorize`, `LockAndLoad`, `VerifyPrune`,
`PruneRotatedFiles`, with the lock held to the end; `Rotate` is another command's append.

* The policy of a context is its roles: at risk R3 an operator needs the role admin where
  any role is assigned. Everything else that authorization looks at (tickets, flags) may
  deny any command at any time, so `Authorize` can always end it.
* Governing contexts are the code's: the target's own policy, the current context's for a
  new target and for `use`, those of all candidates for a migration.
* Intent and outcome are recorded as in `MutationAudit`; here only the outcome is kept.
* External: the store of opskit-core (reads, replaces), the lock, the credential backend,
  `PruneRotatedFiles`. The store is taken to refuse a file without an apiVersion, hence a
  truncated or a legacy one. A save may replace
  the file by renaming, so that a writer that had it open writes to the old one
  (`detached`), or may not; both happen in the model.
* `superseded` remembers the holders of the lock under whom a late upgrade of a legacy file put
  back an older policy. `PolicyImmutable` excludes what they did after that, and nothing else.
* A deletion that fails part-way leaves the oldest logs deleted; a crash in the middle of
  it is not split further.
* `preview` is what prune saw before its authorization. Under the lock it lists the logs again and
  stops unless the candidates are the same (`Expected`, `cmd/audit_prune.go:132`);
  `PrunesAsPreviewed` says what that is for. Only `--keep-last` is modelled: with `--before` a log
  becomes a candidate by its age, and time is not in the model.

### DataExec

One process is a caller that wants one statement executed, and runs `data exec` for it:
`Explain`, `Authorize`, `BindPlan` (begin the serializable transaction, explain again,
compare), `Execute`, `Commit`, `Finish` (outcome and output), `Close`. `current` is the plan
EXPLAIN would answer now; another session (`ForeignChange`) and every commit may move it.

* The error messages are part of what is checked. A caller may `Retry` unless the message
  advises against it: "do not retry automatically" (`internal/backend/backend.go:155`, a
  commit of unknown effect), "Do not retry blindly" (`cmd/mutation_audit.go:942`, `957`),
  "Do not retry the mutation" (`cmd/governance.go:100`, a close that failed). `RetrySafe` says
  that such a caller never applies its statement twice, so the advice covers every failure
  after the commit. One is left out: a caller whose output broke off (`cmd/data.go:158`)
  received no message, and is taken not to retry blindly.
* Tables are transactional. On a MySQL table without transactions, which data exec does not
  look for, a rollback would undo nothing.
* Authorization is the part of opskit-core's decision that depends on the plan and the
  request: confirmation, a ticket from R2 on, the flag for a missing WHERE, one tier more in
  a protected context. Roles are in `ContextControl`.
* A process that dies leaves its transaction to the server, which rolls it back.

### LocalWrites

*Writers* are dump, export and install: they preflight all targets, record the intent, create
the directory and write one file per item. *Savers* are schema mutations that save their
snapshot before they execute. *Viewers* are rollback and rollback list. All share a tree of
directories in which `snapshots` is reserved.

* `files` is what a path shows, `firm` what it shows after a power loss at worst; the same for
  `dirs` and `firmDirs`. A sync of a file is part of `Commit`, a sync of a directory (`Synced`)
  makes the names in it firm. `PowerLoss` keeps any part of what is not firm.
* `MakeDirectory` and `SyncParent` are two steps, because another invocation can use the
  directory in between; it is then not the one that syncs its name. `betrayed` remembers who
  lost a file that way, and the properties leave those files out. The window is that of
  `ensureMutationAuditParent`, which syncs the parent only of a directory it made itself.
* `CreateTemp`, `Commit`, `Settle` are `writePrivateLocalFile`: a temporary file in the target
  directory, then write, sync and rename, then verification and sync of the directory. Only after
  that the item counts. Writers replace a file, Savers never do.
* `Chain` is the path from a directory up to `Home`, as the smallest set that holds the directory
  and with each directory its parent. Before the runs of an instance start there is no snapshot, a
  request's files lie below its root, and there are at most as many as an outcome can count:
  `beginMutationAudit` refuses more.
* An `alien` file is anything the checks refuse: a link, a directory, another owner or mode.
* Systems that keep less than POSIX's `fsync` promises, and Windows, where directories are not
  synced, are outside the model.

### SqlClass and SqlReads

A text is a sequence of symbols: words, quotes, comment marks, parentheses, semicolons, white
space. The operators are the scanner's functions over it (`SkipQuoted`, `SkipDollarQuote`,
`SkipComment`, `TopLevelWords`, ...). A loop of the code is a `Walk`: the states it goes through
by a step function, until it leaves the text or stays where it is; `Step` is what the loops over
a statement do with one lexical element (`Past`) and with the depth of parentheses, and each loop
says which states end it. The state machine starts from a statement whose meaning is known
(its kind, whether it has a WHERE, how many statements it is, the dialects in which it is certain to
only read, `reads`, and which of its names it writes in quotes, `written`), and `AddNoise` puts literals, quoted names, comments, dollar quotes or parenthesised expressions where
the grammar of the servers allows them.

* `TextAssumption` says what the statements and the noise are, without the scanner: `Means`
  relates a statement's symbols to its kind and its WHERE; `IsQuoted`, `IsDollarQuoted`,
  `IsLineComment`, `IsBlockComment` and `IsExpression` are what the servers take for one literal, one
  comment or one expression, of any length. `Uncertain` noise is what depends on the settings of
  the server; the classifier may refuse it, and may not misread it.
* `SqlReads` is a module of its own because its operators are recursive (a WITH in a WITH, an
  EXPLAIN of an EXPLAIN), so that no theorem can be stated about them; the scanner below them is.
* `IsUnsafeElement` is the case analysis of `hasUnsafeReadConstruct`: lock clauses, `:=`, `U&"..."`,
  `NEXT VALUE FOR` and `.nextval`, empty quoted names, and calls. `IsUnsafeFunctionCall` follows
  the names that dots join (`Names`), quoted or not, to a parenthesis; PostgreSQL's functions must be
  called in `pg_catalog`, MySQL's without a qualification. `OnlyAfter` and `OnlyBefore` are the words
  that are syntax only behind certain words or before certain parentheses.
* The known functions (`count`) and the syntax words are long lists in the code, represented by
  members: one for every rule that treats a word differently. The same holds for `describe`
  (`desc`), `verbose` (`extended`, `partitions`), `any` (`some`) and `=` (the comparison operators).
* Words are atomic. The scanner's `topLevelWords` reads `where` out of a variable's name such as
  `@where` (and out of `$where` where no dollar quote opens), since `@` and `$` start no identifier
  (`sqlclass.go:604-649`, `1304`). No text here contains such a name, and neither `DMLReadAsWritten`
  nor its theorem says anything about one. A deployment that relies on the flag for a missing WHERE
  should know this.
* Not modelled: letter case (words are folded), identifiers with digits or dollar signs, the limit
  of 64 on nesting (far above any text of the instance), the strict dialect of an unknown engine,
  which refuses everything.

## 3. Runs

| Run | Instance | States | Shows |
|---|---|---|---|
| `audit_safety` | 2 mutators, 1 reader, 4 failures, sequences 1..3 | 475 614 | all safety of the evidence, and the refinement |
| `audit_queue` | 3 mutators, 3 failures | 1.7 million | replay in queue order, duplicates adjacent |
| `audit_live` | 2 mutators, 1 reader, 2 failures, fair | 117 000 | everyone returns; the queue recovers |
| `audit_doc_order` | 2 failures | violation | an intent overtakes a queued outcome |
| `audit_doc_orphan` | 2 failures | violation | an intent nothing answers |
| `schema_mysql` | 1 run of 26 requests, 2 tables, 2 columns, 2 types, details, 3 foreign changes, 1 failure | 1 209 282 | snapshot, plan binding, honest counts |
| `schema_postgres` | 2 runs, rollback to each other's snapshot, 3 initial schemas, 2 with foreign keys, 1 foreign change, 1 failure, symmetric | 1 534 489 | plan correctness, honest outcomes, meaning of success, flags |
| `control_update` | 3 commands out of one of every kind, 2 contexts, 2 operators, current and legacy files, 1 failure, symmetric | 1 669 000 | policy, credentials, current context, prune |
| `control_doc_update` | a legacy file, 2 commands out of 8 | violation | an update is lost by the upgrade |
| `data_exec` | 2 callers with 2 runs each, 3 requests, 3 plans, 1 foreign change, 2 failures | 498 582 | what runs was authorized; no retry applies twice |
| `local_writes` | 1 writer of 3 requests, 2 savers, 1 viewer, 3 directories, 2 failures, symmetric | 967 138 | files survive, counts are honest, changes are listed |
| `sql_class` | 45 statements, 2 dialects, 2 insertions into 21 of them and 1 into 24, out of 16 or 17 each | 315 221 | hidden text changes no classification; only what was written as a read is one |

Why the bounds suffice. In the evidence, one process queues an outcome, another fails while
it replays, and a third sees the result: three processes make all roles meet, and four
failures let each of append, fallback, spooling and replay fail once in one behaviour.
Two outcomes in the queue and a third process to replay them need three mutators.
Three sequence numbers order three entries, and reach the exhausted sequence. In schema
execution every run starts from two tables with up to two columns each, which other sessions
and the runs themselves drop and create: that gives every kind of statement, batches of up to
three, and a collection that mixes two schemas; three foreign changes reach one more than
the two the property tolerates. On PostgreSQL the instance also starts from
two tables of which the second refers to the first, and from the opposite order, so that a prune meets
a foreign key with and against the order of names, and opaque tables beside parsed ones. Two runs are a run and its rollback, or a plan and the change
that made it stale. The requests come with every flag and with too few of them. In the control
plane two operators and two contexts give a current and another context with different admins;
two commands are a stale authorization and the change that made it stale, and a third is the late
upgrade of a legacy file that undoes what the second wrote; one failure is a store that fails or a
process that dies between the two stores. In `data_exec` the plans differ from each
other in the fingerprint alone and in the rows on both sides of the threshold, and two runs and
two failures suffice for a retry after each failure of the first run. In `local_writes` a failure
or crash followed by a power loss is two failures; two savers share the directory that one of
them makes; the writer's requests are two files, one of them in a subdirectory, the reserved directory
and two tables whose names fold to one path, over nothing and over an older file. In `sql_class` two insertions are a quote inside
another's reach, or two comments around a word; a third would repeat one of them at a distance,
and the scanner keeps no state but the depth of parentheses. The 24 statements that are there for one
rule of `IsReadOnly` each take one insertion, between any two tokens: such a rule relates neighbouring
tokens, and what stands between two of them is one insertion.

Deadlock is checked in every run; `AllExited`, `AllEnded` are the intended ends.

Fairness. `audit_live` assumes weak fairness of the normal steps of each invocation:
the operating system schedules every process, and the lock library's wait ends when the
holder lets go. Failures are never fair: no progress relies on one. Because a
waiting process may time out in the code, `EveryoneReturns` is checked without relying
on time-outs.

## 4. Properties

Evidence: `IntentBeforeEffect`, `OutcomeNotLost`, `OutcomesAgree`, `DuplicatesAdjacent`,
`StampOrder`, `ReplayInQueueOrder`, `NeverQueuesLogged`, `FailsClosed`,
`QueueDrainedFirst`, `ImplementsEvidence`, and under fairness `EveryoneReturns`, `QueueRecovers`.
Schema execution: `SnapshotIsPastState`, `PlanMatchesSnapshot`, `OutcomeHonest`,
`EveryIntentAccounted`, `PlanReachesDesired`, `SuccessMeansDesired`, `LossesGranted`.
Control plane: `CurrentExists`, `UpdatesCompose`, `GovernedChange`,
`PolicyImmutable`, `PrunesAsPreviewed`, `CredentialsResolve`, `OutcomeHonest`.
Data exec: `GovernedPlan`, `OutcomeHonest`, `RetrySafe`.
Local files: `FilesSurvive`, `ProgressHonest`, `EveryChangeListed`.
SQL: `DMLReadAsWritten`, `ReadsAreReads`. Each is stated in words above its
definition, and each has a mutant of the modelled code that breaks it.

Some of them tolerate something, and say how much. `SnapshotIsPastState` and what rests on it hold
up to two changes by others during the collection. `UpdatesCompose` lets the unlocked upgrade of
a legacy file put back the copy it read, which is disagreement 3; `GovernedChange` excludes what the
invocations did under whose lock that happened (`superseded`), and `PolicyImmutable` that upgrade itself;
what `UpdatesCompose` excludes beside that is
a half-upgraded file taken for an empty one, a lost update between two locked commands and
a command that writes what it did not read. `FilesSurvive` and `EveryChangeListed` leave out the
files of `betrayed` invocations. `PlanReachesDesired` promises that a plan can be executed only
where no foreign key stands against the order of the names.

## 5. Disagreements between the code and what it says

1. `README.md:252` of the repository: "Retryable queued outcomes replay in order before the
   next intent". An outcome that `finishMutationAudit` spools in its fallback, outside the
   path lock, can enter the queue after another invocation drained it and before that
   invocation's intent is appended. What does hold is `QueueDrainedFirst`: an outcome
   spooled under the path lock is never overtaken.
2. The same paragraph promises a correlated outcome for the intent of every mutation. When
   the path lock cannot be released after the intent is committed, the mutation is
   refused and the intent stays without an outcome; on the neighbouring error path the
   code spools a "skipped" outcome for exactly this purpose.
3. `internal/dbgovctx/context.go:140`: "Update applies a locked read-modify-write
   operation". The upgrade of a legacy file that precedes it is not locked, and undoes an
   update another invocation makes in between. With three invocations the same
   upgrade also breaks the comment of `WithLockedRead` (lines 103-104, "keeps that policy
   immutable for the callback"). Between commands that hold the lock nothing is
   lost: `control_update` checks `UpdatesCompose` on both versions of the file, and `PolicyImmutable`;
   `UpdateIsLocked` proves the comment for files that never had the legacy version.

## 6. Theorems

TLAPS proves, for every set of invocations, every `MaxSeq` and every number of failures:

* `TypeCorrect` (`Spec => []TypeOK`). `TypeOK` is not inductive: a process in the fallback
  must have executed its mutation, or its record would have no status. `TypeInv` adds this.
* `IntentPrecedesEffect` (`Spec => []IntentBeforeEffect`). The strengthening `IntentInv`
  says that an invocation past its begin has its intent in the log, and that the drafts
  and spool entries that claim an execution belong to such an invocation, so that whatever
  is appended from the spool has its intent before it. The log only grows (`AppendKeeps`).
* `ReportedOutcomesKept` (`Spec => []OutcomeNotLost`), the central promise. A committed
  spool entry leaves the spool only in `RemoveReplayed`, and there its record is in the log.
  That needs, and `DeliveryInv` states: whoever changes the spool holds its lock
  (`LockInv`); sequence numbers are unique, so that *the* next entry in the queue is the one
  that was appended (`SeqUnique`); what a process drafts is its own outcome (`DraftInv`); the
  file to be renamed is still there (`TempInv`); the removed entry is logged (`RemovingInv`);
  what was reported is held (`ReportInv`). The uniqueness rests on `NextSequenceInRange`,
  the lemma about `nextMutationSpoolSequence`.
* `EvidenceImplemented` (`Spec => ImplementsEvidence`): initial states map to initial states, and
  every action to one of `Announce`, `Perform`, `Record`, `Owe`, `Replay`, `Retire` or a stutter.
  `ReplayAppend` is `Replay`, `RemoveReplayed` and `MarkIndeterminate` are `Retire` or nothing,
  `AppendCommitted` is `Announce` or `Record`, `CommitSpool` is `Owe`. The invariant it needs,
  `EvidenceInv`, adds to the above: who may be where (`RoleInv`), what a record in the spool or on
  its way there says (`VerdictInv`), that a process still to announce has no answer anywhere
  (`FreshInv`), and that nothing in the queue was answered for otherwise (`QueueClean`).
* `PromiseIsSound` (`AuditEvidence!Spec => []EvidenceSound`), of the abstract specification alone.
  Soundness of the whole thing follows from the two without another look at the locks.
* `OutcomesNeverContradict` (`Spec => []OutcomesAgree`). On top of `EvidenceInv`, `AgreeInv` says
  that every outcome in the log or the spool carries the verdict of its mutation.
* `QueueFailsClosed` (`Spec => FailsClosed`). A quarantine happens under both locks, so that no
  process stands between its own replay and its own append at that moment (`PathInv`, `OwnClean`):
  whoever comes later sees the entry and stops.
* `LoggedNeverQueued` (`Spec => NeverQueuesLogged`). Only an invocation that drafts an outcome
  writes to the spool, and `FreshInv` says that nobody has answered for it before.
* `StampsInOrder` (`Spec => []StampOrder`). `StampOrder` speaks of the log alone, and an outcome may
  be stamped long before it is appended. `StampInv` therefore relates the log, the queue, the draft
  and the clock: the queue is in the order of its stamps (`QueueStamps`), the log is older than the
  queue (`LogFirst`), the draft of whoever holds the path lock is the latest of all (`LatestInv`),
  and nothing is stamped in the future (`PastInv`). Outcomes marked late are left out throughout,
  and `InsideInv` says that whatever is spooled without the path lock is marked so. The clock is
  the counter of the model: a system clock that steps back is not covered.
* `NothingOvertakes` (`Spec => QueueDrainedFirst`). After the queue was drained under the path lock
  only late outcomes can enter it before that lock is released (`OwnLate`).
* `ReplayedInOrder` (`Spec => []ReplayInQueueOrder`). `QueueInv` adds that the temporary file of a
  live process is the last entry of the queue (`TempLast`), that only what an ended invocation left
  is in it (`QueuedEnded`), that entries are numbered in the order in which they were queued
  (`SpoolInOrder`), and that what was queued stays in the queue or in the log (`QueuedKept`).
* `DuplicatesStayAdjacent` (`Spec => []DuplicatesAdjacent`). An outcome can be both in the log and in
  the queue only between its append and the removal of its file. `DuplicateInv` says that it is then
  the last record of the log (`RetryLast`), and that whoever goes on to append in its own name left
  no such record queued (`OwnFresh`).

About the accounting, for every batch size up to `MaxCount` and every error:
`DDLOutcomeValid`, `SkippedOutcomeValid`, `DataExecOutcomeValid` (the audit log accepts what
the constructors build, so no outcome is dropped as malformed) and
`DDLOutcomeLocatesFailure` (from the counts a reader can tell which statement failed).
`ProgressForm` and `CompletedForm` say what an outcome is made of, and serve the four state machines.

About governed schema execution, for any number of runs, tables, columns and changes by others:

* `SnapshotIsReal` (`[]SnapshotIsPastState`), `PlanIsBound` (`[]PlanMatchesSnapshot`). Two
  collections are read table by table while others change the schema.
  `SnapshotInv` follows what each table has been since the first introspection, by how many foreign
  changes happened meanwhile: with none the parts are one schema, with one there are two schemas the
  parts can stem from, and with two the second introspection ties them together.
* `SchemaTypeCorrect` (`[]TypeOK`), `SchemaOutcomeTrue` (`[]OutcomeHonest`), `SchemaIntentsAccounted`
  (`EveryIntentAccounted`). `ExecutionInv` relates the counter of `ExecDDL` to the statements that
  took effect: equal on PostgreSQL, and one more on MySQL when a reply was lost.
* `LossesAreGranted` (`LossesGranted`). `LossInv` adds that transactions lock disjoint tables, and
  that whatever a transaction took from a table was taken by a statement of its plan (`Traced`), so
  that the commit of the whole is covered by the flags of the plan.
* `SuccessIsReal` (`SuccessMeansDesired`). `SuccessInv` says that the schema an undisturbed run is
  working on is the one its plan leads to after as many statements (`Underway`), and that a rollback
  works on the snapshot its source saved, which nobody replaces.

* `PlansReachDesired` (`[]PlanReachesDesired`): in what `Diff` and `PruneChanges` plan and the planner
  accepts, every statement finds what it speaks of and the last leads to the schema that was asked
  for, for all tables, columns, types, details and foreign keys; and the server accepts each of them
  if `InKeyOrder` says that none is refused by a key of the schema the plan starts from, less the
  tables dropped before. That this is enough needs an argument, since the statements before may change which
  keys there are: a plan of several statements creates no key, for a text with one is created alone
  (`NothingRefers`), so that the keys on its way are those it started with (`KeptAlong`), less the
  dropped ones (`KeysFollow`). The lemma of the first half is `PlanSound`, and the theorems of the
  two bullets before and of `ExecutionInv` rest on it too: it also says that an outcome can count the statements (`ExecutionAssumption` bounds tables
  and columns so that it can) and that nothing else in a plan touches a table it drops.
  A plan `Leads` from one schema to another when there is a path of schemas between them, each
  made by the next statement from the one before; paths are written down in closed form (what
  the table has after `i` statements, by the first `i` columns of the sorted list) and joined
  (`LeadsOn`), so that only two facts need induction: that the recursive function `Course` follows
  the path (`CourseIsPath`), and that a finite set of numbers can be listed in increasing order
  (`SortedList`). Both are proved by the least number with a property (`LeastNumber`), since the
  library's induction theorems take an operator.

About the control plane, for any number of invocations, contexts, operators and passwords:

* `ControlTypeCorrect`, `CurrentContextExists`, `ChangesGoverned` (`GovernedChange`),
  `PrunePolicyKept` (`PolicyImmutable`), `PrunesWhatWasSeen` (`PrunesAsPreviewed`), `NoUpdateLost` (`UpdatesCompose`), all from `ControlInv`: who
  holds the lock has read what the file holds, unless a late upgrade replaced it (`superseded`), and
  what it saves is what the policy it compared allows. The first attempt at `PolicyImmutable` failed
  for a third invocation that TLC had not been given: an upgrade that read the file before the
  change and writes after it. The history variable and the larger instance come from there.
* `UpdateIsLocked`: with no legacy file, `LockedReadModifyWrite`, which `control_doc_update` refutes
  for legacy files.
* `ControlOutcomesHonest` (`OutcomeHonest`), for the counts of migrations and prunes as well.
* `ReferencesResolve` (`CredentialsResolve`), by `CredentialInv`: every reference in the file, or in
  the hands of whoever is to write it, is the password it was saved for, except between the two
  stores. The hypothesis `NoForeignReference` says that nobody imports a document with a reference
  that this store never issued; import accepts one unless a password comes with it
  (`cmd/ctx_portable.go:203-207`), and then there is nothing to resolve it to.

About data exec, for any number of callers, plans and retries: `DataTypeCorrect`, `EffectGoverned`
(`GovernedPlan`), `DataOutcomeTrue` (`OutcomeHonest`), `RetriesSafe` (`RetrySafe`), from `DataInv`, which
relates what a caller was told to whether its transaction committed.

About local files, for any tree of directories and any requests:

* `FilesAreDurable` (`[]FilesSurvive`), `CountsAreHonest` (`[]ProgressHonest`), `ChangesAreListed`
  (`[]EveryChangeListed`), `LocalTypeCorrect`, all from `FilesInv`. `Account` relates attempts, counts
  and files put in place; `Shown` says what a path can show at all (a snapshot is whole from the
  start, and nothing else the tool writes appears in its directory); `Held` says that a counted
  item is there and synced, and that every directory above it that its own invocation made is
  synced; `Course` says that an invocation owes at most one sync, of the directory it made last. A
  power loss then takes a counted item only with a directory somebody else made. `Chains` (the path
  of a directory contains the paths of those on it) replaces any induction over the tree.

The assumptions are those named `...Assumption` in the modules, which TLC evaluates in the runs, and
the hypotheses above. The proofs made several of them explicit: that snapshot names are not
names of dumped files, that invocations are of one kind each, that a request's files are below
its root.

About SQL text, for both dialects, any statements, any noise of any length and any amount of it:

* `StatementsReadAsWritten` (`[]DMLReadAsWritten`). The inductive invariant is `NoiseInv`: the
  tokens of the text are those of the statement in their order, with noise woven between
  (`Weaves`), and behind a semicolon only comments (`NoiseInit`, `NoiseStep`); the property
  follows from it in every state (`TextWoven`, `NoiseRead`). That part is about the scanner alone:
  a walk ends and visits what it should, because each step either moves on or stays for good
  (`WalkEnds`, `WalkVisits`, from `WalkDefined`: the recursive function in `Walk` exists, by the
  least number without it); a quote, a dollar quote or a comment is left exactly behind its last
  symbol, by the doubled quotes and the nesting that its definition allows; so every harmless
  token is crossed from its first symbol to the space behind it, at the same depth, and meets no
  semicolon, nothing refused and no keyword outside parentheses on the way (`Crosses`). Uncertain
  noise is crossed or ends the scan with a refusal. Token by token the walk then arrives at the
  places of the statement's own symbols (`Places`), with the depth they have in the statement, and
  what decides the classification (semicolons, what stands behind them, the words outside
  parentheses) is what the statement has.
  TLC checks up to two insertions into 45 statements; the theorem has no bound on either, and rests on
  `TextAssumption`. Its converse half says that nothing harmless makes data exec refuse.

Only model-checked: the liveness properties `EveryoneReturns` and `QueueRecovers` (out of the
prover's reach), and `ReadsAreReads` (`SqlReads` is recursive over the text, which TLAPS cannot expand).

## 7. What the models leave out

Contents of records, fingerprints, JSON and YAML, permissions and ownership of files (any
failed verification is a failure), printing, exit codes, telemetry. The audit library
(opskit-core) is taken at its interface: its four append results, its lock files, its
store, its pruning. The window between the snapshot and the first statement is not closed by
the code, and the models let other sessions change the schema there; properties about
success exclude such runs explicitly (`disturbed`). The parsers of CREATE TABLE text, the check
that a snapshot belongs to the connected target, ticket patterns, dry runs and the reading of
input files are left out: they are sequential, keep no state, and end the command or do not.

## 8. Plan

The launcher's download and replacement of the binary, and `IsReadOnly` without recursive operators,
so that `ReadsAreReads` can be proved over the lemmas of `SqlClassProofs`.

Not modelled, and not planned: printing and diagnostics, telemetry, redaction and fingerprints
(pure text), the query of the audit log and the verification of its chain (opskit-core), the fake
backend (a test double), Windows access-control lists. `query` and `explain` have no state of
their own: what they share with the rest is in `SqlReads` (what counts as a read) and in
`MutationAudit` (the reader that only emits an event).
