# db-cluster in TLA+

db-cluster keeps four kinds of truth in four stores (canonical entities, source artifacts,
a search index, an append-only ledger) and lets nobody write to them except through a kernel
that turns every mutation into a command with a lifecycle, a provenance event and a receipt.
This directory holds TLA+ models of that machinery, the TLC configurations that check them and
TLAPS proofs about them. Paths below are relative to the repository's source (`kernel/...` is
`src/kernel/...`, the TypeScript of the package).

## 1. Inventory

| part | code | state | operations | talks to |
|---|---|---|---|---|
| Kernel | `kernel/cluster-kernel.ts`, `commands.ts`, `provenance.ts`, `receipts.ts` | none of its own but the staging area `pending-content/<sha256>` | propose, validate, approve, reject, commit, compensate; direct create, ingest, link, rebuild; status, find, explain and trace reads | all four stores, the queue |
| Command queue | `kernel/command-queue.ts` | `pending-commands.json` and its marker file | save, update, get, list | file system |
| Canonical store | `adapters/local`, `sqlite`, `postgres` | entities with version numbers | create, update, get, list, import | files, SQL |
| Artifact store | `adapters/local`, `sqlite` | metadata and content files | ingest, get, getContent, import | files, SQL |
| Index store | `adapters/local`, `sqlite` | index records, derived | index, remove, search, replaceAll | files, SQL |
| Ledger store | `adapters/local`, `sqlite` | events and receipts, two hash chains; archives; `rotate.inprogress` | append, appendReceipt, list, trace, rotate, import, recovery at construction | files, SQL |
| Policy layer | `policy/*`, `kernel/policy-enforced-kernel.ts` | rules, trust zones, visibility | evaluate, redact; wraps every kernel verb and read | kernel |
| Operations | `ops/backup.ts`, `verify.ts`, `doctor.ts`, `rebuild.ts`, `integrity-checks.ts` | the backup file | backup, restore, verify, doctor, rebuild | stores, queue, staging area |
| Reading | `provenance/trace-builder.ts`, `retrieval/retrieval-planner.ts`, `resolver/`, `indexing/*` | none | trace, retrieve, resolve, rank | stores |
| Edges | `mcp/server.ts`, `sdk/`, `cli.ts`, `dashboard/`, `integrations/` | approval gate of the MCP server, operator guard of the CLI, auto-snapshots | call the kernel or the policed kernel | kernel, operations |

How they interact. Every caller holds a kernel object and calls async methods; there is no lock.
JavaScript runs a method up to its next `await`, so two calls in flight interleave exactly at
awaits. The local and sqlite adapters do their work synchronously inside an async method; the
Postgres store really suspends. Two processes over one data directory share only files and
databases, and the kernel asks its callers for one writing process (`kernel/cluster-kernel.ts:80-83`).

What is hard: a commit is one status check followed by up to six awaits (read, store write, index
write, event, command save, receipt) with no transaction around them; any of them may throw and the
process may die between any two; the same command may be committed, rejected or compensated meanwhile.
The index is written by separate awaits after the store it is derived from, and rebuilt from lists
read earlier. The ledger appends in place and rotates two files without a transaction; its recovery
runs at the next start, over whatever a dead process left. A policy is asked about a command or an object before
an await and the answer used after it. A backup reads one store after the other; a restore may die
half way and run again.

What makes each part correct:

* kernel: no executed command without its event, no receipt without an executed command, at most one
  receipt per command, a missing receipt always noted, no write to a store that nothing explains,
  lineage of updates that can be walked, the lifecycle law of `validTransitions()`;
* stores: what a call acknowledged survives, a version is never overwritten, an import never replaces,
  content is on disk before the metadata that names it;
* ledger: acknowledged records survive, the chains hold, a rotation is all or nothing, the store opens again;
* index: exact while nothing disturbed it, otherwise an image of history, and its staleness found by the reports;
* policy: every write was permitted for the command that was written, a gated commit was approved,
  what reads show agrees across surfaces and tells nothing of what is hidden;
* backup and restore: what is restored has the health of what was backed up, and nothing refused is silent;
* trace and retrieval: bounded walks that miss nothing inside the bound, bundles no older than their request;
* command line: exit codes that say what happened, a snapshot before what is destroyed, nobody's own proposal approved unasked.

`PROJECT.json` lists every part with what is modelled of it, and under `hazards` the places
where this code can go wrong in ways a test would hardly reach.

## 2. Modules

| module | what it is |
|---|---|
| `CommandLaw` | abstract: one variable, the status of each command, moved only along `validTransitions()` (`kernel/commands.ts`), entering as proposed or, synthetic and compensating commands, as committed |
| `ClusterKernel` | detailed: kernel, queue, staging area, canonical and artifact stores and ledger of one process, one action per stretch between two awaits; `Law == INSTANCE CommandLaw` with the identity mapping on `status` |
| `Walking` | a depth-first walk with a visited set and a depth limit, and what lies within so many steps, in a form proofs can expand |
| `ProvenanceTrace` | `trace-builder.ts` as operators on what the stores hold: the trace as that walk, `why`, `traceBundle`, the resolver, and the closure that the walk is meant to compute |
| `KernelTraces` | what those traces show of a cluster that `ClusterKernel` wrote |
| `MCClusterKernel` | extends `KernelTraces`: the symmetry sets of the small instances |
| `ClusterKernelProofs` | TLAPS: the kernel's invariants in full generality; what holds for a caller that awaits each call, and the refinement of `CommandLaw` |
| `SqliteLedger` | abstract: a ledger store whose append and rotation are transactions, which is what `sqlite-ledger-store.ts` is |
| `LocalLedger` | detailed: `LocalLedgerStore` file operation by file operation, shown to implement `SqliteLedger` |
| `LocalLedgerProofs` | TLAPS: the local ledger's invariants, over crashes and recoveries, that it implements `SqliteLedger`, and what that promises |
| `StoreContract` | abstract: what the interfaces of `contracts/` promise of the canonical, artifact and index stores |
| `StoreState`, `LocalStores`, `SqliteStores`, `PostgresStores`, `SharedStores` | detailed: the state of the backends, the calls of each, their composition, shown to implement `StoreContract` |
| `SharedStoresProofs` | TLAPS: that they do, and that bytes precede metadata |
| `PolicyEngine` | `policy/policy-engine.ts` as operators, and the reference `Permits` |
| `PolicedKernel` | several principals over one cluster through `PolicyEnforcedKernel`, the SDK or the MCP server; `Law` instantiates `CommandLaw` |
| `MCPolicedKernel` | the configurations of the run: default rules and variations, boot environments |
| `PolicedKernelProofs` | TLAPS: the engine meets its reference; the policed kernel's invariants |
| `Picking` | filters and sorts of numbered things, as the ledger and the index use them, in a form proofs can expand |
| `IndexSync`, `IndexTraces`, `MCIndexSync` | the index beside its stores: writers, two rebuilds, retrievals and reports, step by step; what traces and reports say of it |
| `PickingProofs`, `IndexSyncProofs` | TLAPS: what a filter or a sort returns, what a walk visits and what a trace shows; what the index, the bundles and the staleness reports promise |
| `HealthChecks` | `verify()`, `doctor()` and the ledger checks as functions of a cluster |
| `BackupRestore`, `MCBackupRestore` | `ops/backup.ts` beside commits, over two clusters |
| `BackupInvariants` | the inductive invariants of those proofs and what they are made of |
| `BackupRestoreProofs` | TLAPS: what a backup file holds, what a restore lets in, that restores converge |
| `CommandScripts` | the subcommands of `cli.ts`, each as the steps it takes |
| `CommandLine`, `MCCommandLine` | those subcommands run from terminals over one cluster |
| `CommandLineProofs` | TLAPS: the separation of duties, the snapshot and the exit codes, for any terminals and operators |

Every operator named `Name_What` is a plausible slip of the operator `Name` (a dropped guard, a swapped
order) kept next to it; section 3 says what they are for.

### ClusterKernel

| variables | code |
|---|---|
| `status`, `verb`, `target`, `valid` | a record of the command queue: status, verb, what the payload refers to, whether `validateCommand` accepts it |
| `pending` | the hashes that have a file in `pending-content/` |
| `version`, `artifacts` | canonical and artifact store: latest version per entity, existing artifacts |
| `events`, `receipts` | the ledger, as its reads return it |
| `pc`, `op`, `cmd`, `previous`, `parent`, `wrote`, `event` | the locals of a running method: where it awaits and what it has read |
| `landed` | ghost: the call's store write has taken effect |
| `stderr` | calls whose orphan record could only be printed |

`proposeMutation`, `validateMutation`, `approveMutation` and `rejectMutation` read and save
without an await in between and are one step each. `commitMutation` begins with the status check
(`commitMutation`, `commitUpdate`, `commitIngest`, `commitUnknownVerb` by the arm of its switch), then
`ReadParent` (updates), the store write (`CreateInStore`, `UpdateInStore`, `IngestInStore`,
`LinkEvidence`, `Reindex`), `IndexRecord`, `RecordEvent`, `SaveCommitted` (which saves
the command as it was *read*, then appends the receipt) and, on failure of one of the last three,
`recordOrphanMutation`. The direct verbs run the same steps under a synthetic command. `compensateMutation`
saves two commands and an event in one stretch, then the receipt. A throw is an action of
its own next to the one it replaces (`MutateThrows`, `CreateThrowsLate` and its siblings for the local
stores, which change memory before they write the file, `LinkThrows`, `RecordThrows`, `SaveThrows`,
`CompensateThrows`); `Crash` and `CrashInCompensate` kill the process, also between two
synchronous writes of one step.

Abstractions: an entity is its version number, a content its hash, an index write only its
success or failure (what it puts into the index is in `IndexSync`); payloads are the references the verb needs (`TargetsOf`). The entity a call
creates is named after the call, and so are `randomUUID` ids: fresh. Every call is
one-shot, so a retry is a second call of the same command.

### ProvenanceTrace and KernelTraces

`traceFrom` of `Walking` is one call of `TraceBuilder`'s recursion: depth first, a visited set, a depth limit. The calls still to be made are a stack (`todo`), so that the
recursion is a function of the number of calls made; there is one call for the start and at most one for each place a visited object leads to (`Calling`), which ends it. `VisitsOf` is the walk of one trace, `GraphOf` what its visits add up to, `Answer` what `why()` reads off it. `traceEntity` to
`traceReceipt` are its five arms, a `Visit` the nodes, edges and gaps one arm adds and where it goes on.
`Closure` says what such a trace is meant to hold without the order of the walk. `KernelTraces` reads a graph off
the kernel's state (`EventRecord`, `AffectedIds`: what the commit writes into events and receipts) and asks for
traces where a call may start. A forward trace looks at the first `IndexLimit` records of the index
(100 in the code). Left out: labels, timestamps, the texts of warnings. The ids of index records and commands in a receipt lead to no node. The kernel's
instances reach graphs of at most two links; the index part of the traces is looked at in `IndexTraces`.
`resolve` and `resolveAll` are the resolver: which URI there is something for.

### LocalLedger and SqliteLedger

`file` holds the lines of the two active files, `cut` says which last line has no newline, `array` which
file is still in the legacy format, `archived` the archives, `marker` and `moved` the
file `rotate.inprogress` and the archives it names, `mem` the arrays in memory. A record is its
id (also its timestamp) and the id its `prevHash` commits to. `Pick` (of `Picking`) is the filter of the recovery and of the
rotation: the lines whose position satisfies a condition, in order. All methods are synchronous up to
their end, so the only concurrency is the death of the process: one action is one file operation, `Crash`
may fall between any two, `CrashInAppend` inside one. `Open`, `DedupStep`, `ClearAfterRecovery`,
`Load`/`LoadCorrupt`, `RepairTail`/`RepairThrows` and `Audit` are the constructor; `Rotate`,
`WriteArchive`, `WriteMarker`, `Swap`, `FinishRotate` and `RotateThrows` are `rotate`. A constructor
that throws in the middle of its recovery is a `Crash` for the files. What is killed is the process,
not the machine: what a write call has handed to the system stays.

The code does not take care of some failures; a file that met one is in the ghost set `damaged` and
the properties speak of the others: an append or a tail repair that threw in a process that goes
on, an append cut exactly before its newline (the next one joins its line), a write to a legacy file, a
rotation whose *second* rename threw (its catch restores memory and removes the marker, but
not the first rename, although the comment says "the store is left exactly as it was pre-rotation").

`SqliteLedger` is the other ledger store and the abstract specification of both: `append` is a transaction that reads the tail and inserts,
`rotate` one that moves the old rows of both tables. The header of `sqlite-ledger-store.ts` calls it what "the
local store's filesystem marker dance emulated"; `ImplementsSqlite` says it does. Refinement mapping: a
rotation happens at the instant the first of its files is cut (`CutBegun`), by `rotate` or by the recovery of a
later start; from then on what is to move counts as archived although the other file still has it. Everything
before and after (archives, marker, second rename, dedup, repair) is a stutter, every append that reached the
file whole is an `append` whether it was acknowledged or not. A step after which a file is damaged is excluded, nothing else.

### Stores: StoreContract and SharedStores

`StoreContract` says what a caller may rely on: what a read returns (`seen`), what a restart finds (`kept`), and
how a call may end: done, nothing done, or done only in memory; a call that throws may be any of these. Versions
and artifacts are only added and numbered in order, an update merges on the latest version, an import never replaces and reports a conflict, a read of content
returns the bytes of its hash or an error. It promises the same of every backend. Three operators at its end are no part of it: `StaleUpdate`, `SilentImport` and
`StaleIngest` are what a step does that breaks it. `Lapses` of `SharedStores` says where the code takes one: an update of Postgres, only if the call's own
`get()` was overtaken; an import into Postgres; an ingest of SQLite, only if the call's own count was overtaken. `ImplementsContract` allows these three and nothing
else, so a second way of losing a patch, or the same way on another backend, violates it. `PostgresIsIdentical` allows none under Postgres, as its header and the interface
say, and is violated.

`SharedStores` composes `LocalStores` (maps that are loaded at the start and written back whole, each to its
file; a write that throws leaves the map ahead; one process), `SqliteStores` (statements and deferred transactions
of several processes, whose first write throws when somebody committed since their snapshot; opening and
migrating) and `PostgresStores` (one statement at a time, never a transaction; answers that are lost). A call is one
action, or two where another process can come between its statements (`call` remembers the first half);
`Stop` ends or kills a process, `Alter` changes stored bytes. Refinement mapping of `Contract`: `seen` is the map
of the process that holds the local stores and the tables otherwise, `kept` is the files or tables.
Abstractions: an entity version is its fields, an index record its source; order, filters, limits and offsets of
lists, embeddings and the migrations and teardown of Postgres are left out; random ids are chosen when they are written.

### PolicyEngine and PolicedKernel

`evaluatePolicy` derives the store from the URI, keeps the policies that match (a field that a policy constrains
and the request leaves out matches a deny and not an allow), takes the first of the sort and applies the trust zone; `checkVisibility` is the
first visibility rule that matches. `Permits` is the reference: some applicable allow ranks above every applicable deny.

| variables | code |
|---|---|
| `setting` | what the constructors were given: policies, zones, visibility, principals, surfaces, the MCP gate |
| `queue`, `truth`, `indexed` | the base kernel, as far as policies can tell: commands with status, verb, store and kind; URIs held; sources with an index record |
| `session` | the commit or compensation a session is in |
| `approved`, `writes` | ghosts: commands ever approved; what was written and by whom |

A read is an operator, since what it asks about does not change under it: `inspectEntity`, `getEntityVersion`,
the version lists, `findSources`, `findPage`, `retrieveBundle`, `inspectCommand` and `listCommands`, with the redaction of each path
and the sanitizers of the SDK and of the MCP server. The calls that write are actions, split at the awaits others
can tell apart: `CallCommit` (the server's gate), `CommitMutation` (the policy check with the command's own store and
verb, then the status), `StoreWrite`, `SaveCommitted`; `CompensateMutation`, `SaveCompensation`; the lifecycle verbs
and the direct verbs in one step. Not modelled of `PolicyEnforcedKernel`: `listReceipts`, `explainIndex`, `listStaleRecords`,
`indexStatus`, `explainRetrieval` and the policed traces, which filter other record shapes the same way.

### IndexSync

A record of the index is `[id, src, text, meta]`; its id is a random UUID, a number that nobody holds (`FreshIds`). A writer (`CreateEntity`, `UpdateEntity`, `IngestArtifact`) changes its store, then goes on in
steps: `SearchStale` and `RemoveStale` one record at a time (an update's refresh), `IndexImage`, `RecordEvent`. The
two rebuilds list entities, list artifacts, read contents (`rebuildIndex` only) and `SwapIndex`. A retrieval plans, resolves each source,
lists its events and assesses freshness. `listStaleRecords`, `explainIndex`, `missingFromIndex`, `possiblyStale` and
`orphanRecords` are the reports. A search is for a substring of the text or of the JSON of the metadata, case ignored (`Matches`): which string contains which are the
constants `InText` and `InMeta`, of which no more is assumed than that each text contains itself, so that two texts may contain each other. Three limits cut what is looked at, each a constant:
`PageLimit` (a retrieval shows 20 candidates unless asked otherwise; BM25 decides which, so any may come first), `ReportLimit` (`listStaleRecords` looks at 100000 records), `IndexLimit` (a trace at
100). `checkStale` asks for an entity's text with limit 1 and looks whether that hit is the entity's (`missingFromIndex`). Faults: a store write that throws after the map changed, a restart from the file,
a damaged blob. The ghost `calm` is TRUE while nothing disturbed the index: no two writers of one source overlapped, no rebuild
overlapped a writer, no write threw or was cut short; `cut` holds the sources with a write that threw or was killed between its store and its event, `pending` of a
shown object counts the writers that stood there when its events were read. `IndexTraces` puts the stores together for the traces (`Stores`). At most one retrieval at a time.

### HealthChecks and BackupRestore

Two clusters: `home`, with commits in flight, and a `copy` that starts empty. A commit is a number: the id
of what it creates, of its event and of its receipt. `BackupEntities` to `BackupContents` read one store per step, queue and staging area with the
last; `file` is the list of items in the order in which `restore()` handles them, one step each
(`RestoreEntity` ... `RestoreStaging`), with the conflict check (`assertContentMatch`) and the hash check of imported
records. A restore may be killed and run again, into either cluster; the file may be edited between two runs; blobs
may be damaged or lost. `verify` and `doctor` are the verdicts of the two commands, the worst of the checks of `HealthChecks`.
Abstractions: statuses are approved and committed, no compensation; `mutation_orphaned` events come only from a failed
receipt; an index record is there or not; other crashes of a commit are `ClusterKernel`'s; the chain is unkeyed, so
a forgery stamped anew is nothing a check could see and left out; a `queue.save` that throws inside a restore and
the reachability probes are not modelled; one backup is taken. The variable `options` is what the caller gives backup and restore: a queue and a data directory, as the operations offer it, or neither, as
the command line calls them (`cli.ts:2517`, `2569`); it is chosen once (`Options`). `RestoreIndex` is the call of `rebuildIndex` behind the last artifact: it leaves an artifact out whose bytes are damaged, and it may fail to
stage some (`rebuildIndex_Fails`) or to swap at all; it returns its errors and `restore()` drops them (`backup.ts:563-565`), so that only the observer `unindexed` knows.

### CommandScripts and CommandLine

`CommandScripts` gives each subcommand as the sequence of steps its action takes, each with the capability a policed
kernel asks; `CommandLine` has an action per step. `shell` is the process at each terminal with what it has still to
do and remembers, `setting` the policies file and the backend, `queue`, `truth`, `receipts` and `index` the cluster, `file`
the backup file. `Walk(status)` is `commit`'s walk through the lifecycle, `checkSelfApproval` and `Acknowledged` the separation of
duties that only the CLI has, `Confirm`, `takeAutoSnapshot` the wrapper of destructive commands (the prompt may take long, and the snapshot may fail), `typedErrorToExitCode` and
`healthExit` the exit codes. `Subcommands` is all that can be typed. A command's id is a random UUID that `propose` prints when it is done, so no other
invocation holds it before (`InHand`): the guard's look at an unknown id cannot be overtaken by the proposal of that very id.
The look is an `inspectCommand(...).catch(() => null)`: where policies refuse it, and also where the read just fails, the guard sees a command that nobody proposed (`LookOutcomes`, `Seen`); `looked` remembers which. A rebuild of the index,
alone or inside a restore, may leave any of it out (`Reindexed`) and its caller exit with 0 all the same. A kernel call is one step that keeps the lifecycle law and ends in one of the ways `ClusterKernel` shows. Steps of two
processes interleave, except that invocations which write to the owner stores exclude each other (the kernel's documented condition), from their start or, if they ask first, from the answer to their prompt (`Holds`); `Kill` falls between
any two steps, `KillRestore` inside a restore. The verdict of `verify` and `doctor` is any (the checks are in `HealthChecks`); the policies file,
the backend and its database URL are fixed per behaviour; printing, completion and the search for the cluster directory are left out.

## 3. Runs

| run | instance | checks | result |
|---|---|---|---|
| `kernel_sequential` | 2 commands, 2 calls, 1 content, 1 entity and artifact from an earlier session; calls awaited one by one; canonical, artifact, index and ledger may throw; crashes | `TypeOK`, `CommittedHasEvent`, `AtMostOneReceipt`, `PreviousIsDisplaced`, `LineageIsChain`, `LinkIsTraceable`, `LawSpec` | holds, 2.0 million states |
| `kernel_overlap` | 1 proposed command and 1 synthetic or compensating one, 2 calls that overlap; create, ingest and the verb without an arm by command, create, ingest and reindex directly; queue and ledger throw, no crash; weak fairness | `ReceiptProvesExecution`, `ReceiptlessIsOrphaned`, `TruthExplained`, `ExecutedStaysExecuted`, `LandedIsSettled` | holds, 0.67 million states |
| `kernel_rejected_commits` | 1 command, 1 call, overlap | `RejectedIsTerminal` | violated |
| `kernel_index_failure` | 1 create, the index throws | `SwitchFailureIsClean` | violated |
| `ledger_recovers` | 3 record ids over both files, 3 starts, receipts file new or legacy | `AckedIsKept`, `MemoryIsFile`, `ChainHolds`, `OpensAgain`, `ImplementsSqlite` | holds, 2.2 million states |
| `ledger_legacy` | the same, legacy receipts | `AppendLeavesItReadable` | violated |
| `shared_stores` | each backend; 2 processes (1 for the local files), 1 entity of 2 fields with up to 3 versions, 2 artifacts of one name, 2 hashes, 2 index records, 3 calls, 1 fault | `ImplementsContract`, `BytesBeforeMetadata` | holds, 0.23 million states |
| `postgres_identical` | the same | `PostgresIsIdentical` | violated |
| `policed` | 2 sessions, 2 commands; an AI on the MCP surface under the default policies and four variations, or on the SDK under two, in three boot environments, beside an administrator | `DecisionIsReference`, `WritesAuthorized`, `GatedWritesApproved`, `DefaultsSeparateDuties`, `RecordsFollowOwnerTruth`, `ViewsAgree`, `ContentWithheld`, `CreationIsNotTold` | holds, 0.08 million states |
| `index_sync` | 2 entities of 2 values, 1 artifact, 3 versions and artifacts in all, 2 calls, 1 fault; one text contains the other, the artifact's content the first, its file name the second; all three limits are 2 | `RecordsAreHistory`, `CalmIndexIsExact`, `StalenessIsReported` (with the traces), `BundleIsCurrent`, `CalmBundleIsComplete` | holds, 6.0 million states |
| `backup_restore` | 3 commands of the three verbs of which 2 are proposed, 2 commits, 1 fault, any number of restores into both clusters, by a caller with queue and data directory or with neither | `ReceiptsKeepTheirCommands`, `QuietBackupVerifies`, `RestoreConverges`, `RefusalsAreReported`, `AlteredStaysOut` | holds, 3.4 million states |
| `command_line` | 2 terminals, one for every subcommand and one for decisions, 2 operators, 1 command, 3 invocations, 2 writes, 7 configurations | `OwnProposalsAcknowledged`, `ExitTellsTruth`, `SnapshotGoesFirst` | holds, 3.4 million states |

Why these bounds are enough. Every hazard of the kernel involves at most two actors on one command,
or two commands that share an entity or a content: two calls and two commands give a first execution and its
retry, a commit racing a reject, an approve or a second commit, a compensation and its original, two
updates of the entity `e1`. `EarlierEntities` and `EarlierArtifacts` stand for what a session before
this one left, with its events rotated away. `propose_mutation`, for which the commit has no arm, is proposed in `kernel_overlap`, where one proposed command (`Proposable`) and a second id give two commits of it, or a commit
beside a direct call, a rejection or a compensation; updates and links are in `kernel_sequential`, whose queue does not fail. In `kernel_overlap` crashes are left out because a crashed call is not one that still owes a record:
`ReceiptlessIsOrphaned`, `TruthExplained` and `LandedIsSettled` do not hold across a kill between
a store write and its event, and nothing in the code claims they do. In `LocalLedger`
three records give one to archive, one to keep and one to tear; three starts give a recovery of a recovery.
In `shared_stores` and `postgres_identical` two processes and three calls give an update between the two statements of another and a third
call that sees the result. In `policed` every rule has the smallest scope that tells two objects or two
principals apart (one URI, one kind, one verb), so two commands are one in its scope and one out of it; the theorems
cover all other configurations. In `index_sync` two calls are a writer beside a writer, a rebuild or a retrieval; three
writes give an entity that is updated while another one with the same text comes, and one record more than the three limits of 2 look at; the theorems are about any limits. With one fault a write that throws is
not followed by a restart, so `lost` stays empty in the run; `RecordsAreHistoryAlways` and `BundleIsCurrentAlways` cover it. In `backup_restore` two commits give one before and one during the
walk, and a log with a link to break; one fault is the kill, the edit, the lost blob, the lost receipt or the rebuild that fails. In `command_line` three
invocations give two that overlap and one that comes after.

What the violations say. (1) A rejection that arrives while a commit is between its status check and
its save is overwritten, although `docs/mutation-law.md` calls `rejected` terminal. (2)
If the index throws inside the commit switch the entity is there, without event, receipt or orphan record,
and the command can be committed again, although the comment before the switch calls such an exception clean.
(3) A legacy ledger file is not rewritten by the next append, as its comment promises, and is unreadable after it.
(4) An import into the Postgres store that meets a row with other content answers as if they agreed, although the interface asks for `ImportConflictError` (`contracts/canonical-store.ts:137`) and the header
of the store calls it identical to the local one. The overtaken update, which the property refuses too, is the longer counterexample.

**Fairness.** Only `FairSpec` of `ClusterKernel` has any: `WF_vars(Continue(k))` for each call. A call in
flight is a promise that settles (a store call returns or throws) and a continuation the event loop runs;
both hold while the process lives, and `kernel_overlap` has no crash. No fairness is given to callers: nobody must
propose, approve or commit. Weak fairness is enough because a call's continuation stays enabled until it runs. Nothing
else in this code runs by itself (no timers, workers or retries of its own), so the other modules promise safety only.

`CHECK_DEADLOCK FALSE` is set in every configuration because all calls, invocations or commands may be over, or a
bound used up, or the store refused as corrupt: the system then rightly stops.

Every property has a mutant in `PROJECT.json`: the definition of the code that, changed the way a
plausible slip would change it (the command saved before its event, the marker left out, the first event taken for the
last, ...), makes the property fail. The mutated operators stand next to the originals.

### Seen while modelling, and not given a run of their own

Kernel. With overlapping calls `AtMostOneReceipt`, `PreviousIsDisplaced` and `LineageIsChain` fail, since nothing in the code
excludes two commits at once. A kill between the save of a committed command and its receipt leaves it without receipt or orphan record for good. An ingest whose event fails after its staging
file was unlinked (1239) cannot be committed again. `docs/mutation-law.md` says the ledger records proposals and rejections, but a proposal and a
rejection by the validator append no event. `validateMutation` saves inside the `try` whose `catch` rejects, so
a queue that fails once rejects a valid command for good. A comment says the next sweep clears stale
staging files, but the sweep matches temporary files only. Two proposals of the same bytes share a staging file: when one
is rejected, committed or compensated the other's commit reports tampering (`cluster-kernel.ts:1507`).

Traces. `why` finds no creation edge of an entity that a command created (its event is `mutation_committed`) though its
JSDoc says it names one, and counts every link twice under "Evidence links". The event of a committed link names the artifact
with subject store canonical, so its forward trace ends in a gap, like those of `command_*` events. Receipts are not looked up for
artifacts. A forward trace calls index records derived even when they are stale.

Ledger. A rotation that failed after its marker was written, and whose removal of the marker failed too, is completed by the next
start. `SqliteLedgerStore` stamps the time before its transaction: with two processes the order of `seq` need not be that of the stamps.

Stores. Under Postgres an update can lose a concurrent patch, although `contracts/canonical-store.ts:65-93` says version N+1 is built from the
current latest; its import is silent where the contract (137-140) asks for `ImportConflictError`; its guard for an entity that vanished before the
INSERT cannot fire. Migration 002 adds a constraint under the name Postgres gives the inline check of 001, so `migrate()` fails on a fresh
database and is not idempotent. A SQLite ingest counts outside its transaction: two processes mint one version number. The loser of two first
openings of a SQLite file throws once. Ingesting the bytes of a damaged blob again does not heal it.

Policy. `validateMutation` of a command that is not proposed throws `COMMAND_NOT_VALIDATED`, whose MCP hint is to validate it; the hint of
the approval gate is to approve, whatever the status. Under the default visibility `findSources` shows no index record, so the
MCP tool can answer `no_data` for a cluster that has data. A page of `findPage` that the policies cut short has no
cursor, so the walk ends there. Ids of principals and names of roles share one name space. SDK `resolve` asks no policy
(`cluster-sdk.ts:221`), though a comment in `cli.ts:1754` says so.

Index. `checkStale` and `verify` look for an entity by a search with limit 1: an entity whose "kind: name" is also in the text or the metadata of a record that was indexed before its own is reported missing, and
no rebuild that lists them in the same order clears it (`StalenessIsReported` says that this is the only false report). Missing artifacts and stale metadata are never reported. Two updates of one entity that
overlap leave two records of it or a stale one, a write beside a rebuild may be dropped from the index; either ends calm, and stays until a rebuild runs alone. An index that misses one record and holds
another twice passes the count.

Backup and restore. The file has the latest version of an entity only, so a restored entity that was ever updated makes `verify` report a corrupt
lineage (`backup.ts:3` speaks of mutation history). A restore heals no damaged or missing blob, though the advice of the checks is to restore.
It saves the file's commands over newer ones. An entity edited in the file enters an empty cluster undetected, as entities have no hash; a refused
staging file is shown by no check. A restore that was killed, followed by writes and run again, breaks the hash chain. The CLI's `backup`, `restore` and
auto-snapshot pass neither queue nor data directory (`cli.ts:2517`, `2569`) while its `verify` and `doctor` are given the queue: a cluster restored by the command line is corrupt to both as soon as the file has a receipt
(the branch of `QuietBackupVerifies` without a queue), although `docs/operations.md:86` and `98-101` offer it as the recovery. The errors of a restore's index rebuild are dropped (`backup.ts:563-565`), and the CLI's count of errors does not have them
(`cli.ts:2601-2609`): 0 may come with a stale index. A command committed after a backup read the ledger is in the file without its receipt.

Command line. `commit` refuses one's own proposals only where a `policies.json` exists; an inert one (no rules) activates the refusal though the kernel
is raw, and an invocation whose look at the command fails skips it: for a principal who may not read commands, and for any error of that read (`cli.ts:1422`, `1503`). A walk refused at its commit has left its approval. `index rebuild` is policed and leaves a receipt, `rebuild index` neither,
and exits 0 despite errors. "Restore the prior state" of the undo hint merges. Two backups to one new file race: the second overwrites without `--force`.
Read-only commands on a fresh directory create it. `docs/cli.md` uses `approve --by` and `entity list`, which do not exist.

## 4. Proofs

Assumptions, all on constants: `KernelAssumption` (ids of different kinds are different, those an earlier session left too; `Offered` and `Direct` are
verbs); `EarlierIsFinite` of `KernelTraces` (that session left finitely many objects); `LedgerAssumption` (the ids of records are the numbers up to a positive bound); `StoresAssumption` (version numbers have a positive
bound, the sources of index records are finitely many); `SortAssumption` (any set of policies has a first in the order of the sort),
`SettingsAssumption` (a configuration uses known policies, only MCP sessions are gated, no principal's id is the name of a default role),
`OffersAssumption` (what is proposed has a verb that commit knows), `NoneAssumption` (no error is the absence of one);
`CommandLineAssumption` (nobody is no operator's name, what is typed is one of `Subcommands`, the other cluster's record is none of this one);
`SizesAreNatural`, `IdsAreDistinct`, `CallsAreFinite`, `TextsAreNotEmpty` and `TextsContainThemselves` of `IndexSync` (bounds and limits are numbers, no artifact has an entity's id, finitely many calls are in flight, the text that a search for anything stands for is no entity's, every text contains itself);
`IdsAssumption` of `PolicedKernel` (ids are minted once: no command is minted an id of the start or another command's, and the start holds finitely many);
`CommandsAreFinite`, `VerbsAreModelled`, `OptionsAreModelled` and `BoundsAreNatural` of `BackupRestore` (finitely many commands, of the verbs modelled; the others give the constants their types). The numbers of commands, calls,
contents, processes, entities, artifacts, policies, principals and sessions, the faults, crashes and overlap are arbitrary, unless a theorem names a hypothesis.
Every inductive invariant below was checked by TLC on the instance of section 3 before it was proved (but for `QuietFile`, which asks for a store among infinitely many).

`ClusterKernelProofs`

* `TypeCorrect`: `Spec => []TypeOK`. One lemma `Typed_<action>` per action. `TypeOK` is not
  inductive alone: `Named` adds that a call past its start has a command, that such a command and every
  command in the queue has a verb, and that a command with a verb has a target of that verb's shape.
* `CommittedHasEventAlways` and `ReceiptProvesExecutionAlways` follow from the inductive invariant
  `KernelInv`, the conjunction of `Typed`, `Recorded`, `CommittedHasEvent` and `ReceiptProvesExecution`. `Recorded` is
  the strengthening: a call that waits to save or to mint its receipt points at an event of its own command
  and of the right kind, and in the second case its command is executed. It carries the event from the step that appends it over the awaits to the
  steps that save the command and mint the receipt; without it neither property survives one step.
  That events are never removed or changed (`EventsStep`) and that no step un-executes a
  command (`ExecutedStep`) are lemmas about all actions.
* `ExecutedStaysExecutedAlways`: the action property, from the same invariant.
* `TruthExplainedAlways`, for a process that is not killed and stores that do not throw late (`~MayCrash`, none of canonical, artifact and index in
  `Faulty`; the queue and the ledger may fail as they like): every write is explained by an event, a receipt or a line on stderr, or its call is still on the way to one. The invariant is
  `TruthInv`: `TracedInv` (`KernelInv`, a call before its store write has landed nothing, and a call that waits to save has its event in the ledger) with `LandedExplained` (a call that landed
  is at a step that still owes the record, or has one) and `StoresWritten` (what the stores hold beyond the earlier session was landed by a call). The
  hypotheses are those of the run: a kill between a store write and its event leaves the write unexplained, and so does a store that throws after it wrote.
* `ReceiptlessIsOrphanedAlways`, for `~MayCrash`: a command that is executed without a receipt has its orphan record or a call that will write it.

`ClusterKernelProofs`, the part which takes `~Overlap`

* `AtMostOneReceiptAlways`: `SoloInv` adds to `KernelInv` that at most one call is in flight
  (`OneInFlight`), that the command of a call before its save is not executed (`Unexecuted`; with
  `ReceiptProvesExecution` it therefore has no receipt yet) and that a compensation waiting for its receipt has
  none (`Unreceipted`).
* `PreviousIsDisplacedAlways` and `LineageIsChainAlways`: an update's event names the version that its write displaced, and the events of one entity form one chain. `LineageInv` adds to
  `TracedInv` and `OneInFlight` that a call past its read still holds the latest version as `previous` (`Displacing`: nobody else moves it meanwhile) and
  a commit event names the command of its call, which is past its store write (`CommitEvents`).
* `KernelImplementsLaw`: `~Overlap /\ Spec => LawSpec`: the initial state maps to the law's, and every action is
  a move of `validTransitions()`, an entry, a compensation or a stutter.

`ClusterKernelProofs`, last part, without that hypothesis again

* `LinkIsTraceableAlways` and `LinkIsTraceableThroughout`, for any number of objects, events and receipts, any overlap, faults and crashes: the second drops `MayStart`, a trace
  shows the link also while calls are under way. `LinkInv` is `TracedInv` with what a trace relies on, in three parts that carry one fact from step to step: a call to link that is past its checks has found
  entity and artifact and, once its event is appended, has it (`LinkCalls`); the event names two objects that are there (`LinkEvents`); an executed link has its event, whoever
  committed it (`LinksExecuted`). `StoresFinite` and `IdsHaveOneKind` say that the stores hold finitely much and no id is in both: else a walk had no end, or a receipt led to the wrong
  object. From there on the ledger is data: `LedgerIsLinked` says what `Ledger` makes of such a state, and `LinksTraceable` puts together what the lemmas of `PickingProofs` say of any such ledger.

`LocalLedgerProofs`, over any number of crashes, recoveries and rotations, for the files that no failure of section 2 damaged

* `AckedIsKeptAlways`, `MemoryIsFileAlways`, `ChainHoldsAlways`, `OpensAgainAlways`, from `LedgerInv`: the type invariant and, for each undamaged file, `LinesOf` (its lines
  are a chain of whole records, the last of which may be torn only where `cut` says so), `MemoryOf` (what the running process believes of it), `ArchiveOf` (what left it is in an archive);
  and, for both files together, `PlacesSound`, `BoundaryMarked` (while a rotation is under way the marker names exactly what lies below one boundary, in either file's active or archived part) and
  `CutMarked` (each file is either not yet cut at that boundary or cut there). The last two are what makes a recovery of a recovery safe: whatever file operation the
  process died at, the marker says the same about both files. `Pick`, in which the recovery's filters are written, is reasoned about by counting (`PickInterval`, `ConvexIsInterval`,
  `ExceptOlder`): a filter that keeps an interval of a chain keeps a chain.
* `LedgerImplementsSqlite`: `Spec => ImplementsSqlite`, from the same invariant: the first cut of a rotation maps to `rotate`, a line that reached its file whole to an append,
  everything else (archives, marker, second rename, dedup, repair, crash, open) to a stutter.
* `LedgerPromise` and `NothingIsLost`, at the end, of the abstract `SqliteLedger`: in every state both hash chains hold and the two tables are cut at one boundary, and no step loses a
  row, which stays or goes to the archive. The inductive invariant is `TypeOK /\ Stamped /\ ChainHolds /\ RotationIsAtomic`; `Stamped` (the clock is ahead of every row) is what makes a new row the
  last one and lets an append follow a rotation.

`SharedStoresProofs`, for any number of processes, entities, artifacts and versions

* `StoresImplementContract`: `Spec => ImplementsContract`, the contract with the three lapses at their calls, call by call: `LocalCallKeeps`, `SqliteCallKeeps`, `SqliteFinishKeeps`, `PostgresCallKeeps`, `PostgresFinishKeeps`, and
  `OpenKeeps`, `StopKeeps`, `AlterKeeps` for what happens around them. `PersistKeeps` and `CommitKeeps` say once how a write of a file and a commit of a database end: done,
  failed without a trace, or done and not told. The invariant `SharedInv` is needed because a call of two halves acts on what it read: `UpdateIsBased` says that what an
  update read is a version still, and the latest one unless somebody committed since (`overtaken`); `IngestIsCounted` that a count of artifacts can only have become too small;
  `LocalIsAlone` that the maps of the local stores have one holder, without which opening them a second time would show other reads than before.
* `BytesBeforeMetadataAlways`: from the same invariant; content is never removed, and each store writes it first or in the same transaction.

`CommandLineProofs`, for any number of terminals, operators, commands, invocations and configurations

* All three properties of the run, over `BaseInv`: `Typed`; `Scripted`, which says with `Rest` what may be left of each subcommand's steps (a call that writes to the owner stores is the last
  step and named like its subcommand, no dry run has one, the two subcommands that look first have one of a few forms); `Numbered` (this cluster's records have no gaps, so the next number is
  new) and `CopiesAreKnown`. `OffersAreSound` shows that every script of `CommandScripts` starts that way, `ProcessMoves` reduces the thirty-odd actions to what they do to these parts.
* `OwnProposalsAcknowledgedAlways`: `DutyInv` adds `LookHolds`, that the answer the guard got, where it got one, still holds in every process that is past it. It survives because the proposer of a command
  that somebody holds never changes (`ProposerStays`, which needs `InHand`), although the status it saw may; and that a process which goes through both approval and commit was
  asked for the second flag.
* `SnapshotGoesFirstAlways` and `ExitTellsTruthAlways`: `RecordInv` adds `OneWriter`, and that what a writer found when it began or its prompt was answered (`StillBefore`) and what its snapshot took
  (`StillSaved`) are the stores as they are, up to its own last step. `SuccessIsTheCall` then shows that 0 of a commit or restore can come from that very call only,
  `RecordsNeedWriter` that the codes of a refusal come from no call that has written.

`PolicedKernelProofs`, for every configuration and any number of sessions

* `DecisionMeetsReference`: `evaluatePolicy` allows exactly what `Permits`, for any policies, request and zone.
* `SecondQuestionAgrees`: a request that fills in fields of a permitted one is permitted: an allow that matched still matches, and a deny that matches the fuller
  request matched the emptier one, since a deny takes a missing field for a match. Hence the second of the policed kernel's two
  questions about an object never denies.
* `TypesHold`; `WritesAreAuthorized`, `GatedWritesAreApproved` and `DutiesAreSeparate` from the inductive invariant `PolicedInv`: `Typed`, `Allowed` (a commit or
  compensation in flight stays permitted, and a compensating command is at rest), `PastTheGate` (an approval is remembered; a gated session that reads commands is only ever in the commit of
  an approved one) and that every write is a good one. It is needed because the permission is asked one step and the write happens another: what carries it over the
  await is that verb and store of a command never change. `GateSees` uses `SecondQuestionAgrees` (as `FillingIn`) to show that the gate's own read cannot fail.
* `AllViewsAgree`: what a session's single read of a thing shows, the other reads that are not refused show too, lists of commands are complete, and so is a walk over pages. Its invariant `PlacesKnown` says that what the stores and the index hold is finite and that
  an id names one thing. From it, the ranks number the positions of the index without a gap, so the pages are slices that cover them; that a walk over the pages
  misses nothing is argued by the least page that would.
* `RecordsFollow`, `ContentIsWithheld`, `CreationStaysUntold`, `DecisionsAreReferences` and `HintsAreLegal`: statements about what reads answer in any state.

`IndexSyncProofs`, for any numbers of entities, artifacts, values and calls in flight, any interleaving, failed writes, restarts and damaged blobs

* `TypeCorrect`: `Typed` gives each form of a call (writer, rebuild, retrieval) its fields and says what of them belongs together (`Sound`).
* `RecordsAreHistoryAlways`: the invariant `HistoryKept` speaks of the `Stock`, all images in the index *and on their way to it*: those an update
  carries over its searches and removes and those a rebuild staged before it reads contents and swaps. That is what an index record is made of some steps later, however
  old it is by then. `EnterStock` and `ContinueStock` say which images a step can add, `StaysHistory` that what was history stays so, a restart included.
* `BundleIsCurrentAlways`: `PlansAreCurrent` says of a retrieval under way that what it has read is not older than its beginning. A version count and the number of
  events of a source only grow, but for a source that lost a version at a restart (`StoresGrow`). `Versions` says that a source has at most as many versions as it has events and writers on their way to
  one, unless it is in `cut`; read at two moments, that gives the second half of the property.
* `CalmIndexIsExactAlways`: `CalmInv` is `DistinctIds` (no two records share an id, so a remove takes one), `Calm` and `LoneRebuilds`. `Calm` says what the calls in flight have still to do to
  the index: sources nobody is at work on have one record of their latest version (`Exact`), a writer past its search will remove just the records of its source,
  one about to insert has none left. `LoneRebuilds` says that what a rebuild that nothing joined has staged is a picture of the stores, each source once, over its listing and reading steps; so its swap
  makes the index exact although nothing may have been exact before. That the counts agree (`possiblyStale`) then follows by a bijection between the positions of the index and the sources.
* `CalmBundleIsCompleteAlways`: `PlanInv` says of a retrieval that nothing joined that what it has read and what is left of its page is what was asked for, all of it or as much as the limit allows, present and as it is (`Complete`). Whoever
  enters ends that (`EnterPlans`), and nobody who was already there can take a step (`BusyPlans`).
* `StalenessIsReportedAlways`: what the reports miss and list follows from `Typed` and, on an undisturbed index, from `CalmInv`, where the first hit for an entity's text is another source's exactly if that one's record comes first (`FirstHit`). The part about traces holds in every state, calls under way or not
  (`TracesAgreeAlways`): the trace of a record visits the record and, if there is one, its source, that of a source the source alone, because a source leads nowhere without the ledger (`RecordWalk`, `SourceWalk`);
  `RecordTrace` and `SourceTrace` say what those visits add up to, the latter up to `IndexLimit`.
* `PickingProofs` has the facts that these proofs share with those of the ledger and the kernel. Filters and sorts: `Places` (the n-th member is there, is one, and each is some n-th), `PickPlaces`, `FreeNumbers` (a fresh id
  exists). Walks: `WalkEnds` (the calls of `Visited` are enough), `VisitsWithin` and `VisitsNext` (a walk stays in what its start leads to, and reaches what that leads to next), `VisitsAll`
  (a limit not below the number of vertices visits all that can be reached, in whatever order), `WithinIsVisited`. There is no induction over the walk: each says of the state of a walk what a call keeps (`WalkKeeps`), from a
  least call that would break it. Traces: what each kind of object shows (`EntityIs` to `ReceiptIs`), that the nodes named are found or gaps (`NodesAreNamed`), `TraceIs`. Links: the
  entities and artifacts that a ledger holds lead to each other only (`OwnedIsClosed`), so a walk from one of them stays there, and the gaps it notes are of missing trails (`OwnedGapsAre`); a walk with a limit not below their number shows all of them
  (`DepthSuffices`), a node is a gap exactly if its URI does not resolve (`GapsDoNotResolve`), and `WhyShows`, `ReceiptShows`, `ForthShows` and `BundleIs` say what `why()`, the trace of a receipt, that of an artifact and that of a bundle show of a link.

`BackupRestoreProofs`, for any number of commands of any verbs, any interleaving of commits, backups, alterations and restores, two clusters, any bounds

* `TypeCorrect`: `Typed` with the order of the records (`TypedInOrder`): ids and commit numbers grow along every list, so that each list is its set.
* `AlteredNeverGetsIn`: every step is `Clean`, it adds to a cluster only whole records and whole blobs. A restore is, because it checks each item of the file
  before it writes it, although the file may have been altered at any time, between two items too.
* `ReceiptsAreNeverStranded`: `ReceiptsSaved` adds to the property that a receipt at home has its command saved (`SavedAtHome`: commit saves before it
  appends) and `SavedIfRead`: what a backup under way has read of the ledger has its commands in the queue, which it reads later. Were the two reads the other way round, a
  commit in between would strand its receipt; the invariant carries the order over the half-done walk into the file, and from there over the half-done restore into the target.
* `FilesAreSound`: `BackupSound` says the same of a backup's lists while they fill, `FileSound` of the file. `RunsDistinct` (a commit number is used once, so two records with one are the same) makes a list that was read in
  pieces while commits ran the list of one cluster.
* `RestoresConverge`: `Progress` says of a cluster that only restores of one file wrote to that it holds what the first m items of it leave (`Left`), for some m, and that a restore under way is at most one item past m. `BroughtNext`
  (the next record extends `Left` by an item) and `BroughtAgain` (a record gone through before changes nothing) are the two halves of idempotence. `IndexProgress` says of the index that it never has a record without a source, and has all of them once it was rebuilt without a failure. So a
  restore that ends, alone or after any that broke off, leaves what the file says.
* `NothingIsSwallowed`: `Handled` says that each record a restore has gone through is in the target (`Held`) or among its errors, whoever else writes there. It needs `Known`: the ids
  of what a commit creates are the numbers so far, so a commit during the restore cannot create under the id of a record that was just restored.
* `RefusalsAlwaysShow` and `QuietBackupsVerify`, for callers of both kinds.
  Three invariants meet. `Judged`: where restores alone wrote, what was refused is exactly what lost its hash (`Bad`). `HomeSound`: until there is a file, home's stores,
  index, staging area and ledger fit each other but for what the commits in flight still owe. `QuietFile`, over `QuietBackup`: the file of a backup that nothing was written beside shows, record by
  record, a store that is `Settled` (edits change what a record says, never which record it is) and has that store's verdicts. `RestoredRemains` puts them together with `RestoresConverge`: the restored cluster is that
  store without what was lost, in the order of its logs (`LogRemains`). If nothing was lost but staged files all checks but those of the index read the same (`SameHealth`, `HealthJoins`), the lineage excepted (`LineageCut`); without the queue the
  receipts that were kept (`KeptAreThere`) are of commands nobody knows, and that decides (`QueuelessHealth`). That the hash chains of home are whole (`LogsChained`, `ChainStep`), and of a file that nobody altered, is what makes the chain check silent. If something was, and
  the backup was healthy, then `LossesShow`: a lost receipt was the only one of its command, a lost event is named by a kept receipt, a lost artifact by a kept event.

Out of the prover's reach and left to TLC: `LandedIsSettled` (liveness under fairness; so would be anything with
ENABLED). Every other property that a passing run checks is stated by a theorem, under the hypotheses named above. No module declares a RECURSIVE operator.

## 5. Not modelled, and the plan

Not modelled for good: printing, completion and logging of the CLI, the dashboard, the repo-knowledge integration (a client without state), text
scrubbing inside a field, tokenizer and BM25 (numerical ranking over text), the parsing of URIs, migrations of Postgres, error
texts. The order and filters of lists are left out, and in the queue the race of two processes and the marker file, since the kernel asks for one writing process. `PROJECT.json` gives each part's status, and for each hazard
without a property the reason.

Next:

1. The policed reads that are missing (receipts, explanations, traces), as further arms of `ViewsAgree`.
