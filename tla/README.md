# redibis: specifications, model checking and proofs

TLA+ specifications of the core of redibis, the TLC configurations that check
them on small instances, and proofs, checked by TLAPS, of what matters most.
Paths are relative to the repository; line numbers are those of the commit the
specifications were written from and are listed, definition by definition, in
`PROJECT.json` ("map").

## 1. The system

redibis scans tables, finds personal data and quality rules in them, and keeps
the result of every scan, import and steward decision in one ODCS contract per
table. Everything that changes a contract goes through `ContractStore.upsert`.

| Part | State it keeps | Operations | Interacts with | Hard behaviour | What makes it correct |
|---|---|---|---|---|---|
| Contract store (`store/contract_store.py`) | `active/{table}.yaml`, `audit/{table}/{run}.yaml`, run index, sidecars | upsert, set/clear PII decision, quality and definition edits, retention, purge | merger, overlays, metadata, reviews, backends; called from two scan workers, web requests, CLI | no lock; several puts per call; overlays saved before the contract; raises in the middle | overlays in force are enforced by every write; audit, index and stamp agree with the contract; identity locked |
| Merger (`store/merger.py`) | none | merge of a partial into a contract | contract store | never removes; last writer wins | identity and version discipline, contributions kept |
| Decision overlays (`store/*_decisions.py`) | one JSON sidecar per table and kind | set, remove, reconcile, drift | contract store, review services | lifecycle active / stale, whole-file read-modify-write | a decision holds exactly as long as its column is what it was taken on |
| Column privacy (`contracts/privacy.py`) | none | column_is_pii, strip, apply, leak guard | overlays, every reader | several places define what PII is | strip, apply and read agree |
| Review (`store/review_store.py`, `services/*review_service.py`, `review/`) | review state per table, verdict packages | checkpoints, reset, finalize, import | contract store both ways (drift re-opens reviews) | flags recomputed by different callers | a guaranteed table has every required item reviewed |
| Runs (`store/subcontract_store.py`, `store/run_merger.py`) | subcontracts per run, with status | save, edit, merge, discard | contract store | crash between merge and status, retries, discard beside merge | a run is merged once and its status says so |
| Agent batches (`agents/`) | run record, task ledger, LangGraph checkpoints, cancel tokens | start, run a node, pause for a human, resume, recover, cancel | contract store and catalog through tools; web API | cancellation races, double resume, crash and resume, stale approvals | a batch comes to rest, a cancel is honoured, the ledger tells the truth, writes were approved |
| Web jobs (`webapp/jobs.py`) | in-flight counter, queue of the pool | submit, run, settle, shutdown | scan sessions, runs, workspace batches | bounded queue, failures anywhere in a job | slots match the jobs; every job ends |
| Scan sessions (`services/session/`) | session objects and `session.json` | profile, quality and PII steps, persist, evict, read back | jobs, runs | two jobs on one session, copies of one session, failing steps | a finished session does not look like running |
| Memory (`memory/`) | entries, counters of the asynchronous writer | write, flush | contract store | best effort | nothing waits for it |
| Authentication stores (`store/auth_backend.py`) | users, shares, sessions | save, load, revoke | web application | file locks between processes | no lost updates |
| Ledgers and evidence (`store/catalog_ledger.py`, `store/generation_ledger.py`, `evidence/`) | append-only records, run bundles | append, read, import | contract store, catalog | partial failure of a push | records agree with what happened |
| Workspaces, packs, configuration (`workspace/`, `pack/`, `store/config_store.py`) | registries, archives, settings | scan batches, promote, publish | stores | promotion between workspaces | nothing half-promoted |
| Detection, profiling, quality, enrichment, masking, conversion, CLI | none shared | data in, partial contracts out | the contract store | numeric or textual, no protocol | outside what a model checker can add |

`PROJECT.json` lists every part under "components", those not modelled too, and
under "hazards" what is hard to test in this code, at its line.

## 2. The modules

`ContractColumn` holds the operators on one column: merge, strip, apply, leak
guard, `column_is_pii`. A column is its privacy block, tags, logical type and
set of quality rules. The block (`privacy`, `classification` and `entity_type`,
which writers set and the strip removes together) has three values: "pii",
"exempt" (internal or security_sensitive, which `column_is_pii` answers with
False before it looks at tags), "none". The fingerprint of a column is its type
alone: name and format are constant for a contract property
(`fingerprint_from_contract_prop` profiles nothing).

`ContractStore` is the contract of one table with its overlays; each action is
one public call, taken atomically.

| Variable | Code |
|---|---|
| `active` | columns of `active/{table}.yaml`, `None` before the first write and after a purge |
| `decisions` | PII overlay: status, payload, fingerprint, lifecycle |
| `quality` | quality overlay: suppressed or manual, per rule |
| `defs` | definition overlay: tags, fingerprint, lifecycle |
| `fields` | steward field decisions: fingerprint, lifecycle |
| `reviews` | status of the column's review |
| `unapplied` | a call saved an overlay and raised before its upsert; cleared by the next write |

`Write` is `upsert` in the code's order: merge, PII drift and marks, PII
reconcile, quality, definition drift and reconcile, field drift, leak guard.
Every call that ends in a re-upsert is an instance of it, with the overlay it has
just saved: `set_pii_decision`, `ReapplyQuality`, `patch_definitions`.
`UpsertRejected` is a `validate=True` that raises: drift and marks are saved, the
contract is not. `PatchDefinitionsRaises` and the second disjunct of
`ReapplyQuality` are calls that raise after saving an overlay.

`PiiAuthority` is what the store promises about PII with no merge, overlay or
fingerprint in sight: a ruling settles whether a column is marked until the
column's type changes, then lapses; without a ruling in force a mark stays.
`ContractStore` is shown to implement it (`ImplementsPiiAuthority`), a column
being marked when it has a privacy block.

`ContractWrite` cuts `upsert`, `set_pii_decision` and `purge` into their storage
operations and lets several calls interleave and die between any two of them.
There the contract keeps identity, version, contributed tags, one
last-writer-wins field and one privacy block. Operations on the provenance log,
which is read, extended and put back like the run index, are folded into it; PII
summary and column telemetry are derived data. `overlapped` and `purged` are
auxiliary: they restrict properties, never actions.

`RunLifecycle` is `SubcontractStore` and `RunMerger` for the runs of one table
and kind, each call cut into its storage operations. A call remembers the status
it read (`call[a].status`), which is what the code puts back with the whole
object. `folded` (what was ever folded into the contract) and `met` (runs on which
two calls met or one died) are auxiliary. `upsert` is one step here that folds or
raises; its own steps are `ContractWrite`'s.

`ScanJobs` EXTENDS it: jobs of the web server's pool write and merge runs while
stewards, command lines and purges work on them.

| Variable | Code |
|---|---|
| `up`, `inflight`, `queue` | the executor, `_inflight`, the executor's queue (`webapp/jobs.py`) |
| `job` | where the wrapper and the function of each job stand, with the session object it was submitted with |
| `current`, `status`, `disk` | the session object the registry holds, the status of each copy, the status in `session.json` |
| `made`, `object`, `call` | the runs, from `RunLifecycle` |

A job is a unified scan, a profile step alone (whose exceptions leave the
function), or a workspace batch (which has no session). `set_session` changes the
object only, `set_and_persist` the disk too, as the code does at each point.

`AgentBatch` is one batch. Each worker (a batch, the request that answers a pause, a
recovery) works on the copy of the record it loaded and saves it whole where the
code saves it.

| Variable | Code |
|---|---|
| `mode`, `durable` | `agents.batch_executor`; is the checkpointer Postgres? |
| `run` | `run.json`: status, ledger, `last_completed_table`, `paused_table`, `hitl_pending` |
| `graph` | LangGraph's checkpoint of each table: the next node and the steps so far |
| `tokens` | cancellation tokens of the store: made, current, cancelled |
| `pc`, `loc`, `copy` | where each caller stands and what it holds |
| `ran`, `unapproved`, `broken`, `overlapped` | auxiliary: what was executed, what was written without an approval, which tables raised, whether two workers overlapped |

LangGraph is external: it checkpoints after each node, stops where a node calls
`interrupt()`, starts over when invoked with an initial state and goes on from the
checkpoint when invoked with an answer.

`StewardReview` is one checkpoint under `ReviewService` and
`StewardReviewService`. A call is the list of storage operations it still has to
do (`call[a].rest`); every write loads the object, changes the copy and puts the
whole object back. What a column says in the contract is one value, `contract`
changes under the reviews by `Patch`, `Fold` and `Purge`.

The modules named `MC...` give the constants their small values.
Each module named `..._proofs` holds the theorems about the module it is named
after, and `ScanPool_proofs` those about the pool and the sessions of `ScanJobs`. In each module the definitions headed "Faulty" are mutated forms that nothing uses; each breaks a
property when put in the place of the definition it varies ("mutants" in
`PROJECT.json`), which is how we know the property depends on the code.

How they compose: a fold of `RunLifecycle` and of `StewardReview` is an upsert of
`ContractWrite`, whose outcome is the `Write` of `ContractStore`. A contract write
of `AgentBatch` is a `Create` of `RunLifecycle`. `ScanJobs` and `RunLifecycle` share
their state; the others are composed by abstraction only, each module taking one
step where the other shows many, since their products are out of TLC's reach.

## 3. The runs

| Run | Question | Instance |
|---|---|---|
| `contract_store` | do all overlays hold after every sequence of calls, and does the store implement `PiiAuthority`? | one column, two types, two tags, one rule, five kinds of fragment, three payloads, one foreign fingerprint; 118,341 states |
| `contract_write` | what survives every interleaving and one crash anywhere, and what holds while calls do not overlap? | two scans, one steward, one purge, one crash; 1,697,179 states, scans symmetric |
| `agent_batch` | does a batch come to rest, with a record, a ledger and checkpoints that tell the truth, and with approved writes only? | two tables, a gate and a contract write, one starter, one steward, one recovery, one cancel; both executors, with and without Postgres; one crash or cancel; 113,770 states |
| `scan_jobs` | do runs, slots and session statuses agree in every interleaving, and does the pool drain? | a scan, a profile step, a batch job; two threads and no queue; one run; one steward; two of: asks, purge, shutdown, read back, restart; 835,295 states |
| `steward_review` | does guaranteed ever claim more than the checkpoint, or a page more than the contract? | two callers (symmetric), three calls, two columns, one table item, two values; 1,336,599 states |
| `agent_cancel_unheard` | violated: cancellation is "checked between pipeline steps" | one store per request, as in the web server |
| `agent_rejected_publish` | violated: "Writes stay blocked until you approve" | one table, one publish node |
| `store_indirect_survives` | violated: not_pii "strips every PII signal" | tags with `pii_indirect` |
| `store_decision_stale_at_once` | violated: the call that records a decision applies it | a fingerprint from evidence |
| `store_pii_reclassified` | violated: "PII demotions only via decision overlay" | no decision at all |
| `write_overlay_lost` | violated: "the overlay always wins" | no crash |
| `write_identity_forked` | violated: identity "is locked after first write" | no crash |

Bounds. In `ContractStore` there is no bound on the length of a behaviour: the
sets of values are finite and TLC visits every state. Stages of `upsert` treat
columns independently, so one column shows what can happen to a column; two
types are enough for a type to change and come back, two tags for one that is
stripped and one that is not. One rule leaves the case of a manual rule that
suppresses its source to the proofs, which hold for any number of columns,
tags, types and rules. In `ContractWrite` each call happens once: two scans are
enough for a lost update, and `MaxCrashes = 1` lets one call die at every point
and the others go on from what it left. `CHECK_DEADLOCK FALSE` is set there
because all calls end, and in the three runs below for the same reason.

In `agent_batch` two tables are the fewest that have one finished, one under way
and one still to enter; the pipeline has an approval gate before a write, so that an
approval of one node could wrongly serve another. `MaxFaults = 1` allows one crash or
one cancel at every point. The steward may answer again and again
(`MaxAnswers = 4`: two pauses on each table), one answer at a time: with two
resumes in flight the model exceeds ten million states, and properties say
`~overlapped`. What a crash after a cancel, or more tables, nodes and callers could add
is for the proofs, which hold for every value of the constants; the invariants
they use were also checked by TLC with two faults, three nodes and two steward
threads before they were proved. In `scan_jobs` the pool is full with two of the three jobs, so
that a third is refused; `MaxAsks = 2` lets an edit, a merge or a discard meet the
scan's own merge, or a restart follow a shutdown. Two workers are enough for two
jobs on one session object. In `steward_review` two calls at once show every lost
update of one object, and the third call (or the purge) sees what they left; one
column more or less than the checkpoint thinks needs two. `Rulings` are
`approved` and `rejected`, one of each class the flags tell apart; drift marks
add `needs_review` and edits `edited`. The symmetry of callers is sound: that run
has no liveness property.

Every property of `ContractWrite` whose name starts with "Serial" is limited to
behaviours in which no two calls overlap, crashes included: the code has no
lock, and the two violated runs show what overlap does. `IndexedRunsHaveAudit`
and `QuiescentActiveIsAudited` hold of every interleaving (the latter without
crashes and purges).

Fairness. `agent_batch` assumes `WF(Works(w))` for each worker: a thread that has
begun goes on, and the tools it calls return; the code waits for nothing but
tools, and a pause ends the call. Nothing makes a steward answer, a crash happen
or a batch start. `scan_jobs` assumes `WF(Take)` (a free thread of the pool takes the
next job, which is what `ThreadPoolExecutor` does) and `WF(Work(j))` (the function of
a job returns or raises). `BatchComesToRest` excepts crashes and `PoolDrains` does
not: a restart loses every job. The properties of the contract store are safety,
and its calls run to their end in their caller's thread.

## 4. What is proved

`ContractStore_proofs` proves, for every set of columns, tags, types, rules,
fragments, payloads and fingerprints, each of the thirteen properties of the run
`contract_store`. The assumptions are `ConstantsAssumption` (constants are of the
expected kind, "string" is a type) and `SentinelAssumption` (`None` and
`Omitted` are none of the values they stand beside).

The argument. Four lemmas say what each stage does to a column (`PiiStage`,
`QualityStage`, `DefinitionStage`, `GuardStage`), one composes them
(`OverlaidColumn`). `MergedContract` and `DriftedOverlay` do the same for the
contract and for an overlay. The key lemma, `WriteTyped`, says that one `Write`, on
any typed overlays that name only columns there are, establishes every conjunct
of the invariant whatever held before; the actions that write need only show that
the overlay they saved fits (`DecisionWrites`, `EditQualityWrites`, `PatchWrites`), and
those that do not write that they disturb nothing (the lemmas named `...Keeps`).

The invariant `IInv` is the conjunction of the eight invariants. None of the
others is inductive alone: a decision in force is only enforced on a column that
exists (`OverlaysHaveColumns`), and it is not missed by drift, nor re-typed by an
unapplied edit, because its fingerprint matches (`AuthorityMatchesType`). The
action properties follow from `IInv` and `WriteAccounts`, a second account of one
`Write` that keeps the state before it. The refinement needs
`AuthorityMatchesType` once more: a ruling lapses exactly when the type changes only
because a decision in force was taken on the type there is
(`LapseOnTypeChange`).

`RunLifecycle_proofs` proves the two invariants of the runs for any number of
actors, runs and requests, from `RunAssumption` (the bounds are natural numbers) and
`NoneAssumption` (`None` is neither a status nor a call). Neither is inductive.
`MergedRunWasFolded` needs to know what a call is about to put back: a copy that
says merged, and a call that has come to its stamp, belong to a folded run
(`StatusIsEarned`). `FoldedRunIsMarked` needs, of a run on which no two calls met and
none died, that at most one call is on it, and that what this call puts back keeps
a folded run out of the open ones (`Undisturbed`); a run id not given out yet has
no calls and is not folded (`Unborn`).

`ScanJobs_proofs` proves `Spec => RunSpec`: every step of a pool thread, a steward, a
shutdown, a read-back or a restart is a step of `RunLifecycle` or leaves the runs
alone (`NextIsRunStep`; `JobAssumption` says that jobs and hands are the actors). The
two invariants of the runs hold of the server for that reason.

`ScanPool_proofs` proves type correctness, `SlotsBelongToJobs` and
`FinishedSessionIsSettled` for any number of jobs, threads, sessions and stewards,
from `JobAssumption` and the assumptions of `RunLifecycle`; nothing says that `Jobs` is finite.
The counter needs the queue beside it (`QueueInv`: the executor's queue holds the jobs that
wait, each once) and the direction the code keeps even when it goes wrong
(`SlotInv`: the jobs that hold a slot are finitely many and never more than what is
counted; equality as long as the executor is up, since a submission to an executor shut down is
counted and then refused). For the sessions, a copy that looks like running has a
job that will settle it, or no job has settled it yet (`RunningIsWorkedOn`), which
needs that a job's copy is one that was read back (`CopiesAreKnown`).

`ContractWrite_proofs` proves the ten properties of the run `contract_write`
for any number of scans, stewards and purges. `CallsAssumption` says that these are
different calls, `KeysAssumption` that `None` is no payload and the index file
no run. The invariant has two parts. `IndexInv` is kept by every interleaving: a call
that is to put a row of the index, or read one it will put back, finds the
snapshots of these runs, unless the run was purged. `SerialInv` says, while no two
calls overlapped, that what the one call in flight has read is still what is stored, and
what of its writes is there already (`SerialState`). It has to be said
step by step, since a call that dies is followed by calls that start
from what it left, between any two puts.

`StewardReview_proofs` proves the three properties of the run `steward_review`
for any number of callers, columns, items and values, from `ReviewAssumption` and
`RulingAssumption`; that `Values` is not empty is needed because a column in
the contract says something. The flag (`FlagInv`) is a fact about one object: every operation that saves
a checkpoint recomputes the flag from the very copy it saves, so copies that
overwrite each other lose verdicts but never leave a flag without its verdicts;
`finalize` alone saves twice, and between the two it is `halfway`. The page (`PageInv`) needs
more: what a call's remaining operations can be, in which order (`Shape`), and that
the copy of a call no other met is the checkpoint (`OnPage`).

`AgentBatch_proofs` proves the six invariants and the action property of the run
`agent_batch` for any pipeline and any number of tables, starters, resumes, recoveries,
cancels, crashes and answers, in both executors and with either checkpointer.
`BatchAssumption` says that the callers are different, that there is a table and a node,
and that `None` is no record, checkpoint, answer or number. For each action a lemma
`...Does` says what it does to the record, the checkpoint and the worker; the
invariants are proved from these lemmas. They are:

- `TypeInv`: types, and what a worker holds where it stands (`PhaseOf`): a
  checkpoint with n steps stands before node n + 1, a record that waits names a table
  and a node.
- `LedgerInv` for `LedgerClaimsOnlyWork`: every copy of the record, a canceller's
  included, claims only work that was done; hence so does whichever is saved last.
  `StepsInv` says it of the steps a checkpoint and a worker carry. Counts of runs only
  grow, so old copies stay true.
- `CoverInv` for `CompletedRanEverything`: the tables up to the last one
  recorded, and up to where a worker stands, ran or raised. It needs no
  restriction to workers that do not overlap.
- `AloneInv` for `PauseCanBeResumed`: while workers do not overlap, a worker
  and its checkpoint stand before the same node, nobody but a resume in flight works on a
  batch that waits, and the checkpoint of such a batch stands where the record says, or
  further on after a crash during a resume.
- `WriteInv` for `WritesWereApproved`: an approval not used up is for the node its
  worker stands before, and a rejection grants nothing. That a resume begins so
  is `AloneInv`.
- `CountInv` for `NodesRunOncePerRecovery`: what lies ahead of a worker, or of a
  pause, ran no more often than recoveries began.
- `TokenInv` for `NothingStartsAfterCancel`: workers in flight hold the
  current token, a batch that waits has one, and after a cancel the current token, if there is one, is cancelled.

Three of these theorems have a hypothesis or a limit the runs do not show:

- `LedgerClaims` and `CompletedRan` assume `KindsAreDistinct`: no node's step has the
  kind of another node's task. It holds of pipelines that use no kind twice, under
  either of its names (nodes whose steps go by another name, as `gate`, may repeat: no
  task has that name). Without it
  they are false (for a pipeline of two `contract_write` nodes TLC refutes both): `_sync_ledger_for_table` gives every task of a kind the status of the last
  step of that kind, so a batch paused between two nodes of one kind shows the
  second as done (section 5).
- `NothingStarts` assumes `SharedStore`: with stores of their own, the run
  `agent_cancel_unheard` violates the property.
- `NothingStartsAfterCancel` says `crashes = 0`. Proving it showed why: tokens live
  in memory, so `run(resume=True)` after a crash takes a fresh token and goes on with a
  batch whose cancellation was confirmed, whatever the status in the record.

Only model-checked: liveness under fairness (`BatchComesToRest`, `PoolDrains`)
and anything about `ENABLED`. Every invariant and every safety action property of the
passing runs is stated by a theorem. The violated runs have none, of course. No module uses
RECURSIVE.

## 5. Findings

The seven violated runs, quoted in `PROJECT.json` ("findings"): the tag
`pii_indirect` survives a demotion and keeps the column PII; a decision
fingerprinted from evidence is stale before it is enforced; a merge can end a
column's PII by reclassifying it; an overlapping scan undoes a demotion until
the next write; two overlapping first writes give a table two identities; the
cancel endpoint cancels a token no batch checks; a rejected publish node pushes to
the catalog.

Met while modelling, without a run of their own:

- `store/run_merger.py:11` says of a run "discard a run (never merge it)";
  `merge_run` never looks at the status, and folds a discarded run and marks it
  merged (`GetToMerge`).
- A cancel during the last table is never looked at, and the batch ends COMPLETED
  over a record that said CANCELLED (`BatchCompletes`).
- A batch that was cancelled and then crashed is taken up again by
  `run(resume=True)`: the status of the record is not looked at, and the token that was
  cancelled is gone (`Recover`).
- Tasks take the status of the last step of their kind
  (`agents/batch_executor.py:561-569`). With two nodes of one kind in a pipeline, which
  `validate_spec` does not exclude, a batch that pauses between them
  records the second as done although it has not run (`sync_ledger_for_table`).
- A table that fails is recorded as `last_completed_table`; a recovery starts after
  it and may end COMPLETED (`FailTable`).
- A run that cannot be written or merged is a warning in the session's log, followed
  by "PII run written to bucket" (`services/session/steps.py:450`); `scan_complete`
  then replaces the status `error` of a failed step (`CallStep`, `EndScan`).
- A checkpoint saved by a column verdict counts the table items on record only: a
  table can be `guaranteed` whose name, owner or rules nobody has looked at, until the
  steward's own endpoints look (`SetColumn` beside `SetItem`). A contract that
  gains a column afterwards keeps the flag.
- The steward's `finalize` answers `guaranteed: true` although its own second
  write may have stored False (`services/steward_review_service.py:715-721`).
- An approval made by `decide` with "accept" keeps no snapshot and is never
  reset when the contract changes (`outdated`).

## 6. Not modelled

Storage: every put is atomic and reads see the last put, which S3 gives;
`LocalBackend` writes in place, so a reader beside it, or a crash, can meet half
a file. Two keys of one sidecar changed at once (overlay updates of two
columns) are not modelled, since `ContractWrite` has one column. Table-level
definition entries, decision history, business and merged copies, consent and
masking formats do not affect the properties. Environment switches of the leak
guard are at their defaults. A PII `classification` without a `privacy` block,
which redibis' own writers never produce and only an imported contract could
hold, is left out. Components with status `not_modelled`
are listed with the reason in `PROJECT.json`.

Of the components modelled in part: `LineageStore.delete` and `clear`, in-place
writes of `run.json`, two resumes at once and single-table agent runs (`AgentBatch`);
the quality step, which goes like the PII step, discovery and staged sub-contracts
(`ScanJobs`); verdicts of single fields, Deep Enrich facets and `fully_approved`
(`StewardReview`). The counter of the asynchronous memory writer is kept like that
of the job pool, is only shown, and adds no question.

Most of the 158,000 lines of the repository are detection, profiling, model
providers, rule synthesis, catalogs' formats, command line and pages: they compute,
convert or print, hold no state that two callers share, and hand their result to the
contract store, the run store or a session. What they hand over is in the models as a
set of fragments, rulings and step results; a state machine of theirs would have one
step. The map therefore covers a small share of the lines, and most of the
code that keeps a protocol.

## 7. Plan

Done: the modules of section 2 and the proofs of section 4. Next, in this
order:

1. Deep Enrich's merge (version check, upsert, decisions, status) as a module beside
   `RunLifecycle`; catalog and generation ledgers, workspace promotion and
   authentication stores, as far as they keep protocols worth stating.
