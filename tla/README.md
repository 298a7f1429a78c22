# A TLA+ verification of pst-dedupe

pst-dedupe is a desktop and command-line e-discovery tool: it ingests mail stores and document
packages into a *matter* (a directory with a SQLite database and a content-addressed blob store),
runs long processing stages over it, lets reviewers work on the result, and produces volumes for
the other side. The parts that carry the program's own protocols, and that tests reach least, are
the machinery that runs stages (threads, a channel, an OS lock, job rows that survive crashes,
handlers that run other handlers), the resumable stages that decide what is reviewed and produced
(dedupe, cull, promote, produce), and the service that several reviewers share. This project models
those parts, checks them with TLC, and proves their central properties with TLAPS.

## 1. Inventory

| part | state it keeps | operations | talks to |
|---|---|---|---|
| process runner (`process-runner/src/runner.rs`, `progress.rs`, `cancel.rs`) | command channel, accept mutex, active slot with cancel token, progress watch, worker and poller threads | `start`, `resume`, `cancel`, `shutdown`, worker loop, `finalize_job`, checkpoint poller | job rows, matter lock, handlers; called by CLI, desk, chrome |
| job rows (`matter-core/src/jobs.rs`) | one durable row per job, checkpoints | `create_job`, `set_job_state`, `list_jobs`, checkpoints | runner, stages, CLI |
| orchestration (`handlers/workflow_run.rs`, `profile_run.rs`) | durable cursor of nodes, child rows | run, resume, gates, soft failure, cancel cascade | runner calls it; it calls stage handlers |
| dedupe (`matter-dedupe`) | role, tier and canonical item of every item; checkpoint; key maps in memory | parent pass, family pass, resume with rebuilt maps | item rows; run by runner or orchestration |
| cull (`matter-cull`) | included or culled, with reasons, per item; checkpoint | item pass, family pass | reads dedupe's roles |
| promote (`matter-promote`) | review set membership and order; checkpoint with frozen ids | select, expand families, order, write, snapshot | reads dedupe's roles and cull's flags |
| produce (`matter-produce`) | production set and items, a volume of files, `rows.jsonl`, load file, checkpoint | number, package, withhold, sweep, recover, finalize | item rows, privilege claims, blobs |
| multi-user review (`matter-core/src/multi_user.rs`, `privilege.rs`) | users, sessions, item locks with expiry, review versions, batches and checkouts, codes, notes, claims | login, lock, unlock, save with expected version, checkout, checkin | matter service |
| matter service (`matter-service`) | one open matter behind a gate | HTTP requests, each in two halves | HTTP clients, multi-user review |
| matter (`matter-core/src/matter.rs`, `schema.rs`) | SQLite tables, OS lock | open, read-only open, drop, item and review writes | everything |
| CAS and storage (`matter-core/src/cas.rs`, `matter-storage`) | blobs, cache directory and index | put, get, cache fill, evict | matter, ingest, extraction |
| audit (`matter-core/src/audit.rs`) | hash chain | append, verify | every writer |
| analysis, extraction, dedup engine, PST reader and writer, shells | files, tables | scan, hash, parse, export, display | the user |

What is hard in it: several threads and several programs on one matter; a crash at any point with
rows left Running; commands that wait in a channel behind the job they concern; the order of
dropping a lock and publishing that nothing runs; writes whose failure is ignored; a parent and a
child that are both Running; maps, lists and counters that a resume rebuilds from half-written rows;
four stores that no transaction spans; a hold put on an item while it is packaged; a request that
acts for a user who has been logged out or disabled since it was authenticated; locks that expire
under their holder. `PROJECT.json` lists each hazard at its line with the property that would catch it.

What makes each part correct:

* runner: one running job per matter over programs and crashes; a call is answered at once or
  refused, never parked behind a job; an idle runner holds no lock; what is published last is what
  is on disk; cancel and shutdown end.
* orchestration: the plan is executed in order, nothing settled is repeated, success is never
  reported over a failed gate or an unfinished node, and the matter is usable afterwards.
* stages: a job that was stopped and resumed anywhere leaves what an uninterrupted one would; taken
  together they lose no message and split no family; they end.
* production: numbers are never shared, the load file lists what is in the volume, a withheld item
  leaves nothing behind, the counts are right, the job ends.
* review: no lost update, one checkout per batch, locks that only their holder or an administrator
  takes away, nothing left behind by a logout, nothing gained by a disabled account.

## 2. Modules

| module | what it is |
|---|---|
| `JobStates` | states of a job row and `set_job_state`, shared by the runner and orchestration |
| `ProcessRunner`, `MCProcessRunner` | runner, lock, rows, poller, client threads, several programs, crash, CLI cancel |
| `ProcessRunner_proofs` | inductive invariants and theorems about rows, lock and worker of `ProcessRunner` |
| `RunnerCalls_proofs` | theorems about its calls: accept mutex, channel, shutdown, snapshots |
| `PlanExecution` | abstract specification: what executing a plan means |
| `WorkflowRun`, `MCWorkflowRun` | the two orchestration handlers over job rows, cursor and crashes |
| `WorkflowRun_proofs` | inductive invariants, refinement and theorems about `WorkflowRun` |
| `ReviewService`, `MCReviewService` | users, sessions, locks, versions, batches, and requests in two halves |
| `ReviewService_proofs` | theorems about `ReviewService` |
| `MatterItems` | emails, attachments and families, shared by the stages |
| `MatterDedupe`, `MatterCull`, `MatterPromote` | one stage each, as a resumable job; each extends the one before |
| `ReviewPipeline`, `MCReviewPipeline` | the three stages composed |
| `MatterDedupe_proofs`, `CullPromote_proofs` | what each stage keeps in rows, checkpoint and memory |
| `ReviewPipeline_proofs` | the theorems about the composed stages |
| `MatterProduce`, `MCMatterProduce` | the produce job, its four stores, holds and crashes |
| `MatterProduce_proofs` | theorems about numbers, load file, withheld files and counts |

How they fit. `WorkflowRun` is `ProcessRunner` seen from one worker: it keeps the accept rule
(`Admitted` is the durable Running check), the release and the crash, and opens up the handler that
`ProcessRunner` shows as `StageWrites` and `HandlerReturns`. `ReviewPipeline` opens up three of the
stages a workflow runs, and relies on the two results below it: one job per matter at a time
(`ProcessRunner`), and a node begins only after the one before it settled (`WorkflowRun`).
`MatterProduce` and `ReviewService` meet in `item_privilege`: a claim set through the service is the
`Hold` of the produce model.

## 3. ProcessRunner and the code

State. `rows` is the job table; `lock` the exclusive OS lock of each matter; `fresh` the job
identifiers not yet drawn. Per program: `chan` (`mpsc` channel), `tx` (the sender is still there),
`accept` (holder of the accept mutex), `active` and `cancel` (the slot and its token), `wpc` and
`wcmd` (worker thread: where it is, the command in hand), `outcome` (what the handler returned),
`snap` (the progress watch), `poller` and `copy` (the poller and the snapshot it cloned). Per
client thread: `cpc`, `call`, `reply`.

Calls. `CallStart` and `CallResume` take the mutex (`EnterAccept`, which also answers Busy when the
slot is taken), `Send` puts the command into the channel or reports that the worker is gone,
`Return` gives the mutex back once the worker has replied. `CallCancel` raises the token when the
slot names the job and otherwise queues a command. `CallShutdown`, `TakeSender`, `JoinWorker` and
`ShutdownReturns` are the four stages of `shutdown`.

Worker. `RecvJob` with `OpenMatter` takes the lock or refuses. A start goes through `StartAccept`
(Running check, handler lookup, `create_job`), `StartSetRunning`, `StartActivate` (slot and reply);
a resume through `ResumeAccept` and `ResumeReopen`. Then `PublishStarted`, the handler
(`StageWrites`, `HandlerReturns`), `JoinPoller`, `FinalizeJob`, `DropMatter`, `ClearActive`. The
order of the last three, and the step in which the reply is sent, are the code's.

The poller may read the snapshot in one step and write it in another (`PatchClones`, `PatchSends`),
because `ProgressSink::patch` clones and sends without a lock. `Restart` is a crash followed by a new
`ProcessRunner::new`: everything in memory goes, the OS lock is released, rows stay.
`CliJobCancel` is `job cancel` of another program; it is one step because it holds the lock from
open to drop.

Abstractions. A stage is what it may do to its row and when it may return: the runner sees nothing
else of it. Job identifiers are drawn from a finite set. Progress counts, error texts, timestamps
and params are left out. `HasHandler` says which kinds are registered; `StoreFaults` says which calls
of the store may fail (`list`, `create`, `set`), at any call; the `get_job` of `finalize_job`, whose
failure is ignored, is not among them. Publishing the first snapshot and starting the poller are one step,
and so is every round of the poller, which reads its stop flag once and may patch several times: the
poller is joined before the final snapshot, so that no order of these is visible afterwards.

## 4. WorkflowRun, PlanExecution and the code

State. `rows`, `cursor` (durable: for each node a status and a child), `mem` (the cursor in the
handler's memory), `pc`, `idx`, `child`, `term`, `verdict` (thread state of the handler),
`cancelled`, `fresh`, `crashes`. `Kind` chooses the handler, `Plan` is the list of enabled nodes with
their type and tolerance.

Every durable write is a step of its own: `CreateChild`, `SetChildRunning`, `AnnounceChild` (cursor says
running), the child's own writes, `ChildReturns` (`finalize_child` or the gate's two writes),
`RecordChild` (cursor says how it ended), `ChildSoftFailed` (cursor says soft_failed), `CloseParent`,
`FinalizeParent`. A crash may fall between any two. `ReuseChild` is the branch of
`resolve_or_create_child` that continues a paused child. `ResumeChild` resumes a child as a job of its
own, which the runner allows, and `CliJobCancel` cancels one row without its children. `AfterPause` and
`ChildSoftFailed` hold the two places where `profile_run` differs: it has no cancel cascade, and it goes
on after a tolerated failure without a second cursor write. A run that died before its first cursor write
has no parameters for the runner's own resume (`load_resume_params` gives `"{}"`), which answers with an
error and changes nothing; the resume of the model is then that of a caller that passes the definition
again.

`PlanExecution` knows neither children nor cursors nor crashes: nodes are begun in order, one at a
time, settled, passed over (a tolerated failure that a later run may try again) or interrupted, and
the run concludes only when every node is settled or passed over. The refinement mapping reads
`settled` and `passed` off the durable cursor, `current` off the thread, `succeeded` off the parent's
row.

## 5. The stages and the code

Items are numbers in listing order, emails first; `ParentOf` gives the families, nested ones included.
Each stage keeps its fields of the item rows (`dedup`, `cull`, `order`), its checkpoint (`dedupeCp`,
...), the state of its job, and the memory of a running job (`dedupeRun`, ...), which a crash or a pause
throws away. A job's parameters are not in its row: a resume finds them in the checkpoint, and a job that
stopped before its first one is resumed with `"{}"`, that is with defaults (`runner.rs:609`, `729-781`),
unless a workflow or a profile passes them again. A batch is committed with the checkpoint in one step,
because the code writes both in one transaction. `...Start` is a new job, `...Resume` continues from the
checkpoint, `...Again` makes a new job of a stopped or finished one, `...Pause` is the cancel token seen
at the places where the code polls it, `...Crash` may happen anywhere. `stops` bounds them.

`MatterDedupe`. The parent pass is one email at a time (`DedupeSkipParent`, `DedupeResolveParent`, with
the batch committed when it is full, `DedupeFlushParents`), then `DedupeEnterFamily`, then one attachment
at a time (`DedupeChild`, `DedupeNextDupParent`, `DedupeFlushFamily`), then `DedupeSucceed`. `Tier`,
`CanonicalFor`, `SeedMaps` and `RebuildMaps` are the key logic. The promise is stated without passes (a
resume without a checkpoint may take the default of `reset`, which is on, for the job's own; the other
options do not differ from their defaults in the run): `Representative(e)` is the first email with e's
Message-ID, or else the first with its logical hash among those that stand for themselves.

`MatterCull`. `CullItem` is the item pass, `CullDecide` reads the rows back, applies the family
policy round after round (`FamilyRound`) and builds the update list, `CullWriteFamily` writes it by
index, one batch at a time. All rules but
the duplicate rule are one set of items, `hits`. `rules` says which parameters are in force: the job's
`"own"`, or after a resume without a checkpoint the `"default"` ones, the preset `unique_only` (`Hits`,
`Excludes`, `FamilyPolicy`, `Reset`, `BatchSize`, and attachments are candidates). The properties speak
of the rules in force, since these decide and are the ones the checkpoint freezes.

`MatterPromote`. `Membership` selects, expands families twice and orders; the ids are frozen in the
checkpoint; `PromoteWrite` numbers them in batches; `PromoteSnapshot` and `PromoteDone` are the two
last writes. `reset` is on, and the options are the defaults, so that a resume without them changes nothing.

`MatterProduce`. The four stores are the database with `record` (`production_items`) and `pageRows`
(`production_image_pages`, written with `record` in one transaction), `files` (the volume: number,
extension, item), `rows` (`rows.jsonl`) and `cp` (the checkpoint). A purge finds the files of an item
through its line, its record and its page rows. One item takes the steps `Gate`
or `GateRecord`, `Recover` or `Produce` (files), `RecheckWithheld`, `Persist`, `AppendRow`, `Save`;
`Decline`, `Unreadable` and `PackagingFails` are its other ends. The sweep of late holds runs before
the loop and again before the load file; `WriteLoad`, `ImageMismatch`, `FailImages` and `Complete` finish.
`Hold` and `Release` come from reviewers at any time. A crash may also lose files that no checkpoint
calls done (`Unsynced`). `Run` is a start or a resume with a checkpoint; without one the
runner's resume fails for want of `bates_start` and changes nothing, and only a caller that passes the
parameters again runs the job (`Rerun`). `Taken` is the unique index on control numbers; when it refuses a
row the job fails (`Refusals`) and the files already written stay. `Setup` is one step: a crash between
`create_production_set` and the checkpoint would leave a production set that nothing uses. `Intact` takes a
text-only item of an image production as recoverable, where the code packages it again, to the same files.

`lost`, `held`, `undone` and `reopened` are history variables for the properties. `lost`: some run ended
without saving its cursor. `held`: what was on hold when the last sweep began. `undone`: what a run that
died had taken back for a hold without saving so. `reopened`: the hold of such an item was lifted, now or
later. The next run does not know that the item was taken back, and the three safety properties about
numbers and volume are false from there on (section 8).

## 6. ReviewService and the code

A request is two steps: `Authenticate` (the `AuthUser` extractor takes the gate, resolves the token,
releases the gate) and its handler, which takes the gate again and is one transaction. `Handle` names the
role a route asks for, `ActiveActor` the check of the actor inside the transaction, `Reject` any refusal.
`CanMutate`, `InCheckedOutBatch`, `VersionMatches` and `BumpVersions` are the guards of a review write,
`Mutate` the write: `ApplyCodes` (with single-choice groups, the privilege code and family propagation),
`UpsertNote`, `UpsertPrivilege`. `LogoutToken` is a logout whose token no longer resolves; `Logout` ends
every session, lock and checkout of the user, at whichever clients they are. A session belongs to a
client and names a user; `AccountsOf` says who logs in where, and one user may be logged in at several
clients. `away` are the users who have logged out since they last logged in, and `late` the clients with
a request that was authenticated before that logout and is not answered yet: such a request may still
take a lock or a batch, which is the one way to hold something after a logout (`EndsAway`). Time is
abstract: a session or a lock may lapse at any step. `view` keeps what a client saw when it read a
version, which is what a lost update is about.

## 7. Runs

| run | bounds | shows |
|---|---|---|
| `runner_two_procs` | 2 programs, 1 matter, 2 jobs, 1 restart | one writer and one Running row across programs, crash and CLI cancel |
| `runner_one_proc` | 1 program, 2 threads, 3 jobs, one without handler, 1 restart, every call | accept mutex, order of release, final snapshot, shutdown, poller |
| `runner_liveness` | 1 program, 2 threads, 1 job, 1 restart, every store fault, fairness | an accepted call returns, a raised token ends the job, no caller waits for ever, a refused call leaves no job marked active |
| `runner_queued_cancel` | violation expected | finding 1 |
| `workflow_run` | 3 nodes, 7 child identifiers, 2 crashes | plan carried out, success backed, ended children stay ended, matter freed |
| `profile_run` | 2 stages, 4 child identifiers, 1 crash, every store fault | `profile_run` carries out its plan even so |
| `workflow_wedge` | violation expected | finding 2 |
| `review_service` | an administrator and a reviewer, the second at two clients, a family of 2 items, 1 batch, 2 writes | no lost update, entitled writes, one checkout, locks, logout, disabled accounts |
| `review_pipeline` | 3 emails and 4 attachments with a nested one, every keying over 1 Message-ID and 2 hashes, 2 stops | each stage is exact, nothing is lost, families stay together, the pipeline completes |
| `cull_resume` | violation expected | finding 3 |
| `produce` | 4 items (nothing to package, a two-page image that may fail, a spreadsheet that may fail, one that cannot be read), 2 stops, 2 holds, releases, with and without abort | numbers, load file, withheld bytes, counts, progress |
| `produce_withheld` | violation expected | finding 4 |

The runner's runs check deadlock: from every state some thread, or the CLI, can move. The others do
not, because a succeeded plan, pipeline or production, or a service that has used up its writes, has
nothing left to do.

Why the bounds are enough. Races of the runner are between two clients, or between a client and the
worker, or the worker and the poller: two threads have them all, and two jobs are needed for a command
about another job than the active one (three when one of them has no handler). Two programs on one matter
is the smallest case of exclusion; each program has one client there because the races inside a program
are the other run's. One restart leaves one orphaned Running row, which is the state the durable check is
for. The plan of the workflow runs has a tolerated node, a gate that asks for tolerance, and a strict
node; two crashes allow a crash during the recovery from a crash, and the child identifiers suffice for
two runs that create every child anew (a run starts only when one identifier per node is left, so no
behaviour ends for want of one in the middle). A review write is between one writer and one other actor
who locks, checks out, logs out, disables or writes, or between two clients of one user, one of which
logs out while the other's request is in flight; a family of two has propagation; after the last write
nothing is opened any more, since nothing could be written over; the proofs remove the bound. Three
emails are the least for a representative by Message-ID that is not the one by hash; batches of two and
three fall inside and across families; two stops allow a crash of a resumed job. Four items give
production every kind of item, and an item before and after a page span. Jobs, programs, children and
items are symmetric where no liveness property is checked.

Restrictions. `produce` has no crash between the files of an item and their record (`CrashPoints`): that
is finding 4. Crashes, pauses, holds and releases are otherwise mixed freely; the properties themselves
name their exception, a behaviour with `reopened`. `review_pipeline` culls with `reset`; without it, see
finding 3.

Fairness. `CooperativeFairness` of the runner: client, worker and poller threads are operating system
threads that keep running, weak fairness of each. A handler is assumed to return only when its token
has been raised, since every stage polls the token between batches; it may run for ever otherwise.
`EveryCallReturns` carries its extra assumption, that handlers finish by themselves because they go
through finite lists, in its statement. `ReviewPipeline` and `MatterProduce` have weak fairness of
`Progress` only: the worker thread goes on, and a stopped job is resumed by its user. Pauses, crashes,
holds and repeated jobs are never forced, and there are finitely many. `Progress` of `MatterProduce`
resumes a job that has its parameters; `Rerun` is not part of it, so that `ProductionEnds` speaks of
productions that have frozen their selection.

## 8. Findings

1. `runner_queued_cancel`: a cancel that arrives between the accept of a job and the moment it becomes
   active is put into the channel ("job may not yet be marked active") and served after the job.
2. `workflow_wedge`: a crash while a child runs leaves parent and child Running. Each makes the resume
   of the other Busy, and cancel finds nothing active; the CLI's `job cancel` is the way out, once per row.
3. `cull_resume`: without `reset`, the family pass leaves out of its update list the rows that already
   have their value, and saves an index into that list. On resume the list is rebuilt, without the rows
   written meanwhile, and the index skips rows, or exceeds the list and the job can never be resumed.
   The code says "so resume is exact".
4. `produce_withheld`: the purge of a withheld item looks for its files through its line, its record or its
   page rows. If the program dies right after it wrote the files there is none, and a hold put on before the
   resume leaves the bytes in the finished volume. The code says "so withhold/failure never leaves bytes".

Not runs, but met on the way:

* `run_start` and `run_resume` skip the Running check when `list_jobs` fails, so that a second Running row
  is possible after a crash; `SingleFlight` assumes that it does not fail.
* A cull stopped before its first batch and resumed by the runner is carried out with the preset `unique_only`
  instead of its own rules, and succeeds. `rules` shows it; `CullMatchesPolicy` is about the rules in force.
* A produce job stopped before it saved its selection cannot be resumed by the runner at all ("bates_start
  is required"), although `process-runner/README.md` calls the parameters of produce optional.
* `reopened`, first: a sweep takes a withheld item back in memory, a later item records its number, the
  program dies before the checkpoint, the hold is released, and the first item is packaged under the
  number the later one has. The unique index refuses it, at every resume: the job never ends, and the files
  of the refused row stay in the volume.
* `reopened`, second: a sweep purges the files of an item put on hold late, the program dies before
  `rows.jsonl` is rewritten (`run.rs:1574-1583`), the hold is released, and the resumed sweep passes the item
  by, since it is done and not on hold. The load file lists an item that has no files.
* A request that was authenticated before its user's logout may take a lock or a batch after it, which stays
  until it lapses, is released by an administrator, or the user logs out again.

## 9. Proofs

`ProcessRunner_proofs` proves, for any sets of programs, threads, jobs and matters and any bound on
restarts (assumptions: `ConstantsAssumption`, evaluated by TLC in every run):

* `TypeCorrect`: `Spec => []TypeOK`.
* `HandlerOwnsMatterTheorem`: `Spec => []HandlerOwnsMatter`.
* `SingleFlight`: if `"list" \notin StoreFaults` then `Spec => []OneRunningRowPerMatter`.

Argument. None of the three is inductive alone. `TypeOK` needs `CallOK` (a client that is about to
send holds a command it built itself), `WorkerOK` (a worker outside `recv` executes a start or a
resume) and `RowOK` (the row of the job in hand exists): together `TypeInv`. `HandlerOwnsMatter`
needs `LockOK` and `ActiveOK` for every program counter between open and drop (`OwnerInv`): the lock
is taken in one step and given up in another, and nothing in between touches it, restart excepted,
which resets the program counter too. `OneRunningRowPerMatter` needs `AloneOK`: a worker that has
passed the Running check and has not yet written its row is the only one in the matter, and no
*other* row of the matter is Running. This holds because the check and the write happen under the lock,
so `SingleFlight` rests on `OwnerInv`. Each `...Next` lemma has one step per action; `OwnerStutter`,
`OwnerMoves` and `FlightKept` state once what most actions do, namely nothing that matters.

`WorkflowRun_proofs` proves, for any plan, any child identifiers and any bound on crashes
(assumption: `PlanAssumption`, evaluated by TLC):

* `TypeCorrect`: `Spec => []TypeOK`.
* `RefinesPlanExecution`: `Spec => ExecutesPlan`, with every store fault allowed.
* `ReturnFreesMatterTheorem`: `Spec => []ReturnFreesMatter` if only the lookup of a handler and
  `create_job` may fail. A failing cursor or state write can leave a child Running.
* `SuccessIsBackedTheorem`: `Spec => []SuccessIsBacked` if state writes succeed: `finalize_child`
  ignores a failing one and still records success.
* `EndedChildStaysEndedTheorem`: `Spec => EndedChildStaysEnded`.

Argument. `TypeInv` adds to `TypeOK` that an entry which says something names a child (`CursorOK`) and
that the loop stands at a node with a child in hand (`HandOK`). The refinement needs `RunInv`: while
the loop runs, memory and checkpoint agree and every earlier node has had its turn (`LoopOK`), the
current entry says how far the child has got (`EntryOK`), and success is only ever the verdict of a
finished plan (`VerdictOK`). Each handler step is then a stutter, except five: `AnnounceChild` begins a
node, `RecordChild` settles it, passes it over or is an interruption, `ChildSoftFailed` settles a node
passed over, a crash or a failing write interrupts, and `CloseParent` or `FinalizeParent` concludes.
`ReturnFreesMatter` follows from `RunningOK`, which says for every program counter who may be Running;
`SuccessIsBacked` from `VerdictOK` and `BackedOK`, which rests on succeeded rows never changing
(`FreshNext`, since an identifier not drawn yet has no row).

`ReviewService_proofs` proves all seven properties of its run for any users, clients, items, families,
codes and batches (assumption: `ReviewAssumptions`): `TypeCorrect`, `NoLostUpdateTheorem`,
`OneCheckoutTheorem`, `LoggedOutTheorem`, `WriteIsEntitledTheorem`, `LockKeepsHolderTheorem` and
`DisabledTakesNothingTheorem`. Argument. `WriteShape` reduces the three kinds of write to one, `Mutate`.
`NoLostUpdate` is inductive with `TypeOK`: a write raises the version of every item whose review it
touches, so a client that saw an older state holds an older version. `OneCheckoutPerBatch` is inductive
because the handler tests and inserts under the gate. `LoggedOutHoldsNothing` is inductive since `away`
is left only by a login or by a late request that takes something, every way to get a lock or a checkout
needs an authenticated request, that needs a session, and a logout ends the user's sessions at every
client: a request of a user who is away is late (`AwayStaysBare`). The three action properties need no
strengthening but the type: each follows from the guards the handler evaluates in its own half of the
request, whatever the other half saw.

`RunnerCalls_proofs` proves the other safety properties of the runner, in the same generality:
`NoJobQueuedBehindJobTheorem`, `IdleMeansUnlockedTheorem`, `RefusedCallTheorem`,
`ShutdownReleasesTheorem` and `TerminalSnapshotStaysTheorem` without hypotheses, with every store fault
allowed, and `SnapshotMatchesRowTheorem` if `"set" \notin StoreFaults` (`finalize_job` publishes the
final state even when it could not write it). Argument. `CallsInv` ties a caller to its command: whoever
queued a command, or whose command the worker decides on, waits for that one answer (`QueuedOK`,
`DecidedOK`), holds accept from the check of the slot to the answer (`AcceptOK`), and finds the slot
empty until the worker fills it for that very call (`SlotOK`). So while a start or resume is open no job
is active, which is `NoJobQueuedBehindJob`. `EndInv` says what holds on the way out: the slot still names
the job while the lock is dropped (`DropOK`), a worker leaves its loop from between two commands
(`ExitOK`), and the poller lives only while the handler runs, with a copy that is the snapshot
(`PollerOK`). A refused call is a caller with an error in hand: it still holds accept, and its worker has
emptied the slot or never filled it.

`MatterDedupe_proofs` proves, for every matter, keying, set of options, batch size and number of stops
(assumptions: `ItemsAssumptions`, `DedupeAssumptions`), that every role in the rows is the reference role
(`DedupeRolesTheorem`). `RolesAreReference` is not inductive: the inductive invariant `DedupeInv` adds
that the emails before the checkpoint's cursor have roles, that everything staged is a reference role,
that every email before the running cursor has its role in the rows or in the batch, and that the two
maps hold exactly the first representative under each key among those emails (`MapsExact`).
`SeedKeepsExact` is the step of the pass, `RebuildIsExact` the resume, `CanonicalIsRepresentative` the
step from maps to role, and `FirstOfIsMin` is where the order of the listing enters (through
well-foundedness of `<`). The counters need `DedupeCountInv`: a cursor counts the items without a role at
the job's start that have one in the rows it is written with (`Counted`); the memory's cursor counts the
same over the rows overlaid with the batch, so a commit makes the one the other (`CommitKeepsCount`), and
a crash falls back to a pair that fits. `ProgressOK` and `MemoryExact` add what keeps an item from being
counted twice: with reset no email beyond the cursor has a role, and what is staged in the family pass
belongs to a duplicate before the cursor or is in `done`.

`CullPromote_proofs` does the same for cull and promote, as lemmas. Cull (`CullAssumptions`). `CullInv`:
behind the checkpoint every candidate has a flag. `ExactInv`, for `reset`: in the item pass the rows
behind the checkpoint are the items' own flags; in the family pass each row is the item's own flag or its
reference flag, and the first `index` ones are reference flags. The heart is `PolicyReaches`: from any
such mixture the family rounds reach the reference, because after n rounds the items up to n, which come
after their parents, are settled and stay so; hence a resume that decides again from half-rewritten rows
builds the same list. The recursive functions are unfolded once, by a least counterexample
(`AncestorsUnfold`, `RoundsFacts`). The rules in force change only while the checkpoint is fresh, that is
while nothing has been written under them (`RulesStay`). `KeptOK`: an email that stands for itself and is
hit by no rule is never flagged but as included. Promote (`PromoteAssumptions`). `PromoteInv`: the memory
is the checkpoint with the frozen list, and the first `index` of the list have exactly their places
(`OrderOK`); `OrderedFacts` shows that the list has every member once, in family order.

`ReviewPipeline_proofs` composes them: `PipelineInv` joins the stage invariants with `CullStageOK` and
`StageOK` (a later stage that has started has succeeded stages before it), so that a step of one stage
finds the next not started and leaves the rows others rely on alone. Theorems: `PipelineTypeTheorem`,
`RolesAreReferenceTheorem`, `DedupeSuccessIsExactTheorem`, `ReviewSetIsExactTheorem`,
`FamiliesStayTogetherTheorem` and `NothingLostTheorem` without hypotheses, for every matter, nesting,
policy, batch size and number of stops; `CullMatchesPolicyTheorem`, about the rules in force, if
`CullReset`, since without it the claim is false (finding 3). `NothingLost` does not rest on it: `KeptOK`
holds without reset too.

`MatterProduce_proofs` proves, for any number of items, pages, holds and stops (assumption:
`ProduceAssumptions`):

* `ControlsNeverSharedTheorem`, without hypotheses.
* `LoadFileIsExactTheorem`, if `ReadsAreStable`: `get_item` fails on an item always or never. An
  item that is readable at one time and not at another leaves page rows and files that nothing lists.
* `NoWithheldBytesTheorem`, if moreover `FilesAreRecorded`: no crash between the files of an item and
  their record (finding 4), and no item that may be skipped in one run and fail fatally in another,
  which leaves its native file.
* `CountsMatchVolumeTheorem`, without hypotheses; the property itself speaks of behaviours that lose no memory.

Argument. `NumberInv` compares rows, checkpoint and memory: what the checkpoint calls done has numbers
below its `next`; at most one other item has a number, and it is `next`; every item before that one is
done or on hold (`NumbersOK`, `CursorOK`). So an item packaged again after a crash gets its own number
back. `VolumeOK` says that what is done is delivered unless a sweep is about to take it back, `FilesOK`
that every file is reachable from the database or is being written, which is what a purge needs, `HeldOK`
how far the last sweep has come, `CountInv` that the counts are those of the cursor the next step counts
on. The invariants hold up to `reopened`; until then `UndoneOK` says that what a dead run was taking back
is still on hold, so it is not packaged before another sweep or gate has seen it. The constants of the
run `produce` satisfy both hypotheses.

Only model-checked: the five liveness properties (`AcceptedCallReturns`, `CancelStopsJob`,
`EveryCallReturns`, `PipelineCompletes`, `ProductionEnds`), which are out of the prover's reach. Every
safety property and every action property of a passing run is a theorem.

## 10. Not modelled, and what is left

Not modelled at all: file formats (PST, PDF, Office, ICS, Teams), external tools (OCR, speech),
numeric and text analysis, the offline dedup engine and its command line, SQL schema and queries,
user interfaces. They make up most of the repository's lines; they are sequential, or pure I/O, or
too large for TLC. Inside the modelled parts: the grandchildren of a `profile_run` node in a workflow, a
profile edited between two runs, progress counts; QC samples, OIDC and tenants of the service; several
review sets and `fail_if_empty` of promote; rendering and profiles of produce;
`rewrite_rows_jsonl_excluding` is one step in the model although it truncates and writes.

What is left, in order:

1. `BlobCache`: `cached.rs` and the temporary file and rename of `cas.rs`: concurrent fills of one
   digest, eviction, restart with an empty index. Property: what a get returns is the blob or nothing.
2. `SingleFlight` as a theorem of the runner and the orchestration together: `WorkflowRun` states the
   accept rule again instead of instantiating it.
3. The keep-set grouping of `dedup-engine` as operators against a reference definition.
