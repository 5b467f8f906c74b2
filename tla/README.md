# Cowtree: specifications, model checking and proofs

Cowtree gives many agents writable copies ("leaves") of one versioned tree.
Its core is the *metadata authority* (`crates/metadata`): a SQLite database and
a directory of content-addressed files that decide which leaf may change which
path, what each leaf captured, and which captures become versions of the tree.
Around it, `crates/workspace` materialises leaves as directories and replays
interrupted operations from journals, `crates/libcowtree` clones worktrees, and
`crates/process` supervises the commands that check a candidate. `ci/` is the
TypeScript program that generates the repository's workflows and decides who may
contribute.

This directory holds specifications of the authority, of the workspace's journaled
operations, of the supervisor and of the CI program. TLC checks all of them on small
instances; TLAPS proves, for every value of the constants, the authority's refinement
and every safety property of every part that the runs check and find true. `PROJECT.json` is the index: which definition models which lines of
source, which run checks which property, a mutated definition that shows each
property can fail, and the list of hazards the properties are for.

1. [Inventory](#1-inventory)
2. [The specification](#2-the-specification)
3. [What is checked](#3-what-is-checked)
4. [What is proved](#4-what-is-proved)
5. [What is not modelled](#5-what-is-not-modelled)
6. [Plan](#6-plan)

## 1. Inventory

### The metadata authority (`crates/metadata`)

One process per call, or one per connection; any number at once. Every
operation is one or more SQLite `IMMEDIATE` transactions, with reads and writes
of files between them. That "between" is where the difficulty is.

| Component | State | Operations | What is hard | What makes it correct |
| --- | --- | --- | --- | --- |
| Leaves, uploads (`database.rs`) | `leaves`, `uploads`, object files | `create_leaf`, `stage`, `discard_upload`, `open`, `tip`, `snapshot`, `read` | `stage` writes its payload between two transactions while a discard, a collection and a second `stage` of the same bytes may run | a ready upload has its bytes; counters refuse at their end and never reuse an identity |
| Reservations, views (`leases.rs`) | `leases`, `views` | `acquire`, `activate`, `edit`, `release`, `revoke`, `discard`, `drop_leaf` | paths overlap by ancestry; a lease may be revoked, taken by another leaf and return with the same value; every operation counts against one limit from its own side | exclusive authority; a lease's origin is the tip's value; a grant has its view; read-only scopes never change |
| Capture, publication (`publication.rs`) | `proposals`, `epochs`, `settings.tip`, manifests | `propose`, `prepare`, `commit`, `abort` | `prepare` is four steps and `commit` three; each may meet an abort, another preparation, another leaf's publication or a collection in between | no lost update, no double publication, a superseded candidate never publishes |
| Batches (`batch.rs`, `docs/batch-publication.rst`) | the members' `batch_id` | `prepare_batch`, `commit_batch` | the members are separate rows that other calls may change one by one | all members are published in one version or none is |
| Resolution (`resolution.rs`) | `proposals` | `resolve` | combines several captures of which some were retired or published | authority and namespace hold; the bound on pending requests holds though it is not compared |
| Retention, collection (`maintenance.rs`, `client_pins.rs`) | `retained_epochs`, `client_pins`, all rows, all files | `retain`, `release_retention`, `replace_client_pins`, `maintain` | pruning and collection are two transactions; collection may die between two unlinks | reachable bytes stay; bases stay; pruning makes room again |
| Object store (`objects.rs`, `durability.rs`, `fault.rs`) | files, temporaries, directory lock | `put`, `read`, `remove`, `remove_pending` | temporaries are linked under a shared lock and swept under an exclusive one | a linked file is complete; the sweep removes nothing a writer will link |
| Import (`import.rs`, `files.rs`) | `import`, `import_entries` | `begin_import`, `import_chunk`, `finish_import` | resumption after a crash between payloads and cursor | the published tree is the imported one |
| JSON client (`json_cli.rs`) | none | one per operation | none | decoding |

The tables and the order of publication are described in
`crates/metadata/README.md` (its operations table and the sections on
publication order, retention and bounds); the modules are written from the
code and not from these texts.

### The workspace (`crates/workspace`)

One process holds `session.lock` and reconciles on entry: views, seals, forks,
captures, publications, drops and collection, in that order, and only then pins
its origins. Two things go on outside the session, under locks of their own: a fork
fills its directory, and a check runs its command. `abort` takes the lock without the full reconciliation, so that a
leaf can be given up while something else is stuck.

| Component | State | What is hard | What makes it correct |
| --- | --- | --- | --- |
| Sessions, records, recovery (`session.rs`, `recovery.rs`, `records.rs`) | lock file, JSON records | every operation may have died at any write; recovery may die too | each reconciliation is idempotent, and the order above is sufficient |
| Journaled views (`views.rs`, `installation.rs`, `projection.rs`) | `ViewRecord` (before, tokens, paths, grants, after), `install.json`, backups, the leaf's files | the user edits the same files; tokens may be stale when it is completed | a file the user changed is never overwritten; on abort grants that were new are released |
| Fork, drop, check leaves (`leaves.rs`, `lifecycle.rs`, `checks.rs`) | `fork.json`, `drop.json`, fork locks, check locks | the authority made a leaf whose identity was never recorded; a check outlives its coordinator | recovery drops exactly the unknown leaf; nothing is left over; a running check keeps its leaf |
| Seals (`seals.rs`) | `seal.json`, retained nodes | the node is there and the record is not | the checkpoint is completed or forgotten |
| Captures and publications (`captures.rs`, `publications.rs`, `batches.rs`) | pending record, sequence, `refs` | the authority committed and the reply was lost | the record and the authority agree after recovery; each receipt is applied once |
| Checks (`checks.rs`) | check lock, candidate, verdict | the command runs without the session lock | a verdict is bound to the candidate it ran on |
| Nodes, collection (`nodes.rs`, `collection.rs`, `images.rs`) | immutable nodes, trash with markers | a node becomes a root again while it is in the trash | nothing a record names is removed |
| Git, submodules | git's | none of its own | parsing |

### The rest

| Component | Note |
| --- | --- |
| `crates/libcowtree` creation | reserve, populate, register, and the rollback of each when a later one fails or is cancelled |
| `crates/process` supervisor | a deadline, a log limit and the leader's exit race for one process group; the group inherits the check's lock |
| `ci/cli.ts` | generates the workflow files, and checks that the index holds what the sources render; both are lists of commands that stop at the first failure |
| `ci/ci.ts`, `metadata.ts`, `native.ts`, `steps.ts` | jobs and their steps: each step relies on what earlier ones put on the runner, any may fail, hang or be cut |
| `ci/vouch.ts`, `vouch-actions.ts` | who may contribute: a policy file on the default branch, changed by comments, read by checks of pull requests that overlap with it |
| `crates/git`, `crates/cli`, `crates/xtask` | stateless drivers |

## 2. The specification

### The authority

The modules extend one another in the order in which the operations were built,
so that each has all the tables in scope and adds its own actions.

| Module | Models | Actions |
| --- | --- | --- |
| `Tables` | `schema.sql`, `types.rs`, the guards that several operations share (`validate`, `admit_proposal`, namespace validation), `Init` | none |
| `Uploads` | `database.rs` | `CreateLeaf`, `BeginStage`, `StorePayload`, `FinishStage`, `FailStage`, `DiscardUpload` |
| `Leases` | `leases.rs` | `Acquire`, `Activate`, `Edit`, `Release`, `Revoke`, `Discard`, `DropLeaf` |
| `Publication` | `publication.rs` | `Propose`; `BeginPrepare`, `PinCandidate`, `StoreCandidate`, `ReadyCandidate`, `FailPrepare`; `CheckCommit`, `VerifyCommit`, `Commit`, `FailCommit`; `Abort`, `AbortUnsubmitted` |
| `Batches` | `batch.rs` | the same steps for a set of requests |
| `Resolution` | `resolution.rs` | `Resolve` |
| `Maintenance` | `maintenance.rs`, `client_pins.rs` | `Retain`, `ReleaseRetention`, `ReplaceClientPins`, `PruneHistory`, `Collect`, `InterruptedCollect` |
| `Authority` | all of it | `Next`, `Spec`, every property |
| `ReservedTree` | what clients are promised | `Reserve`, `Withdraw`, `Capture`, `Publish` |
| `MCAuthority` | the instances | none |
| `AuthorityProofs`, `PossessionProofs`, `RetentionProofs` | the theorems | none |

**State.** A table is a function from its key to a row or `None`. The
directory of objects is two sets, `objects` for payloads and `manifests` for
trees. A call that has run one of its transactions and not yet its last is an
element of `stages`, `prepares`, `commits`, `batchPrepares`, `batchCommits` (or
counted by `sweeps`) that carries the values it read: its attempt, its parent
version, the tree it built. Those values are what may be stale when they are used.

**Steps.** A transaction is one action, because SQLite makes it so: `IMMEDIATE`
transactions exclude one another. What a call does between two transactions
(reading or writing files) is an action of its own whenever another call could
tell. A crash or an I/O error is the element leaving its set (`FailStage`,
`FailPrepare`, `FailCommit` and their batch forms): the rows and files it left
stay. `InterruptedCollect` is a collection that unlinked some of what it meant to
and died before its transaction committed.

**Ghosts.** `history` is every version ever published and by which requests;
`captured` what each request captured and at which version. No guard reads them.
They outlive pruning, and that is what makes a property like "published at most
once" say something after the row is gone.

**Abstractions.**

- A manifest is identified with the tree it encodes, because its name is a
  digest of that tree. A payload is an element of `Object`.
- A value is an object and the read-only scope an import bound it to, or `None`.
  The mode and the size of a file are not distinguished.
- Edit revisions, input digests, and the limits in bytes (payloads, WAL,
  metadata) are left out. They make calls fail; a call that fails changes nothing.
- A caller's arguments are the paths, leaves and requests of the bounds. A call
  with a stale grant or candidate is refused without an effect, so the actions
  range over the stored grants and candidates. A grant is compared field by
  field with the stored row, so a match means it *is* the stored row.
- `LIMIT` in receipt pruning orders by version only, and the receipts of one
  batch share theirs: which of them go is a nondeterministic choice.
- `put` and `remove` of a file are single steps (see section 6, `ObjectStore`).

**Initial state.** The authority as a finished import leaves it, after
`InitialLeaves` calls of `create_leaf`, a `stage` for each of `InitialUploads`
and an `acquire` and `activate` for each of `InitialHolds`. All of these are
reachable; starting there lets a run spend its states on what follows.

**Fairness.** `Authority!Spec` has none. The authority is a passive
store: it has no thread, timer, queue or retry of its own, and nothing in the code
obliges a client to call. A liveness property of it would be a property of its
clients.

### The workspace

| Module | Models | State and actions |
| --- | --- | --- |
| `Installation` | `installation.rs` | admission of a change set, its order, what one replacement needs; operators only |
| `Views` | `views.rs`, `resolution.rs`, parts of `session.rs` | one leaf's files and Git head, its record, the authority's reservations, the journal, the session; `acquire`, `sync`, `discard`, `resolve` step by step, and `recover_views` |
| `Captures` | `captures.rs`, `publications.rs`, `batches.rs`, the verdicts of `checks.rs` | the authority's requests and epochs, leaf records, receipts, tip node, Git reference, running checks; every write is a step, and so is every write of `reconcile` |
| `Supervise` | `crates/process` `supervise.rs` | leader, other members of its group, supervisor and its limits |
| `Leaves` | `leaves.rs`, `lifecycle.rs`, the leaves of `checks.rs`, the check part of `collection.rs` | identities, directories, records, fork and drop journals, coordinators, check locks; composes `Supervise` |

**Processes and crashes.** One session runs at a time, because `session.lock` is an
exclusive file lock; its steps are the durable writes of the code in their order.
A kill may fall between any two, also inside a recovery. What a kill leaves is
exactly what was written; a record is written to a temporary name and renamed
(`records.rs`), so it is there whole or not at all. A removal of a journal's directory
and a clone of a file are the two exceptions: `Torn` lets a kill split them. The locks a
process held are free once it died, except those a child inherited: the supervisor, the
command and its descendants hold the check's lock (`Living` in `Supervise`).

**What the world does meanwhile.** In `Views` the user writes, creates and deletes files
whenever no session runs, an administrator revokes, and other leaves acquire and publish
at any time. In `Captures` reservations are revoked and checks run, succeed and fail
outside the session. In `Leaves` two coordinators fork, check, drop and collect.

**The authority seen from here.** `Views` and `Captures` keep of it what the workspace can
tell apart: tokens, activation and origins of reservations; the state, attempt,
batch and version of a request. Its own steps are single ones there, because its calls
are: section 3 checks that calls in flight amount to that (`KeepsPromise`).

**Abstractions.** A file's bytes are a value; modes, mtimes and directories' metadata are
left out. `Views` has one leaf, since the session excludes the others and what they do to
the authority is `Other`. `Captures` has one path per leaf, and the acquire inside
`capture` is one step there since `Views` checks its steps. `Leaves` does not look into a
checkout, and removes a tree in one step: after a partial removal the same recovery
removes the rest. A Git child that inherits the session's lock only prolongs it.

### The CI program

| Module | Models | State and actions |
| --- | --- | --- |
| `Generated` | `ci/cli.ts` | worktree and index of the developer's machine and the runner; `generate` and `check` command by command |
| `Workflows` | `ci/ci.ts`, `metadata.ts`, `native.ts`, `steps.ts`, the native-filesystems action | each job as the sequence of its steps with what a step needs, gives and leaves; the runner starts, skips, ends, fails or cuts them |
| `CI` | their composition | the developer edits, stages, checks and pushes; the jobs run on the pushed commit |
| `Vouch` | `ci/vouch.ts`, `vouch-actions.ts` and its two actions | the policy in every commit of the default branch, pull requests, runs of both workflows and their steps |

What a generator renders is a constant (`Render`); what `check-pr`, `manage-by-issue`, the
service's queue of runs and Git do is external, taken from how the workflows use it.

**Fairness, and why the code justifies it.** Two specifications have it.
`CI!FairSpec` is weakly fair for `Cut`, the service's time limit on a job, and for
nothing else: no step is promised to end by itself.
`Leaves!Spec` is weakly fair for `LimitPasses`, because a clock runs on, and for
`monitor` and `terminate`, because the supervisor is a process of its own that polls
every 50 ms and calls nothing that waits for the coordinator. It is not fair for
coordinators, for the command or for its descendants: those may do nothing for ever.

## 3. What is checked

### The authority

Six runs check `Authority!Spec` with some of its operations enabled (the
constant `Calls`). All runs set `CHECK_DEADLOCK FALSE`: every counter has a last
value at which the code refuses the call (`checked_add`), so a behaviour of a
bounded instance does end.

| Run | Instance | Properties | States |
| --- | --- | --- | --- |
| `reserve` | two leaves, `d`, `d/f`, a read-only `m`, `m/x`; two retained paths; leaves are created and dropped | `TypeOK`, `ExclusiveAuthority`, `ActivatedLeaseHasView`, `RetainedPathsBounded`, `ReadOnlyIsImmutable`, `KeepsPromise` | 80 000 |
| `turns` | two leaves, one path, two values, four versions, five tokens | `LeaseOriginIsTip`, `CaptureIsFenced`, `KeepsPromise` | 300 000 |
| `races` | two leaves, a path each; two attempts; two calls in flight; single and batch | `CandidatesOK`, `NoLostUpdate`, `PublishedOnce`, `BatchIsAtomic`, `KeepsPromise` | 260 000 |
| `merge` | one leaf holding `d` and `d/f`, four requests; `resolve` and batches | `EpochsAreNamespaces`, `NoLostUpdate`, `HistoryBounded` | 180 000 |
| `sweep` | one leaf, one path, one payload, two requests; `maintain` through `stage`, `prepare`, `commit` and the batch forms, with aborts and client pins | `PinnedBytesPresent` | 420 000 |
| `long` | one writer, six requests, five versions, the smallest retention limits, manual pins of versions | `HistoryBounded`, `BasesAreRetained`, `PruningRestoresAdmission` | 360 000 |

What they show, and why the bounds suffice:

- **`reserve`.** Overlap is a relation between two paths, so two leaves and a pair
  of nested paths exhibit every way it can go wrong. `MaxPaths = 2` is below the
  number of paths, so the limit is reached; four leaf identities with two live
  leaves let a leaf be dropped and another created in its place.
- **`turns`.** To publish a stale capture unnoticed the path has to be captured,
  revoked, taken by the other leaf, published with another value, published back
  to the first, and taken again. That takes two values, three publications
  (the last one the stale capture's) and three grants; with the token of the staged
  payload these are the four tokens and four versions of the run. `ValidateHolder`, which compares the
  holder and the value but not the token, is caught here and is the reason tokens
  exist.
- **`races`.** Two calls in flight are enough for every pair of steps to be
  interleaved, two attempts for one preparation to supersede another, and two
  requests for a batch to be split. The paths are disjoint, so that a batch of
  both is composable; conflicts on one path are `turns`.
- **`merge`.** Both names of a nested pair may be added by captures that are each
  valid alone. The run has them meet in a batch, in a resolution and in sequence.
  `MaxPending = 2` with `resolve` shows that the budget holds although `resolve`
  never compares the number of pending requests with it.
- **`sweep`.** Maintenance runs between any two steps of the calls that hold bytes
  only in memory or only in a row. What protects a payload does not depend on other
  payloads, so one suffices: the path loses it, the version that had it is pruned,
  it becomes collectable, and it comes back by an upload. `FinishAnyStage` (the second transaction
  of `stage` without the generation) is caught here: an upload staged, discarded,
  collected and staged again would be marked ready by the *first* call, without
  its bytes.
- **`long`.** With `RetainedEpochs = RetainedReceipts = 1` and `MaxPending = 2`
  the request budget is 4 and six requests reach it. After pruning only
  `MaxPending` may refuse a proposal, whichever versions an administrator pins.

`KeepsPromise` is `ReservedTree!Spec` under the refinement mapping at the end of
`Authority`: owners are the leases' leaves, an outcome is read from the receipt,
the row or the leaf's sequence, and the versions are the history. It says that
every transaction, whatever is in flight, is one abstract step or none; above all
that the tree changes only at paths a member's leaf holds *at that moment*, that
a batch is one step, and that a request which ended never ends another way.

### The workspace

| Run | Instance | Properties | States |
| --- | --- | --- | --- |
| `views` | paths `d`, `d/f`, `d/g`, two values; either two edits, a step of another leaf, a kill and two sessions, or an edit, a step of another leaf, a revocation, two kills and three sessions | `TypeOK`, `EditsSurvive`, `CleanIsOrigin`, `NoLeakedReservation` | 4 200 000 |
| `torn` | the same, no edits, one kill | `RecoveryBlocksOnlyOnEdits` (violated) | |
| `captures` | two leaves (symmetric), two values, three requests, three preparations, a kill, a revocation | `ReconciledRecords`, `PublishedWasChecked`, `AcksFollowPublication` | 3 500 000 |
| `leaves` | two coordinators, one candidate, two forks, two kills or failures | `LeavesAgree`, `RunningCheckKeepsLeaf`, `CommandsEnd` | 780 000 |

- **`views`.** A file and a directory of the same name, and a second file in the
  directory, give every conflict `preflight` and the order of `apply` are about. A kill
  in an operation and one in the recovery that follows it need three sessions. The two
  budgets split what does not fit in one instance. `kept` and `mine` are ghosts: the files
  as the user last had them, and the paths he wrote.
- **`torn`.** See the disagreement below.
- **`captures`.** A batch needs two leaves; a member that is prepared again after a
  batch was checked needs a third preparation; an abort whose answer is lost and a new
  capture after it need two requests of one leaf. One kill falls anywhere, and
  every later session runs the whole reconciliation on what it left. `passed` is a ghost:
  the trees that passed a check on top of the newest version.
- **`leaves`.** One coordinator checks while the other forks, drops or collects; both
  forks may be check leaves of the one candidate, so that a check meets the interrupted
  drop of an earlier one. Two failures kill the coordinator and then its supervisor, or
  a process and its recovery. The instance with three failures (1 360 000 states) holds too.
  `CommandsEnd` says that the deadline ends the command with everything in its group
  though the coordinator is gone; only a kill of the supervisor itself is excepted.

### The CI program

| Run | Instance | Properties | States |
| --- | --- | --- | --- |
| `ci` | three versions of the sources, one of them malformed; two outputs; two edits; jobs two by two | `AcceptedIsGenerated`, `GreenCommitIsGenerated`, `StepsHaveTheirInputs`, `EvidenceIsSaved`, `EveryJobReports` | 140 000 |
| `vouch` | three pull requests (a fork's, a collaborator's, a contributor's with two commits), three sizes of overlapping checks, comments and pushes | `GreenCheckIsEligible`, `GreenCommitIsEligible`, `CommandsInOrder` | 1 200 000 |

- **`ci`.** `AcceptedIsGenerated` is a claim about a list of six commands run on whatever
  earlier failed checks left behind; a version whose outputs are not all there
  and one that cannot be imported make the listings differ. Jobs share nothing but the
  service, so pairs are enough.
- **`vouch`.** The contributors' own commits claim that everybody is vouched for: a step
  that read the policy from the wrong commit would pass them. Three comments with a push
  between them let recorded commands be reordered, if anything did.

### What was found

`torn` finds a disagreement between the code and a document. `docs/installation.rst:17`
promises that "an interrupted replay can resume, or roll back from before images, provided
nobody has edited the affected files in the meantime". `replace` clones an image to a fixed
temporary name and takes the temporary for complete if it exists (`installation.rs:223`).
On Linux a clone creates the file and then fills it, so a kill in between leaves an empty
one, which is refused as corrupt (`installation.rs:227`) by every later session, since
`recover_views` comes first. Nobody has edited anything, and nothing removes it.

Five more things came up while modelling. The models contain them and the properties
are stated so that they allow them; none has a run of its own:

1. A kill while the journal of a *completed* acquire is removed may leave
   `view.json` and no installation. Recovery then aborts: it releases the new grants,
   and the leaf's record still lists them.
2. After a submitted capture whose reservation was revoked is aborted, the authority's
   view stays dirty, and `acquire` and `resolve` are refused with `DirtyPath`, although
   `docs/managed-workspaces.rst:115-117` tells the user to abort and then resolve.
3. A capture whose reservation is revoked between its intent and its submission makes
   the reconciliation fail for every leaf, until somebody aborts it. `abort` takes the
   lock without reconciling and is therefore the way out.
4. While a new check holds its lock and an interrupted drop of an earlier check of the same
   candidate is recorded, every session fails with `ValidationBusy`, also the
   check's own next one. That ends when the check gives up.
5. `resolve` with `published` of a path whose reservation is held and whose origin is
   still the tip's value leaves the leaf's record as it was. `complete_view` installs only if
   the record differs from the one to be written (`views.rs:262`), so nothing is
   installed: the call succeeds and the private value stays, although
   `docs/managed-workspaces.rst:122` says that `published` installs the granted value.
   `discard` is not affected, because it always installs.

Each property is stated at the end of its component's module, with the code it is about.
Every one of them is also run against a mutated definition listed in `PROJECT.json` (a
dropped comparison, an off-by-one, a column not cleared), which must violate it. The
mutated forms stand beside the originals and are used by no specification. All runs set
`CHECK_DEADLOCK FALSE`, for the budgets and counters of a bounded instance end; in `ci` and
`leaves` the liveness properties say that what must not stop does not.

## 4. What is proved

Every theorem is of the form `Spec => []Inv`, `Spec => [][A]_vars` or
`Spec => AbstractSpec`, and holds for every value of the constants that the named
assumptions of the modules allow. TLC evaluates these assumptions in every run.

| Module | Assumption | Why the code justifies it |
| --- | --- | --- |
| `Tables` | `CountersAssumption` | limits and bounds are naturals, positive where the code refuses zero |
| `Tables` | `PathAssumption` | paths are a finite set of nonempty sequences, ranked without ties |
| `Tables` | `NoneAssumption` | `None` is none of the other values |
| `Tables` | `InitialAssumption` | the initial tree, uploads and holds could have come from calls: distinct and exclusive paths, within the limits, outside read-only scopes |
| `Installation` | `UnderAssumption` | lying below is between paths, and no path lies below itself |
| `Views` | `TornAssumption` | a kill tears the clone of a file or the removal of a journal, nothing else |
| `Views` | `ArgumentsAssumption` | leaves are forked from file trees; captures and callers name paths, images and the two choices of `resolve` |
| `Views` | `NoneAssumption` | `None` is no record, journal or change set |
| `Captures` | `InitialAssumption` | the value every path starts with is a value |
| `Captures` | `NoneAssumption` | `None` is no candidate, verdict or pending capture |
| `Leaves` | `NoneAssumption` | `None` is no session, candidate, process or number |
| `Generated` | `RenderAssumption` | each version of the sources renders, per path, a content or nothing |
| `CI` | `SchedulesAssumption` | only jobs of the workflows are scheduled |
| `Vouch` | `VouchAssumption` | authors, requests and commits are what the constants' comments say; each request's branch has a head |

| Theorem | States | Module |
| --- | --- | --- |
| `TypeCorrect` | `TypeOK` | `AuthorityProofs` |
| `AuthorityIsExclusive` | `ExclusiveAuthority` | `AuthorityProofs` |
| `CandidatesAreBuilt` | `CandidatesOK` | `AuthorityProofs` |
| `OriginsAreCurrent` | `LeaseOriginIsTip` | `AuthorityProofs` |
| `NoUpdateIsLost` | `NoLostUpdate` | `AuthorityProofs` |
| `BatchesAreAtomic` | `BatchIsAtomic` | `AuthorityProofs` |
| `RequestsPublishOnce` | `PublishedOnce` | `AuthorityProofs` |
| `CapturesAreFenced` | `CaptureIsFenced` | `PossessionProofs` |
| `ActivatedLeasesHaveViews` | `ActivatedLeaseHasView` | `PossessionProofs` |
| `PathsAreBounded` | `RetainedPathsBounded` | `PossessionProofs` |
| `ReadOnlyNeverChanges` | `ReadOnlyIsImmutable` | `PossessionProofs` |
| `VersionsAreNamespaces` | `EpochsAreNamespaces` | `PossessionProofs` |
| `BasesStayRetained` | `BasesAreRetained` | `RetentionProofs` |
| `HistoryIsBounded` | `HistoryBounded` | `RetentionProofs` |
| `PruningMakesRoom` | `PruningRestoresAdmission` (an action property) | `RetentionProofs` |
| `ReachableBytesStay` | `PinnedBytesPresent` | `RetentionProofs` |
| `AuthorityKeepsItsPromise` | `KeepsPromise` (the refinement) | `PossessionProofs` |
| `RecordsReconciled` | `ReconciledRecords` | `CaptureProofs` |
| `CheckedBeforePublished` | `PublishedWasChecked` (an action property) | `CaptureProofs` |
| `PublicationsAcknowledged` | `AcksFollowPublication` | `CaptureProofs` |
| `TypeCorrect` | `TypeOK` | `ViewProofs` |
| `EditsAreKept` | `EditsSurvive` | `ViewProofs` |
| `FilesAreReconciled` | `CleanIsOrigin` | `ViewProofs` |
| `ReservationsAreReconciled` | `NoLeakedReservation` | `ViewProofs` |
| `NothingIsLeftOver` | `LeavesAgree` | `LeavesProofs` |
| `LivingChecksKeepTheirLeaf` | `RunningCheckKeepsLeaf` | `LeavesProofs` |
| `AcceptedChecksAreGenerated` | `AcceptedIsGenerated` | `CIProofs` |
| `GreenCommitsAreGenerated` | `GreenCommitIsGenerated` | `CIProofs` |
| `StepsAlwaysHaveInputs` | `StepsHaveTheirInputs` | `CIProofs` |
| `EvidenceIsAlwaysSaved` | `EvidenceIsSaved` | `CIProofs` |
| `GreenChecksAreEligible` | `GreenCheckIsEligible` | `VouchProofs` |
| `GreenCommitsAreEligible` | `GreenCommitIsEligible` | `VouchProofs` |
| `CommandsTakeEffectInOrder` | `CommandsInOrder` | `VouchProofs` |

The invariants below were checked by TLC on the instances of section 3 before they
were proved.

### The authority

1. `AuthorityProofs`. `TypeOK` is not inductive: a commit reads the root and the
   parent of a row marked ready, and the tree of the tip. `Typed` adds `RowsOK`
   (a ready row has both; a row that is not aborted has its changes) and
   `TipStored` (the tip is the newest stored epoch). Exclusion is inductive given
   the types, because `Acquire` is the only action that adds a lease.
2. Its second part is about the history. What a commit publishes was computed several steps earlier,
   so the invariant has to speak of every stage of a candidate. `CallsOK` and
   `AttemptsOK` say that each of them, whatever its attempt and however stale, is
   *its parent* with exactly its members' captured changes. This is stable,
   because a published version (`VersionsOK`) and a capture (`RequestsOK`) never
   change. The final transaction compares the parent with the tip and
   re-validates the origins; at that moment "built on its parent" becomes "built
   on the predecessor", which is `NoLostUpdate`. `LeaseOriginIsTip` follows from the
   same step, because `Publish` moves the origins of exactly the paths it changes.
   For receipts: a captured identity is spent, that is, its row is pending, retired,
   committed or gone, and its leaf's sequence is beyond it. `ReceiptsOK` says that
   a receipt names the version which has exactly its members, and that a request
   in a version has no row other than its receipt. Only pending rows are
   published, so none is published twice.
3. `PossessionProofs`. Tokens are issued once and in order. `TokensOK` says
   that as long as the lease on a path has the token a change was captured with,
   every version published since the capture changed that path only by its own
   leaf. Commit requires that very token. `LeasesOK` pairs an activated lease with
   its view; the budget counts the *union* of leases and views, which no action
   but `Acquire` enlarges, although a view is counted by others than made it.
   `FixedOK` says that no lease, view, capture or version touches a read-only
   scope: publication cannot check this, for it holds only because nothing below
   such a scope was ever reserved. `NamespacesOK` carries "no file inside another"
   from the moment a candidate is validated to its publication.
4. `RetentionProofs`. Bases follow from the invariant of candidates, since
   pruning spares what a pending row stands on. The budgets are cardinalities of
   sets that one step changes by at most one element; `resolve` and `commit` do
   not count and stay within them because the request they add replaces another.
   `PruningRestoresAdmission` needs `PinsBounded`. `PinnedBytesPresent` is proved
   as `FilesOK`, table by table; what makes it inductive is about calls in flight.
   `StagesOK`: a stage call whose generation is still its row's has stored its
   payload and nothing took it, since the row pinned it all along. `StepsOK`: a
   preparation of the row's current attempt finds its manifest named, and once
   stored, stored. A call that is no longer current may have lost everything, and
   its last transaction refuses.
5. The refinement, at the end of `PossessionProofs`. A step of the authority is one of four things
   to a client: paths are reserved, a request is captured, a version is published,
   or nothing is visible but the end of reservations and requests. There is one
   lemma for each (`AcquireIsKept`, `CaptureIsKept`, `PublishIsKept`,
   `WithdrawIsKept`), and each action is shown to be one of them. `Standing`,
   derived from the invariants above, says that the tables from which a request's
   outcome is read never disagree; `Spent` says that an identity in use, or
   skipped, is never given out again.

### Journaled views

`ViewProofs` proves all four invariants from `IInv`, which TLC checks on the instances of
`views` too. None of the four is inductive, and none can be proved without the others:
whether a file is as the record says depends on what the journal's plan was
computed from, on the reservations it got, and on what the running session, or the one
that recovers after it, has done of it.

- `Typed`: shapes, and no version is ahead of the authority's.
- `LeasesOK`: each reservation of the leaf is `Known`, that is, acknowledged and in the
  record, or `Fresh`, that is, made by the journaled acquisition: its token is not among
  those held before. That is what `abort_view` goes by when it releases. A captured path
  differs from its origin, which its reservation names.
- `FilesOK` is about a kill anywhere. Without a journal everything agrees. With one, the
  record is the one before or the one after, and each file is as the record says or its
  change is made. `PlanOK` says of a change set what a recovery relies on, whenever it
  happens: each change starts from the baseline of the record before, unless the caller gave
  the value up, and ends at the baseline of the record after, unless the user has written
  there; a path without a change has one baseline in both records; and the
  reservations listed are the authority's or are revoked (`PlanKept`: the user's edits,
  revocations and other leaves' publications disturb none of it). `Undone` is why
  `save_leaf` comes last: as long as it holds, the files may be half way.
- `CallOK` is what the session that holds the lock knows at each step: `EarlyOK`, before the
  installation is recorded, that no file has been changed and what the authority answered;
  `ForwardOK`, which changes are made and which reservations activated; `BackwardOK`, what an
  abort has rolled back and released. The journal is removed only when the files are at
  rest and all reservations are known. None of it survives the session, and none needs to: a
  recovery starts from `FilesOK`.

`EditsSurvive` is `KeptOK` of every path: an installed value replaces a file only if the
file held the change's other side, and that was the user's only if he gave it up or if
he wrote what the record had there anyway.

### Captures and publications

`CaptureProofs` proves all three properties from one invariant, `IInv`, of two parts.

- `Stored` is about what outlives a process, leaf by leaf. `RecordOK` relates a leaf's
  record to its requests between any two writes: an intent is one ahead of the requests
  or names the last; a retired request is named only by a record that is being aborted, a
  published one only by a record that was submitted. `AssignmentOK` and `PreparationOK`
  say the same of candidates: a record may name an older attempt than the row, but if it
  names the row's, then they agree about the batch. `VerdictOK` is why a verdict may be
  used later: a stored one is of a candidate on an older epoch, which no commit accepts, or
  of a tree that has passed on the newest. `PublicationsOK` distinguishes, for each leaf,
  a publication its record does not know of, which is then of the newest epoch and whose
  members are exactly that epoch's requests, from one it has acknowledged. Hence at most
  the newest epoch lacks its reference, its receipt or its tip (`ReceiptsOK`, `NodesOK`).
- `Session` is about what the session that holds the lock knows: `PassOK`, which leaves
  are still unsettled or unacknowledged at each leaf of a pass, and that none is once the
  session is ready; `StepsOK`, what each of its steps found before it. It is needed because
  each step relies on what earlier ones of the same session saw, although reservations are
  revoked and checks end in between; and it holds of no session, so a kill keeps it.

The one lemma about the future is `PublishStored`: a publication, of one leaf or of a
batch, makes exactly its members unacknowledged, all with the same epoch. It holds because
a session commits only when nothing else is unacknowledged, which is what reconciliation
before every operation is for.

### Forks, drops and checks

`LeavesProofs` proves both theorems from one invariant. The first is about what a
process that died left behind, so every journal, identity and directory must have an
owner at every step of every process and of the recovery:

- `Typed`, `Fresh`, `Distinct`, `DropsDistinct`: shapes; identities and directories
  are given out once, and no two records or journals share one.
- `ForksOK`: a journaled fork is whole, is being made by the session's holder, or
  its process is dead and this session has still to recover it.
- `Nameless`: an identity that a journal does not name yet is known to nobody else.
  That is why recovery may release whatever the authority gave out since.
- `WorkersOK`, `MakingOK`, `ForkedOK`: what a living coordinator knows of its fork at
  each of its steps.
- `RecoveringOK`, `DropsOK`: the steps of `abort_fork` and `finish_drop`, each with what
  it has removed and what it has not.
- `Accounted`: every identity and every checkout belongs to a record, a fork journal
  or a drop journal.
- `LocksOK`, `WorksOK`, `RunOK`, for the second theorem: a coordinator in a check's
  leaf holds the check's lock, and so does a command that lives. A drop journal is
  begun only under that lock, taken from nobody.

### The CI program

- `CIProofs`. `CheckOK` says what a check that has still to run a given suffix of its
  six commands knows: after `test` that the worktree has the outputs of its sources,
  after `bundle` that regenerating left them so, after `diff` that tracked files equal
  the index. `RunnerOK` ties the runner's clone to the commit, and its verdict to the
  last step of its job. `JobOK` says that only a failure skips a step, and that a step
  runs only after successes or is marked `always()`. Whether a job's steps cover each
  other's needs is a fact about its list: `AllSupplied` proves it for all ten.
- `VouchProofs`. `CheckOK` says what a run knows at each of its steps; its policy is one
  the default branch had since the run began, and `PolicyGrows` says that a push
  adds a commit and rewrites none. `GroupOK` is the concurrency group: one run in
  progress, at most one waiting, whose comment is later, and every recorded
  command earlier than both. From it follows that a recorded command is later than all
  recorded before.

Some definitions are written for the provers, without a change in meaning: unions are
parenthesised, because `tlapm` reads `UNION A \cup B` as the union of all of it; the
refinement mapping of `Authority` consists of the named `Owners`, `Outcomes` and `Roots`;
and `Views` gives the reservations of its record as one function rather than with `@@`,
whose module the provers do not know.

### Only model-checked

- `EveryJobReports` and `CommandsEnd`, because liveness under fairness and `ENABLED` are
  beyond the prover.
- `RecoveryBlocksOnlyOnEdits`, which is violated (section 3).

Also beyond the prover are induction over data, that is, what a recursive definition
computes for every input, and `RECURSIVE` operators. The specification uses neither.

## 5. What is not modelled

- **Byte limits and WAL.** They refuse a call before it changes anything.
- **SQLite and the file system.** A committed transaction and a linked file are
  durable. `durability.rs` flushes in the order that makes this so; the model
  takes the result.
- **`vacuum` and WAL checkpoints**, which change nothing the model holds.
- **The JSON client, the command line, git, build tools.** They keep no state.
- **Seals, nodes and their collection** (`seals.rs`, `nodes.rs`, `collection.rs`
  after its checks), **initialisation, worktree creation, import, and the object store's
  temporaries and directory locks.** They are small journals of their own and come next.
- **The workspace's pins** (`pin_origins`): their effect on the authority is
  `ReplaceClientPins` of `Maintenance`, with any set of objects.
- **System calls that fail inside the supervisor** and the exit codes it maps them to.

## 6. Plan

Order: what can lose a user's work first.

| | Module | Models | Composes | Properties |
| --- | --- | --- | --- | --- |
| done | `Tables` ... `Authority`, `ReservedTree` | `crates/metadata` | each extends the one before | section 3 |
| done | `Installation`, `Views` | journaled views | `Views` extends `Installation` and reduces the authority to reservations | section 3 |
| done | `Captures` | captures, publications, batches, verdicts | requests and epochs of the authority | section 3 |
| done | `Supervise`, `Leaves` | forks, drops, checks, supervisor | `Leaves` extends `Supervise` | section 3 |
| done | `Generated`, `Workflows`, `CI`, `Vouch` | `ci/` | `CI` extends the first two | section 3 |
| 1 | `Nodes` | `seals.rs`, `nodes.rs`, `collection.rs`: quarantine, markers, roots | the records of `Leaves` as roots | no node a record names is removed; an interrupted collection finishes and never refuses a session |
| 2 | `ObjectStore`, `Import` | `objects.rs`, `import.rs` | `ObjectStore` refines the sets `objects` and `manifests` | the sweep removes no file a writer will link; resumption publishes what was imported |
| 3 | `Creation` | `creation.rs` | independent | rollback removes what this attempt made and nothing else |

Each comes with its invariant, proved in the module of the component nearest to it. A proof
that `Views` and `Captures` see of the authority what `ReservedTree` promises would
relate the two levels for every value of the constants; today their small authorities are
read off the same code and compared with it by hand.
