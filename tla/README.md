# Verification of linux-deep-clean

TLA+ models of the safety core of `linux-deep-clean`: the part that moves or
removes a user's files and has to know, after any failure, what happened to
them.  TLC checks the models on small instances and TLAPS proves the main
results for every value of the constants.

## The system

The program does not clean anything by itself yet: `cmd/` and `presenters/cli`
are a thin shell.  What it has is the engine below it, a set of operations
that are each small and each guarded by durable records.

| component | source (under `src/internal`) | state it keeps | operations |
|---|---|---|---|
| recovery ledger | `state/recovery_ledger.go` | immutable records, one chain per reservation | Reserve, Transition, FindOutstanding, ListOutstanding, Reload |
| recovery port | `state/recovery_ledger_port.go`, `recoveryport/` | the port a ticket was issued by | the same, on opaque tickets |
| private ledger session | `linuxfs/private_ledger_linux.go` | the lock file, the held lock | read and write session, Publish, Read, List |
| durable file | `linuxfs/durable_file_linux.go` | one new file | publish: create, write, sync, close, sync directory, verify |
| Trash move | `trash/move.go`, `linuxfs/trash_move_linux.go` | the content, the Trash entry | MoveToTrash |
| Trash reconciliation | `trash/reconcile.go`, `trash/content_reconcile.go`, `linuxfs/*_probe_linux.go` | none of its own | reconcile metadata, reconcile content |
| Trash metadata | `trash/write.go`, `trash/metadata.go`, `linuxfs/trash_linux.go` | the `.trashinfo` file | publish, probe |
| Trash restore | `linuxfs/trash_restore_linux.go` | the content | restore without replacing |
| quarantine | `quarantine/`, `linuxfs/quarantine_retain_linux.go` | the content, open stores | Open, Retain, Close |
| staging and removal | `linuxfs/stage_linux.go`, `linuxfs/remove_linux.go` | a staged object's state | stage, verify, restore, remove, close |
| path resolution | `linuxfs/resolve_linux.go`, `linuxfs/snapshot_linux.go` | descriptors, snapshots | resolve a parent, open a target, compare |
| mount and layout authority | `mounts/` | leases on roots, layouts and the Trash | open, duplicate, requalify, close |
| domain | `domain/` | values | plans, actions, results, transaction graphs, sizes |
| plan protocol | `planproto/`, `pathbytes/` | none | canonical encodings with bounded decoding |
| shell | `cmd/`, `application/`, `presenters/cli` | none | version, bootstrap |

How they interact.  A move asks the ledger (through the port) to reserve its
source, records that it is about to write metadata or to move content, does so
through `linuxfs`, and records what it then verified.  Every ledger call is one
private-ledger session, which holds a lock on a file of the private directory;
a write session publishes exactly one record as a durable file.  Processes
share nothing but the ledger directory, the Trash or quarantine directory and
the source tree, which other programs change as they like.  After a failure a
reconciler reads an open recovery, probes the filesystem and records what it
found.  Every operation works below descriptors: a root, layout or Trash lease
of `mounts` lends duplicates of the ones it owns once it has inspected them
again, `linuxfs` walks the planned path from the root it was lent, and what a
path leads to is compared again at each point of use.  `domain` and `planproto`
are pure: they decide which plans, results and encodings exist at all.

What is hard.  Several processes at once; a crash, a cancellation or a failed
sync between any two steps; a rename that may or may not have happened; a
check that is stale when its result is used; records that can never be edited,
so that a bad one cannot be repaired; limits (records, ordinals) that fill up.

What makes each component correct.

- *Ledger*: a source has at most one open recovery; what is written can be
  replayed; a bad record stops everything rather than being skipped; a closed
  or old history is never extended; moved content is not forgotten.
- *Sessions*: no writer beside a writer or a reader; no record before the lock
  file is durable.
- *Moves*: nothing is overwritten; the content is in exactly one place; the
  ledger never says less than what happened; a recovery that is not settled
  can be settled.
- *Staging and removal*: nothing is removed that was not verified; a state
  that is not known is never treated as known.
- *Leases*: a descriptor number has one owner, who closes it once; nothing is
  lent or opened under a lease that was closed before; evidence was true at one
  moment; every call returns.
- *Probes and restores*: what is concluded from several lookups was true of all
  of them at one moment, however directories move in between.
- *Domain and encodings*: dependency cycles are refused; summaries tell what is
  open; a value has one accepted encoding.

## Modules

| module | models |
|---|---|
| `RecoveryFacts` | the events, outcomes and transition graph of the ledger (operators only) |
| `RecoveryLedger` | the ledger with concurrent callers, sessions, publication step by step, failures and crashes |
| `LedgerInvariant` | its inductive invariant |
| `SourceReservation` | abstract: exclusive reservation of sources |
| `FactLedger` | abstract: the ledger of last facts that content operations rely on |
| `RecoveryLedgerProofs` | proofs about the ledger, and that it implements both abstract ones |
| `TrashMove` | MoveToTrash and the two Trash reconcilers over `FactLedger` and the filesystem |
| `TrashInvariant`, `TrashMoveProofs` | its inductive invariant and the proofs |
| `PrivateLedgerSession` | the ledger's lock file and the sessions that hold it |
| `ExclusiveSessions` | abstract: one writer or several readers, the session `RecoveryLedger` assumes |
| `PrivateLedgerSessionProofs` | proofs about the sessions, and that they implement the abstract one |
| `StagedObject`, `StagedObjectProofs` | staging, restoring and removing one planned object; the proofs |
| `QuarantineRetain`, `QuarantineRetainProofs` | stores and Retain over `FactLedger` and the filesystem; the proofs |
| `DescriptorLeases` | root, layout, Trash and parent leases: issue, inspection, lending, walks and close, over the process's descriptor table |
| `HeldDirectories` | one probe, qualification or restoration, while directories and entries move between its steps |
| `HeldInvariant`, `HeldDirectoriesProofs` | its inductive invariant and the proofs |
| `PlanValidation` | the check of a plan's dependencies, call by call |
| `ResultDecoding` | the reading of a result record, the derivation of its summary and the comparison with it |
| `GraphValidation` | the check of a transaction graph, loop by loop, with its binary searches |
| `DomainProofs` | the invariants of these three and the proofs |
| `FrameRules` | the bounded scan of CBOR frames and the percent codec (operators only) |
| `Drafts` | their inputs, built item by item, and what the rules promise of them |
| `MCRecoveryLedger`, `MCTrashMove`, `MCPrivateLedgerSession`, `MCQuarantineRetain` | the symmetry used by the runs |
| `MCStagedObject`, `MCDescriptorLeases`, `MCHeldDirectories` | the tree, the roles and the layout of their runs |
| `MCDecisions` | one run for `PlanValidation`, `ResultDecoding`, `GraphValidation` and `Drafts`, with its inputs |

The layers: `PrivateLedgerSession` implements `ExclusiveSessions`, the `writer`
of `RecoveryLedger`; `RecoveryLedger` implements `FactLedger` (checked by the
run `ledger_graph`, proved in `RecoveryLedgerProofs`), and `TrashMove` and
`QuarantineRetain` are built on an INSTANCE of `FactLedger`.  Nothing about
records, sessions or torn writes is repeated above the ledger.  `StagedObject`
stands alone: staging and removal keep no ledger records.  So do the two models
below the operations, which say what the atomic steps above them rest on: that
a descriptor is the directory it was opened for (`DescriptorLeases`), and that a
check of several names at once, one step in `TrashMove`, may be made of lookups
at different moments (`HeldDirectories`).

### RecoveryLedger

`ledger[t]` is the sequence of record bodies of reservation token `t`; a record
that was created and not completely written is `Torn` and never decodes.
`binding[t]` is what every frame of `t` repeats (source, destination, schema
version).  A frame keeps its event, outcome and metadata disposition; its
digest chain is its position.  `writer` is the caller inside a write session,
`pending` the record it decided to publish, `known` the recovery identities a
caller holds, `result` how its last call ended.

A call replays every record under the lock, so that replay and decision are one
step (`Reserve`, `Transition`).  The publication follows as its own steps:
`CreateRecord` (O_CREAT|O_EXCL), `WriteRecord`, `Finish`, with
`FailBeforeCreate` and `InterruptCreated` for the error returns and `Crash` for
a process that stops anywhere.  `Finish` has the three endings of
`PrivateLedgerSession.Publish`: all checks passed, a failure reported as
ErrInterrupted (the candidate is returned), and a drift of the session seen by
its last recheck, which is reported as it is.  A crash may keep, cut short or
lose the record that was not yet synced.  Readers hold a shared lock and never
overlap a writer; a read is one step.

### PrivateLedgerSession

How the critical section of `RecoveryLedger` comes about.  `lock` is what the
name of the lock file holds (`damaged` is neither empty nor complete, and may
have the right size), `lockSurvives` what it may hold after a power loss,
`flock[c]` the kernel lock of a caller, `initialized[c]` what it read of the
file before it had the lock.  A session that writes lists the records if there
is no lock file (`Begin`, `ListBefore`), creates or opens the file
(`CreateLock`, `OpenLock`), polls for the lock (`Acquire`), lists the records
again if the file was empty when opened (`Recheck`), writes and syncs the
contents (`WriteLock`, `SyncLock`, `SyncDirectory`) and verifies them
(`VerifyLock`).  A reader that has opened an empty lock file gives up.  `Leave` is
every return and every stop of a process: the lock goes with the descriptor.
The `Environment` is made of power loss, of somebody removing the lock file
between sessions, and of an interrupted sync: with the last one
`RecordsKeepTheirLock` is false.  A writer that fails or stops between writing the
contents and syncing them leaves a file that the next writer takes for
initialized, verifies in memory (line 224) and never syncs; a power loss after
its publication can leave a durable record behind an empty lock file, and every
later session refuses the ledger.  The run and the theorem say what holds when
no sync is interrupted.

### FactLedger

What a content operation sees of the ledger: the last fact of each token and
the source it reserves.  `Reserve` takes a free token and a source without an
open recovery; `Advance` appends a fact the graph allows.  Its `Init` admits any
ledger that reserves exclusively, so that a ledger with retained histories
implements it too.

### TrashMove

Callers (processes or goroutines) run `MoveToTrash` or a reconciler at any time.
`pc` says where a caller is; its steps follow the code: `Validate`, `Reserve`,
the metadata publication (`CreateInfo`, `CompleteInfo`, `SyncInfo`),
`SelectDirectories`, and the move (`CheckMove`, `Rename`, `VerifyMove`,
`SyncMove`, `ReproveMetadata`).  `Recording` is the table of every place where
the code appends a fact: which fact, and where the call goes on.  `Record` has
the endings of an append: confirmed, appended but reported as failed, failed.  A
rename can succeed, be known not to have happened, or fail without saying which.
Every step can fail, which is also how a cancelled context shows.
`Reload` starts a reconciler on any open recovery whose event it accepts;
`ProbeMetadata` and the five observations of `ProveMove` follow.

The filesystem is `at[s]` (what a source name holds), `files[t]` and `info[t]`
(the two halves of a Trash entry), `volatile` (the effects not yet synced) and
`touched` (the tokens whose entries somebody else has changed: what the program
promises about them is lost).  The constant `Environment` chooses what else
happens: `crash`, `power_loss`, `source_change` (another process replaces,
removes or creates a source) and `trash_change` (the same in the Trash).

Abstractions, each of which loses something: a change by another process is
durable at once; a power loss undoes a whole rename or none of it; an appended
fact is durable (`RecoveryLedger` models what happens to a record that is not);
all recoveries are of schema v2 and of one Trash layout, which stays
qualified; an object has the planned identity or another one, and identities
are not reused.

### QuarantineRetain

A process has one `Store`; `open` are those that are not closed.  A call takes
the store's mutex (`Enter`), and the mutex is free again when the call returns,
so that `using[c]` is both the store a call works under and the mutex it holds:
`Close` is enabled when nobody is `Inside`.  The steps are those of
`TrashMove` without the metadata: `Validate`, `Reserve`, the dispatch record,
`Check`, `Rename`, `Verify`, the two directory syncs (the quarantine first), and
the last record.  The three endings of an append are `Record`'s.  From the
dispatch on every failure, one that is known to have had no effect included,
leads to a `move_indeterminate` record, and no reconciler takes such a recovery:
the code says so (`quarantine.go:18-22`), and the source stays reserved.
`Crash` takes a store with its calls, `PowerLoss` all of them, and it may undo a
move that was not synced on both sides.  Nobody else works in the quarantine
directory: it is a private layout, attested before the store is opened.  The
qualification of the layout itself is left out, and all stores are of one
trusted root.

### StagedObject

One staged object per token; `state[t]` is its `stagedState`, `step[t]` where the
operation under way on it is.  The object's mutex is held through each
operation, so one step per object is enough, and operations on the objects of
several tokens interleave.  A name holds nothing, the planned object, the
planned object with another change time (`renamed`: each rename changes it, and
the post-move mask leaves it out), or something else.  The tree of the planned
object is a set of nodes: `whole` is what it was, `left` what is not unlinked yet,
and `Beneath` orders the unlinks (the code's recursion takes one bottom-up order,
the model any).  `unsynced` are the directory changes not yet synced; there is no
power loss here, because no record depends on it: the property is that a
state that claims durability has nothing unsynced.

`Rename` and `RenameBack` treat errors differently, as the code does: staging
takes every error but EINTR and EAGAIN for proof that nothing moved, restoring
takes every error but EEXIST, ENOTEMPTY and EXDEV for an unknown outcome.
`Authorized` are the tokens whose entry nobody else can change: removal asks
for that (`removalAuthorized`, set by no production constructor yet), and
`StagingChange` happens to the others only.  `meddled` are the tokens whose entry
was changed: nothing is promised about them.

### DescriptorLeases

`table` is the descriptor table of the process: which directory each open number
refers to.  The kernel gives out the lowest free number, so that a number that
one call closes too often, or uses too late, is by then somebody else's, as in
the real program.  `number` is every place where the code keeps a number: the
fields of a lease, the locals of a call, the array an opener fills.  `status` and
`lock` are the lease's; `world` counts the changes of each fact that evidence is
made of (a descriptor's owner and mode, the namespace, mountinfo).

The operations are those of `root_lease_linux.go`, `layout_lease_linux.go`,
`trash_lease_linux.go` and the parent lease of `resolve_linux.go`.  A root is
opened and inspected (`OpenRoot`, `IssueRoot`).  A layout or Trash lease, a *bundle*
of roles, is opened once its root was inspected under the root's mutex
(`LockRoot`, `OpenAfterRoot`), its descriptors are moved above the reserved numbers
(`Normalize`, `ReleaseOriginal`) and inspected one by one (`InspectNext`,
`IssueBundle`).  Lending takes the lease's mutex and inside it the root's,
inspects both again, and duplicates what is asked for (`LockLease`, `LendAfterRoot`,
`LendInspected`, `Lend`).  A resolution duplicates the root twice and walks, closing
each directory as it goes (`DuplicateRoot`, `WalkOn`, `Advance`); a requalification
walks again (`Retrace`, `Retraced`).  An inspection reads the evidence, mountinfo
and the evidence again and starts over when it changed (`Sample`,
`ReadMountInfo`, `SampleAgain`, `Retry`).  Any step can fail (`Fail`): it then closes
all the call has and unlocks what it holds.  A borrower closes what it was lent
(`Release`).  `Change` is anybody outside the program.

Simplified: evidence does not change back (an inspection that meets a value
that came back would take it for one state, as the code does); the two reads
on each side of mountinfo are one step; a close that reports an error has
closed the number (the Linux rule the code names); the openers are run one at a
time; and the descriptors of the process below `FirstNumber` are left alone.

### HeldDirectories

A behaviour is one call: `op` is which, `todo` the lookups it has still to make,
`place[d]` where each directory is (a parent and a name there), `entry` what the
three names it asks about hold.  `Steps` writes down the order of the lookups:
`Requalify` is the walk of the planned path and the comparison with the
directory that is held, `Topology` the inspection of the held Trash directories
and of each literal child, and the probes and the restoration are put together
from them as in the code.  `Change` is another process that moves a directory
away, moves another one to its name, moves it back, changes its mode, or
replaces, removes or creates an entry, between any two steps.  A rename never
puts a directory beneath itself (`NoLoops`, the kernel's rule).  The parent is in
its place when some way along the planned names leads from the root to it
(`ParentInPlace`), whichever directories bear those names.

`seen` collects the claims that were true at some moment of the call (since the
rename, for a restoration), and the properties say that what is returned is
among them.  A sequence of lookups proves that only up to a number of changes,
`Tolerated`, and the numbers in `MCHeldDirectories` are exact: with one more
change during the call TLC finds a call whose conclusion was never true.  They
are 3 for the absence of a source, 1 for a qualification, 5 for the two Trash
probes, and 1 for a restoration, before and after its rename.  `Rename` starts
the count again.  Who wants to weaken a check of the code can read here
what it costs.

### PlanValidation, ResultDecoding and GraphValidation

These are algorithms on one value.  A behaviour is one run of the algorithm, its
loops and its recursion are steps, and the property says when it may accept and
when it may refuse, in terms of the value alone.  Written this way, and not as
recursive operators, each loop has an invariant, and the properties are proved for
values of any size.

`PlanValidation` starts with any plan.  The two loops that check IDs and
dependencies one by one are one step (`RefuseDependencies`, `BeginWalk`);
`visitActionDependencies` is a stack of calls (`calls`), each an ID and the next
dependency of it, beside the marks (`states`).  An action that was visited before
returns at once, one that is being visited closes a cycle and ends all calls
(`Visit`).  A plan can be carried out if in every group of its actions one waits
for no other of the group; nothing in the code looks at groups.

`ResultDecoding` is `fromResultWire` with the `NewResult` it calls.  The parts of the
record are chosen when they are read: each action result (`ReadResult`, with the
checks of `ActionResult.Validate`) and at the end the summary the record claims
(`CompareRecord`).  In between the summary is derived in one pass with its two flags
(`CountResult`, `EndSummary`).  The byte comparison of the two canonical records is
equality of their values: empty fields, which `NewResult` fills in, make them
differ.

`GraphValidation` is `TransactionGraph.Validate`, and with `sorts` also
`NewTransactionGraph`: there each part is any sequence that the sort may have
left, one in which no item comes after a greater one.  Equal items stay where they are,
and the check refuses them.  A lookup is the loop of `sort.Search` with its two
bounds (`Halve`).  A node is its reference; the fields that are only copied are left
out.

Field checks that relate nothing to anything else (the form of IDs, digests,
versions, targets) are left out of all three.  The three share nothing; `MCDecisions`
lets a behaviour be one of them, or a draft of `Drafts`, while the others stay idle.

### FrameRules and Drafts

The rules are operators on values, written as the code computes them: the
recursive scan of a frame with its budgets (`ScanItem`) and the percent codec.
`Drafts` builds every bounded input one item at a time, so that a state is an
input, and the property compares a rule with a definition of another kind: a
frame is the canonical encoding of an item (`IsItem` generates, where the code
parses), an encoded path is what some path is encoded to.  UTF-8 is kept for
sequences of one and two bytes.

### Slips

The definitions marked `slip` are small deliberate mistakes, each next to the
definition it replaces.  They are never used by the specification; the mutants
of `PROJECT.json` use them to show that each property notices its mistake.

## Runs

| run | instance | shows |
|---|---|---|
| `ledger_concurrent` | 2 callers, 2 sources, 2 fresh tokens and 1 retained v1 history, 4 records, ordinals 0..2 | the inductive invariant, one open recovery per source, only torn records block, frozen after a torn record; the ledger implements `SourceReservation` |
| `ledger_graph` | 2 callers, 1 source, 1 token, ordinals 0..9 | a move is dispatched once; moved content is not forgotten; the ledger implements `FactLedger` |
| `session_exclusive` | 3 callers; power loss, removed lock file | the inductive invariant; the lock file is not written around records and outlives them; sessions implement `ExclusiveSessions` |
| `trash_power` | 3 callers, 2 sources, 2 tokens; crashes, power loss, changing sources | the inductive invariant; moved content is accounted for and has durable metadata; verified moves survive |
| `trash_shared` | 2 callers, 1 source, 2 tokens; crashes, changing sources and Trash | verified content is in the Trash; what a closed recovery says of metadata is true |
| `staged_objects` | 2 objects, a tree of 4 nodes of which 1 may be unfit; crashes, changing source and staging | the inductive invariant; states tell where the content is; partial trees stay flagged; uncertain entries are left alone |
| `quarantine_retain` | 2 stores, 3 callers, 2 sources, 2 tokens; crashes, power loss, changing sources | the inductive invariant; content is on record; verified moves survive; no source is moved twice |
| `descriptor_leases` | 2 goroutines, a root, a Trash lease of 2 roles, a parent of 1 component above its last; numbers 2..6; the namespace changes twice; fair | the lease invariant; one owner per descriptor; lent whole or not at all; closed leases lend nothing; evidence is a snapshot; every call returns |
| `held_directories` | each of 5 calls, a path of 2 directories, another of each name, a Trash of 3; up to 5 changes | the absence of a source, the verdicts of Trash probes and qualifications, and what a restoration says were true at one moment; a restoration replaces nothing |
| `decisions` | plans of 3 IDs, 3 actions, 2 dependencies each; records of 2 results with every combination of their fields, and 180 claimed summaries; graphs of 3 references, 3 nodes, 2 edges, 2 reasons, made and decoded; frames of 4 chunks (5 in a map), paths and encodings of 5 bytes | plans, records, graphs and encodings are accepted exactly when they should be |
| `trash_ambiguous` | 1 caller, 1 source, undisturbed | violated: an ambiguous recovery that no reconciler accepts |
| `trash_unsynced` | 1 caller, 1 source, power loss | violated: a reconciled move is undone by a power loss |

Bounds.  Two callers are enough for every race on one lock and on stale
identities; two sources and two fresh tokens let reservations compete and
coexist.  With four records and three histories the ledger fills up while
another history could still grow.  Ten ordinals take a history through the
whole graph and twice round its loop.  Three callers of the Trash move are one
that moves, one that moves what the first one left, and one that reconciles;
two tokens are two attempts at one source or one at each of two.  Three
callers of a session are one that initializes the lock file, one that has read
it empty meanwhile, and one that publishes.  Two objects of one source are
the most that can compete for its content, and four nodes have a directory
within a directory and a node removal refuses.  Two stores are two processes;
three calls let one wait for the mutex of a store while the other store is in
use.  Two goroutines are one inside a lease and one that closes it, its root, or
walks; five free numbers are taken and given back often enough for every number
to be reused by the other goroutine, and number 2 is below the reserved ones, so
that normalizing moves it.  An inspection of two attempts can be disturbed once
and succeed, or twice and give up.  Two directories of a path, with another for
each name, let either level be exchanged; a third level would repeat the
second.  Three actions have a cycle that is entered from outside it; two
results are one that was done and one that is open, or two of one ID, and the
180 summaries are all combinations of counts of up to two results and of the
flags; three references, two of them with one ID, need both fields of the order,
and let a search end at the first node, the last and between; a frame has
arrays in maps in arrays up to one level too deep, and every budget is met and
exceeded.  Crashes, power losses and changes by others are not bounded in the
ledger, Trash, quarantine and staging runs: no counter limits them.  The proofs
below remove the bounds for the properties they cover.

Fairness.  `descriptor_leases` is checked under `FairSpec`: a goroutine inside a
call is weakly fair (it runs system calls and arithmetic, and the Go scheduler
preempts), and the acquisition of a mutex is strongly fair, because a `sync.Mutex`
hands itself to a goroutine that has waited for a millisecond.  Whether a caller
makes another call is not fair, nor is anything outside the program.  With that
`CallsReturn` says that the order of the two mutexes cannot deadlock and that no
error path keeps one.  Nothing else in the program makes progress by itself, and
no other run assumes fairness: the ledger's lock is polled (`flock` every
millisecond, with no order among those who wait), every operation may end with
its context, and nothing retries or reconciles in the background.

Deadlock is checked in all runs but `held_directories`, where a behaviour is one
call and ends, and `decisions`, where it is the check of one value.

## Proofs

`RecoveryLedgerProofs` proves, for any callers, sources and tokens and any
limits: `TypeCorrect`, `InvariantHolds`, `ReservationsAreExclusive`,
`OnlyTornRecordsRefuse`, `DispatchedOnce`, `MovesAreRemembered` and
`TornRecordsFreeze`.
It also proves that the ledger implements `SourceReservation`
(`LedgerReservesExclusively`) and `FactLedger` (`LedgerKeepsFacts`).  The
assumptions are `LedgerAssumptions`: finitely many tokens, old tokens among
them, positive limits, and a name for nobody that is no caller's.

One open recovery per source is not inductive: it depends on the caller in the
session having looked for one before it published.  `LedgerInv` adds what a
caller knows between decision and return: it alone is in the session
(`SessionInv`), its history has not changed since it was replayed, its record
is a valid next one, and if it is an intent then no open recovery has its
source (`PendingInv`); and that every history follows the graph with at most
its last record torn (`HistoryInv`).  Every end of a publication, failure and
crash included, is the same step on the records (`Leaves`): the pending record
is kept, cut short or gone.

Two more invariants stand on that one.  `CourseInv` relates each record to all
the later ones of its history, where the graph relates it to the next: once the
move was dispatched or the content moved, every later record is past that too
(`Follows`); that a move is dispatched once and that moved content is not
forgotten follow, however often the restore loop is taken.  `CapacityInv` says
that whoever publishes found room for one record, so that the ledger never
outgrows what a session will read.

`PrivateLedgerSessionProofs` proves, for any number of callers,
`SessionInvariantHolds`, `LockIsInitializedFirst`, `RemovedLockStaysRemoved` and
`SessionsAreExclusive` in every environment, and `LockOutlivesPowerLoss` where no
sync is interrupted.  The invariant says which kernel lock goes with each step
(`HoldsLock`), what the steps rely on although it was read earlier (`RelyOn`),
and what a power loss can leave of the lock file (`LockSurvives`).

`TrashMoveProofs` proves, for any callers, sources and tokens and in every
environment, `TrashInvariantHolds` and from it `MovesAreAccountedFor`,
`MetadataComesFirst`, `VerifiedMovesSurvive`, `AbsenceIsFinal` and
`EffectsAreExclusive`, and where there is no power loss `SettledHolds` and from it
`VerifiedContentStays` and `ResolutionsTellTheMetadata`.  The assumptions are `TrashAssumptions`: the environment
is made of the known disturbances, and the names for no source and no token
are not one.

None of the properties is inductive.  That moved content is accounted for
depends on what every caller under way believes: a caller that says "not
applied" must be right about the content, even after a reconciler has gone
ahead of it.  `TrashInv` has, for each caller, what it holds (`Holds`), what the
ledger says of its recovery (`Stands`) and what it knows of the Trash (`Knows`);
and for each token what its last fact says of its two entries
(`EntriesAgree`).  `Stands` is where callers and reconcilers meet: a caller that
moves is alone until it records an indeterminate fact, and its one remaining
record (`cancelMove`) may find the recovery advanced or closed.

`SettledInv` adds that, for a token whose entries nobody outside has touched, the
metadata is as the last fact says, the content of a recovery whose move is
verified is in the Trash, and what a reconciler has observed is still so when it
records it.  That needs the assumption: the reconcilers record what they see and
sync nothing (the run `trash_unsynced` shows what a power loss does then).

`StagedObjectProofs` proves, for any tokens, any tree and in every environment,
`StagedInvariantHolds`, `StatesAreTrue`, `PartialTreesStayFlagged` and
`UncertainEntriesAreLeft`.  The assumptions are `StagedAssumptions`: the root is a
node that is fit, everything else is beneath it, and no token is the source's
name.  `StagedInv` adds which steps go with each state (`StepFits`), what each
step relies on although it was checked earlier (`RelyOn`), and that the planned
object is at one name at most (`PlannedIsOnce`); the last is what keeps two
objects of one source apart.

`QuarantineRetainProofs` proves, for any stores, callers, sources and tokens and
in every environment, `RetainInvariantHolds` and from it
`StoresAreIdleWhenClosed`, `RetainedContentIsOnRecord`, `VerifiedRetainsSurvive`
and `RetainIsNeverRetried`, from `RetainAssumptions`: the environment is made of
the known disturbances, and the names for nothing are not names.  `RetainInv`
says what a call has in hand (`Holds`) and what is true of its recovery at each
step (`Stands`): that the dispatch it made is still the last fact, which needs
that nobody else has its ticket.

`DescriptorLeasesProofs` proves, for any goroutines, roles, paths, descriptors
and amount of change, `LeaseInvariant` and from it `OneOwner`, `LendingIsWhole`,
`ClosedLendNothing` and `InspectionIsASnapshot`.  The assumptions are
`LeaseAssumptions`: a bundle has roles, and so has each of its handoffs; the names
of leases, goroutines, roles and of what has no name are different; and the
bounds are numbers.  The invariant
is `LeaseInv` with `DescriptorsHaveOneOwner`; each needs the other, because a call
closes what it has by number.  Of a call `LeaseInv` says which numbers each stage
keeps (`Stands`), which mutexes it has (`Holds`) and what it relies on since it
looked (`Relies`); of a lease, that it has its descriptors exactly while it is
open.  The proof separates the descriptor table from the calls: `TakeKeeps`,
`DropKeeps` and `HandOverKeeps` say what an open, a close and a transfer do to
ownership, `Frame` that a step of one goroutine leaves the others as they stand,
and each action has one lemma about its own goroutine.

`HeldDirectoriesProofs` proves, for a planned path and a Trash of any depth and
any places that directories may be moved to, `HeldInvariantHolds` and from it
`VerdictsHold`, `SourceAbsenceHolds` and `RestorationsHold`, and `NothingIsReplaced`.
The assumptions are `LayoutAssumptions` (the root is not one of the directories,
each planned directory has its place, and `Away` is no place) and, but for the
last theorem, `Bearable`: the bounds on `Tolerated`, which are those of the run
and, by TLC, the largest for which the properties hold.

A call concludes something about one moment and reads one name after the other,
so the invariant says what it knows by the number of changes that are needed
to deceive it.  `Inspecting` does so for an inspection of the Trash: without a
change everything looked at is still as it was; after one it is, but for one
directory, and if all the others are in their place now, the claim was true
before that change (`Disturbed`); two changes are enough to deceive it.  An
inspection that follows another one starts from the base the first has cost, two
more each, which is where the numbers in `Bearable` come from.  `Walking` does the
same for the probe for a source.  There the call does not know which directories
it came through: a way leads to where it is, or one directory of that way was
moved and any way onward to the parent completes it (`Misled`).  That step is
where `NoLoops` is needed, since a directory that could be moved beneath itself
would be on both parts of the way.  `HeldInv` was checked by TLC under the run's
bounds before it was proved.

`DomainProofs` proves, for any IDs, references and reasons and values of any size,
`PlanInvariantHolds` and from it `PlansAreJudged`, `ResultInvariantHolds` and
`ResultsAreRead`, `GraphInvariantHolds` and `GraphsAreJudged`.  The assumptions are
`PlanAssumptions`, `ResultAssumptions` and `GraphAssumptions`: the bounds are
numbers, a claimed summary has the fields of one, and references and reasons are
ordered as numbers are.  Each theorem says both that what is accepted is right
and that what is refused is wrong.  What would be an induction over data is the
invariant of a loop.  The three invariants were checked by TLC under the bounds of
the runs before they were proved.

- `PlanInv`: the calls under way are a path along the dependencies through just what
  is marked visiting (`CallsAreAPath`), so that coming upon such a mark is a cycle,
  which is a group that waits for itself; and what is marked visited waits for
  nothing else and can be carried out (`VisitedIsOrderly`), which an ID joins when
  all it waits for has (`OrderlyGrows`).  Every action begun is visited, but for
  the one at the bottom of the stack; when all are, the plan can be carried out.
- `ResultInv`: what has been derived is what holds of the first `counted` results
  (`DerivedUpTo`), with the two flags; a count is the cardinality of the results
  that have the outcome.  An accepted record equals what was derived, and the checks
  of `ActionResult.Validate` are as strong as `Plain` once no field is empty.
- `GraphInv`: each loop has put its prefix in strict order, although it compares
  neighbours only (the order is transitive); what is below the bounds of a search
  is before what is sought and what is above is not (`SearchInv`), so that it is
  found where the bounds meet or is nowhere.  `sameNodeSet` compares position by
  position, and two strictly ordered sequences that differ at one are not of one
  set.  A sequence the sort left that has two neighbours out of strict order
  has one item twice.

Only checked by TLC: `OnlyCanonicalFormsAreAccepted`, whose rules are recursive as
the code is and stand against a definition that is recursive too (`IsItem`), and
`CallsReturn`, a liveness property.  Both are out of the prover's
reach: what a recursive definition computes for every input needs an induction
over data, and fairness needs ENABLED.  That the numbers of `Bearable` cannot be
raised is shown by TLC's counterexamples, not by a theorem.

## What the violated runs say

- `trash/move.go:23-25` says a ticket left by an ambiguous effect is to be
  reconciled.  If the append of the indeterminate fact fails too, the ticket is
  still at its dispatch, which both reconcilers refuse (`reconcile.go:346`,
  `content_reconcile.go:412`): the recovery blocks its source for good.
- `docs/contracts/filesystem-safety.md:146-147` says no durable completion is
  claimed after a failed directory sync.  The move itself keeps to that, but
  `ReconcileIndeterminateTrashMove` resolves the same recovery as verified
  without a sync, and a power loss can then still undo the move.

Three more were met while modelling the ledger.  The model does as the code does,
and no run states them:

- `recovery_ledger.go:515-516` says the graph's eleven states stay well within
  the ordinal limit.  The graph has a loop (an indeterminate restore resolved
  as still moved), so an open recovery can reach ordinal 15; from there every
  transition is refused, and its source stays reserved.
- `private_ledger_linux.go:261-263` says an ambiguity after creation remains
  ErrInterrupted.  The recheck at the end of `withActive` (line 352) returns a
  drift as it is, after the record was published.
- `recovery_ledger.go:1280-1282` says an interrupted Reserve returns a
  candidate that the caller can reload.  If the write was cut short, the torn
  record makes every call fail, Reload included.

## Plan

Done, in this order: the ledger; `TrashMove`; `PrivateLedgerSession`; `StagedObject`
and `QuarantineRetain`; leases and the resolution of parents
(`DescriptorLeases`); probes and restoration below held directories
(`HeldDirectories`); the algorithms of `domain` (`PlanValidation`, `ResultDecoding`,
`GraphValidation`) and those of `planproto` and `pathbytes` (`Drafts`); proofs of
each state machine's invariant, and of all the properties of the state machines
but the liveness of the leases.

What is left: unsynced ledger records that stay volatile after their publication
has ended; sums of sizes (`domain/size.go`); and, once the program has a caller
for it, the restoration of a Trash entry with its ledger records.

## Not modelled

- The command line, bootstrap and build information: no state but their output.
- The JSON reader and writer, CBOR encoding and the `.trashinfo` text: the first
  two are the libraries' with a field list each, and a record, a frame or a text
  either decodes or does not in the models above them.  `FrameRules` models the
  one decoder that is the program's own.
- `planproto`'s transfer objects (`dto_*.go`) but that of a result: each copies
  fields and calls the validation of `domain`.
- `domain`'s actions, preconditions, capabilities, candidates and evidence: checks
  of one value's fields, and lookups that compare two of them.
- The parsing of mountinfo and mount flags (`mounts/mountinfo_linux.go`): text to
  values; what matters above it is whether two readings agree.
- The contents of files, digests (taken to be collision-free) and tokens (taken to
  be fresh).
