# fs-transaction in TLA+

A verification project for the `fs_transaction` crate (`src/src/`): the protocol by
which a set of file operations is applied to a tree of ordinary files as one unit,
unwound when a call fails, and rolled forward from a journal when the process dies.

The crate carries a Verus proof of its own (`change/rollback.rs`, `change/refines.rs`,
`journal/proof.rs`, `replayable/proof.rs`, `path/proof.rs`). That proof is about one
call of one function at a time: what `exec` records, what `replay` does to a tree, what
the rule admits. What no function contains is modelled here: the process dying between
two calls or inside one, a recovery dying too, calls failing on the way back, a second
set arriving over the journal of the first, and the power cut that takes back calls
which returned. The two developments share their vocabulary on purpose (the variable
`hist` is `rollback::Hist`, `Completes` is `refines::completes`).

## 1. The system

| part | source | state it keeps | operations |
|---|---|---|---|
| change set | `change.rs` 103-432 | the ops staged, the expectations | `write`, `rename`, `remove`, `copy_from`, `set_executable`, `set_link`, `expect`, `extend` |
| apply | `change.rs` 434-1874 | on the stack: the undo steps, the asides, the flush debt; on disk: the journal | `Journal::apply`, `run_or_roll_back`, `exec`, `unwind_durable`, `undo_step`, `retire_asides` |
| recovery | `journal.rs` 549-840 | the journal on disk | `Journal::recover`, `replay_all`, `replay` |
| replay rule | `replayable.rs` | none | `check`, `first_refusal`, `pair` |
| the port | `fs.rs`, `port.rs` | the tree | `Storage`, `ReadStorage`; what the executors use of them |
| backends | `fs.rs` 1326-1445, `fs/memory.rs` | files, links, directories | `StdFs`, `InMemoryFs` |
| durability | `fs.rs` 725-888, 999-1295 | what a power cut may take back | `sync`, `replace`, `write_atomic`, `flush_all`, `create_dir_all_traced` |
| journal format | `journal.rs` 275-547, 849-1119 | none | `encode`, `decode` |
| ordered batch | `ordered.rs` | tiers of writes | `OrderedBatch::apply` |
| path guard | `path.rs` | none | `guard_in_root`, `normalize`, `escapes_root` |
| executor, fault double, xtask | `exec.rs`, `fs_faults.rs`, `xtask/` | none of the program's | |

**How they interact.** A caller builds a set and calls `Journal::apply`. It refuses a
set the rule does not admit, a tree that holds a journal, and a set that renames a link;
it writes the journal (the commit point), runs the ops one after the other through the
port, certifies the result with a flush, removes what was moved aside, removes the
journal. A failing call turns it around: the undo steps run backwards, the result is
flushed, the journal removed. A set of one op is run without a journal or an undo log.
`Journal::recover` reads the journal, replays every op from the first, removes the
asides and then the journal. All is sequential: the crate has one writer by contract,
and an `async` call is awaited before the next is made. Shared state is the tree and
the journal, and the other actor is the crash. `OrderedBatch::apply` shares the port, the
path guard and the flushes with a set, and has no journal: what orders its tiers is a
barrier after each. Every staged path, and every path a recovery reads from a journal,
passes the guard; every set, and every journal, passes the rule.

**Where it is hard.**

* *Crash and recovery.* Recovery cannot know how far the set got, nor how far an earlier
  recovery did. Every op must be replayable over everything a crash can leave, which is
  what the rule of `replayable.rs` is for.
* *Failure on the way.* Each op records how it is undone against the state it finds, some
  ops before their call and some after, some by moving a file aside and some by keeping
  its bytes. The rollback must give back the very tree, modes and links included, and it
  may fail too, or die half-way with the journal still there.
* *Hidden files.* Moved-aside entries live under names derived from an op and its place in
  the set; only the journal's ops lead back to them.
* *Weak backends.* Without `atomic_replace` a write and the journal itself may be torn.
* *Durability.* A call that returned may still be taken back by a power cut until it is
  flushed, alone or with others, and out of order; the order of the flushes is a protocol
  of its own.
* *Bytes no one vouches for.* A journal is what a crash left of a file, and its checksum
  is no proof of who wrote it.

**What makes each part correct.**

* apply: all or nothing at every answer and every crash; an answer of success means
  applied; a rollback restores the tree exactly and cannot be stopped by what the set did;
  nothing changes but under the journal; a journal is never overwritten.
* recovery: from any tree a crash can leave it ends at the applied set, is never refused,
  and leaves nothing behind.
* the rule: it admits only sets for which the above holds, and the search for a refused
  pair finds what comparing every pair would.
* the port: what a failed call may leave is no more than those two can repair.
* the flushes: no power cut finds half a set that no journal finishes, takes back what an
  Ok promised, or brings back what an abort undid or a retirement removed.
* the batch: nothing durable names what is not; an Ok survives to the strength asked for.
* the guard: it refuses what leaves the root at any point, and gives one name to one place.
* the format: what is read is what was written, or is refused.

## 2. Modules

| module | models | role |
|---|---|---|
| `TornBytes` | | what is read where a write of bytes was cut short |
| `Tree` | the port (`fs.rs`, `port.rs`) and the backends | entries, links, what each call reads and leaves |
| `FileOps` | `FileOp`, the last call `exec` makes for an op, `journal::replay` | an op run once, failed, replayed; what a set means |
| `Replayable` | `replayable.rs` | the rule, pair by pair |
| `Restart` | | what may be said of every tree a set, its rollback or a broken replay can leave |
| `ChangeSet` | `Journal::apply`, `Journal::recover` | the state machine: one action per call that changes the tree or the journal |
| `AtomicSet` | what the crate promises | the abstract specification `ChangeSet` implements |
| `Claims` | four sentences of the documentation | properties the code does not keep |
| `Disk` | `sync`, `flush_all`, `replace` | what has landed, what has been written, what a power cut may keep of it |
| `DurableSet` | apply and recover with their flushes | `ChangeSet`, each call with its writes, and the power cut |
| `OrderedBatch` | `ordered.rs`, `create_dir_all_traced` | a batch on a `Disk` |
| `ReplaySweep` | `first_refusal` | the sorted search against the pairwise rule |
| `PathGuard` | `path.rs` | the guard against a walk from the root |
| `JournalFormat` | `encode`, `decode` | a journal's bytes, whole and spoiled |
| `MCChangeSet`, `MCSets`, `MCDurable`, `MCBatch`, `MCIntake` | | instances for TLC |
| `TreeProofs`, `ChangeSetProofs`, `RestartProofs`, `ReplayProofs`, `DiskProofs`, `BatchProofs`, `DurableProofs`, `IntakeProofs` | | theorems |

Of the first six each extends the one above it. `AtomicSet` extends nothing, takes what
"applied" means as a constant operator and is instantiated by `ChangeSet` under a
refinement mapping. `DurableSet` extends
`ChangeSet` and `Disk`, which have `TornBytes` in common; `OrderedBatch` extends `Disk`.
`ReplaySweep` extends `Replayable`, `JournalFormat` extends `FileOps`. `MCIntake` puts the
three pure parts in one instance, one of them running at a time.

**Tree.** `tree` maps every path and every aside name to an entry: `Absent`,
`Directory`, `File(bytes, exec)` or `Link(target)`. The namespace is flat; the set
`Under` of `Replayable` says which path lies inside which, and is empty in the runs: a
nested pair is refused by the rule, so that only the refusal would be exercised. Reads,
`Written` and `Flipped` follow links (`Referent`); `Moved`, `Removed` and `Linked` do
not. A chain of links that never ends is treated as one that dangles, as `InMemoryFs`
has it. `Replaced` is `Storage::replace`: on a backend with `atomic_replace` a sibling
with the mode of what the path leads to is renamed over the entry, without it a plain
write goes through a link and keeps the mode. A mode is its execute bit.

**FileOps.** `CanRun` and `Ran` are the last call of an op; `Left` is every tree a call
may leave when it fails or the process dies inside it (a torn write, a flip or a write
that landed and whose barrier failed, a link removed and not remade). `CanReplay` and
`Replayed` are `journal::replay`: a rename whose source is gone is taken for done if its
destination is there, a flip of nothing is skipped, a remove of nothing is done.
`Applied` is the set's meaning, op after op.

**ChangeSet.** The variables and what they are in the code:

| variable | in the code |
|---|---|
| `tree`, `journal` | the file system: `journal` is `None`, the ops, or `Garbled` (a plain write cut short) |
| `pc`, `i` | where the process is: between which two calls, at which op or undo step |
| `ops` | the set last begun |
| `undo`, `asides` | `Rollback { steps, asides }` |
| `hist` | the ghost history of `change/rollback.rs`: `hist[1]` is the tree before the set, `hist[k + 1]` the tree the k-th undo step was recorded for |
| `failed` | `first_error` of `unwind_durable`, remembered after the call |
| `answer` | what the last call returned |
| `begun`, `faults`, `crashes` | bounds: sets begun, calls failed and deaths since the set began |

| action | code |
|---|---|
| `Apply`, `ApplyRefused` | `apply` down to the choice between the lone op and the journal |
| `RunLone`, `LoneFails`, `CertifyLone` | the fast path of a set of one |
| `Commit`, `CommitFails` | `write_atomic` of the journal; a failure may leave it in place |
| `MoveAside`, `Land`, `LandRename` | `exec`: an op is one call, or a move aside and a call |
| `ExecFails`, `LandFails` | an op fails before it has recorded anything, or at its last call |
| `Certify` | the flush at the end of `run_or_roll_back` |
| `RetireAside`, `RetireJournal`, `RetireFails` | `retire_asides` and the removal of the journal |
| `Unwind`, `UnwindFails`, `Unwound` | `unwind_durable`, best effort |
| `Abort`, `AbortFlush` | `retire_after_abort`: before and after the removal of the journal |
| `Recover`, `Replay`, `ReplayFails`, `Sweep`, `SettleRecovery`, `RecoveryFails` | `recover` |
| `Crash` | the process dies between two calls or inside the one it is at (`InFlight`) |

A call may fail for a reason of its own (its guard does not hold: no fault is spent) or
because the backend fails it (`Fault`, at most `MaxFaults` of a set). `SourcesKept` is the
one assumption on the caller: `FileOp::CopyFrom` demands a source that does not change
while the set may be replayed, and a path no other op of the set writes. The rule sees to
it for the source's own name; the caller must for every name a link there leads through,
the last included. A lone copy is not replayed and is asked nothing. (Checking only the
name the links end at would not do: an op may change a link on the way.)

**AtomicSet.** A caller who recovers before reading sees `docs`, and `pending` while a set
is neither applied nor given up. `Begin` makes a set pending, `Take` replaces the
documents by the set applied, `GiveUp` leaves them. `Break` is `Error::Torn` over a
rollback that failed, after which `Settle` promises nothing. `ChangeSet` implements it
with `docs <- IF Pending THEN Before ELSE tree`: a tree that is being changed, or
that a journal says is not finished, is not to be read. It is the whole tree, the names
the crate keeps to itself included: a set that is given up leaves nothing of itself.

`Reaches(t, set, u)`, what "applied" means, compares what each document holds, and the
modes too for sets that have nothing to do with links and can run. Modes are left out
otherwise because the code does not recover them: a write over a link takes the mode of
what the link leads to, and once a crash has removed the link to remake it there is
nothing to take; a flip of a file that is not there fails in an apply, but a recovery run
twice may find the file a later op made.

**Disk.** `store` is what has landed for good, `log` the writes that have not. A write is
one indivisible change of a few locations: the bytes or the mode of an inode, a name, or
the two names of a rename. It carries the objects that must be synced for it to reach its
device (`owed`), the writes it cannot land before (`after`: those that share a location
with it, and those a barrier has bound), and whether a barrier has spoken for it
(`bound`). `Handed` is a push, `Barriered` binds what has reached the device, `Drained`
lands it with whatever comes before it. `Survivors` is every store a power cut may leave:
any set of writes closed under `after`, and any write of bytes on top of it in part.
A write that was never flushed may land all the same: the disk promises nothing. `ordered`
adds that metadata lands in the order it was written, which file systems that journal
their metadata do and the port does not ask for. A new inode's bytes are of a name no one
else has, so `Fresh` takes the least that nothing knows.

This is the contract of `sync` as `fs.rs` 725-759 and 1093-1209 state it, and no backend:
whatever an honest backend does is one of its outcomes. Three things are narrower. A
directory is an object with names and no name of its own except where a module gives it
one (the home of `DurableSet`, the folders of `OrderedBatch`). The temporary name of a
replacement is left out, since it is owed nothing and survives as litter at most. A link
is made by one write, on any backend.

**DurableSet.** Each action of `ChangeSet` with what it writes and flushes:

| action | writes and flushes |
|---|---|
| `RunsLone`, `LandsOp`, `ReplaysOp` | `CallOn`: a replacement barriered before its rename, a flip barriered while its name leads to it, a write in place barriered, a rename, a removal, a link |
| `Commits` | `WithHome`, each directory made drained, then `write_atomic` |
| `Certifies`, `CertifiesLone` | `flush_all` of every directory the ops owe, drained at the root |
| `RetiresJournal` | the directories of the asides flushed, the journal removed, that removal flushed by nothing |
| `Unwinds`, `Aborts`, `FlushesAbort` | `undo_step`; a barrier for each directory it edited, for a journal elsewhere a drain of the root, the removal, its flush |
| `SettlesRecovery` | the debts of every op replayed, then the journal removed |
| `LeavesLone`, `LeavesOp`, `LeavesCommit`, `LeavesUnwind`, `LeavesReplay`, `Dies` | a call that fails, or that the process dies in: any part of its writes, none of its flushes |
| `PowerCut` | the process is gone and the disk is one of `Survivors` |

`kept` is where the journal is: in the root, or in a home on a device of its own, whose
directory the first commit makes. `sure` is a history variable: what the last answer
promised (`applied`, `undone`), or that the call began from documents a cut may still
change (`adrift`), or recovered from a journal not landed (`unlanded`). The properties do
not step through a cut and a recovery: each looks, in every state, at every store a cut
could leave now, and at the tree a recovery of it would reach (`Recovered`).

**OrderedBatch.** `calls` is the batch as it was staged, ops and barriers in a row, and
`done` how many of them have been carried out; `debts` are the names the tier being built
owes a flush. `MakeDir` makes one directory of the chain an op needs and owes its name and
the one that gained it, `LandOp` writes the file and adds its debts, `Occupied` is a
`create_new` that finds the name taken, `SkipBarrier` passes a barrier with nothing staged
since the last, `FlushTier` is the pass at a tier's end, `Stops` is a call that fails or a
death in it, with an op in part or some of the debts pushed, `PowerCut` what it says.
`before` is what of each file a cut could have left when the apply began: an op shows when
a cut leaves something of it that could not be there before. `certified` are the ops an Ok
still speaks for, and `settled` says that the apply found every directory flushed: what the
batch promises is stated under it, and `batch_retry` shows why. Everything a batch writes
is on one device (`DeviceAssumption`): the cap at the root is the code's only barrier, and
on another device it would order nothing. `HasRoom` is a bound, that an inode is left.

**ReplaySweep.** `first_refusal` as it is: `place` checks that the hint it is handed is an
order of the set's entries, and the comparison of every pair is its way out if it is not;
each op against itself; each entry against those after it up to the first its key is no
prefix of, both ways round. A path is the sequence of its components, as numbers;
`Under` and the keys agree (`KeyAssumption`). The order handed over is a constant, so that
wrong ones are tried too.

**PathGuard.** `kept` is `fold`'s result so far; `place` and `lost` are the walk the path
stands for. **JournalFormat** has `encode` as operators and `decode` as actions over a
cursor. One symbol stands for a byte, a word and the stamp, and the hash is taken modulo
the number of symbols; `TakeByEnd`, the mutant that adds before it compares, wraps there
as it would at 2^64.

## 3. Runs

Every run switches the deadlock check off because the system may stop: a caller applies a
bounded number of sets or batches, a search or a decoder ends, and nothing is left to do.

| run | what it shows |
|---|---|
| `core` | all six ops, alone and in every pair the rule admits, and one pair it refuses, over all 36 trees of two paths; two failing calls and two crashes anywhere; atomic backend. 978,610 states |
| `plain` | the same without `atomic_replace` and without links. 240,356 states |
| `sets` | ten sets of up to three ops over three paths, two applied in turn, two failing calls and one crash of each; refinement and liveness under `FairSpec`. 33,841 states |
| `durable` | six sets over two documents, one of them in a directory; the journal in the root or on another device; metadata in order or not; two sets in turn where the journal is in the root, one where it is not; one failing call or one death of each set, one power cut anywhere. 192,195 states |
| `batch` | two of three batches in turn, of one to three tiers, two directories deep; each finality; backends that order or drain, with and without `atomic_replace`; one stop, one power cut. 100,769 states |
| `intake` | every set of two and three ops over a directory, a file in it and one beside it, in sorted order and, of two, in a short and a backward one; every path of up to five components, and with heads; eleven journals, whole, under the old stamp, with any symbol altered, cut anywhere, grown by any symbol, the same with the sum made to fit, and 4,681 short bodies with a true sum. 642,835 states |
| `plain_error`, `torn_forward`, `directory_over`, `rename_lost`, `homed`, `batch_retry` | the six findings of section 6 |

The properties:

* `TypeOK`, with which phase has which journal.
* `RollbackRestores`: an apply that rolls back leaves the whole tree as the set found it.
* `UndoCanProceed`: no undo step is refused while those before it went through.
* `AllOrNothing`: with no journal left, the documents are those before the set or those it
  asks for, unless an undo step failed.
* `CutShortMeansUntouched`: under a journal cut short, which recovery refuses and apply
  will not pass, the whole tree is the one its set found; removing the file by hand, the
  only way on, loses nothing. (`AllOrNothing` speaks of trees with no journal left, and is
  silent here.)
* `OkMeansApplied`: success of apply and of recover means the set is applied.
* `AlwaysReplayable`: while the journal stands, replaying it from the first op over the
  tree as it is, wherever the process is, leads to the applied set.
* `ReplayCanProceed`: no replayed op of a set that can run is refused.
* `NoOrphanAside`: with the journal gone, no moved-aside file is left.
* `JournalCovers`: documents change only under the journal of the set, or by a lone op.
* `AsidesAccounted`, `HistoryExact`: the inductive invariants behind `NoOrphanAside` and
  `RollbackRestores`, checked before they were proved.
* `ReplayAccounted`: the inductive invariant behind `AllOrNothing`, `OkMeansApplied`,
  `AlwaysReplayable` and `ReplayCanProceed`: the tree under a journal, and what a failing
  undo step would leave of it, is one a replay can begin from, and a replay under way has
  put right what its ops so far decide. Checked before it was proved.
* `IntentKept`: a journal on disk is never replaced by another.
* `KeepsPromise`: the protocol implements `AtomicSet`.
* `RecoveryResolves`: a journal of a set that can run does not stay for ever, or an undo
  step of its set has failed.
* `DiskShowsTree`: the tree and journal of `ChangeSet` are what a process reads of the
  disk: the writes `DurableSet` gives each call are that call's effect.
* `CutAllOrNothing`: whenever the power is cut, the tree that comes back, recovered if it
  has a journal, is the one before the set or the one it asks for, and no recovery is
  refused.
* `CertifiedSurvives`: after an Ok of apply or recover no cut takes the set back
  (`OkSurvives`), where it leans on nothing the port leaves open (`LeansOnOrder`, below).
* `IntentSurvives`: from the commit until the journal is given up, every cut leaves it
  whole, whatever the set and its rollback have written and flushed since.
* `NoResurrection`: once a rollback has answered, no cut brings its journal back.
* `AbortSurvives`: nor any of what was undone.
* `NoOrphanComesBack`: no cut brings back a moved-aside file under a journal that stays
  gone.
* `TiersInOrder`: nothing staged after a barrier survives a cut unless everything staged
  before it survives whole, where the batch found its directories flushed.
* `SettledBatchSurvives`: an Ok of a Durable apply survives, where its directories were
  flushed when it began.
* `OrderedAheadOfNext`: what an earlier apply was told is ordered survives whatever a later
  one leaves.
* `WritesWhole`: a write shows the old file or the new one, in a tier cut short as in any.
* `SweepIsPairwise`: the search names the pair that comparing every pair would name first.
* `GuardFollowsWalk`, `KeptIsNormal`: the guard refuses what its walk leaves the root by;
  what is kept is a normal form, also of a path that escapes.
* `RoundTrip`, `OneReading`, `RotIsFound`: a journal is read back as written; bytes that
  are accepted are the bytes `encode` writes for what they are read as; one altered symbol
  is always found out.

**What `LeansOnOrder` excludes.** The port's contract is weaker than what the code counts on
in four places, and `CutAllOrNothing` and `CertifiedSurvives` are stated outside them, each
of which TLC finds when the exclusion is dropped; `IntentSurvives` and `NoOrphanComesBack`
are stated outside the third alone. (a) A lone op writes no journal over an
older one whose removal has not landed; the removal lands first where metadata lands in
order and on one device. (b) A recovery replays a journal it can see and does not flush it;
if the commit's rename had not landed, a cut in the middle of the replay leaves half a set
and no journal. `journal.rs:565-569` says recovering twice is safe, which holds where the
rename lands before the documents do. (c) A home made and not flushed by a commit that
failed is taken for an old one by the next, so that on a device that orders nothing every
later journal there may be lost with it. (d) The rollback of a flip and a rename may
land the rename and the flip's undo without the rename's, and the mode is lost. For a journal
in the root of a file system that journals its metadata and replaces atomically, none of
them is excluded: there the two properties hold as they stand.

**The bounds.** Two paths are enough for every relation two ops can have (same path, a
rename's two ends, a copy's source, a link to the other path), and the rule itself is
about pairs; three paths and three ops in `sets` add chains of them (a mover, its
occupant, a bystander). Two faults are a call that fails and a call of the rollback, or
of the recovery, that fails too; two crashes are an interrupted set and an interrupted
recovery. Two sets are what it takes for one to arrive over the journal of another, or
over what an earlier one left. `MaxOps` bounds the length of a set and the numbers in the
asides' names.

On the disk, a set of two ops is what a flush can come between, and two sets are a removal
that has not landed under a later set. `OneTrouble` allows each set one failing call or one
death: a death in a rollback is a failing call and a death, and is `core`'s. One cut is
enough because the properties look at every cut from every state; it lets a recovery begin
from what a cut left. Seven inodes are two documents, the journal and a replacement of each
for two sets; no state of the run is without one, so that `HasRoom` excludes nothing. A batch of a payload two
directories down, a record one down and a head in the root has every chain a directory can
be made in and found in; two batches of two ops and one op cut short take five of its six
inodes, so that `HasRoom` excludes nothing there. For the search, three paths are a path inside another and one
whose key sorts after both; a pair the sweep might miss is two entries, and a third op
moves them apart. Five components are a climb, what it cancels and what comes after, twice.
Sixteen symbols are the tags, the flags, two stamps, one that is no text, and lengths that
wrap when they are added to. The exclusive or of two symbols is a constant operator, which
`MCIntake` gives as that of the community module `Bitwise`.

**The plain backend has no links.** A backend without atomic replacement that does have
links is allowed by the port, and the rollback is not exact there: a plain write goes
through the link, and the undo puts back the link and not what the write changed. No
backend in the repository, or named in its documentation, is of this kind; `plain` and
the theorems stated for `AtomicReplace` leave it out.

**Fairness.** `FairSpec` asks for weak fairness of `Proceed`: every call of a live process
returns, and the code between two calls is sequential and does not loop. It asks for weak
fairness of `Recover`: the documentation asks the caller to recover before anything else
reads the tree, and an apply over a journal is refused. Nothing is asked of `Call` or
`Crash`, and faults and crashes are bounded per set: they do not go on for ever. The other
specifications state no fairness, because they state no liveness: a search, a guard and a
decoder are loops whose counter only grows.

## 4. Theorems

For every set of paths, of contents, of initial trees, of sets and every bound, under the
named assumptions of the modules (`PathAssumption`, `ValueAssumption`, `UnderAssumption`,
`InitAssumption`, `StagedAssumption`, `BoundAssumption`; for the guard and the sweep
`ComponentAssumption`, `RoutesAssumption`, `KeyAssumption`, `SetsAssumption`; for the format
`SymbolAssumption`, `JournalAssumption`, `XorAssumption`, `PrimeAssumption`; for the batch
`LayoutAssumption`, `DeviceAssumption`, `BatchAssumption`; for a set on a disk the
`LayoutAssumption`, `DeviceAssumption` and `StoreAssumption` of its own), which TLC evaluates on each run. The four of the format are what the code and the machine give: the
two stamps differ; the length of a set, of a text and of a payload is a `usize`, so below
the number of values a word has; an exclusive or is undone by the same exclusive or; and
the prime of FNV-1a is odd and the word a power of two, so that multiplying by it loses
nothing. The three of the batch say that files, directories and the parts of inodes are
different things, that the chain of a directory is the chain of the one it is in and
itself, that a tree is on one device, and that a payload is not what torn bytes read as. The three of a set on a disk say that
paths, asides, the journal's names and the parts of inodes are different things, that an
aside is in the directory of what it was moved from, that the tree is on one device and a
journal's home on another, that there are inodes for a first tree, and that a journal cut
short does not read as a set. The theorems of `DiskProofs` are about the operators every action
on a disk is made of, and assume nothing of the constants:

| theorem | statement |
|---|---|
| `ChangeSetProofs!TypeCorrect` | `Spec => []TypeOK` |
| `ChangeSetProofs!IntentNeverReplaced` | `Spec => IntentKept` |
| `ChangeSetProofs!ChangesAreJournaled` | `Spec => JournalCovers` |
| `ChangeSetProofs!CutShortIsUntouched` | `Spec => []CutShortMeansUntouched` |
| `ChangeSetProofs!AsidesCorrect` | `Spec => []AsidesAccounted` |
| `ChangeSetProofs!NothingOrphaned` | `Spec => []NoOrphanAside` |
| `ChangeSetProofs!RollbackExact` | `Spec => [](AtomicReplace => HistoryExact /\ RollbackRestores)` |
| `ChangeSetProofs!UndoNeverRefused` | `Spec => [](AtomicReplace => UndoCanProceed)` |
| `ReplayProofs!ReplayIsAccounted` | `Spec => [](AtomicReplace => ReplayAccounted)` |
| `ReplayProofs!SetsAreAtomic` | `Spec => [](AtomicReplace => AllOrNothing)` |
| `ReplayProofs!OkIsApplied` | `Spec => [](AtomicReplace => OkMeansApplied)` |
| `ReplayProofs!JournalSuffices` | `Spec => [](AtomicReplace => AlwaysReplayable)` |
| `ReplayProofs!ReplayNeverRefused` | `Spec => [](AtomicReplace => ReplayCanProceed)` |
| `ReplayProofs!PromiseKept` | `AtomicReplace => (Spec => KeepsPromise)` |
| `IntakeProofs!GuardFollowsWalkAlways` | `GuardSpec => []GuardFollowsWalk` |
| `IntakeProofs!KeptIsNormalAlways` | `GuardSpec => []KeptIsNormal` |
| `IntakeProofs!SweepIsPairwiseAlways` | `SweepSpec => []SweepIsPairwise` |
| `IntakeProofs!WrittenIsRead` | `FormatSpec => []RoundTrip` |
| `IntakeProofs!OneReadingOnly` | `FormatSpec => []OneReading` |
| `IntakeProofs!RotAlwaysFound` | `FormatSpec => []RotIsFound` |
| `DurableProofs!DurableAlwaysInv` | `DurableSpec => []DurableInv` |
| `DurableProofs!DiskAlwaysShowsTree` | `DurableSpec => []DiskShowsTree` |
| `DurableProofs!IntentAlwaysInv` | `DurableSpec => [](DurableInv /\ IntentInv)` |
| `DurableProofs!IntentAlwaysSurvives` | `DurableSpec => []IntentSurvives` |
| `DurableProofs!AbortIsFinal` | `DurableSpec => []NoResurrection` |
| `DurableProofs!TrailAlwaysInv` | `DurableSpec => []TrailInv` |
| `DurableProofs!NothingComesBack` | `DurableSpec => []NoOrphanComesBack` |
| `BatchProofs!BatchIsInv` | `Spec => []BatchInv` |
| `BatchProofs!TiersAreInOrder` | `Spec => []TiersInOrder` |
| `BatchProofs!SettledBatchIsKept` | `Spec => []SettledBatchSurvives` |
| `BatchProofs!OkIsAheadOfNext` | `Spec => []OrderedAheadOfNext` |
| `BatchProofs!WritesAreWhole` | `Spec => []WritesWhole` |
| `DiskProofs!OneDrainCarriesAll` | a pushed write is in every survivor of a drain of its device, unless it was overwritten first |
| `DiskProofs!OneBarrierOrdersAll` | what is written next on a device lands only with what was pushed before a barrier there |
| `DiskProofs!FlushesAreUnseen` | `Seen(FlushAll(k, debts, anchor, need)) = Seen(k)` |
| `DiskProofs!EveryDiskIsSound` | `Clean` disks are `Sound`; writes and flushes keep them so |

**The argument.** `TypeOK` is inductive because it says which phases have the journal of
their own set. The two action properties follow from it step by step.
`CutShortMeansUntouched` needs what was true before there was such a file (`NothingYet`):
a set that waits at its commit point has touched nothing.

`NoOrphanAside` is not inductive: it speaks of the moment the journal is gone, and what
makes it true then happened long before. `AsidesAccounted` says where every aside in use
is accounted for while it is in use: an op of the journal (for a sweep), the list of the
retirement, and an undo step of the rollback, each not yet passed. Every action that ends
a phase then ends it with none in use.

`RollbackRestores` rests on `HistoryExact`: each undo step takes `hist[k + 1]` back to
`hist[k]` and can, and the tree is the last of the history while the set runs and the one
the next step was recorded for while it is unwound. The steps are those of `exec`; the
cases are those of `Capture`, of a move aside and of a rename. `AsidesAccounted` is used
once: that a move aside finds its name free.

`AllOrNothing` and its three companions rest on one question: a replay starts from the
first op over a tree that any part of the set, of its rollback and of earlier replays has
been at; why does it end where the set would have? The answer is in `Restart`, and it is
per path, because the rule makes it so. `Restartable` says of a tree `u` what cannot have
been lost: a path no rename names and no op puts an entry at has what the set found there;
of a rename's two paths either nothing has moved (what it lands on may be aside), or it
has, and the destination holds what was moved or what a later op wrote over it. It knows
nothing of the process's place. `CaughtUp(j)` says what the first `j` replayed ops have put
right: their renames are done, and every path whose entry is due to them (`BodyDue`: no
rename of it still to come, and one of the ops that put an entry there made, if there are
any) holds what the set would have put there. At `j = Len` everything is due, so the two
together are `Reaches`.

`RestartProofs` proves of an admissible set, op by op and for each of the six kinds, that
the run of the set, each move aside, each undo step and each interrupted call leave a
restartable tree; that a restartable tree can be replayed at each op; and that replaying op
`j` takes `CaughtUp(j - 1)` to `CaughtUp(j)`. Here the rule earns its clauses: a reused name
of a rename, a copy of what the set changes, or a flip under a link each break one step.
Modes are argued apart from bodies, since they are kept by different ops and for exact sets
only. The step from one op to all of them (`RunAgain`) is an induction over the set; the
library's induction theorems cannot be instantiated by the installed provers, and the least
counterexample takes their place (`NatLeast`, from the well-foundedness of `<` on `Nat`).

`ReplayProofs` carries that through the machine: `Anchored` is `ReplayAccounted` with the
few facts about the phases it needs, among them that every undo step recorded, failing
half-way, leaves a restartable tree (`Stood`): an apply can begin to unwind at any op and
die in any step. `HistoryExact` is used there: the tree a rollback is at is one the run
was at.

`PromiseKept` maps each step. A set begins with `Apply`; it is over at the step that leaves
`Pending`, and then `AllOrNothing` at the next state says it is given up or taken; a failing
undo step is `Break`; every other step changes neither the set nor the tree it began from
(`SetStays`). That a set given up leaves the asides too as they were needs that it found
none in use (`Clean`, from `AsidesAccounted`).

`TreeProofs` holds the lemmas about the calls: each keeps a tree a tree, and says which
slots it may change. It also holds the facts about counting that several proofs need:
`NatLeast`, and that a table built from 0 upwards is what its recursion says (`Iterates`).

The guard's invariant relates the two loops turn by turn: while the walk is not lost, what
is kept is where it stands; once it is lost, what is kept leads with the head or the climb
that lost it, and no later climb can cancel that. Normal form is part of the invariant,
since it is what says that the last component kept is a name exactly when there is a name
to cancel.

The sweep rests on four facts about keys. The order is transitive (`LexTransitive`). A key
between a prefix and one it is a prefix of has the prefix too (`NoGap`): so the entries
inside a path follow it without a gap, and a scan that stops at the first one outside
misses none. A path comes before those inside it (`OuterFirst`). And two ops whose pair the
rule refuses share a path or have one inside the other (`RefusedPairsMeet`): so their
entries meet in the sweep. The invariant says of every pair of entries already met that
`best` is no later than a refusal between them, and that `best`, when there is one, is a
refused pair. It does not rest on how the order was sorted: `place` establishes what is
used of it, or the pairwise loop takes over.

The format's invariant, `FormatInv`, says where the cursor is: the ops taken so far stand
in the file record behind record, from the first symbol after the count to where the
cursor went (`Kept`), and in a file that encode wrote they are a prefix of the set
(`WholeInv`). `ReadsBoth` splits a reading of two pieces into two readings, and
`TakeIsRead`, `FieldIsRead`, `PathIsRead` and `OpIsRead` say of each call of the cursor that
it succeeds exactly when what it gives back stands there as encode would have written it;
the last is the whole argument for `OneReading`, since the decoder asks at the end that the
cursor is at the end of the body, and for `RoundTrip`, since the record of the set's next op
stands there and an op's record says which op it is. A length is compared with what is left
before it is added to anything, so no step needs to know that a sum does not wrap.
`RotIsFound` rests on `HashTells`: one step of the sum takes different sums to different
sums and different symbols to different sums, so two bodies that differ in one symbol have
different sums to the end; and if the altered symbol is the sum, it is no longer the sum of
the body. The stamp is a symbol of the body like any other.

What a flush buys rests on the shape of the log (`Sound`): what a write lands after is
earlier, is closed, and has every earlier write of a location it changes. So a drain lands
a closed set, and can leave no earlier write of a location it has landed
(`DoneLandsEarlier`): no survivor has anything else there. That any writes of a log have a
last one (`HasLast`) is part of `Sound` and carried from write to write, because that a
finite set of numbers has a greatest is an induction. `OneDrainCarriesAll` says nothing of
a write whose objects were not all pushed, or on another device than the anchor: `homed`
and `batch_retry` are those two cases.

The batch is proved on top of that, of any number of calls, failures and cuts. An op is
`Firm` when all a reader goes through to its bytes, each directory's name, its own and the
bytes, is whole and bound: whatever is written from then on lands only with it
(`FileStep`). It is `Fixed` when nothing of that is left to land. `BatchInv` says what has
landed in the apply that is running is firm, or in the tier that is being built and covered
by its debts (`Progress`: `Landing` for the file's own name and bytes, `FoldersOwed` for the
directories, which is where `settled` is needed); that a file no op has come to is as a cut
could have left it before (`Untouched`); and that no cut shows an op of a later tier or
batch without what was firm when it was written (`Tiers`, `Ahead`). None of the four
properties is inductive without the first: they look at the cuts of one state, and what
keeps a new write from showing early was flushed steps before. `FlushCaps` is the flush: it
keeps what is firm, and makes firm what the debts cover. `DiskInv` is the shape of the disk
under a batch: a write is of one name or of one inode's bytes and owed to what holds it, a
file that may be there is in directories that are seen (`Nested`), no two names share an
inode (`Unshared`). The theorems are about backends that order; on the others nothing is
promised.

A set on a disk is proved to be the set: `DiskShowsTree` says that the writes given to each
call of an apply, a rollback and a recovery are that call's effect on the tree. It is not
inductive, because what a call does to a disk depends on what was there: bytes written to
an inode two names share change both, an inode taken for new that an older write still
names changes what that write will show, and one that was a journal's and becomes a
document's would put an intent in the tree. `DurableInv` rules these out. `DiskInv` says of
every value a location has had since the last flush, not only of the one that is seen, that
it is of the kind the location is for (`Typed`), that an inode a document has had is never a
journal's (`Roles`), and, of every store a cut may leave, that no two paths of it have the
same inode (`Unshared`); so it survives a cut, and every write keeps it. `Does` adds what is
seen. `Standing` is what is left of `TypeOK`, which a cut breaks: a journal that comes back
need not be the set's last begun. The proof has one lemma for each write (`EntryKeeps`,
`PartKeeps`), for each call (`CallDoes`, `UndoDoes`, `CommitDoes`, `CutDoes` and the like) and
for what each leaves when it fails (`CallLeaves`, `UndoLeaves`), and assumes nothing of the
backend's atomicity or of its order.

The journal through the cuts. A flush settles what it is owed, so the invariant has to say
what is owed: `Placed`, that a write of the journal's name, of its home's or of an aside
that may still be lost owes a flush of the directory that name is in and of nothing else.
`write_atomic` then ends with the journal `Firm` (`CommitFirms`): its name, its bytes and,
on another device, its home are at `Rest`, which is to say that nothing unlanded writes
them. On a backend that replaces, the bytes are only barriered before the rename; they rest
because the name was written after them and a drain lands what a write lands after
(`LaidLasts`). A home rests by the same argument (`LeadSettles`), on a backend that orders
metadata or where no failed commit has left its entry unflushed: `Early` is that nothing
has yet, `HomeAdrift` the case that is left out, and it is case (c) of section 3. From
there on every step but the two that give a journal up writes only elsewhere. `Spares` says
it of a call on documents: it leaves each watched name, and each inode a journal has had,
as it was, in every cut; `Steady` and `Housed` say the same of moves aside and of the
journal's own calls, in as much as is needed. So `IntentSurvives` is `Firm` seen from a
cut (`FirmSurvives`), and `NoResurrection` is `Placed` at the last flush of a rollback.
`Course` is where the process is in terms of the journal and the undo steps, which a
cut leaves true as it does not `TypeOK`.

The asides through the cuts. `TrailInv` is about the asides a cut may still find in use
(`Trail`), whether or not the process sees them. While a set is at work each is the
displacement of an undo step; and in whatever part of what was written has landed, an aside
in use has with it the whole journal that asks for it to be swept (`Backed`). Hence a
journal may be given up in two ways only. Either nothing is left of the trail: a retirement
flushes the directory of every displacement first, and a recovery the directories of its
ops, which are those of their asides (`RetireClears`). Or what is left of it lands before the
removal does: a rollback pushes the same directories and sets a barrier, so that a cut with
an aside still in use has not landed the removal (`AbortBacks`, `UnkeptBacks`); for a
journal on another device, where a barrier binds nothing, it drains the root. Such a trail
is flushed by the next commit (`CommitClears`) or stays under the next set's journal.

**Only model-checked.** What a cut makes of the documents (`CutAllOrNothing`,
`CertifiedSurvives`, `AbortSurvives`). What is proved of the journal and the asides needs
only the names apply makes up itself, which nothing else writes; for the documents it takes
that the debts passed to a flush are all that is owed, by every call of a set, of its
rollback and of its replay, and what a replay makes of a tree of which any part has landed.
`BatchProofs` has that argument for the batch, where an op's debts are owed by
the op. `BatchSurvives`, which `batch_retry` refutes, is proved where it is true, as
`SettledBatchSurvives`. Liveness (`RecoveryResolves`), which
the prover does not reach. And the rest of what
`plain` checks: without `atomic_replace` a write may be
cut short in the file itself, so that a tree under a journal may hold torn bytes at any
path the set writes. `Restartable` has no word for that, and the theorems about
rollback and replay are stated for a backend that replaces atomically.

## 5. Mutants

Beside the definitions they vary are the mutants each property is checked to reject: an
undo captured through a link or after the call, a rename's undo recorded too early, a
sweep that forgets an op or names the wrong sibling, a rollback that starts one step
short, a failed commit that goes on, a journal given up before the rollback, a rule that lets a renamed name be reused; a rename that keeps its old name, a commit that is not flushed, a flip's or a
rollback's bytes flushed by name at the end, a journal removed before the asides' removal
is certified, a rollback's removal that is not flushed, a journal replaced with no barrier
before its rename; pushes with no cap, a chain of directories without the ancestor that gained
one, a new file taken to be whole once it is named, a replacement with no barrier before
its rename; a key order that puts a directory after its files, a climb that is forgiven or
never cancels, an end computed before it is compared, a sum that forgets.

## 6. Findings

Six sentences of the repository that the code does not keep; `Claims` quotes the first
four, `OkSurvives` and `BatchSurvives` the others.

1. `plain_error`. When the journal's own `write_atomic` fails in the flush after it has
   replaced the journal (`change.rs:642`), apply returns a plain error with the journal in
   place. `error.rs:30` says the tree is as it was, and it is; but the next recovery rolls
   the failed set forward, which `change.rs:38-40` rules out.
2. `torn_forward`. `unwind_durable` goes on after a failed step (`change.rs:873`). When
   moving a renamed file home fails, the next step moves the old occupant back over it:
   the renamed file is lost, and recovery takes the occupant for the rename already done
   and answers `Applied`. `change.rs:467-471` promises the applied state.
3. `directory_over`. An apply renames a directory over a file by moving the file aside
   first; a recovery of the same set, when the process died before that move, does not
   (`journal.rs:821`), and stops for ever. `fs/memory.rs:510` says nothing does this.
4. `rename_lost`. The occupant of a rename's destination is moved aside before the source
   is looked at. With no source, a crash then leaves neither name, and recovery refuses
   what `journal.rs:806` says no honest interruption can produce.
5. `homed`. A journal kept on another device comes back: apply removes it and flushes that
   removal by nothing (`change.rs:668`), and a flush of the tree says nothing of the other
   device. When the next set is a lone op, no journal is written over the old one; apply
   answers Ok, the power is cut, and recovery rolls the older set over the newer op.
   `change.rs:442` says Ok survives a power cut. The comment at 663-668 argues that a
   journal that comes back is harmless because its ops are durable, and so it is until
   something else has been applied.
6. `batch_retry`. `create_dir_all_traced` owes nothing for a directory that is there
   (`fs.rs:1242`). An apply that made a chain and stopped leaves names no one will flush;
   the retry's Ok rests on them. `ordered.rs:21` says the batch survives.

Seen on the way, and not runs. The four places of `LeansOnOrder` (section 3), of which (b)
is `journal.rs:565-569` on the bare contract. The mode a replacement carries over is never
flushed, which `fs.rs:783-790` says. `journal.rs:996` casts a 64-bit length to `usize`,
which keeps its low half on a 32-bit target. `fs.rs:1057-1072` says that in `InMemoryFs`
one locked call checks and inserts; `create_new` takes its locks one after the other, and
the comment at `memory.rs:378-382` says why that is enough.

## 7. Not modelled

| what | why |
|---|---|
| expectations | `expect` and its check read the tree before the commit point and change nothing. With the single writer the crate asks for, a check is a guard of `Apply` and nothing can come after it; a second writer is outside the contract. |
| `InMemoryFs` under threads | One writer by contract. |
| directories made by a set's ops | Parents made on the way are litter by the crate's own account after a rollback; their flushes are `create_dir_all_traced`'s, which `OrderedBatch` and the home of `DurableSet` exercise. A directory at a named path is an entry. |
| `durable` without `atomic_replace` | `DurableSet` has the calls and TLC passes them for one set; no run of the project does, the atomic backend being the one shipped. `batch` runs both. |
| a 32-bit `usize` | `JournalFormat` has it as wide as the word. |
| `extend`, `renamed_to` | The first appends one set's ops to another's, which is a set staged by hand; the second only answers where a staged rename takes a path. |
| proofs of what a cut makes of the documents of a set | See section 4. What is left is that the debts an operation of a set notes are what its writes owe, and a replay from there. |
| `exec.rs`, `fs_faults.rs`, `xtask/` | No state of the program: a poll loop, a test double, build scripts. |
