----------------------------- MODULE DurableSet -----------------------------
(***************************************************************************)
(* ChangeSet on a Disk: each call of apply and recover is also what it     *)
(* writes and flushes, and the power may be cut between any two, which     *)
(* leaves any tree and journal the flushes so far allow.                   *)
(*                                                                         *)
(* Paths are entries of the root or of one directory in it.  The journal   *)
(* is kept in the root, or in a home of its own on another device, which   *)
(* the first commit makes.                                                 *)
(***************************************************************************)
EXTENDS ChangeSet, Disk

CONSTANTS
  Root,             \* the tree's own directory
  Attic, Home,      \* the journal's home, and the directory it is made in
  InRoot, InHome,   \* where the journal is, by where it is kept
  HomeName,         \* the home's own entry
  Places,           \* where the journal may be kept
  Orders,           \* whether metadata may land, and may not land, in order
  Pool, HomePool,   \* the inodes of the two devices
  HomedSets,        \* how many sets a caller with a home applies
  MaxCuts           \* how many times the power is cut

VARIABLES
  disk,   \* what has landed and what has been written since
  kept,   \* where this caller keeps its journal
  sure,   \* what the last answer promised of the set
  cuts    \* power cuts so far

\* The store without what was in a home that is lost.
WithoutHome(s) == IF s[HomeName] = Gone THEN [s EXCEPT ![InHome] = Gone] ELSE s

JournalNames == {InRoot, InHome}

Entries == Slot \cup JournalNames \cup {HomeName}

FilesOf(t) == {p \in Path : IsFile(t[p])}

OneToOne(f) == \A x, y \in DOMAIN f : f[x] = f[y] => x = y

\* An aside is a sibling of what it was moved from.
ASSUME LayoutAssumption ==
  /\ InRoot # InHome /\ HomeName \notin JournalNames
  /\ (JournalNames \cup {HomeName}) \cap Slot = {}
  /\ Entries \cap Parts = {}
  /\ Places \subseteq JournalNames
  /\ DirOf(InRoot) = Root /\ DirOf(InHome) = Home /\ DirOf(HomeName) = Attic
  /\ \A p \in Path, n \in 1 .. MaxOps : DirOf(AsideOf(p, n)) = DirOf(p)

\* The tree is on one device, the journal's home on another.
ASSUME DeviceAssumption ==
  /\ Inodes = Pool \cup HomePool /\ Pool \cap HomePool = {} /\ Inodes \subseteq Nat
  /\ \A o \in HomePool \cup {Attic, Home} : Device(o) = "home"
  /\ \A o \in Pool \cup {Root} \cup {DirOf(p) : p \in Path} : Device(o) = "tree"

\* Every tree to begin from has room in the pool, and no journal reads as one
\* cut short.
ASSUME StoreAssumption ==
  /\ \A t \in InitTrees : \E f \in [FilesOf(t) -> Pool] : OneToOne(f)
  /\ \A set \in Staged : set # Torn

-----------------------------------------------------------------------------
(* A store as the tree and the journal it holds.                             *)

EntryIn(s, p) ==
  CASE s[p].kind = "file" -> File(s[BytesOf(s[p].inode)], s[ModeOf(s[p].inode)])
    [] s[p].kind = "link" -> Link(s[p].target)
    [] s[p].kind = "dir" -> Directory
    [] OTHER -> Absent

TreeIn(s) == [p \in Slot |-> EntryIn(s, p)]

\* A journal in a home whose name did not land is not there.
JournalIn(s) ==
  IF s[kept].kind = "absent" \/ (kept = InHome /\ s[HomeName] = Gone) THEN None
  ELSE LET held == s[BytesOf(s[kept].inode)] IN
       IF held = Torn THEN Garbled ELSE held

\* The store of a disk that holds tree t and nothing else.
StoreOf(t) ==
  LET files == FilesOf(t)
      inode == CHOOSE f \in [files -> Pool] : OneToOne(f)
      owner(n) == CHOOSE p \in files : inode[p] = n
      used(n) == \E p \in files : inode[p] = n
  IN  [l \in Entries \cup Parts |->
        IF l \in files THEN Inode(inode[l])
        ELSE IF l \in Path /\ IsLink(t[l]) THEN Symlink(t[l].target)
        ELSE IF l \in Path /\ IsDir(t[l]) THEN Subdir
        ELSE IF l \in Entries THEN Gone
        ELSE IF l[2] = "bytes" THEN (IF used(l[1]) THEN t[owner(l[1])].bytes ELSE Torn)
        ELSE used(l[1]) /\ t[owner(l[1])].exec]

Shows == tree = TreeIn(Seen(disk)) /\ journal = JournalIn(Seen(disk))

-----------------------------------------------------------------------------
(* What the calls of an op write and flush.                                  *)

\* The directories an op owes a flush.
Debts(op) ==
  {DirOf(op.path)} \cup IF op.act = "Rename" THEN {DirOf(op.other)} ELSE {}

AllDebts(set) == UNION {Debts(set[n]) : n \in DOMAIN set}

\* Storage::write, which follows a link.  What it writes beyond the tree is not
\* recorded.
WrittenAt(k, p, b) ==
  LET r == Referent(tree, p) IN
  IF IsLink(tree[r]) THEN k ELSE Overwritten(k, r, b, Pool)

\* Mutant of PutBack: the old bytes are flushed by name at the end.
PutBackDeferred(k, p, b) == WrittenAt(k, p, b)

\* write_back: the bytes, barriered while the name still leads to them.
PutBack(k, p, b) == SyncFile(WrittenAt(k, p, b), Referent(tree, p), "Ordered")

\* replace, and on a backend that cannot replace atomically a write and its
\* barrier.
LandBytes(k, p, b) ==
  IF AtomicReplace THEN Replace(k, p, b, CarriedExec(tree, p), Pool) ELSE PutBack(k, p, b)

\* chmod, which follows a link.
ModeSet(k, p, x) ==
  LET r == Referent(tree, p) IN
  IF IsFile(tree[r]) THEN SetMode(k, Seen(k)[r].inode, x) ELSE k

\* Mutant of Flip: the flush is left to the end of the set.
FlipDeferred(k, p, x) == ModeSet(k, p, x)

\* A flip, its inode barriered while the name still leads to it.
Flip(k, p, x) == SyncFile(ModeSet(k, p, x), Referent(tree, p), "Ordered")

\* The last call of op.
CallOn(k, op) ==
  CASE Lands(op) -> LandBytes(k, op.path, Contents(tree, op))
    [] op.act = "Rename" -> Renamed(k, op.path, op.other)
    [] op.act = "Remove" -> Unlinked(k, op.path)
    [] op.act = "SetExecutable" -> Flip(k, op.path, op.exec)
    [] OTHER -> Symlinked(k, op.path, op.target)

\* The disks that call may leave when it fails or is cut short.
CallLeft(k, op) ==
  {k} \cup
  IF ~CanRun(tree, op) THEN {}
  ELSE IF Lands(op) /\ ~AtomicReplace
  THEN {WrittenAt(k, op.path, b) : b \in {Torn, Contents(tree, op)}}
  ELSE IF op.act = "SetExecutable" THEN {ModeSet(k, op.path, op.exec)}
  ELSE IF op.act = "SetLink" /\ tree[op.path] # Absent THEN {Unlinked(k, op.path)}
  ELSE {}

ReplayOn(k, op) ==
  IF (op.act \in {"Rename", "SetExecutable"} /\ ~Exists(tree, op.path))
       \/ (op.act = "Remove" /\ tree[op.path] = Absent)
  THEN k ELSE CallOn(k, op)

UndoOn(k, u) ==
  CASE u.act = "Restore" -> PutBack(k, u.path, u.bytes)
    [] u.act = "Delete" -> IF tree[u.path] = Absent THEN k ELSE Unlinked(k, u.path)
    [] OTHER -> CallOn(k, u)

UndoLeft(k, u) ==
  IF u.act = "Delete" \/ ~CanUndo(tree, u) THEN {k}
  ELSE IF u.act = "Restore"
  THEN {k} \cup {WrittenAt(k, u.path, b) : b \in {Torn, u.bytes}}
  ELSE CallLeft(k, u)

\* What a rollback owes: every directory an undo step edits but a flip's.
UndoDebts ==
  UNION {Debts(undo[n]) : n \in {m \in DOMAIN undo : undo[m].act # "SetExecutable"}}

-----------------------------------------------------------------------------
(* The journal's own writes and flushes.                                     *)

JournalPool == IF kept = InHome THEN HomePool ELSE Pool

Published(k) ==
  IF AtomicReplace THEN Replace(k, kept, ops, FALSE, JournalPool)
  ELSE Overwritten(k, kept, ops, JournalPool)

HomeMissing(k) == kept = InHome /\ Seen(k)[HomeName] = Gone

\* create_dir_all_traced, and a durable flush of each directory it changed.
WithHome(k) ==
  IF HomeMissing(k)
  THEN Sync(Sync(Enter(k, At(HomeName, Subdir)), Home, "Durable"), Attic, "Durable")
  ELSE k

\* Mutant of Committed: the journal is published and not flushed.
CommittedUnflushed(k) == Published(WithHome(k))

\* write_atomic: the journal replaced and its directory flushed, and before it
\* the bytes on a backend that writes them in place.
Committed(k) ==
  LET written == Published(WithHome(k))
      flushed == IF AtomicReplace THEN written ELSE SyncFile(written, kept, "Durable")
  IN  Sync(flushed, DirOf(kept), "Durable")

\* A commit that fails: with the home made and not flushed, or the journal
\* written, whole or in part, and not flushed.
CommitLeft(k) ==
  {k, WithHome(k)}
    \cup (IF HomeMissing(k) THEN {Enter(k, At(HomeName, Subdir))} ELSE {})
    \cup {Published(WithHome(k))}
    \cup (IF AtomicReplace THEN {}
          ELSE {Overwritten(WithHome(k), kept, Torn, JournalPool)})

\* Mutant of Retired: the certification is skipped.
RetiredUncertified(k, debts) == Unlinked(k, kept)

\* The certified end of a set: its debts flushed, then its journal removed,
\* which is flushed by nothing.
Retired(k, debts) == Unlinked(FlushAll(k, debts, Root, "Durable"), kept)

\* retire_after_abort, down to the removal: a barrier for each directory, and
\* for a journal on another device a drain of the root.
Aborted(k) ==
  LET barred == IF UndoDebts = {} THEN k ELSE Barriered(Handed(k, UndoDebts), "tree")
  IN  Unlinked(IF kept = InHome THEN Sync(barred, Root, "Durable") ELSE barred, kept)

-----------------------------------------------------------------------------
(* The machine: an action of ChangeSet, and what it does to the disk.        *)

dvars == <<vars, disk, kept, sure, cuts>>

DurableInit ==
  /\ Init
  /\ \E ordered \in Orders : disk = Clean(StoreOf(tree), ordered, "Durable")
  /\ kept \in Places
  /\ sure = "nothing" /\ cuts = 0

Begins ==
  /\ Apply \/ ApplyRefused
  /\ begun < IF kept = InHome THEN HomedSets ELSE MaxSets
  /\ UNCHANGED disk

\* The calls that change nothing but where the process is.
Passes ==
  /\ ExecFails \/ Unwound \/ RetireFails \/ RecoveryFails \/ Recover
  /\ UNCHANGED disk

RunsLone == RunLone /\ disk' = CallOn(disk, ops[1])

LeavesLone == LoneFails /\ disk' \in CallLeft(disk, ops[1]) /\ Shows'

CertifiesLone ==
  /\ CertifyLone
  /\ disk' = IF answer' = "ok" THEN FlushAll(disk, Debts(ops[1]), Root, "Durable") ELSE disk

Commits == Commit /\ disk' = Committed(disk)

LeavesCommit == CommitFails /\ disk' \in CommitLeft(disk) /\ Shows'

MovesItAside ==
  MoveAside /\ disk' = Renamed(disk, Displaced(ops[i]), AsideOf(Displaced(ops[i]), i))

LandsOp == (Land \/ LandRename) /\ disk' = CallOn(disk, ops[i])

LeavesOp == LandFails /\ disk' \in CallLeft(disk, ops[i]) /\ Shows'

Certifies ==
  /\ Certify
  /\ disk' = IF pc' = "retire" THEN FlushAll(disk, AllDebts(ops), Root, "Durable") ELSE disk

RetiresAside == RetireAside /\ disk' = Unlinked(disk, Head(asides))

\* What was moved aside, by the undo steps that would move it back.
Displacements == {undo[n].path : n \in {m \in DOMAIN undo : undo[m].act = "Rename"}} \cap Aside

RetiresJournal ==
  RetireJournal /\ disk' = Retired(disk, {DirOf(a) : a \in Displacements})

Unwinds == Unwind /\ disk' = UndoOn(disk, undo[i])

LeavesUnwind == UnwindFails /\ disk' \in UndoLeft(disk, undo[i]) /\ Shows'

Aborts == Abort /\ disk' = IF pc' = "abortflush" THEN Aborted(disk) ELSE disk

\* Mutant of FlushesAbort: the removal is not flushed.
FlushesAbortLess == AbortFlush /\ disk' = disk

FlushesAbort ==
  /\ AbortFlush
  /\ disk' = IF answer' = "rolledback" THEN Sync(disk, DirOf(kept), "Durable") ELSE disk

ReplaysOp == Replay /\ disk' = ReplayOn(disk, journal[i])

LeavesReplay == ReplayFails /\ disk' \in CallLeft(disk, journal[i]) /\ Shows'

Sweeps ==
  LET a == AsideOf(Displaced(journal[i]), i) IN
  /\ Sweep
  /\ disk' = IF tree' = tree THEN disk ELSE Unlinked(disk, a)

\* A flip whose file is gone owes nothing; the op that took the file owes the
\* same directory.
SettlesRecovery == SettleRecovery /\ disk' = Retired(disk, AllDebts(journal))

\* The process dies: what it wrote is still there, flushed or not.
Dies ==
  /\ Crash
  /\ disk' \in
       IF pc = "lone" \/ AtLanding THEN CallLeft(disk, ops[i])
       ELSE IF pc = "unwind" /\ i > 0 THEN UndoLeft(disk, undo[i])
       ELSE IF pc = "replay" THEN CallLeft(disk, journal[i])
       ELSE IF pc = "commit" THEN CommitLeft(disk)
       ELSE {disk}
  /\ Shows'

Replaying(t, set) ==
  LET after[n \in 0 .. Len(set)] ==
        IF n = 0 THEN t ELSE Replayed(after[n - 1], set[n])
  IN  after

\* A recovery of set over tree t runs to its end.
RecoveryRuns(t, set) ==
  \A n \in DOMAIN set : CanReplay(Replaying(t, set)[n - 1], set[n])

RecoveredTo(t, set) == Replaying(t, set)[Len(set)]

\* Whether a recovery of what a power cut left runs to its end, and the tree it
\* ends at.
Recovers(s) ==
  JournalIn(s) \notin {None, Garbled} => RecoveryRuns(TreeIn(s), JournalIn(s))

Recovered(s) ==
  IF JournalIn(s) \in {None, Garbled} THEN TreeIn(s)
  ELSE RecoveredTo(TreeIn(s), JournalIn(s))

\* What a power cut may leave just now.
Cuts == Survivors(disk)

\* No cut, recovered from, takes the documents elsewhere.
Settled == \A s \in Cuts : Recovers(s) /\ Content(Recovered(s)) = Content(tree)

\* What the last answer promises of the set: that it is applied or undone.
\* Before an answer, whether it began from documents a cut may still change, or a
\* recovery set out from a journal that has not.
Promises ==
  sure' = IF begun' # begun
          THEN IF Settled THEN "nothing" ELSE "adrift"
          ELSE IF pc = "idle" /\ pc' = "replay" /\ sure # "adrift"
                    /\ disk.store[kept] # Seen(disk)[kept]
          THEN "unlanded"
          ELSE IF pc = "idle" \/ pc' # "idle" \/ failed THEN sure
          ELSE IF answer' = "ok" THEN "applied"
          ELSE IF sure = "adrift" \/ (sure = "unlanded" /\ kept = InHome) THEN sure
          ELSE IF answer' = "recovered" /\ journal = ops THEN "applied"
          ELSE IF answer' = "rolledback" THEN "undone"
          ELSE sure

\* Bound: there is an inode for the next write, on either device.
HasRoom == Unknown(disk, Pool) # {} /\ Unknown(disk, HomePool) # {}

Runs ==
  /\ HasRoom
  /\ UNCHANGED <<kept, cuts>>
  /\ \/ Begins \/ Passes \/ RunsLone \/ LeavesLone \/ CertifiesLone
     \/ Commits \/ LeavesCommit \/ MovesItAside \/ LandsOp \/ LeavesOp
     \/ Certifies \/ RetiresAside \/ RetiresJournal
     \/ Unwinds \/ LeavesUnwind \/ Aborts \/ FlushesAbort
     \/ ReplaysOp \/ LeavesReplay \/ Sweeps \/ SettlesRecovery \/ Dies
  /\ Promises

\* The power is cut, at any moment, before or after the call returned.
PowerCut ==
  /\ cuts < MaxCuts /\ cuts' = cuts + 1
  /\ \E s \in Survivors(disk) :
       /\ disk' = Clean(WithoutHome(s), disk.ordered, disk.grade)
       /\ tree' = TreeIn(s)
       /\ journal' = JournalIn(s)
  /\ Return("crashed")
  /\ UNCHANGED <<ops, failed, begun, faults, crashes, kept, sure>>

DurableNext == Runs \/ PowerCut

DurableSpec == DurableInit /\ [][DurableNext]_dvars

-----------------------------------------------------------------------------
(* What the flushes are for.                                                 *)

\* u is what the set asks of t, or what the set began from.  The mode a write
\* carries over from the file it replaces is flushed by nothing, which
\* Storage::replace says: modes count where no file has been written.
Comes(t, set, u) ==
  IF begun > 1 \/ \E n \in DOMAIN set : Lands(set[n])
  THEN Content(u) = Content(Applied(t, set))
  ELSE Reaches(t, set, u)

IsBack(u) == IF begun > 1 THEN Content(u) = Content(Before) ELSE Docs(u) = Docs(Before)

\* Every call's effect on the tree is its effect on the disk as a process
\* reads it: a write through the port is all the program sees of a disk.
DiskShowsTree == Shows

\* A journal may go to a home an earlier commit made and failed to flush.
HomeAdrift == kept = InHome /\ ~disk.ordered /\ begun > 1

\* Where more is asked of the backend than the port promises, or than two
\* devices can give: a lone op, or a recovery, under a journal whose removal, or
\* whose writing, has not landed and is not bound to land first; and a rollback
\* of a flip and a rename, when the one may land without the other.
LeansOnOrder ==
  \/ /\ kept = InHome \/ ~disk.ordered \/ ~AtomicReplace
     /\ sure = "unlanded" \/ (Lone(ops) /\ begun > 1)
  \/ HomeAdrift
  \/ ~disk.ordered /\ faults > 0 /\ \E n \in DOMAIN ops : ops[n].act = "SetExecutable"

\* write_atomic's flush of the journal's directory is the commit point: from there
\* until the journal is given up, every cut leaves it whole, whatever the set's own
\* writes and flushes did since.
IntentSurvives ==
  (pc \in {"exec", "land", "certify", "retire", "unwind", "abort"} /\ ~HomeAdrift) =>
    \A s \in Cuts : JournalIn(s) = ops

\* Whenever the power is cut, before, inside or after any call, the tree that
\* comes back, recovered if it holds a journal, is the one before the set or
\* the one the set asks for, and no recovery is refused: the order of the
\* flushes of apply, of its rollback and of recover.
CutAllOrNothing ==
  (ops # <<>> /\ ~failed /\ Completes(Before, ops) /\ sure # "adrift" /\ ~LeansOnOrder) =>
    \A s \in Cuts :
      /\ Recovers(s)
      /\ IsBack(Recovered(s)) \/ Comes(Before, ops, Recovered(s))
      /\ JournalIn(s) = ops => Comes(Before, ops, Recovered(s))

\* change.rs of apply, "Ok means the change survives a power cut": once apply or
\* recover has said so, no cut and no recovery takes the set back.
OkSurvives ==
  sure = "applied" =>
    \A s \in Cuts : Recovers(s) /\ Comes(Before, ops, Recovered(s))

\* Ok survives wherever nothing it rests on is left to the backend.
CertifiedSurvives == ~LeansOnOrder => OkSurvives

\* change.rs of apply, "a power cut cannot contradict the abort by resurrecting
\* the journal": from the answer of a clean rollback to the next apply, no cut
\* brings the journal back.
NoResurrection == answer = "rolledback" => \A s \in Cuts : JournalIn(s) = None

\* Nor any of what was undone.
AbortSurvives == sure = "undone" => \A s \in Cuts : IsBack(TreeIn(s))

\* No cut brings back a file that was moved aside under a journal that stays
\* gone, where nothing would ever remove it.
NoOrphanComesBack ==
  ~HomeAdrift =>
    \A s \in Cuts : JournalIn(s) = None => \A a \in Aside : TreeIn(s)[a] = Absent

=============================================================================
