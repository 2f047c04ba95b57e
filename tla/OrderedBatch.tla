---------------------------- MODULE OrderedBatch ----------------------------
(***************************************************************************)
(* OrderedBatch: writes staged in tiers, each tier flushed ahead of the    *)
(* next by one barrier, with no journal and nothing to recover.            *)
(*                                                                         *)
(* A batch is the calls that staged it; its tiers are the ops between one  *)
(* barrier and the next, and an empty one is none.  The process lands one  *)
(* op after another and a tier's debts at its end.  Any call may fail,     *)
(* which ends the apply where it stands; the process may die at any point  *)
(* of it; and the power may be cut at any moment.  A caller may call       *)
(* again, with the same batch or another.                                  *)
(***************************************************************************)
EXTENDS Disk, Sequences

CONSTANTS
  Root,        \* the directory the batches are applied to
  Files,       \* the names of files
  Folders,     \* the directories under the root, which the batches make
  Chain,       \* the directories between the root and one, itself included
  Payloads,    \* what a caller writes
  Batches,     \* what a caller may stage: ops and barriers
  Backends,    \* whether a backend replaces atomically
  Grades,      \* the guarantees of a backend
  MaxCalls,    \* how many times a caller applies a batch
  MaxFaults,   \* how many calls may fail or be cut short by a death
  MaxCuts      \* how many times the power is cut

ASSUME LayoutAssumption ==
  /\ Files \cap Folders = {} /\ Root \notin Files \cup Folders
  /\ (Files \cup Folders) \cap Parts = {}
  /\ \A p \in Files \cup Folders : DirOf(p) \in {Root} \cup Folders
  /\ Chain \in [{Root} \cup Folders -> SUBSET Folders] /\ Chain[Root] = {}
  /\ \A d \in Folders :
       /\ Chain[d] = Chain[DirOf(d)] \cup {d} /\ d \notin Chain[DirOf(d)]
       /\ \A c \in Chain[d] : Chain[c] \subseteq Chain[d]

\* What a batch writes is on one device.
ASSUME DeviceAssumption ==
  /\ Inodes \subseteq Nat
  /\ \A o \in Inodes \cup Folders \cup {Root} : Device(o) = Device(Root)

VARIABLES
  disk,       \* what has landed and what has been written since
  atomic,     \* whether the backend replaces atomically
  calls,      \* the batch last applied, as it was staged
  finality,   \* what it asked for
  done,       \* how many of its calls have been carried out
  debts,      \* the names the tier owes a flush
  answer,     \* what the last apply returned; "none" while it runs
  settled,    \* whether the apply found no directory owed a flush
  before,     \* what of each file a cut could leave before it began
  certified,  \* the ops an Ok still speaks for, what was asked, if it was settled
  begun, faults, cuts

vars == <<disk, atomic, calls, finality, done, debts, answer, settled, before,
          certified, begun, faults, cuts>>

Write(p, b) == [act |-> "Write", path |-> p, bytes |-> b]
CreateNew(p, b) == [act |-> "CreateNew", path |-> p, bytes |-> b]
Barrier == [act |-> "Barrier"]

BatchOp == {Write(p, b) : p \in Files, b \in Payloads} \cup {CreateNew(p, b) : p \in Files, b \in Payloads}

ASSUME BatchAssumption ==
  /\ Torn # Gone /\ Torn \notin Payloads /\ Gone \notin Payloads
  /\ Batches \subseteq Seq(BatchOp \cup {Barrier})

-----------------------------------------------------------------------------
(* A batch.                                                                  *)

\* The ops of a batch, by where they are staged, and the ops themselves.
OpsAt(batch) == {n \in DOMAIN batch : batch[n] # Barrier}

OpsOf(batch) == {batch[n] : n \in OpsAt(batch)}

\* Nothing staged later, or nothing staged earlier, is at the same path.
IsLast(batch, n) == \A m \in OpsAt(batch) : m > n => batch[m].path # batch[n].path
IsFirst(batch, n) == \A m \in OpsAt(batch) : m < n => batch[m].path # batch[n].path

\* What a batch leaves in place.
Lasting(batch) == {batch[n] : n \in {m \in OpsAt(batch) : IsLast(batch, m)}}

-----------------------------------------------------------------------------
(* The calls of an op.                                                       *)

Exists(k, p) == Seen(k)[p] # Gone

Missing(k, d) == {c \in Chain[d] : ~Exists(k, c)}

\* Mutant of Traced: the ancestor that was there, and has a new entry, is left
\* out.
TracedMade(c) == {c}

\* create_dir_all_traced, of a directory it makes: it, and what gains its name.
Traced(c) == {c, DirOf(c)}

CanLand(k, op) == op.act = "CreateNew" => ~Exists(k, op.path)

\* The disk once the op's file is written, by a replace that carries no mode.
FileLanded(k, op, b) ==
  IF op.act = "Write" /\ atomic THEN Replace(k, op.path, b, FALSE, Inodes)
  ELSE Overwritten(k, op.path, b, Inodes)

\* The disks an op may leave when it fails or is cut short: part of its bytes in
\* a file that is not replaced, or all of them.
OpLeft(k, op) ==
  {k} \cup
  IF CanLand(k, op) /\ Missing(k, DirOf(op.path)) = {}
  THEN {FileLanded(k, op, b) :
          b \in {op.bytes} \cup IF op.act = "Write" /\ atomic THEN {} ELSE {Torn}}
  ELSE {}

\* Mutant of OpDebts: a new file is taken to be whole once it is named.
OpDebtsOfEntries(op) == {DirOf(op.path)}

\* The names an op adds to what its tier owes.
OpDebts(op) ==
  {DirOf(op.path)} \cup IF op.act = "Write" /\ atomic THEN {} ELSE {op.path}

\* What a sync of each of the names flushes.
Objects(k, names) ==
  {IF p \in Files THEN Seen(k)[p].inode ELSE p : p \in names}

\* A reader who comes down from the root does not get to p.
Lost(s, p) == \E c \in Chain[DirOf(p)] : s[c] = Gone

\* What such a reader finds in the file p.
Found(s, p) == IF s[p].kind # "file" \/ Lost(s, p) THEN Gone ELSE s[BytesOf(s[p].inode)]

\* The store without what is in directories that are lost.
Reachable(s) ==
  [l \in DOMAIN s |-> IF l \in Files \cup Folders /\ Lost(s, l) THEN Gone ELSE s[l]]

Cuts == Survivors(disk)

-----------------------------------------------------------------------------
(* The machine.                                                              *)

Empty == [l \in Files \cup Folders \cup Parts |->
            IF l \in Files \cup Folders THEN Gone ELSE IF l[2] = "bytes" THEN Torn ELSE FALSE]

Init ==
  /\ \E grade \in Grades : disk = Clean(Empty, FALSE, grade)
  /\ atomic \in Backends
  /\ calls = <<>> /\ finality = "Pushed" /\ done = 0 /\ debts = {}
  /\ answer = "never" /\ settled = TRUE /\ before = {} /\ certified = {}
  /\ begun = 0 /\ faults = 0 /\ cuts = 0

Running == answer = "none"

OpsLeft == {n \in OpsAt(calls) : n > done}

\* The op the process is at, when it is at one.
Op == calls[done + 1]
AtOp == Running /\ done + 1 \in OpsAt(calls)

Return(a) == debts' = {} /\ answer' = a

\* No directory seen is owed a flush.
NoDirectoryOwed ==
  \A n \in DOMAIN disk.log :
    DOMAIN disk.log[n].puts \cap Folders # {} => disk.log[n].owed = {}

Apply ==
  /\ ~Running /\ begun < MaxCalls
  /\ \E batch \in Batches, need \in {"Pushed", "Ordered", "Durable"} :
       calls' = batch /\ finality' = need
  /\ done' = 0 /\ debts' = {}
  /\ settled' = NoDirectoryOwed
  /\ before' = {<<p, Found(s, p)>> : p \in Files, s \in Cuts}
  /\ certified' = {c \in certified : \A op \in OpsOf(calls') : op.path # c[1].path}
  /\ answer' = IF OpsAt(calls') = {} THEN "ok" ELSE "none"
  /\ begun' = begun + 1
  /\ UNCHANGED <<disk, atomic, faults, cuts>>

\* Bound: an inode is left.
HasRoom == Unknown(disk, Inodes) # {}

\* A directory on the way to the op's, whose own is there.
MakeDir ==
  /\ AtOp
  /\ \E c \in Missing(disk, DirOf(Op.path)) :
       /\ Missing(disk, DirOf(c)) = {}
       /\ disk' = Enter(disk, At(c, Subdir))
       /\ debts' = debts \cup Traced(c)
  /\ UNCHANGED <<atomic, calls, finality, done, answer, settled, before, certified, begun, faults, cuts>>

LandOp ==
  /\ AtOp /\ Missing(disk, DirOf(Op.path)) = {} /\ CanLand(disk, Op) /\ HasRoom
  /\ disk' = FileLanded(disk, Op, Op.bytes)
  /\ debts' = debts \cup OpDebts(Op)
  /\ done' = done + 1
  /\ UNCHANGED <<atomic, calls, finality, answer, settled, before, certified, begun, faults, cuts>>

\* The file of a create_new is already there.
Occupied ==
  /\ AtOp /\ Missing(disk, DirOf(Op.path)) = {} /\ ~CanLand(disk, Op)
  /\ Return("occupied")
  /\ UNCHANGED <<disk, atomic, calls, finality, done, settled, before, certified, begun, faults, cuts>>

\* A barrier with nothing staged since the last one.
SkipBarrier ==
  /\ Running /\ ~AtOp /\ OpsLeft # {} /\ debts = {}
  /\ done' = done + 1
  /\ UNCHANGED <<disk, atomic, calls, finality, debts, answer, settled, before, certified, begun, faults, cuts>>

\* A tier's debts in one pass, capped for the next tier or as the caller asked.
FlushTier ==
  /\ Running /\ ~AtOp /\ debts # {}
  /\ disk' = FlushAll(disk, Objects(disk, debts), Root,
                      IF OpsLeft = {} THEN finality ELSE "Ordered")
  /\ IF OpsLeft = {}
     THEN /\ Return("ok") /\ UNCHANGED done
          /\ certified' = certified \cup (Lasting(calls) \X {finality} \X {settled})
     ELSE done' = done + 1 /\ debts' = {} /\ UNCHANGED <<answer, certified>>
  /\ UNCHANGED <<atomic, calls, finality, settled, before, begun, faults, cuts>>

\* A call fails, or the process dies in it, and the apply is over: an op in
\* part, or a tier with some of its debts handed over and no cap.
Stops ==
  /\ Running /\ faults < MaxFaults /\ (AtOp => HasRoom)
  /\ disk' \in IF AtOp THEN OpLeft(disk, Op)
               ELSE {Handed(disk, Objects(disk, some)) : some \in SUBSET debts}
  /\ Return("stopped")
  /\ faults' = faults + 1
  /\ UNCHANGED <<atomic, calls, finality, done, settled, before, certified, begun, cuts>>

PowerCut ==
  /\ cuts < MaxCuts
  /\ \E s \in Survivors(disk) : disk' = Clean(Reachable(s), disk.ordered, disk.grade)
  /\ Return("cut")
  /\ certified' = {c \in certified : c[2] = "Durable" /\ disk.grade = "Durable"}
  /\ cuts' = cuts + 1
  /\ UNCHANGED <<atomic, calls, finality, done, settled, before, begun, faults>>

Next ==
  \/ Apply \/ MakeDir \/ LandOp \/ Occupied \/ SkipBarrier \/ FlushTier \/ Stops
  \/ PowerCut

Spec == Init /\ [][Next]_vars

-----------------------------------------------------------------------------
(* What a batch promises.                                                    *)

\* The op has landed whole; the op has left a trace, which nothing had before.
Whole(s, op) == Found(s, op.path) = op.bytes

Shows(s, op) ==
  Found(s, op.path) \in {op.bytes, Torn} /\ <<op.path, Found(s, op.path)>> \notin before

\* A barrier is staged between two ops, the first staged at its path after any
\* other, the second before.
Parted(batch, i, j) ==
  /\ {i, j} \subseteq OpsAt(batch) /\ \E n \in i .. j : batch[n] = Barrier
  /\ IsLast(batch, i) /\ IsFirst(batch, j)

\* Of a batch that finds every directory flushed, on a backend that orders, no
\* cut leaves anything staged after a barrier unless all that was staged before
\* it is there whole: "nothing durable may name anything that is not durable
\* yet".
TiersInOrder ==
  (settled /\ Satisfies(disk.grade, "Ordered")) =>
    \A s \in Cuts, i, j \in DOMAIN calls :
      (Parted(calls, i, j) /\ Shows(s, calls[j])) => Whole(s, calls[i])

\* ordered.rs, "once apply returns, the batch survives a power cut": an Ok from
\* a Durable apply, on a backend that gives it, survives every cut.
BatchSurvives ==
  disk.grade = "Durable" =>
    \A s \in Cuts, c \in certified : c[2] = "Durable" => Whole(s, c[1])

\* So it does where the apply found every directory flushed.
SettledBatchSurvives ==
  disk.grade = "Durable" =>
    \A s \in Cuts, c \in certified : (c[2] = "Durable" /\ c[3]) => Whole(s, c[1])

\* Nothing of a batch survives a cut that an earlier one, whose apply asked for
\* a barrier and returned Ok, did not survive whole.
OrderedAheadOfNext ==
  Satisfies(disk.grade, "Ordered") =>
    \A s \in Cuts, op \in OpsOf(calls), c \in certified :
      (c[2] # "Pushed" /\ c[3] /\ c[1] \notin OpsOf(calls) /\ Shows(s, op)) => Whole(s, c[1])

\* A write shows the whole old file or the whole new one, in a tier that was
\* cut short as in any other, where the backend replaces atomically; only a
\* create can be torn.
WritesWhole ==
  (atomic /\ Satisfies(disk.grade, "Ordered")) =>
    \A s \in Cuts, p \in Files :
      (/\ \A op \in OpsOf(calls) : op.path = p => op.act = "Write"
       /\ <<p, Torn>> \notin before) => Found(s, p) # Torn

=============================================================================
