----------------------------- MODULE ChangeSet -----------------------------
(***************************************************************************)
(* One tree, one journal, and the process that applies change sets to the  *)
(* tree and recovers it: Journal::apply and Journal::recover, one action   *)
(* per call that changes the tree or the journal.                          *)
(*                                                                         *)
(* Any call may fail, and the process may die between two calls or inside  *)
(* one.  A crash is the death of the process: every call that returned     *)
(* persists.  What a power cut may take back on top of that is not         *)
(* modelled here, so a flush is a call that may fail and nothing more.     *)
(*                                                                         *)
(* ops and hist are memory of the set last begun, kept to state what the   *)
(* calls promise: hist[1] is the tree the set began from, and hist[k + 1]  *)
(* the tree the k-th recorded undo step was recorded for.  The code keeps  *)
(* the same history as ghost state of its own proof (rollback::Hist).      *)
(***************************************************************************)
EXTENDS Restart

CONSTANTS
  InitTrees,   \* the trees to begin from
  Staged,      \* the sets a caller may apply
  MaxSets,     \* how many sets the caller applies
  MaxFaults,   \* how many calls may fail, of one set
  MaxCrashes   \* how many times the process may die, of one set

ASSUME InitAssumption ==
  \A t \in InitTrees :
    /\ t \in [Slot -> Entry]
    /\ \A a \in Aside : t[a] = Absent

ASSUME StagedAssumption ==
  \A set \in Staged : set \in Seq(Op) /\ Len(set) \in 1 .. MaxOps

ASSUME BoundAssumption ==
  MaxSets \in Nat /\ MaxFaults \in Nat /\ MaxCrashes \in Nat

VARIABLES
  tree,      \* what every path and aside holds
  journal,   \* the ops on disk, or None, or Garbled
  pc,        \* where the process is, "idle" when it runs nothing
  ops,       \* the set last begun
  i,         \* the op or undo step the process is at
  undo,      \* the undo steps recorded
  asides,    \* the files moved aside and not yet retired
  hist,      \* the trees the undo steps give back
  failed,    \* an undo step of the set has failed
  answer,    \* what the last call returned
  begun,     \* sets begun
  faults,    \* calls of the set that have failed
  crashes    \* deaths of the process since the set began

vars == <<tree, journal, pc, ops, i, undo, asides, hist, failed, answer,
          begun, faults, crashes>>

\* What apply keeps of a set on its stack.
log == <<undo, asides, hist>>
budget == <<begun, faults, crashes>>

None == <<>>
Garbled == <<[act |-> "Garbled"]>>   \* a plainly written journal cut short

Phases ==
  {"idle", "lone", "lonecertify", "commit", "exec", "land", "certify",
   "unwind", "abort", "abortflush", "retire", "replay", "sweep", "settle"}

Answers ==
  {"none", "ok", "refused", "failed", "rolledback", "torn", "crashed",
   "recovered", "stuck"}

\* Undo steps: a Relink is a SetLink, and the other two are calls of their own.
Restore(p, b) == [act |-> "Restore", path |-> p, bytes |-> b]
Delete(p) == [act |-> "Delete", path |-> p]

Last(s) == s[Len(s)]

-----------------------------------------------------------------------------
(* How a call of apply or recover ends.                                      *)

Return(a) ==
  /\ pc' = "idle" /\ answer' = a
  /\ i' = 0 /\ undo' = <<>> /\ asides' = <<>> /\ hist' = <<hist[1]>>

Fault == faults < MaxFaults /\ faults' = faults + 1

\* A step that is either bound to fail or one of the calls that happen to.
Fails(blocked) == (blocked /\ faults' = faults) \/ Fault

GoTo(phase, n) == pc' = phase /\ i' = n

\* Mutants of NextOp: one op too many, one too few.
NextOpPastTheEnd ==
  IF i > Len(ops) THEN GoTo("certify", 0) ELSE GoTo("exec", i + 1)

NextOpShort ==
  IF i + 1 >= Len(ops) THEN GoTo("certify", 0) ELSE GoTo("exec", i + 1)

\* Each op of the set in turn, then the certification.
NextOp ==
  IF i = Len(ops) THEN GoTo("certify", 0) ELSE GoTo("exec", i + 1)

-----------------------------------------------------------------------------
(* apply, up to the commit point.                                            *)

Init ==
  /\ tree \in InitTrees
  /\ journal = None /\ pc = "idle" /\ ops = <<>> /\ i = 0
  /\ undo = <<>> /\ asides = <<>> /\ hist = <<tree>>
  /\ failed = FALSE /\ answer = "none"
  /\ begun = 0 /\ faults = 0 /\ crashes = 0

\* A lone op is indivisible on a backend that replaces atomically, unless it
\* sets a link.
Lone(set) == Len(set) = 1 /\ AtomicReplace /\ set[1].act # "SetLink"

MovesLink(set) ==
  \E n \in DOMAIN set : set[n].act = "Rename" /\ IsLink(tree[set[n].path])

\* Mutant of Refused: an apply that does not look for a journal.
RefusedBlindly(set) == ~Replays(set) \/ (~Lone(set) /\ MovesLink(set))

Refused(set) ==
  \/ ~Replays(set)
  \/ journal # None
  \/ ~Lone(set) /\ MovesLink(set)

\* FileOp::CopyFrom asks its caller for a source that does not change while
\* the set may be replayed.  The rule sees to it for the source's own name;
\* what a link at the source leads through is the caller's to keep.
SourcesKept(set) ==
  \A n, k \in DOMAIN set :
    (Len(set) > 1 /\ set[n].act = "CopyFrom")
      => \A x \in Through(tree, set[n].other) : ~Mentions(set[k], x)

ApplyRefused ==
  /\ pc = "idle" /\ begun < MaxSets
  /\ \E set \in Staged : Refused(set)
  /\ answer' = "refused"
  /\ UNCHANGED <<tree, journal, pc, ops, i, log, failed, budget>>

Apply ==
  /\ pc = "idle" /\ begun < MaxSets
  /\ \E set \in Staged :
       /\ ~Refused(set)
       /\ SourcesKept(set)
       /\ ops' = set
       /\ pc' = IF Lone(set) THEN "lone" ELSE "commit"
  /\ i' = 1 /\ undo' = <<>> /\ asides' = <<>> /\ hist' = <<tree>>
  /\ failed' = FALSE /\ answer' = "none"
  /\ begun' = begun + 1 /\ faults' = 0 /\ crashes' = 0
  /\ UNCHANGED <<tree, journal>>

\* A set of one: no journal and no undo, only the op and its flush.
RunLone ==
  /\ pc = "lone" /\ CanRun(tree, ops[1])
  /\ tree' = Ran(tree, ops[1])
  /\ pc' = "lonecertify"
  /\ UNCHANGED <<journal, ops, i, log, failed, answer, budget>>

LoneFails ==
  /\ pc = "lone"
  /\ Fails(~CanRun(tree, ops[1]))
  /\ tree' \in IF faults' = faults THEN {tree} ELSE Left(tree, ops[1])
  /\ Return("failed")
  /\ UNCHANGED <<journal, ops, failed, begun, crashes>>

\* A failed flush leaves a lone op applied and uncertified.
CertifyLone ==
  /\ pc = "lonecertify"
  /\ \/ Return("ok") /\ faults' = faults
     \/ Return("failed") /\ Fault
  /\ UNCHANGED <<tree, journal, ops, failed, begun, crashes>>

Commit ==
  /\ pc = "commit"
  /\ journal' = ops
  /\ pc' = "exec"
  /\ UNCHANGED <<tree, ops, i, log, failed, answer, budget>>

\* Mutant of CommitFails: the error of the write is not looked at.
CommitFailsUnheeded ==
  /\ pc = "commit" /\ Fault
  /\ journal' \in {None, ops} \cup (IF AtomicReplace THEN {} ELSE {Garbled})
  /\ pc' = "exec"
  /\ UNCHANGED <<tree, ops, i, log, failed, answer, begun, crashes>>

\* write_atomic replaces the journal and then flushes its directory: an error
\* of the flush comes back with the journal in place.  A plain write may also
\* leave a part of it.
CommitFails ==
  /\ pc = "commit" /\ Fault
  /\ journal' \in {None, ops} \cup (IF AtomicReplace THEN {} ELSE {Garbled})
  /\ Return("failed")
  /\ UNCHANGED <<tree, ops, failed, begun, crashes>>

-----------------------------------------------------------------------------
(* exec: each op records its undo, then runs.                                *)

\* Mutant of Capture: the entry is read through a link.
CaptureThroughLink(t, p) ==
  IF Readable(t, p) THEN Restore(p, BytesAt(t, p)) ELSE Delete(p)

\* What capture_replaced and SetLink's own capture record for the entry at p.
Capture(t, p) ==
  IF t[p] = Absent THEN Delete(p)
  ELSE IF IsLink(t[p]) THEN SetLink(p, t[p].target)
  ELSE Restore(p, t[p].bytes)

\* Mutants of Recorded: the bit captured after the flip, a rename's undo
\* recorded before its call, and nothing recorded where there is nothing.
RecordedAfter(t, op) ==
  IF pc = "land" \/ op.act = "Rename" THEN <<>>
  ELSE IF op.act = "SetExecutable" THEN <<SetExecutable(op.path, op.exec)>>
  ELSE <<Capture(t, op.path)>>

RecordedAhead(t, op) ==
  IF op.act = "Rename" THEN <<Rename(op.other, op.path)>>
  ELSE IF pc = "land" THEN <<>>
  ELSE IF op.act = "SetExecutable"
  THEN <<SetExecutable(op.path, CarriedExec(t, op.path))>>
  ELSE <<Capture(t, op.path)>>

RecordedIfThere(t, op) ==
  IF pc = "land" \/ op.act = "Rename" \/ t[op.path] = Absent THEN <<>>
  ELSE IF op.act = "SetExecutable"
  THEN <<SetExecutable(op.path, CarriedExec(t, op.path))>>
  ELSE <<Capture(t, op.path)>>

\* The undo step an op records before it runs; a rename records none then, nor
\* does an op whose entry has been moved aside.
Recorded(t, op) ==
  IF pc = "land" \/ op.act = "Rename" THEN <<>>
  ELSE IF op.act = "SetExecutable"
  THEN <<SetExecutable(op.path, CarriedExec(t, op.path))>>
  ELSE <<Capture(t, op.path)>>

\* What makes an op fail before it records anything.
Barred(t, op) ==
  \/ IsDir(t[Displaced(op)]) /\ op.act # "SetExecutable" /\ (op.act = "Rename" => Moves(op))
  \/ op.act \in {"Remove", "SetExecutable"} /\ t[op.path] = Absent
  \/ op.act = "SetExecutable" /\ IsLink(t[op.path])
  \/ op.act = "CopyFrom" /\ ~Readable(t, op.other)

\* The entry at the displaced path is moved aside rather than overwritten.
MovesAside(t, op) ==
  \/ op.act = "Remove"
  \/ Moves(op) /\ t[op.other] # Absent
  \/ op.act = "SetLink" /\ IsFile(t[op.path])

\* At an op that has recorded, or moved aside, nothing yet.
AtOp == pc = "exec" /\ ~Barred(tree, ops[i])

\* At the last call of an op.
AtLanding == (AtOp /\ ~MovesAside(tree, ops[i])) \/ pc = "land"

\* The history when steps have been recorded and the tree is now t.
Noted(steps, t) ==
  IF steps = <<>> THEN [hist EXCEPT ![Len(hist)] = t] ELSE Append(hist, t)

MoveAside ==
  /\ AtOp /\ MovesAside(tree, ops[i])
  /\ LET p == Displaced(ops[i])
         a == AsideOf(p, i)
     IN  /\ CanMove(tree, p, a)
         /\ tree' = Moved(tree, p, a)
         /\ undo' = Append(undo, Rename(a, p))
         /\ asides' = Append(asides, a)
         /\ hist' = Append(hist, tree')
  /\ IF ops[i].act = "Remove" THEN NextOp ELSE GoTo("land", i)
  /\ UNCHANGED <<journal, ops, failed, answer, budget>>

Land ==
  /\ AtLanding /\ ops[i].act # "Rename"
  /\ CanRun(tree, ops[i])
  /\ tree' = Ran(tree, ops[i])
  /\ undo' = undo \o Recorded(tree, ops[i])
  /\ hist' = Noted(Recorded(tree, ops[i]), tree')
  /\ NextOp
  /\ UNCHANGED <<journal, ops, asides, failed, answer, budget>>

LandRename ==
  /\ AtLanding /\ ops[i].act = "Rename"
  /\ CanRun(tree, ops[i])
  /\ tree' = Ran(tree, ops[i])
  /\ IF Moves(ops[i])
     THEN /\ undo' = Append(undo, Rename(ops[i].other, ops[i].path))
          /\ hist' = Append(hist, tree')
     ELSE UNCHANGED <<undo, hist>>
  /\ NextOp
  /\ UNCHANGED <<journal, ops, asides, failed, answer, budget>>

\* Mutant of ExecFails: the rollback begins one step short of the last.
ExecFailsShort ==
  /\ pc = "exec"
  /\ Fails(Barred(tree, ops[i]))
  /\ GoTo("unwind", IF undo = <<>> THEN 0 ELSE Len(undo) - 1)
  /\ UNCHANGED <<tree, journal, ops, log, failed, answer, begun, crashes>>

\* The op fails before it has recorded or moved anything.
ExecFails ==
  /\ pc = "exec"
  /\ Fails(Barred(tree, ops[i]))
  /\ GoTo("unwind", Len(undo))
  /\ UNCHANGED <<tree, journal, ops, log, failed, answer, begun, crashes>>

\* The op fails at its last call, its undo recorded.
LandFails ==
  /\ AtLanding
  /\ Fails(~CanRun(tree, ops[i]))
  /\ tree' \in IF faults' = faults THEN {tree} ELSE Left(tree, ops[i])
  /\ undo' = undo \o Recorded(tree, ops[i])
  /\ hist' = Noted(Recorded(tree, ops[i]), tree')
  /\ GoTo("unwind", Len(undo'))
  /\ UNCHANGED <<journal, ops, asides, failed, answer, begun, crashes>>

-----------------------------------------------------------------------------
(* The end of a set that ran: certify, retire what was moved aside, retire   *)
(* the journal.                                                              *)

\* Mutant of Certify: the journal is given up before the rollback.
CertifyGivesUp ==
  /\ pc = "certify"
  /\ \/ GoTo("retire", 0) /\ faults' = faults /\ journal' = journal
     \/ GoTo("unwind", Len(undo)) /\ Fault /\ journal' = None
  /\ UNCHANGED <<tree, ops, log, failed, answer, begun, crashes>>

Certify ==
  /\ pc = "certify"
  /\ \/ GoTo("retire", 0) /\ faults' = faults
     \/ GoTo("unwind", Len(undo)) /\ Fault
  /\ UNCHANGED <<tree, journal, ops, log, failed, answer, begun, crashes>>

RetireAside ==
  /\ pc = "retire" /\ asides # <<>>
  /\ tree' = Removed(tree, Head(asides))
  /\ asides' = Tail(asides)
  /\ UNCHANGED <<journal, pc, ops, i, undo, hist, failed, answer, budget>>

RetireJournal ==
  /\ pc = "retire" /\ asides = <<>>
  /\ journal' = None
  /\ Return("ok")
  /\ UNCHANGED <<tree, ops, failed, budget>>

RetireFails ==
  /\ pc = "retire" /\ Fault
  /\ Return("torn")
  /\ UNCHANGED <<tree, journal, ops, failed, begun, crashes>>

-----------------------------------------------------------------------------
(* The end of a set that failed: unwind_durable, best effort, and then, only *)
(* if every step went through, the journal.                                  *)

CanUndo(t, u) ==
  /\ u.act = "Restore" => ~IsDir(t[Referent(t, u.path)])
  /\ u.act = "Delete" => ~IsDir(t[u.path])
  /\ u.act = "SetExecutable" => Exists(t, u.path)
  /\ u.act \in {"Rename", "SetLink"} => CanRun(t, u)

Undone(t, u) ==
  IF u.act = "Restore" THEN Written(t, u.path, u.bytes)
  ELSE IF u.act = "Delete" THEN Removed(t, u.path)
  ELSE Ran(t, u)

\* What a failed or interrupted undo step may leave: old bytes half put back, a
\* flip without its barrier, a link removed and not remade.
LeftUndone(t, u) ==
  {t} \cup
  IF ~CanUndo(t, u) THEN {}
  ELSE IF u.act = "Restore" THEN {Written(t, u.path, b) : b \in {Torn, u.bytes}}
  ELSE IF u.act = "SetExecutable" THEN {Undone(t, u)}
  ELSE IF u.act = "SetLink" THEN {Removed(t, u.path)}
  ELSE {}

Unwind ==
  /\ pc = "unwind" /\ i > 0
  /\ CanUndo(tree, undo[i])
  /\ tree' = Undone(tree, undo[i])
  /\ i' = i - 1
  /\ UNCHANGED <<journal, pc, ops, log, failed, answer, budget>>

UnwindFails ==
  /\ pc = "unwind" /\ i > 0
  /\ Fails(~CanUndo(tree, undo[i]))
  /\ tree' \in IF faults' = faults THEN {tree} ELSE LeftUndone(tree, undo[i])
  /\ failed' = TRUE
  /\ i' = i - 1
  /\ UNCHANGED <<journal, pc, ops, log, answer, begun, crashes>>

Unwound ==
  /\ pc = "unwind" /\ i = 0
  /\ IF failed THEN Return("torn")
     ELSE GoTo("abort", 0) /\ UNCHANGED <<log, answer>>
  /\ UNCHANGED <<tree, journal, ops, failed, budget>>

\* retire_after_abort: flush, remove the journal, flush its directory.
Abort ==
  /\ pc = "abort"
  /\ \/ /\ journal' = None
        /\ GoTo("abortflush", 0)
        /\ UNCHANGED <<log, answer, faults>>
     \/ Return("torn") /\ Fault /\ UNCHANGED journal
  /\ UNCHANGED <<tree, ops, failed, begun, crashes>>

AbortFlush ==
  /\ pc = "abortflush"
  /\ \/ Return("rolledback") /\ faults' = faults
     \/ Return("torn") /\ Fault
  /\ UNCHANGED <<tree, journal, ops, failed, begun, crashes>>

-----------------------------------------------------------------------------
(* recover: replay the journal from its first op, sweep what the set moved   *)
(* aside, give the journal up.                                               *)

Recover ==
  /\ pc = "idle" /\ journal # None
  /\ IF journal = Garbled
     THEN answer' = "stuck" /\ UNCHANGED <<pc, i>>
     ELSE GoTo("replay", 1) /\ answer' = "none"
  /\ UNCHANGED <<tree, journal, ops, log, failed, budget>>

Replay ==
  /\ pc = "replay"
  /\ CanReplay(tree, journal[i])
  /\ tree' = Replayed(tree, journal[i])
  /\ IF i = Len(journal) THEN GoTo("sweep", 1) ELSE GoTo("replay", i + 1)
  /\ UNCHANGED <<journal, ops, log, failed, answer, budget>>

ReplayFails ==
  /\ pc = "replay"
  /\ Fails(~CanReplay(tree, journal[i]))
  /\ tree' \in IF faults' = faults THEN {tree} ELSE Left(tree, journal[i])
  /\ Return("stuck")
  /\ UNCHANGED <<journal, ops, failed, begun, crashes>>

\* Mutants of Sweep: the file a link has replaced is left where it was moved;
\* a sweep named by each op's own path, which for a rename is its source.
SweepForgetsLinks ==
  /\ pc = "sweep"
  /\ tree' = IF journal[i].act \in {"Remove", "Rename"}
             THEN Removed(tree, AsideOf(Displaced(journal[i]), i)) ELSE tree
  /\ IF i = Len(journal) THEN GoTo("settle", 0) ELSE GoTo("sweep", i + 1)
  /\ UNCHANGED <<journal, ops, log, failed, answer, budget>>

SweepNamedByPath ==
  /\ pc = "sweep"
  /\ tree' = IF journal[i].act \in {"Remove", "Rename", "SetLink"}
             THEN Removed(tree, AsideOf(journal[i].path, i)) ELSE tree
  /\ IF i = Len(journal) THEN GoTo("settle", 0) ELSE GoTo("sweep", i + 1)
  /\ UNCHANGED <<journal, ops, log, failed, answer, budget>>

Sweep ==
  /\ pc = "sweep"
  /\ tree' = IF journal[i].act \in {"Remove", "Rename", "SetLink"}
             THEN Removed(tree, AsideOf(Displaced(journal[i]), i)) ELSE tree
  /\ IF i = Len(journal) THEN GoTo("settle", 0) ELSE GoTo("sweep", i + 1)
  /\ UNCHANGED <<journal, ops, log, failed, answer, budget>>

SettleRecovery ==
  /\ pc = "settle"
  /\ journal' = None
  /\ Return("recovered")
  /\ UNCHANGED <<tree, ops, failed, budget>>

RecoveryFails ==
  /\ pc \in {"sweep", "settle"} /\ Fault
  /\ Return("stuck")
  /\ UNCHANGED <<tree, journal, ops, failed, begun, crashes>>

-----------------------------------------------------------------------------
(* The process dies, between two calls or inside the one it is at.           *)

InFlight ==
  IF pc = "lone" \/ AtLanding THEN Left(tree, ops[i])
  ELSE IF pc = "unwind" /\ i > 0 THEN LeftUndone(tree, undo[i])
  ELSE IF pc = "replay" THEN Left(tree, journal[i])
  ELSE {tree}

Crash ==
  /\ pc # "idle" /\ crashes < MaxCrashes
  /\ crashes' = crashes + 1
  /\ tree' \in InFlight
  /\ journal' \in {journal} \cup
       IF pc = "commit" /\ ~AtomicReplace THEN {Garbled} ELSE {}
  /\ Return("crashed")
  /\ UNCHANGED <<ops, failed, begun, faults>>

-----------------------------------------------------------------------------

Call == Apply \/ ApplyRefused

\* What the process does of itself, call after call.
Proceed ==
  \/ RunLone \/ LoneFails \/ CertifyLone
  \/ Commit \/ CommitFails
  \/ MoveAside \/ Land \/ LandRename \/ ExecFails \/ LandFails
  \/ Certify \/ RetireAside \/ RetireJournal \/ RetireFails
  \/ Unwind \/ UnwindFails \/ Unwound \/ Abort \/ AbortFlush
  \/ Replay \/ ReplayFails \/ Sweep \/ SettleRecovery \/ RecoveryFails

Next == Call \/ Proceed \/ Recover \/ Crash

Spec == Init /\ [][Next]_vars

\* Every call of a live process returns, and a caller that finds a journal
\* recovers before it does anything else with the tree.
FairSpec == Spec /\ WF_vars(Proceed) /\ WF_vars(Recover)

-----------------------------------------------------------------------------
(* What the calls promise.                                                   *)

\* The tree the set last begun found.
Before == hist[1]

\* Type invariant: every variable holds what the code's variable may hold.
UndoStep ==
  {Restore(x, b) : x \in Path, b \in Bytes \cup {Torn}}
    \cup {Delete(x) : x \in Path}
    \cup {Rename(x, y) : x \in Slot, y \in Path}
    \cup {SetExecutable(x, e) : x \in Path, e \in BOOLEAN}
    \cup {SetLink(x, to) : x \in Path, to \in Target}

TypeOK ==
  /\ tree \in [Slot -> Entry]
  /\ ops \in Seq(Op) /\ Len(ops) <= MaxOps
  /\ journal \in {None, Garbled, ops}
  /\ pc \in Phases
  /\ pc \notin {"idle", "lone", "lonecertify", "commit", "abortflush"}
       => journal = ops /\ ops # <<>>
  /\ pc \in {"lone", "lonecertify", "commit", "abortflush"} => journal = None /\ ops # <<>>
  /\ i \in Nat
  /\ pc \in {"lone", "commit", "exec", "land", "replay", "sweep"} => i \in DOMAIN ops
  /\ undo \in Seq(UndoStep)
  /\ pc = "unwind" => i <= Len(undo)
  /\ asides \in Seq(Aside)
  /\ hist \in Seq([Slot -> Entry]) /\ Len(hist) = Len(undo) + 1
  /\ failed \in BOOLEAN
  /\ answer \in Answers
  /\ begun \in 0 .. MaxSets
  /\ faults \in 0 .. MaxFaults
  /\ crashes \in 0 .. MaxCrashes

\* An apply that rolls back leaves the whole tree, the names it keeps to itself
\* included, as the set found it: run_or_roll_back's RolledBack.
RollbackRestores ==
  (pc \in {"abort", "abortflush"} \/ answer = "rolledback") => tree = Before

\* A rollback is stopped by a call that fails and by nothing the set did: as
\* long as every undo step went through, the next one can.
UndoCanProceed ==
  (pc = "unwind" /\ i > 0 /\ ~failed) => CanUndo(tree, undo[i])

\* With no journal left to recover, the documents are those from before the
\* set or those it asks for, whatever failed and wherever the process died,
\* unless a rollback failed too.
AllOrNothing ==
  (pc = "idle" /\ journal = None /\ ops # <<>> /\ ~failed)
    => Docs(tree) = Docs(Before) \/ Reaches(Before, ops, tree)

\* A journal cut short, which recovery refuses for ever, stands for no change:
\* the tree, its asides included, is the one its set found, and whoever removes
\* the file by hand loses nothing.
CutShortMeansUntouched == journal = Garbled => tree = Before

\* Ok from apply, and Applied from recover, mean the set is applied.
OkMeansApplied ==
  (answer \in {"ok", "recovered"} /\ ~failed)
    => Reaches(Before, ops, tree)

\* While the journal stands, a replay from its first op leads to the applied
\* set from wherever the tree is: the process may die anywhere, any number of
\* times.
AlwaysReplayable ==
  (journal = ops /\ ops # <<>> /\ ~failed /\ Completes(Before, ops))
    => Reaches(Before, ops, Applied(tree, ops))

\* No op of a set that can run is ever refused by a recovery, wherever the
\* process died: recovery is stopped only by a call that fails.
ReplayCanProceed ==
  (pc = "replay" /\ ~failed /\ Completes(Before, ops)) => CanReplay(tree, journal[i])

\* Once the journal is gone, so is everything the set moved aside; nothing
\* else would ever remove it.
NoOrphanAside ==
  (journal = None /\ pc = "idle") => \A a \in Aside : tree[a] = Absent

\* The asides in use.
Occupied == {a \in Aside : tree[a] # Absent}

\* How NoOrphanAside is kept at every call: an aside in use belongs to an op of
\* the journal a sweep would clear it for, and to an undo step that would move
\* it back, and to the list a retirement works off.  The sweep and the
\* rollback are behind it no further than that op and that step.
AsidesAccounted ==
  /\ pc \in {"lone", "lonecertify", "commit", "abort", "abortflush", "settle"} => Occupied = {}
  /\ \A a \in Occupied :
       /\ a[2] \in DOMAIN journal
       /\ journal[a[2]].act \in {"Remove", "Rename", "SetLink"}
       /\ a[1] = Displaced(journal[a[2]])
       /\ pc = "exec" => a[2] < i
       /\ pc = "land" => a[2] <= i
       /\ pc = "sweep" => a[2] >= i
       /\ pc \in {"exec", "land", "certify", "retire"} => \E k \in DOMAIN asides : asides[k] = a
       /\ pc \in {"exec", "land", "certify"} \/ (pc = "unwind" /\ ~failed) =>
            \E k \in DOMAIN undo :
              /\ undo[k].act = "Rename" /\ undo[k].path = a
              /\ pc = "unwind" => k <= i

\* Each step of u takes the tree after it in h back to the tree before it.
StepsExact(u, h) ==
  \A k \in DOMAIN u : CanUndo(h[k + 1], u[k]) /\ Undone(h[k + 1], u[k]) = h[k]

\* How RollbackRestores is kept: each undo step recorded takes the tree after
\* it back to the very tree before it, and can, and the rollback is at the tree
\* its next step was recorded for.
HistoryExact ==
  /\ StepsExact(undo, hist)
  /\ pc \in {"commit", "exec", "land", "certify"} => tree = Last(hist)
  /\ pc = "unwind" /\ ~failed => tree = hist[i + 1]
  /\ pc = "commit" => undo = <<>>
  /\ pc = "land" =>
       LET p == Displaced(ops[i]) IN
       /\ undo # <<>> /\ Last(undo) = Rename(AsideOf(p, i), p)
       /\ tree[p] = Absent /\ ~IsDir(tree[AsideOf(p, i)])
       /\ ops[i].act = "SetLink" \/ Moves(ops[i])
  /\ pc # "idle" => answer = "none"

\* How AllOrNothing is kept on a backend that replaces atomically: while the
\* journal stands the tree, and whatever a rollback can leave of it, is one a
\* replay can begin from; an apply is at its own run of the set, and a replay
\* has put right what its ops so far decide.
ReplayAccounted ==
  /\ pc = "commit" \/ journal # None => Sane(Before, ops)
  /\ journal # None /\ ~failed =>
       /\ Restartable(Before, ops, tree)
       /\ \A k \in DOMAIN undo : \A u \in LeftUndone(hist[k + 1], undo[k]) :
            Restartable(Before, ops, u)
  /\ pc = "exec" => Docs(tree) = Docs(Run(Before, ops)[i - 1])
  /\ pc = "land" =>
       LET before == Run(Before, ops)[i - 1]
           p == Displaced(ops[i])
       IN  ~IsDir(before[p]) /\ Docs(tree) = [Docs(before) EXCEPT ![p] = Absent]
  /\ pc \in {"certify", "retire", "lonecertify"} => Docs(tree) = Docs(Applied(Before, ops))
  /\ pc = "lone" => tree = Before /\ Lone(ops)
  /\ pc = "replay" /\ ~failed => CaughtUp(Before, ops, tree, i - 1)
  /\ pc \in {"sweep", "settle"} /\ ~failed => Reaches(Before, ops, tree)

\* An intent on disk is never replaced by another before it is finished: the
\* stale-journal refusal of apply.
IntentKept == [][journal # None => journal' \in {None, journal}]_vars

\* No document changes but under the journal of the whole set, save by a lone
\* op: the commit point precedes every change, and the journal outlives all.
JournalCovers ==
  [][Docs(tree') # Docs(tree) => journal = ops \/ pc = "lone"]_vars

\* The promise kept: to a caller who recovers before reading the tree, a set is
\* one step from the tree before it to one that passes for the set applied, or
\* it leaves every path and aside as they were.
Pending == pc \notin {"idle", "lonecertify"} \/ journal # None

Promise == INSTANCE AtomicSet WITH
  Start <- InitTrees,
  Sets <- Staged,
  docs <- IF Pending THEN Before ELSE tree,
  pending <- IF Pending THEN ops ELSE <<>>,
  broken <- failed

KeepsPromise == Promise!Spec

\* A journal left behind by a set that can run is recovered sooner or later, as
\* long as a caller recovers and calls do not fail for ever.
RecoveryResolves ==
  (journal # None /\ Completes(Before, ops)) ~> (journal = None \/ failed)

=============================================================================
