---------------------------- MODULE ReplayProofs ----------------------------
(***************************************************************************)
(* On a backend that replaces atomically a journal is enough: wherever the *)
(* process dies, and however often, the set it holds can be run again from *)
(* its first op, and is applied when it has.                               *)
(***************************************************************************)
EXTENDS ChangeSetProofs, RestartProofs

-----------------------------------------------------------------------------
(* The trees a rollback can leave, one recorded step after the other.        *)

\* Whatever an undo step leaves of the tree it was recorded for, a replay can
\* begin from.
Stood(t, set, u, h) ==
  \A k \in DOMAIN u : \A y \in LeftUndone(h[k + 1], u[k]) : Restartable(t, set, y)

LEMMA StoodGrow ==
  ASSUME NEW t, NEW set, NEW u \in Seq(UndoStep), NEW h \in Seq(Trees),
         Len(h) = Len(u) + 1, Stood(t, set, u, h),
         NEW s \in UndoStep, NEW v \in Trees,
         \A y \in LeftUndone(v, s) : Restartable(t, set, y)
  PROVE  Stood(t, set, Append(u, s), Append(h, v)) /\ Append(h, v)[1] = h[1]
<1>1. Len(u) \in Nat /\ DOMAIN u = 1 .. Len(u) /\ DOMAIN Append(u, s) = 1 .. Len(u) + 1
  BY Longer, LenProperties
<1>2. /\ \A k \in 1 .. Len(u) : Append(u, s)[k] = u[k]
      /\ Append(u, s)[Len(u) + 1] = s
      /\ \A k \in 1 .. Len(u) + 1 : Append(h, v)[k] = h[k]
      /\ Append(h, v)[Len(u) + 2] = v
  BY <1>1, Longer
<1>3. ASSUME NEW k \in DOMAIN Append(u, s), NEW y \in LeftUndone(Append(h, v)[k + 1], Append(u, s)[k])
      PROVE  Restartable(t, set, y)
  <2>1. CASE k \in 1 .. Len(u)
    <3>1. k + 1 \in 1 .. Len(u) + 1
      BY <1>1, <2>1
    <3> QED BY <1>1, <1>2, <1>3, <2>1, <3>1 DEF Stood
  <2>2. CASE k = Len(u) + 1
    <3>1. k + 1 = Len(u) + 2
      BY <1>1, <2>2
    <3> QED BY <1>2, <1>3, <2>2, <3>1
  <2> QED BY <1>1, <2>1, <2>2
<1>4. Append(h, v)[1] = h[1]
  BY <1>1, <1>2
<1> QED BY <1>3, <1>4 DEF Stood

\* So every tree of the history is one a replay can begin from.
LEMMA StoodAt ==
  ASSUME NEW t, NEW set, NEW u \in Seq(UndoStep), NEW h \in Seq(Trees),
         Len(h) = Len(u) + 1, Stood(t, set, u, h), Restartable(t, set, h[1]),
         NEW k \in 1 .. Len(h)
  PROVE  Restartable(t, set, h[k])
<1>1. Len(u) \in Nat /\ DOMAIN u = 1 .. Len(u)
  BY LenProperties
<1>2. CASE k # 1
  <2>1. k - 1 \in DOMAIN u /\ (k - 1) + 1 = k
    BY <1>1, <1>2
  <2>2. h[k] \in LeftUndone(h[k], u[k - 1])
    BY DEF LeftUndone
  <2> QED BY <2>1, <2>2 DEF Stood
<1> QED BY <1>2

\* A move, and the removal of what was not there, leave nothing half undone.
LEMMA WholeUndo ==
  ASSUME NEW v, NEW s, s.act \in {"Rename", "Delete"}
  PROVE  LeftUndone(v, s) = {v}
BY DEF LeftUndone

-----------------------------------------------------------------------------
(* A set is journaled only if a replay can run it.                           *)

LEMMA ApplySane ==
  ASSUME TypeOK, AtomicReplace, NEW set \in Staged, ~Refused(set), SourcesKept(set),
         ~Lone(set)
  PROVE  Sane(tree, set) /\ set \in Seq(Op)
<1>1. /\ set \in Seq(Op) /\ Len(set) \in Nat /\ Len(set) > 0 /\ DOMAIN set = 1 .. Len(set)
      /\ \A n \in DOMAIN set : set[n] \in Op
  BY StagedAssumption, ValueAssumption, LenProperties
<1>2. \A n \in Renames(set) : ~IsLink(tree[set[n].path])
  BY DEF Refused, MovesLink, Renames
<1>3. CASE Len(set) > 1
  <2>1. Admissible(set)
    BY <1>3 DEF Refused, Replays
  <2>2. \A n, k \in DOMAIN set :
          set[n].act = "CopyFrom"
            => \A x \in Through(tree, set[n].other) : ~Mentions(set[k], x)
    BY <1>3 DEF SourcesKept
  <2> QED BY <1>1, <1>2, <2>1, <2>2 DEF Sane
<1>4. CASE Len(set) = 1
  <2>1. set[1].act = "SetLink"
    BY <1>4 DEF Lone
  <2>2. \A n \in DOMAIN set : n = 1
    BY <1>1, <1>4
  <2>3. set[1].path \in Path
    BY <1>1, <1>4, OpFields
  <2>4. ~NestedOps(set[1], set[1])
    BY <2>1, <2>3, UnderAssumption DEF NestedOps, Nested, Two
  <2>5. Pair(set, 1, 1)
    BY <2>1, <2>4 DEF Pair
  <2>6. Admissible(set)
    BY <2>2, <2>5 DEF Admissible
  <2>7. \A n \in DOMAIN set : set[n].act # "CopyFrom"
    BY <2>1, <2>2
  <2> QED BY <1>1, <1>2, <2>6, <2>7 DEF Sane
<1> QED BY <1>1, <1>3, <1>4

\* What an op that records one step before its last call leaves, gone through
\* or not, and what the rollback of that step leaves.
LEMMA RecordedStands ==
  ASSUME AtomicReplace, NEW t \in Trees, NEW set \in Seq(Op), Sane(t, set),
         NEW j \in DOMAIN set, NEW u \in Trees, SameDocs(Run(t, set)[j - 1], u),
         set[j].act # "Rename",
         pc = "exec", ~Barred(u, set[j]), ~MovesAside(u, set[j]),
         NEW v \in Trees, \/ v = Ran(u, set[j]) /\ CanRun(u, set[j])
                          \/ v \in Left(u, set[j])
  PROVE  \E s \in UndoStep :
           /\ Recorded(u, set[j]) = <<s>>
           /\ \A y \in LeftUndone(v, s) : Restartable(t, set, y)
<1>1. /\ Len(set) \in Nat /\ DOMAIN set = 1 .. Len(set) /\ set[j] \in Op
      /\ j \in Nat /\ j - 1 \in 0 .. Len(set)
  BY RunSteps
<1>2. Restartable(t, set, u) /\ CaughtUp(t, set, u, j - 1)
  BY <1>1, RunStands
<1>3. /\ BodiesKept(t, set, u) /\ Past(t, set, u, j - 1)
  BY <1>2 DEF Restartable, CaughtUp
<1>4. Restartable(t, set, v) /\ (v # u /\ Lands(set[j]) => Past(t, set, v, j - 1))
  <2>1. CASE v \in Left(u, set[j])
    <3>1. Lands(set[j]) => v = u
      BY <2>1 DEF Left, Lands
    <3> QED BY <1>2, <2>1, <3>1, LeftStands
  <2>2. CASE v = Ran(u, set[j]) /\ CanRun(u, set[j])
    <3>1. v = After(u, set[j])
      BY <2>2 DEF After
    <3>2. Restartable(t, set, v) /\ CaughtUp(t, set, v, j)
      BY <1>2, <2>2, <3>1, CaughtUpStep
    <3>3. \A n \in Renames(set) : n <= j - 1 => n <= j
      BY <1>1 DEF Renames
    <3> QED BY <3>2, <3>3 DEF CaughtUp, Past
  <2> QED BY <2>1, <2>2
<1>5. PICK s \in UndoStep : Recorded(u, set[j]) = <<s>> /\ CanUndo(v, s) /\ Undone(v, s) = u
  BY <1>1, RecordedUndoes
<1>6. PICK p \in Path : p = set[j].path
  BY <1>1, OpFields
<1>7. p \in Slot /\ u[p] \in Entry
  BY AsideSlots DEF Trees
<1>8. SUFFICES ASSUME NEW y \in LeftUndone(v, s), y # v, y # u PROVE Restartable(t, set, y)
  BY <1>2, <1>4, <1>5
<1>9. CASE s.act \notin {"Restore", "SetLink"}
  <2>1. y \in {v, Undone(v, s)}
    BY <1>9 DEF LeftUndone
  <2> QED BY <1>5, <1>8, <2>1
<1>10. set[j].act # "SetExecutable" =>
         /\ s = Capture(u, p) /\ ~IsDir(u[p])
         /\ set[j].act \in {"Write", "CopyFrom", "SetLink"}
         /\ set[j].act = "SetLink" => ~IsFile(u[p])
  <2>1. set[j].act # "SetExecutable" => Recorded(u, set[j]) = <<Capture(u, p)>>
    BY <1>6 DEF Recorded
  <2>2. set[j].act # "SetExecutable" => s = Capture(u, p)
    BY <1>5, <2>1
  <2> QED BY <1>1, <1>6, <2>2, OpFields DEF Barred, MovesAside, Displaced
<1>11. set[j].act = "SetExecutable" => s.act = "SetExecutable"
  <2>1. set[j].act = "SetExecutable" =>
          Recorded(u, set[j]) = <<SetExecutable(p, CarriedExec(u, p))>>
    BY <1>6 DEF Recorded
  <2>2. set[j].act = "SetExecutable" => s = SetExecutable(p, CarriedExec(u, p))
    BY <1>5, <2>1
  <2> QED BY <2>2 DEF SetExecutable
<1>12. CASE s.act = "SetLink"
  <2>1. s = Capture(u, p) /\ set[j].act \in {"Write", "CopyFrom", "SetLink"} /\ ~IsDir(u[p])
    BY <1>10, <1>11, <1>12
  <2>2. IsLink(u[p]) /\ s.path = p
    BY <1>12, <2>1 DEF Capture, Delete, SetLink, Restore
  <2>3. y = Removed(v, p)
    BY <1>8, <1>12, <2>2 DEF LeftUndone
  <2>4. y = [u EXCEPT ![p] = Absent]
    <3>1. v \in {u, Ran(u, set[j]), Removed(u, p)}
      BY <1>6, <2>1 DEF Left, Lands
    <3>2. Ran(u, set[j]) \in {Linked(u, p, set[j].target), Replaced(u, p, Contents(u, set[j]))}
      BY <1>6, <2>1 DEF Ran, Lands
    <3>3. \E e : v = [u EXCEPT ![p] = e]
      <4>1. u = [u EXCEPT ![p] = u[p]]
        BY <1>7 DEF Trees
      <4> QED BY <3>1, <3>2, <4>1 DEF Linked, Replaced, Removed
    <3>4. PICK e : v = [u EXCEPT ![p] = e]
      BY <3>3
    <3> QED BY <1>7, <2>3, <3>4 DEF Removed, Trees
  <2>5. j \in Puts(set, p)
    BY <1>6, <2>1 DEF Puts
  <2>6. BodiesKept(t, set, y)
    BY <1>3, <2>1, <2>2, <2>4, <2>5, ClearKept
  <2>7. ~Exact(t, set)
    BY <1>3, <2>2, NoLinks DEF Exact
  <2> QED BY <2>6, <2>7 DEF Restartable
<1>13. CASE s.act = "Restore"
  <2>1. s = Capture(u, p) /\ set[j].act \in {"Write", "CopyFrom", "SetLink"} /\ ~IsDir(u[p])
    BY <1>10, <1>11, <1>13
  <2>2. IsFile(u[p]) /\ s.path = p
    BY <1>7, <1>13, <2>1, EntryKinds DEF Capture, Delete, SetLink, Restore, IsLink, IsFile, IsDir
  <2>3. set[j].act \in {"Write", "CopyFrom"}
    BY <1>10, <2>1, <2>2
  <2>4. PICK b \in Bytes \cup {Torn} : y = Written(v, p, b)
    BY <1>8, <1>13, <2>2, UndoFields DEF LeftUndone
  <2>5. IsFile(v[p])
    <3>1. v \in {u, Ran(u, set[j])}
      BY <2>3 DEF Left, Lands
    <3>2. Ran(u, set[j])[p] = File(Contents(u, set[j]), CarriedExec(u, p))
      BY <1>6, <1>7, <2>3 DEF Ran, Lands, Replaced, Trees
    <3> QED BY <2>2, <3>1, <3>2 DEF File, IsFile
  <2>6. Past(t, set, v, j - 1)
    BY <1>3, <1>4, <2>3 DEF Lands
  <2> QED BY <1>4, <1>6, <2>3, <2>4, <2>5, <2>6, OverwriteStands
<1> QED BY <1>9, <1>12, <1>13

-----------------------------------------------------------------------------
(* The invariant.                                                            *)

Anchored ==
  /\ journal # Garbled
  /\ pc \in {"lone", "commit"} => i = 1
  /\ pc \in {"commit", "exec", "land"} => ~failed
  /\ ReplayAccounted
  /\ AllOrNothing
  /\ OkMeansApplied

ReplayInv == AtomicReplace => Anchored

\* What the types and the invariant say of the journal.
LEMMA Journals ==
  ASSUME TypeOK, Anchored
  PROVE  /\ tree \in Trees /\ ops \in Seq(Op) /\ Before \in Trees
         /\ undo \in Seq(UndoStep) /\ hist \in Seq(Trees) /\ Len(hist) = Len(undo) + 1
         /\ journal \in {None, ops}
         /\ journal # None => journal = ops /\ ops # <<>> /\ Sane(Before, ops)
         /\ pc \in {"exec", "land", "certify", "unwind", "abort", "retire",
                    "replay", "sweep", "settle"} => journal = ops /\ journal # None
         /\ pc \in {"lone", "lonecertify", "commit"} => journal = None /\ ops # <<>>
<1>1. hist \in Seq(Trees) /\ Len(hist) = Len(undo) + 1 /\ undo \in Seq(UndoStep)
  BY DEF TypeOK, Trees
<1>2. Before \in Trees
  <2>1. Len(undo) \in Nat
    BY <1>1, LenProperties
  <2>2. 1 \in 1 .. Len(hist)
    BY <1>1, <2>1
  <2> QED BY <1>1, <2>2 DEF Before
<1>3. tree \in Trees /\ ops \in Seq(Op) /\ journal \in {None, ops}
  BY DEF TypeOK, Trees, Anchored
<1>4. journal # None => journal = ops /\ ops # <<>> /\ Sane(Before, ops)
  BY <1>3 DEF None, Anchored, ReplayAccounted
<1>5. /\ pc \in {"exec", "land", "certify", "unwind", "abort", "retire",
                 "replay", "sweep", "settle"} => journal = ops /\ journal # None
      /\ pc \in {"lone", "lonecertify", "commit"} => journal = None /\ ops # <<>>
  BY PhaseNames DEF TypeOK, None
<1> QED BY <1>1, <1>2, <1>3, <1>4, <1>5

LEMMA ReplayInit == Init => ReplayInv
<1> SUFFICES ASSUME Init PROVE Anchored
  BY DEF ReplayInv
<1>1. /\ journal = None /\ pc = "idle" /\ ops = <<>> /\ undo = <<>>
      /\ answer = "none"
  BY DEF Init
<1>2. journal # Garbled
  BY <1>1, GarbledApart, EmptySeq DEF None
<1>3. ReplayAccounted
  BY <1>1 DEF ReplayAccounted
<1> QED BY <1>1, <1>2, <1>3 DEF Anchored, AllOrNothing, OkMeansApplied

\* The end of a call, with the journal kept, made or given up.
LEMMA ReturnStands ==
  ASSUME NEW x, Return(x), ops \in Seq(Op), ops' = ops, failed' = failed,
         journal' \in {None, ops},
         journal' # None => Sane(Before, ops),
         journal' # None /\ ~failed => Restartable(Before, ops, tree'),
         journal' = None /\ ops # <<>> /\ ~failed =>
           Docs(tree') = Docs(Before) \/ Reaches(Before, ops, tree'),
         x \in {"ok", "recovered"} /\ ~failed => Reaches(Before, ops, tree')
  PROVE  Anchored'
<1>1. pc' = "idle" /\ answer' = x /\ undo' = <<>> /\ hist' = <<hist[1]>>
  BY DEF Return
<1>2. Before' = Before
  BY <1>1 DEF Before
<1>3. journal' # Garbled
  BY GarbledApart, EmptySeq DEF None
<1>4. ReplayAccounted'
  BY <1>1, <1>2 DEF ReplayAccounted
<1>5. AllOrNothing' /\ OkMeansApplied'
  BY <1>1, <1>2 DEF AllOrNothing, OkMeansApplied
<1> QED BY <1>1, <1>3, <1>4, <1>5 DEF Anchored

\* While a call is under way nothing is promised.
LEMMA Underway ==
  ASSUME HistoryExact', pc' # "idle"
  PROVE  AllOrNothing' /\ OkMeansApplied'
<1>1. answer' = "none"
  BY DEF HistoryExact
<1> QED BY <1>1 DEF AllOrNothing, OkMeansApplied

\* The step to the next op, or to the certification.
LEMMA NextOpStands ==
  ASSUME AtomicReplace, TypeOK, TypeOK', Anchored, HistoryExact',
         pc \in {"exec", "land"}, NextOp,
         UNCHANGED <<journal, ops, failed>>,
         hist'[1] = hist[1], SameDocs(Run(Before, ops)[i], tree'),
         Stood(Before, ops, undo', hist')
  PROVE  Anchored'
<1>1. /\ ops \in Seq(Op) /\ Before \in Trees /\ Sane(Before, ops)
      /\ journal = ops /\ journal # None
  BY Journals
<1>2. tree' \in Trees /\ i \in DOMAIN ops /\ DOMAIN ops = 1 .. Len(ops) /\ Len(ops) \in Nat
  BY <1>1, AtOpTypes, LenProperties DEF TypeOK, Trees
<1>3. PICK b \in Trees : b = Before /\ Before' = b
  BY <1>1 DEF Before
<1>4. i \in 0 .. Len(ops) /\ Run(b, ops)[i] \in Trees
  BY <1>1, <1>2, <1>3, RunSteps
<1>5. Restartable(b, ops, tree') /\ Docs(tree') = Docs(Run(b, ops)[i])
  BY <1>1, <1>2, <1>3, <1>4, RunStands, SameDocsEqual
<1>6. \/ pc' = "exec" /\ i' = i + 1 /\ i' - 1 = i
      \/ pc' = "certify" /\ Docs(tree') = Docs(Applied(b, ops))
  BY <1>2, <1>5 DEF NextOp, GoTo, Applied
<1>7. ReplayAccounted'
  BY <1>1, <1>3, <1>5, <1>6 DEF ReplayAccounted, Stood
<1>8. ~failed'
  BY DEF Anchored
<1> QED BY <1>6, <1>7, <1>8, Underway DEF Anchored

-----------------------------------------------------------------------------
(* At an op.                                                                 *)

\* The apply is at its own run of the set, or one entry short of it.
LEMMA AtRun ==
  ASSUME AtomicReplace, TypeOK, Anchored, HistoryExact, pc \in {"exec", "land"}
  PROVE  /\ ops \in Seq(Op) /\ Before \in Trees /\ Sane(Before, ops) /\ ops[i] \in Op
         /\ i \in DOMAIN ops /\ i - 1 \in 0 .. Len(ops) /\ i \in 0 .. Len(ops)
         /\ tree \in Trees /\ tree = Last(hist)
         /\ Run(Before, ops)[i - 1] \in Trees
         /\ Run(Before, ops)[i] = After(Run(Before, ops)[i - 1], ops[i])
         /\ Displaced(ops[i]) \in Path
         /\ ~failed /\ Stood(Before, ops, undo, hist) /\ Restartable(Before, ops, tree)
         /\ pc = "exec" => SameDocs(Run(Before, ops)[i - 1], tree)
         /\ pc = "land" =>
              LET w == Run(Before, ops)[i - 1]
                  p == Displaced(ops[i])
              IN  ~IsDir(w[p]) /\ SameDocs([w EXCEPT ![p] = Absent], tree)
<1>1. /\ ops \in Seq(Op) /\ Before \in Trees /\ Sane(Before, ops) /\ ops[i] \in Op
      /\ journal # None /\ tree \in Trees /\ Displaced(ops[i]) \in Path
      /\ i \in DOMAIN ops /\ DOMAIN ops = 1 .. Len(ops) /\ Len(ops) \in Nat
  BY Journals, AtOpTypes, LenProperties
<1>2. i - 1 \in 0 .. Len(ops) /\ i \in 0 .. Len(ops)
  BY <1>1
<1>3. PICK b \in Trees : b = Before
  BY <1>1
<1>4. PICK w \in Trees : w = Run(b, ops)[i - 1] /\ Run(b, ops)[i] = After(w, ops[i])
  BY <1>1, <1>2, <1>3, RunSteps
<1>5. PICK p \in Path : p = Displaced(ops[i])
  BY <1>1
<1>6. pc = "exec" => Docs(tree) = Docs(w)
  BY <1>3, <1>4 DEF Anchored, ReplayAccounted
<1>7. pc = "exec" => SameDocs(w, tree)
  BY <1>1, <1>6, SameDocsEqual
<1>8. pc = "land" => ~IsDir(w[p]) /\ Docs(tree) = [Docs(w) EXCEPT ![p] = Absent]
  BY <1>3, <1>4, <1>5 DEF Anchored, ReplayAccounted
<1>9. pc = "land" => SameDocs([w EXCEPT ![p] = Absent], tree)
  <2>1. \A x \in Path : Docs(tree)[x] = tree[x]
    BY DEF Docs
  <2>2. \A x \in Path : [Docs(w) EXCEPT ![p] = Absent][x] = [w EXCEPT ![p] = Absent][x]
    BY AsideSlots DEF Docs, Trees
  <2> QED BY <1>8, <2>1, <2>2 DEF SameDocs
<1>10. tree = Last(hist)
  BY DEF HistoryExact
<1>11. ~failed /\ Stood(b, ops, undo, hist) /\ Restartable(b, ops, tree)
  BY <1>1, <1>3 DEF Anchored, ReplayAccounted, Stood
<1> QED BY <1>1, <1>2, <1>3, <1>4, <1>5, <1>7, <1>8, <1>9, <1>10, <1>11

\* An op whose entry is aside does to the tree what it would have done with the
\* entry in place.
LEMMA LandsFromAside ==
  ASSUME AtomicReplace, NEW w \in Trees, NEW u \in Trees, NEW op \in Op, NEW p \in Path,
         p = Displaced(op), op.act = "SetLink" \/ Moves(op), ~IsDir(w[p]),
         SameDocs([w EXCEPT ![p] = Absent], u), CanRun(u, op)
  PROVE  SameDocs(After(w, op), Ran(u, op))
<1>1. /\ p \in Slot /\ u[p] = Absent
      /\ \A x \in Path : x \in Slot /\ (x # p => u[x] = w[x])
  BY AsideSlots DEF SameDocs, Trees
<1>2. CASE op.act = "SetLink"
  <2>1. op.path = p
    BY <1>2 DEF Displaced
  <2>2. CanRun(w, op)
    BY <1>2, <2>1 DEF CanRun, CanLink
  <2>3. After(w, op) = Linked(w, p, op.target) /\ Ran(u, op) = Linked(u, p, op.target)
    BY <1>2, <2>1, <2>2 DEF After, Ran, Lands
  <2> QED BY <1>1, <2>3 DEF Linked, SameDocs, Trees
<1>3. CASE Moves(op)
  <2>1. PICK a \in Path : a = op.path /\ op.other = p /\ a # p /\ op.act = "Rename"
    BY <1>3, OpFields DEF Moves, Displaced
  <2>2. u[a] = w[a] /\ u[a] # Absent
    BY <1>1, <2>1 DEF CanRun, CanMove
  <2>3. w[p] \in Entry
    BY <1>1 DEF Trees
  <2>4. CanRun(w, op) \/ MovesOver(w, op)
    BY <2>1, <2>2, <2>3, EntryKinds DEF CanRun, CanMove, MovesOver, IsDir
  <2>5. After(w, op) = Moved(w, a, p) /\ Ran(u, op) = Moved(u, a, p)
    BY <2>1, <2>4 DEF After, Ran, Lands
  <2> QED BY <1>1, <2>1, <2>2, <2>5 DEF Moved, SameDocs, Trees
<1> QED BY <1>2, <1>3

\* An op that goes through takes the apply to the next tree of its run.
LEMMA LandsRun ==
  ASSUME AtomicReplace, TypeOK, Anchored, HistoryExact, AtLanding, CanRun(tree, ops[i])
  PROVE  SameDocs(Run(Before, ops)[i], Ran(tree, ops[i]))
<1>1. pc \in {"exec", "land"}
  BY DEF AtLanding, AtOp
<1>2. PICK w \in Trees : w = Run(Before, ops)[i - 1] /\ Run(Before, ops)[i] = After(w, ops[i])
  BY <1>1, AtRun
<1>3. PICK p \in Path : p = Displaced(ops[i])
  BY <1>1, AtRun
<1>4. tree \in Trees /\ ops[i] \in Op
  BY <1>1, AtRun
<1>5. CASE pc = "exec"
  <2>1. SameDocs(w, tree)
    BY <1>2, <1>5, AtRun
  <2>2. After(tree, ops[i]) = Ran(tree, ops[i])
    BY DEF After
  <2> QED BY <1>2, <1>4, <2>1, <2>2, SameAfter
<1>6. CASE pc = "land"
  <2>1. ~IsDir(w[p]) /\ SameDocs([w EXCEPT ![p] = Absent], tree)
    BY <1>2, <1>3, <1>6, AtRun
  <2>2. ops[i].act = "SetLink" \/ Moves(ops[i])
    BY <1>6 DEF HistoryExact
  <2> QED BY <1>2, <1>3, <1>4, <2>1, <2>2, LandsFromAside
<1> QED BY <1>1, <1>5, <1>6

\* The last call of an op, gone through or not, leaves a tree a replay can
\* begin from, and so does the rollback from there.
LEMMA LandingStands ==
  ASSUME AtomicReplace, TypeOK, Anchored, HistoryExact, AtLanding,
         NEW v \in Trees,
         \/ v = Ran(tree, ops[i]) /\ CanRun(tree, ops[i]) /\ ops[i].act # "Rename"
         \/ v \in Left(tree, ops[i])
  PROVE  LET steps == Recorded(tree, ops[i]) IN
         /\ Restartable(Before, ops, v)
         /\ Stood(Before, ops, undo \o steps, Noted(steps, v))
         /\ Noted(steps, v)[1] = hist[1]
<1>1. /\ pc \in {"exec", "land"}
      /\ pc = "exec" => ~Barred(tree, ops[i]) /\ ~MovesAside(tree, ops[i])
  BY DEF AtLanding, AtOp
<1>2. /\ ops \in Seq(Op) /\ Sane(Before, ops) /\ ops[i] \in Op /\ tree \in Trees
      /\ i \in DOMAIN ops /\ i - 1 \in 0 .. Len(ops) /\ i \in 0 .. Len(ops)
      /\ tree = Last(hist)
      /\ Stood(Before, ops, undo, hist) /\ Restartable(Before, ops, tree)
      /\ pc = "exec" => SameDocs(Run(Before, ops)[i - 1], tree)
      /\ Displaced(ops[i]) \in Path
  BY <1>1, AtRun
<1>3. undo \in Seq(UndoStep) /\ hist \in Seq(Trees) /\ Len(hist) = Len(undo) + 1
  BY Journals
<1>4. PICK b \in Trees : b = Before
  BY Journals
<1>5. pc = "land" =>
        /\ undo # <<>> /\ Last(undo).act = "Rename"
        /\ tree[Displaced(ops[i])] = Absent
        /\ ops[i].act = "SetLink" \/ Moves(ops[i])
  BY DEF HistoryExact, Rename
<1>6. Restartable(b, ops, v)
  <2>1. CASE v = Ran(tree, ops[i]) /\ CanRun(tree, ops[i])
    BY <1>2, <1>4, <2>1, LandsRun, RunStands
  <2>2. CASE pc = "exec" /\ v \in Left(tree, ops[i])
    <3>1. CaughtUp(b, ops, tree, i - 1)
      BY <1>2, <1>4, <2>2, RunStands
    <3> QED BY <1>2, <1>4, <2>2, <3>1, LeftStands
  <2>3. CASE pc = "land" /\ v \in Left(tree, ops[i])
    <3>1. ops[i].act = "SetLink" \/ ops[i].act = "Rename"
      BY <1>5, <2>3 DEF Moves
    <3>2. v = tree \/ (ops[i].act = "SetLink" /\ v = Removed(tree, ops[i].path))
      BY <2>3, <3>1 DEF Left, Lands
    <3>3. v = tree
      BY <1>2, <1>5, <2>3, <3>2, AsideSlots DEF Removed, Displaced, Trees
    <3> QED BY <1>2, <1>4, <3>3
  <2> QED BY <1>1, <2>1, <2>2, <2>3
<1>7. CASE ops[i].act = "Rename" \/ pc = "land"
  <2>1. Recorded(tree, ops[i]) = <<>> /\ undo \o <<>> = undo
    BY <1>3, <1>7, ConcatEmptySeq DEF Recorded
  <2>2. Noted(<<>>, v) = [hist EXCEPT ![Len(hist)] = v]
    BY DEF Noted
  <2>3. CASE v = tree
    <3>1. [hist EXCEPT ![Len(hist)] = v] = hist
      BY <1>2, <1>3, <2>3, LenProperties DEF Last
    <3> QED BY <1>2, <1>4, <1>6, <2>1, <2>2, <3>1
  <2>4. CASE pc = "land"
    <3>1. PICK s : s = Last(undo) /\ LeftUndone(v, s) = {v}
      BY <1>5, <2>4, WholeUndo
    <3>2. undo # <<>> /\ Stood(b, ops, undo, hist)
      BY <1>2, <1>4, <1>5, <2>4
    <3>3. \A y \in LeftUndone(v, s) : Restartable(b, ops, y)
      BY <1>6, <3>1
    <3>4. PICK g : g = [hist EXCEPT ![Len(hist)] = v]
      OBVIOUS
    <3>5. /\ Len(undo) \in Nat /\ Len(undo) # 0 /\ DOMAIN undo = 1 .. Len(undo)
          /\ g[Len(undo) + 1] = v /\ \A k \in 1 .. Len(undo) : g[k] = hist[k]
      BY <1>3, <3>2, <3>4, LenProperties, EmptySeq, ExceptSeq
    <3>6. ASSUME NEW k \in DOMAIN undo, NEW y \in LeftUndone(g[k + 1], undo[k])
          PROVE  Restartable(b, ops, y)
      <4>1. CASE k + 1 \in 1 .. Len(undo)
        BY <3>2, <3>5, <3>6, <4>1 DEF Stood
      <4>2. CASE k = Len(undo)
        BY <3>1, <3>3, <3>5, <3>6, <4>2 DEF Last
      <4> QED BY <3>5, <4>1, <4>2
    <3>7. Stood(b, ops, undo, g) /\ g[1] = hist[1]
      BY <3>5, <3>6 DEF Stood
    <3> QED BY <1>4, <1>6, <2>1, <2>2, <3>4, <3>7
  <2>5. (ops[i].act = "Rename" /\ pc # "land") => v = tree
    BY DEF Left, Lands
  <2> QED BY <1>7, <2>3, <2>4, <2>5
<1>8. CASE ops[i].act # "Rename" /\ pc = "exec"
  <2>1. PICK s \in UndoStep : /\ Recorded(tree, ops[i]) = <<s>>
                              /\ \A y \in LeftUndone(v, s) : Restartable(b, ops, y)
    BY <1>1, <1>2, <1>4, <1>8, RecordedStands
  <2>2. Noted(<<s>>, v) = Append(hist, v) /\ undo \o <<s>> = Append(undo, s)
    BY <1>3, Longer DEF Noted
  <2>3. Stood(b, ops, Append(undo, s), Append(hist, v)) /\ Append(hist, v)[1] = hist[1]
    BY <1>2, <1>3, <1>4, <2>1, StoodGrow
  <2> QED BY <1>4, <1>6, <2>1, <2>2, <2>3
<1> QED BY <1>1, <1>7, <1>8

\* A lone op: its run is the op, and a call for it that does not go through has
\* either done nothing or done it all.
LEMMA LoneStands ==
  ASSUME NEW t \in Trees, NEW set \in Seq(Op), Lone(set)
  PROVE  /\ Applied(t, set) = After(t, set[1])
         /\ \A y \in Left(t, set[1]) : y = t \/ y = Applied(t, set)
<1>1. Len(set) = 1 /\ AtomicReplace /\ set[1].act # "SetLink"
  BY DEF Lone
<1>2. 1 \in DOMAIN set /\ 1 - 1 = 0
  BY <1>1, LenProperties
<1>3. Run(t, set)[1] = After(Run(t, set)[1 - 1], set[1]) /\ Run(t, set)[0] = t
  BY <1>2, RunSteps
<1>4. Applied(t, set) = After(t, set[1])
  BY <1>1, <1>2, <1>3 DEF Applied
<1>5. ASSUME NEW y \in Left(t, set[1]), y # t PROVE y = After(t, set[1])
  BY <1>1, <1>5 DEF Left, After
<1> QED BY <1>4, <1>5

-----------------------------------------------------------------------------
(* Call by call.                                                             *)

LEMMA ReplayStep ==
  TypeOK /\ TypeOK' /\ RollbackInv /\ RollbackInv' /\ ReplayInv /\ [Next]_vars => ReplayInv'
<1> SUFFICES ASSUME TypeOK, TypeOK', HistoryExact, RollbackRestores, HistoryExact',
                    Anchored, [Next]_vars, AtomicReplace
             PROVE  Anchored'
  BY DEF RollbackInv, ReplayInv
<1>j. /\ tree \in Trees /\ ops \in Seq(Op) /\ Before \in Trees
      /\ undo \in Seq(UndoStep) /\ hist \in Seq(Trees) /\ Len(hist) = Len(undo) + 1
      /\ journal \in {None, ops}
      /\ journal # None => journal = ops /\ ops # <<>> /\ Sane(Before, ops)
      /\ pc \in {"exec", "land", "certify", "unwind", "abort", "retire",
                 "replay", "sweep", "settle"} => journal = ops /\ journal # None
      /\ pc \in {"lone", "lonecertify", "commit"} => journal = None /\ ops # <<>>
  BY Journals
<1>t. tree' \in Trees
  BY DEF TypeOK, Trees
<1>b. PICK b \in Trees : b = Before
  BY <1>j
<1>n. Len(ops) \in Nat /\ DOMAIN ops = 1 .. Len(ops) /\ Len(undo) \in Nat
  BY <1>j, LenProperties
<1>h. hist' = hist => Before' = b
  BY <1>b DEF Before
<1>s. journal # None => Sane(b, ops) /\ (~failed => Restartable(b, ops, tree))
  BY <1>j, <1>b DEF Anchored, ReplayAccounted
<1>u. journal # None /\ ~failed => Stood(b, ops, undo, hist)
  BY <1>b DEF Anchored, ReplayAccounted, Stood
<1>g. journal # Garbled /\ ops # Garbled /\ None # Garbled
  BY <1>j, GarbledApart, EmptySeq DEF None
<1>r. pc \in {"certify", "retire", "lonecertify"} => Reaches(b, ops, tree)
  BY <1>j, <1>b, AppliedReaches DEF Anchored, ReplayAccounted
<1>c. pc = "commit" => tree = b
  BY <1>j, <1>b DEF HistoryExact, Last, Before
<1>l. ASSUME pc = "lone", tree' \in Left(tree, ops[1])
      PROVE  tree' = b \/ Reaches(b, ops, tree')
  <2>1. tree = b /\ Lone(ops)
    BY <1>b, <1>l DEF Anchored, ReplayAccounted
  <2>2. tree' = b \/ tree' = Applied(b, ops)
    BY <1>j, <1>l, <2>1, LoneStands
  <2> QED BY <1>j, <1>t, <2>2, AppliedReaches
<1>0. ASSUME UNCHANGED <<tree, journal, ops, failed, undo, hist>>, pc' # "idle",
             pc' \in {"unwind", "abort"}
      PROVE  Anchored'
  <2>1. ReplayAccounted'
    BY <1>0, <1>b, <1>h, <1>j, <1>s, <1>u DEF ReplayAccounted, Stood
  <2> QED BY <1>0, <1>g, <2>1, Underway DEF Anchored
<1>1. CASE Apply
  <2>1. PICK set \in Staged : /\ ~Refused(set) /\ SourcesKept(set) /\ ops' = set
                              /\ pc' = IF Lone(set) THEN "lone" ELSE "commit"
    BY <1>1 DEF Apply
  <2>2. /\ i' = 1 /\ hist' = <<tree>> /\ tree' = tree /\ journal' = journal
        /\ journal = None /\ Before' = tree /\ failed' = FALSE
    BY <1>1, <2>1 DEF Apply, Refused, Before
  <2>3. pc' = "commit" => Sane(tree, set)
    BY <2>1, ApplySane
  <2>4. pc' = "lone" => Lone(ops')
    BY <2>1
  <2>5. Lone(ops') => Lone(ops)'
    BY DEF Lone
  <2>6. ReplayAccounted'
    BY <2>1, <2>2, <2>3, <2>4, <2>5 DEF ReplayAccounted
  <2> QED BY <1>g, <2>1, <2>2, <2>6, Underway DEF Anchored
<1>2. CASE ApplyRefused
  <2>1. /\ pc = "idle" /\ answer' = "refused"
        /\ UNCHANGED <<tree, journal, pc, ops, i, undo, hist, failed>>
    BY <1>2 DEF ApplyRefused, log
  <2>2. ReplayAccounted'
    BY <1>b, <1>h, <1>j, <1>s, <1>u, <2>1 DEF ReplayAccounted, Stood
  <2>3. AllOrNothing' /\ OkMeansApplied'
    BY <1>b, <1>h, <2>1 DEF AllOrNothing, OkMeansApplied, Anchored
  <2> QED BY <1>g, <2>1, <2>2, <2>3 DEF Anchored
<1>3. CASE RunLone
  <2>1. /\ pc = "lone" /\ pc' = "lonecertify" /\ CanRun(tree, ops[1])
        /\ tree' = Ran(tree, ops[1]) /\ UNCHANGED <<journal, ops, failed, undo, hist>>
    BY <1>3 DEF RunLone, log
  <2>2. tree = b /\ Lone(ops) /\ journal = None
    BY <1>b, <1>j, <2>1 DEF Anchored, ReplayAccounted
  <2>3. tree' = After(b, ops[1])
    BY <2>1, <2>2 DEF After
  <2>4. Applied(b, ops) = After(b, ops[1])
    BY <1>j, <2>2, LoneStands
  <2>5. ReplayAccounted'
    BY <1>h, <2>1, <2>2, <2>3, <2>4 DEF ReplayAccounted
  <2> QED BY <1>g, <2>1, <2>5, Underway DEF Anchored
<1>4. CASE LoneFails
  <2>1. /\ pc = "lone" /\ Return("failed") /\ UNCHANGED <<journal, ops, failed>>
        /\ tree' = tree \/ tree' \in Left(tree, ops[1])
    BY <1>4 DEF LoneFails, Anchored
  <2>2. tree = b /\ Lone(ops) /\ journal = None
    BY <1>b, <1>j, <2>1 DEF Anchored, ReplayAccounted
  <2>3. tree' = b \/ Reaches(b, ops, tree')
    BY <1>l, <2>1, <2>2 DEF Left
  <2> QED BY <1>b, <1>j, <2>1, <2>2, <2>3, ReturnStands
<1>5. CASE CertifyLone
  <2>1. /\ pc = "lonecertify"
        /\ Return("ok") \/ Return("failed")
        /\ UNCHANGED <<tree, journal, ops, failed>>
    BY <1>5 DEF CertifyLone
  <2>2. Reaches(b, ops, tree') /\ journal' = None
    BY <1>j, <1>r, <2>1
  <2> QED BY <1>b, <1>j, <2>1, <2>2, ReturnStands
<1>6. CASE Commit
  <2>1. /\ pc = "commit" /\ journal' = ops /\ pc' = "exec"
        /\ UNCHANGED <<tree, ops, i, undo, hist, failed>>
    BY <1>6 DEF Commit, log
  <2>2. i' = 1 /\ undo' = <<>> /\ tree' = b /\ Sane(b, ops)
    BY <1>b, <1>c, <2>1 DEF Anchored, ReplayAccounted, HistoryExact
  <2>3. Run(b, ops)[0] = b /\ 0 \in 0 .. Len(ops)
    BY <1>j, <1>n, RunSteps
  <2>4. Restartable(b, ops, tree')
    BY <1>j, <2>2, <2>3, RunRestartable
  <2>5. DOMAIN undo' = {} /\ i' - 1 = 0
    BY <2>2
  <2>6. ReplayAccounted'
    BY <1>h, <2>1, <2>2, <2>3, <2>4, <2>5 DEF ReplayAccounted
  <2> QED BY <1>g, <2>1, <2>6, Underway DEF Anchored
<1>7. CASE CommitFails
  <2>1. /\ pc = "commit" /\ Return("failed") /\ journal' \in {None, ops}
        /\ UNCHANGED <<tree, ops, failed>>
    BY <1>7 DEF CommitFails
  <2>2. tree' = b /\ Sane(b, ops)
    BY <1>b, <1>c, <2>1 DEF Anchored, ReplayAccounted
  <2>3. Run(b, ops)[0] = b /\ 0 \in 0 .. Len(ops)
    BY <1>j, <1>n, RunSteps
  <2>4. Restartable(b, ops, tree')
    BY <1>j, <2>2, <2>3, RunRestartable
  <2> QED BY <1>b, <1>j, <2>1, <2>2, <2>4, ReturnStands
<1>8. CASE MoveAside
  <2>p. PICK p : p = Displaced(ops[i])
    OBVIOUS
  <2>a. PICK a : a = AsideOf(p, i)
    OBVIOUS
  <2>1. /\ pc = "exec" /\ MovesAside(tree, ops[i]) /\ ~Barred(tree, ops[i])
        /\ CanMove(tree, p, a) /\ tree' = Moved(tree, p, a)
        /\ undo' = Append(undo, Rename(a, p)) /\ hist' = Append(hist, tree')
        /\ UNCHANGED <<journal, ops, failed>>
        /\ IF ops[i].act = "Remove" THEN NextOp ELSE GoTo("land", i)
    BY <1>8, <2>p, <2>a DEF MoveAside, AtOp
  <2>2. /\ p \in Path /\ a \in Aside /\ p \in Slot /\ a \in Slot /\ p # a
        /\ i \in DOMAIN ops /\ ops[i] \in Op
    BY <2>p, <2>a, <2>1, AtOpTypes, AsideSlots
  <2>3. ops[i].act \in {"Rename", "Remove", "SetLink"} /\ ~IsDir(tree[p]) /\ tree[p] # Absent
    BY <2>p, <2>1 DEF MovesAside, Moves, Barred, CanMove
  <2>4. PICK w \in Trees : /\ w = Run(b, ops)[i - 1] /\ SameDocs(w, tree)
                           /\ Run(b, ops)[i] = After(w, ops[i])
    BY <1>b, <2>1, AtRun
  <2>5. SameDocs([tree EXCEPT ![p] = Absent], tree') /\ SameDocs([w EXCEPT ![p] = Absent], tree')
    BY <1>j, <2>1, <2>2, <2>4, AsideSlots DEF Moved, SameDocs, Trees
  <2>6. Restartable(b, ops, tree')
    BY <1>j, <1>s, <1>t, <2>p, <2>1, <2>2, <2>3, <2>4, <2>5, AsideStands
  <2>7. ~failed /\ Stood(b, ops, undo', hist')
    <3>1. Rename(a, p) \in UndoStep /\ LeftUndone(tree', Rename(a, p)) = {tree'}
      BY <2>2, WholeUndo DEF UndoStep, Rename
    <3>2. ~failed /\ journal # None
      BY <1>j, <2>1, AtRun
    <3>3. Stood(b, ops, undo, hist)
      BY <1>u, <3>2
    <3>4. \A y \in LeftUndone(tree', Rename(a, p)) : Restartable(b, ops, y)
      BY <2>6, <3>1
    <3>5. Stood(b, ops, Append(undo, Rename(a, p)), Append(hist, tree'))
      BY <1>j, <1>t, <3>1, <3>3, <3>4, StoodGrow
    <3> QED BY <2>1, <3>2, <3>5
  <2>8. hist'[1] = hist[1]
    BY <1>j, <1>n, <1>t, <2>1, Longer
  <2>9. CASE ops[i].act = "Remove"
    <3>1. CanRun(tree, ops[i])
      <4>1. tree[p] \in Entry /\ ops[i].path = p
        BY <1>j, <2>p, <2>2, <2>9 DEF Displaced, Trees
      <4> QED BY <2>3, <2>9, <4>1, EntryKinds DEF CanRun, CanRemove, IsDir
    <3>2. After(tree, ops[i]) = [tree EXCEPT ![p] = Absent]
      BY <2>p, <2>9, <3>1 DEF After, Ran, Lands, Removed, Displaced
    <3>3. SameDocs(After(w, ops[i]), After(tree, ops[i]))
      BY <1>j, <2>2, <2>4, SameAfter
    <3>4. SameDocs(Run(b, ops)[i], tree')
      BY <2>4, <2>5, <3>2, <3>3 DEF SameDocs
    <3>5. Stood(Before, ops, undo', hist') /\ SameDocs(Run(Before, ops)[i], tree')
      BY <1>b, <2>7, <3>4
    <3>6. NextOp /\ pc \in {"exec", "land"}
      BY <2>1, <2>9
    <3> QED BY <2>1, <2>8, <3>5, <3>6, NextOpStands
  <2>10. CASE ops[i].act # "Remove"
    <3>1. pc' = "land" /\ i' = i /\ Before' = b
      BY <1>b, <2>1, <2>8, <2>10 DEF GoTo, Before
    <3>2. Docs(tree') = [Docs(w) EXCEPT ![p] = Absent]
      <4>1. \A x \in Path : tree'[x] = IF x = p THEN Absent ELSE w[x]
        BY <2>2, <2>5, AsideSlots DEF SameDocs, Trees
      <4> QED BY <2>2, <4>1 DEF Docs
    <3>3. ~IsDir(w[p])
      BY <2>2, <2>3, <2>4 DEF SameDocs
    <3>4. ReplayAccounted'
      BY <1>s, <2>p, <2>1, <2>4, <2>6, <2>7, <3>1, <3>2, <3>3 DEF ReplayAccounted, Stood
    <3> QED BY <1>g, <2>1, <3>1, <3>4, Underway DEF Anchored
  <2> QED BY <2>9, <2>10
<1>9. CASE Land
  <2>1. /\ AtLanding /\ CanRun(tree, ops[i]) /\ ops[i].act # "Rename"
        /\ tree' = Ran(tree, ops[i])
        /\ undo' = undo \o Recorded(tree, ops[i])
        /\ hist' = Noted(Recorded(tree, ops[i]), tree')
        /\ NextOp /\ UNCHANGED <<journal, ops, failed>>
    BY <1>9 DEF Land
  <2>2. pc \in {"exec", "land"}
    BY <2>1 DEF AtLanding, AtOp
  <2>3. SameDocs(Run(Before, ops)[i], tree')
    BY <2>1, LandsRun
  <2>4. Stood(Before, ops, undo', hist') /\ hist'[1] = hist[1]
    BY <1>t, <2>1, LandingStands
  <2> QED BY <2>1, <2>2, <2>3, <2>4, NextOpStands
<1>10. CASE LandRename
  <2>1. /\ AtLanding /\ pc \in {"exec", "land"} /\ ops[i].act = "Rename"
        /\ CanRun(tree, ops[i]) /\ tree' = Ran(tree, ops[i])
        /\ NextOp /\ UNCHANGED <<journal, ops, failed>>
        /\ IF Moves(ops[i])
           THEN /\ undo' = Append(undo, Rename(ops[i].other, ops[i].path))
                /\ hist' = Append(hist, tree')
           ELSE UNCHANGED <<undo, hist>>
    BY <1>10 DEF LandRename, AtLanding, AtOp
  <2>2. SameDocs(Run(Before, ops)[i], tree')
    BY <2>1, LandsRun
  <2>3. /\ ops[i] \in Op /\ i \in 0 .. Len(ops) /\ Sane(b, ops) /\ Stood(b, ops, undo, hist)
    BY <1>b, <2>1, AtRun
  <2>4. Restartable(b, ops, tree')
    BY <1>b, <1>j, <1>t, <2>2, <2>3, RunStands
  <2>5. Stood(b, ops, undo', hist') /\ hist'[1] = hist[1]
    <3>1. CASE Moves(ops[i])
      <4>1. PICK s : s = Rename(ops[i].other, ops[i].path) /\ s \in UndoStep
        BY <2>1, <2>3, OpFields, AsideSlots DEF UndoStep
      <4>2. LeftUndone(tree', s) = {tree'}
        BY <4>1, WholeUndo DEF Rename
      <4>3. \A y \in LeftUndone(tree', s) : Restartable(b, ops, y)
        BY <2>4, <4>2
      <4>4. /\ Stood(b, ops, Append(undo, s), Append(hist, tree'))
            /\ Append(hist, tree')[1] = hist[1]
        BY <1>j, <1>t, <2>3, <4>1, <4>3, StoodGrow
      <4> QED BY <2>1, <3>1, <4>1, <4>4
    <3>2. CASE ~Moves(ops[i])
      BY <2>1, <2>3, <3>2
    <3> QED BY <3>1, <3>2
  <2> QED BY <1>b, <2>1, <2>2, <2>5, NextOpStands
<1>11. CASE ExecFails
  BY <1>0, <1>11 DEF ExecFails, GoTo, log
<1>12. CASE LandFails
  <2>1. /\ AtLanding /\ pc \in {"exec", "land"}
        /\ undo' = undo \o Recorded(tree, ops[i])
        /\ hist' = Noted(Recorded(tree, ops[i]), tree')
        /\ pc' = "unwind" /\ UNCHANGED <<journal, ops, failed>>
        /\ tree' = tree \/ tree' \in Left(tree, ops[i])
    BY <1>12 DEF LandFails, GoTo, AtLanding, AtOp
  <2>2. tree' \in Left(tree, ops[i])
    BY <2>1 DEF Left
  <2>3. /\ Restartable(b, ops, tree') /\ Stood(b, ops, undo', hist')
        /\ hist'[1] = hist[1]
    BY <1>b, <1>t, <2>1, <2>2, LandingStands
  <2>4. Before' = b
    BY <1>b, <2>3 DEF Before
  <2>5. ReplayAccounted'
    BY <1>s, <2>1, <2>3, <2>4 DEF ReplayAccounted, Stood
  <2> QED BY <1>g, <2>1, <2>5, Underway DEF Anchored
<1>13. CASE Certify
  <2>1. /\ pc = "certify" /\ UNCHANGED <<tree, journal, ops, failed, undo, hist>>
        /\ pc' \in {"retire", "unwind"}
    BY <1>13 DEF Certify, GoTo, log
  <2>2. Docs(tree) = Docs(Applied(b, ops))
    BY <1>b, <2>1 DEF Anchored, ReplayAccounted
  <2>3. ReplayAccounted'
    BY <1>b, <1>h, <1>j, <1>s, <1>u, <2>1, <2>2 DEF ReplayAccounted, Stood
  <2> QED BY <1>g, <2>1, <2>3, Underway DEF Anchored
<1>14. CASE RetireAside
  <2>1. /\ pc = "retire" /\ asides # <<>> /\ pc' = pc
        /\ tree' = Removed(tree, Head(asides))
        /\ UNCHANGED <<journal, ops, failed, undo, hist>>
    BY <1>14 DEF RetireAside
  <2>2. Head(asides) \in Aside
    BY <2>1 DEF TypeOK
  <2>3. SameDocs(tree, tree')
    BY <1>j, <2>1, <2>2, AsideSlots DEF Removed, SameDocs, Trees
  <2>4. Sane(b, ops) /\ Admissible(ops) /\ (~failed => Restartable(b, ops, tree'))
    BY <1>j, <1>s, <1>t, <2>1, <2>3, SameStanding DEF Sane
  <2>5. Docs(tree') = Docs(Applied(b, ops))
    <3>1. Docs(tree) = Docs(Applied(b, ops))
      BY <1>b, <2>1 DEF Anchored, ReplayAccounted
    <3> QED BY <1>j, <1>t, <2>3, <3>1, SameDocsEqual
  <2>6. ReplayAccounted'
    BY <1>h, <1>j, <1>u, <2>1, <2>4, <2>5 DEF ReplayAccounted, Stood
  <2> QED BY <1>g, <2>1, <2>6, Underway DEF Anchored
<1>15. CASE RetireJournal
  <2>1. pc = "retire" /\ journal' = None /\ Return("ok") /\ UNCHANGED <<tree, ops, failed>>
    BY <1>15 DEF RetireJournal
  <2> QED BY <1>b, <1>j, <1>r, <2>1, ReturnStands
<1>16. CASE RetireFails
  <2>1. pc = "retire" /\ Return("torn") /\ UNCHANGED <<tree, journal, ops, failed>>
    BY <1>16 DEF RetireFails
  <2> QED BY <1>b, <1>j, <1>s, <2>1, ReturnStands
<1>17. CASE Unwind
  <2>1. /\ pc = "unwind" /\ pc' = "unwind" /\ i \in DOMAIN undo /\ i' = i - 1
        /\ UNCHANGED <<journal, ops, undo, hist, failed>>
    BY <1>17, LenProperties DEF Unwind, log, TypeOK
  <2>2. ASSUME ~failed PROVE Restartable(b, ops, tree')
    <3>1. i \in 1 .. Len(hist) /\ i' + 1 = i
      BY <1>j, <1>n, <2>1, LenProperties
    <3>2. tree' = hist[i]
      BY <2>1, <2>2, <3>1 DEF HistoryExact
    <3>3. Restartable(b, ops, hist[1])
      <4>1. Run(b, ops)[0] = b /\ 0 \in 0 .. Len(ops)
        BY <1>j, <1>n, RunSteps
      <4> QED BY <1>b, <1>j, <1>s, <2>1, <4>1, RunRestartable DEF Before
    <3>4. Stood(b, ops, undo, hist)
      BY <1>j, <1>u, <2>1, <2>2
    <3> QED BY <1>j, <3>1, <3>2, <3>3, <3>4, StoodAt
  <2>3. ReplayAccounted'
    BY <1>h, <1>j, <1>s, <1>u, <2>1, <2>2 DEF ReplayAccounted, Stood
  <2> QED BY <1>g, <2>1, <2>3, Underway DEF Anchored
<1>18. CASE UnwindFails
  <2>1. /\ pc = "unwind" /\ pc' = "unwind" /\ failed' = TRUE
        /\ UNCHANGED <<journal, ops, undo, hist>>
    BY <1>18 DEF UnwindFails, log
  <2>2. ReplayAccounted'
    BY <1>h, <1>j, <1>s, <2>1 DEF ReplayAccounted
  <2> QED BY <1>g, <2>1, <2>2, Underway DEF Anchored
<1>19. CASE Unwound
  <2>1. CASE failed
    <3>1. pc = "unwind" /\ Return("torn") /\ UNCHANGED <<tree, journal, ops, failed>>
      BY <1>19, <2>1 DEF Unwound
    <3> QED BY <1>b, <1>j, <1>s, <2>1, <3>1, ReturnStands
  <2>2. CASE ~failed
    BY <1>0, <1>19, <2>2 DEF Unwound, GoTo, log
  <2> QED BY <2>1, <2>2
<1>20. CASE Abort
  <2>1. CASE Return("torn") /\ UNCHANGED journal
    <3>1. pc = "abort" /\ UNCHANGED <<tree, ops, failed>>
      BY <1>20 DEF Abort
    <3> QED BY <1>b, <1>j, <1>s, <2>1, <3>1, ReturnStands
  <2>2. CASE journal' = None /\ GoTo("abortflush", 0)
    <3>1. ReplayAccounted'
      BY <2>2 DEF ReplayAccounted, GoTo
    <3> QED BY <1>g, <2>2, <3>1, Underway DEF Anchored, GoTo
  <2> QED BY <1>20, <2>1, <2>2 DEF Abort
<1>21. CASE AbortFlush
  <2>1. /\ pc = "abortflush" /\ UNCHANGED <<tree, journal, ops, failed>>
        /\ Return("rolledback") \/ Return("torn")
    BY <1>21 DEF AbortFlush
  <2>2. tree = b
    BY <1>b, <2>1 DEF RollbackRestores
  <2> QED BY <1>b, <1>j, <1>s, <2>1, <2>2, ReturnStands
<1>22. CASE Recover
  <2>1. /\ pc = "idle" /\ journal # None /\ pc' = "replay" /\ i' = 1
        /\ UNCHANGED <<tree, journal, ops, failed, undo, hist>>
    BY <1>22, <1>g DEF Recover, GoTo, log
  <2>2. i' - 1 = 0 /\ (~failed => CaughtUp(b, ops, tree, 0))
    BY <1>j, <1>s, <2>1, CaughtUpBegins
  <2>3. ReplayAccounted'
    BY <1>b, <1>h, <1>j, <1>s, <1>u, <2>1, <2>2 DEF ReplayAccounted, Stood
  <2> QED BY <1>g, <2>1, <2>3, Underway DEF Anchored
<1>23. CASE Replay
  <2>1. /\ pc = "replay" /\ CanReplay(tree, ops[i]) /\ tree' = Replayed(tree, ops[i])
        /\ IF i = Len(ops) THEN pc' = "sweep" ELSE pc' = "replay" /\ i' = i + 1
        /\ UNCHANGED <<journal, ops, failed, undo, hist>>
    BY <1>23, <1>j DEF Replay, GoTo, log
  <2>2. i \in DOMAIN ops /\ i \in Nat
    BY <2>1 DEF TypeOK
  <2>3. ~failed => Restartable(b, ops, tree') /\ CaughtUp(b, ops, tree', i)
    <3> SUFFICES ASSUME ~failed PROVE Restartable(b, ops, tree') /\ CaughtUp(b, ops, tree', i)
      OBVIOUS
    <3>1. CaughtUp(b, ops, tree, i - 1)
      BY <1>b, <2>1 DEF Anchored, ReplayAccounted
    <3>2. Sane(b, ops) /\ Restartable(b, ops, tree)
      BY <1>j, <1>s, <2>1
    <3>3. tree' = After(tree, ops[i])
      BY <1>j, <2>1, <2>2, <3>2, ReplayedAfter DEF Restartable
    <3> QED BY <1>j, <2>1, <2>2, <3>1, <3>2, <3>3, CaughtUpStep
  <2>4. pc' = "sweep" /\ ~failed => Reaches(b, ops, tree')
    <3>1. pc' = "sweep" => i = Len(ops)
      BY <2>1
    <3> QED BY <1>j, <1>t, <2>3, <3>1, CaughtUpEnds
  <2>5. pc' = "replay" => i' - 1 = i
    BY <2>1, <2>2
  <2>6. ReplayAccounted'
    BY <1>h, <1>j, <1>s, <1>u, <2>1, <2>3, <2>4, <2>5 DEF ReplayAccounted, Stood
  <2> QED BY <1>g, <2>1, <2>6, Underway DEF Anchored
<1>24. CASE ReplayFails
  <2>1. /\ pc = "replay" /\ Return("stuck") /\ UNCHANGED <<journal, ops, failed>>
        /\ tree' = tree \/ tree' \in Left(tree, ops[i])
    BY <1>24, <1>j DEF ReplayFails
  <2>2. i \in DOMAIN ops /\ tree' \in Left(tree, ops[i])
    BY <2>1 DEF TypeOK, Left
  <2>3. ~failed => Restartable(b, ops, tree')
    <3>1. ~failed => CaughtUp(b, ops, tree, i - 1)
      BY <1>b, <2>1 DEF Anchored, ReplayAccounted
    <3> QED BY <1>j, <1>s, <2>1, <2>2, <3>1, LeftStands
  <2> QED BY <1>b, <1>j, <2>1, <2>3, ReturnStands
<1>25. CASE Sweep
  <2>1. /\ pc = "sweep" /\ pc' \in {"sweep", "settle"}
        /\ UNCHANGED <<journal, ops, failed, undo, hist>>
        /\ tree' = tree \/ tree' = Removed(tree, AsideOf(Displaced(ops[i]), i))
    BY <1>25, <1>j DEF Sweep, GoTo, log
  <2>2. SameDocs(tree, tree')
    <3>1. ops[i] \in Op /\ i \in 1 .. MaxOps
      BY <1>n, <2>1, ValueAssumption DEF TypeOK
    <3>2. AsideOf(Displaced(ops[i]), i) \in Aside
      BY <3>1, OpFields, AsideSlots
    <3> QED BY <1>j, <2>1, <3>2, AsideSlots DEF Removed, SameDocs, Trees
  <2>3. ~failed => Reaches(b, ops, tree)
    BY <1>b, <2>1 DEF Anchored, ReplayAccounted
  <2>4. ~failed => Reaches(b, ops, tree') /\ Restartable(b, ops, tree')
    BY <1>j, <1>s, <1>t, <2>1, <2>2, <2>3, SameStanding DEF Sane
  <2>5. ReplayAccounted'
    BY <1>h, <1>j, <1>s, <1>u, <2>1, <2>4 DEF ReplayAccounted, Stood
  <2> QED BY <1>g, <2>1, <2>5, Underway DEF Anchored
<1>26. CASE SettleRecovery
  <2>1. /\ pc = "settle" /\ journal' = None /\ Return("recovered")
        /\ UNCHANGED <<tree, ops, failed>>
    BY <1>26 DEF SettleRecovery
  <2>2. ~failed => Reaches(b, ops, tree')
    BY <1>b, <2>1 DEF Anchored, ReplayAccounted
  <2> QED BY <1>b, <1>j, <2>1, <2>2, ReturnStands
<1>27. CASE RecoveryFails
  <2>1. /\ pc \in {"sweep", "settle"} /\ Return("stuck")
        /\ UNCHANGED <<tree, journal, ops, failed>>
    BY <1>27 DEF RecoveryFails
  <2> QED BY <1>b, <1>j, <1>s, <2>1, ReturnStands
<1>28. CASE Crash
  <2>1. /\ pc # "idle" /\ tree' \in InFlight /\ journal' = journal /\ Return("crashed")
        /\ UNCHANGED <<ops, failed>>
    BY <1>28 DEF Crash
  <2>2. CASE journal # None
    <3>1. ~failed => Restartable(b, ops, tree')
      <4> SUFFICES ASSUME ~failed PROVE Restartable(b, ops, tree')
        OBVIOUS
      <4>1. Sane(b, ops) /\ Restartable(b, ops, tree) /\ pc # "lone"
        BY <1>j, <1>s, <2>2
      <4>2. CASE AtLanding
        <5>1. tree' \in Left(tree, ops[i])
          BY <2>1, <4>2 DEF InFlight
        <5> QED BY <1>b, <1>t, <4>2, <5>1, LandingStands
      <4>3. CASE ~AtLanding /\ pc = "unwind" /\ i > 0
        <5>1. tree' \in LeftUndone(tree, undo[i]) /\ tree = hist[i + 1] /\ i \in DOMAIN undo
          BY <1>n, <2>1, <4>3 DEF InFlight, HistoryExact, TypeOK
        <5> QED BY <1>u, <2>2, <5>1 DEF Stood
      <4>4. CASE pc = "replay"
        <5>1. ~AtLanding
          BY <4>4 DEF AtLanding, AtOp
        <5>2. tree' \in Left(tree, ops[i]) /\ i \in DOMAIN ops
          BY <1>j, <2>1, <4>4, <5>1 DEF InFlight, TypeOK
        <5>3. CaughtUp(b, ops, tree, i - 1)
          BY <1>b, <4>4 DEF Anchored, ReplayAccounted
        <5> QED BY <1>j, <4>1, <5>2, <5>3, LeftStands
      <4>5. CASE ~AtLanding /\ ~(pc = "unwind" /\ i > 0) /\ pc # "replay"
        BY <2>1, <4>1, <4>5 DEF InFlight
      <4> QED BY <4>2, <4>3, <4>4, <4>5
    <3> QED BY <1>b, <1>j, <2>1, <2>2, <3>1, ReturnStands
  <2>3. CASE journal = None
    <3>1. pc \in {"lone", "lonecertify", "commit", "abortflush"}
      BY <1>j, <2>1, <2>3, PhaseNames DEF TypeOK
    <3>2. tree' = b \/ Reaches(b, ops, tree')
      <4>1. CASE pc = "lone"
        <5>1. tree' \in Left(tree, ops[1])
          BY <2>1, <4>1 DEF InFlight, Anchored
        <5> QED BY <1>l, <4>1, <5>1
      <4>2. CASE pc # "lone"
        <5>1. tree' = tree
          BY <2>1, <3>1, <4>2 DEF InFlight, AtLanding, AtOp
        <5>2. pc = "abortflush" => tree = b
          BY <1>b DEF RollbackRestores
        <5> QED BY <1>c, <1>r, <3>1, <4>2, <5>1, <5>2
      <4> QED BY <4>1, <4>2
    <3> QED BY <1>b, <1>j, <2>1, <2>3, <3>2, ReturnStands
  <2> QED BY <2>2, <2>3
<1>29. CASE UNCHANGED vars
  <2>1. UNCHANGED <<tree, journal, pc, ops, i, undo, hist, failed, answer>>
    BY <1>29 DEF vars
  <2>2. ReplayAccounted'
    <3>1. Lone(ops)' <=> Lone(ops)
      BY <2>1 DEF Lone
    <3> QED BY <2>1, <3>1 DEF Anchored, ReplayAccounted, Before
  <2>3. AllOrNothing' /\ OkMeansApplied'
    BY <2>1 DEF AllOrNothing, OkMeansApplied, Anchored, Before
  <2> QED BY <2>1, <2>2, <2>3 DEF Anchored
<1> QED
  BY <1>1, <1>2, <1>3, <1>4, <1>5, <1>6, <1>7, <1>8, <1>9, <1>10, <1>11, <1>12,
     <1>13, <1>14, <1>15, <1>16, <1>17, <1>18, <1>19, <1>20, <1>21, <1>22,
     <1>23, <1>24, <1>25, <1>26, <1>27, <1>28, <1>29
  DEF Next, Call, Proceed

-----------------------------------------------------------------------------
(* What is proved.                                                           *)

LEMMA ReplayAlways == Spec => []ReplayInv
<1>1. TypeOK /\ TypeOK' /\ RollbackInv /\ RollbackInv' /\ ReplayInv /\ [Next]_vars => ReplayInv'
  BY ReplayStep
<1> QED BY <1>1, ReplayInit, TypeCorrect, RollbackAlways, PTL DEF Spec

\* On a backend that replaces atomically, while the journal stands the tree is
\* one a replay can begin from, wherever the apply, its rollback or a replay
\* broken off has got to, and each op replayed puts right what it decides.
THEOREM ReplayIsAccounted == Spec => [](AtomicReplace => ReplayAccounted)
<1>1. ReplayInv => (AtomicReplace => ReplayAccounted)
  BY DEF ReplayInv, Anchored
<1> QED BY <1>1, ReplayAlways, PTL

\* On such a backend, once no journal is left, the documents are those from
\* before the set or those it asks for, whatever failed and wherever the
\* process died, unless an undo step failed too.
THEOREM SetsAreAtomic == Spec => [](AtomicReplace => AllOrNothing)
<1>1. ReplayInv => (AtomicReplace => AllOrNothing)
  BY DEF ReplayInv, Anchored
<1> QED BY <1>1, ReplayAlways, PTL

\* On such a backend an Ok from apply, and an Applied from recover, mean that
\* the set is applied.
THEOREM OkIsApplied == Spec => [](AtomicReplace => OkMeansApplied)
<1>1. ReplayInv => (AtomicReplace => OkMeansApplied)
  BY DEF ReplayInv, Anchored
<1> QED BY <1>1, ReplayAlways, PTL

\* The set found journaled and unfailed stands, with all that is known of it.
LEMMA JournaledSet ==
  ASSUME TypeOK, AtomicReplace, Anchored, journal # None, ~failed
  PROVE  /\ journal = ops /\ ops \in Seq(Op) /\ Before \in Trees /\ tree \in Trees
         /\ Sane(Before, ops) /\ Restartable(Before, ops, tree)
BY Journals DEF Anchored, ReplayAccounted

\* On such a backend a journal that stands can be run again from its first op,
\* from wherever the tree is, any number of times, and the set is applied.
THEOREM JournalSuffices == Spec => [](AtomicReplace => AlwaysReplayable)
<1>1. TypeOK /\ ReplayInv => (AtomicReplace => AlwaysReplayable)
  <2> SUFFICES ASSUME TypeOK, AtomicReplace, Anchored, journal = ops, ops # <<>>,
                      ~failed, Completes(Before, ops)
               PROVE  Reaches(Before, ops, Applied(tree, ops))
    BY DEF ReplayInv, AlwaysReplayable
  <2>1. journal # None
    BY DEF None
  <2> QED BY <2>1, JournaledSet, RunAgain
<1> QED BY <1>1, TypeCorrect, ReplayAlways, PTL

\* On such a backend no op of a set that can run is ever refused by a recovery:
\* a replay is stopped by a call that fails and by nothing a crash left.
THEOREM ReplayNeverRefused == Spec => [](AtomicReplace => ReplayCanProceed)
<1>1. TypeOK /\ ReplayInv => (AtomicReplace => ReplayCanProceed)
  <2> SUFFICES ASSUME TypeOK, AtomicReplace, Anchored, pc = "replay", ~failed,
                      Completes(Before, ops)
               PROVE  CanReplay(tree, journal[i])
    BY DEF ReplayInv, ReplayCanProceed
  <2>1. journal # None /\ i \in DOMAIN ops
    BY Journals DEF TypeOK
  <2>2. CaughtUp(Before, ops, tree, i - 1)
    BY DEF Anchored, ReplayAccounted
  <2> QED BY <2>1, <2>2, JournaledSet, CanReplayStep DEF Restartable, CaughtUp
<1> QED BY <1>1, TypeCorrect, ReplayAlways, PTL

-----------------------------------------------------------------------------
(* The promise of AtomicSet, step by step.                                   *)

\* The set and the tree it began from stay what they were until the next set
\* begins; a set that is not pending stays so, and the tree with it.
LEMMA SetStays ==
  ASSUME AtomicReplace, TypeOK, TypeOK', Anchored, HistoryExact, [Next]_vars, ~Apply
  PROVE  /\ ops' = ops /\ Before' = Before
         /\ failed' = failed \/ (failed' = TRUE /\ Pending /\ Pending')
         /\ ~Pending => ~Pending' /\ tree' = tree
<1> USE DEF Before, Pending
<1>1. CASE ApplyRefused \/ Commit \/ RetireAside \/ Unwind \/ Recover \/ Replay
           \/ Sweep \/ ExecFails \/ Certify \/ RunLone \/ UNCHANGED vars
  BY <1>1 DEF ApplyRefused, Commit, RetireAside, Unwind, Recover, Replay, Sweep,
     ExecFails, Certify, RunLone, GoTo, log, vars, TypeOK
<1>2. CASE LoneFails \/ CertifyLone \/ CommitFails \/ RetireJournal \/ RetireFails
           \/ Unwound \/ Abort \/ AbortFlush \/ ReplayFails \/ SettleRecovery
           \/ RecoveryFails
  <2>1. UNCHANGED <<ops, failed>> /\ (hist' = hist \/ hist' = <<hist[1]>>)
    BY <1>2 DEF LoneFails, CertifyLone, CommitFails, RetireJournal, RetireFails,
       Unwound, Abort, AbortFlush, ReplayFails, SettleRecovery, RecoveryFails,
       Return, log
  <2>2. CASE CertifyLone
    <3>1. pc = "lonecertify" /\ pc' = "idle" /\ UNCHANGED <<tree, journal>>
      BY <2>2 DEF CertifyLone, Return
    <3> QED BY <2>1, <3>1
  <2>3. CASE ~CertifyLone
    <3>1. pc \notin {"idle", "lonecertify"}
      BY <1>2, <2>3 DEF LoneFails, CommitFails, RetireJournal, RetireFails, Unwound,
         Abort, AbortFlush, ReplayFails, SettleRecovery, RecoveryFails
    <3> QED BY <2>1, <3>1
  <2> QED BY <2>2, <2>3
<1>3. CASE Land \/ LandFails
  <2>1. /\ AtLanding /\ pc \in {"exec", "land"} /\ pc' \in {"exec", "certify", "unwind"}
        /\ UNCHANGED <<ops, failed>>
        /\ hist' = Noted(Recorded(tree, ops[i]), tree')
        /\ \/ tree' = Ran(tree, ops[i]) /\ CanRun(tree, ops[i]) /\ ops[i].act # "Rename"
           \/ tree' \in Left(tree, ops[i])
    BY <1>3 DEF Land, LandFails, NextOp, GoTo, AtLanding, AtOp, Left
  <2>2. hist'[1] = hist[1]
    BY <2>1, LandingStands DEF TypeOK, Trees
  <2> QED BY <2>1, <2>2
<1>4. CASE MoveAside \/ LandRename
  <2>1. /\ pc \in {"exec", "land"} /\ pc' \in {"exec", "land", "certify"}
        /\ UNCHANGED <<ops, failed>>
        /\ hist' = hist \/ hist' = Append(hist, tree')
    BY <1>4 DEF MoveAside, LandRename, NextOp, GoTo, AtLanding, AtOp
  <2>2. hist'[1] = hist[1]
    <3>1. hist \in Seq(Trees) /\ Len(hist) \in Nat /\ Len(hist) >= 1 /\ tree' \in Trees
      BY LenProperties DEF TypeOK, Trees
    <3> QED BY <2>1, <3>1, Longer
  <2> QED BY <2>1, <2>2
<1>5. CASE UnwindFails
  BY <1>5 DEF UnwindFails, log
<1>6. CASE Crash
  <2>1. pc = "lonecertify" => tree' = tree
    BY <1>6 DEF Crash, InFlight, AtLanding, AtOp
  <2> QED BY <1>6, <2>1 DEF Crash, Return, TypeOK
<1> QED BY <1>1, <1>2, <1>3, <1>4, <1>5, <1>6 DEF Next, Call, Proceed

\* A set begins with nothing moved aside, and an apply given up leaves nothing
\* aside either: it leaves the tree it found, and not only its documents.
Clean == \A a \in Aside : Before[a] = Absent

\* What a step of ChangeSet needs to know to keep the promise.
Standing == TypeOK /\ AsidesAccounted /\ HistoryExact /\ Anchored /\ Clean

\* Where there is no journal, nothing is aside.
LEMMA UnjournaledIsVacant ==
  ASSUME AsidesAccounted, journal = None
  PROVE  Occupied = {}
<1>1. DOMAIN journal = {}
  BY DEF None
<1> QED
  BY <1>1 DEF AsidesAccounted

\* Once a set is over and no rollback of it failed, the tree is the one the set
\* found or passes for the set applied.
LEMMA SetsEnd ==
  Standing /\ ~Pending /\ ops # <<>> /\ ~failed => tree = Before \/ Reaches(Before, ops, tree)
<1> SUFFICES ASSUME Standing, ~Pending, ops # <<>>, ~failed
             PROVE  tree = Before \/ Reaches(Before, ops, tree)
  OBVIOUS
<1>1. tree \in Trees /\ Before \in Trees /\ ops \in Seq(Op)
  BY Journals DEF Standing
<1>2. CASE pc = "idle"
  <2>1. Docs(tree) = Docs(Before) \/ Reaches(Before, ops, tree)
    BY <1>2 DEF Standing, Anchored, AllOrNothing, Pending
  <2>2. \A a \in Aside : tree[a] = Before[a]
    BY <1>2, UnjournaledIsVacant DEF Standing, Occupied, Clean, Pending
  <2>3. CASE Docs(tree) = Docs(Before)
    <3>1. \A x \in Slot : tree[x] = Before[x]
      BY <2>2, <2>3, AsideSlots DEF Docs, Slot
    <3> QED BY <1>1, <3>1 DEF Trees
  <2> QED BY <2>1, <2>3
<1>3. CASE pc = "lonecertify"
  BY <1>1, <1>3, AppliedReaches DEF Standing, Anchored, ReplayAccounted
<1> QED BY <1>2, <1>3 DEF Pending

LEMMA PromiseInit == Init => Promise!Init
BY DEF Init, Promise!Init, Promise!Nothing, Pending, None

LEMMA CleanInit == Init => Clean
BY InitAssumption DEF Init, Clean, Before

LEMMA CleanStep ==
  ASSUME AtomicReplace, Standing, TypeOK', [Next]_vars
  PROVE  Clean'
<1>1. CASE Apply
  <2>1. pc = "idle" /\ journal = None /\ hist' = <<tree>>
    BY <1>1 DEF Apply, Refused
  <2>2. \A a \in Aside : tree[a] = Absent
    BY <2>1, UnjournaledIsVacant DEF Standing, Occupied
  <2> QED BY <2>1, <2>2 DEF Clean, Before
<1>2. CASE ~Apply
  <2>1. Before' = Before
    BY <1>2, SetStays DEF Standing
  <2> QED BY <2>1 DEF Standing, Clean
<1> QED BY <1>1, <1>2

\* Each step of ChangeSet is a step of the promise, or one that changes nothing
\* of it.
LEMMA PromiseStep ==
  ASSUME AtomicReplace, Standing, Standing', [Next]_vars
  PROVE  [Promise!Next]_(Promise!promise)
<1> DEFINE docs == IF Pending THEN Before ELSE tree
           pending == IF Pending THEN ops ELSE <<>>
<1>1. SUFFICES [ \/ /\ pending = <<>> /\ pending' \in Staged
                    /\ failed' = FALSE /\ docs' = docs
                 \/ /\ pending # <<>> /\ Reaches(docs, pending, docs')
                    /\ pending' = <<>> /\ failed' = failed
                 \/ /\ pending # <<>> /\ pending' = <<>> /\ UNCHANGED <<docs, failed>>
                 \/ /\ pending # <<>> /\ failed' = TRUE /\ UNCHANGED <<docs, pending>>
                 \/ /\ failed /\ pending # <<>> /\ pending' = <<>> /\ failed' = failed
               ]_<<docs, pending, failed>>
  BY DEF Promise!Next, Promise!Begin, Promise!Take, Promise!GiveUp, Promise!Break,
     Promise!Settle, Promise!Nothing, Promise!promise
<1>2. CASE Apply
  <2>1. /\ ~Pending /\ Pending' /\ ops' \in Staged /\ failed' = FALSE
        /\ Before' = tree
    BY <1>2 DEF Apply, Refused, Pending, Before
  <2> QED BY <2>1
<1>3. CASE ~Apply
  <2>1. /\ ops' = ops /\ Before' = Before
        /\ failed' = failed \/ (failed' = TRUE /\ Pending /\ Pending')
        /\ ~Pending => ~Pending' /\ tree' = tree
    BY <1>3, SetStays DEF Standing
  <2>2. Pending => ops # <<>>
    BY Journals DEF Standing, Pending, TypeOK, Phases
  <2>3. CASE ~Pending \/ Pending'
    BY <2>1, <2>2, <2>3
  <2>4. CASE Pending /\ ~Pending'
    <3>1. ~failed => tree' = Before \/ Reaches(Before, ops, tree')
      <4>1. (Standing /\ ~Pending /\ ops # <<>> /\ ~failed => tree = Before \/ Reaches(Before, ops, tree))'
        BY SetsEnd, PTL
      <4> QED BY <2>1, <2>2, <2>4, <4>1
    <3> QED BY <2>1, <2>2, <2>4, <3>1
  <2> QED BY <2>3, <2>4
<1> QED BY <1>2, <1>3

\* On a backend that replaces atomically the journal, the undo and the recovery
\* together keep the promise of AtomicSet: to a caller who recovers first, a set
\* is one step to a tree that passes for it applied, or none at all.
THEOREM PromiseKept == AtomicReplace => (Spec => KeepsPromise)
<1> SUFFICES ASSUME AtomicReplace PROVE Spec => KeepsPromise
  OBVIOUS
<1> DEFINE Inv == TypeOK /\ AsidesAccounted /\ RollbackInv /\ ReplayInv
<1>1. Init => Clean /\ Promise!Init
  BY CleanInit, PromiseInit
<1>2. Inv /\ Clean => Standing
  BY DEF RollbackInv, ReplayInv, Standing
<1>3. Inv /\ Clean /\ Inv' /\ [Next]_vars => Clean'
  BY <1>2, CleanStep
<1>4. Inv /\ Clean /\ Inv' /\ Clean' /\ [Next]_vars => [Promise!Next]_(Promise!promise)
  <2>1. Inv' /\ Clean' => Standing'
    BY DEF RollbackInv, ReplayInv, Standing
  <2> QED BY <1>2, <2>1, PromiseStep
<1>5. Spec => []Inv
  BY TypeCorrect, AsidesCorrect, RollbackAlways, ReplayAlways, PTL
<1> QED BY <1>1, <1>3, <1>4, <1>5, PTL DEF Spec, KeepsPromise, Promise!Spec

=============================================================================
