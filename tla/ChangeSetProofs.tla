-------------------------- MODULE ChangeSetProofs --------------------------
(***************************************************************************)
(* Theorems of ChangeSet, for every set of paths, every length of set and  *)
(* every bound on the faults and the crashes.                              *)
(***************************************************************************)
EXTENDS ChangeSet, TreeProofs, SequenceTheorems

-----------------------------------------------------------------------------
(* Sequences that grow by one, or have their last element replaced.          *)

LEMMA Longer ==
  ASSUME NEW S, NEW s \in Seq(S), NEW e \in S
  PROVE  /\ s \o <<e>> = Append(s, e)
         /\ Append(s, e) \in Seq(S)
         /\ Len(Append(s, e)) = Len(s) + 1
         /\ \A k \in 1 .. Len(s) : Append(s, e)[k] = s[k]
         /\ Append(s, e)[Len(s) + 1] = e
<1>1. <<e>> \in Seq(S) /\ Len(<<e>>) = 1 /\ <<e>>[1] = e
  OBVIOUS
<1>2. /\ s \o <<e>> \in Seq(S) /\ Len(s \o <<e>>) = Len(s) + 1
      /\ \A k \in 1 .. Len(s) : (s \o <<e>>)[k] = s[k]
      /\ (s \o <<e>>)[Len(s) + 1] = e
  BY <1>1, ConcatProperties
<1>3. /\ Append(s, e) \in Seq(S) /\ Len(Append(s, e)) = Len(s) + 1
      /\ \A k \in 1 .. Len(s) : Append(s, e)[k] = s[k]
      /\ Append(s, e)[Len(s) + 1] = e
  OBVIOUS
<1>4. \A k \in 1 .. Len(s) + 1 : Append(s, e)[k] = (s \o <<e>>)[k]
  BY <1>2, <1>3
<1>5. s \o <<e>> = Append(s, e)
  BY <1>2, <1>3, <1>4, SeqEqual
<1> QED BY <1>3, <1>5

-----------------------------------------------------------------------------
(* Undo steps.                                                               *)

LEMMA UndoFields ==
  ASSUME NEW u \in UndoStep
  PROVE  /\ u.act \in {"Restore", "Delete", "Rename", "SetExecutable", "SetLink"}
         /\ u.act # "Rename" => u.path \in Path
         /\ u.act = "Restore" => u.bytes \in Bytes \cup {Torn}
         /\ u.act = "Rename" => u.path \in Slot /\ u.other \in Path
         /\ u.act = "SetExecutable" => u.exec \in BOOLEAN
         /\ u.act = "SetLink" => u.target \in Target
BY DEF UndoStep, Restore, Delete, Rename, SetExecutable, SetLink

\* A tree that undo steps have led to from t: an aside is as it was, or has
\* been moved back.
Nearer(t, u) == u \in Trees /\ \A a \in Aside : u[a] \in {t[a], Absent}

LEMMA NearIsNearer ==
  ASSUME NEW t, NEW u, Near(t, u)
  PROVE  Nearer(t, u)
BY DEF Near, Nearer

LEMMA UndoneNearer ==
  ASSUME NEW t \in Trees, NEW u \in UndoStep
  PROVE  Nearer(t, Undone(t, u))
<1>1. CASE u.act = "Restore"
  BY <1>1, UndoFields, CallNear, NearIsNearer DEF Undone
<1>2. CASE u.act = "Delete"
  BY <1>2, UndoFields, CallNear, NearIsNearer DEF Undone
<1>3. CASE u.act = "SetExecutable"
  <2>1. Undone(t, u) = Flipped(t, u.path, u.exec)
    BY <1>3 DEF Undone, Ran, Lands
  <2> QED BY <1>3, <2>1, UndoFields, CallNear, NearIsNearer
<1>4. CASE u.act = "SetLink"
  <2>1. Undone(t, u) = Linked(t, u.path, u.target)
    BY <1>4 DEF Undone, Ran, Lands
  <2> QED BY <1>4, <2>1, UndoFields, CallNear, NearIsNearer
<1>5. CASE u.act = "Rename"
  <2>1. Undone(t, u) = Moved(t, u.path, u.other)
    BY <1>5 DEF Undone, Ran, Lands
  <2>2. u.path \in Slot /\ u.other \in Path /\ u.other \in Slot
    BY <1>5, UndoFields, AsideSlots
  <2>3. Moved(t, u.path, u.other) \in Trees
    BY <2>2, CallTypes
  <2>4. \A a \in Aside : Moved(t, u.path, u.other)[a] \in {t[a], Absent}
    BY <2>2, CallFrame
  <2> QED BY <2>1, <2>3, <2>4 DEF Nearer
<1> QED BY <1>1, <1>2, <1>3, <1>4, <1>5, UndoFields

LEMMA LeftUndoneNearer ==
  ASSUME NEW t \in Trees, NEW u \in UndoStep, NEW v \in LeftUndone(t, u)
  PROVE  Nearer(t, v)
<1>1. CASE v = t
  BY <1>1 DEF Nearer
<1>2. CASE u.act = "Restore" /\ v # t
  <2>1. PICK b \in {Torn, u.bytes} : v = Written(t, u.path, b)
    BY <1>2 DEF LeftUndone
  <2>2. b \in Bytes \cup {Torn} /\ u.path \in Path
    BY <1>2, UndoFields
  <2> QED BY <2>1, <2>2, CallNear, NearIsNearer
<1>3. CASE u.act = "SetExecutable" /\ v # t
  <2>1. v = Undone(t, u)
    BY <1>3 DEF LeftUndone
  <2> QED BY <2>1, UndoneNearer
<1>4. CASE u.act = "SetLink" /\ v # t
  <2>1. v = Removed(t, u.path) /\ u.path \in Path
    BY <1>4, UndoFields DEF LeftUndone
  <2> QED BY <2>1, CallNear, NearIsNearer
<1>5. v = t \/ u.act \in {"Restore", "SetExecutable", "SetLink"}
  BY DEF LeftUndone
<1> QED BY <1>1, <1>2, <1>3, <1>4, <1>5

\* What an op records before its last call is one step, or none.
LEMMA RecordedTypes ==
  ASSUME NEW t \in Trees, NEW op \in Op, pc = "land" \/ ~Barred(t, op)
  PROVE  \/ Recorded(t, op) = <<>>
         \/ \E u \in UndoStep : Recorded(t, op) = <<u>>
<1>1. op.path \in Path /\ op.path \in Slot /\ t[op.path] \in Entry
  BY OpFields, AsideSlots DEF Trees
<1>2. CASE Recorded(t, op) = <<SetExecutable(op.path, CarriedExec(t, op.path))>>
  <2>1. CarriedExec(t, op.path) \in BOOLEAN
    BY DEF CarriedExec
  <2> QED BY <1>1, <1>2, <2>1 DEF UndoStep
<1>3. CASE /\ pc # "land" /\ op.act \notin {"Rename", "SetExecutable"}
           /\ Recorded(t, op) = <<Capture(t, op.path)>>
  <2>1. ~IsDir(t[op.path])
    BY <1>3 DEF Barred, Displaced
  <2>2. CASE t[op.path] = Absent
    BY <1>1, <1>3, <2>2 DEF Capture, UndoStep
  <2>3. CASE IsLink(t[op.path]) /\ t[op.path] # Absent
    <3>1. t[op.path].target \in Target
      BY <1>1, <2>3, EntryKinds DEF IsLink
    <3> QED BY <1>1, <1>3, <2>3, <3>1 DEF Capture, UndoStep
  <2>4. CASE IsFile(t[op.path]) /\ t[op.path] # Absent
    <3>1. t[op.path].bytes \in Bytes \cup {Torn}
      BY <1>1, <2>4, EntryKinds DEF IsFile
    <3>2. ~IsLink(t[op.path])
      BY <2>4 DEF IsFile, IsLink
    <3>3. Capture(t, op.path) = Restore(op.path, t[op.path].bytes)
      BY <2>4, <3>2 DEF Capture
    <3> QED BY <1>1, <1>3, <3>1, <3>3 DEF UndoStep
  <2> QED BY <1>1, <2>1, <2>2, <2>3, <2>4, EntryKinds DEF IsFile, IsLink, IsDir, Directory
<1>4. \/ Recorded(t, op) = <<>>
      \/ Recorded(t, op) = <<SetExecutable(op.path, CarriedExec(t, op.path))>>
      \/ /\ pc # "land" /\ op.act \notin {"Rename", "SetExecutable"}
         /\ Recorded(t, op) = <<Capture(t, op.path)>>
  BY DEF Recorded
<1> QED BY <1>2, <1>3, <1>4

-----------------------------------------------------------------------------
(* Type correctness.                                                         *)

LEMMA TypeInit == Init => TypeOK
<1> SUFFICES ASSUME Init PROVE TypeOK
  OBVIOUS
<1>1. tree \in [Slot -> Entry] /\ ops = <<>> /\ undo = <<>> /\ asides = <<>>
  BY InitAssumption DEF Init
<1>2. /\ ops \in Seq(Op) /\ undo \in Seq(UndoStep) /\ asides \in Seq(Aside)
      /\ Len(ops) = 0 /\ Len(undo) = 0
  BY <1>1, EmptySeq
<1>3. hist \in Seq([Slot -> Entry]) /\ Len(hist) = 1
  BY <1>1 DEF Init
<1>4. pc = "idle" /\ i = 0 /\ journal = ops /\ pc \in Phases /\ answer \in Answers
  BY DEF Init, None, Phases, Answers
<1>5. failed \in BOOLEAN /\ begun = 0 /\ faults = 0 /\ crashes = 0
  BY DEF Init
<1> QED BY <1>1, <1>2, <1>3, <1>4, <1>5, BoundAssumption, ValueAssumption DEF TypeOK

\* The conjuncts of TypeOK an ended call is accountable for.
LEMMA Returned ==
  ASSUME TypeOK, NEW a \in Answers, Return(a)
  PROVE  /\ pc' = "idle" /\ i' \in Nat /\ answer' \in Answers
         /\ undo' \in Seq(UndoStep) /\ asides' \in Seq(Aside)
         /\ hist' \in Seq(Trees) /\ Len(hist') = Len(undo') + 1
<1>1. hist[1] \in Trees
  BY DEF TypeOK, Trees
<1> QED BY <1>1 DEF Return, Trees

\* The step to the next op, or to the end of the set.
LEMMA NextOpTypes ==
  ASSUME TypeOK, pc \in {"exec", "land"}, NextOp
  PROVE  /\ pc' \in {"certify", "exec"} /\ i' \in Nat
         /\ pc' = "exec" => i' \in DOMAIN ops
BY DEF TypeOK, NextOp, GoTo

LEMMA FaultTypes ==
  ASSUME TypeOK, NEW b, Fails(b) \/ Fault
  PROVE  faults' \in 0 .. MaxFaults
BY BoundAssumption DEF TypeOK, Fails, Fault

\* What every call keeps to, whatever set's journal it is that stands.
InCall ==
  /\ tree \in Trees
  /\ ops \in Seq(Op) /\ Len(ops) <= MaxOps
  /\ pc \in Phases
  /\ pc \in {"exec", "land", "certify", "unwind", "abort", "retire"} => journal = ops
  /\ pc \in {"lone", "lonecertify", "commit", "abortflush"} => journal = None
  /\ pc \in {"replay", "sweep", "settle"} => journal \in Seq(Op) /\ Len(journal) <= MaxOps
  /\ i \in Nat
  /\ pc \in {"lone", "commit", "exec", "land"} => i \in DOMAIN ops
  /\ pc \in {"replay", "sweep"} => i \in DOMAIN journal
  /\ undo \in Seq(UndoStep)
  /\ pc = "unwind" => i <= Len(undo)
  /\ asides \in Seq(Aside)

LEMMA TypedInCall == TypeOK => InCall
BY DEF TypeOK, InCall, Trees

\* What the op at hand moves, lands and records, kept within the types.
LEMMA AtOpInCall ==
  ASSUME InCall, pc \in {"exec", "land"}
  PROVE  /\ tree \in Trees
         /\ ops[i] \in Op
         /\ i \in 1 .. MaxOps /\ i \in DOMAIN ops
         /\ Displaced(ops[i]) \in Path
         /\ AsideOf(Displaced(ops[i]), i) \in Aside
<1>1. ops[i] \in Op /\ i \in DOMAIN ops /\ i \in 1 .. MaxOps
  BY ValueAssumption DEF InCall
<1> QED BY <1>1, OpFields, AsideSlots DEF InCall

LEMMA AtOpTypes ==
  ASSUME TypeOK, pc \in {"exec", "land"}
  PROVE  /\ tree \in Trees
         /\ ops[i] \in Op
         /\ i \in 1 .. MaxOps /\ i \in DOMAIN ops
         /\ Displaced(ops[i]) \in Path
         /\ AsideOf(Displaced(ops[i]), i) \in Aside
BY TypedInCall, AtOpInCall

LEMMA NotedTypes ==
  ASSUME TypeOK, NEW t \in Trees, AtLanding
  PROVE  LET steps == Recorded(tree, ops[i]) IN
         /\ undo \o steps \in Seq(UndoStep)
         /\ Noted(steps, t) \in Seq(Trees)
         /\ Len(Noted(steps, t)) = Len(undo \o steps) + 1
<1> DEFINE steps == Recorded(tree, ops[i])
<1>1. pc \in {"exec", "land"} /\ (pc = "land" \/ ~Barred(tree, ops[i]))
  BY DEF AtLanding, AtOp
<1>2. steps = <<>> \/ \E u \in UndoStep : steps = <<u>>
  BY <1>1, AtOpTypes, RecordedTypes
<1> HIDE DEF steps
<1>3. undo \in Seq(UndoStep) /\ hist \in Seq(Trees) /\ Len(hist) = Len(undo) + 1
  BY DEF TypeOK, Trees
<1>4. ASSUME steps = <<>>
      PROVE  /\ undo \o steps \in Seq(UndoStep)
             /\ Noted(steps, t) \in Seq(Trees)
             /\ Len(Noted(steps, t)) = Len(undo \o steps) + 1
  <2>1. undo \o steps = undo
    BY <1>3, <1>4, ConcatEmptySeq
  <2>2. Noted(steps, t) = [hist EXCEPT ![Len(hist)] = t]
    BY <1>4 DEF Noted
  <2>3. [hist EXCEPT ![Len(hist)] = t] \in Seq(Trees) /\ Len([hist EXCEPT ![Len(hist)] = t]) = Len(hist)
    BY <1>3, ExceptSeq, LenProperties
  <2> QED BY <1>3, <2>1, <2>2, <2>3
<1>5. ASSUME NEW u \in UndoStep, steps = <<u>>
      PROVE  /\ undo \o steps \in Seq(UndoStep)
             /\ Noted(steps, t) \in Seq(Trees)
             /\ Len(Noted(steps, t)) = Len(undo \o steps) + 1
  <2>1. Noted(steps, t) = Append(hist, t)
    BY <1>5 DEF Noted
  <2>2. undo \o steps = Append(undo, u)
    BY <1>3, <1>5, Longer
  <2>3. Append(undo, u) \in Seq(UndoStep) /\ Len(Append(undo, u)) = Len(undo) + 1
    BY <1>3, Longer
  <2>4. Append(hist, t) \in Seq(Trees) /\ Len(Append(hist, t)) = Len(hist) + 1
    BY <1>3, Longer
  <2> QED BY <1>3, <2>1, <2>2, <2>3, <2>4
<1>6. /\ undo \o steps \in Seq(UndoStep)
      /\ Noted(steps, t) \in Seq(Trees)
      /\ Len(Noted(steps, t)) = Len(undo \o steps) + 1
  BY <1>2, <1>4, <1>5
<1> QED BY <1>6 DEF steps

\* What a death inside the call at hand may leave.
LEMMA InFlightNearer ==
  ASSUME InCall, NEW t \in InFlight
  PROVE  Nearer(tree, t)
<1>t. tree \in Trees
  BY DEF InCall
<1>1. CASE t \in Left(tree, ops[i]) /\ pc \in {"lone", "exec", "land"}
  <2>1. ops[i] \in Op
    BY <1>1, ElementOfSeq, LenProperties DEF InCall
  <2> QED BY <1>t, <1>1, <2>1, LeftNear, NearIsNearer
<1>2. CASE pc = "unwind" /\ i > 0 /\ t \in LeftUndone(tree, undo[i])
  <2>1. undo[i] \in UndoStep
    BY <1>2, ElementOfSeq DEF InCall
  <2> QED BY <1>t, <1>2, <2>1, LeftUndoneNearer
<1>3. CASE pc = "replay" /\ t \in Left(tree, journal[i])
  <2>1. journal[i] \in Op
    BY <1>3, ElementOfSeq, LenProperties DEF InCall
  <2> QED BY <1>t, <1>3, <2>1, LeftNear, NearIsNearer
<1> QED BY <1>t, <1>1, <1>2, <1>3 DEF InFlight, AtLanding, AtOp, Nearer

\* Where the call of a phase may be.
LEMMA PhaseNames ==
  /\ Phases = {"idle", "lone", "lonecertify", "commit", "exec", "land",
               "certify", "unwind", "abort", "abortflush", "retire",
               "replay", "sweep", "settle"}
  /\ {"none", "ok", "refused", "failed", "rolledback", "torn", "crashed",
      "recovered", "stuck"} \subseteq Answers
BY DEF Phases, Answers

\* Every call keeps the types.
LEMMA TypeStep == TypeOK /\ [Next]_vars => TypeOK'
<1> SUFFICES ASSUME TypeOK, [Next]_vars PROVE TypeOK'
  OBVIOUS
<1> USE PhaseNames
<1>t. tree \in Trees /\ tree \in [Slot -> Entry]
  BY DEF TypeOK, Trees
<1>1. CASE Apply
  <2>1. PICK set \in Staged : /\ ~Refused(set)
                              /\ ops' = set
                              /\ pc' = IF Lone(set) THEN "lone" ELSE "commit"
    BY <1>1 DEF Apply
  <2>2. ops' \in Seq(Op) /\ Len(ops') <= MaxOps /\ ops' # <<>>
    BY <2>1, StagedAssumption, ValueAssumption, EmptySeq
  <2>3. journal' = None
    BY <1>1, <2>1 DEF Apply, Refused
  <2>4. /\ undo' \in Seq(UndoStep)
        /\ asides' \in Seq(Aside)
        /\ hist' \in Seq([Slot -> Entry]) /\ Len(hist') = Len(undo') + 1
    BY <1>1, <1>t DEF Apply
  <2>5. /\ tree' = tree /\ i' = 1 /\ failed' = FALSE /\ answer' = "none"
        /\ begun < MaxSets /\ begun' = begun + 1 /\ faults' = 0 /\ crashes' = 0
    BY <1>1 DEF Apply
  <2>6. 1 \in DOMAIN ops'
    BY <2>2, EmptySeq, LenProperties
  <2>7. pc' \in {"lone", "commit"}
    BY <2>1
  <2>8. begun' \in 0 .. MaxSets /\ faults' \in 0 .. MaxFaults /\ crashes' \in 0 .. MaxCrashes
    BY <2>5, BoundAssumption DEF TypeOK
  <2> QED BY <2>7, <2>8, <2>6, <2>2, <2>3, <2>4, <2>5 DEF TypeOK
<1>2. CASE ApplyRefused
  BY <1>2 DEF ApplyRefused, log, budget, TypeOK
<1>3. CASE RunLone
  <2>1. ops[1] \in Op
    BY <1>3, EmptySeq, ElementOfSeq DEF RunLone, TypeOK
  <2>2. tree' \in [Slot -> Entry]
    BY <1>3, <1>t, <2>1, RanNear DEF RunLone, Near, Trees
  <2> QED BY <1>3, <2>2 DEF RunLone, log, budget, TypeOK
<1>4. CASE LoneFails
  <2>1. ops[1] \in Op
    BY <1>4, EmptySeq, ElementOfSeq DEF LoneFails, TypeOK
  <2>2. tree' \in [Slot -> Entry]
    <3>1. tree' = tree \/ tree' \in Left(tree, ops[1])
      BY <1>4 DEF LoneFails
    <3> QED BY <1>t, <2>1, <3>1, LeftNear DEF Near, Trees
  <2>3. faults' \in 0 .. MaxFaults
    BY <1>4, FaultTypes DEF LoneFails
  <2>4. UNCHANGED <<journal, ops, failed, begun, crashes>> /\ Return("failed")
    BY <1>4 DEF LoneFails
  <2> QED BY <2>2, <2>3, <2>4, Returned DEF TypeOK, Trees
<1>5. CASE CertifyLone
  <2>1. faults' \in 0 .. MaxFaults
    BY <1>5, FaultTypes DEF CertifyLone, TypeOK
  <2>2. UNCHANGED <<tree, journal, ops, failed, begun, crashes>>
        /\ (Return("ok") \/ Return("failed"))
    BY <1>5 DEF CertifyLone
  <2> QED BY <2>1, <2>2, Returned DEF TypeOK, Trees
<1>6. CASE Commit
  BY <1>6 DEF Commit, log, budget, TypeOK
<1>7. CASE CommitFails
  <2>1. faults' \in 0 .. MaxFaults
    BY <1>7, FaultTypes DEF CommitFails
  <2>2. UNCHANGED <<tree, ops, failed, begun, crashes>> /\ Return("failed")
    BY <1>7 DEF CommitFails
  <2>3. journal' \in {None, Garbled, ops}
    BY <1>7 DEF CommitFails
  <2> QED BY <2>1, <2>2, <2>3, Returned DEF TypeOK, Trees
<1>8. CASE MoveAside
  <2> DEFINE p == Displaced(ops[i])
             a == AsideOf(p, i)
  <2>0. pc = "exec"
    BY <1>8 DEF MoveAside, AtOp
  <2>1. p \in Path /\ a \in Aside /\ ops[i] \in Op
    BY <2>0, AtOpTypes
  <2>2. p \in Slot /\ a \in Slot
    BY <2>1, AsideSlots
  <2>3. /\ tree' = Moved(tree, p, a)
        /\ undo' = Append(undo, Rename(a, p))
        /\ asides' = Append(asides, a)
        /\ hist' = Append(hist, tree')
    BY <1>8 DEF MoveAside
  <2>4. (NextOp \/ GoTo("land", i)) /\ UNCHANGED <<journal, ops, failed, answer, budget>>
    BY <1>8 DEF MoveAside
  <2> HIDE DEF p, a
  <2>5. tree' \in Trees
    BY <1>t, <2>2, <2>3, CallTypes
  <2>6. Rename(a, p) \in UndoStep
    BY <2>1, <2>2 DEF UndoStep
  <2>7. undo' \in Seq(UndoStep) /\ Len(undo') = Len(undo) + 1
    BY <2>3, <2>6, Longer DEF TypeOK
  <2>8. hist' \in Seq(Trees) /\ Len(hist') = Len(hist) + 1
    BY <2>3, <2>5, Longer DEF TypeOK, Trees
  <2>9. asides' \in Seq(Aside)
    BY <2>1, <2>3, Longer DEF TypeOK
  <2>10. /\ pc' \in {"certify", "exec", "land"} /\ i' \in Nat
         /\ pc' \in {"exec", "land"} => i' \in DOMAIN ops
    BY <2>0, <2>4, NextOpTypes DEF GoTo, TypeOK
  <2> QED BY <2>0, <2>4, <2>5, <2>7, <2>8, <2>9, <2>10 DEF budget, TypeOK, Trees
<1>9. CASE Land
  <2>0. AtLanding /\ pc \in {"exec", "land"}
    BY <1>9 DEF Land, AtLanding, AtOp
  <2>1. tree' \in Trees
    BY <1>9, <1>t, <2>0, AtOpTypes, RanNear DEF Land, Near
  <2>2. /\ undo' \in Seq(UndoStep) /\ hist' \in Seq(Trees)
        /\ Len(hist') = Len(undo') + 1
    BY <1>9, <2>0, <2>1, NotedTypes DEF Land
  <2>3. NextOp /\ UNCHANGED <<journal, ops, asides, failed, answer, budget>>
    BY <1>9 DEF Land
  <2>4. /\ pc' \in {"certify", "exec"} /\ i' \in Nat
        /\ pc' = "exec" => i' \in DOMAIN ops
    BY <2>0, <2>3, NextOpTypes
  <2> QED BY <2>0, <2>1, <2>2, <2>3, <2>4 DEF budget, TypeOK, Trees
<1>10. CASE LandRename
  <2>0. AtLanding /\ pc \in {"exec", "land"}
    BY <1>10 DEF LandRename, AtLanding, AtOp
  <2>1. tree' \in Trees
    BY <1>10, <1>t, <2>0, AtOpTypes, RanNear DEF LandRename, Near
  <2>2. ASSUME Moves(ops[i])
        PROVE  /\ undo' \in Seq(UndoStep) /\ hist' \in Seq(Trees)
               /\ Len(hist') = Len(undo') + 1
    <3>1. Rename(ops[i].other, ops[i].path) \in UndoStep
      <4>1. ops[i].act = "Rename" /\ ops[i] \in Op
        BY <1>10, <2>0, AtOpTypes DEF LandRename
      <4>2. ops[i].path \in Path /\ ops[i].other \in Slot
        BY <4>1, OpFields, AsideSlots
      <4> QED BY <4>2 DEF UndoStep
    <3>2. /\ undo' = Append(undo, Rename(ops[i].other, ops[i].path))
          /\ hist' = Append(hist, tree')
      BY <1>10, <2>2 DEF LandRename
    <3>3. undo' \in Seq(UndoStep) /\ Len(undo') = Len(undo) + 1
      BY <3>1, <3>2, Longer DEF TypeOK
    <3>4. hist' \in Seq(Trees) /\ Len(hist') = Len(hist) + 1
      BY <2>1, <3>2, Longer DEF TypeOK, Trees
    <3> QED BY <3>3, <3>4 DEF TypeOK
  <2>3. ~Moves(ops[i]) => undo' = undo /\ hist' = hist
    BY <1>10 DEF LandRename
  <2>4. /\ undo' \in Seq(UndoStep) /\ hist' \in Seq(Trees)
        /\ Len(hist') = Len(undo') + 1
    BY <2>2, <2>3 DEF TypeOK, Trees
  <2>5. NextOp /\ UNCHANGED <<journal, ops, asides, failed, answer, budget>>
    BY <1>10 DEF LandRename
  <2>6. /\ pc' \in {"certify", "exec"} /\ i' \in Nat
        /\ pc' = "exec" => i' \in DOMAIN ops
    BY <2>0, <2>5, NextOpTypes
  <2> QED BY <2>0, <2>1, <2>4, <2>5, <2>6 DEF budget, TypeOK, Trees
<1>11. CASE ExecFails
  <2>1. faults' \in 0 .. MaxFaults
    BY <1>11, FaultTypes DEF ExecFails
  <2> QED BY <1>11, <2>1, EmptySeq, LenProperties DEF ExecFails, GoTo, log, TypeOK
<1>12. CASE LandFails
  <2>0. AtLanding /\ pc \in {"exec", "land"}
    BY <1>12 DEF LandFails, AtLanding, AtOp
  <2>1. tree' \in Trees
    <3>1. tree' = tree \/ tree' \in Left(tree, ops[i])
      BY <1>12 DEF LandFails
    <3> QED BY <1>t, <2>0, <3>1, AtOpTypes, LeftNear DEF Near
  <2>2. /\ undo' \in Seq(UndoStep) /\ hist' \in Seq(Trees)
        /\ Len(hist') = Len(undo') + 1
    BY <1>12, <2>0, <2>1, NotedTypes DEF LandFails
  <2>3. faults' \in 0 .. MaxFaults
    BY <1>12, FaultTypes DEF LandFails
  <2>4. pc' = "unwind" /\ i' = Len(undo') /\ i' \in Nat
    BY <1>12, <2>2, LenProperties DEF LandFails, GoTo
  <2>5. UNCHANGED <<journal, ops, asides, failed, answer, begun, crashes>>
    BY <1>12 DEF LandFails
  <2> QED BY <2>0, <2>1, <2>2, <2>3, <2>4, <2>5 DEF TypeOK, Trees
<1>13. CASE Certify
  <2>1. faults' \in 0 .. MaxFaults
    BY <1>13, FaultTypes DEF Certify, TypeOK
  <2> QED BY <1>13, <2>1, LenProperties DEF Certify, GoTo, log, TypeOK
<1>14. CASE RetireAside
  <2>1. Head(asides) \in Aside /\ asides' \in Seq(Aside)
    BY <1>14, HeadTailProperties DEF RetireAside, TypeOK
  <2>2. tree' \in Trees
    BY <1>14, <1>t, <2>1, AsideSlots, CallTypes DEF RetireAside
  <2> QED BY <1>14, <2>1, <2>2 DEF RetireAside, budget, TypeOK, Trees
<1>15. CASE RetireJournal
  BY <1>15, Returned DEF RetireJournal, budget, TypeOK, Trees
<1>16. CASE RetireFails
  BY <1>16, FaultTypes, Returned DEF RetireFails, TypeOK, Trees
<1>17. CASE Unwind
  <2>1. undo[i] \in UndoStep /\ i - 1 \in Nat
    BY <1>17, ElementOfSeq DEF Unwind, TypeOK
  <2>2. tree' \in Trees
    BY <1>17, <1>t, <2>1, UndoneNearer DEF Unwind, Nearer
  <2> QED BY <1>17, <2>1, <2>2 DEF Unwind, log, budget, TypeOK, Trees
<1>18. CASE UnwindFails
  <2>1. undo[i] \in UndoStep /\ i - 1 \in Nat
    BY <1>18, ElementOfSeq DEF UnwindFails, TypeOK
  <2>2. tree' \in Trees
    <3>1. tree' = tree \/ tree' \in LeftUndone(tree, undo[i])
      BY <1>18 DEF UnwindFails
    <3> QED BY <1>t, <2>1, <3>1, LeftUndoneNearer DEF Nearer
  <2>3. faults' \in 0 .. MaxFaults
    BY <1>18, FaultTypes DEF UnwindFails
  <2> QED BY <1>18, <2>1, <2>2, <2>3 DEF UnwindFails, log, TypeOK, Trees
<1>19. CASE Unwound
  <2>1. CASE failed
    BY <1>19, <2>1, Returned DEF Unwound, budget, TypeOK, Trees
  <2>2. CASE ~failed
    BY <1>19, <2>2 DEF Unwound, GoTo, log, budget, TypeOK, Trees
  <2> QED BY <2>1, <2>2
<1>20. CASE Abort
  <2>1. CASE journal' = None /\ GoTo("abortflush", 0) /\ UNCHANGED <<log, answer, faults>>
    BY <1>20, <2>1 DEF Abort, GoTo, log, TypeOK
  <2>2. CASE Return("torn") /\ Fault /\ UNCHANGED journal
    BY <1>20, <2>2, FaultTypes, Returned DEF Abort, TypeOK, Trees
  <2> QED BY <1>20, <2>1, <2>2 DEF Abort
<1>21. CASE AbortFlush
  <2>1. faults' \in 0 .. MaxFaults
    BY <1>21, FaultTypes DEF AbortFlush, TypeOK
  <2>2. UNCHANGED <<tree, journal, ops, failed, begun, crashes>>
        /\ (Return("rolledback") \/ Return("torn"))
    BY <1>21 DEF AbortFlush
  <2> QED BY <2>1, <2>2, Returned DEF TypeOK, Trees
<1>22. CASE Recover
  <2>1. journal # Garbled => 1 \in DOMAIN ops /\ journal = ops /\ ops # <<>>
    BY <1>22, LenProperties, EmptySeq DEF Recover, TypeOK, None
  <2> QED BY <1>22, <2>1 DEF Recover, GoTo, log, budget, TypeOK
<1>23. CASE Replay
  <2>1. ops[i] \in Op /\ journal = ops /\ i \in 1 .. Len(ops)
    BY <1>23 DEF Replay, TypeOK
  <2>2. tree' \in Trees
    BY <1>23, <1>t, <2>1, ReplayedNear DEF Replay, Near
  <2>3. /\ pc' \in {"sweep", "replay"} /\ i' \in Nat /\ i' \in DOMAIN ops
    BY <1>23, <2>1 DEF Replay, GoTo, TypeOK
  <2> QED BY <1>23, <2>1, <2>2, <2>3 DEF Replay, log, budget, TypeOK, Trees
<1>24. CASE ReplayFails
  <2>1. ops[i] \in Op /\ journal = ops
    BY <1>24 DEF ReplayFails, TypeOK
  <2>2. tree' \in Trees
    <3>1. tree' = tree \/ tree' \in Left(tree, ops[i])
      BY <1>24, <2>1 DEF ReplayFails
    <3> QED BY <1>t, <2>1, <3>1, LeftNear DEF Near
  <2>3. faults' \in 0 .. MaxFaults
    BY <1>24, FaultTypes DEF ReplayFails
  <2>4. UNCHANGED <<journal, ops, failed, begun, crashes>> /\ Return("stuck")
    BY <1>24 DEF ReplayFails
  <2> QED BY <2>2, <2>3, <2>4, Returned DEF TypeOK, Trees
<1>25. CASE Sweep
  <2>1. ops[i] \in Op /\ journal = ops /\ i \in 1 .. Len(ops) /\ i \in 1 .. MaxOps
    BY <1>25, ValueAssumption DEF Sweep, TypeOK
  <2>2. AsideOf(Displaced(ops[i]), i) \in Slot
    BY <2>1, OpFields, AsideSlots
  <2>3. tree' \in Trees
    BY <1>25, <1>t, <2>1, <2>2, CallTypes DEF Sweep
  <2>4. /\ pc' \in {"sweep", "settle"} /\ i' \in Nat
        /\ pc' = "sweep" => i' \in DOMAIN ops
    BY <1>25, <2>1 DEF Sweep, GoTo, TypeOK
  <2> QED BY <1>25, <2>1, <2>3, <2>4 DEF Sweep, log, budget, TypeOK, Trees
<1>26. CASE SettleRecovery
  BY <1>26, Returned DEF SettleRecovery, budget, TypeOK, Trees
<1>27. CASE RecoveryFails
  BY <1>27, FaultTypes, Returned DEF RecoveryFails, TypeOK, Trees
<1>28. CASE Crash
  <2>1. tree' \in Trees
    BY <1>28, TypedInCall, InFlightNearer DEF Crash, Nearer
  <2>2. journal' \in {journal, Garbled} /\ Return("crashed")
    BY <1>28 DEF Crash
  <2>3. UNCHANGED <<ops, failed, begun, faults>> /\ crashes' \in 0 .. MaxCrashes
    BY <1>28, BoundAssumption DEF Crash, TypeOK
  <2> QED BY <2>1, <2>2, <2>3, Returned DEF TypeOK, Trees
<1>29. CASE UNCHANGED vars
  BY <1>29 DEF vars, TypeOK
<1> QED
  BY <1>1, <1>2, <1>3, <1>4, <1>5, <1>6, <1>7, <1>8, <1>9, <1>10, <1>11, <1>12,
     <1>13, <1>14, <1>15, <1>16, <1>17, <1>18, <1>19, <1>20, <1>21, <1>22,
     <1>23, <1>24, <1>25, <1>26, <1>27, <1>28, <1>29
  DEF Next, Call, Proceed

\* Type correctness: every variable of apply and recover holds what it may.
THEOREM TypeCorrect == Spec => []TypeOK
BY TypeInit, TypeStep, PTL DEF Spec

\* An intent on disk is finished before another takes its place: a journal that
\* stands is replaced by none, and only ever taken away.
THEOREM IntentNeverReplaced == Spec => IntentKept
<1>1. TypeOK /\ [Next]_vars => [journal # None => journal' \in {None, journal}]_vars
  <2> SUFFICES ASSUME TypeOK, [Next]_vars, journal # None
               PROVE  journal' \in {None, journal}
    OBVIOUS
  <2>1. CASE Commit \/ CommitFails
    BY <2>1 DEF Commit, CommitFails, TypeOK
  <2>2. CASE RetireJournal \/ Abort \/ SettleRecovery
    BY <2>2 DEF RetireJournal, Abort, SettleRecovery
  <2>3. CASE Crash
    BY <2>3 DEF Crash, TypeOK
  <2>4. CASE Call \/ Recover \/ UNCHANGED vars
    BY <2>4 DEF Call, Apply, ApplyRefused, Recover, vars
  <2>5. CASE RunLone \/ LoneFails \/ CertifyLone
    BY <2>5 DEF RunLone, LoneFails, CertifyLone
  <2>6. CASE MoveAside \/ Land \/ LandRename \/ ExecFails \/ LandFails
    BY <2>6 DEF MoveAside, Land, LandRename, ExecFails, LandFails
  <2>7. CASE Certify \/ RetireAside \/ RetireFails
    BY <2>7 DEF Certify, RetireAside, RetireFails
  <2>8. CASE Unwind \/ UnwindFails \/ Unwound \/ AbortFlush
    BY <2>8 DEF Unwind, UnwindFails, Unwound, AbortFlush
  <2>9. CASE Replay \/ ReplayFails \/ Sweep \/ RecoveryFails
    BY <2>9 DEF Replay, ReplayFails, Sweep, RecoveryFails
  <2> QED
    BY <2>1, <2>2, <2>3, <2>4, <2>5, <2>6, <2>7, <2>8, <2>9 DEF Next, Proceed
<1> QED BY <1>1, TypeCorrect, PTL DEF Spec, IntentKept

\* No document changes but under the journal of the whole set, save by a lone
\* op: the commit point precedes every change and the journal outlives them.
THEOREM ChangesAreJournaled == Spec => JournalCovers
<1>1. TypeOK /\ [Next]_vars => [Docs(tree') # Docs(tree) => journal = ops \/ pc = "lone"]_vars
  <2> SUFFICES ASSUME TypeOK, [Next]_vars, tree' # tree
               PROVE  journal = ops \/ pc = "lone"
    OBVIOUS
  <2>1. pc \notin {"idle", "lone", "lonecertify", "commit", "abortflush"} => journal = ops
    BY DEF TypeOK
  <2>2. CASE RunLone \/ LoneFails
    BY <2>2 DEF RunLone, LoneFails
  <2>3. CASE MoveAside \/ Land \/ LandRename \/ LandFails
    BY <2>1, <2>3 DEF MoveAside, Land, LandRename, LandFails, AtLanding, AtOp
  <2>4. CASE RetireAside \/ Unwind \/ UnwindFails \/ Replay \/ ReplayFails \/ Sweep
    BY <2>1, <2>4 DEF RetireAside, Unwind, UnwindFails, Replay, ReplayFails, Sweep
  <2>5. CASE Crash
    <3>1. pc \notin {"idle", "lonecertify", "commit", "abortflush"}
      BY <2>5 DEF Crash, InFlight, AtLanding, AtOp
    <3> QED BY <2>1, <3>1
  <2>6. ~(Call \/ Recover \/ CertifyLone \/ Commit \/ CommitFails \/ ExecFails)
    BY DEF Call, Apply, ApplyRefused, Recover, CertifyLone, Commit, CommitFails, ExecFails
  <2>7. ~(Certify \/ RetireJournal \/ RetireFails \/ Unwound \/ Abort \/ AbortFlush)
    BY DEF Certify, RetireJournal, RetireFails, Unwound, Abort, AbortFlush
  <2>8. ~(SettleRecovery \/ RecoveryFails \/ UNCHANGED vars)
    BY DEF SettleRecovery, RecoveryFails, vars
  <2> QED
    BY <2>2, <2>3, <2>4, <2>5, <2>6, <2>7, <2>8 DEF Next, Proceed
<1> QED BY <1>1, TypeCorrect, PTL DEF Spec, JournalCovers

\* A journal cut short is not the journal of any set.
LEMMA GarbledApart ==
  ASSUME NEW set \in Seq(Op)
  PROVE  set # Garbled
<1>1. Len(set) = 1 => set[1] \in Op
  OBVIOUS
<1>2. Len(Garbled) = 1 /\ Garbled[1].act = "Garbled"
  BY DEF Garbled
<1>3. set = Garbled => set[1] \in Op /\ set[1].act = "Garbled"
  BY <1>1, <1>2
<1> QED BY <1>3, OpFields

\* A journal cut short stands for no change, however often a caller tries to
\* recover or to apply over it.  What makes it so begins before there is such a
\* file: nothing touches the tree ahead of the commit point.
NothingYet == pc = "commit" \/ journal = Garbled => tree = Before

THEOREM CutShortIsUntouched == Spec => []CutShortMeansUntouched
<1>1. Init => NothingYet
  <2>1. Garbled # None
    BY EmptySeq DEF Garbled, None
  <2> QED BY <2>1 DEF Init, NothingYet
<1>2. TypeOK /\ NothingYet /\ [Next]_vars => NothingYet'
  <2> SUFFICES ASSUME TypeOK, NothingYet, [Next]_vars
               PROVE  NothingYet'
    OBVIOUS
  <2>g. ops # Garbled /\ None # Garbled
    BY GarbledApart, EmptySeq DEF TypeOK, Garbled, None
  <2>j. /\ pc \notin {"idle", "lone", "lonecertify", "commit", "abortflush"} => journal = ops
        /\ pc \in {"lone", "lonecertify", "commit", "abortflush"} => journal = None
    BY DEF TypeOK
  <2>r. ASSUME NEW a, Return(a)
        PROVE  pc' = "idle" /\ Before' = Before
    BY <2>r DEF Return, Before
  <2>1. CASE Apply
    BY <2>1, <2>g DEF Apply, Refused, NothingYet, Before
  <2>2. CASE ApplyRefused \/ Recover \/ UNCHANGED vars
    BY <2>2, <2>g DEF ApplyRefused, Recover, GoTo, NothingYet, Before, log, vars
  <2>3. CASE RunLone \/ Commit
    BY <2>3, <2>g, <2>j DEF RunLone, Commit, NothingYet
  <2>4. CASE LoneFails \/ CertifyLone \/ RetireJournal \/ RetireFails
    BY <2>4, <2>g, <2>j, <2>r
    DEF LoneFails, CertifyLone, RetireJournal, RetireFails, NothingYet
  <2>5. CASE CommitFails \/ (Crash /\ pc = "commit")
    <3>1. tree' = tree /\ Before' = Before
      BY <2>5, <2>r DEF CommitFails, Crash, InFlight, AtLanding, AtOp
    <3> QED BY <2>5, <3>1 DEF CommitFails, NothingYet
  <2>6. CASE Crash /\ pc # "commit"
    BY <2>6, <2>g, <2>j, <2>r DEF Crash, NothingYet
  <2>7. CASE MoveAside \/ Land \/ LandRename \/ ExecFails \/ LandFails
    BY <2>7, <2>g, <2>j
    DEF MoveAside, Land, LandRename, ExecFails, LandFails, AtLanding, AtOp, NextOp, GoTo, NothingYet
  <2>8. CASE Certify \/ RetireAside \/ Unwind \/ UnwindFails
    BY <2>8, <2>g, <2>j DEF Certify, RetireAside, Unwind, UnwindFails, GoTo, NothingYet
  <2>9. CASE Unwound \/ Abort \/ AbortFlush
    BY <2>9, <2>g, <2>j, <2>r DEF Unwound, Abort, AbortFlush, GoTo, NothingYet
  <2>10. CASE Replay \/ Sweep
    BY <2>10, <2>g, <2>j DEF Replay, Sweep, GoTo, NothingYet
  <2>11. CASE ReplayFails \/ SettleRecovery \/ RecoveryFails
    BY <2>11, <2>g, <2>j, <2>r DEF ReplayFails, SettleRecovery, RecoveryFails, NothingYet
  <2>12. CASE Crash
    BY <2>5, <2>6, <2>12
  <2> QED
    BY <2>1, <2>2, <2>3, <2>4, <2>5, <2>7, <2>8, <2>9, <2>10, <2>11, <2>12
    DEF Next, Call, Proceed
<1> QED BY <1>1, <1>2, TypeCorrect, PTL DEF Spec, NothingYet, CutShortMeansUntouched

-----------------------------------------------------------------------------
(* Nothing a set moves aside outlives its journal, on any backend and        *)
(* whatever fails.                                                           *)

\* An aside is told by its path and its op.
LEMMA AsidePairs ==
  /\ \A a \in Aside : a = <<a[1], a[2]>> /\ a[1] \in Path /\ a[2] \in 1 .. MaxOps
  /\ \A x \in Path, k \in 1 .. MaxOps : AsideOf(x, k)[1] = x /\ AsideOf(x, k)[2] = k
BY DEF Aside, AsideOf

\* What is said of each aside in use.
Accounted(a) ==
  /\ a[2] \in DOMAIN journal
  /\ journal[a[2]].act \in {"Remove", "Rename", "SetLink"}
  /\ a[1] = Displaced(journal[a[2]])
  /\ pc = "exec" => a[2] < i
  /\ pc = "land" => a[2] <= i
  /\ pc = "sweep" => a[2] >= i
  /\ pc \in {"exec", "land", "certify", "retire"} => \E k \in DOMAIN asides : asides[k] = a
  /\ pc \in {"exec", "land", "certify"} \/ (pc = "unwind" /\ ~failed) =>
       \E k \in DOMAIN undo :
         /\ undo[k].act = "Rename" /\ undo[k].path = a
         /\ pc = "unwind" => k <= i

Empty == pc \in {"lone", "lonecertify", "commit", "abort", "abortflush", "settle"}

LEMMA AccountedParts ==
  /\ AsidesAccounted <=> /\ Empty => Occupied = {}
                         /\ \A a \in Occupied : Accounted(a)
  /\ AsidesAccounted' <=> /\ Empty' => Occupied' = {}
                          /\ \A a \in Occupied' : Accounted(a)'
BY DEF AsidesAccounted, Accounted, Empty

LEMMA AsidesInit == Init => AsidesAccounted
BY InitAssumption DEF Init, AsidesAccounted, Occupied

\* A call that puts nothing in an aside leaves no more of them in use.
LEMMA OccupiedShrinks ==
  ASSUME Nearer(tree, tree')
  PROVE  Occupied' \subseteq Occupied
BY DEF Nearer, Occupied

\* A call that ends with the journal in place leaves the sweep its asides.
LEMMA ReturnAccounted ==
  ASSUME AsidesAccounted, NEW x, Return(x), Occupied' \subseteq Occupied, journal' = journal
  PROVE  AsidesAccounted'
<1>1. pc' = "idle"
  BY DEF Return
<1>2. \A a \in Occupied' : Accounted(a)'
  BY <1>1, AccountedParts DEF Accounted
<1> QED BY <1>1, <1>2, AccountedParts DEF Empty

\* Undo steps recorded stay recorded, and those of asides keep their place.
Kept(old, new) ==
  \A k \in DOMAIN old : k \in DOMAIN new /\ new[k] = old[k]

LEMMA GrownKept ==
  ASSUME NEW S, NEW s \in Seq(S), NEW e \in S
  PROVE  /\ Kept(s, s) /\ Kept(s, Append(s, e))
         /\ Len(s) + 1 \in DOMAIN Append(s, e) /\ Append(s, e)[Len(s) + 1] = e
<1>1. DOMAIN s = 1 .. Len(s) /\ Len(s) \in Nat /\ DOMAIN Append(s, e) = 1 .. Len(s) + 1
  BY Longer, LenProperties
<1>2. \A k \in DOMAIN s : k \in DOMAIN Append(s, e) /\ Append(s, e)[k] = s[k]
  BY <1>1, Longer
<1> QED BY <1>1, <1>2, Longer DEF Kept

LEMMA RecordedKept ==
  ASSUME InCall, AtLanding
  PROVE  Kept(undo, undo \o Recorded(tree, ops[i]))
<1>1. pc \in {"exec", "land"} /\ (pc = "land" \/ ~Barred(tree, ops[i]))
  BY DEF AtLanding, AtOp
<1>2. undo \in Seq(UndoStep)
  BY DEF InCall
<1>3. CASE Recorded(tree, ops[i]) = <<>>
  BY <1>2, <1>3, ConcatEmptySeq DEF Kept
<1>4. CASE \E u \in UndoStep : Recorded(tree, ops[i]) = <<u>>
  <2>1. PICK u \in UndoStep : Recorded(tree, ops[i]) = <<u>>
    BY <1>4
  <2>2. undo \o Recorded(tree, ops[i]) = Append(undo, u)
    BY <1>2, <2>1, Longer
  <2> QED BY <1>2, <2>2, GrownKept
<1> QED BY <1>1, <1>3, <1>4, AtOpInCall, RecordedTypes

\* From op to op: the asides in use stay accounted for by lists that grow.
LEMMA ForwardAccounted ==
  ASSUME InCall, AsidesAccounted, pc \in {"exec", "land"},
         Occupied' \subseteq Occupied,
         journal' = journal, ops' = ops,
         Kept(asides, asides'), Kept(undo, undo'),
         undo' \in Seq(UndoStep),
         \/ NextOp
         \/ pc' = "unwind" /\ i' = Len(undo')
  PROVE  AsidesAccounted'
<1>1. \A a \in Occupied' : Accounted(a)'
  <2> SUFFICES ASSUME NEW a \in Occupied' PROVE Accounted(a)'
    OBVIOUS
  <2>1. a \in Occupied /\ Accounted(a) /\ a[2] \in Nat
    BY AccountedParts, AsidePairs DEF Occupied
  <2>2. /\ pc' \in {"exec", "certify", "unwind"}
        /\ pc' = "exec" => i' = i + 1 /\ i \in Nat
        /\ pc' = "unwind" => i' = Len(undo')
    BY DEF NextOp, GoTo, InCall
  <2>3. \E k \in DOMAIN asides' : asides'[k] = a
    BY <2>1 DEF Accounted, Kept
  <2>4. \E k \in DOMAIN undo' : undo'[k].act = "Rename" /\ undo'[k].path = a
    BY <2>1 DEF Accounted, Kept
  <2>5. \A k \in DOMAIN undo' : k <= Len(undo')
    BY LenProperties
  <2>6. pc' = "exec" => a[2] < i'
    BY <2>1, <2>2 DEF Accounted
  <2> QED BY <2>1, <2>2, <2>3, <2>4, <2>5, <2>6 DEF Accounted
<1>2. ~Empty'
  BY DEF NextOp, GoTo, Empty
<1> QED BY <1>1, <1>2, AccountedParts

\* Every call keeps the asides accounted for.
LEMMA AsidesStep == InCall /\ InCall' /\ AsidesAccounted /\ [Next]_vars => AsidesAccounted'
<1> SUFFICES ASSUME InCall, InCall', AsidesAccounted, [Next]_vars
             PROVE  AsidesAccounted'
  OBVIOUS
<1>t. tree \in Trees /\ tree' \in Trees
  BY DEF InCall
<1>o. tree' = tree => Occupied' = Occupied
  BY DEF Occupied
<1>n. Near(tree, tree') => Occupied' \subseteq Occupied
  BY OccupiedShrinks, NearIsNearer
<1>1. CASE Apply
  <2>1. journal = None /\ tree' = tree
    BY <1>1 DEF Apply, Refused
  <2>2. Occupied' = {}
    BY <1>o, <2>1, AccountedParts DEF Accounted, None
  <2> QED BY <2>2, AccountedParts
<1>2. CASE ApplyRefused
  BY <1>2, <1>o DEF ApplyRefused, log, AsidesAccounted
<1>3. CASE RunLone
  <2>1. Near(tree, tree')
    BY <1>3, <1>t, RanNear DEF RunLone, InCall
  <2>2. Occupied' = {}
    BY <1>3, <1>n, <2>1, AccountedParts DEF RunLone, Empty
  <2> QED BY <2>2, AccountedParts
<1>4. CASE LoneFails
  <2>1. tree' = tree \/ tree' \in Left(tree, ops[1])
    BY <1>4 DEF LoneFails
  <2>2. Occupied' \subseteq Occupied
    <3>1. ops[1] \in Op
      BY <1>4, EmptySeq, ElementOfSeq DEF LoneFails, InCall
    <3> QED BY <1>t, <1>o, <1>n, <2>1, <3>1, LeftNear
  <2>3. Occupied' = {}
    BY <1>4, <2>2, AccountedParts DEF LoneFails, Empty
  <2> QED BY <2>3, AccountedParts
<1>5. CASE CertifyLone
  <2>1. Occupied' = {}
    BY <1>5, <1>o, AccountedParts DEF CertifyLone, Empty
  <2> QED BY <2>1, AccountedParts
<1>6. CASE Commit
  <2>1. Occupied' = {}
    BY <1>6, <1>o, AccountedParts DEF Commit, Empty
  <2> QED BY <2>1, AccountedParts
<1>7. CASE CommitFails
  <2>1. Occupied' = {}
    BY <1>7, <1>o, AccountedParts DEF CommitFails, Empty
  <2> QED BY <2>1, AccountedParts
<1>8. CASE MoveAside
  <2>p. PICK p : p = Displaced(ops[i])
    OBVIOUS
  <2>a. PICK new : new = AsideOf(p, i)
    OBVIOUS
  <2>0. pc = "exec" /\ MovesAside(tree, ops[i])
    BY <1>8 DEF MoveAside, AtOp
  <2>1. p \in Path /\ new \in Aside /\ ops[i] \in Op /\ i \in 1 .. MaxOps
    BY <2>p, <2>a, <2>0, AtOpInCall
  <2>2. /\ tree' = Moved(tree, p, new)
        /\ undo' = Append(undo, Rename(new, p))
        /\ asides' = Append(asides, new)
        /\ UNCHANGED <<journal, ops, failed>>
        /\ NextOp \/ GoTo("land", i)
    BY <1>8, <2>p, <2>a DEF MoveAside
  <2>3. new[1] = p /\ new[2] = i
    BY <2>a, <2>1, AsidePairs
  <2>4. ops[i].act \in {"Remove", "Rename", "SetLink"}
    BY <2>0 DEF MovesAside, Moves
  <2>5. Occupied' \subseteq Occupied \cup {new}
    <3>1. p \in Slot /\ new \in Slot /\ p \notin Aside
      BY <2>1, AsideSlots
    <3>2. \A a \in Aside : a # new => tree'[a] = tree[a]
      BY <1>t, <2>2, <3>1, AsideSlots DEF Moved, Trees
    <3> QED BY <3>2 DEF Occupied
  <2>6. /\ pc' \in {"exec", "land", "certify"}
        /\ pc' = "exec" => i' = i + 1
        /\ pc' = "land" => i' = i
        /\ journal = ops /\ i \in DOMAIN ops
    BY <2>0, <2>2 DEF NextOp, GoTo, InCall
  <2>7. /\ Kept(undo, undo') /\ Kept(asides, asides')
        /\ \E k \in DOMAIN undo' : undo'[k] = Rename(new, p)
        /\ \E k \in DOMAIN asides' : asides'[k] = new
    <3>1. Rename(new, p) \in UndoStep
      BY <2>1, AsideSlots DEF UndoStep
    <3>2. undo \in Seq(UndoStep) /\ asides \in Seq(Aside)
      BY DEF InCall
    <3>3. Kept(undo, undo') /\ Len(undo) + 1 \in DOMAIN undo'
          /\ undo'[Len(undo) + 1] = Rename(new, p)
      BY <2>2, <3>1, <3>2, GrownKept
    <3>4. Kept(asides, asides') /\ Len(asides) + 1 \in DOMAIN asides'
          /\ asides'[Len(asides) + 1] = new
      BY <2>1, <2>2, <3>2, GrownKept
    <3> QED BY <3>3, <3>4
  <2>8. Accounted(new)'
    <3>1. Rename(new, p).act = "Rename" /\ Rename(new, p).path = new
      BY DEF Rename
    <3>2. \E k \in DOMAIN undo' : undo'[k].act = "Rename" /\ undo'[k].path = new
      BY <2>7, <3>1
    <3>3. new[1] = Displaced(ops[i])
      BY <2>p, <2>3
    <3>4. i < i + 1 /\ i <= i
      BY <2>1
    <3> QED BY <2>2, <2>3, <2>4, <2>6, <2>7, <3>2, <3>3, <3>4 DEF Accounted
  <2>9. ASSUME NEW a \in Occupied PROVE Accounted(a)'
    <3>1. Accounted(a) /\ a[2] \in Nat
      BY AccountedParts, AsidePairs DEF Occupied
    <3>2. \E k \in DOMAIN undo' : undo'[k].act = "Rename" /\ undo'[k].path = a
      BY <2>0, <2>7, <3>1 DEF Accounted, Kept
    <3>3. \E k \in DOMAIN asides' : asides'[k] = a
      BY <2>0, <2>7, <3>1 DEF Accounted, Kept
    <3>4. a[2] < i + 1 /\ a[2] <= i
      BY <2>0, <2>1, <3>1 DEF Accounted
    <3> QED BY <2>2, <2>6, <3>1, <3>2, <3>3, <3>4 DEF Accounted
  <2>10. \A a \in Occupied' : Accounted(a)'
    BY <2>5, <2>8, <2>9
  <2>11. ~Empty'
    BY <2>6 DEF Empty
  <2> QED BY <2>10, <2>11, AccountedParts
<1>9. CASE Land
  <2>0. AtLanding /\ pc \in {"exec", "land"}
    BY <1>9 DEF Land, AtLanding, AtOp
  <2>1. Near(tree, tree')
    BY <1>9, <1>t, <2>0, AtOpInCall, RanNear DEF Land
  <2>2. Kept(undo, undo') /\ Kept(asides, asides') /\ undo' \in Seq(UndoStep)
    BY <1>9, <2>0, RecordedKept DEF Land, Kept, InCall
  <2>3. NextOp /\ UNCHANGED <<journal, ops>>
    BY <1>9 DEF Land
  <2> QED BY <1>n, <2>0, <2>1, <2>2, <2>3, ForwardAccounted
<1>10. CASE LandRename
  <2>0. AtLanding /\ pc \in {"exec", "land"}
    BY <1>10 DEF LandRename, AtLanding, AtOp
  <2>1. Near(tree, tree')
    BY <1>10, <1>t, <2>0, AtOpInCall, RanNear DEF LandRename
  <2>2. Kept(undo, undo') /\ Kept(asides, asides') /\ undo' \in Seq(UndoStep)
    <3>1. undo' \in Seq(UndoStep) /\ undo \in Seq(UndoStep) /\ asides' = asides
      BY <1>10 DEF LandRename, InCall
    <3>2. undo' = undo \/ undo' = Append(undo, Rename(ops[i].other, ops[i].path))
      BY <1>10 DEF LandRename
    <3>3. Rename(ops[i].other, ops[i].path) \in UndoStep
      <4>1. ops[i].act = "Rename" /\ ops[i] \in Op
        BY <1>10, <2>0, AtOpInCall DEF LandRename
      <4>2. ops[i].path \in Path /\ ops[i].other \in Slot
        BY <4>1, OpFields, AsideSlots
      <4> QED BY <4>2 DEF UndoStep
    <3>4. Kept(undo, undo')
      BY <3>1, <3>2, <3>3, GrownKept DEF Kept
    <3> QED BY <3>1, <3>4 DEF Kept
  <2>3. NextOp /\ UNCHANGED <<journal, ops>>
    BY <1>10 DEF LandRename
  <2> QED BY <1>n, <2>0, <2>1, <2>2, <2>3, ForwardAccounted
<1>11. CASE ExecFails
  <2>1. /\ pc = "exec" /\ UNCHANGED <<tree, journal, ops, undo, asides>>
        /\ pc' = "unwind" /\ i' = Len(undo')
    BY <1>11 DEF ExecFails, GoTo, log
  <2>2. Kept(undo, undo') /\ Kept(asides, asides') /\ undo' \in Seq(UndoStep)
    BY <2>1 DEF Kept, InCall
  <2> QED BY <1>o, <2>1, <2>2, ForwardAccounted
<1>12. CASE LandFails
  <2>0. AtLanding /\ pc \in {"exec", "land"}
    BY <1>12 DEF LandFails, AtLanding, AtOp
  <2>1. Occupied' \subseteq Occupied
    <3>1. tree' = tree \/ tree' \in Left(tree, ops[i])
      BY <1>12 DEF LandFails
    <3> QED BY <1>t, <1>o, <1>n, <2>0, <3>1, AtOpInCall, LeftNear
  <2>2. Kept(undo, undo') /\ Kept(asides, asides') /\ undo' \in Seq(UndoStep)
    BY <1>12, <2>0, RecordedKept DEF LandFails, Kept, InCall
  <2>3. pc' = "unwind" /\ i' = Len(undo') /\ UNCHANGED <<journal, ops>>
    BY <1>12 DEF LandFails, GoTo
  <2> QED BY <2>0, <2>1, <2>2, <2>3, ForwardAccounted
<1>13. CASE Certify
  <2>1. /\ pc = "certify" /\ UNCHANGED <<tree, journal, ops, undo, asides>>
        /\ pc' = "retire" \/ (pc' = "unwind" /\ i' = Len(undo'))
    BY <1>13 DEF Certify, GoTo, log
  <2>2. \A k \in DOMAIN undo' : k <= Len(undo')
    <3>1. undo' \in Seq(UndoStep)
      BY DEF InCall
    <3> QED BY <3>1, LenProperties
  <2>3. \A a \in Occupied' : Accounted(a)'
    BY <1>o, <2>1, <2>2, AccountedParts DEF Accounted
  <2> QED BY <2>1, <2>3, AccountedParts DEF Empty
<1>14. CASE RetireAside
  <2>1. /\ pc = "retire" /\ pc' = pc /\ asides # <<>> /\ asides' = Tail(asides)
        /\ tree' = Removed(tree, Head(asides))
        /\ UNCHANGED <<journal, ops>>
    BY <1>14 DEF RetireAside
  <2>2. /\ Head(asides) \in Slot /\ Head(asides) = asides[1]
        /\ Len(asides) \in Nat /\ DOMAIN asides = 1 .. Len(asides)
        /\ DOMAIN asides' = 1 .. Len(asides) - 1
        /\ \A k \in DOMAIN asides' : asides'[k] = asides[k + 1]
    <3>1. asides \in Seq(Aside)
      BY DEF InCall
    <3>2. Head(asides) \in Aside /\ Head(asides) = asides[1]
      BY <2>1, <3>1, HeadTailProperties
    <3>3. /\ Tail(asides) \in Seq(Aside) /\ Len(Tail(asides)) = Len(asides) - 1
          /\ \A k \in 1 .. Len(Tail(asides)) : Tail(asides)[k] = asides[k + 1]
      BY <2>1, <3>1, HeadTailProperties
    <3> QED BY <2>1, <3>1, <3>2, <3>3, LenProperties, AsideSlots
  <2>3. Occupied' \subseteq Occupied \ {asides[1]}
    BY <1>t, <2>1, <2>2 DEF Removed, Trees, Occupied, Absent, Slot
  <2>4. ASSUME NEW a \in Occupied' PROVE Accounted(a)'
    <3>1. Accounted(a) /\ a # asides[1]
      BY <2>3, AccountedParts
    <3>2. PICK k \in DOMAIN asides : asides[k] = a
      BY <2>1, <3>1 DEF Accounted
    <3>3. k - 1 \in DOMAIN asides' /\ asides'[k - 1] = a
      BY <2>2, <3>1, <3>2
    <3> QED BY <2>1, <3>1, <3>3 DEF Accounted
  <2> QED BY <2>1, <2>4, AccountedParts DEF Empty
<1>15. CASE RetireJournal
  <2>1. DOMAIN asides = {} /\ pc = "retire" /\ tree' = tree
    BY <1>15 DEF RetireJournal
  <2>2. Occupied' = {}
    BY <1>o, <2>1, AccountedParts DEF Accounted
  <2> QED BY <2>2, AccountedParts
<1>16. CASE RetireFails
  <2>1. Return("torn") /\ pc = "retire" /\ UNCHANGED <<tree, journal, ops>>
    BY <1>16 DEF RetireFails
  <2> QED BY <1>o, <2>1, ReturnAccounted
<1>17. CASE Unwind
  <2>1. /\ pc = "unwind" /\ pc' = "unwind" /\ i > 0 /\ i' = i - 1 /\ i \in DOMAIN undo
        /\ UNCHANGED <<journal, ops, failed, undo>>
        /\ tree' = Undone(tree, undo[i]) /\ undo[i] \in UndoStep
        /\ CanUndo(tree, undo[i])
    BY <1>17, LenProperties DEF Unwind, InCall, log
  <2>2. Occupied' \subseteq Occupied
    BY <1>t, <2>1, UndoneNearer, OccupiedShrinks
  <2>3. undo[i].act = "Rename" => undo[i].path \notin Occupied'
    <3> SUFFICES ASSUME undo[i].act = "Rename", undo[i].path \in Aside
                 PROVE  tree'[undo[i].path] = Absent
      BY DEF Occupied
    <3>1. tree' = Moved(tree, undo[i].path, undo[i].other)
      BY <2>1 DEF Undone, Ran, Lands
    <3>2. undo[i].other \in Path /\ undo[i].path \in Slot
      BY <2>1, UndoFields
    <3> QED BY <1>t, <3>1, <3>2, CallFrame
  <2>4. ASSUME NEW a \in Occupied' PROVE Accounted(a)'
    <3>1. Accounted(a)
      BY <2>2, AccountedParts
    <3>2. ASSUME ~failed
          PROVE  \E k \in DOMAIN undo : undo[k].act = "Rename" /\ undo[k].path = a /\ k <= i - 1
      <4>1. PICK k \in DOMAIN undo : undo[k].act = "Rename" /\ undo[k].path = a /\ k <= i
        BY <2>1, <3>1, <3>2 DEF Accounted
      <4>2. k # i
        BY <2>3, <4>1
      <4>3. k \in Nat /\ i \in Nat
        BY <2>1, LenProperties DEF InCall
      <4> QED BY <4>1, <4>2, <4>3
    <3> QED BY <2>1, <3>1, <3>2 DEF Accounted
  <2> QED BY <2>1, <2>4, AccountedParts DEF Empty
<1>18. CASE UnwindFails
  <2>1. /\ pc = "unwind" /\ pc' = "unwind" /\ failed' = TRUE
        /\ undo[i] \in UndoStep
        /\ UNCHANGED <<journal, ops>>
        /\ tree' = tree \/ tree' \in LeftUndone(tree, undo[i])
    BY <1>18, ElementOfSeq DEF UnwindFails, InCall
  <2>2. Occupied' \subseteq Occupied
    BY <1>t, <1>o, <2>1, LeftUndoneNearer, OccupiedShrinks
  <2>3. \A a \in Occupied' : Accounted(a)'
    BY <2>1, <2>2, AccountedParts DEF Accounted
  <2> QED BY <2>1, <2>3, AccountedParts DEF Empty
<1>19. CASE Unwound
  <2>1. pc = "unwind" /\ i = 0 /\ UNCHANGED <<tree, journal, ops, failed>>
    BY <1>19 DEF Unwound
  <2>2. CASE failed
    <3>1. Return("torn")
      BY <1>19, <2>2 DEF Unwound
    <3> QED BY <1>o, <2>1, <3>1, ReturnAccounted
  <2>3. CASE ~failed
    <3>1. \A a \in Occupied : \E k \in DOMAIN undo : k <= 0
      BY <2>1, <2>3, AccountedParts DEF Accounted
    <3>2. Occupied' = {}
      BY <1>o, <2>1, <3>1, LenProperties DEF InCall
    <3> QED BY <3>2, AccountedParts
  <2> QED BY <2>2, <2>3
<1>20. CASE Abort
  <2>1. Occupied' = {}
    BY <1>20, <1>o, AccountedParts DEF Abort, Empty
  <2> QED BY <2>1, AccountedParts
<1>21. CASE AbortFlush
  <2>1. Occupied' = {}
    BY <1>21, <1>o, AccountedParts DEF AbortFlush, Empty
  <2> QED BY <2>1, AccountedParts
<1>22. CASE Recover
  <2>1. /\ pc = "idle" /\ journal # None
        /\ UNCHANGED <<tree, journal, ops, undo, asides, failed>>
        /\ pc' = "replay" \/ pc' = pc
    BY <1>22 DEF Recover, GoTo, log
  <2>2. \A a \in Occupied' : Accounted(a)'
    BY <1>o, <2>1, AccountedParts DEF Accounted
  <2> QED BY <2>1, <2>2, AccountedParts DEF Empty
<1>23. CASE Replay
  <2>1. /\ pc = "replay" /\ UNCHANGED <<journal, ops, undo, asides, failed>>
        /\ pc' = "replay" \/ (pc' = "sweep" /\ i' = 1)
    BY <1>23 DEF Replay, GoTo, log
  <2>2. Occupied' \subseteq Occupied
    <3>1. journal[i] \in Op
      BY <2>1, ElementOfSeq, LenProperties DEF InCall
    <3> QED BY <1>23, <1>t, <1>n, <3>1, ReplayedNear DEF Replay
  <2>3. \A a \in Occupied' : a[2] >= 1
    BY AsidePairs DEF Occupied
  <2>4. \A a \in Occupied' : Accounted(a)'
    BY <2>1, <2>2, <2>3, AccountedParts DEF Accounted
  <2> QED BY <2>1, <2>4, AccountedParts DEF Empty
<1>24. CASE ReplayFails
  <2>1. /\ pc = "replay" /\ Return("stuck") /\ UNCHANGED <<journal, ops>>
        /\ tree' = tree \/ tree' \in Left(tree, journal[i])
    BY <1>24 DEF ReplayFails
  <2>2. Occupied' \subseteq Occupied
    <3>1. journal[i] \in Op
      BY <2>1, ElementOfSeq, LenProperties DEF InCall
    <3> QED BY <1>t, <1>o, <1>n, <2>1, <3>1, LeftNear
  <2> QED BY <2>1, <2>2, ReturnAccounted
<1>25. CASE Sweep
  <2> DEFINE a0 == AsideOf(Displaced(journal[i]), i)
  <2>1. /\ pc = "sweep" /\ UNCHANGED <<journal, ops, undo, asides, failed>>
        /\ journal[i] \in Op /\ i \in 1 .. Len(journal) /\ i \in 1 .. MaxOps
        /\ \/ pc' = "settle" /\ i = Len(journal)
           \/ pc' = "sweep" /\ i' = i + 1
    BY <1>25, ValueAssumption DEF Sweep, GoTo, InCall, log
  <2>2. a0 \in Slot /\ a0 \in Aside
    BY <2>1, OpFields, AsideSlots
  <2>3. Occupied' \subseteq Occupied
    <3>1. tree' = tree \/ tree' = Removed(tree, a0)
      BY <1>25, <2>1 DEF Sweep
    <3>2. \A a \in Aside : Removed(tree, a0)[a] \in {tree[a], Absent}
      BY <1>t, <2>2 DEF Removed, Trees, Slot
    <3>3. Removed(tree, a0) \in Trees
      BY <1>t, <2>2, CallTypes
    <3> QED BY <1>o, <3>1, <3>2, <3>3, OccupiedShrinks DEF Nearer
  <2>4. ASSUME NEW a \in Occupied' PROVE Accounted(a) /\ a[2] \in i + 1 .. Len(journal)
    <3>1. a \in Aside /\ Accounted(a) /\ a[2] \in Nat /\ a = <<a[1], a[2]>>
      BY <2>3, AccountedParts, AsidePairs DEF Occupied
    <3>2. a[2] \in 1 .. Len(journal) /\ a[2] >= i
      BY <2>1, <3>1, LenProperties DEF Accounted, InCall
    <3>3. ASSUME a[2] = i PROVE FALSE
      <4>1. a = a0 /\ journal[i].act \in {"Remove", "Rename", "SetLink"}
        BY <3>1, <3>3 DEF Accounted, AsideOf
      <4>2. tree' = Removed(tree, a0)
        BY <1>25, <2>1, <4>1 DEF Sweep
      <4>3. tree'[a] = Absent
        BY <1>t, <2>2, <4>1, <4>2 DEF Removed, Trees
      <4> QED BY <4>3 DEF Occupied
    <3> QED BY <2>1, <3>1, <3>2, <3>3
  <2>5. \A a \in Occupied' : Accounted(a)'
    BY <2>1, <2>4 DEF Accounted
  <2>6. pc' = "settle" => Occupied' = {}
    <3>1. ASSUME i = Len(journal) PROVE i + 1 .. Len(journal) = {}
      BY <2>1, <3>1
    <3>2. Len(journal) # i => pc' # "settle"
      BY <2>1
    <3> QED BY <2>4, <3>1, <3>2
  <2> QED BY <2>1, <2>5, <2>6, AccountedParts DEF Empty
<1>26. CASE SettleRecovery
  <2>1. Occupied' = {}
    BY <1>26, <1>o, AccountedParts DEF SettleRecovery, Empty
  <2> QED BY <2>1, AccountedParts
<1>27. CASE RecoveryFails
  <2>1. Return("stuck") /\ pc \in {"sweep", "settle"} /\ UNCHANGED <<tree, journal, ops>>
    BY <1>27 DEF RecoveryFails
  <2> QED BY <1>o, <2>1, ReturnAccounted
<1>28. CASE Crash
  <2>1. Return("crashed") /\ pc # "idle" /\ ops' = ops
    BY <1>28 DEF Crash
  <2>2. Occupied' \subseteq Occupied
    BY <1>28, <1>t, InFlightNearer, OccupiedShrinks DEF Crash
  <2>3. CASE Empty
    <3>1. Occupied' = {}
      BY <2>2, <2>3, AccountedParts
    <3> QED BY <3>1, AccountedParts
  <2>4. CASE ~Empty
    <3>1. journal' = journal
      BY <1>28, <2>1, <2>4 DEF Crash, Empty
    <3> QED BY <2>1, <2>2, <3>1, ReturnAccounted
  <2> QED BY <2>3, <2>4
<1>29. CASE UNCHANGED vars
  BY <1>29, <1>o DEF vars, AsidesAccounted
<1> QED
  BY <1>1, <1>2, <1>3, <1>4, <1>5, <1>6, <1>7, <1>8, <1>9, <1>10, <1>11, <1>12,
     <1>13, <1>14, <1>15, <1>16, <1>17, <1>18, <1>19, <1>20, <1>21, <1>22,
     <1>23, <1>24, <1>25, <1>26, <1>27, <1>28, <1>29
  DEF Next, Call, Proceed

\* Every aside in use is accounted for: by the sweep, the rollback and the
\* retirement alike.
THEOREM AsidesCorrect == Spec => []AsidesAccounted
<1>1. TypeOK' => InCall'
  BY DEF TypeOK, InCall, Trees
<1>2. TypeOK /\ TypeOK' /\ AsidesAccounted /\ [Next]_vars => AsidesAccounted'
  BY <1>1, TypedInCall, AsidesStep
<1> QED BY <1>2, TypeInit, TypeStep, AsidesInit, PTL DEF Spec

\* Once the journal is gone, so is everything the set moved aside.
THEOREM NothingOrphaned == Spec => []NoOrphanAside
<1>1. AsidesAccounted => NoOrphanAside
  BY DEF AsidesAccounted, NoOrphanAside, Occupied, None
<1> QED BY <1>1, AsidesCorrect, PTL

-----------------------------------------------------------------------------
(* On a backend that replaces atomically a rollback is exact, and nothing    *)
(* but a call that fails can stop it.                                        *)

-----------------------------------------------------------------------------
(* What each kind of undo step gives back.                                   *)

\* The captured entry comes back over whatever took its place, provided a file
\* was replaced by a file of its own mode.
LEMMA CaptureUndoes ==
  ASSUME NEW t \in Trees, NEW p \in Path, NEW e \in Entry,
         ~IsDir(t[p]), ~IsDir(e),
         IsFile(t[p]) => IsFile(e) /\ e.exec = t[p].exec
  PROVE  LET v == [t EXCEPT ![p] = e] IN
         CanUndo(v, Capture(t, p)) /\ Undone(v, Capture(t, p)) = t
<1>1. PICK v : v = [t EXCEPT ![p] = e]
  OBVIOUS
<1>2. /\ p \in Slot /\ t[p] \in Entry /\ v \in Trees /\ v[p] = e
      /\ \A x \in Entry : [v EXCEPT ![p] = x] = [t EXCEPT ![p] = x]
      /\ [t EXCEPT ![p] = t[p]] = t
  BY <1>1, AsideSlots DEF Trees
<1>3. CASE t[p] = Absent
  <2>1. Capture(t, p) = Delete(p)
    BY <1>3 DEF Capture
  <2>2. Undone(v, Delete(p)) = [v EXCEPT ![p] = Absent] /\ CanUndo(v, Delete(p))
    BY <1>2 DEF Undone, CanUndo, Delete, Removed
  <2> QED BY <1>1, <1>2, <1>3, <2>1, <2>2
<1>4. CASE IsLink(t[p]) /\ t[p] # Absent
  <2>1. Capture(t, p) = SetLink(p, t[p].target)
    BY <1>4 DEF Capture
  <2>2. t[p] = Link(t[p].target)
    BY <1>2, <1>4, EntryKinds DEF IsLink
  <2>3. Undone(v, SetLink(p, t[p].target)) = [v EXCEPT ![p] = Link(t[p].target)]
    BY DEF Undone, SetLink, Ran, Lands, Linked
  <2>4. CanUndo(v, SetLink(p, t[p].target))
    BY <1>2 DEF CanUndo, SetLink, CanRun, CanLink
  <2> QED BY <1>1, <1>2, <2>1, <2>2, <2>3, <2>4
<1>5. CASE IsFile(t[p]) /\ t[p] # Absent
  <2>1. Capture(t, p) = Restore(p, t[p].bytes)
    BY <1>5 DEF Capture, IsFile, IsLink
  <2>2. t[p] = File(t[p].bytes, t[p].exec) /\ e = File(e.bytes, t[p].exec) /\ t[p].exec \in BOOLEAN
    BY <1>2, <1>5, EntryKinds DEF IsFile
  <2>3. Referent(v, p) = p /\ ~IsLink(v[p]) /\ IsFile(v[p]) /\ v[p].exec = t[p].exec
    BY <1>2, <1>5, ReferentSlot DEF IsFile, IsLink
  <2>4. Undone(v, Restore(p, t[p].bytes)) = [v EXCEPT ![p] = File(t[p].bytes, IsFile(v[p]) /\ v[p].exec)]
    BY <2>3 DEF Undone, Restore, Written
  <2>5. (IsFile(v[p]) /\ v[p].exec) = t[p].exec
    BY <2>2, <2>3
  <2>6. CanUndo(v, Restore(p, t[p].bytes))
    BY <1>2, <2>3 DEF CanUndo, Restore, IsFile, IsDir
  <2> QED BY <1>1, <1>2, <2>1, <2>2, <2>4, <2>5, <2>6
<1> QED BY <1>2, <1>3, <1>4, <1>5, EntryKinds DEF IsFile, IsLink, IsDir, Directory

\* A flip is flipped back, whether it went through or not.
LEMMA FlipUndoes ==
  ASSUME NEW t \in Trees, NEW p \in Path, NEW x \in BOOLEAN,
         ~IsLink(t[p]), t[p] # Absent, NEW v \in {t, Flipped(t, p, x)}
  PROVE  LET u == SetExecutable(p, CarriedExec(t, p)) IN
         CanUndo(v, u) /\ Undone(v, u) = t
<1>1. p \in Slot /\ t[p] \in Entry /\ Referent(t, p) = p
  BY AsideSlots, ReferentSlot DEF Trees
<1>2. PICK c \in BOOLEAN : c = CarriedExec(t, p)
  BY DEF CarriedExec
<1>u. Undone(v, SetExecutable(p, c)) = Flipped(v, p, c)
      /\ (Exists(v, p) => CanUndo(v, SetExecutable(p, c)))
  BY DEF Undone, CanUndo, Ran, Lands, SetExecutable
<1>3. CASE IsFile(t[p])
  <2>1. t[p] = File(t[p].bytes, t[p].exec) /\ t[p].exec \in BOOLEAN /\ t[p].bytes \in Bytes \cup {Torn}
    BY <1>1, <1>3, EntryKinds DEF IsFile
  <2>2. c = t[p].exec
    BY <1>1, <1>2, <1>3, <2>1 DEF CarriedExec, IsDir, IsFile
  <2>3. PICK y \in BOOLEAN : v = [t EXCEPT ![p] = File(t[p].bytes, y)]
    BY <1>1, <1>3, <2>1 DEF Flipped, Trees
  <2>4. v \in Trees /\ v[p] = File(t[p].bytes, y) /\ File(t[p].bytes, y) \in Entry
    BY <1>1, <2>1, <2>3, EntryTypes DEF Trees
  <2>5. IsFile(v[p]) /\ v[p].bytes = t[p].bytes /\ v[p].kind = "file" /\ ~IsLink(v[p])
    BY <2>4 DEF File, IsFile, IsLink
  <2>6. Referent(v, p) = p
    BY <1>1, <2>4, <2>5, ReferentSlot
  <2>7. Flipped(v, p, c) = [v EXCEPT ![p] = File(t[p].bytes, c)]
    BY <2>5, <2>6 DEF Flipped
  <2>8. [v EXCEPT ![p] = File(t[p].bytes, c)] = t
    BY <1>1, <2>1, <2>2, <2>3 DEF Trees
  <2>9. Exists(v, p)
    BY <2>5, <2>6 DEF Exists
  <2> QED BY <1>2, <1>u, <2>7, <2>8, <2>9
<1>4. CASE ~IsFile(t[p])
  <2>1. v = t /\ Flipped(t, p, c) = t
    BY <1>1, <1>4 DEF Flipped
  <2>2. t[p].kind = "dir"
    BY <1>1, <1>4, EntryKinds DEF IsFile, IsLink, Directory
  <2>3. Exists(t, p)
    BY <1>1, <2>2 DEF Exists
  <2> QED BY <1>2, <1>u, <2>1, <2>3
<1> QED BY <1>3, <1>4

\* A move to a free name is moved back.
LEMMA MoveUndoes ==
  ASSUME NEW t \in Trees, NEW from \in Slot, NEW to \in Slot, from # to,
         t[from] # Absent, t[to] = Absent
  PROVE  LET v == Moved(t, from, to) IN
         CanUndo(v, Rename(to, from)) /\ Undone(v, Rename(to, from)) = t
<1>1. PICK v : v = Moved(t, from, to)
  OBVIOUS
<1>2. v[to] = t[from] /\ v[from] = Absent /\ v \in Trees
  BY <1>1, CallTypes DEF Moved, Trees
<1>3. CanUndo(v, Rename(to, from))
  BY <1>2 DEF CanUndo, Rename, CanRun, CanMove, IsDir, Absent
<1>4. Undone(v, Rename(to, from)) = Moved(v, to, from)
  BY DEF Undone, Rename, Ran, Lands
<1>5. Moved(v, to, from) = t
  BY <1>1 DEF Moved, Trees
<1> QED BY <1>1, <1>3, <1>4, <1>5

\* An entry moved aside comes back over the link put in its place.
LEMMA LinkUndoes ==
  ASSUME NEW w \in Trees, NEW p \in Path, NEW a \in Aside, NEW to \in Target,
         w[p] = Absent, ~IsDir(w[a]),
         CanUndo(w, Rename(a, p))
  PROVE  LET v == Linked(w, p, to) IN
         /\ CanUndo(v, Rename(a, p))
         /\ Undone(v, Rename(a, p)) = Undone(w, Rename(a, p))
<1>0. p \in Slot /\ a \in Slot /\ a # p
  BY AsideSlots
<1>1. PICK v : v = Linked(w, p, to)
  OBVIOUS
<1>2. v[a] = w[a] /\ v[p] = Link(to) /\ v \in Trees
  BY <1>0, <1>1, CallTypes DEF Linked, Trees
<1>3. w[a] # Absent
  BY DEF CanUndo, Rename, CanRun, CanMove
<1>4. CanUndo(v, Rename(a, p))
  BY <1>2, <1>3 DEF CanUndo, Rename, CanRun, CanMove, IsDir, Link
<1>5. /\ Undone(v, Rename(a, p)) = Moved(v, a, p)
      /\ Undone(w, Rename(a, p)) = Moved(w, a, p)
  BY DEF Undone, Rename, Ran, Lands
<1>6. Moved(v, a, p) = Moved(w, a, p)
  BY <1>0, <1>1, <1>2 DEF Moved, Linked, Trees
<1> QED BY <1>1, <1>4, <1>5, <1>6

-----------------------------------------------------------------------------
(* The recorded steps, growing one at a time.                                *)

LEMMA StepsGrow ==
  ASSUME NEW u \in Seq(UndoStep), NEW h \in Seq(Trees), Len(h) = Len(u) + 1,
         StepsExact(u, h),
         NEW s \in UndoStep, NEW v \in Trees,
         CanUndo(v, s), Undone(v, s) = Last(h)
  PROVE  StepsExact(Append(u, s), Append(h, v)) /\ Last(Append(h, v)) = v
<1>1. Len(u) \in Nat /\ DOMAIN u = 1 .. Len(u) /\ DOMAIN Append(u, s) = 1 .. Len(u) + 1
  BY Longer, LenProperties
<1>2. /\ \A k \in 1 .. Len(u) : Append(u, s)[k] = u[k]
      /\ Append(u, s)[Len(u) + 1] = s
      /\ \A k \in 1 .. Len(u) + 1 : Append(h, v)[k] = h[k]
      /\ Append(h, v)[Len(u) + 2] = v /\ Len(Append(h, v)) = Len(u) + 2
  BY <1>1, Longer
<1>3. ASSUME NEW k \in DOMAIN Append(u, s)
      PROVE  /\ CanUndo(Append(h, v)[k + 1], Append(u, s)[k])
             /\ Undone(Append(h, v)[k + 1], Append(u, s)[k]) = Append(h, v)[k]
  <2>1. CASE k \in 1 .. Len(u)
    <3>1. k + 1 \in 1 .. Len(u) + 1 /\ k \in 1 .. Len(u) + 1
      BY <1>1, <2>1
    <3> QED BY <1>1, <1>2, <2>1, <3>1 DEF StepsExact
  <2>2. CASE k = Len(u) + 1
    <3>1. k + 1 = Len(u) + 2 /\ k \in 1 .. Len(u) + 1
      BY <1>1, <2>2
    <3>2. Append(h, v)[k] = Last(h)
      BY <1>2, <2>2, <3>1 DEF Last
    <3> QED BY <1>2, <2>2, <3>1, <3>2
  <2> QED BY <1>1, <2>1, <2>2
<1> QED BY <1>2, <1>3 DEF StepsExact, Last

LEMMA StepsReplace ==
  ASSUME NEW u \in Seq(UndoStep), NEW h \in Seq(Trees), Len(h) = Len(u) + 1,
         StepsExact(u, h), NEW v \in Trees,
         u # <<>> => CanUndo(v, Last(u)) /\ Undone(v, Last(u)) = Undone(Last(h), Last(u))
  PROVE  LET g == [h EXCEPT ![Len(h)] = v] IN StepsExact(u, g) /\ Last(g) = v
<1>1. PICK g : g = [h EXCEPT ![Len(h)] = v]
  OBVIOUS
<1>2. Len(u) \in Nat /\ DOMAIN u = 1 .. Len(u)
  BY LenProperties
<1>3. /\ Len(g) = Len(u) + 1 /\ g[Len(u) + 1] = v
      /\ \A k \in 1 .. Len(u) : g[k] = h[k]
  BY <1>1, <1>2, ExceptSeq
<1>4. ASSUME NEW k \in DOMAIN u
      PROVE  CanUndo(g[k + 1], u[k]) /\ Undone(g[k + 1], u[k]) = g[k]
  <2>1. CASE k + 1 \in 1 .. Len(u)
    BY <1>2, <1>3, <2>1 DEF StepsExact
  <2>2. CASE k = Len(u)
    <3>1. u # <<>> /\ Last(u) = u[k] /\ g[k + 1] = v /\ Last(h) = h[k + 1] /\ g[k] = h[k]
      BY <1>2, <1>3, <2>2 DEF Last
    <3> QED BY <3>1 DEF StepsExact
  <2> QED BY <1>2, <2>1, <2>2
<1> QED BY <1>1, <1>3, <1>4 DEF StepsExact, Last

-----------------------------------------------------------------------------
(* Op by op, the history stays exact.                                        *)

\* An op on its own entry that has recorded one step before its last call.
LEMMA RecordedUndoes ==
  ASSUME AtomicReplace, NEW t \in Trees, NEW op \in Op, op.act # "Rename",
         pc = "exec", ~Barred(t, op), ~MovesAside(t, op),
         NEW v, \/ v = Ran(t, op) /\ CanRun(t, op)
                \/ v \in Left(t, op)
  PROVE  \E u \in UndoStep : /\ Recorded(t, op) = <<u>>
                             /\ CanUndo(v, u) /\ Undone(v, u) = t
<1>1. PICK p \in Path : p = op.path
  BY OpFields
<1>2. p \in Slot /\ t[p] \in Entry /\ [t EXCEPT ![p] = t[p]] = t
  BY AsideSlots DEF Trees
<1>3. CASE op.act = "SetExecutable"
  <2>1. ~IsLink(t[p]) /\ t[p] # Absent /\ op.exec \in BOOLEAN
    BY <1>1, <1>3, OpFields DEF Barred
  <2>2. v \in {t, Flipped(t, p, op.exec)}
    BY <1>1, <1>3 DEF Left, Ran, Lands
  <2>3. Recorded(t, op) = <<SetExecutable(p, CarriedExec(t, p))>>
    BY <1>1, <1>3 DEF Recorded
  <2>4. SetExecutable(p, CarriedExec(t, p)) \in UndoStep
    <3>1. CarriedExec(t, p) \in BOOLEAN
      BY DEF CarriedExec
    <3> QED BY <3>1 DEF UndoStep
  <2> QED BY <2>1, <2>2, <2>3, <2>4, FlipUndoes
<1>4. CASE op.act # "SetExecutable"
  <2>1. Recorded(t, op) = <<Capture(t, p)>>
    BY <1>1, <1>4 DEF Recorded
  <2>2. PICK u \in UndoStep : Recorded(t, op) = <<u>>
    BY <2>1, RecordedTypes
  <2>3. u = Capture(t, p)
    BY <2>1, <2>2
  <2>4. ~IsDir(t[p]) /\ op.act \in {"Write", "CopyFrom", "SetLink"}
    BY <1>1, <1>4, OpFields DEF Barred, MovesAside, Displaced
  <2>5. PICK e \in Entry : /\ v = [t EXCEPT ![p] = e] /\ ~IsDir(e)
                           /\ IsFile(t[p]) => IsFile(e) /\ e.exec = t[p].exec
    <3>1. CASE v = t
      BY <1>2, <2>4, <3>1
    <3>2. CASE v = Ran(t, op) /\ Lands(op) /\ CanRun(t, op)
      <4>1. Contents(t, op) \in Bytes \cup {Torn}
        BY <3>2, OpFields, ReadableBytes, AsideSlots DEF Contents, CanRun, Lands
      <4>2. v = [t EXCEPT ![p] = File(Contents(t, op), CarriedExec(t, p))]
        BY <1>1, <3>2 DEF Ran, Replaced
      <4>3. File(Contents(t, op), CarriedExec(t, p)) \in Entry
        BY <4>1, EntryTypes DEF CarriedExec
      <4>4. IsFile(t[p]) => t[p].exec = CarriedExec(t, p)
        <5> SUFFICES ASSUME IsFile(t[p]) PROVE t[p].exec = CarriedExec(t, p)
          OBVIOUS
        <5>1. Referent(t, p) = p
          BY <1>2, ReferentSlot DEF IsFile, IsLink
        <5>2. t[p].exec \in BOOLEAN
          BY <1>2, EntryKinds DEF IsFile
        <5> QED BY <5>1, <5>2 DEF CarriedExec, IsDir, IsFile
      <4> QED BY <4>2, <4>3, <4>4 DEF File, IsFile, IsDir
    <3>3. CASE op.act = "SetLink" /\ v \in {Linked(t, p, op.target), Removed(t, p)}
      <4>1. ~IsFile(t[p]) /\ op.target \in Target
        BY <1>1, <3>3, OpFields DEF MovesAside
      <4>2. PICK e \in {Link(op.target), Absent} : v = [t EXCEPT ![p] = e]
        BY <3>3 DEF Linked, Removed
      <4>3. e \in Entry /\ ~IsDir(e)
        BY <4>1, <4>2, EntryTypes DEF IsDir, Link, Absent
      <4> QED BY <4>1, <4>2, <4>3
    <3>4. \/ v = t
          \/ v = Ran(t, op) /\ Lands(op) /\ CanRun(t, op)
          \/ op.act = "SetLink" /\ v \in {Linked(t, p, op.target), Removed(t, p)}
      BY <1>1, <2>4 DEF Left, Ran, Lands
    <3> QED BY <3>1, <3>2, <3>3, <3>4
  <2>6. CanUndo(v, u) /\ Undone(v, u) = t
    BY <2>3, <2>4, <2>5, CaptureUndoes
  <2> QED BY <2>2, <2>6
<1> QED BY <1>3, <1>4

\* The last call of an op, gone through or not, leaves the history exact.
LEMMA LandingExact ==
  ASSUME AtomicReplace, TypeOK, HistoryExact, AtLanding, NEW v \in Trees,
         \/ v = Ran(tree, ops[i]) /\ CanRun(tree, ops[i]) /\ ops[i].act # "Rename"
         \/ v \in Left(tree, ops[i])
  PROVE  LET steps == Recorded(tree, ops[i])
             h == Noted(steps, v)
         IN  StepsExact(undo \o steps, h) /\ Last(h) = v
<1>1. pc \in {"exec", "land"} /\ (pc = "exec" => ~Barred(tree, ops[i]) /\ ~MovesAside(tree, ops[i]))
  BY DEF AtLanding, AtOp
<1>2. ops[i] \in Op /\ tree \in Trees
  BY <1>1, AtOpTypes
<1>3. /\ undo \in Seq(UndoStep) /\ hist \in Seq(Trees) /\ Len(hist) = Len(undo) + 1
      /\ StepsExact(undo, hist) /\ tree = Last(hist)
  BY <1>1 DEF TypeOK, HistoryExact, Trees
<1>4. CASE ops[i].act = "Rename" \/ pc = "land"
  <2>1. Recorded(tree, ops[i]) = <<>> /\ undo \o <<>> = undo
    BY <1>3, <1>4, ConcatEmptySeq DEF Recorded
  <2>2. Noted(<<>>, v) = [hist EXCEPT ![Len(hist)] = v]
    BY DEF Noted
  <2>3. undo # <<>> => CanUndo(v, Last(undo)) /\ Undone(v, Last(undo)) = Undone(tree, Last(undo))
    <3>1. undo # <<>> => CanUndo(tree, Last(undo))
      <4>1. undo # <<>> => Len(undo) \in DOMAIN undo
        BY <1>3, LenProperties, EmptySeq
      <4> QED BY <1>3, <4>1 DEF StepsExact, Last
    <3>2. CASE v = tree
      BY <3>1, <3>2
    <3>3. CASE v # tree
      <4>1. pc = "land" /\ ops[i].act = "SetLink"
        <5>1. ops[i].act = "Rename" => v = tree
          BY DEF Left, Lands
        <5>2. pc = "land" => ops[i].act = "SetLink" \/ Moves(ops[i])
          BY DEF HistoryExact
        <5> QED BY <1>1, <1>4, <3>3, <5>1, <5>2 DEF Moves
      <4>2. PICK p \in Path : p = ops[i].path
        BY <1>2, OpFields
      <4>3. PICK a \in Aside : a = AsideOf(p, i)
        BY <1>1, <4>1, <4>2, AtOpTypes DEF Displaced
      <4>4. /\ Last(undo) = Rename(a, p) /\ undo # <<>>
            /\ tree[p] = Absent /\ ~IsDir(tree[a])
        BY <4>1, <4>2, <4>3 DEF HistoryExact, Displaced
      <4>5. v = Linked(tree, p, ops[i].target) \/ v = Removed(tree, p)
        BY <3>3, <4>1, <4>2 DEF Left, Ran, Lands
      <4>6. Removed(tree, p) = tree
        BY <1>2, <4>4, AsideSlots DEF Removed, Trees
      <4>7. ops[i].target \in Target
        BY <1>2, <4>1, OpFields
      <4> QED BY <1>2, <3>1, <3>3, <4>4, <4>5, <4>6, <4>7, LinkUndoes
    <3> QED BY <3>2, <3>3
  <2> QED BY <1>3, <2>1, <2>2, <2>3, StepsReplace
<1>5. CASE ops[i].act # "Rename" /\ pc = "exec"
  <2>1. PICK u \in UndoStep : /\ Recorded(tree, ops[i]) = <<u>>
                              /\ CanUndo(v, u) /\ Undone(v, u) = tree
    BY <1>1, <1>2, <1>5, RecordedUndoes
  <2>2. Noted(<<u>>, v) = Append(hist, v)
    BY DEF Noted
  <2>3. undo \o <<u>> = Append(undo, u)
    BY <1>3, Longer
  <2>4. StepsExact(Append(undo, u), Append(hist, v)) /\ Last(Append(hist, v)) = v
    BY <1>3, <2>1, StepsGrow
  <2> QED BY <2>1, <2>2, <2>3, <2>4
<1> QED BY <1>1, <1>4, <1>5

-----------------------------------------------------------------------------
(* The invariant.                                                            *)

RollbackInv == AtomicReplace => HistoryExact /\ RollbackRestores

LEMMA RollbackInit == Init => RollbackInv
<1> SUFFICES ASSUME Init PROVE HistoryExact /\ RollbackRestores
  BY DEF RollbackInv
<1>1. undo = <<>> /\ pc = "idle" /\ answer = "none"
  BY DEF Init
<1>2. StepsExact(undo, hist)
  BY <1>1 DEF StepsExact
<1> QED BY <1>1, <1>2 DEF HistoryExact, RollbackRestores

\* The end of a call says nothing of the history any more.
LEMMA ReturnExact ==
  ASSUME NEW x, Return(x), x = "rolledback" => tree' = hist[1]
  PROVE  HistoryExact' /\ RollbackRestores'
<1>1. pc' = "idle" /\ answer' = x /\ undo' = <<>> /\ hist' = <<hist[1]>>
  BY DEF Return
<1>2. StepsExact(undo', hist')
  BY <1>1 DEF StepsExact
<1>3. hist'[1] = hist[1]
  BY <1>1
<1> QED BY <1>1, <1>2, <1>3 DEF HistoryExact, RollbackRestores, Before

LEMMA RollbackStep ==
  TypeOK /\ TypeOK' /\ AsidesAccounted /\ RollbackInv /\ [Next]_vars => RollbackInv'
<1> SUFFICES ASSUME TypeOK, TypeOK', AsidesAccounted, HistoryExact, RollbackRestores,
                    [Next]_vars, AtomicReplace
             PROVE  HistoryExact' /\ RollbackRestores'
  BY DEF RollbackInv
<1>t. tree \in Trees /\ tree' \in Trees
  BY DEF TypeOK, Trees
<1>s. /\ undo \in Seq(UndoStep) /\ hist \in Seq(Trees) /\ Len(hist) = Len(undo) + 1
      /\ Len(undo) \in Nat /\ StepsExact(undo, hist)
  BY LenProperties DEF TypeOK, HistoryExact, Trees
<1>a. pc # "idle" => answer = "none"
  BY DEF HistoryExact
<1>1. CASE Apply
  <2>1. /\ pc' \in {"lone", "commit"} /\ answer' = "none" /\ tree' = tree
        /\ undo' = <<>> /\ hist' = <<tree>>
    BY <1>1 DEF Apply
  <2>2. StepsExact(undo', hist') /\ tree' = Last(hist')
    BY <2>1 DEF StepsExact, Last
  <2> QED BY <2>1, <2>2 DEF HistoryExact, RollbackRestores
<1>2. CASE ApplyRefused
  <2>1. pc' = "idle" /\ answer' = "refused" /\ UNCHANGED <<undo, hist>>
    BY <1>2 DEF ApplyRefused, log
  <2> QED BY <1>s, <2>1 DEF HistoryExact, RollbackRestores
<1>3. CASE RunLone
  <2>1. pc = "lone" /\ pc' = "lonecertify" /\ answer' = answer /\ UNCHANGED <<undo, hist>>
    BY <1>3 DEF RunLone, log
  <2> QED BY <1>s, <1>a, <2>1 DEF HistoryExact, RollbackRestores
<1>4. CASE LoneFails
  BY <1>4, ReturnExact DEF LoneFails
<1>5. CASE CertifyLone
  BY <1>5, ReturnExact DEF CertifyLone
<1>6. CASE Commit
  <2>1. pc = "commit" /\ pc' = "exec" /\ UNCHANGED <<tree, answer, undo, hist>>
    BY <1>6 DEF Commit, log
  <2>2. tree = Last(hist)
    BY <2>1 DEF HistoryExact
  <2> QED BY <1>s, <1>a, <2>1, <2>2 DEF HistoryExact, RollbackRestores, Last
<1>7. CASE CommitFails
  BY <1>7, ReturnExact DEF CommitFails
<1>8. CASE MoveAside
  <2>p. PICK p : p = Displaced(ops[i])
    OBVIOUS
  <2>a. PICK a : a = AsideOf(p, i)
    OBVIOUS
  <2>1. /\ pc = "exec" /\ MovesAside(tree, ops[i]) /\ ~Barred(tree, ops[i])
        /\ CanMove(tree, p, a) /\ tree' = Moved(tree, p, a)
        /\ undo' = Append(undo, Rename(a, p)) /\ hist' = Append(hist, tree')
        /\ UNCHANGED <<ops, answer>>
        /\ IF ops[i].act = "Remove" THEN NextOp ELSE GoTo("land", i)
    BY <1>8, <2>p, <2>a DEF MoveAside, AtOp
  <2>2. p \in Path /\ a \in Aside /\ p \in Slot /\ a \in Slot /\ p # a /\ i \in 1 .. MaxOps
    BY <2>p, <2>a, <2>1, AtOpTypes, AsideSlots
  <2>3. tree[a] = Absent
    <3>1. a[2] = i
      BY <2>a, <2>2, AsidePairs
    <3>2. a \notin Occupied
      BY <2>1, <2>2, <3>1 DEF AsidesAccounted
    <3> QED BY <2>2, <3>2 DEF Occupied
  <2>4. tree[p] # Absent
    BY <2>1 DEF CanMove
  <2>5. ~IsDir(tree[p])
    BY <2>p, <2>1 DEF Barred, MovesAside, Moves
  <2>6. CanUndo(tree', Rename(a, p)) /\ Undone(tree', Rename(a, p)) = tree
    BY <1>t, <2>1, <2>2, <2>3, <2>4, MoveUndoes
  <2>7. Rename(a, p) \in UndoStep
    BY <2>2 DEF UndoStep
  <2>8. tree = Last(hist)
    BY <2>1 DEF HistoryExact
  <2>9. StepsExact(undo', hist') /\ tree' = Last(hist')
    BY <1>s, <1>t, <2>1, <2>6, <2>7, <2>8, StepsGrow
  <2>10. tree'[p] = Absent /\ tree'[a] = tree[p]
    BY <1>t, <2>1, <2>2 DEF Moved, Trees
  <2>11. undo' # <<>> /\ Last(undo') = Rename(a, p)
    BY <1>s, <2>1, <2>7, Longer DEF Last
  <2>12. /\ pc' \in {"exec", "certify", "land"} /\ answer' = "none"
         /\ pc' = "land" => i' = i /\ ops[i].act # "Remove"
    BY <1>a, <2>1 DEF NextOp, GoTo
  <2>13. ops[i].act # "Remove" => ops[i].act = "SetLink" \/ Moves(ops[i])
    BY <2>1 DEF MovesAside
  <2>14. pc' = "land" => /\ Displaced(ops'[i']) = p /\ AsideOf(p, i') = a
                         /\ ops'[i'].act = "SetLink" \/ Moves(ops'[i'])
    BY <2>p, <2>a, <2>1, <2>12, <2>13
  <2> QED BY <2>5, <2>9, <2>10, <2>11, <2>12, <2>14 DEF HistoryExact, RollbackRestores
<1>9. CASE Land
  <2>1. /\ AtLanding /\ CanRun(tree, ops[i]) /\ ops[i].act # "Rename"
        /\ tree' = Ran(tree, ops[i])
        /\ undo' = undo \o Recorded(tree, ops[i])
        /\ hist' = Noted(Recorded(tree, ops[i]), tree')
        /\ NextOp /\ answer' = answer
    BY <1>9 DEF Land
  <2>2. StepsExact(undo', hist') /\ Last(hist') = tree'
    BY <1>t, <2>1, LandingExact
  <2>3. pc' \in {"exec", "certify"} /\ answer' = "none"
    BY <1>a, <2>1 DEF NextOp, GoTo, AtLanding, AtOp
  <2> QED BY <2>2, <2>3 DEF HistoryExact, RollbackRestores
<1>10. CASE LandRename
  <2>1. /\ AtLanding /\ pc \in {"exec", "land"} /\ ops[i].act = "Rename"
        /\ CanRun(tree, ops[i]) /\ tree' = Ran(tree, ops[i])
        /\ NextOp /\ answer' = answer
        /\ IF Moves(ops[i])
           THEN /\ undo' = Append(undo, Rename(ops[i].other, ops[i].path))
                /\ hist' = Append(hist, tree')
           ELSE UNCHANGED <<undo, hist>>
    BY <1>10 DEF LandRename, AtLanding, AtOp
  <2>2. tree = Last(hist)
    BY <2>1 DEF HistoryExact
  <2>3. PICK p \in Path, q \in Path : p = ops[i].path /\ q = ops[i].other
    BY <2>1, AtOpTypes, OpFields
  <2>4. tree' = Moved(tree, p, q) /\ tree[p] # Absent /\ p \in Slot /\ q \in Slot
    BY <2>1, <2>3, AsideSlots DEF Ran, Lands, CanRun, CanMove
  <2>5. StepsExact(undo', hist') /\ Last(hist') = tree'
    <3>1. CASE ~Moves(ops[i])
      <4>1. p = q
        BY <2>1, <2>3, <3>1 DEF Moves
      <4>2. tree' = tree
        BY <2>4, <4>1 DEF Moved
      <4> QED BY <1>s, <2>1, <2>2, <3>1, <4>2
    <3>2. CASE Moves(ops[i])
      <4>1. p # q
        BY <2>3, <3>2 DEF Moves
      <4>2. tree[q] = Absent
        <5>1. CASE pc = "exec"
          BY <2>1, <2>3, <3>2, <5>1 DEF AtLanding, AtOp, MovesAside
        <5>2. CASE pc = "land"
          <6>1. Displaced(ops[i]) = q
            BY <2>1, <2>3 DEF Displaced
          <6> QED BY <5>2, <6>1 DEF HistoryExact
        <5> QED BY <2>1, <5>1, <5>2
      <4>3. CanUndo(tree', Rename(q, p)) /\ Undone(tree', Rename(q, p)) = tree
        BY <1>t, <2>4, <4>1, <4>2, MoveUndoes
      <4>4. Rename(q, p) \in UndoStep
        BY <2>4 DEF UndoStep
      <4>5. undo' = Append(undo, Rename(q, p)) /\ hist' = Append(hist, tree')
        BY <2>1, <2>3, <3>2
      <4> QED BY <1>s, <1>t, <2>2, <4>3, <4>4, <4>5, StepsGrow
    <3> QED BY <3>1, <3>2
  <2>6. pc' \in {"exec", "certify"} /\ answer' = "none"
    BY <1>a, <2>1 DEF NextOp, GoTo
  <2> QED BY <2>5, <2>6 DEF HistoryExact, RollbackRestores
<1>11. CASE ExecFails
  <2>1. /\ pc = "exec" /\ pc' = "unwind" /\ i' = Len(undo)
        /\ UNCHANGED <<tree, undo, hist, answer>>
    BY <1>11 DEF ExecFails, GoTo, log
  <2>2. tree' = hist'[i' + 1]
    BY <1>s, <2>1 DEF HistoryExact, Last
  <2> QED BY <1>s, <1>a, <2>1, <2>2 DEF HistoryExact, RollbackRestores
<1>12. CASE LandFails
  <2>1. /\ AtLanding /\ pc \in {"exec", "land"}
        /\ undo' = undo \o Recorded(tree, ops[i])
        /\ hist' = Noted(Recorded(tree, ops[i]), tree')
        /\ pc' = "unwind" /\ i' = Len(undo') /\ answer' = answer
        /\ tree' = tree \/ tree' \in Left(tree, ops[i])
    BY <1>12 DEF LandFails, GoTo, AtLanding, AtOp
  <2>2. tree' \in Left(tree, ops[i])
    BY <2>1 DEF Left
  <2>3. StepsExact(undo', hist') /\ Last(hist') = tree'
    BY <1>t, <2>1, <2>2, LandingExact
  <2>4. tree' = hist'[i' + 1]
    BY <2>1, <2>3 DEF TypeOK, Last
  <2> QED BY <1>a, <2>1, <2>3, <2>4 DEF HistoryExact, RollbackRestores
<1>13. CASE Certify
  <2>1. /\ pc = "certify" /\ UNCHANGED <<tree, undo, hist, answer>>
        /\ pc' = "retire" \/ (pc' = "unwind" /\ i' = Len(undo))
    BY <1>13 DEF Certify, GoTo, log
  <2>2. tree' = hist'[Len(undo) + 1]
    BY <1>s, <2>1 DEF HistoryExact, Last
  <2> QED BY <1>s, <1>a, <2>1, <2>2 DEF HistoryExact, RollbackRestores
<1>14. CASE RetireAside
  <2>1. pc = "retire" /\ pc' = "retire" /\ UNCHANGED <<undo, hist, answer>>
    BY <1>14 DEF RetireAside
  <2> QED BY <1>s, <1>a, <2>1 DEF HistoryExact, RollbackRestores
<1>15. CASE RetireJournal
  BY <1>15, ReturnExact DEF RetireJournal
<1>16. CASE RetireFails
  BY <1>16, ReturnExact DEF RetireFails
<1>17. CASE Unwind
  <2>1. /\ pc = "unwind" /\ pc' = "unwind" /\ i \in DOMAIN undo /\ i' = i - 1
        /\ tree' = Undone(tree, undo[i])
        /\ UNCHANGED <<undo, hist, failed, answer>>
    BY <1>17, LenProperties DEF Unwind, log, TypeOK
  <2>2. ASSUME ~failed PROVE tree' = hist'[i' + 1]
    <3>1. tree = hist[i + 1] /\ i' + 1 = i
      BY <2>1, <2>2 DEF HistoryExact, TypeOK
    <3> QED BY <1>s, <2>1, <3>1 DEF StepsExact
  <2> QED BY <1>s, <1>a, <2>1, <2>2 DEF HistoryExact, RollbackRestores
<1>18. CASE UnwindFails
  <2>1. pc = "unwind" /\ pc' = "unwind" /\ failed' = TRUE /\ UNCHANGED <<undo, hist, answer>>
    BY <1>18 DEF UnwindFails, log
  <2> QED BY <1>s, <1>a, <2>1 DEF HistoryExact, RollbackRestores
<1>19. CASE Unwound
  <2>1. CASE failed
    BY <1>19, <2>1, ReturnExact DEF Unwound
  <2>2. CASE ~failed
    <3>1. /\ pc = "unwind" /\ pc' = "abort" /\ i = 0
          /\ UNCHANGED <<tree, undo, hist, answer>>
      BY <1>19, <2>2 DEF Unwound, GoTo, log
    <3>2. tree = hist[1]
      BY <2>2, <3>1 DEF HistoryExact
    <3> QED BY <1>s, <1>a, <3>1, <3>2 DEF HistoryExact, RollbackRestores, Before
  <2> QED BY <2>1, <2>2
<1>20. CASE Abort
  <2>1. CASE Return("torn")
    BY <2>1, ReturnExact
  <2>2. CASE ~Return("torn")
    <3>1. /\ pc = "abort" /\ pc' = "abortflush"
          /\ UNCHANGED <<tree, undo, hist, answer>>
      BY <1>20, <2>2 DEF Abort, GoTo, log
    <3>2. tree = hist[1]
      BY <3>1 DEF RollbackRestores, Before
    <3> QED BY <1>s, <1>a, <3>1, <3>2 DEF HistoryExact, RollbackRestores, Before
  <2> QED BY <2>1, <2>2
<1>21. CASE AbortFlush
  <2>1. /\ pc = "abortflush" /\ tree' = tree
        /\ Return("rolledback") \/ Return("torn")
    BY <1>21 DEF AbortFlush
  <2>2. tree = hist[1]
    BY <2>1 DEF RollbackRestores, Before
  <2> QED BY <2>1, <2>2, ReturnExact
<1>22. CASE Recover
  <2>1. /\ pc = "idle" /\ UNCHANGED <<undo, hist>>
        /\ \/ pc' = "idle" /\ answer' = "stuck"
           \/ pc' = "replay" /\ answer' = "none"
    BY <1>22 DEF Recover, GoTo, log
  <2> QED BY <1>s, <2>1 DEF HistoryExact, RollbackRestores
<1>23. CASE Replay
  <2>1. pc = "replay" /\ pc' \in {"replay", "sweep"} /\ UNCHANGED <<undo, hist, answer>>
    BY <1>23 DEF Replay, GoTo, log
  <2> QED BY <1>s, <1>a, <2>1 DEF HistoryExact, RollbackRestores
<1>24. CASE ReplayFails
  BY <1>24, ReturnExact DEF ReplayFails
<1>25. CASE Sweep
  <2>1. pc = "sweep" /\ pc' \in {"sweep", "settle"} /\ UNCHANGED <<undo, hist, answer>>
    BY <1>25 DEF Sweep, GoTo, log
  <2> QED BY <1>s, <1>a, <2>1 DEF HistoryExact, RollbackRestores
<1>26. CASE SettleRecovery
  BY <1>26, ReturnExact DEF SettleRecovery
<1>27. CASE RecoveryFails
  BY <1>27, ReturnExact DEF RecoveryFails
<1>28. CASE Crash
  BY <1>28, ReturnExact DEF Crash
<1>29. CASE UNCHANGED vars
  BY <1>29 DEF vars, HistoryExact, RollbackRestores, Before
<1> QED
  BY <1>1, <1>2, <1>3, <1>4, <1>5, <1>6, <1>7, <1>8, <1>9, <1>10, <1>11, <1>12,
     <1>13, <1>14, <1>15, <1>16, <1>17, <1>18, <1>19, <1>20, <1>21, <1>22,
     <1>23, <1>24, <1>25, <1>26, <1>27, <1>28, <1>29
  DEF Next, Call, Proceed

LEMMA RollbackAlways == Spec => []RollbackInv
<1>1. TypeOK /\ TypeOK' /\ AsidesAccounted /\ RollbackInv /\ [Next]_vars => RollbackInv'
  BY RollbackStep
<1> QED BY <1>1, RollbackInit, TypeCorrect, AsidesCorrect, PTL DEF Spec

\* On a backend that replaces atomically, each undo step recorded gives back
\* the very tree it was recorded for, and an apply that answers that it rolled
\* back has left the whole tree as it found it, whatever failed on the way.
THEOREM RollbackExact ==
  Spec => [](AtomicReplace => HistoryExact /\ RollbackRestores)
<1>1. RollbackInv => (AtomicReplace => HistoryExact /\ RollbackRestores)
  BY DEF RollbackInv
<1> QED BY <1>1, RollbackAlways, PTL

\* On such a backend no undo step is ever refused while those before it went
\* through: a rollback is stopped by a call that fails and by nothing else.
THEOREM UndoNeverRefused == Spec => [](AtomicReplace => UndoCanProceed)
<1>1. TypeOK /\ RollbackInv => (AtomicReplace => UndoCanProceed)
  <2> SUFFICES ASSUME TypeOK, HistoryExact, pc = "unwind", i > 0, ~failed
               PROVE  CanUndo(tree, undo[i])
    BY DEF RollbackInv, UndoCanProceed
  <2>1. i \in DOMAIN undo
    BY LenProperties DEF TypeOK
  <2> QED BY <2>1 DEF HistoryExact, StepsExact
<1> QED BY <1>1, RollbackAlways, TypeCorrect, PTL

=============================================================================
