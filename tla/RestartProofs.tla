--------------------------- MODULE RestartProofs ---------------------------
(***************************************************************************)
(* A set the rule admits is replayed from its first op, over whatever a    *)
(* crash left, to the tree the set means: what Restart says of every tree  *)
(* is kept by every op, and every op puts right what it decides.           *)
(***************************************************************************)
EXTENDS Restart, TreeProofs, FiniteSetTheorems

-----------------------------------------------------------------------------
(* The recursive definitions of the model, unfolded.                         *)

\* An open goes from slot to slot.
LEMMA HopsSteps ==
  ASSUME NEW t \in Trees, NEW s \in Slot
  PROVE  /\ Cardinality(Path) \in Nat
         /\ Hops(t, s) \in [0 .. Cardinality(Path) -> Path \cup {s}]
         /\ Hops(t, s)[0] = s
         /\ \A n \in 1 .. Cardinality(Path) :
              Hops(t, s)[n] =
                LET here == Hops(t, s)[n - 1] IN
                IF IsLink(t[here]) /\ t[here].target \in Path THEN t[here].target ELSE here
<1> DEFINE N == Cardinality(Path)
           Hop(x) == IF IsLink(t[x]) /\ t[x].target \in Path THEN t[x].target ELSE x
           G == [n \in Nat |-> [x \in Slot |-> Hop(x)]]
<1>1. N \in Nat
  BY PathAssumption, FS_CardinalityType
<1>2. \A x \in Slot : Hop(x) \in Slot
  BY DEF Slot
<1>g. G \in [Nat -> [Slot -> Slot]]
  BY <1>2
<1>3. \A n \in Nat, x \in Slot : G[n][x] = Hop(x)
  OBVIOUS
<1> HIDE DEF G, N, Hop
<1>4. PICK f \in [Nat -> Slot] : Made(f, s, G, N)
  BY <1>1, <1>g, Iterates
<1>5. \A n \in 1 .. N : f[n] = Hop(f[n - 1])
  <2>1. ASSUME NEW n \in 1 .. N PROVE f[n] = Hop(f[n - 1])
    <3>1. n - 1 \in Nat /\ n - 1 < N /\ (n - 1) + 1 = n
      BY <1>1
    <3> QED BY <1>3, <1>4, <3>1 DEF Made
  <2> QED BY <2>1
<1> DEFINE P(h) == h = [n \in 0 .. N |-> IF n = 0 THEN s ELSE Hop(h[n - 1])]
<1>6. \E h : P(h)
  <2>1. PICK h : h = [n \in 0 .. N |-> f[n]]
    OBVIOUS
  <2>2. \A n \in 0 .. N : n # 0 => n - 1 \in 0 .. N /\ n \in 1 .. N
    BY <1>1
  <2>3. \A n \in 0 .. N : h[n] = IF n = 0 THEN s ELSE Hop(h[n - 1])
    BY <1>4, <1>5, <2>1, <2>2 DEF Made
  <2>4. P(h)
    BY <2>1, <2>3
  <2> QED BY <2>4
<1>7. Hops(t, s) = CHOOSE h : P(h)
  BY DEF Hops, Hop, N
<1>8. P(Hops(t, s))
  BY <1>6, <1>7
<1>9. PICK h : h = Hops(t, s)
  OBVIOUS
<1>10. /\ DOMAIN h = 0 .. N /\ h[0] = s
       /\ \A n \in 1 .. N : h[n] = Hop(h[n - 1])
  BY <1>1, <1>8, <1>9
<1>11. \A n \in 0 .. N : h[n] \in Path \cup {s}
  <2> DEFINE S == {n \in Nat : n <= N => h[n] \in Path \cup {s}}
  <2>1. 0 \in S
    BY <1>10
  <2>2. ASSUME NEW k \in Nat, k < N, k \in S PROVE k + 1 \in S
    <3>1. k + 1 \in 1 .. N /\ (k + 1) - 1 = k
      BY <1>1, <2>2
    <3>2. h[k + 1] = Hop(h[k])
      BY <1>10, <3>1
    <3>3. h[k] \in Path \cup {s} /\ k + 1 \in Nat
      BY <1>1, <2>2
    <3> QED BY <3>2, <3>3 DEF Hop
  <2>3. \A k \in 0 .. N : k \in S
    <3> HIDE DEF S
    <3> QED BY <1>1, <2>1, <2>2, UpTo
  <2> QED BY <1>1, <2>3
<1>12. h \in [0 .. N -> Path \cup {s}]
  BY <1>8, <1>9, <1>10, <1>11
<1> QED BY <1>1, <1>9, <1>10, <1>12 DEF Hop, N

\* A call can be made for an op, or not: either way a tree comes of it.
LEMMA AfterNear ==
  ASSUME NEW t \in Trees, NEW op \in Op
  PROVE  Near(t, After(t, op))
<1>1. CASE CanRun(t, op)
  BY <1>1, RanNear DEF After
<1>2. CASE MovesOver(t, op)
  <2>1. After(t, op) = Moved(t, op.path, op.other)
    BY <1>2 DEF After, MovesOver, Ran, Lands
  <2> QED BY <1>2, <2>1, OpFields, CallNear DEF MovesOver
<1>3. CASE ~CanRun(t, op) /\ ~MovesOver(t, op) /\ CanReplay(t, op)
  BY <1>3, ReplayedNear DEF After
<1>4. CASE ~CanRun(t, op) /\ ~MovesOver(t, op) /\ ~CanReplay(t, op)
  BY <1>4, OpFields, CallNear DEF After
<1> QED BY <1>1, <1>2, <1>3, <1>4

\* A run goes from tree to tree, op by op.
LEMMA RunSteps ==
  ASSUME NEW t \in Trees, NEW set \in Seq(Op)
  PROVE  /\ Len(set) \in Nat /\ DOMAIN set = 1 .. Len(set)
         /\ \A n \in DOMAIN set : set[n] \in Op
         /\ \A n \in 0 .. Len(set) : Run(t, set)[n] \in Trees
         /\ Run(t, set)[0] = t
         /\ \A n \in DOMAIN set : Run(t, set)[n] = After(Run(t, set)[n - 1], set[n])
<1> DEFINE N == Len(set)
           Step(n, x) == IF n \in DOMAIN set THEN After(x, set[n]) ELSE x
           G == [n \in Nat |-> [x \in Trees |-> Step(n, x)]]
<1>1. N \in Nat /\ DOMAIN set = 1 .. N /\ \A n \in DOMAIN set : set[n] \in Op
  OBVIOUS
<1>2. \A n \in Nat, x \in Trees : Step(n, x) \in Trees
  BY <1>1, AfterNear DEF Near
<1>g. G \in [Nat -> [Trees -> Trees]]
  BY <1>2
<1>3. \A n \in Nat, x \in Trees : G[n][x] = Step(n, x)
  OBVIOUS
<1> HIDE DEF G, N, Step
<1>4. PICK f \in [Nat -> Trees] : Made(f, t, G, N)
  BY <1>1, <1>g, Iterates
<1>5. \A n \in 1 .. N : f[n] = Step(n, f[n - 1])
  <2>1. ASSUME NEW n \in 1 .. N PROVE f[n] = Step(n, f[n - 1])
    <3>1. n - 1 \in Nat /\ n - 1 < N /\ (n - 1) + 1 = n
      BY <1>1
    <3> QED BY <1>3, <1>4, <3>1 DEF Made
  <2> QED BY <2>1
<1> DEFINE P(h) == h = [n \in 0 .. N |-> IF n = 0 THEN t ELSE After(h[n - 1], set[n])]
<1>6. \E h : P(h)
  <2>1. PICK h : h = [n \in 0 .. N |-> f[n]]
    OBVIOUS
  <2>2. \A n \in 0 .. N : n # 0 => n - 1 \in 0 .. N /\ n \in 1 .. N
    BY <1>1
  <2>3. \A n \in 0 .. N : h[n] = IF n = 0 THEN t ELSE After(h[n - 1], set[n])
    BY <1>1, <1>4, <1>5, <2>1, <2>2 DEF Made, Step
  <2>4. P(h)
    BY <2>1, <2>3
  <2> QED BY <2>4
<1>7. Run(t, set) = CHOOSE h : P(h)
  BY DEF Run, N
<1>8. P(Run(t, set))
  BY <1>6, <1>7
<1>9. PICK h : h = Run(t, set)
  OBVIOUS
<1>10. h[0] = t /\ \A n \in 1 .. N : h[n] = After(h[n - 1], set[n])
  BY <1>1, <1>8, <1>9
<1>11. \A n \in 0 .. N : h[n] \in Trees
  <2> DEFINE S == {n \in Nat : n <= N => h[n] \in Trees}
  <2>1. 0 \in S
    BY <1>10
  <2>2. ASSUME NEW k \in Nat, k < N, k \in S PROVE k + 1 \in S
    <3>1. k + 1 \in 1 .. N /\ (k + 1) - 1 = k
      BY <1>1, <2>2
    <3>2. h[k + 1] = After(h[k], set[k + 1])
      BY <1>10, <3>1
    <3>3. h[k] \in Trees /\ k + 1 \in Nat /\ set[k + 1] \in Op
      BY <1>1, <2>2, <3>1
    <3>4. h[k + 1] \in Trees
      BY <3>2, <3>3, AfterNear DEF Near
    <3> QED BY <3>3, <3>4
  <2>3. \A k \in 0 .. N : k \in S
    <3> HIDE DEF S
    <3> QED BY <1>1, <2>1, <2>2, UpTo
  <2> QED BY <1>1, <2>3
<1> QED BY <1>1, <1>9, <1>10, <1>11 DEF N

-----------------------------------------------------------------------------
(* What a read depends on.                                                   *)

\* Without its mode an entry is of the same kind, and leads where it led.
LEMMA BareKinds ==
  ASSUME NEW e \in Entry, NEW f \in Entry, Bare(e) = Bare(f)
  PROVE  /\ e.kind = f.kind
         /\ IsFile(e) <=> IsFile(f)
         /\ IsLink(e) <=> IsLink(f)
         /\ IsDir(e) <=> IsDir(f)
         /\ e = Absent <=> f = Absent
         /\ IsFile(e) => e.bytes = f.bytes
         /\ ~IsFile(e) => e = f
         /\ Mode(e) = Mode(f) => e = f
<1>1. e.kind = f.kind /\ (IsFile(e) => e.bytes = f.bytes) /\ (~IsFile(e) => e = f)
  BY EntryKinds DEF Bare, IsFile
<1>2. ASSUME IsFile(e), Mode(e) = Mode(f) PROVE e = f
  <2>1. /\ e = File(e.bytes, e.exec) /\ e.exec \in BOOLEAN
        /\ f = File(f.bytes, f.exec) /\ f.exec \in BOOLEAN
    BY <1>1, <1>2, EntryKinds DEF IsFile
  <2>2. e.exec = f.exec
    BY <1>1, <1>2, <2>1 DEF Mode, IsFile
  <2> QED BY <1>1, <1>2, <2>1, <2>2
<1>3. e = Absent <=> f = Absent
  BY <1>1, EntryKinds DEF IsFile, Absent
<1> QED BY <1>1, <1>2, <1>3 DEF IsFile, IsLink, IsDir

\* Two trees that hold the same wherever an open of s looks in the one are
\* opened alike, and read alike.
LEMMA ReadAlike ==
  ASSUME NEW t \in Trees, NEW u \in Trees, NEW s \in Slot,
         \A x \in Through(t, s) \cup {s} : Bare(u[x]) = Bare(t[x])
  PROVE  /\ Referent(u, s) = Referent(t, s)
         /\ Bare(u[Referent(u, s)]) = Bare(t[Referent(t, s)])
         /\ Referent(t, s) \in Through(t, s) \cup {s}
         /\ Exists(u, s) <=> Exists(t, s)
         /\ Readable(u, s) <=> Readable(t, s)
         /\ Readable(t, s) => BytesAt(u, s) = BytesAt(t, s)
<1> DEFINE N == Cardinality(Path)
           h == Hops(t, s)
           g == Hops(u, s)
           Next(v, x) == IF IsLink(v[x]) /\ v[x].target \in Path THEN v[x].target ELSE x
<1>1. /\ N \in Nat /\ h[0] = s /\ g[0] = s
      /\ \A n \in 0 .. N : h[n] \in Path \cup {s}
      /\ \A n \in 1 .. N : h[n] = Next(t, h[n - 1]) /\ g[n] = Next(u, g[n - 1])
  BY HopsSteps
<1>2. \A n \in 0 .. N : h[n] \in Through(t, s) \cup {s}
  BY DEF Through
<1>3. Through(t, s) \cup {s} \subseteq Slot
  BY <1>1 DEF Through, Slot
<1>4. ASSUME NEW x \in Through(t, s) \cup {s} PROVE Next(u, x) = Next(t, x)
  <2>1. u[x] \in Entry /\ t[x] \in Entry /\ Bare(u[x]) = Bare(t[x])
    BY <1>3 DEF Trees
  <2>2. (IsLink(u[x]) <=> IsLink(t[x])) /\ (IsLink(t[x]) => u[x] = t[x])
    BY <2>1, BareKinds DEF IsLink, IsFile
  <2> QED BY <2>2
<1> HIDE DEF h, g, N, Next
<1>5. \A n \in 0 .. N : g[n] = h[n]
  <2> DEFINE S == {n \in Nat : n <= N => g[n] = h[n]}
  <2>1. 0 \in S
    BY <1>1
  <2>2. ASSUME NEW k \in Nat, k < N, k \in S PROVE k + 1 \in S
    <3>1. k + 1 \in 1 .. N /\ (k + 1) - 1 = k /\ k \in 0 .. N
      BY <1>1, <2>2
    <3>2. g[k] = h[k]
      BY <1>1, <2>2
    <3>3. h[k + 1] = Next(t, h[k]) /\ g[k + 1] = Next(u, h[k])
      BY <1>1, <3>1, <3>2
    <3>4. g[k + 1] = h[k + 1]
      BY <1>2, <1>4, <3>1, <3>3
    <3> QED BY <3>4
  <2>3. \A k \in 0 .. N : k \in S
    <3> HIDE DEF S
    <3> QED BY <1>1, <2>1, <2>2, UpTo
  <2> QED BY <1>1, <2>3
<1>6. g[N] = h[N] /\ h[N] \in Through(t, s) \cup {s}
  BY <1>1, <1>2, <1>5
<1>7. IsLink(u[s]) <=> IsLink(t[s])
  BY BareKinds DEF Trees
<1>8. Referent(u, s) = Referent(t, s) /\ Referent(t, s) \in Through(t, s) \cup {s}
  BY <1>6, <1>7 DEF Referent, h, g, N
<1>9. PICK r : r = Referent(t, s)
  OBVIOUS
<1>10. u[r] \in Entry /\ t[r] \in Entry /\ Bare(u[r]) = Bare(t[r])
  BY <1>3, <1>8, <1>9 DEF Trees
<1>11. Exists(u, s) <=> Exists(t, s)
  BY <1>8, <1>9, <1>10, BareKinds DEF Exists
<1>12. Readable(u, s) <=> Readable(t, s)
  BY <1>8, <1>9, <1>10, BareKinds DEF Readable
<1>13. Readable(t, s) => BytesAt(u, s) = BytesAt(t, s)
  BY <1>8, <1>9, <1>10, BareKinds DEF Readable, BytesAt
<1> QED BY <1>8, <1>9, <1>10, <1>11, <1>12, <1>13

-----------------------------------------------------------------------------
(* What each op comes to, on a backend that replaces atomically.             *)

\* The entry an op other than a rename and a flip puts at its path, and when
\* it leaves what stands there.
Put(t, op) ==
  IF op.act = "Write" THEN File(op.bytes, CarriedExec(t, op.path))
  ELSE IF op.act = "CopyFrom" THEN File(BytesAt(t, op.other), CarriedExec(t, op.path))
  ELSE IF op.act = "Remove" THEN Absent
  ELSE Link(op.target)

Stands(t, op) ==
  IsDir(t[op.path]) \/ (op.act = "CopyFrom" /\ ~Readable(t, op.other))

LEMMA PutEffect ==
  ASSUME AtomicReplace, NEW t \in Trees, NEW op \in Op,
         op.act \in {"Write", "CopyFrom", "Remove", "SetLink"}
  PROVE  /\ Stands(t, op) => After(t, op) = t
         /\ ~Stands(t, op) => /\ Put(t, op) \in Entry
                              /\ After(t, op) = [t EXCEPT ![op.path] = Put(t, op)]
<1>1. op.path \in Path /\ op.path \in Slot /\ t[op.path] \in Entry
  BY OpFields, AsideSlots DEF Trees
<1>2. CarriedExec(t, op.path) \in BOOLEAN
  BY DEF CarriedExec
<1>3. ~MovesOver(t, op)
  BY DEF MovesOver
<1>4. CASE op.act = "Write"
  <2>1. /\ CanRun(t, op) <=> ~IsDir(t[op.path])
        /\ CanReplay(t, op) <=> CanRun(t, op)
    BY <1>4 DEF CanRun, CanReplay, CanReplace
  <2>2. Ran(t, op) = [t EXCEPT ![op.path] = Put(t, op)]
    BY <1>4 DEF Ran, Lands, Replaced, Contents, Put
  <2>3. Put(t, op) \in Entry
    BY <1>2, <1>4, OpFields, EntryTypes DEF Put
  <2> QED BY <1>3, <1>4, <2>1, <2>2, <2>3 DEF After, Stands
<1>5. CASE op.act = "CopyFrom"
  <2>1. /\ CanRun(t, op) <=> ~IsDir(t[op.path]) /\ Readable(t, op.other)
        /\ CanReplay(t, op) <=> CanRun(t, op)
    BY <1>5 DEF CanRun, CanReplay, CanReplace
  <2>2. Ran(t, op) = [t EXCEPT ![op.path] = Put(t, op)]
    BY <1>5 DEF Ran, Lands, Replaced, Contents, Put
  <2>3. Readable(t, op.other) => Put(t, op) \in Entry
    BY <1>2, <1>5, OpFields, AsideSlots, EntryTypes, ReadableBytes DEF Put
  <2> QED BY <1>3, <1>5, <2>1, <2>2, <2>3 DEF After, Stands
<1>6. CASE op.act = "Remove"
  <2>1. /\ CanRun(t, op) <=> t[op.path].kind \in {"file", "link"}
        /\ CanReplay(t, op) <=> ~IsDir(t[op.path])
    BY <1>6 DEF CanRun, CanReplay, CanRemove
  <2>2. Ran(t, op) = [t EXCEPT ![op.path] = Absent] /\ Replayed(t, op) = Ran(t, op)
    BY <1>6 DEF Ran, Lands, Removed, Replayed
  <2>3. Put(t, op) = Absent /\ Absent \in Entry
    BY <1>6, EntryTypes DEF Put
  <2>4. t[op.path].kind \in {"file", "link"} => ~IsDir(t[op.path])
    BY DEF IsDir
  <2> QED BY <1>3, <1>6, <2>1, <2>2, <2>3, <2>4 DEF After, Stands
<1>7. CASE op.act = "SetLink"
  <2>1. /\ CanRun(t, op) <=> ~IsDir(t[op.path])
        /\ CanReplay(t, op) <=> CanRun(t, op)
    BY <1>7 DEF CanRun, CanReplay, CanLink
  <2>2. Ran(t, op) = [t EXCEPT ![op.path] = Link(op.target)]
    BY <1>7 DEF Ran, Lands, Linked
  <2>3. Put(t, op) = Link(op.target) /\ Link(op.target) \in Entry
    BY <1>7, OpFields, EntryTypes DEF Put
  <2> QED BY <1>3, <1>7, <2>1, <2>2, <2>3 DEF After, Stands
<1> QED BY <1>4, <1>5, <1>6, <1>7

LEMMA FlipEffect ==
  ASSUME NEW t \in Trees, NEW op \in Op, op.act = "SetExecutable"
  PROVE  After(t, op) = IF IsFile(t[op.path])
                        THEN [t EXCEPT ![op.path] = File(t[op.path].bytes, op.exec)]
                        ELSE t
<1>1. op.path \in Path /\ op.path \in Slot /\ t[op.path] \in Entry
  BY OpFields, AsideSlots DEF Trees
<1>2. ~MovesOver(t, op)
  BY DEF MovesOver
<1>3. Ran(t, op) = Flipped(t, op.path, op.exec)
  BY DEF Ran, Lands
<1>4. CanRun(t, op) <=> t[op.path].kind \in {"file", "dir"}
  BY DEF CanRun
<1>5. CASE IsLink(t[op.path])
  <2>1. ~CanRun(t, op) /\ ~CanReplay(t, op) /\ ~IsFile(t[op.path])
    BY <1>4, <1>5 DEF CanReplay, IsLink, IsFile
  <2> QED BY <1>2, <2>1 DEF After
<1>6. CASE ~IsLink(t[op.path])
  <2>1. Referent(t, op.path) = op.path
    BY <1>1, <1>6, ReferentSlot
  <2>2. Ran(t, op) = IF IsFile(t[op.path])
                     THEN [t EXCEPT ![op.path] = File(t[op.path].bytes, op.exec)]
                     ELSE t
    BY <1>3, <2>1 DEF Flipped
  <2>3. CASE CanRun(t, op)
    BY <2>2, <2>3 DEF After
  <2>4. CASE ~CanRun(t, op)
    <3>1. ~Exists(t, op.path) /\ ~IsFile(t[op.path])
      BY <1>4, <2>1, <2>4 DEF Exists, IsFile
    <3>2. Replayed(t, op) = t
      BY <3>1 DEF Replayed
    <3> QED BY <1>2, <2>4, <3>1, <3>2 DEF After
  <2> QED BY <2>3, <2>4
<1> QED BY <1>5, <1>6

LEMMA RenameEffect ==
  ASSUME NEW t \in Trees, NEW op \in Op, op.act = "Rename", op.path # op.other,
         ~IsLink(t[op.path])
  PROVE  After(t, op) = IF t[op.path] = Absent \/ IsDir(t[op.other]) THEN t
                        ELSE [t EXCEPT ![op.other] = t[op.path], ![op.path] = Absent]
<1>1. /\ op.path \in Slot /\ op.other \in Slot
      /\ t[op.path] \in Entry /\ t[op.other] \in Entry
  BY OpFields, AsideSlots DEF Trees
<1>2. Ran(t, op) = [t EXCEPT ![op.other] = t[op.path], ![op.path] = Absent]
  BY DEF Ran, Lands, Moved
<1>3. CanRun(t, op) <=> CanMove(t, op.path, op.other)
  BY DEF CanRun
<1>4. Referent(t, op.path) = op.path
  BY <1>1, ReferentSlot
<1>5. Exists(t, op.path) <=> t[op.path] # Absent
  BY <1>1, <1>4, EntryKinds DEF Exists, IsLink, Absent
<1>6. CASE t[op.path] = Absent
  <2>1. ~CanRun(t, op) /\ ~MovesOver(t, op) /\ ~Exists(t, op.path)
    BY <1>3, <1>5, <1>6 DEF CanMove, MovesOver, IsDir, Absent
  <2>2. Replayed(t, op) = t
    BY <2>1 DEF Replayed
  <2> QED BY <1>6, <2>1, <2>2 DEF After
<1>7. CASE t[op.path] # Absent /\ IsDir(t[op.other])
  <2>1. ~CanRun(t, op) /\ ~MovesOver(t, op) /\ ~CanReplay(t, op)
    BY <1>3, <1>5, <1>7 DEF CanMove, MovesOver, IsDir, CanReplay
  <2> QED BY <1>7, <2>1 DEF After
<1>8. CASE t[op.path] # Absent /\ ~IsDir(t[op.other])
  <2>1. CanRun(t, op) \/ MovesOver(t, op)
    BY <1>1, <1>3, <1>8, EntryKinds DEF CanMove, MovesOver, IsDir, IsFile, IsLink
  <2> QED BY <1>2, <1>8, <2>1 DEF After
<1> QED BY <1>6, <1>7, <1>8

-----------------------------------------------------------------------------
(* What the rule makes of a set.                                             *)

\* Each path of a rename is the rename's own: its source is flipped before it
\* and not named after, its destination written and flipped after it and not
\* named before, and nothing else names either.
LEMMA RenamesApart ==
  ASSUME NEW set \in Seq(Op), Admissible(set), NEW n \in Renames(set)
  PROVE  LET a == set[n].path
             b == set[n].other
         IN  /\ a \in Path /\ b \in Path /\ a # b
             /\ \A k \in DOMAIN set : k # n => ~Two(set[k]) \/ set[k].other \notin {a, b}
             /\ \A k \in DOMAIN set : (k # n /\ set[k].path = a) =>
                  k < n /\ set[k].act = "SetExecutable"
             /\ \A k \in DOMAIN set : (k # n /\ set[k].path = b) =>
                  k > n /\ set[k].act \in {"Write", "CopyFrom", "SetExecutable"}
<1> DEFINE a == set[n].path
           b == set[n].other
<1>1. n \in DOMAIN set /\ set[n].act = "Rename" /\ set[n] \in Op /\ DOMAIN set \subseteq Nat
  BY DEF Renames
<1>2. a \in Path /\ b \in Path
  BY <1>1, OpFields
<1>3. ASSUME NEW k \in DOMAIN set PROVE RenameAllows(set[n], n, set[k], k)
  BY <1>1 DEF Admissible, Pair
<1>4. a # b
  BY <1>1, <1>3 DEF RenameAllows
<1>5. ASSUME NEW k \in DOMAIN set, k # n, Mentions(set[k], a)
      PROVE  k < n /\ Flips(set[k], a)
  BY <1>1, <1>3, <1>5 DEF RenameAllows
<1>6. ASSUME NEW k \in DOMAIN set, k # n, Mentions(set[k], b)
      PROVE  k > n /\ KeepsFile(set[k], b)
  BY <1>1, <1>3, <1>6 DEF RenameAllows
<1>7. ASSUME NEW k \in DOMAIN set, k # n, Two(set[k]) PROVE set[k].other \notin {a, b}
  <2>1. Mentions(set[k], set[k].other)
    BY <1>7 DEF Mentions, Names
  <2>2. set[k].other # a
    BY <1>5, <1>7, <2>1 DEF Flips, Two
  <2>3. set[k].other # b
    BY <1>6, <1>7, <2>1 DEF KeepsFile, WritesOnly, Flips, Two
  <2> QED BY <2>2, <2>3
<1>8. ASSUME NEW k \in DOMAIN set, k # n, set[k].path = a
      PROVE  k < n /\ set[k].act = "SetExecutable"
  <2>1. Mentions(set[k], a)
    BY <1>8 DEF Mentions, Names
  <2> QED BY <1>5, <1>8, <2>1 DEF Flips
<1>9. ASSUME NEW k \in DOMAIN set, k # n, set[k].path = b
      PROVE  k > n /\ set[k].act \in {"Write", "CopyFrom", "SetExecutable"}
  <2>1. Mentions(set[k], b)
    BY <1>9 DEF Mentions, Names
  <2> QED BY <1>6, <1>9, <2>1 DEF KeepsFile, WritesOnly, Flips
<1> QED BY <1>2, <1>4, <1>7, <1>8, <1>9

\* The same, said of the ops of each path of a rename.
LEMMA RenamePaths ==
  ASSUME NEW set \in Seq(Op), Admissible(set), NEW n \in Renames(set)
  PROVE  LET a == set[n].path
             b == set[n].other
         IN  /\ Puts(set, a) = {} /\ Clears(set, a) = {} /\ Clears(set, b) = {}
             /\ Puts(set, b) = Fills(set, b)
             /\ \A k \in Puts(set, b) : k > n
             /\ \A k \in FlipsOf(set, a) : k < n
             /\ \A k \in FlipsOf(set, b) : k > n
             /\ \A m \in Renames(set) : m # n =>
                  Names(set[m]) \cap {a, b} = {}
<1> DEFINE a == set[n].path
           b == set[n].other
<1>1. n \in DOMAIN set /\ set[n].act = "Rename" /\ a # b
      /\ Renames(set) \subseteq DOMAIN set
  BY RenamesApart DEF Renames
<1>2. \A k \in DOMAIN set : k # n =>
        /\ ~Two(set[k]) \/ set[k].other \notin {a, b}
        /\ set[k].path = a => k < n /\ set[k].act = "SetExecutable"
        /\ set[k].path = b => k > n /\ set[k].act \in {"Write", "CopyFrom", "SetExecutable"}
  BY RenamesApart
<1> HIDE DEF a, b
<1>3. Puts(set, a) = {} /\ Clears(set, a) = {}
  BY <1>1, <1>2 DEF Puts, Clears
<1>4. Puts(set, b) = Fills(set, b) /\ Clears(set, b) = {} /\ \A k \in Puts(set, b) : k > n
  BY <1>1, <1>2 DEF Puts, Fills, Clears, Lands
<1>5. (\A k \in FlipsOf(set, a) : k < n) /\ (\A k \in FlipsOf(set, b) : k > n)
  BY <1>1, <1>2 DEF FlipsOf, Flips
<1>6. ASSUME NEW m \in Renames(set), m # n PROVE Names(set[m]) \cap {a, b} = {}
  <2>1. m \in DOMAIN set /\ set[m].act = "Rename" /\ Two(set[m])
    BY <1>1 DEF Renames, Two
  <2>2. set[m].path \notin {a, b} /\ set[m].other \notin {a, b}
    BY <1>2, <1>6, <2>1
  <2> QED BY <2>1, <2>2 DEF Names
<1> QED BY <1>3, <1>4, <1>5, <1>6 DEF a, b

\* A path no op names but to copy from it keeps the entry it had, and so the
\* copies of a sane set read what they read before it.
LEMMA SourceStable ==
  ASSUME NEW t \in Trees, NEW set \in Seq(Op), Sane(t, set),
         NEW u \in Trees, BodiesKept(t, set, u),
         NEW k \in DOMAIN set, set[k].act = "CopyFrom"
  PROVE  /\ Readable(u, set[k].other) <=> Readable(t, set[k].other)
         /\ Readable(t, set[k].other) => BytesAt(u, set[k].other) = BytesAt(t, set[k].other)
<1> DEFINE q == set[k].other
<1>1. set[k] \in Op /\ q \in Path /\ q \in Slot
  BY OpFields, AsideSlots
<1>2. \A x \in Through(t, q) \cup {q} : x \in Path
  BY <1>1, HopsSteps DEF Through
<1>3. ASSUME NEW x \in Through(t, q) \cup {q}
      PROVE  Puts(set, x) = {} /\ ~InRename(set, x)
  <2>1. CASE x # q
    <3>1. \A m \in DOMAIN set : ~Mentions(set[m], x)
      BY <1>3, <2>1 DEF Sane
    <3> QED BY <3>1 DEF Mentions, Names, Puts, InRename, Renames
  <2>2. CASE x = q
    <3>1. ASSUME NEW m \in DOMAIN set, Mentions(set[m], q)
          PROVE  set[m].act = "CopyFrom" /\ set[m].path # q
      <4>1. CopyAllows(set[k], k, set[m], m)
        BY DEF Sane, Admissible, Pair
      <4> QED BY <3>1, <4>1 DEF CopyAllows, OnlyCopiesFrom
    <3>2. Puts(set, q) = {}
      BY <3>1 DEF Puts, Mentions, Names
    <3>3. ~InRename(set, q)
      BY <3>1 DEF InRename, Renames, Mentions
    <3> QED BY <2>2, <3>2, <3>3
  <2> QED BY <2>1, <2>2
<1>4. \A x \in Through(t, q) \cup {q} : Bare(u[x]) = Bare(t[x])
  BY <1>2, <1>3 DEF BodiesKept, SpotKept
<1> QED BY <1>1, <1>4, ReadAlike

-----------------------------------------------------------------------------
(* Every op keeps what is said of every tree, once the renames before it are *)
(* done.                                                                     *)

\* What a rename leaves at the paths of the others, and of the spots.
LEMMA OneRename ==
  ASSUME NEW set \in Seq(Op), Admissible(set), NEW p \in Path, NEW n \in Renames(set),
         p \in Names(set[n])
  PROVE  /\ InRename(set, p)
         /\ \A m \in Renames(set) : m # n => p # set[m].path /\ p # set[m].other
         /\ p \in {set[n].path, set[n].other}
<1>1. Names(set[n]) = {set[n].path, set[n].other}
  BY DEF Renames, Names, Two
<1>2. ASSUME NEW m \in Renames(set), m # n PROVE p # set[m].path /\ p # set[m].other
  <2>1. Names(set[m]) \cap {set[n].path, set[n].other} = {}
    BY <1>2, RenamePaths
  <2>2. set[m].path \in Names(set[m]) /\ set[m].other \in Names(set[m])
    BY DEF Renames, Names, Two
  <2> QED BY <1>1, <2>1, <2>2
<1> QED BY <1>1, <1>2 DEF InRename

\* A change of one spot, or of the two paths of one rename, is all there is to
\* look at.
LEMMA KeptElsewhere ==
  ASSUME NEW t \in Trees, NEW set \in Seq(Op), Admissible(set),
         NEW u \in Trees, NEW w \in Trees, BodiesKept(t, set, u),
         NEW X \in SUBSET Path, \A x \in Path \ X : w[x] = u[x],
         \A p \in X : ~InRename(set, p) => SpotKept(t, set, p, w[p]),
         \A n \in Renames(set) : Names(set[n]) \cap X # {} =>
           MoveKept(t, set, n, w[set[n].path], w[set[n].other])
  PROVE  BodiesKept(t, set, w)
<1>1. ASSUME NEW p \in Path, ~InRename(set, p) PROVE SpotKept(t, set, p, w[p])
  <2>1. p \notin X => w[p] = u[p]
    OBVIOUS
  <2> QED BY <1>1, <2>1 DEF BodiesKept
<1>2. ASSUME NEW n \in Renames(set)
      PROVE  MoveKept(t, set, n, w[set[n].path], w[set[n].other])
  <2>1. CASE Names(set[n]) \cap X # {}
    BY <2>1
  <2>2. CASE Names(set[n]) \cap X = {}
    <3>1. set[n].path \in Path /\ set[n].other \in Path
      BY RenamesApart
    <3>2. set[n].path \in Names(set[n]) /\ set[n].other \in Names(set[n])
      BY DEF Renames, Names, Two
    <3>3. w[set[n].path] = u[set[n].path] /\ w[set[n].other] = u[set[n].other]
      BY <2>2, <3>1, <3>2
    <3> QED BY <3>3 DEF BodiesKept
  <2> QED BY <2>1, <2>2
<1> QED BY <1>1, <1>2 DEF BodiesKept

\* What stands at the destination of a rename that is done, or never can be:
\* if it is not a directory, neither is what the rename moves.
LEMMA DestinationPast ==
  ASSUME NEW t \in Trees, NEW u \in Trees, NEW set \in Seq(Op), Admissible(set),
         NEW n \in Renames(set),
         MoveKept(t, set, n, u[set[n].path], u[set[n].other]),
         IsDir(t[set[n].other]) \/ u[set[n].path] = Absent,
         ~IsDir(u[set[n].other])
  PROVE  /\ u[set[n].path] = Absent
         /\ ~IsDir(t[set[n].other]) /\ ~IsDir(t[set[n].path])
<1>1. PICK a \in Path, b \in Path : a = set[n].path /\ b = set[n].other
  BY RenamesApart
<1>2. /\ t[a] \in Entry /\ t[b] \in Entry /\ u[a] \in Entry /\ u[b] \in Entry
      /\ Absent \in Entry /\ ~IsDir(Absent)
  BY <1>1, EntryTypes, AsideSlots DEF Trees, IsDir, Absent
<1>3. /\ Bare(u[b]) = Bare(t[b]) => (IsDir(u[b]) <=> IsDir(t[b]))
      /\ Bare(u[b]) = Bare(t[a]) => (IsDir(u[b]) <=> IsDir(t[a]))
      /\ Bare(u[a]) = Bare(t[a]) => (IsDir(u[a]) <=> IsDir(t[a]))
  BY <1>2, BareKinds
<1> QED BY <1>1, <1>2, <1>3 DEF MoveKept

\* An op that puts an entry somewhere keeps it.
LEMMA PutKeeps ==
  ASSUME AtomicReplace, NEW t \in Trees, NEW set \in Seq(Op), Admissible(set),
         NEW u \in Trees, BodiesKept(t, set, u),
         NEW j \in DOMAIN set, Past(t, set, u, j - 1),
         NEW e \in Entry, NEW p \in Path, p = set[j].path, ~IsDir(u[p]),
         \/ set[j].act \in {"Write", "CopyFrom"} /\ IsFile(e)
         \/ set[j].act = "Remove" /\ e = Absent
         \/ set[j].act = "SetLink" /\ IsLink(e)
  PROVE  BodiesKept(t, set, [u EXCEPT ![p] = e])
<1> DEFINE w == [u EXCEPT ![p] = e]
<1>1. p \in Slot /\ w \in Trees /\ w[p] = e /\ \A x \in Path \ {p} : w[x] = u[x]
  BY AsideSlots DEF Trees
<1>2. j \in Puts(set, p) /\ (IsFile(e) => j \in Fills(set, p)) /\ (IsLink(e) => j \in Links(set, p))
  BY DEF Puts, Fills, Links, Lands, IsFile, IsLink, Absent
<1>3. ~IsDir(e)
  BY DEF IsFile, IsLink, IsDir, Absent
<1> HIDE DEF w
<1>4. ASSUME ~InRename(set, p) PROVE SpotKept(t, set, p, e)
  BY <1>2, <1>3, <1>4 DEF BodiesKept, SpotKept
<1>5. ASSUME NEW n \in Renames(set), Names(set[n]) \cap {p} # {}
      PROVE  MoveKept(t, set, n, w[set[n].path], w[set[n].other])
  <2>1. p \in {set[n].path, set[n].other}
    BY <1>5, OneRename
  <2>2. p = set[n].other /\ n < j /\ n # j /\ IsFile(e) /\ set[n].path # p /\ set[n].path \in Path
    BY <1>2, <2>1, RenamePaths, RenamesApart DEF Clears, Fills, Lands, Puts
  <2>3. IsDir(t[set[n].other]) \/ u[set[n].path] = Absent
    <3>1. n <= j - 1
      BY <2>2 DEF Renames
    <3> QED BY <3>1 DEF Past
  <2>4. /\ u[set[n].path] = Absent
        /\ ~IsDir(t[set[n].other]) /\ ~IsDir(t[set[n].path])
    BY <2>2, <2>3, DestinationPast DEF BodiesKept
  <2>5. w[set[n].path] = Absent /\ w[set[n].other] = e
    BY <1>1, <2>2, <2>4
  <2> QED BY <1>2, <2>2, <2>4, <2>5 DEF MoveKept
<1>6. PICK X \in SUBSET Path : X = {p}
  OBVIOUS
<1>7. BodiesKept(t, set, w)
  <2>1. \A x \in X : ~InRename(set, x) => SpotKept(t, set, x, w[x])
    BY <1>1, <1>4, <1>6
  <2>2. \A n \in Renames(set) : Names(set[n]) \cap X # {} =>
          MoveKept(t, set, n, w[set[n].path], w[set[n].other])
    BY <1>5, <1>6
  <2>3. w \in Trees /\ \A x \in Path \ X : w[x] = u[x]
    BY <1>1, <1>6
  <2> QED BY <2>1, <2>2, <2>3, KeptElsewhere
<1> QED BY <1>7 DEF w

\* So does a change of nothing but modes.
LEMMA ModesOnlyKeep ==
  ASSUME NEW t \in Trees, NEW set \in Seq(Op), Admissible(set),
         NEW u \in Trees, NEW w \in Trees, BodiesKept(t, set, u),
         \A x \in Path : Bare(w[x]) = Bare(u[x])
  PROVE  /\ BodiesKept(t, set, w)
         /\ \A j \in Nat : Past(t, set, u, j) => Past(t, set, w, j)
<1>1. ASSUME NEW x \in Path
      PROVE  /\ IsDir(w[x]) <=> IsDir(u[x])
             /\ IsLink(w[x]) => w[x] = u[x]
             /\ w[x] = Absent <=> u[x] = Absent
             /\ IsFile(w[x]) <=> IsFile(u[x])
  <2>1. w[x] \in Entry /\ u[x] \in Entry /\ Bare(w[x]) = Bare(u[x])
    BY AsideSlots DEF Trees
  <2> QED BY <2>1, BareKinds DEF IsLink, IsFile
<1>2. ASSUME NEW p \in Path, ~InRename(set, p) PROVE SpotKept(t, set, p, w[p])
  BY <1>1, <1>2 DEF BodiesKept, SpotKept
<1>3. ASSUME NEW n \in Renames(set)
      PROVE  /\ MoveKept(t, set, n, w[set[n].path], w[set[n].other])
             /\ w[set[n].path] = Absent <=> u[set[n].path] = Absent
  <2>1. set[n].path \in Path /\ set[n].other \in Path
    BY RenamesApart
  <2>2. MoveKept(t, set, n, u[set[n].path], u[set[n].other])
    BY DEF BodiesKept
  <2> QED BY <1>1, <2>1, <2>2 DEF MoveKept
<1> QED BY <1>2, <1>3 DEF BodiesKept, Past

\* An op's flip, made or not, changes modes at most.
LEMMA FlipBare ==
  ASSUME NEW u \in Trees, NEW op \in Op, op.act = "SetExecutable"
  PROVE  \A x \in Path : Bare(After(u, op)[x]) = Bare(u[x])
<1>1. op.path \in Path /\ op.path \in Slot
  BY OpFields, AsideSlots
<1>2. CASE IsFile(u[op.path])
  <2>1. After(u, op) = [u EXCEPT ![op.path] = File(u[op.path].bytes, op.exec)]
    BY <1>2, FlipEffect
  <2>2. Bare(File(u[op.path].bytes, op.exec)) = Bare(u[op.path])
    BY <1>2 DEF Bare, IsFile, File
  <2>3. /\ After(u, op)[op.path] = File(u[op.path].bytes, op.exec)
        /\ \A x \in Path : x # op.path => After(u, op)[x] = u[x]
    BY <1>1, <2>1, AsideSlots DEF Trees
  <2> QED BY <2>2, <2>3
<1>3. CASE ~IsFile(u[op.path])
  BY <1>3, FlipEffect
<1> QED BY <1>2, <1>3

\* A rename whose turn it is.
LEMMA RenameKeeps ==
  ASSUME NEW t \in Trees, NEW set \in Seq(Op), Sane(t, set),
         NEW u \in Trees, BodiesKept(t, set, u),
         NEW j \in Renames(set),
         NEW w, w = After(u, set[j])
  PROVE  /\ BodiesKept(t, set, w)
         /\ IsDir(t[set[j].other]) \/ w[set[j].path] = Absent
         /\ ~IsLink(u[set[j].path])
         /\ \A x \in Path : x \notin Names(set[j]) => w[x] = u[x]
<1>1. PICK a \in Path, b \in Path : a = set[j].path /\ b = set[j].other /\ a # b
  BY RenamesApart DEF Sane
<1>2. /\ set[j] \in Op /\ set[j].act = "Rename" /\ Names(set[j]) = {a, b}
      /\ Admissible(set) /\ ~IsLink(t[a])
  BY <1>1 DEF Renames, Names, Two, Sane
<1>m. \/ /\ Bare(u[a]) = Bare(t[a])
         /\ Bare(u[b]) = Bare(t[b]) \/ (u[b] = Absent /\ ~IsDir(t[b]))
      \/ u[a] = Absent /\ ~IsDir(t[b])
  BY <1>1 DEF BodiesKept, MoveKept
<1>3. /\ a \in Slot /\ b \in Slot /\ Absent \in Entry
      /\ t[a] \in Entry /\ t[b] \in Entry /\ u[a] \in Entry /\ u[b] \in Entry
  BY <1>1, EntryTypes, AsideSlots DEF Trees
<1>4. /\ Bare(u[a]) = Bare(t[a]) =>
           /\ IsLink(u[a]) <=> IsLink(t[a])
           /\ u[a] = Absent <=> t[a] = Absent
      /\ Bare(u[b]) = Bare(t[b]) => (IsDir(u[b]) <=> IsDir(t[b]))
  BY <1>3, BareKinds
<1>5. ~IsLink(u[a]) /\ ~IsLink(Absent) /\ ~IsDir(Absent)
  BY <1>2, <1>4, <1>m DEF IsLink, IsDir, Absent
<1>6. CASE u[a] = Absent \/ IsDir(u[b])
  <2>1. w = u
    BY <1>1, <1>2, <1>5, <1>6, RenameEffect
  <2>2. IsDir(t[b]) \/ u[a] = Absent
    BY <1>4, <1>5, <1>6, <1>m
  <2> QED BY <1>1, <1>5, <2>1, <2>2
<1>7. CASE u[a] # Absent /\ ~IsDir(u[b])
  <2>1. w = [u EXCEPT ![b] = u[a], ![a] = Absent]
    BY <1>1, <1>2, <1>5, <1>7, RenameEffect
  <2>2. /\ w \in Trees /\ w[a] = Absent /\ w[b] = u[a]
        /\ \A x \in Path : x \notin {a, b} => w[x] = u[x]
    BY <1>1, <1>3, <2>1, AsideSlots DEF Trees
  <2>3. ~IsDir(t[b]) /\ t[a] # Absent /\ Bare(u[a]) = Bare(t[a])
    BY <1>4, <1>5, <1>7, <1>m
  <2>4. MoveKept(t, set, j, w[a], w[b])
    BY <1>1, <2>2, <2>3 DEF MoveKept
  <2>5. PICK X \in SUBSET Path : X = {a, b}
    OBVIOUS
  <2>6. \A x \in X : ~InRename(set, x) => SpotKept(t, set, x, w[x])
    BY <1>2, <2>5 DEF InRename
  <2>7. ASSUME NEW n \in Renames(set), Names(set[n]) \cap X # {}
        PROVE  MoveKept(t, set, n, w[set[n].path], w[set[n].other])
    <3>1. n = j
      BY <1>1, <1>2, <2>5, <2>7, RenamePaths
    <3> QED BY <1>1, <2>4, <3>1
  <2>8. \A x \in Path \ X : w[x] = u[x]
    BY <2>2, <2>5
  <2>9. BodiesKept(t, set, w)
    <3>1. \A n \in Renames(set) : Names(set[n]) \cap X # {} =>
            MoveKept(t, set, n, w[set[n].path], w[set[n].other])
      BY <2>7
    <3>2. w \in Trees /\ Admissible(set)
      BY <1>2, <2>2
    <3> QED BY <2>6, <2>8, <3>1, <3>2, KeptElsewhere
  <2> QED BY <1>1, <1>2, <1>5, <2>2, <2>9
<1> QED BY <1>6, <1>7

\* Every op keeps what is said of every tree, and is itself done by it if it is
\* a rename.
LEMMA KeptStep ==
  ASSUME AtomicReplace, NEW t \in Trees, NEW set \in Seq(Op), Sane(t, set),
         NEW u \in Trees, BodiesKept(t, set, u),
         NEW j \in DOMAIN set, Past(t, set, u, j - 1)
  PROVE  BodiesKept(t, set, After(u, set[j])) /\ Past(t, set, After(u, set[j]), j)
<1> DEFINE op == set[j]
           p == set[j].path
<1>1. PICK w \in Trees : w = After(u, op)
  BY AfterNear DEF Near
<1>2. /\ op \in Op /\ p \in Path /\ p \in Slot /\ u[p] \in Entry /\ Admissible(set)
      /\ j \in Nat /\ j - 1 \in Nat /\ Renames(set) \subseteq Nat
  BY OpFields, AsideSlots DEF Trees, Sane, Renames
<1> HIDE DEF op, p
<1>3. CASE op.act \in {"Write", "CopyFrom", "Remove", "SetLink"}
  <2>1. j \notin Renames(set)
    BY <1>3 DEF Renames, op
  <2>2. ASSUME NEW n \in Renames(set), n <= j PROVE n <= j - 1
    BY <1>2, <2>1, <2>2
  <2>3. CASE Stands(u, op)
    <3>1. w = u
      BY <1>1, <1>2, <1>3, <2>3, PutEffect
    <3> QED BY <1>1, <2>2, <3>1 DEF Past, op
  <2>4. CASE ~Stands(u, op)
    <3>1. PICK e \in Entry : e = Put(u, op) /\ w = [u EXCEPT ![p] = e]
      BY <1>1, <1>2, <1>3, <2>4, PutEffect DEF op, p
    <3>2. /\ ~IsDir(u[p])
          /\ \/ op.act \in {"Write", "CopyFrom"} /\ IsFile(e)
             \/ op.act = "Remove" /\ e = Absent
             \/ op.act = "SetLink" /\ IsLink(e)
      BY <1>3, <2>4, <3>1 DEF Stands, Put, File, Link, IsFile, IsLink, op, p
    <3>3. BodiesKept(t, set, w)
      BY <1>2, <3>1, <3>2, PutKeeps DEF op, p
    <3>4. ASSUME NEW n \in Renames(set), n <= j
          PROVE  IsDir(t[set[n].other]) \/ w[set[n].path] = Absent
      <4>1. set[n].path # p /\ set[n].path \in Path
        BY <1>2, <1>3, <2>1, RenamesApart DEF op, p
      <4>2. w[set[n].path] = u[set[n].path]
        BY <1>2, <3>1, <4>1, AsideSlots DEF Trees
      <4> QED BY <2>2, <3>4, <4>2 DEF Past
    <3> QED BY <1>1, <3>3, <3>4 DEF Past, op
  <2> QED BY <2>3, <2>4
<1>4. CASE op.act = "SetExecutable"
  <2>1. BodiesKept(t, set, w) /\ Past(t, set, w, j - 1)
    BY <1>1, <1>2, <1>4, FlipBare, ModesOnlyKeep
  <2>2. \A n \in Renames(set) : n <= j => n <= j - 1
    BY <1>2, <1>4 DEF Renames, op
  <2> QED BY <1>1, <2>1, <2>2 DEF Past, op
<1>5. CASE op.act = "Rename"
  <2>1. j \in Renames(set)
    BY <1>5 DEF Renames, op
  <2>2. /\ BodiesKept(t, set, w)
        /\ IsDir(t[set[j].other]) \/ w[set[j].path] = Absent
        /\ \A x \in Path : x \notin Names(set[j]) => w[x] = u[x]
    BY <1>1, <2>1, RenameKeeps DEF op
  <2>3. ASSUME NEW n \in Renames(set), n <= j
        PROVE  IsDir(t[set[n].other]) \/ w[set[n].path] = Absent
    <3>1. CASE n = j
      BY <2>2, <3>1
    <3>2. CASE n # j
      <4>1. n <= j - 1 /\ set[n].path \in Path
        BY <1>2, <2>3, <3>2, RenamesApart
      <4>2. set[n].path \notin Names(set[j])
        BY <1>2, <2>1, <3>2, <4>1, OneRename
      <4> QED BY <2>2, <4>1, <4>2 DEF Past
    <3> QED BY <3>1, <3>2
  <2> QED BY <1>1, <2>2, <2>3 DEF Past, op
<1> QED BY <1>2, <1>3, <1>4, <1>5, OpFields

-----------------------------------------------------------------------------
(* The tree a set found, and every tree of its own run, is one a replay can  *)
(* begin from.                                                               *)

LEMMA BeginsKept ==
  ASSUME NEW t \in Trees, NEW set \in Seq(Op), Admissible(set)
  PROVE  BodiesKept(t, set, t) /\ Past(t, set, t, 0)
<1>1. \A n \in Renames(set) : n \in Nat /\ n # 0
  BY DEF Renames
<1> QED BY <1>1 DEF BodiesKept, SpotKept, MoveKept, Past

LEMMA RunKept ==
  ASSUME AtomicReplace, NEW t \in Trees, NEW set \in Seq(Op), Sane(t, set),
         NEW j \in 0 .. Len(set)
  PROVE  /\ Run(t, set)[j] \in Trees
         /\ BodiesKept(t, set, Run(t, set)[j])
         /\ Past(t, set, Run(t, set)[j], j)
<1> DEFINE v(k) == Run(t, set)[k]
           S == {k \in Nat : BodiesKept(t, set, v(k)) /\ Past(t, set, v(k), k)}
<1>1. Len(set) \in Nat /\ DOMAIN set = 1 .. Len(set) /\ v(0) = t
      /\ \A k \in 0 .. Len(set) : v(k) \in Trees
  BY RunSteps
<1>2. 0 \in S
  BY <1>1, BeginsKept DEF Sane
<1>3. ASSUME NEW k \in Nat, k < Len(set), k \in S PROVE k + 1 \in S
  <2>1. k + 1 \in DOMAIN set /\ (k + 1) - 1 = k /\ k \in 0 .. Len(set)
    BY <1>1, <1>3
  <2>2. v(k + 1) = After(v(k), set[k + 1])
    BY <2>1, RunSteps
  <2>3. BodiesKept(t, set, v(k + 1)) /\ Past(t, set, v(k + 1), k + 1)
    <3>1. v(k) \in Trees /\ BodiesKept(t, set, v(k)) /\ Past(t, set, v(k), (k + 1) - 1)
      BY <1>1, <1>3, <2>1
    <3> HIDE DEF v
    <3> QED BY <2>1, <2>2, <3>1, KeptStep
  <2> QED BY <2>3
<1>4. \A k \in 0 .. Len(set) : k \in S
  <2> HIDE DEF S
  <2> QED BY <1>1, <1>2, <1>3, UpTo
<1> QED BY <1>1, <1>4

\* An op changes what it puts an entry at, moves or flips, and nothing else.
LEMMA AfterFrame ==
  ASSUME AtomicReplace, NEW t \in Trees, NEW set \in Seq(Op), Sane(t, set),
         NEW u \in Trees, BodiesKept(t, set, u), NEW j \in DOMAIN set,
         NEW x \in Path, x # set[j].path, j \in Renames(set) => x # set[j].other
  PROVE  After(u, set[j])[x] = u[x]
<1>1. set[j] \in Op /\ x \in Slot
  BY AsideSlots
<1>2. CASE set[j].act \in {"Write", "CopyFrom", "Remove", "SetLink"}
  BY <1>1, <1>2, PutEffect DEF Trees
<1>3. CASE set[j].act = "SetExecutable"
  BY <1>1, <1>3, FlipEffect DEF Trees
<1>4. CASE set[j].act = "Rename"
  <2>1. j \in Renames(set) /\ x \notin Names(set[j])
    BY <1>4 DEF Renames, Names
  <2> QED BY <2>1, RenameKeeps
<1> QED BY <1>1, <1>2, <1>3, <1>4, OpFields

\* Nor does it change more than the mode of what it does not put or move.
LEMMA Untouched ==
  ASSUME AtomicReplace, NEW t \in Trees, NEW set \in Seq(Op), Sane(t, set),
         NEW u \in Trees, BodiesKept(t, set, u), NEW j \in DOMAIN set,
         NEW x \in Path, j \notin Puts(set, x), j \in Renames(set) => x \notin Names(set[j])
  PROVE  Bare(After(u, set[j])[x]) = Bare(u[x])
<1>1. set[j] \in Op
  OBVIOUS
<1>2. CASE set[j].act = "SetExecutable"
  BY <1>1, <1>2, FlipBare
<1>3. CASE set[j].act = "Rename"
  <2>1. x # set[j].path /\ x # set[j].other
    BY <1>3 DEF Renames, Names, Two
  <2> QED BY <2>1, AfterFrame
<1>4. CASE set[j].act \in {"Write", "CopyFrom", "Remove", "SetLink"}
  <2>1. x # set[j].path /\ j \notin Renames(set)
    BY <1>4 DEF Puts, Renames
  <2> QED BY <2>1, AfterFrame
<1> QED BY <1>1, <1>2, <1>3, <1>4, OpFields

\* Until its turn a rename's destination is as it was found, and its source is
\* but for its mode.
LEMMA RunBefore ==
  ASSUME AtomicReplace, NEW t \in Trees, NEW set \in Seq(Op), Sane(t, set),
         NEW n \in Renames(set), NEW j \in 0 .. Len(set), j < n
  PROVE  /\ Run(t, set)[j][set[n].other] = t[set[n].other]
         /\ Bare(Run(t, set)[j][set[n].path]) = Bare(t[set[n].path])
<1>1. PICK a \in Path, b \in Path : a = set[n].path /\ b = set[n].other /\ a # b
  BY RenamesApart DEF Sane
<1> DEFINE v(k) == Run(t, set)[k]
           S == {k \in Nat : k < n => v(k)[b] = t[b] /\ Bare(v(k)[a]) = Bare(t[a])}
<1>2. /\ Len(set) \in Nat /\ DOMAIN set = 1 .. Len(set) /\ v(0) = t
      /\ n \in DOMAIN set /\ Admissible(set)
  BY RunSteps DEF Renames, Sane
<1>3. 0 \in S
  BY <1>2
<1>4. ASSUME NEW k \in Nat, k < Len(set), k \in S PROVE k + 1 \in S
  <2>1. SUFFICES ASSUME k + 1 < n
                 PROVE  v(k + 1)[b] = t[b] /\ Bare(v(k + 1)[a]) = Bare(t[a])
    OBVIOUS
  <2>2. k + 1 \in DOMAIN set /\ (k + 1) - 1 = k /\ k \in 0 .. Len(set) /\ k < n
    BY <1>2, <1>4, <2>1
  <2>3. v(k + 1) = After(v(k), set[k + 1])
    BY <2>2, RunSteps
  <2>4. v(k) \in Trees /\ BodiesKept(t, set, v(k))
    BY <2>2, RunKept
  <2>5. v(k)[b] = t[b] /\ Bare(v(k)[a]) = Bare(t[a])
    BY <1>4, <2>2
  <2>6. /\ k + 1 # n /\ k + 1 \notin Puts(set, a)
        /\ set[k + 1].path # b
        /\ k + 1 \in Renames(set) => a \notin Names(set[k + 1]) /\ set[k + 1].other # b
    <3>p. Puts(set, a) = {}
      BY <1>1, <1>2, RenamePaths
    <3>1. k + 1 # n /\ ~(k + 1 > n) /\ k + 1 \notin Puts(set, a)
      BY <1>2, <2>1, <2>2, <3>p
    <3>2. set[k + 1].path # b
      BY <1>1, <1>2, <2>2, <3>1, RenamesApart
    <3>3. ASSUME k + 1 \in Renames(set) PROVE a \notin Names(set[k + 1]) /\ set[k + 1].other # b
      <4>1. Names(set[k + 1]) \cap {a, b} = {} /\ set[k + 1].other \in Names(set[k + 1])
        BY <1>1, <1>2, <3>1, <3>3, RenamePaths DEF Renames, Names, Two
      <4> QED BY <4>1
    <3> QED BY <3>1, <3>2, <3>3
  <2> HIDE DEF v
  <2>7. After(v(k), set[k + 1])[b] = v(k)[b]
    BY <2>2, <2>4, <2>6, AfterFrame
  <2>8. Bare(After(v(k), set[k + 1])[a]) = Bare(v(k)[a])
    BY <2>2, <2>4, <2>6, Untouched
  <2> QED BY <2>3, <2>5, <2>7, <2>8
<1>5. \A k \in 0 .. Len(set) : k \in S
  <2> HIDE DEF S
  <2> QED BY <1>2, <1>3, <1>4, UpTo
<1> QED BY <1>1, <1>5

-----------------------------------------------------------------------------
(* What an op decides it puts right, whatever the tree it is made on.        *)

\* Of the two paths of a rename that is done, or never can be: the source is as
\* in any other such tree, and the destination a directory if it, or what was
\* to move there, was one.
LEMMA RenamePast ==
  ASSUME NEW t \in Trees, NEW set \in Seq(Op), Admissible(set),
         NEW u \in Trees, NEW n \in Renames(set),
         MoveKept(t, set, n, u[set[n].path], u[set[n].other]),
         IsDir(t[set[n].other]) \/ u[set[n].path] = Absent
  PROVE  LET a == set[n].path
             b == set[n].other
         IN  /\ Bare(u[a]) = IF IsDir(t[b]) THEN Bare(t[a]) ELSE Absent
             /\ IsDir(u[b]) <=> IsDir(t[b]) \/ IsDir(t[a])
             /\ IsDir(t[b]) => Bare(u[b]) = Bare(t[b])
             /\ (t[a] # Absent /\ ~IsDir(t[b]) /\ Fills(set, b) = {}) =>
                  Bare(u[b]) = Bare(t[a])
             /\ (t[a] = Absent /\ Fills(set, b) = {}) =>
                  u[a] = Absent /\ (Bare(u[b]) = Bare(t[b]) \/ u[b] = Absent)
<1>1. PICK a \in Path, b \in Path : a = set[n].path /\ b = set[n].other
  BY RenamesApart
<1>2. /\ t[a] \in Entry /\ t[b] \in Entry /\ u[a] \in Entry /\ u[b] \in Entry
      /\ Absent \in Entry /\ ~IsDir(Absent) /\ Bare(Absent) = Absent
  BY <1>1, EntryTypes, AsideSlots DEF Trees, IsDir, IsFile, Bare, Absent
<1>3. /\ Bare(u[b]) = Bare(t[b]) => (IsDir(u[b]) <=> IsDir(t[b]))
      /\ Bare(u[b]) = Bare(t[a]) => (IsDir(u[b]) <=> IsDir(t[a]))
      /\ Bare(u[a]) = Bare(t[a]) => ((u[a] = Absent) <=> (t[a] = Absent))
      /\ IsFile(u[b]) => ~IsDir(u[b])
      /\ IsDir(t[a]) => t[a] # Absent
  BY <1>2, BareKinds DEF IsFile, IsDir
<1>4. \/ /\ Bare(u[a]) = Bare(t[a])
         /\ Bare(u[b]) = Bare(t[b]) \/ (u[b] = Absent /\ ~IsDir(t[b]))
      \/ /\ u[a] = Absent /\ ~IsDir(t[b])
         /\ \/ t[a] # Absent /\ Bare(u[b]) = Bare(t[a])
            \/ IsFile(u[b]) /\ Fills(set, b) # {} /\ ~IsDir(t[a])
  BY <1>1 DEF MoveKept
<1>5. Bare(u[a]) = IF IsDir(t[b]) THEN Bare(t[a]) ELSE Absent
  BY <1>1, <1>2, <1>4
<1>6. IsDir(u[b]) <=> IsDir(t[b]) \/ IsDir(t[a])
  BY <1>1, <1>2, <1>3, <1>4
<1>7. /\ IsDir(t[b]) => Bare(u[b]) = Bare(t[b])
      /\ (t[a] # Absent /\ ~IsDir(t[b]) /\ Fills(set, b) = {}) => Bare(u[b]) = Bare(t[a])
      /\ (t[a] = Absent /\ Fills(set, b) = {}) =>
           u[a] = Absent /\ (Bare(u[b]) = Bare(t[b]) \/ u[b] = Absent)
  BY <1>1, <1>2, <1>3, <1>4
<1> QED BY <1>1, <1>5, <1>6, <1>7

\* Whether an op finds a directory in its way does not depend on the tree.
LEMMA DirectoriesAlike ==
  ASSUME NEW t \in Trees, NEW set \in Seq(Op), Admissible(set), NEW j \in DOMAIN set,
         NEW u \in Trees, BodiesKept(t, set, u), Past(t, set, u, j - 1),
         NEW v \in Trees, BodiesKept(t, set, v), Past(t, set, v, j - 1),
         NEW x \in Path, j \in Puts(set, x)
  PROVE  IsDir(u[x]) <=> IsDir(v[x])
<1>1. CASE ~InRename(set, x)
  BY <1>1 DEF BodiesKept, SpotKept
<1>2. CASE InRename(set, x)
  <2>1. PICK n \in Renames(set) : x \in Names(set[n])
    BY <1>2 DEF InRename
  <2>a. x \in {set[n].path, set[n].other}
    BY <2>1, OneRename
  <2>b. Puts(set, set[n].path) = {} /\ \A k \in Puts(set, set[n].other) : k > n
    BY RenamePaths
  <2>2. x = set[n].other /\ j > n
    BY <2>a, <2>b
  <2>3. n <= j - 1
    BY <2>2 DEF Renames
  <2>4. /\ IsDir(t[set[n].other]) \/ u[set[n].path] = Absent
        /\ IsDir(t[set[n].other]) \/ v[set[n].path] = Absent
        /\ MoveKept(t, set, n, u[set[n].path], u[set[n].other])
        /\ MoveKept(t, set, n, v[set[n].path], v[set[n].other])
    BY <2>3 DEF Past, BodiesKept
  <2>5. IsDir(u[x]) <=> IsDir(t[set[n].other]) \/ IsDir(t[set[n].path])
    BY <2>2, <2>4, RenamePast
  <2>6. IsDir(v[x]) <=> IsDir(t[set[n].other]) \/ IsDir(t[set[n].path])
    BY <2>2, <2>4, RenamePast
  <2> QED BY <2>5, <2>6
<1> QED BY <1>1, <1>2

\* An op that puts an entry somewhere puts the same one on any two such trees,
\* but for its mode, if it can be made on either.
LEMMA PutsAlike ==
  ASSUME AtomicReplace,
         NEW t \in Trees, NEW set \in Seq(Op), Sane(t, set), NEW j \in DOMAIN set,
         NEW u \in Trees, BodiesKept(t, set, u), Past(t, set, u, j - 1),
         NEW v \in Trees, BodiesKept(t, set, v), Past(t, set, v, j - 1),
         CanReplay(u, set[j]) \/ CanRun(u, set[j]),
         NEW x \in Path, j \in Puts(set, x)
  PROVE  Bare(After(u, set[j])[x]) = Bare(After(v, set[j])[x])
<1> DEFINE op == set[j]
<1>1. /\ op \in Op /\ op.path = x /\ x \in Slot
      /\ op.act \in {"Write", "CopyFrom", "Remove", "SetLink"}
      /\ u[x] \in Entry /\ v[x] \in Entry
  BY AsideSlots DEF Puts, Trees
<1>2. IsDir(u[x]) <=> IsDir(v[x])
  BY DirectoriesAlike DEF Sane
<1>3. op.act = "CopyFrom" =>
        /\ Readable(u, op.other) /\ Readable(v, op.other)
        /\ BytesAt(u, op.other) = BytesAt(v, op.other)
  <2>1. SUFFICES ASSUME op.act = "CopyFrom"
                 PROVE  /\ Readable(u, op.other) /\ Readable(v, op.other)
                        /\ BytesAt(u, op.other) = BytesAt(v, op.other)
    OBVIOUS
  <2>2. Readable(u, op.other)
    BY <2>1 DEF CanReplay, CanRun
  <2>3. /\ Readable(u, op.other) <=> Readable(t, op.other)
        /\ Readable(t, op.other) => BytesAt(u, op.other) = BytesAt(t, op.other)
    BY <2>1, SourceStable
  <2>4. /\ Readable(v, op.other) <=> Readable(t, op.other)
        /\ Readable(t, op.other) => BytesAt(v, op.other) = BytesAt(t, op.other)
    BY <2>1, SourceStable
  <2> QED BY <2>2, <2>3, <2>4
<1> HIDE DEF op
<1>4. CASE IsDir(u[x])
  <2>1. Stands(u, op) /\ Stands(v, op)
    BY <1>1, <1>2, <1>4 DEF Stands
  <2>2. After(u, op) = u /\ After(v, op) = v
    BY <1>1, <2>1, PutEffect
  <2>3. u[x] = Directory /\ v[x] = Directory
    BY <1>1, <1>2, <1>4, EntryKinds DEF IsDir
  <2> QED BY <2>2, <2>3 DEF op
<1>5. CASE ~IsDir(u[x])
  <2>1. ~Stands(u, op) /\ ~Stands(v, op)
    BY <1>1, <1>2, <1>3, <1>5 DEF Stands
  <2>2. After(u, op)[x] = Put(u, op) /\ After(v, op)[x] = Put(v, op)
    BY <1>1, <2>1, PutEffect DEF Trees
  <2>3. Bare(Put(u, op)) = Bare(Put(v, op))
    BY <1>1, <1>3 DEF Put, Bare, File, IsFile, Absent, Link
  <2> QED BY <2>2, <2>3 DEF op
<1> QED BY <1>4, <1>5

\* An op makes what it decides, and what the ops before it decided stays.
LEMMA AgreeStep ==
  ASSUME AtomicReplace, NEW t \in Trees, NEW set \in Seq(Op), Sane(t, set),
         NEW u \in Trees, BodiesKept(t, set, u),
         NEW j \in DOMAIN set, Past(t, set, u, j - 1), BodiesAgree(t, set, u, j - 1),
         CanReplay(u, set[j]) \/ CanRun(u, set[j])
  PROVE  BodiesAgree(t, set, After(u, set[j]), j)
<1>1. /\ Len(set) \in Nat /\ DOMAIN set = 1 .. Len(set) /\ Admissible(set)
      /\ set[j] \in Op /\ j \in 0 .. Len(set) /\ j - 1 \in 0 .. Len(set)
      /\ j \in Nat /\ j - 1 \in Nat /\ j - 1 < j
  BY RunSteps DEF Sane
<1>2. PICK v \in Trees : v = Run(t, set)[j - 1] /\ BodiesKept(t, set, v) /\ Past(t, set, v, j - 1)
  BY <1>1, RunKept
<1>3. PICK z \in Trees : /\ z = Run(t, set)[j] /\ z = After(v, set[j])
                         /\ BodiesKept(t, set, z) /\ Past(t, set, z, j)
  BY <1>1, <1>2, RunKept, RunSteps
<1>4. PICK w \in Trees : /\ w = After(u, set[j])
                         /\ BodiesKept(t, set, w) /\ Past(t, set, w, j)
  BY <1>1, KeptStep, AfterNear DEF Near
<1>5. SUFFICES ASSUME NEW x \in Path, BodyDue(set, x, j) PROVE Bare(w[x]) = Bare(z[x])
  BY <1>3, <1>4 DEF BodiesAgree
<1>6. CASE j \in Puts(set, x)
  BY <1>2, <1>3, <1>4, <1>6, PutsAlike
<1>7. ASSUME j \notin Puts(set, x), j \in Renames(set) => x \notin Names(set[j])
      PROVE  Bare(w[x]) = Bare(z[x])
  <2>1. BodyDue(set, x, j - 1)
    <3>1. ASSUME NEW n \in Renames(set), x \in Names(set[n]) PROVE n <= j - 1
      <4>1. n <= j /\ n # j /\ n \in Nat
        BY <1>5, <1>7, <3>1 DEF BodyDue, Renames
      <4> QED BY <1>1, <4>1
    <3>2. Decided(Puts(set, x), j - 1)
      <4>1. \A k \in Puts(set, x) : k \in Nat /\ k # j
        BY <1>7 DEF Puts
      <4>2. \A k \in Puts(set, x) : k <= j => k <= j - 1
        BY <1>1, <4>1
      <4> QED BY <1>5, <4>2 DEF BodyDue, Decided
    <3> QED BY <3>1, <3>2 DEF BodyDue
  <2>2. Bare(u[x]) = Bare(v[x])
    BY <1>2, <2>1 DEF BodiesAgree
  <2>3. Bare(w[x]) = Bare(u[x])
    BY <1>4, <1>7, Untouched
  <2>4. Bare(z[x]) = Bare(v[x])
    BY <1>2, <1>3, <1>7, Untouched
  <2> QED BY <2>2, <2>3, <2>4
<1>8. ASSUME j \in Renames(set), x \in Names(set[j]) PROVE Bare(w[x]) = Bare(z[x])
  <2>1. PICK a \in Path, b \in Path : a = set[j].path /\ b = set[j].other /\ a # b
    BY <1>1, <1>8, RenamesApart
  <2>2. /\ set[j].act = "Rename" /\ x \in {a, b}
        /\ t[a] \in Entry /\ t[b] \in Entry /\ u[a] \in Entry /\ u[b] \in Entry
        /\ v[a] \in Entry /\ a \in Slot /\ b \in Slot /\ Absent \in Entry
    BY <1>8, <2>1, EntryTypes, AsideSlots DEF Renames, Names, Two, Trees
  <2>3. /\ MoveKept(t, set, j, w[a], w[b]) /\ (IsDir(t[b]) \/ w[a] = Absent)
        /\ MoveKept(t, set, j, z[a], z[b]) /\ (IsDir(t[b]) \/ z[a] = Absent)
    BY <1>1, <1>3, <1>4, <1>8, <2>1 DEF BodiesKept, Past
  <2>4. /\ Bare(w[a]) = IF IsDir(t[b]) THEN Bare(t[a]) ELSE Absent
        /\ IsDir(t[b]) => Bare(w[b]) = Bare(t[b])
        /\ (t[a] # Absent /\ ~IsDir(t[b]) /\ Fills(set, b) = {}) => Bare(w[b]) = Bare(t[a])
        /\ (t[a] = Absent /\ Fills(set, b) = {}) =>
             w[a] = Absent /\ (Bare(w[b]) = Bare(t[b]) \/ w[b] = Absent)
    BY <1>1, <1>8, <2>1, <2>3, RenamePast
  <2>5. /\ Bare(z[a]) = IF IsDir(t[b]) THEN Bare(t[a]) ELSE Absent
        /\ IsDir(t[b]) => Bare(z[b]) = Bare(t[b])
        /\ (t[a] # Absent /\ ~IsDir(t[b]) /\ Fills(set, b) = {}) => Bare(z[b]) = Bare(t[a])
    BY <1>1, <1>8, <2>1, <2>3, RenamePast
  <2>6. CASE x = a
    BY <2>4, <2>5, <2>6
  <2>7. ASSUME x = b PROVE Fills(set, b) = {}
    <3>1. Puts(set, b) = Fills(set, b) /\ \A k \in Puts(set, b) : k > j
      BY <1>1, <1>8, <2>1, RenamePaths
    <3>2. \A k \in Puts(set, b) : ~(k <= j)
      <4>1. Puts(set, b) \subseteq Nat
        BY DEF Puts
      <4> QED BY <1>1, <3>1, <4>1
    <3> QED BY <1>5, <2>7, <3>1, <3>2 DEF BodyDue, Decided
  <2>8. CASE x = b /\ (t[a] # Absent \/ IsDir(t[b]))
    BY <2>4, <2>5, <2>7, <2>8
  <2>9. CASE x = b /\ t[a] = Absent /\ ~IsDir(t[b])
    <3>1. u[a] = Absent
      <4>1. Bare(u[a]) = Bare(t[a]) \/ u[a] = Absent
        BY <1>8, <2>1 DEF BodiesKept, MoveKept
      <4> QED BY <2>2, <2>9, <4>1, BareKinds
    <3>2. w = u
      BY <1>1, <1>4, <2>1, <2>2, <3>1, RenameEffect DEF IsLink, Absent
    <3>3. ~Exists(u, a) /\ Exists(u, b)
      <4>1. ~Exists(u, a)
        BY <2>2, <3>1, ReferentSlot DEF Exists, IsLink, Absent
      <4>2. ~CanMove(u, a, b)
        BY <3>1 DEF CanMove
      <4> QED BY <2>1, <2>2, <4>1, <4>2 DEF CanReplay, CanRun
    <3>4. w[b] # Absent
      BY <2>2, <3>2, <3>3, ReferentSlot DEF Exists, IsLink, Absent
    <3>5. Bare(w[b]) = Bare(t[b])
      BY <2>4, <2>7, <2>9, <3>4
    <3>6. v[b] = t[b] /\ Bare(v[a]) = Bare(t[a])
      BY <1>1, <1>2, <1>8, <2>1, RunBefore
    <3>7. v[a] = Absent
      BY <2>2, <2>9, <3>6, BareKinds
    <3>8. z = v
      BY <1>1, <1>3, <2>1, <2>2, <3>7, RenameEffect DEF IsLink, Absent
    <3> QED BY <2>9, <3>5, <3>6, <3>8
  <2> QED BY <2>2, <2>6, <2>8, <2>9
<1> QED BY <1>6, <1>7, <1>8

-----------------------------------------------------------------------------
(* No op of a set that can run is refused.                                   *)

\* What no op has put or moved yet is as it was found, but for its mode.
LEMMA RunUnput ==
  ASSUME AtomicReplace, NEW t \in Trees, NEW set \in Seq(Op), Sane(t, set),
         NEW x \in Path, ~InRename(set, x),
         NEW m \in 0 .. Len(set), \A k \in Puts(set, x) : k > m
  PROVE  Bare(Run(t, set)[m][x]) = Bare(t[x])
<1> DEFINE v(k) == Run(t, set)[k]
           S == {k \in Nat : k <= m => Bare(v(k)[x]) = Bare(t[x])}
<1>1. Len(set) \in Nat /\ DOMAIN set = 1 .. Len(set) /\ v(0) = t
  BY RunSteps
<1>2. 0 \in S
  BY <1>1
<1>3. ASSUME NEW k \in Nat, k < Len(set), k \in S PROVE k + 1 \in S
  <2>1. SUFFICES ASSUME k + 1 <= m PROVE Bare(v(k + 1)[x]) = Bare(t[x])
    OBVIOUS
  <2>2. k + 1 \in DOMAIN set /\ (k + 1) - 1 = k /\ k \in 0 .. Len(set) /\ k <= m
    BY <1>1, <1>3, <2>1
  <2>3. v(k + 1) = After(v(k), set[k + 1]) /\ Bare(v(k)[x]) = Bare(t[x])
    BY <1>3, <2>2, RunSteps
  <2>4. v(k) \in Trees /\ BodiesKept(t, set, v(k))
    BY <2>2, RunKept
  <2>5. k + 1 \notin Puts(set, x)
    BY <2>1, <2>2
  <2>6. k + 1 \in Renames(set) => x \notin Names(set[k + 1])
    BY DEF InRename
  <2> HIDE DEF v
  <2> QED BY <2>2, <2>3, <2>4, <2>5, <2>6, Untouched
<1>4. \A k \in 0 .. Len(set) : k \in S
  <2> HIDE DEF S
  <2> QED BY <1>1, <1>2, <1>3, UpTo
<1> QED BY <1>4

\* What a rename of a set that can run found at its paths.
LEMMA CompletesRename ==
  ASSUME AtomicReplace, NEW t \in Trees, NEW set \in Seq(Op), Sane(t, set),
         Completes(t, set), NEW n \in Renames(set)
  PROVE  /\ t[set[n].path] # Absent /\ ~IsLink(t[set[n].path])
         /\ ~IsDir(t[set[n].other])
         /\ IsDir(t[set[n].path]) => t[set[n].other] = Absent
<1>1. /\ Len(set) \in Nat /\ DOMAIN set = 1 .. Len(set) /\ Admissible(set)
      /\ n \in DOMAIN set /\ set[n].act = "Rename" /\ n - 1 \in 0 .. Len(set) /\ n - 1 < n
  BY RunSteps DEF Sane, Renames
<1>2. PICK a \in Path, b \in Path : a = set[n].path /\ b = set[n].other
  BY <1>1, RenamesApart
<1>3. PICK v \in Trees : v = Run(t, set)[n - 1]
  BY <1>1, RunSteps
<1>4. CanMove(v, a, b)
  BY <1>1, <1>2, <1>3 DEF Completes, CanRun
<1>5. v[b] = t[b] /\ Bare(v[a]) = Bare(t[a])
  BY <1>1, <1>2, <1>3, RunBefore
<1>6. (v[a] = Absent <=> t[a] = Absent) /\ (IsDir(v[a]) <=> IsDir(t[a]))
  BY <1>2, <1>5, BareKinds, AsideSlots DEF Trees
<1> QED BY <1>2, <1>4, <1>5, <1>6 DEF CanMove, Sane

\* What is flipped in a set that can run is never a link.
LEMMA FlippedNoLink ==
  ASSUME AtomicReplace, NEW t \in Trees, NEW set \in Seq(Op), Sane(t, set),
         Completes(t, set), NEW u \in Trees, BodiesKept(t, set, u),
         NEW j \in DOMAIN set, set[j].act = "SetExecutable",
         Past(t, set, u, j - 1), BodiesAgree(t, set, u, j - 1)
  PROVE  ~IsLink(u[set[j].path])
<1>1. /\ Len(set) \in Nat /\ DOMAIN set = 1 .. Len(set) /\ Admissible(set)
      /\ set[j] \in Op /\ j \in 0 .. Len(set) /\ j - 1 \in 0 .. Len(set)
      /\ j \in Nat /\ j - 1 \in Nat /\ j - 1 < j
  BY RunSteps DEF Sane
<1>2. PICK p \in Path : p = set[j].path
  BY <1>1, OpFields
<1>3. PICK v \in Trees : v = Run(t, set)[j - 1]
  BY <1>1, RunSteps
<1>4. /\ p \in Slot /\ u[p] \in Entry /\ v[p] \in Entry /\ t[p] \in Entry
      /\ ~IsLink(v[p])
  BY <1>2, <1>3, AsideSlots DEF Trees, Completes, CanRun, IsLink
<1>5. CASE ~InRename(set, p)
  <2>1. SUFFICES ASSUME IsLink(u[p]) PROVE FALSE
    BY <1>2
  <2>2. ~BodyDue(set, p, j - 1)
    <3>1. Bare(u[p]) = Bare(v[p]) => ~IsLink(u[p])
      BY <1>4, BareKinds
    <3> QED BY <1>3, <2>1, <3>1 DEF BodiesAgree
  <2>3. \A n \in Renames(set) : p \notin Names(set[n])
    BY <1>5 DEF InRename
  <2>4. Puts(set, p) # {} /\ \A k \in Puts(set, p) : ~(k <= j - 1)
    BY <2>2, <2>3 DEF BodyDue, Decided
  <2>5. \A k \in Puts(set, p) : k \in Nat /\ k > j - 1
    BY <1>1, <2>4 DEF Puts
  <2>6. Bare(v[p]) = Bare(t[p])
    BY <1>1, <1>3, <1>5, <2>5, RunUnput
  <2>7. ~IsLink(t[p])
    BY <1>4, <2>6, BareKinds
  <2>8. Links(set, p) # {}
    BY <1>5, <2>1, <2>7 DEF BodiesKept, SpotKept
  <2>9. PICK k \in Links(set, p) : TRUE
    BY <2>8
  <2>10. k \in DOMAIN set /\ k \in Puts(set, p) /\ set[k].path = p /\ set[k].act = "SetLink"
    BY <2>9 DEF Links, Puts
  <2>11. FlipAllows(set[j], j, set[k], k)
    BY <1>1, <2>10 DEF Admissible, Pair
  <2>12. ~(k > j)
    BY <1>2, <2>10, <2>11
      DEF FlipAllows, Mentions, Names, Two, KeepsFile, WritesOnly, Flips, Leaves
  <2>13. k # j
    BY <2>10
  <2> QED BY <1>1, <2>5, <2>10, <2>12, <2>13
<1>6. ASSUME NEW n \in Renames(set), p \in Names(set[n]) PROVE ~IsLink(u[p])
  <2>1. PICK a \in Path, b \in Path : a = set[n].path /\ b = set[n].other
    BY <1>1, RenamesApart
  <2>2. p \in {a, b}
    BY <1>1, <1>6, <2>1, OneRename
  <2>3. /\ t[a] \in Entry /\ t[b] \in Entry /\ u[a] \in Entry /\ u[b] \in Entry
        /\ ~IsLink(Absent)
    BY <2>1, AsideSlots DEF Trees, IsLink, Absent
  <2>4. t[a] # Absent /\ ~IsLink(t[a]) /\ ~IsDir(t[b])
    BY <2>1, CompletesRename
  <2>5. MoveKept(t, set, n, u[a], u[b])
    BY <2>1 DEF BodiesKept
  <2>6. Bare(u[a]) = Bare(t[a]) \/ u[a] = Absent
    BY <2>1, <2>5 DEF MoveKept
  <2>7. CASE p = a
    BY <2>3, <2>4, <2>6, <2>7, BareKinds
  <2>8. CASE p = b
    <3>1. n < j
      <4>1. j \in FlipsOf(set, b)
        BY <1>2, <2>8 DEF FlipsOf, Flips
      <4>2. \A k \in FlipsOf(set, b) : k > n
        BY <1>1, <2>1, RenamePaths
      <4> QED BY <1>1, <4>1, <4>2
    <3>2. n <= j - 1
      BY <1>1, <3>1 DEF Renames
    <3>3. u[a] = Absent
      BY <2>1, <2>4, <3>2 DEF Past
    <3>4. Bare(u[a]) # Bare(t[a])
      BY <2>3, <2>4, <3>3, BareKinds
    <3>5. Bare(u[b]) = Bare(t[a]) \/ IsFile(u[b])
      BY <2>1, <2>5, <3>4 DEF MoveKept
    <3>6. ~(IsFile(u[b]) /\ IsLink(u[b]))
      BY DEF IsFile, IsLink
    <3> QED BY <2>3, <2>4, <2>8, <3>5, <3>6, BareKinds
  <2> QED BY <2>2, <2>7, <2>8
<1> QED BY <1>2, <1>5, <1>6 DEF InRename

LEMMA CanReplayStep ==
  ASSUME AtomicReplace, NEW t \in Trees, NEW set \in Seq(Op), Sane(t, set),
         Completes(t, set), NEW u \in Trees, BodiesKept(t, set, u),
         NEW j \in DOMAIN set, Past(t, set, u, j - 1), BodiesAgree(t, set, u, j - 1)
  PROVE  CanReplay(u, set[j])
<1>1. /\ Len(set) \in Nat /\ DOMAIN set = 1 .. Len(set) /\ Admissible(set)
      /\ set[j] \in Op /\ j \in 0 .. Len(set) /\ j - 1 \in 0 .. Len(set)
  BY RunSteps DEF Sane
<1>2. PICK p \in Path : p = set[j].path
  BY <1>1, OpFields
<1>3. PICK v \in Trees : v = Run(t, set)[j - 1] /\ BodiesKept(t, set, v) /\ Past(t, set, v, j - 1)
  BY <1>1, RunKept
<1>4. CanRun(v, set[j])
  BY <1>3 DEF Completes
<1>5. CASE set[j].act \in {"Write", "CopyFrom", "Remove", "SetLink"}
  <2>1. j \in Puts(set, p)
    BY <1>2, <1>5 DEF Puts
  <2>2. ~IsDir(v[p])
    BY <1>2, <1>4, <1>5 DEF CanRun, CanReplace, CanLink, CanRemove, IsDir
  <2>3. ~IsDir(u[p])
    BY <1>1, <1>3, <2>1, <2>2, DirectoriesAlike
  <2>4. set[j].act = "CopyFrom" => Readable(u, set[j].other)
    <3>1. SUFFICES ASSUME set[j].act = "CopyFrom" PROVE Readable(u, set[j].other)
      OBVIOUS
    <3>2. Readable(v, set[j].other)
      BY <1>4, <3>1 DEF CanRun
    <3>3. Readable(v, set[j].other) <=> Readable(t, set[j].other)
      BY <1>3, <3>1, SourceStable
    <3>4. Readable(u, set[j].other) <=> Readable(t, set[j].other)
      BY <3>1, SourceStable
    <3> QED BY <3>2, <3>3, <3>4
  <2> QED BY <1>2, <1>5, <2>3, <2>4 DEF CanReplay, CanRun, CanReplace, CanLink
<1>6. CASE set[j].act = "SetExecutable"
  BY <1>6, FlippedNoLink DEF CanReplay
<1>7. CASE set[j].act = "Rename"
  <2>1. j \in Renames(set)
    BY <1>7 DEF Renames
  <2>2. PICK a \in Path, b \in Path : a = set[j].path /\ b = set[j].other
    BY <1>1, <2>1, RenamesApart
  <2>3. /\ t[a] \in Entry /\ t[b] \in Entry /\ u[a] \in Entry /\ u[b] \in Entry
        /\ a \in Slot /\ b \in Slot /\ ~IsLink(Absent) /\ Absent \in Entry
    BY <2>2, EntryTypes, AsideSlots DEF Trees, IsLink, Absent
  <2>4. /\ t[a] # Absent /\ ~IsLink(t[a]) /\ ~IsDir(t[b])
        /\ IsDir(t[a]) => t[b] = Absent
    BY <2>1, <2>2, CompletesRename
  <2>5. \/ Bare(u[a]) = Bare(t[a]) /\ (Bare(u[b]) = Bare(t[b]) \/ u[b] = Absent)
        \/ u[a] = Absent /\ (Bare(u[b]) = Bare(t[a]) \/ IsFile(u[b]))
    BY <2>1, <2>2 DEF BodiesKept, MoveKept
  <2>6. \A x \in {a, b} : ~IsLink(u[x]) => (Exists(u, x) <=> u[x] # Absent)
    BY <2>3, ReferentSlot, EntryKinds DEF Exists, IsLink, Absent
  <2>7. CASE Bare(u[a]) = Bare(t[a]) /\ (Bare(u[b]) = Bare(t[b]) \/ u[b] = Absent)
    <3>1. u[a] # Absent /\ ~IsLink(u[a]) /\ (IsDir(u[a]) <=> IsDir(t[a]))
      BY <2>3, <2>4, <2>7, BareKinds
    <3>2. ~IsDir(u[b]) /\ (t[b] = Absent => u[b] = Absent)
      <4>1. CASE Bare(u[b]) = Bare(t[b])
        BY <2>3, <2>4, <4>1, BareKinds
      <4>2. CASE u[b] = Absent
        BY <4>2 DEF IsDir, Absent
      <4> QED BY <2>7, <4>1, <4>2
    <3>3. CanMove(u, a, b)
      BY <2>4, <3>1, <3>2 DEF CanMove
    <3> QED BY <1>7, <2>2, <2>6, <3>1, <3>3 DEF CanReplay
  <2>8. CASE u[a] = Absent /\ (Bare(u[b]) = Bare(t[a]) \/ IsFile(u[b]))
    <3>1. u[b] # Absent /\ ~IsLink(u[b])
      <4>1. CASE Bare(u[b]) = Bare(t[a])
        BY <2>3, <2>4, <4>1, BareKinds
      <4>2. CASE IsFile(u[b])
        BY <4>2 DEF IsFile, IsLink, Absent
      <4> QED BY <2>8, <4>1, <4>2
    <3> QED BY <1>7, <2>2, <2>3, <2>6, <2>8, <3>1 DEF CanReplay
  <2> QED BY <2>5, <2>7, <2>8
<1> QED BY <1>1, <1>5, <1>6, <1>7, OpFields

-----------------------------------------------------------------------------
(* The modes, where no link is.                                              *)

LEMMA NoLinks ==
  ASSUME NEW t \in Trees, NEW set \in Seq(Op), Sane(t, set), LinkFree(t, set),
         NEW u \in Trees, BodiesKept(t, set, u), NEW x \in Path
  PROVE  ~IsLink(u[x])
<1>1. x \in Slot /\ t[x] \in Entry /\ u[x] \in Entry /\ ~IsLink(t[x]) /\ Admissible(set)
  BY AsideSlots DEF Trees, LinkFree, Sane
<1>2. CASE ~InRename(set, x)
  <2>1. Links(set, x) = {}
    BY DEF LinkFree, Links
  <2> QED BY <1>1, <1>2, <2>1 DEF BodiesKept, SpotKept
<1>3. ASSUME NEW n \in Renames(set), x \in Names(set[n]) PROVE ~IsLink(u[x])
  <2>1. PICK a \in Path, b \in Path : a = set[n].path /\ b = set[n].other
    BY <1>1, RenamesApart
  <2>2. x \in {a, b}
    BY <1>1, <1>3, <2>1, OneRename
  <2>3. /\ t[a] \in Entry /\ t[b] \in Entry /\ ~IsLink(t[a]) /\ ~IsLink(t[b])
    BY <2>1, AsideSlots DEF Trees, LinkFree
  <2>4. Bare(u[x]) \in {Bare(t[a]), Bare(t[b])} \/ u[x] = Absent \/ IsFile(u[x])
    BY <2>1, <2>2 DEF BodiesKept, MoveKept
  <2>5. \A y \in {a, b} : Bare(u[x]) = Bare(t[y]) => ~IsLink(u[x])
    BY <1>1, <2>3, BareKinds
  <2> QED BY <2>4, <2>5 DEF IsLink, IsFile, Absent
<1> QED BY <1>2, <1>3 DEF InRename

\* A write keeps the mode of what it replaces, and only a flip, a remove and a
\* rename change one.
LEMMA ModeFrame ==
  ASSUME AtomicReplace, NEW t \in Trees, NEW set \in Seq(Op), Sane(t, set),
         LinkFree(t, set), NEW u \in Trees, BodiesKept(t, set, u), NEW j \in DOMAIN set,
         NEW x \in Path, ~Flips(set[j], x), j \notin Clears(set, x),
         j \in Renames(set) => x \notin Names(set[j])
  PROVE  /\ Mode(After(u, set[j])[x]) = Mode(u[x])
         /\ IsFile(u[x]) => IsFile(After(u, set[j])[x])
<1>1. x \in Slot /\ u[x] \in Entry /\ ~IsLink(u[x]) /\ set[j] \in Op
  BY AsideSlots, NoLinks DEF Trees
<1>2. CASE x # set[j].path
  <2>1. j \in Renames(set) => x # set[j].other
    BY DEF Renames, Names, Two
  <2> QED BY <1>2, <2>1, AfterFrame
<1>3. CASE x = set[j].path
  <2>1. set[j].act \in {"Write", "CopyFrom", "SetLink"}
    <3>1. set[j].act # "Rename"
      BY <1>3 DEF Renames, Names, Two
    <3>2. set[j].act # "SetExecutable" /\ set[j].act # "Remove"
      BY <1>3 DEF Flips, Clears
    <3> QED BY <1>1, <3>1, <3>2, OpFields
  <2>2. set[j].act # "SetLink"
    BY DEF LinkFree
  <2>3. CASE Stands(u, set[j])
    BY <1>1, <2>1, <2>3, PutEffect
  <2>4. CASE ~Stands(u, set[j])
    <3>1. After(u, set[j])[x] = Put(u, set[j])
      BY <1>1, <1>3, <2>1, <2>4, PutEffect DEF Trees
    <3>2. ~IsDir(u[x])
      BY <1>3, <2>4 DEF Stands
    <3>3. CarriedExec(u, x) = Mode(u[x])
      BY <1>1, <3>2, ReferentSlot DEF CarriedExec, Mode
    <3>4. PICK c : Put(u, set[j]) = File(c, CarriedExec(u, x))
      BY <1>3, <2>1, <2>2 DEF Put
    <3>5. IsFile(Put(u, set[j])) /\ Put(u, set[j]).exec = CarriedExec(u, x)
      BY <3>4 DEF File, IsFile
    <3>6. CarriedExec(u, x) \in BOOLEAN
      BY DEF CarriedExec
    <3>7. Mode(Put(u, set[j])) = CarriedExec(u, x)
      BY <3>5, <3>6 DEF Mode
    <3> QED BY <3>1, <3>3, <3>5, <3>7
  <2> QED BY <2>3, <2>4
<1> QED BY <1>2, <1>3

\* What the ops so far do not move, clear or flip was due before this one.
LEMMA ModeDueBefore ==
  ASSUME NEW set \in Seq(Op), NEW j \in DOMAIN set, NEW x \in Path,
         NEW e, NEW f, ModeDue(set, x, e, j),
         \A n \in Renames(set) : x = set[n].path => (e = Absent <=> f = Absent),
         ~Flips(set[j], x), j \notin Clears(set, x),
         j \in Renames(set) => x \notin Names(set[j])
  PROVE  ModeDue(set, x, f, j - 1)
<1>1. j \in Nat
  OBVIOUS
<1>2. Decided(Clears(set, x), j - 1)
  <2>1. \A k \in Clears(set, x) : k \in Nat /\ k # j
    BY DEF Clears
  <2>2. \A k \in Clears(set, x) : k <= j => k <= j - 1
    BY <1>1, <2>1
  <2> QED BY <2>2 DEF ModeDue, Decided
<1>3. Clears(set, x) = {} => Decided(FlipsOf(set, x), j - 1)
  <2>1. \A k \in FlipsOf(set, x) : k \in Nat /\ k # j
    BY DEF FlipsOf
  <2>2. \A k \in FlipsOf(set, x) : k <= j => k <= j - 1
    BY <1>1, <2>1
  <2> QED BY <2>2 DEF ModeDue, Decided
<1>4. ASSUME NEW n \in Renames(set), n > j - 1
      PROVE  x # set[n].other /\ (x = set[n].path => f # Absent)
  <2>1. CASE n = j
    BY <2>1 DEF Names, Two, Renames
  <2>2. CASE n # j
    <3>1. n \in Nat
      BY DEF Renames
    <3>2. n > j
      BY <1>1, <1>4, <2>2, <3>1
    <3> QED BY <3>2 DEF ModeDue
  <2> QED BY <2>1, <2>2
<1> QED BY <1>2, <1>3, <1>4 DEF ModeDue

\* A flip finds a file in both trees, or in neither.
LEMMA FlippedAlike ==
  ASSUME AtomicReplace, NEW t \in Trees, NEW set \in Seq(Op), Sane(t, set),
         Exact(t, set), NEW u \in Trees, BodiesKept(t, set, u), ModesKept(t, set, u),
         NEW j \in DOMAIN set, set[j].act = "SetExecutable",
         Past(t, set, u, j - 1), BodiesAgree(t, set, u, j - 1),
         ModeDue(set, set[j].path, u[set[j].path], j)
  PROVE  IsFile(u[set[j].path]) <=> IsFile(Run(t, set)[j - 1][set[j].path])
<1>1. /\ Len(set) \in Nat /\ DOMAIN set = 1 .. Len(set) /\ Admissible(set)
      /\ set[j] \in Op /\ j \in 0 .. Len(set) /\ j - 1 \in 0 .. Len(set)
      /\ j \in Nat /\ j - 1 \in Nat /\ j - 1 < j
      /\ LinkFree(t, set) /\ Completes(t, set)
  BY RunSteps DEF Sane, Exact
<1>2. PICK p \in Path : p = set[j].path
  BY <1>1, OpFields
<1>3. PICK v \in Trees : v = Run(t, set)[j - 1] /\ BodiesKept(t, set, v) /\ Past(t, set, v, j - 1)
  BY <1>1, RunKept
<1>4. /\ p \in Slot /\ u[p] \in Entry /\ v[p] \in Entry /\ t[p] \in Entry
      /\ ~IsLink(v[p]) /\ ~IsLink(u[p]) /\ ~IsLink(t[p])
  BY <1>1, <1>2, <1>3, NoLinks, AsideSlots DEF Trees, LinkFree
<1>a. v[p].kind \in {"file", "dir"} /\ ModeDue(set, p, u[p], j)
  BY <1>2, <1>3, <1>1 DEF Completes, CanRun
<1>5. CASE ~InRename(set, p)
  <2>1. CASE BodyDue(set, p, j - 1)
    <3>1. Bare(u[p]) = Bare(v[p])
      BY <1>3, <2>1 DEF BodiesAgree
    <3> QED BY <1>2, <1>3, <1>4, <3>1, BareKinds
  <2>2. CASE ~BodyDue(set, p, j - 1)
    <3>1. \A n \in Renames(set) : p \notin Names(set[n])
      BY <1>5 DEF InRename
    <3>2. Puts(set, p) # {} /\ \A k \in Puts(set, p) : ~(k <= j - 1)
      BY <2>2, <3>1 DEF BodyDue, Decided
    <3>3. \A k \in Puts(set, p) : k \in Nat /\ k > j - 1
      BY <1>1, <3>2 DEF Puts
    <3>4. Bare(v[p]) = Bare(t[p])
      BY <1>1, <1>3, <1>5, <3>3, RunUnput
    <3>5. Clears(set, p) = {}
      <4>1. \A k \in Clears(set, p) : k \in Puts(set, p) /\ k # j
        BY DEF Clears, Puts
      <4>2. \A k \in Clears(set, p) : ~(k <= j)
        BY <1>1, <3>3, <4>1
      <4> QED BY <1>a, <4>2 DEF ModeDue, Decided
    <3>6. (IsFile(t[p]) => IsFile(u[p])) /\ (IsDir(u[p]) <=> IsDir(t[p]))
      BY <1>5, <3>5 DEF ModesKept, SpotModeKept, BodiesKept, SpotKept
    <3>7. (IsFile(v[p]) <=> IsFile(t[p])) /\ (IsDir(v[p]) <=> IsDir(t[p]))
      BY <1>4, <3>4, BareKinds
    <3> QED BY <1>2, <1>3, <1>a, <3>6, <3>7 DEF IsFile, IsDir
  <2> QED BY <2>1, <2>2
<1>6. ASSUME NEW n \in Renames(set), p \in Names(set[n]) PROVE IsFile(u[p]) <=> IsFile(v[p])
  <2>1. PICK a \in Path, b \in Path : a = set[n].path /\ b = set[n].other
    BY <1>1, RenamesApart
  <2>2. p \in {a, b} /\ n \in Nat /\ a # b
    BY <1>1, <1>6, <2>1, OneRename, RenamesApart DEF Renames
  <2>3. /\ t[a] \in Entry /\ t[b] \in Entry /\ u[a] \in Entry /\ u[b] \in Entry
        /\ v[a] \in Entry /\ v[b] \in Entry
    BY <2>1, AsideSlots DEF Trees
  <2>4. t[a] # Absent /\ ~IsLink(t[a]) /\ ~IsDir(t[b])
    BY <1>1, <2>1, CompletesRename
  <2>5. MoveKept(t, set, n, u[a], u[b]) /\ MoveKept(t, set, n, v[a], v[b])
    BY <1>3, <2>1 DEF BodiesKept
  <2>6. CASE p = a
    <3>1. n > j
      <4>1. j \in FlipsOf(set, a)
        BY <1>2, <2>6 DEF FlipsOf, Flips
      <4>2. \A k \in FlipsOf(set, a) : k < n
        BY <1>1, <2>1, RenamePaths
      <4> QED BY <1>1, <2>2, <4>1, <4>2
    <3>2. u[a] # Absent
      BY <1>a, <2>1, <2>6, <3>1 DEF ModeDue
    <3>3. Bare(u[a]) = Bare(t[a])
      BY <2>1, <2>5, <3>2 DEF MoveKept
    <3>4. j - 1 < n
      BY <1>1, <2>2, <3>1
    <3>5. Bare(v[a]) = Bare(t[a])
      BY <1>1, <1>3, <2>1, <3>4, RunBefore
    <3> QED BY <2>3, <2>6, <3>3, <3>5, BareKinds
  <2>7. CASE p = b
    <3>1. n < j
      <4>1. j \in FlipsOf(set, b)
        BY <1>2, <2>7 DEF FlipsOf, Flips
      <4>2. \A k \in FlipsOf(set, b) : k > n
        BY <1>1, <2>1, RenamePaths
      <4> QED BY <1>1, <2>2, <4>1, <4>2
    <3>2. n <= j - 1
      BY <1>1, <2>2, <3>1
    <3>3. u[a] = Absent /\ v[a] = Absent
      BY <1>3, <2>1, <2>4, <3>2 DEF Past
    <3>4. Bare(u[a]) # Bare(t[a]) /\ Bare(v[a]) # Bare(t[a])
      BY <2>3, <2>4, <3>3, BareKinds
    <3>5. /\ Bare(u[b]) = Bare(t[a]) \/ (IsFile(u[b]) /\ ~IsDir(t[a]))
          /\ Bare(v[b]) = Bare(t[a]) \/ (IsFile(v[b]) /\ ~IsDir(t[a]))
      BY <2>1, <2>5, <3>4 DEF MoveKept
    <3>6. IsFile(t[a]) \/ IsDir(t[a])
      BY <2>3, <2>4, EntryKinds DEF IsFile, IsDir, IsLink
    <3>7. ~(IsFile(t[a]) /\ IsDir(t[a]))
      BY DEF IsFile, IsDir
    <3>8. /\ Bare(u[b]) = Bare(t[a]) => (IsFile(u[b]) <=> IsFile(t[a]))
          /\ Bare(v[b]) = Bare(t[a]) => (IsFile(v[b]) <=> IsFile(t[a]))
      BY <2>3, BareKinds
    <3> QED BY <2>7, <3>5, <3>6, <3>7, <3>8
  <2> QED BY <2>2, <2>6, <2>7
<1> QED BY <1>2, <1>3, <1>5, <1>6 DEF InRename

\* What a rename whose turn it is makes of its two paths, in a set that can run.
LEMMA RenameMoves ==
  ASSUME AtomicReplace, NEW t \in Trees, NEW set \in Seq(Op), Sane(t, set),
         Completes(t, set), NEW u \in Trees, BodiesKept(t, set, u), NEW j \in Renames(set)
  PROVE  LET a == set[j].path
             b == set[j].other
             w == After(u, set[j])
         IN  /\ u[a] = Absent => w = u
             /\ u[a] # Absent => w[b] = u[a] /\ w[a] = Absent
<1>1. PICK a \in Path, b \in Path : a = set[j].path /\ b = set[j].other /\ a # b
  BY RenamesApart DEF Sane
<1>2. /\ set[j] \in Op /\ set[j].act = "Rename" /\ ~IsLink(u[a])
      /\ t[a] \in Entry /\ t[b] \in Entry /\ u[a] \in Entry /\ u[b] \in Entry
      /\ a \in Slot /\ b \in Slot
  BY <1>1, RenameKeeps, AsideSlots DEF Renames, Trees
<1>3. CASE u[a] = Absent
  BY <1>1, <1>2, <1>3, RenameEffect
<1>4. CASE u[a] # Absent
  <2>1. ~IsDir(t[b])
    BY <1>1, CompletesRename
  <2>2. Bare(u[b]) = Bare(t[b]) \/ u[b] = Absent
    BY <1>1, <1>4 DEF BodiesKept, MoveKept
  <2>3. ~IsDir(u[b])
    <3>1. CASE Bare(u[b]) = Bare(t[b])
      BY <1>2, <2>1, <3>1, BareKinds
    <3>2. CASE u[b] = Absent
      BY <3>2 DEF IsDir, Absent
    <3> QED BY <2>2, <3>1, <3>2
  <2>4. After(u, set[j]) = [u EXCEPT ![b] = u[a], ![a] = Absent]
    BY <1>1, <1>2, <1>4, <2>3, RenameEffect
  <2>5. After(u, set[j])[b] = u[a] /\ After(u, set[j])[a] = Absent
    BY <1>1, <1>2, <2>4 DEF Trees
  <2> QED BY <1>1, <1>4, <2>5
<1> QED BY <1>1, <1>3, <1>4

\* What a rename is to move has the mode the set means it to have by then.
LEMMA MovedMode ==
  ASSUME AtomicReplace, NEW t \in Trees, NEW set \in Seq(Op), Sane(t, set),
         NEW u \in Trees, NEW j \in Renames(set), u[set[j].path] # Absent,
         ModesAgree(t, set, u, j - 1)
  PROVE  Mode(u[set[j].path]) = Mode(Run(t, set)[j - 1][set[j].path])
<1>1. PICK a \in Path : a = set[j].path /\ a # set[j].other
  BY RenamesApart DEF Sane
<1>2. j \in Nat /\ j \in DOMAIN set /\ Admissible(set)
  BY DEF Renames, Sane
<1>3. Clears(set, a) = {} /\ \A k \in FlipsOf(set, a) : k < j
  BY <1>1, <1>2, RenamePaths
<1>4. Decided(FlipsOf(set, a), j - 1)
  <2>1. FlipsOf(set, a) \subseteq Nat
    BY DEF FlipsOf
  <2>2. \A k \in FlipsOf(set, a) : k <= j - 1
    BY <1>2, <1>3, <2>1
  <2> QED BY <2>2 DEF Decided
<1>5. \A n \in Renames(set) : a # set[n].other
  <2>1. a \in Names(set[j])
    BY <1>1 DEF Names, Two, Renames
  <2> QED BY <1>1, <1>2, <2>1, OneRename
<1>6. ModeDue(set, a, u[a], j - 1)
  BY <1>1, <1>3, <1>4, <1>5 DEF ModeDue, Decided
<1> QED BY <1>1, <1>6 DEF ModesAgree

LEMMA ModesKeptStep ==
  ASSUME AtomicReplace, NEW t \in Trees, NEW set \in Seq(Op), Sane(t, set),
         Exact(t, set), NEW u \in Trees, BodiesKept(t, set, u), ModesKept(t, set, u),
         NEW j \in DOMAIN set, ModesAgree(t, set, u, j - 1)
  PROVE  ModesKept(t, set, After(u, set[j]))
<1>1. /\ Len(set) \in Nat /\ DOMAIN set = 1 .. Len(set) /\ Admissible(set)
      /\ set[j] \in Op /\ j \in 0 .. Len(set) /\ j - 1 \in 0 .. Len(set)
      /\ LinkFree(t, set) /\ Completes(t, set)
  BY RunSteps DEF Sane, Exact
<1>2. PICK w \in Trees : w = After(u, set[j])
  BY <1>1, AfterNear DEF Near
<1>3. ASSUME NEW p \in Path, Clears(set, p) = {}, j \in Renames(set) => p \notin Names(set[j])
      PROVE  /\ IsFile(u[p]) => IsFile(w[p])
             /\ FlipsOf(set, p) = {} => Mode(w[p]) = Mode(u[p])
  <2>1. p \in Slot /\ u[p] \in Entry
    BY AsideSlots DEF Trees
  <2>2. CASE Flips(set[j], p)
    <3>1. set[j].act = "SetExecutable" /\ set[j].path = p
      BY <2>2 DEF Flips
    <3>2. After(u, set[j]) = IF IsFile(u[p]) THEN [u EXCEPT ![p] = File(u[p].bytes, set[j].exec)] ELSE u
      BY <1>1, <3>1, FlipEffect
    <3>3. IsFile(u[p]) => IsFile(w[p])
      BY <1>2, <2>1, <3>2 DEF Trees, File, IsFile
    <3>4. j \in FlipsOf(set, p)
      BY <2>2 DEF FlipsOf
    <3> QED BY <3>3, <3>4
  <2>3. CASE ~Flips(set[j], p)
    <3>1. j \notin Clears(set, p)
      BY <1>3
    <3> QED BY <1>1, <1>2, <1>3, <2>3, <3>1, ModeFrame
  <2> QED BY <2>2, <2>3
<1>4. ASSUME NEW p \in Path, ~InRename(set, p) PROVE SpotModeKept(t, set, p, w[p])
  <2>1. j \in Renames(set) => p \notin Names(set[j])
    BY <1>4 DEF InRename
  <2>2. SpotModeKept(t, set, p, u[p])
    BY <1>4 DEF ModesKept
  <2> QED BY <1>3, <2>1, <2>2 DEF SpotModeKept
<1>5. ASSUME NEW n \in Renames(set)
      PROVE  MoveModeKept(t, set, n, w[set[n].path], w[set[n].other])
  <2>1. PICK a \in Path, b \in Path : a = set[n].path /\ b = set[n].other /\ a # b
    BY <1>1, RenamesApart
  <2>2. MoveModeKept(t, set, n, u[a], u[b])
    BY <2>1 DEF ModesKept
  <2>3. CASE n = j
    <3>1. CASE u[a] = Absent
      <4>1. w = u
        BY <1>1, <1>2, <2>1, <2>3, <3>1, RenameMoves
      <4> QED BY <2>1, <2>2, <4>1
    <3>2. CASE u[a] # Absent
      <4>1. w[b] = u[a] /\ w[a] = Absent
        BY <1>1, <1>2, <2>1, <2>3, <3>2, RenameMoves
      <4>2. PICK v \in Trees : v = Run(t, set)[j - 1] /\ BodiesKept(t, set, v)
        BY <1>1, RunKept
      <4>3. Run(t, set)[j] = After(v, set[j])
        BY <1>1, <4>2, RunSteps
      <4>4. v[a] # Absent
        BY <2>1, <2>3, <4>2, <1>1 DEF Completes, CanRun, CanMove, Renames
      <4>5. Run(t, set)[j][b] = v[a]
        BY <1>1, <2>1, <2>3, <4>2, <4>3, <4>4, RenameMoves
      <4>6. Mode(u[a]) = Mode(v[a])
        BY <2>1, <2>3, <3>2, <4>2, MovedMode
      <4>7. MoveModeKept(t, set, n, w[a], w[b])
        BY <2>1, <2>3, <4>1, <4>5, <4>6 DEF MoveModeKept
      <4> QED BY <2>1, <4>7
    <3> QED BY <3>1, <3>2
  <2>4. CASE n # j
    <3>1. Clears(set, a) = {} /\ Clears(set, b) = {} /\ Puts(set, a) = {}
      BY <1>1, <2>1, RenamePaths
    <3>2. j \in Renames(set) => a \notin Names(set[j]) /\ b \notin Names(set[j])
      <4>1. j \in Renames(set) => Names(set[j]) \cap {a, b} = {}
        BY <1>1, <2>1, <2>4, RenamePaths
      <4> QED BY <4>1
    <3>3. w[a] = Absent <=> u[a] = Absent
      <4>1. Bare(w[a]) = Bare(u[a])
        BY <1>2, <3>1, <3>2, Untouched
      <4>2. w[a] \in Entry /\ u[a] \in Entry
        BY <2>1, AsideSlots DEF Trees
      <4> QED BY <4>1, <4>2, BareKinds
    <3>4. /\ FlipsOf(set, a) = {} => Mode(w[a]) = Mode(u[a])
          /\ FlipsOf(set, b) = {} => Mode(w[b]) = Mode(u[b])
      BY <1>3, <3>1, <3>2
    <3>5. MoveModeKept(t, set, n, w[a], w[b])
      BY <2>1, <2>2, <3>3, <3>4 DEF MoveModeKept
    <3> QED BY <2>1, <3>5
  <2> QED BY <2>3, <2>4
<1> QED BY <1>2, <1>4, <1>5 DEF ModesKept

LEMMA ModesAgreeStep ==
  ASSUME AtomicReplace, NEW t \in Trees, NEW set \in Seq(Op), Sane(t, set),
         Exact(t, set), NEW u \in Trees, BodiesKept(t, set, u), ModesKept(t, set, u),
         NEW j \in DOMAIN set, Past(t, set, u, j - 1),
         BodiesAgree(t, set, u, j - 1), ModesAgree(t, set, u, j - 1)
  PROVE  ModesAgree(t, set, After(u, set[j]), j)
<1>1. /\ Len(set) \in Nat /\ DOMAIN set = 1 .. Len(set) /\ Admissible(set)
      /\ set[j] \in Op /\ j \in 0 .. Len(set) /\ j - 1 \in 0 .. Len(set)
      /\ j \in Nat /\ LinkFree(t, set) /\ Completes(t, set)
  BY RunSteps DEF Sane, Exact
<1>2. PICK v \in Trees : v = Run(t, set)[j - 1] /\ BodiesKept(t, set, v) /\ Past(t, set, v, j - 1)
  BY <1>1, RunKept
<1>3. PICK z \in Trees : /\ z = Run(t, set)[j] /\ z = After(v, set[j])
                         /\ BodiesKept(t, set, z) /\ Past(t, set, z, j)
  BY <1>1, <1>2, RunKept, RunSteps
<1>4. PICK w \in Trees : /\ w = After(u, set[j])
                         /\ BodiesKept(t, set, w) /\ Past(t, set, w, j)
  BY <1>1, KeptStep, AfterNear DEF Near
<1>5. ModesKept(t, set, w)
  BY <1>4, ModesKeptStep
<1>6. SUFFICES ASSUME NEW x \in Path, ModeDue(set, x, w[x], j) PROVE Mode(w[x]) = Mode(z[x])
  BY <1>3, <1>4 DEF ModesAgree
<1>7. /\ x \in Slot /\ u[x] \in Entry /\ v[x] \in Entry /\ w[x] \in Entry
      /\ ~Mode(Absent)
  BY AsideSlots DEF Trees, Mode, IsFile, Absent
<1>8. CASE j \in Renames(set) /\ x \in Names(set[j])
  <2>1. PICK a \in Path, b \in Path : a = set[j].path /\ b = set[j].other
    BY <1>1, <1>8, RenamesApart
  <2>2. x \in {a, b}
    BY <1>1, <1>8, <2>1, OneRename
  <2>3. w[a] = Absent /\ z[a] = Absent
    <3>1. ~IsDir(t[b])
      BY <1>1, <1>8, <2>1, CompletesRename
    <3> QED BY <1>1, <1>3, <1>4, <1>8, <2>1, <3>1 DEF Past
  <2>4. CASE x = b
    <3>1. Clears(set, b) = {} /\ \A k \in FlipsOf(set, b) : k > j
      BY <1>1, <1>8, <2>1, RenamePaths
    <3>2. FlipsOf(set, b) \subseteq Nat
      BY DEF FlipsOf
    <3>3. \A k \in FlipsOf(set, b) : ~(k <= j)
      BY <1>1, <3>1, <3>2
    <3>4. FlipsOf(set, b) = {}
      BY <1>6, <2>4, <3>1, <3>3 DEF ModeDue, Decided
    <3> QED BY <1>3, <1>5, <1>8, <2>1, <2>3, <2>4, <3>4 DEF ModesKept, MoveModeKept
  <2> QED BY <2>2, <2>3, <2>4
<1>9. CASE Flips(set[j], x)
  <2>1. set[j].act = "SetExecutable" /\ set[j].path = x
    BY <1>9 DEF Flips
  <2>2. Bare(w[x]) = Bare(u[x])
    BY <1>1, <1>4, <2>1, FlipBare
  <2>3. w[x] = Absent <=> u[x] = Absent
    BY <1>7, <2>2, BareKinds
  <2>4. ModeDue(set, x, u[x], j)
    BY <1>6, <2>3 DEF ModeDue
  <2>5. IsFile(u[x]) <=> IsFile(v[x])
    BY <1>2, <2>1, <2>4, FlippedAlike
  <2>6. /\ w = IF IsFile(u[x]) THEN [u EXCEPT ![x] = File(u[x].bytes, set[j].exec)] ELSE u
        /\ z = IF IsFile(v[x]) THEN [v EXCEPT ![x] = File(v[x].bytes, set[j].exec)] ELSE v
    BY <1>1, <1>3, <1>4, <2>1, FlipEffect
  <2>7. CASE IsFile(u[x])
    <3>1. /\ w[x] = File(u[x].bytes, set[j].exec)
          /\ z[x] = File(v[x].bytes, set[j].exec)
      BY <1>7, <2>5, <2>6, <2>7 DEF Trees
    <3> QED BY <3>1 DEF File, Mode, IsFile
  <2>8. CASE ~IsFile(u[x])
    BY <2>5, <2>6, <2>8 DEF Mode
  <2> QED BY <2>7, <2>8
<1>10. CASE j \in Clears(set, x)
  <2>1. set[j].act = "Remove" /\ set[j].path = x
    BY <1>10 DEF Clears
  <2>2. ASSUME NEW y \in Trees PROVE ~Mode(After(y, set[j])[x])
    <3>1. CASE Stands(y, set[j])
      <4>1. After(y, set[j]) = y /\ IsDir(y[x])
        BY <1>1, <2>1, <3>1, PutEffect DEF Stands
      <4> QED BY <4>1 DEF Mode, IsDir, IsFile
    <3>2. CASE ~Stands(y, set[j])
      <4>1. After(y, set[j])[x] = Absent
        BY <1>1, <1>7, <2>1, <3>2, PutEffect DEF Put, Trees
      <4> QED BY <1>7, <4>1
    <3> QED BY <3>1, <3>2
  <2>3. ~Mode(w[x]) /\ ~Mode(z[x])
    BY <1>3, <1>4, <2>2
  <2> QED BY <2>3 DEF Mode
<1>11. CASE /\ ~(j \in Renames(set) /\ x \in Names(set[j]))
            /\ ~Flips(set[j], x) /\ j \notin Clears(set, x)
  <2>1. Mode(w[x]) = Mode(u[x]) /\ Mode(z[x]) = Mode(v[x])
    BY <1>1, <1>2, <1>3, <1>4, <1>11, ModeFrame
  <2>2. ASSUME NEW n \in Renames(set), x = set[n].path PROVE w[x] = Absent <=> u[x] = Absent
    <3>1. Puts(set, x) = {}
      BY <1>1, <2>2, RenamePaths
    <3>2. Bare(w[x]) = Bare(u[x])
      BY <1>4, <1>11, <3>1, Untouched
    <3> QED BY <1>7, <3>2, BareKinds
  <2>3. ModeDue(set, x, u[x], j - 1)
    BY <1>6, <1>11, <2>2, ModeDueBefore
  <2>4. Mode(u[x]) = Mode(v[x])
    BY <1>2, <2>3 DEF ModesAgree
  <2> QED BY <2>1, <2>4
<1> QED BY <1>8, <1>9, <1>10, <1>11

-----------------------------------------------------------------------------
(* The replay, from its first op to its last.                                *)

LEMMA CaughtUpBegins ==
  ASSUME NEW t \in Trees, NEW set \in Seq(Op), Sane(t, set),
         NEW u \in Trees, Restartable(t, set, u)
  PROVE  CaughtUp(t, set, u, 0)
<1>1. Run(t, set)[0] = t /\ Admissible(set) /\ BodiesKept(t, set, u)
  BY RunSteps DEF Sane, Restartable
<1>2. \A n \in Renames(set) : ~(n <= 0) /\ n > 0
  BY DEF Renames
<1>3. ASSUME NEW K, K \subseteq DOMAIN set, Decided(K, 0) PROVE K = {}
  <2>1. \A k \in DOMAIN set : ~(k <= 0)
    OBVIOUS
  <2> QED BY <1>3, <2>1 DEF Decided
<1>4. ASSUME NEW x \in Path, BodyDue(set, x, 0) PROVE Bare(u[x]) = Bare(t[x])
  <2>1. ~InRename(set, x)
    BY <1>2, <1>4 DEF BodyDue, InRename
  <2>2. Puts(set, x) \subseteq DOMAIN set
    BY DEF Puts
  <2>3. Puts(set, x) = {}
    BY <1>3, <1>4, <2>2 DEF BodyDue
  <2> QED BY <1>1, <2>1, <2>3 DEF BodiesKept, SpotKept
<1>5. ASSUME ModesKept(t, set, u), NEW x \in Path, ModeDue(set, x, u[x], 0)
      PROVE  Mode(u[x]) = Mode(t[x])
  <2>1. Clears(set, x) \subseteq DOMAIN set /\ FlipsOf(set, x) \subseteq DOMAIN set
    BY DEF Clears, FlipsOf
  <2>2. Clears(set, x) = {}
    BY <1>3, <1>5, <2>1 DEF ModeDue
  <2>3. FlipsOf(set, x) = {}
    BY <1>3, <1>5, <2>1, <2>2 DEF ModeDue
  <2>4. CASE ~InRename(set, x)
    BY <1>5, <2>2, <2>3, <2>4 DEF ModesKept, SpotModeKept
  <2>5. ASSUME NEW n \in Renames(set), x \in Names(set[n]) PROVE Mode(u[x]) = Mode(t[x])
    <3>1. x = set[n].path /\ u[x] # Absent
      BY <1>1, <1>2, <1>5, <2>5, OneRename DEF ModeDue
    <3> QED BY <1>5, <2>3, <3>1 DEF ModesKept, MoveModeKept
  <2> QED BY <2>4, <2>5 DEF InRename
<1>6. Past(t, set, u, 0)
  BY <1>2 DEF Past
<1>7. BodiesAgree(t, set, u, 0)
  BY <1>1, <1>4 DEF BodiesAgree
<1>8. Exact(t, set) => ModesAgree(t, set, u, 0)
  BY <1>1, <1>5 DEF ModesAgree, Restartable
<1> QED BY <1>6, <1>7, <1>8 DEF CaughtUp

LEMMA CaughtUpStep ==
  ASSUME AtomicReplace, NEW t \in Trees, NEW set \in Seq(Op), Sane(t, set),
         NEW u \in Trees, Restartable(t, set, u),
         NEW j \in DOMAIN set, CaughtUp(t, set, u, j - 1),
         CanReplay(u, set[j]) \/ CanRun(u, set[j])
  PROVE  Restartable(t, set, After(u, set[j])) /\ CaughtUp(t, set, After(u, set[j]), j)
<1>1. BodiesKept(t, set, u) /\ Past(t, set, u, j - 1) /\ BodiesAgree(t, set, u, j - 1)
  BY DEF Restartable, CaughtUp
<1>2. BodiesKept(t, set, After(u, set[j])) /\ Past(t, set, After(u, set[j]), j)
  BY <1>1, KeptStep
<1>3. BodiesAgree(t, set, After(u, set[j]), j)
  BY <1>1, AgreeStep
<1>4. ASSUME Exact(t, set)
      PROVE  ModesKept(t, set, After(u, set[j])) /\ ModesAgree(t, set, After(u, set[j]), j)
  <2>1. ModesKept(t, set, u) /\ ModesAgree(t, set, u, j - 1)
    BY <1>4 DEF Restartable, CaughtUp
  <2>2. ModesKept(t, set, After(u, set[j]))
    BY <1>1, <1>4, <2>1, ModesKeptStep
  <2>3. ModesAgree(t, set, After(u, set[j]), j)
    BY <1>1, <1>4, <2>1, ModesAgreeStep
  <2> QED BY <2>2, <2>3
<1> QED BY <1>2, <1>3, <1>4 DEF Restartable, CaughtUp

LEMMA CaughtUpEnds ==
  ASSUME NEW t \in Trees, NEW set \in Seq(Op), NEW u \in Trees,
         CaughtUp(t, set, u, Len(set))
  PROVE  Reaches(t, set, u)
<1>1. /\ Len(set) \in Nat /\ DOMAIN set = 1 .. Len(set)
      /\ Run(t, set)[Len(set)] \in Trees
  BY RunSteps
<1>2. PICK v \in Trees : v = Applied(t, set) /\ v = Run(t, set)[Len(set)]
  BY <1>1 DEF Applied
<1>3. \A k \in DOMAIN set : k <= Len(set) /\ ~(k > Len(set))
  BY <1>1
<1>4. ASSUME NEW x \in Path PROVE Bare(u[x]) = Bare(v[x])
  <2>1. BodyDue(set, x, Len(set))
    BY <1>3 DEF BodyDue, Decided, Puts, Renames
  <2> QED BY <1>2, <2>1 DEF CaughtUp, BodiesAgree
<1>5. ASSUME Exact(t, set), NEW x \in Path PROVE u[x] = v[x]
  <2>1. ModeDue(set, x, u[x], Len(set))
    BY <1>3 DEF ModeDue, Decided, Clears, FlipsOf, Renames
  <2>2. Mode(u[x]) = Mode(v[x])
    BY <1>2, <1>5, <2>1 DEF CaughtUp, ModesAgree
  <2>3. u[x] \in Entry /\ v[x] \in Entry
    BY AsideSlots DEF Trees
  <2> QED BY <1>4, <2>2, <2>3, BareKinds
<1>6. Content(u) = Content(v)
  BY <1>4 DEF Content
<1>7. Exact(t, set) => Docs(u) = Docs(v)
  BY <1>5 DEF Docs
<1> QED BY <1>2, <1>6, <1>7 DEF Reaches, Exact

\* What a replay makes of an op is what the set's own run would.
LEMMA ReplayedAfter ==
  ASSUME NEW t \in Trees, NEW set \in Seq(Op), Sane(t, set),
         NEW u \in Trees, BodiesKept(t, set, u),
         NEW j \in DOMAIN set, CanReplay(u, set[j])
  PROVE  Replayed(u, set[j]) = After(u, set[j])
<1>1. set[j] \in Op
  OBVIOUS
<1>2. PICK p \in Path : p = set[j].path
  BY <1>1, OpFields
<1>3. p \in Slot /\ u[p] \in Entry
  BY AsideSlots DEF Trees
<1>4. CASE set[j].act \notin {"Rename", "SetExecutable"}
  BY <1>4 DEF After, Replayed
<1>5. CASE set[j].act \in {"Rename", "SetExecutable"}
  <2>1. ~IsLink(u[p])
    <3>1. set[j].act = "Rename" => j \in Renames(set)
      BY DEF Renames
    <3> QED BY <1>2, <1>5, <3>1, RenameKeeps DEF CanReplay
  <2>2. Referent(u, p) = p
    BY <1>3, <2>1, ReferentSlot
  <2>3. CanRun(u, set[j]) \/ MovesOver(u, set[j]) => Exists(u, p)
    <3>1. CanRun(u, set[j]) => u[p].kind \in {"file", "dir"}
      BY <1>2, <1>3, <1>5, <2>1, EntryKinds DEF CanRun, CanMove, IsLink, Absent
    <3>2. MovesOver(u, set[j]) => u[p].kind \in {"file", "dir"}
      BY <1>2 DEF MovesOver, IsDir
    <3> QED BY <2>2, <3>1, <3>2 DEF Exists
  <2> QED BY <1>2, <1>5, <2>3 DEF After, Replayed
<1> QED BY <1>4, <1>5

\* The set run again, from its first op, on any tree a replay can begin from.
LEMMA RunAgain ==
  ASSUME AtomicReplace, NEW t \in Trees, NEW set \in Seq(Op), Sane(t, set),
         Completes(t, set), NEW u \in Trees, Restartable(t, set, u)
  PROVE  Reaches(t, set, Applied(u, set))
<1> DEFINE v(k) == Run(u, set)[k]
           S == {k \in Nat : Restartable(t, set, v(k)) /\ CaughtUp(t, set, v(k), k)}
<1>1. /\ Len(set) \in Nat /\ DOMAIN set = 1 .. Len(set) /\ v(0) = u
      /\ \A k \in 0 .. Len(set) : v(k) \in Trees
  BY RunSteps
<1>2. 0 \in S
  BY <1>1, CaughtUpBegins
<1>3. ASSUME NEW k \in Nat, k < Len(set), k \in S PROVE k + 1 \in S
  <2>1. k + 1 \in DOMAIN set /\ (k + 1) - 1 = k /\ k \in 0 .. Len(set)
    BY <1>1, <1>3
  <2>a. \A n \in DOMAIN set : v(n) = After(v(n - 1), set[n])
    BY RunSteps
  <2>2. v(k + 1) = After(v(k), set[k + 1]) /\ v(k) \in Trees
    <3> HIDE DEF v
    <3>1. v(k + 1) = After(v((k + 1) - 1), set[k + 1])
      BY <2>1, <2>a
    <3> QED BY <1>1, <2>1, <3>1
  <2>3. Restartable(t, set, v(k)) /\ CaughtUp(t, set, v(k), (k + 1) - 1)
    BY <1>3, <2>1
  <2> HIDE DEF v
  <2>4. CanReplay(v(k), set[k + 1])
    BY <2>1, <2>2, <2>3, CanReplayStep DEF Restartable, CaughtUp
  <2>5. Restartable(t, set, v(k + 1)) /\ CaughtUp(t, set, v(k + 1), k + 1)
    BY <2>1, <2>2, <2>3, <2>4, CaughtUpStep
  <2> QED BY <2>5
<1>4. \A k \in 0 .. Len(set) : k \in S
  <2> HIDE DEF S
  <2> QED BY <1>1, <1>2, <1>3, UpTo
<1>5. v(Len(set)) \in Trees /\ CaughtUp(t, set, v(Len(set)), Len(set))
  BY <1>1, <1>4
<1>6. Applied(u, set) = v(Len(set))
  BY DEF Applied
<1> QED BY <1>5, <1>6, CaughtUpEnds

\* Every tree of a set's own run is one a replay can begin from.
LEMMA RunRestartable ==
  ASSUME AtomicReplace, NEW t \in Trees, NEW set \in Seq(Op), Sane(t, set),
         NEW j \in 0 .. Len(set)
  PROVE  Restartable(t, set, Run(t, set)[j])
<1> DEFINE v(k) == Run(t, set)[k]
           S == {k \in Nat : ModesKept(t, set, v(k))}
<1>1. /\ Len(set) \in Nat /\ DOMAIN set = 1 .. Len(set) /\ v(0) = t
      /\ \A k \in 0 .. Len(set) : v(k) \in Trees
  BY RunSteps
<1>2. ASSUME Exact(t, set) PROVE \A k \in 0 .. Len(set) : k \in S
  <2>1. 0 \in S
    <3>1. \A n \in Renames(set) : t[set[n].path] # Absent
      BY <1>2, CompletesRename DEF Exact
    <3>2. ModesKept(t, set, t)
      BY <3>1 DEF ModesKept, SpotModeKept, MoveModeKept
    <3> QED BY <1>1, <3>2
  <2>2. ASSUME NEW k \in Nat, k < Len(set), k \in S PROVE k + 1 \in S
    <3>1. k + 1 \in DOMAIN set /\ (k + 1) - 1 = k /\ k \in 0 .. Len(set)
      BY <1>1, <2>2
    <3>2. v(k + 1) = After(v(k), set[k + 1]) /\ v(k) \in Trees /\ BodiesKept(t, set, v(k))
      BY <1>1, <3>1, RunSteps, RunKept
    <3>3. ModesKept(t, set, v(k)) /\ ModesAgree(t, set, v(k), (k + 1) - 1)
      BY <2>2, <3>1 DEF ModesAgree
    <3> HIDE DEF v
    <3>4. ModesKept(t, set, v(k + 1))
      BY <1>2, <3>1, <3>2, <3>3, ModesKeptStep
    <3> QED BY <3>4
  <2> HIDE DEF S
  <2> QED BY <1>1, <2>1, <2>2, UpTo
<1> QED BY <1>2, RunKept DEF Restartable

\* What a set reaches by its own run is what it is to reach.
LEMMA AppliedReaches ==
  ASSUME NEW t \in Trees, NEW set \in Seq(Op), NEW u \in Trees,
         Docs(u) = Docs(Applied(t, set))
  PROVE  Reaches(t, set, u)
<1>1. PICK v \in Trees : v = Applied(t, set)
  BY RunSteps DEF Applied
<1>2. Content(u) = Content(v)
  <2>1. \A x \in Path : Docs(u)[x] = u[x] /\ Docs(v)[x] = v[x]
    BY DEF Docs
  <2>2. \A x \in Path : u[x] = v[x]
    BY <1>1, <2>1
  <2> QED BY <2>2 DEF Content
<1> QED BY <1>1, <1>2 DEF Reaches

-----------------------------------------------------------------------------
(* Only the documents count: what the asides hold changes nothing of it.     *)

SameDocs(t, u) == \A x \in Path : u[x] = t[x]

LEMMA SameReads ==
  ASSUME NEW t \in Trees, NEW u \in Trees, SameDocs(t, u), NEW s \in Path
  PROVE  /\ Referent(u, s) = Referent(t, s)
         /\ Referent(t, s) \in Path
         /\ u[Referent(u, s)] = t[Referent(t, s)]
         /\ Exists(u, s) <=> Exists(t, s)
         /\ Readable(u, s) <=> Readable(t, s)
         /\ BytesAt(u, s) = BytesAt(t, s)
         /\ CarriedExec(u, s) = CarriedExec(t, s)
<1>1. s \in Slot
  BY AsideSlots
<1>2. \A x \in Through(t, s) \cup {s} : Bare(u[x]) = Bare(t[x])
  <2>1. Through(t, s) \subseteq Path
    BY <1>1, HopsSteps DEF Through
  <2> QED BY <2>1 DEF SameDocs
<1>3. Referent(u, s) = Referent(t, s)
  BY <1>1, <1>2, ReadAlike
<1>4. Referent(t, s) \in Path
  BY <1>1, ReferentSlot
<1>5. u[Referent(u, s)] = t[Referent(t, s)]
  BY <1>3, <1>4 DEF SameDocs
<1> QED BY <1>3, <1>4, <1>5 DEF Exists, Readable, BytesAt, CarriedExec

LEMMA SameCalls ==
  ASSUME NEW t \in Trees, NEW u \in Trees, SameDocs(t, u), NEW op \in Op
  PROVE  /\ CanRun(u, op) <=> CanRun(t, op)
         /\ CanReplay(u, op) <=> CanReplay(t, op)
         /\ MovesOver(u, op) <=> MovesOver(t, op)
<1>1. /\ op.path \in Path /\ u[op.path] = t[op.path]
      /\ op.act \in {"Rename", "CopyFrom"} => op.other \in Path /\ u[op.other] = t[op.other]
  BY OpFields DEF SameDocs
<1>2. CanReplace(u, op.path) <=> CanReplace(t, op.path)
  BY <1>1, SameReads DEF CanReplace
<1>3. op.act = "CopyFrom" => (Readable(u, op.other) <=> Readable(t, op.other))
  BY <1>1, SameReads
<1>4. CanRun(u, op) <=> CanRun(t, op)
  BY <1>1, <1>2, <1>3 DEF CanRun, CanMove, CanRemove, CanLink
<1>5. CanReplay(u, op) <=> CanReplay(t, op)
  <2>1. op.act = "Rename" => /\ Exists(u, op.path) <=> Exists(t, op.path)
                             /\ Exists(u, op.other) <=> Exists(t, op.other)
    BY <1>1, SameReads
  <2> QED BY <1>1, <1>4, <2>1 DEF CanReplay, CanMove
<1>6. MovesOver(u, op) <=> MovesOver(t, op)
  BY <1>1 DEF MovesOver
<1> QED BY <1>4, <1>5, <1>6

LEMMA SameRan ==
  ASSUME NEW t \in Trees, NEW u \in Trees, SameDocs(t, u), NEW op \in Op
  PROVE  SameDocs(Ran(t, op), Ran(u, op))
<1>1. /\ op.path \in Path /\ u[op.path] = t[op.path]
      /\ op.act \in {"Rename", "CopyFrom"} => op.other \in Path /\ u[op.other] = t[op.other]
  BY OpFields DEF SameDocs
<1>2. PICK r \in Path : /\ r = Referent(t, op.path) /\ r = Referent(u, op.path)
                        /\ u[r] = t[r]
  BY <1>1, SameReads
<1>3. CASE Lands(op)
  <2>1. PICK b : b = Contents(t, op) /\ b = Contents(u, op)
    BY <1>1, <1>3, SameReads DEF Contents, Lands
  <2>2. CarriedExec(u, op.path) = CarriedExec(t, op.path)
    BY <1>1, SameReads
  <2>3. SameDocs(Written(t, op.path, b), Written(u, op.path, b))
    BY <1>2, AsideSlots DEF SameDocs, Written, Trees
  <2>4. SameDocs(Replaced(t, op.path, b), Replaced(u, op.path, b))
    <3>1. CASE AtomicReplace
      BY <1>1, <2>2, <3>1, AsideSlots DEF SameDocs, Replaced, Trees
    <3>2. CASE ~AtomicReplace
      BY <2>3, <3>2 DEF Replaced
    <3> QED BY <3>1, <3>2
  <2> QED BY <1>3, <2>1, <2>4 DEF Ran
<1>4. CASE op.act = "Rename"
  BY <1>1, <1>4, AsideSlots DEF Ran, Lands, Moved, SameDocs, Trees
<1>5. CASE op.act = "Remove"
  BY <1>1, <1>5, AsideSlots DEF Ran, Lands, Removed, SameDocs, Trees
<1>6. CASE op.act = "SetExecutable"
  BY <1>2, <1>6, AsideSlots DEF Ran, Lands, Flipped, SameDocs, Trees
<1>7. CASE op.act = "SetLink"
  BY <1>1, <1>7, AsideSlots DEF Ran, Lands, Linked, SameDocs, Trees
<1> QED BY <1>3, <1>4, <1>5, <1>6, <1>7, OpFields DEF Lands

LEMMA SameAfter ==
  ASSUME NEW t \in Trees, NEW u \in Trees, SameDocs(t, u), NEW op \in Op
  PROVE  SameDocs(After(t, op), After(u, op))
<1>1. op.path \in Path
  BY OpFields
<1>2. Exists(u, op.path) <=> Exists(t, op.path)
  BY <1>1, SameReads
<1>3. SameDocs(Replayed(t, op), Replayed(u, op))
  BY <1>2, SameRan DEF Replayed
<1> QED BY <1>3, SameCalls, SameRan DEF After

\* Neither does what Restart says of a tree.
LEMMA SameStanding ==
  ASSUME NEW t \in Trees, NEW set \in Seq(Op), Admissible(set),
         NEW u \in Trees, NEW w \in Trees, SameDocs(u, w)
  PROVE  /\ Restartable(t, set, u) => Restartable(t, set, w)
         /\ \A j \in Nat : CaughtUp(t, set, u, j) => CaughtUp(t, set, w, j)
         /\ Reaches(t, set, u) => Reaches(t, set, w)
<1>1. \A n \in Renames(set) : /\ w[set[n].path] = u[set[n].path]
                              /\ w[set[n].other] = u[set[n].other]
  BY RenamesApart DEF SameDocs
<1>2. /\ BodiesKept(t, set, u) => BodiesKept(t, set, w)
      /\ ModesKept(t, set, u) => ModesKept(t, set, w)
  BY <1>1 DEF SameDocs, BodiesKept, ModesKept
<1>3. ASSUME NEW j \in Nat
      PROVE  /\ Past(t, set, u, j) => Past(t, set, w, j)
             /\ BodiesAgree(t, set, u, j) => BodiesAgree(t, set, w, j)
             /\ ModesAgree(t, set, u, j) => ModesAgree(t, set, w, j)
  BY <1>1 DEF SameDocs, Past, BodiesAgree, ModesAgree
<1>4. Docs(w) = Docs(u) /\ Content(w) = Content(u)
  BY DEF Docs, Content, SameDocs
<1> QED BY <1>2, <1>3, <1>4 DEF Restartable, CaughtUp, Reaches

LEMMA SameDocsEqual ==
  ASSUME NEW t \in Trees, NEW u \in Trees
  PROVE  Docs(u) = Docs(t) <=> SameDocs(t, u)
<1>1. \A x \in Path : Docs(u)[x] = u[x] /\ Docs(t)[x] = t[x]
  BY DEF Docs
<1>2. Docs(u) = Docs(t) => SameDocs(t, u)
  BY <1>1 DEF SameDocs
<1>3. SameDocs(t, u) => Docs(u) = Docs(t)
  BY DEF SameDocs, Docs
<1> QED BY <1>2, <1>3

-----------------------------------------------------------------------------
(* What a call that fails, or that the process dies in, can leave.           *)

\* A tree of the set's own run has caught up with it.
LEMMA RunStands ==
  ASSUME AtomicReplace, NEW t \in Trees, NEW set \in Seq(Op), Sane(t, set),
         NEW j \in 0 .. Len(set), NEW u \in Trees, SameDocs(Run(t, set)[j], u)
  PROVE  Restartable(t, set, u) /\ CaughtUp(t, set, u, j)
<1>1. PICK v \in Trees : v = Run(t, set)[j]
  BY RunKept
<1>2. Admissible(set) /\ Len(set) \in Nat /\ j \in Nat
  BY RunSteps DEF Sane
<1>3. Restartable(t, set, v)
  BY <1>1, RunRestartable
<1>4. CaughtUp(t, set, v, j)
  BY <1>1, RunKept DEF CaughtUp, BodiesAgree, ModesAgree
<1> QED BY <1>1, <1>2, <1>3, <1>4, SameStanding

\* The entry an op is to replace may be gone, if it was a link or if the op
\* puts none, or a link, in its place.
LEMMA ClearKept ==
  ASSUME NEW t \in Trees, NEW set \in Seq(Op), Sane(t, set),
         NEW u \in Trees, BodiesKept(t, set, u),
         NEW j \in DOMAIN set, Past(t, set, u, j - 1), NEW p \in Path, j \in Puts(set, p),
         ~IsDir(u[p]), IsLink(u[p]) \/ set[j].act \in {"Remove", "SetLink"}
  PROVE  BodiesKept(t, set, [u EXCEPT ![p] = Absent])
<1>1. PICK w \in Trees : w = [u EXCEPT ![p] = Absent]
  BY EntryTypes, AsideSlots DEF Trees
<1>2. /\ w[p] = Absent /\ \A x \in Path \ {p} : w[x] = u[x]
      /\ Admissible(set) /\ j \in Nat /\ set[j].path = p
      /\ ~IsDir(Absent) /\ ~IsLink(Absent)
  BY <1>1, AsideSlots DEF Trees, Sane, Puts, IsDir, IsLink, Absent
<1>3. ~InRename(set, p) => SpotKept(t, set, p, w[p])
  BY <1>2 DEF BodiesKept, SpotKept
<1>4. ASSUME NEW n \in Renames(set), p \in Names(set[n])
      PROVE  MoveKept(t, set, n, w[set[n].path], w[set[n].other])
  <2>1. PICK a \in Path, b \in Path : a = set[n].path /\ b = set[n].other /\ a # b
    BY <1>2, RenamesApart
  <2>2. p \in {a, b}
    BY <1>2, <1>4, <2>1, OneRename
  <2>3. Puts(set, a) = {} /\ Puts(set, b) = Fills(set, b) /\ \A k \in Puts(set, b) : k > n
    BY <1>2, <2>1, RenamePaths
  <2>4. p = b /\ j > n /\ j \in Fills(set, b)
    BY <2>2, <2>3
  <2>5. n <= j - 1
    BY <1>2, <2>4 DEF Renames
  <2>6. IsDir(t[b]) \/ u[a] = Absent
    BY <2>1, <2>5 DEF Past
  <2>7. u[a] = Absent /\ ~IsDir(t[b]) /\ ~IsDir(t[a])
    BY <1>2, <2>1, <2>4, <2>6, DestinationPast DEF BodiesKept
  <2>8. /\ t[a] \in Entry /\ u[a] \in Entry /\ u[b] \in Entry /\ ~IsLink(t[a])
        /\ Absent \in Entry
    BY <2>1, AsideSlots, EntryTypes DEF Trees, Sane
  <2>9. IsLink(u[b])
    BY <2>4 DEF Fills, Lands
  <2>10. Bare(u[b]) # Bare(t[a]) /\ ~IsFile(u[b])
    <3>1. ~IsFile(u[b])
      BY <2>9 DEF IsLink, IsFile
    <3>2. Bare(u[b]) # Bare(t[a])
      BY <2>8, <2>9, BareKinds
    <3> QED BY <3>1, <3>2
  <2>11. Bare(u[a]) = Bare(t[a])
    BY <2>1, <2>10 DEF BodiesKept, MoveKept
  <2>12. w[a] = u[a] /\ w[b] = Absent
    BY <1>2, <2>1, <2>4
  <2>13. MoveKept(t, set, n, w[a], w[b])
    BY <2>1, <2>7, <2>11, <2>12 DEF MoveKept
  <2> QED BY <2>1, <2>13
<1>5. PICK X \in SUBSET Path : X = {p}
  OBVIOUS
<1>6. BodiesKept(t, set, w)
  <2>1. \A x \in X : ~InRename(set, x) => SpotKept(t, set, x, w[x])
    BY <1>3, <1>5
  <2>2. \A n \in Renames(set) : Names(set[n]) \cap X # {} =>
          MoveKept(t, set, n, w[set[n].path], w[set[n].other])
    BY <1>4, <1>5
  <2>3. \A x \in Path \ X : w[x] = u[x]
    BY <1>2, <1>5
  <2> QED BY <1>2, <2>1, <2>2, <2>3, KeptElsewhere
<1> QED BY <1>1, <1>6

\* Bytes written over a file, whatever they are.
LEMMA OverwriteStands ==
  ASSUME AtomicReplace, NEW t \in Trees, NEW set \in Seq(Op), Sane(t, set),
         NEW u \in Trees, Restartable(t, set, u),
         NEW j \in DOMAIN set, Past(t, set, u, j - 1), set[j].act \in {"Write", "CopyFrom"},
         NEW p \in Path, p = set[j].path, IsFile(u[p]),
         NEW b \in Bytes \cup {Torn}
  PROVE  Restartable(t, set, Written(u, p, b))
<1>1. p \in Slot /\ u[p] \in Entry /\ Admissible(set) /\ ~IsLink(u[p]) /\ ~IsDir(u[p])
  BY AsideSlots DEF Trees, Sane, IsFile, IsLink, IsDir
<1>2. PICK e \in Entry : e = File(b, u[p].exec)
  BY <1>1, EntryKinds, EntryTypes DEF IsFile
<1>3. Referent(u, p) = p
  BY <1>1, ReferentSlot
<1>4. Written(u, p, b) = [u EXCEPT ![p] = File(b, IsFile(u[p]) /\ u[p].exec)]
  BY <1>1, <1>3 DEF Written
<1>a. (IsFile(u[p]) /\ u[p].exec) = u[p].exec
  <2>1. u[p].exec \in BOOLEAN
    BY <1>1, EntryKinds DEF IsFile
  <2> QED BY <2>1
<1>5. PICK w \in Trees : w = [u EXCEPT ![p] = e] /\ w = Written(u, p, b)
  BY <1>1, <1>2, <1>4, <1>a DEF Trees
<1>6. /\ w[p] = e /\ IsFile(e) /\ Mode(e) = Mode(u[p])
      /\ \A x \in Path : x # p => w[x] = u[x]
  BY <1>1, <1>2, <1>5, AsideSlots DEF Trees, File, IsFile, Mode
<1>7. BodiesKept(t, set, w)
  <2>1. BodiesKept(t, set, u)
    BY DEF Restartable
  <2>2. BodiesKept(t, set, [u EXCEPT ![p] = e])
    BY <1>1, <1>6, <2>1, PutKeeps
  <2> QED BY <1>5, <2>2
<1>8. ASSUME ModesKept(t, set, u) PROVE ModesKept(t, set, w)
  <2>1. ASSUME NEW x \in Path
        PROVE  /\ IsFile(u[x]) => IsFile(w[x])
               /\ Mode(w[x]) = Mode(u[x])
               /\ w[x] = Absent <=> u[x] = Absent
    <3>1. e # Absent /\ u[p] # Absent
      BY <1>6 DEF IsFile, Absent
    <3> QED BY <1>6, <3>1
  <2>2. \A x \in Path : SpotModeKept(t, set, x, u[x]) => SpotModeKept(t, set, x, w[x])
    BY <2>1 DEF SpotModeKept
  <2>3. ASSUME NEW n \in Renames(set)
        PROVE  MoveModeKept(t, set, n, w[set[n].path], w[set[n].other])
    <3>1. set[n].path \in Path /\ set[n].other \in Path
      BY <1>1, RenamesApart
    <3>2. MoveModeKept(t, set, n, u[set[n].path], u[set[n].other])
      BY <1>8 DEF ModesKept
    <3> QED BY <2>1, <3>1, <3>2 DEF MoveModeKept
  <2> QED BY <1>8, <2>2, <2>3 DEF ModesKept
<1> QED BY <1>5, <1>7, <1>8 DEF Restartable

\* A call cut short on a backend that replaces atomically.
LEMMA LeftStands ==
  ASSUME AtomicReplace, NEW t \in Trees, NEW set \in Seq(Op), Sane(t, set),
         NEW u \in Trees, Restartable(t, set, u),
         NEW j \in DOMAIN set, CaughtUp(t, set, u, j - 1), NEW y \in Left(u, set[j])
  PROVE  Restartable(t, set, y)
<1>1. /\ set[j] \in Op /\ set[j].path \in Path
      /\ BodiesKept(t, set, u) /\ Past(t, set, u, j - 1)
  BY OpFields DEF Restartable, CaughtUp
<1>2. CASE y = u
  BY <1>2
<1>3. CASE CanRun(u, set[j]) /\ set[j].act = "SetExecutable" /\ y = Ran(u, set[j])
  <2>1. y = After(u, set[j])
    BY <1>3 DEF After
  <2> QED BY <1>3, <2>1, CaughtUpStep
<1>4. CASE CanRun(u, set[j]) /\ set[j].act = "SetLink" /\ y = Removed(u, set[j].path)
  <2>1. ~IsDir(u[set[j].path]) /\ j \in Puts(set, set[j].path)
    BY <1>4 DEF CanRun, CanLink, Puts
  <2>2. BodiesKept(t, set, y)
    BY <1>1, <1>4, <2>1, ClearKept DEF Removed
  <2>3. ~LinkFree(t, set)
    BY <1>4 DEF LinkFree
  <2> QED BY <2>2, <2>3 DEF Restartable, Exact
<1> QED BY <1>2, <1>3, <1>4 DEF Left, Lands

\* What an op is to replace, moved aside.
LEMMA AsideStands ==
  ASSUME AtomicReplace, NEW t \in Trees, NEW set \in Seq(Op), Sane(t, set),
         NEW j \in DOMAIN set, NEW u \in Trees, SameDocs(Run(t, set)[j - 1], u),
         set[j].act \in {"Rename", "Remove", "SetLink"},
         NEW p \in Path, p = Displaced(set[j]), ~IsDir(u[p]),
         NEW y \in Trees, SameDocs([u EXCEPT ![p] = Absent], y)
  PROVE  Restartable(t, set, y)
<1>1. /\ set[j] \in Op /\ Admissible(set) /\ j - 1 \in 0 .. Len(set) /\ j \in Nat
      /\ Len(set) \in Nat /\ DOMAIN set = 1 .. Len(set)
  BY RunSteps DEF Sane
<1>2. Restartable(t, set, u) /\ CaughtUp(t, set, u, j - 1)
  BY <1>1, RunStands
<1>3. PICK w \in Trees : w = [u EXCEPT ![p] = Absent]
  BY EntryTypes, AsideSlots DEF Trees
<1>4. w[p] = Absent /\ \A x \in Path : x # p => w[x] = u[x]
  BY <1>3, AsideSlots DEF Trees
<1>5. CASE set[j].act = "Remove"
  <2>1. ~Stands(u, set[j]) /\ set[j].path = p
    BY <1>5 DEF Stands, Displaced
  <2>2. w = After(u, set[j])
    BY <1>1, <1>3, <1>5, <2>1, PutEffect DEF Put
  <2>3. CanReplay(u, set[j])
    BY <1>5, <2>1 DEF CanReplay, Stands
  <2>4. Restartable(t, set, w)
    BY <1>2, <2>2, <2>3, CaughtUpStep
  <2> QED BY <1>1, <1>3, <2>4, SameStanding
<1>6. CASE set[j].act = "SetLink"
  <2>1. j \in Puts(set, p)
    BY <1>6 DEF Displaced, Puts
  <2>2. BodiesKept(t, set, w)
    BY <1>2, <1>3, <1>6, <2>1, ClearKept DEF Restartable, CaughtUp
  <2>3. ~LinkFree(t, set)
    BY <1>6 DEF LinkFree
  <2>4. Restartable(t, set, w)
    BY <2>2, <2>3 DEF Restartable, Exact
  <2> QED BY <1>1, <1>3, <2>4, SameStanding
<1>7. CASE set[j].act = "Rename"
  <2>1. j \in Renames(set)
    BY <1>7 DEF Renames
  <2>2. PICK a \in Path : a = set[j].path /\ a # p /\ p = set[j].other
    BY <1>1, <1>7, <2>1, RenamesApart DEF Displaced
  <2>3. PICK v \in Trees : v = Run(t, set)[j - 1]
    BY <1>1, RunSteps
  <2>4. u[p] = t[p] /\ Bare(u[a]) = Bare(t[a]) /\ u[a] = v[a]
    <3>1. j - 1 < j
      BY <1>1
    <3>2. v[p] = t[p] /\ Bare(v[a]) = Bare(t[a])
      BY <1>1, <2>1, <2>2, <2>3, <3>1, RunBefore
    <3> QED BY <2>2, <2>3, <3>2 DEF SameDocs
  <2>5. MoveKept(t, set, j, w[a], w[p])
    BY <1>4, <2>2, <2>4 DEF MoveKept
  <2>6. \A n \in Renames(set) : n # j => set[n].path # p /\ set[n].other # p
    <3>1. p \in Names(set[j])
      BY <1>7, <2>2 DEF Names, Two
    <3> QED BY <1>1, <2>1, <3>1, OneRename
  <2>7. InRename(set, p)
    BY <1>7, <2>1, <2>2 DEF InRename, Names, Two
  <2>8. BodiesKept(t, set, w)
    <3>1. \A x \in Path : ~InRename(set, x) => w[x] = u[x]
      BY <1>4, <2>7
    <3>2. \A n \in Renames(set) : n # j =>
            w[set[n].path] = u[set[n].path] /\ w[set[n].other] = u[set[n].other]
      BY <1>1, <1>4, <2>6, RenamesApart
    <3> QED BY <1>2, <2>2, <2>5, <3>1, <3>2 DEF Restartable, BodiesKept
  <2>9. ASSUME Exact(t, set) PROVE ModesKept(t, set, w)
    <3>1. v[a] # Absent
      BY <1>7, <2>2, <2>3, <2>9 DEF Exact, Completes, CanRun, CanMove
    <3>2. w[a] = u[a] /\ u[a] # Absent
      BY <1>4, <2>2, <2>4, <3>1
    <3>3. MoveModeKept(t, set, j, u[a], u[p])
      BY <1>2, <2>1, <2>2, <2>9 DEF Restartable, ModesKept
    <3>4. MoveModeKept(t, set, j, w[a], w[p])
      BY <2>2, <3>2, <3>3 DEF MoveModeKept
    <3>5. \A x \in Path : ~InRename(set, x) => w[x] = u[x]
      BY <1>4, <2>7
    <3>6. \A n \in Renames(set) : n # j =>
            w[set[n].path] = u[set[n].path] /\ w[set[n].other] = u[set[n].other]
      BY <1>1, <1>4, <2>6, RenamesApart
    <3> QED BY <1>2, <2>2, <2>9, <3>4, <3>5, <3>6 DEF Restartable, ModesKept
  <2>10. Restartable(t, set, w)
    BY <2>8, <2>9 DEF Restartable
  <2> QED BY <1>1, <1>3, <2>10, SameStanding
<1> QED BY <1>5, <1>6, <1>7

=============================================================================
