----------------------------- MODULE TreeProofs -----------------------------
(***************************************************************************)
(* Facts about the calls of the port: each keeps a tree a tree, and says   *)
(* which slots it may change; and the two forms of induction over the      *)
(* numbers that the other modules of proofs use.                           *)
(***************************************************************************)
EXTENDS FileOps, TLAPS, WellFoundedInduction

\* A tree of the model: every path and every aside holds an entry.
Trees == [Slot -> Entry]

\* An entry is of exactly one kind, and has that kind's fields.
LEMMA EntryKinds ==
  ASSUME NEW e \in Entry
  PROVE  \/ e = Absent /\ e.kind = "absent"
         \/ e = Directory /\ e.kind = "dir"
         \/ /\ e.kind = "file" /\ e = File(e.bytes, e.exec)
            /\ e.bytes \in Bytes \cup {Torn} /\ e.exec \in BOOLEAN
         \/ /\ e.kind = "link" /\ e = Link(e.target)
            /\ e.target \in Target
BY DEF Entry, Absent, Directory, File, Link

\* What a link leads to is a path, or the slot itself.
LEMMA ReferentSlot ==
  ASSUME NEW t \in Trees, NEW s \in Slot
  PROVE  /\ Referent(t, s) \in Path \cup {s}
         /\ Referent(t, s) \in Slot
         /\ ~IsLink(t[s]) => Referent(t, s) = s
BY DEF Referent, Slot

LEMMA EntryTypes ==
  /\ Absent \in Entry
  /\ \A b \in Bytes \cup {Torn}, x \in BOOLEAN : File(b, x) \in Entry
  /\ \A to \in Target : Link(to) \in Entry
BY DEF Entry

\* Each call maps trees to trees.
LEMMA CallTypes ==
  ASSUME NEW t \in Trees, NEW s \in Slot
  PROVE  /\ Removed(t, s) \in Trees
         /\ \A u \in Slot : Moved(t, u, s) \in Trees
         /\ \A to \in Target : Linked(t, s, to) \in Trees
         /\ \A x \in BOOLEAN : Flipped(t, s, x) \in Trees
         /\ \A b \in Bytes \cup {Torn} : Written(t, s, b) \in Trees
         /\ \A b \in Bytes \cup {Torn} : Replaced(t, s, b) \in Trees
<1>1. Removed(t, s) \in Trees
  BY EntryTypes DEF Removed, Trees
<1>2. ASSUME NEW u \in Slot PROVE Moved(t, u, s) \in Trees
  BY EntryTypes DEF Moved, Trees
<1>3. ASSUME NEW to \in Target PROVE Linked(t, s, to) \in Trees
  BY EntryTypes DEF Linked, Trees
<1> DEFINE r == Referent(t, s)
<1>r. r \in Slot /\ t[r] \in Entry
  BY ReferentSlot DEF Trees
<1> HIDE DEF r
<1>4. ASSUME NEW x \in BOOLEAN PROVE Flipped(t, s, x) \in Trees
  <2>1. CASE IsFile(t[r])
    <3>1. t[r].bytes \in Bytes \cup {Torn}
      BY <1>r, <2>1, EntryKinds DEF IsFile
    <3>2. File(t[r].bytes, x) \in Entry
      BY <3>1, EntryTypes
    <3>3. Flipped(t, s, x) = [t EXCEPT ![r] = File(t[r].bytes, x)]
      BY <2>1 DEF Flipped, r
    <3> QED BY <3>2, <3>3 DEF Trees
  <2>2. CASE ~IsFile(t[r])
    BY <2>2 DEF Flipped, r
  <2> QED BY <2>1, <2>2
<1>5. ASSUME NEW b \in Bytes \cup {Torn} PROVE Written(t, s, b) \in Trees
  <2>1. (IsFile(t[r]) /\ t[r].exec) \in BOOLEAN
    OBVIOUS
  <2>2. File(b, IsFile(t[r]) /\ t[r].exec) \in Entry
    BY <2>1, EntryTypes
  <2>3. Written(t, s, b) \in {t, [t EXCEPT ![r] = File(b, IsFile(t[r]) /\ t[r].exec)]}
    BY DEF Written, r
  <2> QED BY <2>2, <2>3 DEF Trees
<1>6. ASSUME NEW b \in Bytes \cup {Torn} PROVE Replaced(t, s, b) \in Trees
  <2>1. CarriedExec(t, s) \in BOOLEAN
    BY DEF CarriedExec
  <2>2. File(b, CarriedExec(t, s)) \in Entry
    BY <2>1, EntryTypes
  <2> QED BY <1>5, <2>2 DEF Replaced, Trees
<1> QED BY <1>1, <1>2, <1>3, <1>4, <1>5, <1>6

\* Asides are named apart from the paths.
LEMMA AsideSlots ==
  /\ \A a \in Aside : a \in Slot /\ a \notin Path
  /\ \A x \in Path : x \in Slot /\ x \notin Aside
  /\ \A x \in Path, k \in 1 .. MaxOps : AsideOf(x, k) \in Aside
BY PathAssumption DEF Slot, Aside, AsideOf

\* A call on a path touches no aside, but for a move out of one.
LEMMA CallFrame ==
  ASSUME NEW t \in Trees, NEW x \in Path, NEW a \in Aside
  PROVE  /\ Removed(t, x)[a] = t[a]
         /\ \A u \in Slot : Moved(t, u, x)[a] = IF u = a THEN Absent ELSE t[a]
         /\ \A to \in Target : Linked(t, x, to)[a] = t[a]
         /\ \A e \in BOOLEAN : Flipped(t, x, e)[a] = t[a]
         /\ \A b \in Bytes \cup {Torn} : Written(t, x, b)[a] = t[a]
         /\ \A b \in Bytes \cup {Torn} : Replaced(t, x, b)[a] = t[a]
<1> DEFINE r == Referent(t, x)
<1>r. r \in Path /\ r # a /\ x # a /\ a \in Slot /\ x \in Slot
  BY ReferentSlot, AsideSlots
<1> HIDE DEF r
<1>1. Removed(t, x)[a] = t[a]
  BY <1>r DEF Removed, Trees
<1>2. ASSUME NEW u \in Slot PROVE Moved(t, u, x)[a] = IF u = a THEN Absent ELSE t[a]
  BY <1>r DEF Moved, Trees
<1>3. ASSUME NEW to \in Target PROVE Linked(t, x, to)[a] = t[a]
  BY <1>r DEF Linked, Trees
<1>4. ASSUME NEW e \in BOOLEAN PROVE Flipped(t, x, e)[a] = t[a]
  BY <1>r DEF Flipped, Trees, r
<1>5. ASSUME NEW b \in Bytes \cup {Torn} PROVE Written(t, x, b)[a] = t[a]
  BY <1>r DEF Written, Trees, r
<1>6. ASSUME NEW b \in Bytes \cup {Torn} PROVE Replaced(t, x, b)[a] = t[a]
  BY <1>r, <1>5 DEF Replaced, Trees
<1> QED BY <1>1, <1>2, <1>3, <1>4, <1>5, <1>6

\* The fields of a staged op.
LEMMA OpFields ==
  ASSUME NEW op \in Op
  PROVE  /\ op.act \in {"Write", "Rename", "Remove", "CopyFrom", "SetExecutable", "SetLink"}
         /\ op.path \in Path
         /\ op.act = "Write" => op.bytes \in Bytes
         /\ op.act \in {"Rename", "CopyFrom"} => op.other \in Path
         /\ op.act = "SetExecutable" => op.exec \in BOOLEAN
         /\ op.act = "SetLink" => op.target \in Target
         /\ Displaced(op) \in Path
BY DEF Op, Write, Rename, Remove, CopyFrom, SetExecutable, SetLink, Displaced

LEMMA ReadableBytes ==
  ASSUME NEW t \in Trees, NEW s \in Slot, Readable(t, s)
  PROVE  BytesAt(t, s) \in Bytes \cup {Torn}
<1>1. Referent(t, s) \in Slot /\ t[Referent(t, s)] \in Entry
  BY ReferentSlot DEF Trees
<1> QED BY <1>1, EntryKinds DEF Readable, BytesAt, IsFile

\* A tree that some calls on paths have led to from t, as far as types and the
\* asides go.
Near(t, u) == u \in Trees /\ \A a \in Aside : u[a] = t[a]

\* Each call on a path, but a move out of an aside, leaves every aside alone.
LEMMA CallNear ==
  ASSUME NEW t \in Trees, NEW x \in Path
  PROVE  /\ Near(t, t)
         /\ Near(t, Removed(t, x))
         /\ \A y \in Path : Near(t, Moved(t, y, x))
         /\ \A to \in Target : Near(t, Linked(t, x, to))
         /\ \A e \in BOOLEAN : Near(t, Flipped(t, x, e))
         /\ \A b \in Bytes \cup {Torn} : Near(t, Written(t, x, b))
         /\ \A b \in Bytes \cup {Torn} : Near(t, Replaced(t, x, b))
<1>x. x \in Slot /\ \A y \in Path : y \in Slot /\ y \notin Aside
  BY AsideSlots
<1>1. Near(t, t)
  BY DEF Near
<1>2. Near(t, Removed(t, x))
  BY <1>x, CallTypes, CallFrame DEF Near
<1>3. ASSUME NEW y \in Path PROVE Near(t, Moved(t, y, x))
  BY <1>x, CallTypes, CallFrame DEF Near
<1>4. ASSUME NEW to \in Target PROVE Near(t, Linked(t, x, to))
  BY <1>x, CallTypes, CallFrame DEF Near
<1>5. ASSUME NEW e \in BOOLEAN PROVE Near(t, Flipped(t, x, e))
  BY <1>x, CallTypes, CallFrame DEF Near
<1>6. ASSUME NEW b \in Bytes \cup {Torn} PROVE Near(t, Written(t, x, b))
  BY <1>x, CallTypes, CallFrame DEF Near
<1>7. ASSUME NEW b \in Bytes \cup {Torn} PROVE Near(t, Replaced(t, x, b))
  BY <1>x, CallTypes, CallFrame DEF Near
<1> QED BY <1>1, <1>2, <1>3, <1>4, <1>5, <1>6, <1>7

\* Running a staged op, whole or in part, leaves a tree and every aside alone.
LEMMA RanNear ==
  ASSUME NEW t \in Trees, NEW op \in Op, CanRun(t, op)
  PROVE  Near(t, Ran(t, op))
<1>1. CASE op.act \in {"Write", "CopyFrom"}
  <2>1. Contents(t, op) \in Bytes \cup {Torn}
    BY <1>1, OpFields, ReadableBytes, AsideSlots DEF Contents, CanRun
  <2>2. Ran(t, op) = Replaced(t, op.path, Contents(t, op))
    BY <1>1 DEF Ran, Lands
  <2> QED BY <2>1, <2>2, OpFields, CallNear
<1>2. CASE op.act = "Rename"
  <2>1. Ran(t, op) = Moved(t, op.path, op.other)
    BY <1>2 DEF Ran, Lands
  <2> QED BY <1>2, <2>1, OpFields, CallNear
<1>3. CASE op.act = "Remove"
  <2>1. Ran(t, op) = Removed(t, op.path)
    BY <1>3 DEF Ran, Lands
  <2> QED BY <1>3, <2>1, OpFields, CallNear
<1>4. CASE op.act = "SetExecutable"
  <2>1. Ran(t, op) = Flipped(t, op.path, op.exec)
    BY <1>4 DEF Ran, Lands
  <2> QED BY <1>4, <2>1, OpFields, CallNear
<1>5. CASE op.act = "SetLink"
  <2>1. Ran(t, op) = Linked(t, op.path, op.target)
    BY <1>5 DEF Ran, Lands
  <2> QED BY <1>5, <2>1, OpFields, CallNear
<1> QED BY <1>1, <1>2, <1>3, <1>4, <1>5, OpFields

LEMMA LeftNear ==
  ASSUME NEW t \in Trees, NEW op \in Op, NEW u \in Left(t, op)
  PROVE  Near(t, u)
<1>1. CASE u = t
  BY <1>1, OpFields, CallNear
<1>2. CASE Lands(op) /\ ~AtomicReplace /\ CanRun(t, op)
  <2>1. Contents(t, op) \in Bytes \cup {Torn}
    BY <1>2, OpFields, ReadableBytes, AsideSlots DEF Contents, CanRun, Lands
  <2>2. u \in {t} \cup {Written(t, op.path, b) : b \in {Torn, Contents(t, op)}}
    BY <1>2 DEF Left
  <2> QED BY <2>1, <2>2, <1>1, OpFields, CallNear
<1>3. CASE op.act = "SetExecutable" /\ CanRun(t, op)
  <2>1. u \in {t, Ran(t, op)}
    BY <1>3 DEF Left, Lands
  <2> QED BY <2>1, <1>1, <1>3, RanNear
<1>4. CASE op.act = "SetLink" /\ CanRun(t, op)
  <2>1. u \in {t, Removed(t, op.path)}
    BY <1>4 DEF Left, Lands
  <2> QED BY <2>1, <1>1, OpFields, CallNear
<1>5. \/ u = t
      \/ Lands(op) /\ ~AtomicReplace /\ CanRun(t, op)
      \/ op.act = "SetExecutable" /\ CanRun(t, op)
      \/ op.act = "SetLink" /\ CanRun(t, op)
  BY DEF Left
<1> QED BY <1>1, <1>2, <1>3, <1>4, <1>5

LEMMA ReplayedNear ==
  ASSUME NEW t \in Trees, NEW op \in Op, CanReplay(t, op)
  PROVE  Near(t, Replayed(t, op))
<1>1. CASE Replayed(t, op) = t
  BY <1>1, OpFields, CallNear
<1>2. CASE op.act = "Remove"
  <2>1. Replayed(t, op) = Removed(t, op.path)
    BY <1>2 DEF Replayed, Ran, Lands
  <2> QED BY <2>1, OpFields, CallNear
<1>3. CASE op.act = "Rename" /\ Exists(t, op.path)
  <2>1. Replayed(t, op) = Moved(t, op.path, op.other)
    BY <1>3 DEF Replayed, Ran, Lands
  <2> QED BY <1>3, <2>1, OpFields, CallNear
<1>4. CASE op.act = "SetExecutable" /\ Exists(t, op.path)
  <2>1. Replayed(t, op) = Flipped(t, op.path, op.exec)
    BY <1>4 DEF Replayed, Ran, Lands
  <2> QED BY <1>4, <2>1, OpFields, CallNear
<1>5. CASE op.act \in {"Write", "CopyFrom", "SetLink"}
  <2>1. CanRun(t, op) /\ Replayed(t, op) = Ran(t, op)
    BY <1>5 DEF CanReplay, Replayed
  <2> QED BY <2>1, RanNear
<1> QED BY <1>1, <1>2, <1>3, <1>4, <1>5, OpFields DEF Replayed

-----------------------------------------------------------------------------
(* Induction over the numbers, from the fact that they are well founded.     *)

NatLess == {ss \in Nat \X Nat : ss[1] < ss[2]}

\* A set of numbers that is not empty has a least one.
LEMMA NatLeast ==
  ASSUME NEW T \in SUBSET Nat, T # {}
  PROVE  \E x \in T : \A y \in T : x <= y
<1>1. IsWellFoundedOn(NatLess, Nat)
  BY NatLessThanWellFounded DEF OpToRel, NatLess
<1>2. PICK x \in T : \A y \in T : ~(<<y, x>> \in NatLess)
  <2> HIDE DEF NatLess
  <2> QED BY <1>1, WFMin
<1>3. \A y \in T : ~(y < x)
  BY <1>2 DEF NatLess
<1> QED BY <1>3

\* What holds of 0, and of k + 1 when it holds of k, holds up to N.
LEMMA UpTo ==
  ASSUME NEW N \in Nat, NEW S, 0 \in S,
         \A k \in Nat : (k < N /\ k \in S) => k + 1 \in S
  PROVE  \A k \in 0 .. N : k \in S
<1>1. PICK T \in SUBSET Nat : \A k \in Nat : k \in T <=> (k <= N /\ k \notin S)
  <2>1. {k \in Nat : k <= N /\ k \notin S} \in SUBSET Nat
    OBVIOUS
  <2> QED BY <2>1
<1>2. SUFFICES ASSUME T # {} PROVE FALSE
  BY <1>1
<1>3. PICK x \in T : \A y \in T : x <= y
  BY <1>2, NatLeast
<1>4. x \in Nat /\ x # 0 /\ x <= N /\ x \notin S
  BY <1>1, <1>3
<1>5. PICK k \in Nat : x = k + 1
  <2>1. x - 1 \in Nat /\ x = (x - 1) + 1
    BY <1>4
  <2> QED BY <2>1
<1>6. k \in S
  BY <1>1, <1>3, <1>4, <1>5
<1> QED BY <1>4, <1>5, <1>6

\* f begins at x, and its next N values are each made by G from the one before.
Made(f, x, G, N) ==
  f[0] = x /\ \A n \in Nat : n < N => f[n + 1] = G[n + 1][f[n]]

LEMMA Iterates ==
  ASSUME NEW N \in Nat, NEW X, NEW x \in X, NEW G \in [Nat -> [X -> X]]
  PROVE  \E f \in [Nat -> X] : Made(f, x, G, N)
<1> DEFINE S == {m \in Nat : \E f \in [Nat -> X] : Made(f, x, G, m)}
<1>1. 0 \in S
  <2>1. [k \in Nat |-> x] \in [Nat -> X] /\ [k \in Nat |-> x][0] = x
    OBVIOUS
  <2>2. Made([k \in Nat |-> x], x, G, 0)
    BY <2>1 DEF Made
  <2> QED BY <2>1, <2>2
<1>2. ASSUME NEW m \in Nat, m \in S PROVE m + 1 \in S
  <2>1. PICK f \in [Nat -> X] : Made(f, x, G, m)
    BY <1>2
  <2>2. PICK g : g = [f EXCEPT ![m + 1] = G[m + 1][f[m]]]
    OBVIOUS
  <2>3. g \in [Nat -> X] /\ g[m + 1] = G[m + 1][f[m]] /\ \A n \in Nat : n <= m => g[n] = f[n]
    BY <2>2
  <2>4. ASSUME NEW n \in Nat, n < m + 1 PROVE g[n + 1] = G[n + 1][g[n]]
    <3>1. CASE n = m
      BY <2>3, <3>1
    <3>2. CASE n < m
      BY <2>1, <2>3, <3>2 DEF Made
    <3> QED BY <2>4, <3>1, <3>2
  <2>5. Made(g, x, G, m + 1)
    BY <2>1, <2>3, <2>4 DEF Made
  <2>6. m + 1 \in Nat
    OBVIOUS
  <2> QED BY <2>3, <2>5, <2>6
<1>3. \A k \in 0 .. N : k \in S
  <2> HIDE DEF S
  <2> QED BY <1>1, <1>2, UpTo
<1>4. N \in S
  BY <1>3
<1> QED BY <1>4

=============================================================================
