----------------------------- MODULE Replayable -----------------------------
(***************************************************************************)
(* The rule a journaled set is held to before its commit point: no op may  *)
(* read what a later op changes, because recovery replays the set from its *)
(* first op over whatever a crash left.                                    *)
(***************************************************************************)
EXTENDS FileOps

CONSTANT Under   \* pairs <<a, b>> of paths, b lying inside a

ASSUME UnderAssumption ==
  /\ Under \subseteq Path \X Path
  /\ \A p \in Path : <<p, p>> \notin Under

Two(op) == op.act \in {"Rename", "CopyFrom"}

Names(op) == IF Two(op) THEN {op.path, op.other} ELSE {op.path}

Mentions(op, p) == p \in Names(op)

Nested(a, b) == <<a, b>> \in Under \/ <<b, a>> \in Under

\* Two ops name a path inside a path of the other.  Written as the code writes
\* it: of an op's second path, only against a first or a second path.
NestedOps(a, b) ==
  \/ Nested(a.path, b.path)
  \/ Two(a) /\ Nested(a.other, b.path)
  \/ Two(b) /\ Nested(a.path, b.other)
  \/ Two(a) /\ Two(b) /\ Nested(a.other, b.other)

Flips(op, p) == op.act = "SetExecutable" /\ op.path = p

WritesOnly(op, p) ==
  \/ op.act = "Write" /\ op.path = p
  \/ op.act = "CopyFrom" /\ op.path = p /\ op.other # p

KeepsFile(op, p) == WritesOnly(op, p) \/ Flips(op, p)

Leaves(op, p) ==
  \/ op.act = "Remove" /\ op.path = p
  \/ op.act = "Rename" /\ op.path = p /\ op.other # p

OnlyCopiesFrom(op, p) ==
  op.act = "CopyFrom" /\ op.other = p /\ op.path # p

\* Mutant of RenameAllows: a rename's source may be named again after it.
RenameAllowsReuse(a, i, b, k) ==
  /\ k = i => a.path # a.other
  /\ (k < i /\ Mentions(b, a.path)) => Flips(b, a.path)
  /\ k < i => ~Mentions(b, a.other)
  /\ (k > i /\ Mentions(b, a.other)) => KeepsFile(b, a.other)

\* What a rename asks of op k, standing at i.
RenameAllows(a, i, b, k) ==
  /\ k = i => a.path # a.other
  /\ (k < i /\ Mentions(b, a.path)) => Flips(b, a.path)
  /\ k > i => ~Mentions(b, a.path)
  /\ k < i => ~Mentions(b, a.other)
  /\ (k > i /\ Mentions(b, a.other)) => KeepsFile(b, a.other)

\* Mutant of FlipAllows: anything may follow a flip.
FlipAllowsAll(a, i, b, k) == TRUE

FlipAllows(a, i, b, k) ==
  (k > i /\ Mentions(b, a.path)) => KeepsFile(b, a.path) \/ Leaves(b, a.path)

\* Mutant of CopyAllows: what a copy reads may change before and after it.
CopyAllowsChange(a, i, b, k) == k = i => a.path # a.other

CopyAllows(a, i, b, k) ==
  /\ k = i => a.path # a.other
  /\ (k # i /\ Mentions(b, a.other)) => OnlyCopiesFrom(b, a.other)

\* pair: what op i requires of op k, which may be itself.
Pair(set, i, k) ==
  /\ ~NestedOps(set[i], set[k])
  /\ set[i].act = "Rename" => RenameAllows(set[i], i, set[k], k)
  /\ set[i].act = "SetExecutable" => FlipAllows(set[i], i, set[k], k)
  /\ set[i].act = "CopyFrom" => CopyAllows(set[i], i, set[k], k)

Admissible(set) == \A i, k \in DOMAIN set : Pair(set, i, k)

\* check, as apply asks it: a set of one replays from its only op.
Replays(set) == Len(set) > 1 => Admissible(set)

=============================================================================
