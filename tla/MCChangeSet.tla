---------------------------- MODULE MCChangeSet ----------------------------
EXTENDS ChangeSet

CONSTANTS d1, d2, b1, b2, bn, torn, nowhere

MCPath == {d1, d2}
MCBytes == {b1, b2, bn}
MCUnder == {}

Other(x) == IF x = d1 THEN d2 ELSE d1
Own(x) == IF x = d1 THEN b1 ELSE b2

\* Every tree in which each path is free, a file of its own, a link to the
\* other path or out of the tree, or a directory.
Held(x) ==
  {Absent, Directory, Link(Other(x)), Link(nowhere)}
    \cup {File(Own(x), e) : e \in BOOLEAN}

Hold(e) == [s \in Slot |-> IF s \in Path THEN e[s] ELSE Absent]

MCInitTrees ==
  {Hold([x \in Path |-> IF x = d1 THEN e1 ELSE e2]) : e1 \in Held(d1), e2 \in Held(d2)}

\* Every op that does something of its own; a link may be set to the path it
\* is at, but leads nowhere then.
MCOp ==
  {op \in Op :
     /\ op.act = "Write" => op.bytes = bn
     /\ op.act = "SetLink" => op.target # op.path
     /\ op.act = "CopyFrom" => op.path # op.other}

\* One op, or two that the rule admits; and one pair that it refuses.
MCStaged ==
  {<<a>> : a \in MCOp}
    \cup {set \in {<<a, b>> : a, b \in MCOp} : Admissible(set)}
    \cup {<<Rename(d1, d2), Write(d1, bn)>>}

\* A backend that cannot replace atomically has no links either: OPFS and the
\* like, whose set_link refuses.
PlainInitTrees == {t \in MCInitTrees : \A x \in Path : ~IsLink(t[x])}
PlainStaged ==
  {set \in MCStaged : \A n \in DOMAIN set : set[n].act # "SetLink"}

=============================================================================
