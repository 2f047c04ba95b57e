------------------------------- MODULE MCSets -------------------------------
(***************************************************************************)
(* The sets a caller of the crate stages, two applied one after the other  *)
(* over three paths: a document moved and rewritten, a file made runnable  *)
(* and moved, copies of one source, links set and removed.                 *)
(***************************************************************************)
EXTENDS Claims

CONSTANTS d1, d2, d3, b1, b2, b3, bn, torn, nowhere

MCPath == {d1, d2, d3}
MCBytes == {b1, b2, b3, bn}
MCUnder == {}

Hold(e1, e2, e3) ==
  [s \in Slot |-> CASE s = d1 -> e1 [] s = d2 -> e2 [] s = d3 -> e3 [] OTHER -> Absent]

MCInitTrees ==
  {Hold(File(b1, FALSE), e2, File(b3, TRUE)) :
     e2 \in {Absent, File(b2, FALSE), Link(d3), Link(nowhere)}}

MoveAndRewrite == <<Rename(d1, d2), Write(d2, bn), Write(d3, bn)>>
MoveRunnable == <<SetExecutable(d1, TRUE), Rename(d1, d2), SetExecutable(d2, FALSE)>>
CopyTwice == <<CopyFrom(d2, d1), CopyFrom(d3, d1)>>
RemoveAndLink == <<Remove(d1), SetLink(d2, d3), Write(d3, bn)>>
LinkAndRemove == <<SetLink(d1, d2), Remove(d2), Write(d3, bn)>>
RemoveAndMove == <<Remove(d2), Rename(d1, d3)>>
Swap == <<Rename(d1, d2), Rename(d2, d1)>>

MCStaged ==
  {MoveAndRewrite, MoveRunnable, CopyTwice, RemoveAndLink, LinkAndRemove,
   RemoveAndMove, Swap, <<Rename(d1, d2)>>, <<Write(d2, bn)>>, <<SetLink(d1, d2)>>}

\* For the claims: one file of each, a set that moves over a file and then
\* finds a path gone, a directory to move, a source that is not there.
ClaimTrees == {Hold(File(b1, FALSE), File(b2, FALSE), e3) : e3 \in {Absent, Directory}}
ClaimStaged == {<<Rename(d1, d2), Write(d3, bn)>>}
MoveDirectory == {<<Rename(d3, d2), Write(d1, bn)>>}

=============================================================================
