------------------------------ MODULE FileOps ------------------------------
(***************************************************************************)
(* The operations a change set stages, and what each does to the tree: run *)
(* once by an apply, and replayed by a recovery that cannot know how much  *)
(* of it a crash already let through.                                      *)
(*                                                                         *)
(* An op has the fields of the code's Shape: a rename's path is its source *)
(* and its other its destination; a copy's other is what it reads.         *)
(***************************************************************************)
EXTENDS Tree

Write(p, b) == [act |-> "Write", path |-> p, bytes |-> b]
Rename(p, q) == [act |-> "Rename", path |-> p, other |-> q]
Remove(p) == [act |-> "Remove", path |-> p]
CopyFrom(p, q) == [act |-> "CopyFrom", path |-> p, other |-> q]
SetExecutable(p, x) == [act |-> "SetExecutable", path |-> p, exec |-> x]
SetLink(p, to) == [act |-> "SetLink", path |-> p, target |-> to]

Op ==
  {Write(p, b) : p \in Path, b \in Bytes}
    \cup {Rename(p, q) : p \in Path, q \in Path}
    \cup {Remove(p) : p \in Path}
    \cup {CopyFrom(p, q) : p \in Path, q \in Path}
    \cup {SetExecutable(p, x) : p \in Path, x \in BOOLEAN}
    \cup {SetLink(p, to) : p \in Path, to \in Target}

Lands(op) == op.act \in {"Write", "CopyFrom"}

\* A rename onto itself moves nothing, and so owes nothing back.
Moves(op) == op.act = "Rename" /\ op.path # op.other

\* The path an op replaces or removes the entry of, whose aside sibling is
\* numbered by the op.
Displaced(op) == IF op.act = "Rename" THEN op.other ELSE op.path

\* The bytes an op puts at its path; a copy reads them when it runs.
Contents(t, op) == IF op.act = "Write" THEN op.bytes ELSE BytesAt(t, op.other)

-----------------------------------------------------------------------------
(* Running an op: the last call exec makes for it.                           *)

CanRun(t, op) ==
  /\ op.act = "Write" => CanReplace(t, op.path)
  /\ op.act = "CopyFrom" => Readable(t, op.other) /\ CanReplace(t, op.path)
  /\ op.act = "Rename" => CanMove(t, op.path, op.other)
  /\ op.act = "Remove" => CanRemove(t, op.path)
  /\ op.act = "SetExecutable" => t[op.path].kind \in {"file", "dir"}
  /\ op.act = "SetLink" => CanLink(t, op.path)

Ran(t, op) ==
  IF Lands(op) THEN Replaced(t, op.path, Contents(t, op))
  ELSE IF op.act = "Rename" THEN Moved(t, op.path, op.other)
  ELSE IF op.act = "Remove" THEN Removed(t, op.path)
  ELSE IF op.act = "SetExecutable" THEN Flipped(t, op.path, op.exec)
  ELSE Linked(t, op.path, op.target)

\* The trees a call for op may leave when it fails, or when the process dies
\* inside it: a plain write is cut short or landed without its barrier, a flip
\* is landed without its barrier, a link is removed and not remade.
Left(t, op) ==
  {t} \cup
  IF ~CanRun(t, op) THEN {}
  ELSE IF Lands(op) /\ ~AtomicReplace
  THEN {Written(t, op.path, b) : b \in {Torn, Contents(t, op)}}
  ELSE IF op.act = "SetExecutable" THEN {Ran(t, op)}
  ELSE IF op.act = "SetLink" THEN {Removed(t, op.path)}
  ELSE {}

-----------------------------------------------------------------------------
(* Replaying an op over whatever a crash left.                               *)

\* Mutant of CanReplay: nothing an interrupted apply has done is tolerated.
CanReplayOnlyOnce(t, op) == CanRun(t, op)

CanReplay(t, op) ==
  /\ op.act = "Rename" =>
       IF Exists(t, op.path) THEN CanMove(t, op.path, op.other) ELSE Exists(t, op.other)
  /\ op.act = "Remove" => ~IsDir(t[op.path])
  /\ op.act = "SetExecutable" => ~IsLink(t[op.path])
  /\ op.act \notin {"Rename", "Remove", "SetExecutable"} => CanRun(t, op)

\* A rename already done and a flip whose file has since moved on are skipped;
\* a remove of nothing is done.
Replayed(t, op) ==
  IF op.act \in {"Rename", "SetExecutable"} /\ ~Exists(t, op.path)
  THEN t ELSE Ran(t, op)

-----------------------------------------------------------------------------
(* What a set means: its ops one after the other.                            *)

\* Exec moves the file or link a rename lands on aside, so that a directory is
\* renamed over one where a single call would not.
MovesOver(t, op) ==
  /\ op.act = "Rename"
  /\ IsDir(t[op.path]) /\ t[op.other].kind \in {"file", "link"}

\* An op that cannot run does what its replay makes of it, if it has one.
After(t, op) ==
  IF CanRun(t, op) \/ MovesOver(t, op) THEN Ran(t, op)
  ELSE IF CanReplay(t, op) THEN Replayed(t, op) ELSE t

\* The trees before each op of the set and after the last.
Run(t, set) ==
  LET after[n \in 0 .. Len(set)] ==
        IF n = 0 THEN t ELSE After(after[n - 1], set[n])
  IN  after

Applied(t, set) == Run(t, set)[Len(set)]

\* Each op of the set is one call that goes through, the ops run in order.
Completes(t, set) ==
  \A n \in DOMAIN set : CanRun(Run(t, set)[n - 1], set[n])

Docs(t) == [x \in Path |-> t[x]]

\* An entry but for the mode of a file, and that mode.
Bare(e) == IF IsFile(e) THEN [kind |-> "file", bytes |-> e.bytes] ELSE e
Mode(e) == IsFile(e) /\ e.exec

\* The documents without the modes of the files.
Content(t) == [x \in Path |-> Bare(t[x])]

\* No link is in the tree a set finds, and none is set by it.
LinkFree(t, set) ==
  /\ \A x \in Path : ~IsLink(t[x])
  /\ \A n \in DOMAIN set : set[n].act # "SetLink"

\* u passes for the set applied to t: it has what each document holds, and its
\* mode too for a set that can run and has nothing to do with links.  A write
\* over a link takes the mode of what the link leads to, and finds nothing to
\* take once a crash has removed the link; a flip that fails for want of a file
\* finds the file a later op made when a recovery is run again.
Reaches(t, set, u) ==
  LET v == Applied(t, set) IN
  /\ Content(u) = Content(v)
  /\ (LinkFree(t, set) /\ Completes(t, set)) => Docs(u) = Docs(v)

=============================================================================
