------------------------------ MODULE MCDurable ------------------------------
(***************************************************************************)
(* Two documents, the second in a directory, and the sets whose flushes    *)
(* depend on each other.                                                   *)
(***************************************************************************)
EXTENDS DurableSet

CONSTANTS d1, d2, b1, b2, bn, torn, nowhere, folder

MCPath == {d1, d2}
MCBytes == {b1, b2, bn}
MCUnder == {}
MCPool == 1 .. 7
MCHomePool == {11, 12}
MCInodes == MCPool \cup MCHomePool

MCDirOf(p) ==
  CASE p = InHome -> Home
    [] p = HomeName -> Attic
    [] p = d2 \/ p \in {d2} \X (1 .. MaxOps) -> folder
    [] OTHER -> Root

MCDevice(o) == IF o \in {Attic, Home} \cup MCHomePool THEN "home" ELSE "tree"

Hold(e1, e2) == [s \in Slot |-> CASE s = d1 -> e1 [] s = d2 -> e2 [] OTHER -> Absent]

MCInitTrees ==
  {Hold(File(b1, FALSE), e2) : e2 \in {Absent, File(b2, TRUE)}}

\* A file moved and rewritten; a flip and a move; a move over a file; a removal
\* and a write; a link over a file.
MCStaged ==
  {<<Rename(d1, d2), Write(d2, bn)>>,
   <<SetExecutable(d1, TRUE), Rename(d1, d2)>>,
   <<Remove(d2), Write(d1, bn)>>,
   <<SetLink(d1, nowhere), Write(d2, bn)>>,
   <<Rename(d1, d2)>>,
   <<Write(d2, bn)>>}

\* Bound: of one set, one call fails or the process dies once.
OneTrouble == faults + crashes <= 1

=============================================================================
