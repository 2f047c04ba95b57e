------------------------------ MODULE MCIntake ------------------------------
(***************************************************************************)
(* The three pure parts of what a set passes on its way to the disk and    *)
(* back, each asked about every input of a small kind: the guard of its    *)
(* paths, the search for a refused pair, and the journal's bytes.  One of  *)
(* the three runs at a time; the others rest on the trivial input.         *)
(***************************************************************************)
EXTENDS ReplaySweep, PathGuard, JournalFormat, Bitwise, TLC

Seqs == INSTANCE SequencesExt

CONSTANTS da, db, dc, nameA, nameB

\* A directory, a file inside it, a file beside it.
MCPath == {da, db, dc}
MCKey == (da :> <<1>>) @@ (db :> <<1, 2>>) @@ (dc :> <<2>>)
MCUnder == {<<da, db>>}

MCSets == [1 .. 2 -> Shape] \cup [1 .. 3 -> Shape]

\* The order the sort makes; and, for the sets of two, that order without its
\* last entry, and back to front.
MCOrders(set) ==
  {Order(set)} \cup
    IF Len(set) = 2 THEN {Seqs!Front(Order(set)), Seqs!Reverse(Order(set))} ELSE {}

MCComponent == {nameA, nameB}

MCRoutes ==
  LET tails == Seqs!SeqOf({"parent", "cur", nameA, nameB}, 5) IN
  tails \cup {<<h>> \o t : h \in Heads, t \in Seqs!SeqOf({"parent", nameA}, 3)}
        \cup {<<"prefix", "root">> \o t : t \in Seqs!SeqOf({"parent", nameA}, 2)}

MCXor(a, b) == a ^^ b

\* One op of each kind, over empty and short texts and payloads, one with a
\* flag that reads as a tag; a set of two; none; and one that cannot be
\* written down.
MCJournals ==
  LET one == {Write(<<1>>, <<>>), Write(<<>>, <<2, 9>>), Rename(<<1>>, <<2>>),
              Remove(<<2, 1>>), CopyFrom(<<1>>, <<0>>), SetExecutable(<<4>>, TRUE),
              SetExecutable(<<1>>, FALSE), SetLink(<<1>>, <<>>), Remove(<<15>>)}
  IN {<<>>} \cup {<<op>> : op \in one}
       \cup {<<Remove(<<1>>), Remove(<<>>)>>, <<SetExecutable(<<0>>, TRUE), Remove(<<1>>)>>}

\* Every short body over the tags, the flags, a length that wraps and no text.
MCCrafted == {<<Stamp>> \o s : s \in Seqs!SeqOf({0, 1, 2, 3, 4, 5, 13, 15}, 4)}

-----------------------------------------------------------------------------

SweepRests ==
  ops = <<>> /\ order = <<>> /\ stage = "done" /\ at = 1 /\ to = 2 /\ best = NoPair

GuardRests ==
  route = <<>> /\ seen = 0 /\ kept = <<>> /\ place = <<>> /\ lost = FALSE

FormatRests ==
  /\ wrote = <<>> /\ fate = "cut" /\ raw = <<>> /\ cursor = 0 /\ owed = 0
  /\ taken = <<>> /\ verdict = "refused"

IntakeInit ==
  \/ SweepInit /\ GuardRests /\ FormatRests
  \/ GuardInit /\ SweepRests /\ FormatRests
  \/ FormatInit /\ SweepRests /\ GuardRests

IntakeNext ==
  \/ SweepNext /\ UNCHANGED guardVars /\ UNCHANGED formatVars
  \/ GuardNext /\ UNCHANGED sweepVars /\ UNCHANGED formatVars
  \/ FormatNext /\ UNCHANGED sweepVars /\ UNCHANGED guardVars

IntakeSpec ==
  IntakeInit /\ [][IntakeNext]_<<sweepVars, guardVars, formatVars>>

=============================================================================
