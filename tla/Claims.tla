------------------------------- MODULE Claims -------------------------------
(***************************************************************************)
(* What the repository's documentation and comments say of apply and       *)
(* recover that the code does not keep.  Each is checked by a run of its   *)
(* own, which finds the behaviour that breaks it.                          *)
(***************************************************************************)
EXTENDS ChangeSet

\* error.rs of Error::Io, "The staged set is unwound before this surfaces, so
\* the tree is as it was", and change.rs of apply, "On an error ... the journal
\* is durably cleared": once apply has returned an error other than Torn, no
\* journal is left for a recovery to roll the set forward from.
PlainErrorClearsJournal == answer \in {"failed", "rolledback"} => journal = None

\* change.rs of Error::Torn, "the journal is kept, and recovery will later roll
\* the set forward to the consistent applied state": a recovery that says it
\* rolled a set forward, after a rollback that failed as after any other
\* interruption, leaves the documents the set asks for.
TornRollsForward ==
  (answer = "recovered" /\ Completes(Before, ops)) => Reaches(Before, ops, tree)

\* memory.rs of rename_dir, "nothing in this crate renames a directory onto an
\* occupied name".
DirectoryMovesToFreeName ==
  (pc = "replay" /\ Moves(journal[i]) /\ IsDir(tree[journal[i].path]))
    => tree[journal[i].other] = Absent

\* journal.rs of replay, "refuse only if *neither* exists, which no honest
\* interruption of this set can produce": when no call has failed, a replay
\* finds the source or the destination of every rename.
RenameSidesSurvive ==
  (pc = "replay" /\ journal[i].act = "Rename" /\ faults = 0)
    => Exists(tree, journal[i].path) \/ Exists(tree, journal[i].other)

=============================================================================
