----------------------------- MODULE AtomicSet -----------------------------
(***************************************************************************)
(* What the crate promises of a change set, with no journal, no undo and   *)
(* no crash in it: the documents jump from what they were to the set       *)
(* applied, or stay.  A set is pending from the call that begins it until  *)
(* it is applied or given up, which may take any number of crashes and     *)
(* recoveries; no other set begins meanwhile.                              *)
(*                                                                         *)
(* The one exception is Error::Torn over a rollback that failed: nothing   *)
(* is promised of the documents until the next set begins.                 *)
(***************************************************************************)
CONSTANTS
  Start,             \* the trees there may be to begin with
  Sets,              \* the sets a caller may apply
  Reaches(_, _, _)   \* Reaches(t, set, u): u passes for the set applied to t

VARIABLES
  docs,      \* the tree, as a caller is to think of it
  pending,   \* the set begun and not yet applied or given up
  broken     \* a rollback of the set failed

promise == <<docs, pending, broken>>

Nothing == <<>>

Init == docs \in Start /\ pending = Nothing /\ broken = FALSE

Begin ==
  /\ pending = Nothing
  /\ pending' \in Sets
  /\ broken' = FALSE
  /\ UNCHANGED docs

Take ==
  /\ pending # Nothing
  /\ Reaches(docs, pending, docs')
  /\ pending' = Nothing
  /\ UNCHANGED broken

GiveUp ==
  /\ pending # Nothing
  /\ pending' = Nothing
  /\ UNCHANGED <<docs, broken>>

Break ==
  /\ pending # Nothing
  /\ broken' = TRUE
  /\ UNCHANGED <<docs, pending>>

\* Whatever a set that broke comes to.
Settle ==
  /\ broken /\ pending # Nothing
  /\ pending' = Nothing
  /\ UNCHANGED broken

Next == Begin \/ Take \/ GiveUp \/ Break \/ Settle

Spec == Init /\ [][Next]_promise

=============================================================================
