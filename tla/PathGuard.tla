----------------------------- MODULE PathGuard -----------------------------
(***************************************************************************)
(* The lexical guard every staged path is clamped through: fold, which     *)
(* normalizes the components of a path, and climbs_out, which looks at the *)
(* first that is kept.  Beside it runs what the path means, a walk from    *)
(* the root that fails when it climbs above the root or meets a component  *)
(* that is not relative, and stays failed wherever the path goes on to.    *)
(***************************************************************************)
EXTENDS Naturals, Sequences

CONSTANTS
  Component,   \* the names a component may be
  Routes       \* the paths asked about, as Path::components yields them

Heads == {"prefix", "root"}

ASSUME ComponentAssumption ==
  Component \cap (Heads \cup {"cur", "parent"}) = {}

Part == Heads \cup {"cur", "parent"} \cup Component

\* A prefix only first, a root only first or right behind it.
WellFormed(p) ==
  /\ \A j \in DOMAIN p : p[j] = "prefix" => j = 1
  /\ \A j \in DOMAIN p : p[j] = "root" => j = 1 \/ (j = 2 /\ p[1] = "prefix")

ASSUME RoutesAssumption ==
  Routes \subseteq {p \in Seq(Part) : WellFormed(p)}

VARIABLES
  route,   \* the components
  seen,    \* how many of them the loop has taken
  kept,    \* the components kept
  place,   \* where the walk stands, as names under the root
  lost     \* the walk has left the root

guardVars == <<route, seen, kept, place, lost>>

Popped(s) == SubSeq(s, 1, Len(s) - 1)

EndsInName(s) == s # <<>> /\ s[Len(s)] \in Component

\* Mutant of Fold: a climb with nothing before it is dropped.
FoldForgivesClimb(s, c) ==
  IF c = "cur" \/ (c = "parent" /\ s = <<>>) THEN s
  ELSE IF c = "parent" /\ EndsInName(s) THEN Popped(s)
  ELSE Append(s, c)

\* Mutant of Fold: a climb is kept behind whatever it would cancel.
FoldKeepsClimb(s, c) == IF c = "cur" THEN s ELSE Append(s, c)

\* One turn of the loop: "." is dropped, ".." cancels the name before it.
Fold(s, c) ==
  IF c = "cur" THEN s
  ELSE IF c = "parent" /\ EndsInName(s) THEN Popped(s)
  ELSE Append(s, c)

ClimbsOut(s) == s # <<>> /\ s[1] \in Heads \cup {"parent"}

GuardInit ==
  /\ route \in Routes
  /\ seen = 0
  /\ kept = <<>>
  /\ place = <<>>
  /\ lost = FALSE

\* The walk takes one component.
Walk(c) ==
  /\ lost' = (lost \/ c \in Heads \/ (c = "parent" /\ place = <<>>))
  /\ place' = IF lost' \/ c = "cur" THEN place
              ELSE IF c = "parent" THEN Popped(place)
              ELSE Append(place, c)

Turn ==
  /\ seen < Len(route)
  /\ kept' = Fold(kept, route[seen + 1])
  /\ Walk(route[seen + 1])
  /\ seen' = seen + 1
  /\ UNCHANGED route

GuardNext == Turn

GuardSpec == GuardInit /\ [][GuardNext]_guardVars

-----------------------------------------------------------------------------

\* The guard refuses a path exactly when its walk leaves the root, at its end
\* or anywhere on the way; a path it passes normalizes to the very names the
\* walk ends at, so two spellings of one place become one path.
GuardFollowsWalk ==
  seen = Len(route) =>
    /\ ClimbsOut(kept) <=> lost
    /\ ~lost => kept = place

\* What is kept is a normal form, also of a path that escapes: a head, then
\* climbs, then names, so that normalizing it again changes nothing.
KeptIsNormal ==
  /\ \A j \in DOMAIN kept : kept[j] # "cur"
  /\ \A j, m \in DOMAIN kept :
       j < m /\ kept[j] \in Component => kept[m] \in Component
  /\ \A j \in DOMAIN kept : kept[j] \in Heads => \A m \in 1 .. j : kept[m] \in Heads

=============================================================================
