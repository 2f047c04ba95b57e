------------------------------ MODULE Restart ------------------------------
(***************************************************************************)
(* Why a replay from the first op is enough: what may be said of every     *)
(* tree a set, its rollback or any number of broken replays of it can      *)
(* leave (Restartable), and what a replay has put right by the time it has *)
(* made its first j ops (CaughtUp).  In all of it t is the tree the set    *)
(* found.                                                                  *)
(***************************************************************************)
EXTENDS Replayable

Renames(set) == {n \in DOMAIN set : set[n].act = "Rename"}

InRename(set, p) == \E n \in Renames(set) : p \in Names(set[n])

\* The ops that put an entry at p, those of them that put a file there, and
\* the others that an entry or its mode may be due to.
Puts(set, p) ==
  {k \in DOMAIN set :
     set[k].path = p /\ set[k].act \in {"Write", "CopyFrom", "Remove", "SetLink"}}
Fills(set, p) == {k \in DOMAIN set : set[k].path = p /\ Lands(set[k])}
Clears(set, p) == {k \in DOMAIN set : set[k].path = p /\ set[k].act = "Remove"}
Links(set, p) == {k \in DOMAIN set : set[k].path = p /\ set[k].act = "SetLink"}
FlipsOf(set, p) == {k \in DOMAIN set : Flips(set[k], p)}

\* A set journaled: one the rule admits, that moves no link, and whose copies
\* read through no link to what the set names.
Sane(t, set) ==
  /\ Admissible(set)
  /\ \A n \in Renames(set) : ~IsLink(t[set[n].path])
  /\ \A n, k \in DOMAIN set :
       set[n].act = "CopyFrom"
         => \A x \in Through(t, set[n].other) : ~Mentions(set[k], x)

\* The sets whose modes come out right too.
Exact(t, set) == LinkFree(t, set) /\ Completes(t, set)

-----------------------------------------------------------------------------
(* What may be said wherever the process died.                               *)

\* Of the entry e at a path p no rename names.
SpotKept(t, set, p, e) ==
  /\ IsDir(e) <=> IsDir(t[p])
  /\ Puts(set, p) = {} => Bare(e) = Bare(t[p])
  /\ IsLink(e) => e = t[p] \/ Links(set, p) # {}

\* Of the entries at a rename's two paths: not moved, but what it lands on may
\* be aside; or moved, and maybe written since.
MoveKept(t, set, n, ea, eb) ==
  LET a == set[n].path
      b == set[n].other
  IN  \/ /\ Bare(ea) = Bare(t[a])
         /\ Bare(eb) = Bare(t[b]) \/ (eb = Absent /\ ~IsDir(t[b]))
      \/ /\ ea = Absent /\ ~IsDir(t[b])
         /\ \/ t[a] # Absent /\ Bare(eb) = Bare(t[a])
            \/ IsFile(eb) /\ Fills(set, b) # {} /\ ~IsDir(t[a])

\* The same of the modes, for an exact set.
SpotModeKept(t, set, p, e) ==
  Clears(set, p) = {} =>
    /\ IsFile(t[p]) => IsFile(e)
    /\ FlipsOf(set, p) = {} => Mode(e) = Mode(t[p])

MoveModeKept(t, set, n, ea, eb) ==
  LET a == set[n].path
      b == set[n].other
  IN  /\ ea # Absent /\ FlipsOf(set, a) = {} => Mode(ea) = Mode(t[a])
      /\ ea = Absent /\ FlipsOf(set, b) = {} => Mode(eb) = Mode(Run(t, set)[n][b])

BodiesKept(t, set, u) ==
  /\ \A p \in Path : ~InRename(set, p) => SpotKept(t, set, p, u[p])
  /\ \A n \in Renames(set) : MoveKept(t, set, n, u[set[n].path], u[set[n].other])

ModesKept(t, set, u) ==
  /\ \A p \in Path : ~InRename(set, p) => SpotModeKept(t, set, p, u[p])
  /\ \A n \in Renames(set) : MoveModeKept(t, set, n, u[set[n].path], u[set[n].other])

Restartable(t, set, u) ==
  BodiesKept(t, set, u) /\ (Exact(t, set) => ModesKept(t, set, u))

-----------------------------------------------------------------------------
(* What the first j ops have put right.                                      *)

\* K is empty, or has an op among the first j.
Decided(K, j) == K # {} => \E k \in K : k <= j

\* The renames among them are done, unless they never can be.
Past(t, set, u, j) ==
  \A n \in Renames(set) : n <= j => IsDir(t[set[n].other]) \/ u[set[n].path] = Absent

\* What stands at p is due to them: no rename of p is still to come, and of
\* the ops that put an entry there one has been made, or there are none.
BodyDue(set, p, j) ==
  /\ \A n \in Renames(set) : p \in Names(set[n]) => n <= j
  /\ Decided(Puts(set, p), j)

BodiesAgree(t, set, u, j) ==
  \A p \in Path : BodyDue(set, p, j) => Bare(u[p]) = Bare(Run(t, set)[j][p])

\* The same of the mode of the entry e at p; what a rename is still to move
\* has its own, if it has not been moved before.
ModeDue(set, p, e, j) ==
  /\ Decided(Clears(set, p), j)
  /\ Clears(set, p) = {} => Decided(FlipsOf(set, p), j)
  /\ \A n \in Renames(set) :
       n > j => p # set[n].other /\ (p = set[n].path => e # Absent)

ModesAgree(t, set, u, j) ==
  \A p \in Path :
    ModeDue(set, p, u[p], j) => Mode(u[p]) = Mode(Run(t, set)[j][p])

CaughtUp(t, set, u, j) ==
  /\ Past(t, set, u, j)
  /\ BodiesAgree(t, set, u, j)
  /\ Exact(t, set) => ModesAgree(t, set, u, j)

=============================================================================
