---------------------------- MODULE ReplaySweep ----------------------------
(***************************************************************************)
(* How the replay rule is looked up.  Comparing every op with every other  *)
(* would cost the square of a set; the code sorts the paths the ops name   *)
(* and compares each with those that follow it inside its key.  The sorted *)
(* order is a hint: the search checks it, and where it is not an order of  *)
(* the entries it compares every pair after all.                           *)
(*                                                                         *)
(* A path of the model is one key of the code: the numbers of its          *)
(* normalized, lowered components.  An entry is an op and which of its two *)
(* paths, where the code numbers entries 2i and 2i + 1.                    *)
(***************************************************************************)
EXTENDS Replayable

CONSTANTS
  Key,         \* the components of each path, as numbers
  Sets,        \* the sets the rule is asked about
  Orders(_)    \* the orders the search may be handed for a set

Prefix(a, b) ==
  /\ Len(a) <= Len(b)
  /\ \A j \in 1 .. Len(a) : a[j] = b[j]

ASSUME KeyAssumption ==
  /\ Key \in [Path -> Seq(Nat)]
  /\ \A p, q \in Path : Key[p] = Key[q] => p = q
  /\ \A p, q \in Path : <<p, q>> \in Under <=> p # q /\ Prefix(Key[p], Key[q])

\* What the rule reads of an op.
Shape ==
  [act : {"Write", "Remove", "SetExecutable", "SetLink"}, path : Path]
    \cup [act : {"Rename", "CopyFrom"}, path : Path, other : Path]

ASSUME SetsAssumption ==
  /\ Sets \subseteq Seq(Shape)
  /\ \A set \in Sets : Orders(set) \subseteq Seq((1 .. Len(set)) \X {0, 1})

Entries(set) ==
  {e \in (1 .. Len(set)) \X {0, 1} : e[2] = 0 \/ Two(set[e[1]])}

EntryKey(set, e) == Key[IF e[2] = 0 THEN set[e[1]].path ELSE set[e[1]].other]

\* Mutant of LexLe: a path comes after the paths inside it.
LexLeShortLast(a, b) ==
  \/ Prefix(b, a)
  \/ \E j \in (DOMAIN a) \cap (DOMAIN b) :
       a[j] < b[j] /\ \A m \in 1 .. j - 1 : a[m] = b[m]

\* The order of Vec<usize>: a path comes before the paths inside it.
LexLe(a, b) ==
  \/ Prefix(a, b)
  \/ \E j \in (DOMAIN a) \cap (DOMAIN b) :
       a[j] < b[j] /\ \A m \in 1 .. j - 1 : a[m] = b[m]

\* A stable sort of the entries by key.
AtOrBefore(set, e, f) ==
  IF EntryKey(set, e) = EntryKey(set, f)
  THEN 2 * e[1] + e[2] <= 2 * f[1] + f[2]
  ELSE LexLe(EntryKey(set, e), EntryKey(set, f))

Order(set) ==
  LET rank(e) == Cardinality({f \in Entries(set) : AtOrBefore(set, f, e)}) IN
  [n \in 1 .. Cardinality(Entries(set)) |->
    CHOOSE e \in Entries(set) : rank(e) = n]

-----------------------------------------------------------------------------

VARIABLES
  ops,     \* the set asked about
  order,   \* the hint
  stage,   \* the loop the search is in
  at,      \* where that loop stands
  to,      \* where the loop inside it stands
  best     \* the first refused pair found so far, or NoPair

sweepVars == <<ops, order, stage, at, to, best>>

NoPair == <<0, 0>>

Earlier(a, b) == a[1] < b[1] \/ (a[1] = b[1] /\ a[2] < b[2])

Least(b, i, k) ==
  IF Pair(ops, i, k) \/ (b # NoPair /\ ~Earlier(<<i, k>>, b)) THEN b ELSE <<i, k>>

SweepInit ==
  /\ ops \in Sets
  /\ order \in Orders(ops)
  /\ stage = "place"
  /\ at = 1
  /\ to = 1
  /\ best = NoPair

Follows(n) ==
  /\ order[n] \in Entries(ops)
  /\ n > 1 => LexLe(EntryKey(ops, order[n - 1]), EntryKey(ops, order[n]))

AllPlaced == \A e \in Entries(ops) : \E n \in DOMAIN order : order[n] = e

\* place: every entry of the hint is one of the set and in key order ...
Place ==
  /\ stage = "place"
  /\ at <= Len(order)
  /\ Follows(at)
  /\ at' = at + 1
  /\ UNCHANGED <<ops, order, stage, to, best>>

\* ... and every entry of the set is in the hint.
Placed ==
  /\ stage = "place"
  /\ at > Len(order)
  /\ AllPlaced
  /\ stage' = "selfs"
  /\ at' = 1
  /\ UNCHANGED <<ops, order, to, best>>

Misplaced ==
  /\ stage = "place"
  /\ IF at <= Len(order) THEN ~Follows(at) ELSE ~AllPlaced
  /\ stage' = "pairwise"
  /\ at' = 1
  /\ to' = 1
  /\ UNCHANGED <<ops, order, best>>

\* Each op against itself.
Self ==
  /\ stage = "selfs"
  /\ at <= Len(ops)
  /\ best' = Least(best, at, at)
  /\ at' = at + 1
  /\ UNCHANGED <<ops, order, stage, to>>

SelvesDone ==
  /\ stage = "selfs"
  /\ at > Len(ops)
  /\ stage' = "sweep"
  /\ at' = 1
  /\ to' = 2
  /\ UNCHANGED <<ops, order, best>>

Inside ==
  /\ to <= Len(order)
  /\ Prefix(EntryKey(ops, order[at]), EntryKey(ops, order[to]))

\* scan: an entry against each one after it that its key is a prefix of, up
\* to the first that it is not; both ways, for the rule is not symmetric.
Scan ==
  /\ stage = "sweep"
  /\ at <= Len(order)
  /\ Inside
  /\ LET i == order[at][1]
         k == order[to][1]
     IN best' = Least(Least(best, i, k), k, i)
  /\ to' = to + 1
  /\ UNCHANGED <<ops, order, stage, at>>

ScanEnds ==
  /\ stage = "sweep"
  /\ at <= Len(order)
  /\ ~Inside
  /\ at' = at + 1
  /\ to' = at + 2
  /\ UNCHANGED <<ops, order, stage, best>>

SweepEnds ==
  /\ stage = "sweep"
  /\ at > Len(order)
  /\ stage' = "done"
  /\ UNCHANGED <<ops, order, at, to, best>>

\* first_refusal_pairwise: the first op with a refused pair, and its first.
Compare ==
  /\ stage = "pairwise"
  /\ at <= Len(ops)
  /\ to <= Len(ops)
  /\ Pair(ops, at, to)
  /\ to' = to + 1
  /\ UNCHANGED <<ops, order, stage, at, best>>

CompareNext ==
  /\ stage = "pairwise"
  /\ at <= Len(ops)
  /\ to > Len(ops)
  /\ at' = at + 1
  /\ to' = 1
  /\ UNCHANGED <<ops, order, stage, best>>

CompareRefuses ==
  /\ stage = "pairwise"
  /\ at <= Len(ops)
  /\ to <= Len(ops)
  /\ ~Pair(ops, at, to)
  /\ best' = <<at, to>>
  /\ stage' = "done"
  /\ UNCHANGED <<ops, order, at, to>>

CompareEnds ==
  /\ stage = "pairwise"
  /\ at > Len(ops)
  /\ stage' = "done"
  /\ UNCHANGED <<ops, order, at, to, best>>

SweepNext ==
  \/ Place \/ Placed \/ Misplaced
  \/ Self \/ SelvesDone
  \/ Scan \/ ScanEnds \/ SweepEnds
  \/ Compare \/ CompareNext \/ CompareRefuses \/ CompareEnds

SweepSpec == SweepInit /\ [][SweepNext]_sweepVars

-----------------------------------------------------------------------------

\* The search refuses a set exactly when some pair of its ops is refused,
\* wherever in the set the two stand, and names the first op that breaks the
\* rule and the first op it breaks it with: what comparing every pair would
\* name.  The order is only a hint, right or wrong.
SweepIsPairwise ==
  stage = "done" =>
    /\ best = NoPair <=> Admissible(ops)
    /\ best # NoPair =>
         /\ ~Pair(ops, best[1], best[2])
         /\ \A i, k \in DOMAIN ops : ~Pair(ops, i, k) => ~Earlier(<<i, k>>, best)

=============================================================================
