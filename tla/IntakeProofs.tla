---------------------------- MODULE IntakeProofs ----------------------------
(***************************************************************************)
(* What a set passes before it is applied, and how it is kept.  The guard  *)
(* of its paths: what a run of PathGuard shows of short paths, of every    *)
(* path Path::components can yield.  The search for a refused pair: the    *)
(* sorted sweep finds what comparing every pair finds, of every set, over  *)
(* every paths, and whatever order it is handed.  The journal's bytes:     *)
(* what encode writes decode reads back, what decode accepts is what       *)
(* encode writes, and one altered symbol is always found out; for texts,   *)
(* payloads and sets of every length.                                      *)
(***************************************************************************)
EXTENDS PathGuard, ReplaySweep, JournalFormat, TreeProofs, SequenceTheorems

-----------------------------------------------------------------------------
(* The guard of every path.                                                  *)

\* The inductive invariant.  Until the walk is lost, what is kept is where it
\* stands; once it is, what is kept leads with what lost it, and no climb can
\* cancel that.  A head comes while nothing but heads is kept.
Agrees ==
  /\ lost => ClimbsOut(kept)
  /\ ~lost => kept = place

HeadsFirst ==
  /\ seen = 0 => kept = <<>>
  /\ seen = 1 /\ route[1] = "prefix" => kept = <<"prefix">>
  /\ seen >= 1 /\ route[1] = "prefix" => lost

GuardTypeOK ==
  /\ route \in Seq(Part) /\ WellFormed(route)
  /\ seen \in 0 .. Len(route)
  /\ kept \in Seq(Part)
  /\ place \in Seq(Component)
  /\ lost \in BOOLEAN

GuardInv == GuardTypeOK /\ Agrees /\ HeadsFirst /\ KeptIsNormal

LEMMA PoppedFacts ==
  ASSUME NEW S, NEW s \in Seq(S), s # <<>>
  PROVE  /\ Popped(s) \in Seq(S)
         /\ Len(Popped(s)) = Len(s) - 1
         /\ \A j \in 1 .. Len(s) - 1 : Popped(s)[j] = s[j]
<1>1. Len(s) \in Nat \ {0} /\ \A j \in 1 .. Len(s) - 1 : s[j] \in S
  OBVIOUS
<1>2. ASSUME NEW n \in Nat, n <= Len(s)
      PROVE  /\ SubSeq(s, 1, n) \in Seq(S)
             /\ Len(SubSeq(s, 1, n)) = n
             /\ \A j \in 1 .. n : SubSeq(s, 1, n)[j] = s[j]
  BY <1>2
<1>3. Len(s) - 1 \in Nat /\ Len(s) - 1 <= Len(s)
  BY <1>1
<1> QED
  BY <1>2, <1>3, Zenon DEF Popped

LEMMA NamesAreNoClimbs ==
  ASSUME NEW c \in Component
  PROVE  c \notin Heads \cup {"cur", "parent"}
  BY ComponentAssumption

LEMMA GuardInitInv == GuardInit => GuardInv
<1> SUFFICES ASSUME GuardInit PROVE GuardInv
  OBVIOUS
<1>1. route \in Seq(Part) /\ WellFormed(route)
  BY RoutesAssumption DEF GuardInit
<1>2. GuardTypeOK
  <2>1. 0 \in 0 .. Len(route)
    BY <1>1
  <2>2. kept \in Seq(Part) /\ place \in Seq(Component)
    BY DEF GuardInit
  <2> QED
    BY <1>1, <2>1, <2>2 DEF GuardInit, GuardTypeOK
<1>3. Agrees /\ HeadsFirst
  BY DEF GuardInit, Agrees, HeadsFirst
<1>4. KeptIsNormal
  BY DEF GuardInit, KeptIsNormal
<1> QED
  BY <1>2, <1>3, <1>4 DEF GuardInv

LEMMA GuardStep ==
  ASSUME GuardInv, [GuardNext]_guardVars
  PROVE  GuardInv'
<1>1. CASE UNCHANGED guardVars
  BY <1>1 DEF guardVars, GuardInv, GuardTypeOK, Agrees, HeadsFirst, KeptIsNormal
<1>2. CASE Turn
  <2> DEFINE c == route[seen + 1]
  <2> USE DEF GuardInv
  <2>1. /\ c \in Part
        /\ seen + 1 \in DOMAIN route
        /\ kept' = Fold(kept, c)
        /\ lost' = (lost \/ c \in Heads \/ (c = "parent" /\ place = <<>>))
        /\ place' = IF lost' \/ c = "cur" THEN place
                    ELSE IF c = "parent" THEN Popped(place)
                    ELSE Append(place, c)
        /\ seen' = seen + 1
        /\ route' = route
    BY <1>2 DEF Turn, Walk, GuardTypeOK
  <2> HIDE DEF c
  <2>2. c \in Heads => /\ \A j \in DOMAIN kept : kept[j] \in Heads
                       /\ lost \/ kept = <<>>
    BY <2>1 DEF GuardTypeOK, WellFormed, HeadsFirst, Heads, c
  <2>3. GuardTypeOK'
    <3>1. kept' \in Seq(Part)
      BY <2>1, PoppedFacts DEF Fold, EndsInName, GuardTypeOK
    <3>2. place' \in Seq(Component)
      <4>1. CASE lost' \/ c = "cur"
        BY <2>1, <4>1 DEF GuardTypeOK
      <4>2. CASE ~lost' /\ c = "parent"
        BY <2>1, <4>2, PoppedFacts DEF GuardTypeOK, Heads
      <4>3. CASE ~lost' /\ c # "cur" /\ c # "parent"
        <5>1. c \in Component
          BY <2>1, <4>3 DEF Part
        <5> QED
          BY <2>1, <4>3, <5>1 DEF GuardTypeOK
      <4> QED
        BY <4>1, <4>2, <4>3
    <3> QED
      BY <2>1, <3>1, <3>2 DEF GuardTypeOK
  <2>4. Agrees'
    <3>1. CASE lost
      <4>1. kept # <<>> /\ kept[1] \in Heads \cup {"parent"}
        BY <3>1 DEF Agrees, ClimbsOut
      <4>2. CASE c = "parent" /\ EndsInName(kept)
        <5>1. Len(kept) # 1
          BY <4>1, <4>2, NamesAreNoClimbs DEF EndsInName
        <5>2. kept' = Popped(kept)
          BY <2>1, <4>2 DEF Fold
        <5>3. kept' # <<>> /\ kept'[1] = kept[1]
          <6>1. kept \in Seq(Part) /\ Len(kept) \in Nat \ {0, 1}
            BY <4>1, <5>1 DEF GuardTypeOK
          <6>2. /\ Len(kept') = Len(kept) - 1
                /\ \A j \in 1 .. Len(kept) - 1 : kept'[j] = kept[j]
                /\ kept' \in Seq(Part)
            BY <4>1, <5>2, <6>1, PoppedFacts
          <6> QED
            BY <6>1, <6>2
        <5> QED
          BY <2>1, <3>1, <4>1, <5>3 DEF Agrees, ClimbsOut
      <4>3. CASE ~(c = "parent" /\ EndsInName(kept))
        <5>1. kept' # <<>> /\ kept'[1] = kept[1]
          BY <2>1, <4>1, <4>3 DEF Fold, GuardTypeOK
        <5> QED
          BY <2>1, <3>1, <4>1, <5>1 DEF Agrees, ClimbsOut
      <4> QED
        BY <4>2, <4>3
    <3>2. CASE ~lost
      <4>1. kept = place
        BY <3>2 DEF Agrees
      <4>2. CASE c \in Heads \/ (c = "parent" /\ place = <<>>)
        <5>1. kept = <<>>
          BY <2>2, <3>2, <4>1, <4>2
        <5>2. kept' = <<c>>
          BY <2>1, <4>2, <5>1 DEF Fold, EndsInName, Heads
        <5> QED
          <6>1. c \in Heads \cup {"parent"} /\ lost' = TRUE
            BY <2>1, <4>2
          <6>2. kept' # <<>> /\ kept'[1] = c
            BY <2>1, <5>2
          <6> QED
            BY <6>1, <6>2 DEF Agrees, ClimbsOut
      <4>3. CASE c = "cur"
        <5>1. kept' = kept
          BY <2>1, <4>3 DEF Fold
        <5>2. lost' = FALSE /\ place' = place
          BY <2>1, <3>2, <4>3 DEF Heads
        <5> QED
          BY <4>1, <5>1, <5>2 DEF Agrees
      <4>4. CASE c = "parent" /\ place # <<>>
        <5>1. EndsInName(kept)
          BY <4>1, <4>4 DEF EndsInName, GuardTypeOK
        <5> QED
          BY <2>1, <3>2, <4>1, <4>4, <5>1 DEF Agrees, Fold, Heads, GuardTypeOK
      <4>5. CASE c \in Component
        BY <2>1, <3>2, <4>1, <4>5, NamesAreNoClimbs DEF Agrees, Fold
      <4> QED
        BY <2>1, <4>2, <4>3, <4>4, <4>5 DEF Part
    <3> QED
      BY <3>1, <3>2
  <2>5. HeadsFirst'
    <3>1. CASE seen = 0
      <4>1. kept = <<>> /\ c = route[1] /\ seen' = 1
        BY <2>1, <3>1 DEF HeadsFirst, c
      <4>2. ASSUME c = "prefix" PROVE kept' = <<"prefix">> /\ lost'
        <5>1. kept' = Append(<<>>, "prefix")
          BY <2>1, <4>1, <4>2 DEF Fold
        <5>2. lost'
          BY <2>1, <4>2 DEF Heads
        <5> QED
          BY <5>1, <5>2
      <4> QED
        BY <2>1, <4>1, <4>2 DEF HeadsFirst
    <3>2. CASE seen >= 1
      BY <2>1, <3>2 DEF HeadsFirst, GuardTypeOK
    <3> QED
      BY <3>1, <3>2 DEF GuardTypeOK
  <2>6. KeptIsNormal'
    <3>1. CASE kept' = kept
      BY <3>1 DEF KeptIsNormal
    <3>2. CASE EndsInName(kept) /\ kept' = Popped(kept)
      <4>1. /\ DOMAIN kept' \subseteq DOMAIN kept
            /\ \A j \in DOMAIN kept' : kept'[j] = kept[j] /\ 1 .. j \subseteq DOMAIN kept'
        <5>1. kept \in Seq(Part) /\ kept # <<>> /\ kept' \in Seq(Part)
          BY <2>3, <3>2 DEF EndsInName, GuardTypeOK
        <5>2. /\ Len(kept') = Len(kept) - 1
              /\ \A j \in 1 .. Len(kept) - 1 : kept'[j] = kept[j]
          BY <3>2, <5>1, PoppedFacts
        <5> QED
          BY <5>1, <5>2
      <4> QED
        BY <4>1 DEF KeptIsNormal
    <3>3. CASE kept' = Append(kept, c) /\ c # "cur" /\ ~(c = "parent" /\ EndsInName(kept))
      <4>1. /\ Len(kept') = Len(kept) + 1
            /\ kept'[Len(kept) + 1] = c
            /\ \A j \in 1 .. Len(kept) : kept'[j] = kept[j]
        BY <2>1, <3>3 DEF GuardTypeOK
      <4>2. Len(kept) \in Nat /\ DOMAIN kept = 1 .. Len(kept) /\ DOMAIN kept' = 1 .. Len(kept) + 1
        BY <2>3, <4>1 DEF GuardTypeOK
      <4>3. \A j \in DOMAIN kept : kept[j] \in Component => c \in Component
        <5> SUFFICES ASSUME NEW j \in DOMAIN kept, kept[j] \in Component, c \notin Component
                     PROVE  FALSE
          OBVIOUS
        <5>1. kept[Len(kept)] \in Component
          BY <4>2 DEF KeptIsNormal
        <5>2. c \in Heads \/ c = "parent"
          BY <2>1, <3>3 DEF Part
        <5>3. c # "parent"
          BY <3>3, <4>2, <5>1 DEF EndsInName
        <5> QED
          BY <2>2, <5>2, <5>3, NamesAreNoClimbs
      <4>4. \A j \in DOMAIN kept' : kept'[j] # "cur"
        BY <3>3, <4>1, <4>2 DEF KeptIsNormal
      <4>5. \A j, m \in DOMAIN kept' :
              j < m /\ kept'[j] \in Component => kept'[m] \in Component
        BY <4>1, <4>2, <4>3 DEF KeptIsNormal
      <4>6. \A j \in DOMAIN kept' : kept'[j] \in Heads => \A m \in 1 .. j : kept'[m] \in Heads
        BY <2>2, <4>1, <4>2 DEF KeptIsNormal
      <4> QED
        BY <4>4, <4>5, <4>6 DEF KeptIsNormal
    <3> QED
      BY <2>1, <3>1, <3>2, <3>3 DEF Fold
  <2> QED
    BY <2>3, <2>4, <2>5, <2>6
<1> QED
  BY <1>1, <1>2 DEF GuardNext

LEMMA GuardInvHolds == GuardSpec => []GuardInv
<1>1. GuardInit => GuardInv
  BY GuardInitInv
<1>2. GuardInv /\ [GuardNext]_guardVars => GuardInv'
  BY GuardStep
<1> QED
  BY <1>1, <1>2, PTL DEF GuardSpec

\* Of every path, however long and whatever it is spelled like: the guard lets
\* it through exactly when its walk from the root never leaves the root, and
\* normalizing it then names the place the walk ends at.
THEOREM GuardFollowsWalkAlways == GuardSpec => []GuardFollowsWalk
<1>1. GuardInv => GuardFollowsWalk
  <2> SUFFICES ASSUME GuardInv
               PROVE  /\ ClimbsOut(kept) <=> lost
                      /\ ~lost => kept = place
    BY DEF GuardFollowsWalk
  <2>1. ~lost => ~ClimbsOut(kept)
    <3> SUFFICES ASSUME kept = place, kept # <<>>
                 PROVE  kept[1] \in Component
      BY NamesAreNoClimbs DEF GuardInv, Agrees, ClimbsOut
    <3> QED
      BY DEF GuardInv, GuardTypeOK
  <2> QED
    BY <2>1 DEF GuardInv, Agrees
<1> QED
  BY <1>1, GuardInvHolds, PTL

\* What the loop keeps is in normal form at every turn, of every path.
THEOREM KeptIsNormalAlways == GuardSpec => []KeptIsNormal
<1>1. GuardInv => KeptIsNormal
  BY DEF GuardInv
<1> QED
  BY <1>1, GuardInvHolds, PTL

-----------------------------------------------------------------------------
(* The order of the keys.                                                    *)

Before(a, b, j) ==
  /\ j \in (DOMAIN a) \cap (DOMAIN b)
  /\ a[j] < b[j]
  /\ \A m \in 1 .. j - 1 : a[m] = b[m]

LEMMA LexLeCases ==
  ASSUME NEW a \in Seq(Nat), NEW b \in Seq(Nat)
  PROVE  LexLe(a, b) <=> Prefix(a, b) \/ \E j \in Nat \ {0} : Before(a, b, j)
  BY DEF LexLe, Before

LEMMA BeforeFacts ==
  ASSUME NEW a \in Seq(Nat), NEW b \in Seq(Nat), NEW j \in Nat \ {0}
  PROVE  Before(a, b, j) <=>
           /\ j <= Len(a) /\ j <= Len(b)
           /\ a[j] < b[j]
           /\ \A m \in Nat \ {0} : m < j => a[m] = b[m]
  BY DEF Before

LEMMA PrefixFacts ==
  ASSUME NEW a \in Seq(Nat), NEW b \in Seq(Nat)
  PROVE  Prefix(a, b) <=>
           /\ Len(a) <= Len(b)
           /\ \A m \in Nat \ {0} : m <= Len(a) => a[m] = b[m]
<1>1. Len(a) \in Nat
  OBVIOUS
<1>2. \A m : m \in 1 .. Len(a) <=> m \in Nat \ {0} /\ m <= Len(a)
  BY <1>1
<1> QED
  BY <1>2 DEF Prefix

LEMMA SeqNat ==
  ASSUME NEW a \in Seq(Nat)
  PROVE  /\ Len(a) \in Nat
         /\ \A m \in Nat \ {0} : m <= Len(a) => a[m] \in Nat
<1>1. Len(a) \in Nat
  OBVIOUS
<1>2. ASSUME NEW m \in Nat \ {0}, m <= Len(a) PROVE a[m] \in Nat
  <2>1. m \in 1 .. Len(a)
    BY <1>1, <1>2
  <2> QED
    BY <2>1
<1> QED
  BY <1>1, <1>2

LEMMA LexTransitive ==
  ASSUME NEW a \in Seq(Nat), NEW b \in Seq(Nat), NEW c \in Seq(Nat),
         LexLe(a, b), LexLe(b, c)
  PROVE  LexLe(a, c)
<1>0. Len(a) \in Nat /\ Len(b) \in Nat /\ Len(c) \in Nat
  BY SeqNat
<1>1. CASE Prefix(a, b) /\ Prefix(b, c)
  <2>1. Prefix(a, c)
    BY <1>0, <1>1, PrefixFacts
  <2> QED
    BY <2>1, LexLeCases
<1>2. ASSUME Prefix(a, b), NEW j \in Nat \ {0}, Before(b, c, j)
      PROVE  LexLe(a, c)
  <2>0. /\ Len(a) <= Len(b)
        /\ \A m \in Nat \ {0} : m <= Len(a) => a[m] = b[m]
    BY <1>2, PrefixFacts
  <2>00. /\ j <= Len(b) /\ j <= Len(c) /\ b[j] < c[j]
         /\ \A m \in Nat \ {0} : m < j => b[m] = c[m]
    BY <1>2, BeforeFacts
  <2>1. CASE j <= Len(a)
    <3>1. a[j] < c[j]
      BY <2>0, <2>00, <2>1
    <3>2. \A m \in Nat \ {0} : m < j => a[m] = c[m]
      BY <1>0, <2>0, <2>00, <2>1
    <3>3. Before(a, c, j)
      BY <2>00, <2>1, <3>1, <3>2, BeforeFacts
    <3> QED
      BY <3>3, LexLeCases
  <2>2. CASE ~(j <= Len(a))
    <3>1. \A m \in Nat \ {0} : m <= Len(a) => a[m] = c[m]
      BY <1>0, <2>0, <2>00, <2>2
    <3>2. Prefix(a, c)
      BY <1>0, <2>00, <2>2, <3>1, PrefixFacts
    <3> QED
      BY <3>2, LexLeCases
  <2> QED
    BY <2>1, <2>2
<1>3. ASSUME NEW j \in Nat \ {0}, Before(a, b, j), Prefix(b, c)
      PROVE  LexLe(a, c)
  <2>0. /\ Len(b) <= Len(c)
        /\ \A m \in Nat \ {0} : m <= Len(b) => b[m] = c[m]
    BY <1>3, PrefixFacts
  <2>00. /\ j <= Len(a) /\ j <= Len(b) /\ a[j] < b[j]
         /\ \A m \in Nat \ {0} : m < j => a[m] = b[m]
    BY <1>3, BeforeFacts
  <2>1. j <= Len(c) /\ a[j] < c[j]
    BY <1>0, <2>0, <2>00
  <2>2. \A m \in Nat \ {0} : m < j => a[m] = c[m]
    BY <1>0, <2>0, <2>00
  <2>3. Before(a, c, j)
    BY <2>00, <2>1, <2>2, BeforeFacts
  <2> QED
    BY <2>3, LexLeCases
<1>4. ASSUME NEW j \in Nat \ {0}, Before(a, b, j), NEW m \in Nat \ {0}, Before(b, c, m)
      PROVE  LexLe(a, c)
  <2>0. /\ j <= Len(a) /\ j <= Len(b) /\ a[j] < b[j]
        /\ \A n \in Nat \ {0} : n < j => a[n] = b[n]
    BY <1>4, BeforeFacts
  <2>00. /\ m <= Len(b) /\ m <= Len(c) /\ b[m] < c[m]
         /\ \A n \in Nat \ {0} : n < m => b[n] = c[n]
    BY <1>4, BeforeFacts
  <2>1. CASE j <= m
    <3>1. a[j] \in Nat /\ b[j] \in Nat /\ c[m] \in Nat
      BY <2>0, <2>00, SeqNat
    <3>2. j <= Len(c) /\ a[j] < c[j]
      <4>1. CASE j = m
        BY <2>0, <2>00, <3>1, <4>1
      <4>2. CASE j < m
        <5>1. b[j] = c[j] /\ j <= Len(c)
          BY <1>0, <2>00, <4>2
        <5> QED
          BY <2>0, <5>1
      <4> QED
        BY <2>1, <4>1, <4>2
    <3>3. \A n \in Nat \ {0} : n < j => a[n] = c[n]
      BY <2>0, <2>00, <2>1
    <3>4. Before(a, c, j)
      BY <2>0, <3>2, <3>3, BeforeFacts
    <3> QED
      BY <3>4, LexLeCases
  <2>2. CASE m < j
    <3>1. m <= Len(a) /\ a[m] < c[m]
      BY <1>0, <2>0, <2>00, <2>2
    <3>2. \A n \in Nat \ {0} : n < m => a[n] = c[n]
      BY <2>0, <2>00, <2>2
    <3>3. Before(a, c, m)
      BY <2>00, <3>1, <3>2, BeforeFacts
    <3> QED
      BY <3>3, LexLeCases
  <2> QED
    BY <2>1, <2>2
<1> QED
  BY <1>1, <1>2, <1>3, <1>4, LexLeCases

\* In key order, what a key is a prefix of follows it without a gap.
LEMMA NoGap ==
  ASSUME NEW a \in Seq(Nat), NEW b \in Seq(Nat), NEW c \in Seq(Nat),
         LexLe(a, b), LexLe(b, c), Prefix(a, c)
  PROVE  Prefix(a, b)
<1>0. /\ Len(a) \in Nat /\ Len(b) \in Nat /\ Len(c) \in Nat
      /\ \A m \in Nat \ {0} : /\ m <= Len(a) => a[m] \in Nat
                              /\ m <= Len(b) => b[m] \in Nat
                              /\ m <= Len(c) => c[m] \in Nat
  BY SeqNat
<1> SUFFICES ASSUME NEW j \in Nat \ {0}, Before(a, b, j)
             PROVE  FALSE
  BY LexLeCases
<1>1. /\ j <= Len(a) /\ j <= Len(b) /\ a[j] < b[j]
      /\ \A m \in Nat \ {0} : m < j => a[m] = b[m]
  BY BeforeFacts
<1>2. \A m \in Nat \ {0} : m <= Len(a) => a[m] = c[m]
  BY PrefixFacts
<1>3. a[j] \in Nat /\ b[j] \in Nat /\ c[j] = a[j]
  BY <1>0, <1>1, <1>2
<1>4. CASE Prefix(b, c)
  <2>1. b[j] = c[j]
    BY <1>1, <1>4, PrefixFacts
  <2> QED
    BY <1>1, <1>3, <2>1
<1>5. ASSUME NEW m \in Nat \ {0}, Before(b, c, m)
      PROVE  FALSE
  <2>1. /\ m <= Len(b) /\ m <= Len(c) /\ b[m] < c[m]
        /\ \A n \in Nat \ {0} : n < m => b[n] = c[n]
    BY <1>5, BeforeFacts
  <2>2. CASE m < j
    <3>1. b[m] = a[m] /\ c[m] = a[m] /\ a[m] \in Nat
      BY <1>0, <1>1, <1>2, <2>2
    <3> QED
      BY <2>1, <3>1
  <2>3. CASE m = j
    BY <1>1, <1>3, <2>1, <2>3
  <2>4. CASE m > j
    <3>1. b[j] = c[j]
      BY <2>1, <2>4
    <3> QED
      BY <1>1, <1>3, <3>1
  <2> QED
    BY <2>2, <2>3, <2>4
<1> QED
  BY <1>4, <1>5, LexLeCases

\* Of two keys one of which is inside the other, the outer comes first.
LEMMA OuterFirst ==
  ASSUME NEW a \in Seq(Nat), NEW b \in Seq(Nat), LexLe(a, b), Prefix(b, a)
  PROVE  Prefix(a, b)
<1>0. /\ Len(a) \in Nat /\ Len(b) \in Nat
      /\ \A m \in Nat \ {0} : m <= Len(a) => a[m] \in Nat
  BY SeqNat
<1>1. ASSUME NEW j \in Nat \ {0}, Before(a, b, j)
      PROVE  FALSE
  BY <1>0, <1>1, PrefixFacts, BeforeFacts
<1> QED
  BY <1>1, LexLeCases

-----------------------------------------------------------------------------
(* A pair of ops is refused only where a path of one is a path of the other, *)
(* or lies inside it.                                                        *)

Meets(set, i, k) ==
  \E s, t \in {0, 1} :
    /\ <<i, s>> \in Entries(set) /\ <<k, t>> \in Entries(set)
    /\ \/ Prefix(EntryKey(set, <<i, s>>), EntryKey(set, <<k, t>>))
       \/ Prefix(EntryKey(set, <<k, t>>), EntryKey(set, <<i, s>>))

LEMMA ShapeFacts ==
  ASSUME NEW op \in Shape
  PROVE  /\ op.path \in Path
         /\ Two(op) => op.other \in Path
         /\ op.act \in {"Write", "Remove", "SetExecutable", "SetLink", "Rename", "CopyFrom"}
  BY DEF Shape, Two

LEMMA KeyFacts ==
  /\ \A p \in Path : Key[p] \in Seq(Nat) /\ Prefix(Key[p], Key[p])
  /\ \A p, q \in Path : <<p, q>> \in Under => Prefix(Key[p], Key[q])
<1>1. \A p \in Path : Key[p] \in Seq(Nat)
  BY KeyAssumption
<1>2. \A p \in Path : Prefix(Key[p], Key[p])
  BY <1>1, PrefixFacts, SeqNat
<1> QED
  BY <1>1, <1>2, KeyAssumption

LEMMA EntryKeyFacts ==
  ASSUME NEW set \in Seq(Shape), NEW i \in 1 .. Len(set)
  PROVE  /\ <<i, 0>> \in Entries(set)
         /\ EntryKey(set, <<i, 0>>) = Key[set[i].path]
         /\ Two(set[i]) => <<i, 1>> \in Entries(set)
         /\ EntryKey(set, <<i, 1>>) = Key[set[i].other]
  BY DEF Entries, EntryKey

LEMMA SharedPathMeets ==
  ASSUME NEW set \in Seq(Shape), NEW i \in 1 .. Len(set), NEW k \in 1 .. Len(set),
         NEW s \in {0, 1}, <<i, s>> \in Entries(set),
         NEW p \in Path, Key[p] = EntryKey(set, <<i, s>>),
         Mentions(set[k], p)
  PROVE  Meets(set, i, k)
<1>1. p = set[k].path \/ (Two(set[k]) /\ p = set[k].other)
  BY DEF Mentions, Names
<1>2. \E t \in {0, 1} : <<k, t>> \in Entries(set) /\ EntryKey(set, <<k, t>>) = Key[p]
  BY <1>1, EntryKeyFacts
<1> QED
  BY <1>2, KeyFacts DEF Meets

LEMMA NestedPathMeets ==
  ASSUME NEW set \in Seq(Shape), NEW i \in 1 .. Len(set), NEW k \in 1 .. Len(set),
         NestedOps(set[i], set[k])
  PROVE  Meets(set, i, k)
<1>1. ASSUME NEW s \in {0, 1}, NEW t \in {0, 1}, NEW p \in Path, NEW q \in Path,
             <<i, s>> \in Entries(set), <<k, t>> \in Entries(set),
             EntryKey(set, <<i, s>>) = Key[p], EntryKey(set, <<k, t>>) = Key[q],
             Nested(p, q)
      PROVE  Meets(set, i, k)
  BY <1>1, KeyFacts DEF Nested, Meets
<1>2. set[i] \in Shape /\ set[k] \in Shape
  OBVIOUS
<1>3. CASE Nested(set[i].path, set[k].path)
  BY <1>1, <1>2, <1>3, ShapeFacts, EntryKeyFacts
<1>4. CASE Two(set[i]) /\ Nested(set[i].other, set[k].path)
  BY <1>1, <1>2, <1>4, ShapeFacts, EntryKeyFacts
<1>5. CASE Two(set[k]) /\ Nested(set[i].path, set[k].other)
  BY <1>1, <1>2, <1>5, ShapeFacts, EntryKeyFacts
<1>6. CASE Two(set[i]) /\ Two(set[k]) /\ Nested(set[i].other, set[k].other)
  BY <1>1, <1>2, <1>6, ShapeFacts, EntryKeyFacts
<1> QED
  BY <1>3, <1>4, <1>5, <1>6 DEF NestedOps

LEMMA RefusedPairsMeet ==
  ASSUME NEW set \in Seq(Shape), NEW i \in 1 .. Len(set), NEW k \in 1 .. Len(set),
         i # k, ~Pair(set, i, k)
  PROVE  Meets(set, i, k)
<1>1. set[i] \in Shape /\ set[k] \in Shape
  OBVIOUS
<1>2. CASE NestedOps(set[i], set[k])
  BY <1>2, NestedPathMeets
<1>3. CASE Mentions(set[k], set[i].path)
  BY <1>1, <1>3, ShapeFacts, EntryKeyFacts, SharedPathMeets
<1>4. CASE Two(set[i]) /\ Mentions(set[k], set[i].other)
  BY <1>1, <1>4, ShapeFacts, EntryKeyFacts, SharedPathMeets
<1>5. \/ NestedOps(set[i], set[k])
      \/ Mentions(set[k], set[i].path)
      \/ Two(set[i]) /\ Mentions(set[k], set[i].other)
  BY DEF Pair, RenameAllows, FlipAllows, CopyAllows, Two
<1> QED
  BY <1>2, <1>3, <1>4, <1>5

-----------------------------------------------------------------------------
(* The first refused pair among those looked at.                             *)

Found(b) ==
  b # NoPair => b \in (DOMAIN ops) \X (DOMAIN ops) /\ ~Pair(ops, b[1], b[2])

\* The pair is allowed, or b is as early.
Covered(b, i, k) == Pair(ops, i, k) \/ (b # NoPair /\ ~Earlier(<<i, k>>, b))

LEMMA EarlierFacts ==
  ASSUME NEW a \in Nat \X Nat, NEW b \in Nat \X Nat, NEW c \in Nat \X Nat
  PROVE  /\ ~Earlier(a, a)
         /\ ~Earlier(c, a) /\ Earlier(b, a) => ~Earlier(c, b)
         /\ Earlier(a, b) => ~Earlier(b, a)
  BY DEF Earlier

LEMMA LeastFacts ==
  ASSUME ops \in Seq(Shape), NEW b \in Nat \X Nat, Found(b),
         NEW i \in DOMAIN ops, NEW k \in DOMAIN ops
  PROVE  /\ Least(b, i, k) \in Nat \X Nat
         /\ Found(Least(b, i, k))
         /\ Covered(Least(b, i, k), i, k)
         /\ \A x, y \in DOMAIN ops : Covered(b, x, y) => Covered(Least(b, i, k), x, y)
<1>1. /\ DOMAIN ops \subseteq Nat \ {0}
      /\ <<i, k>> \in Nat \X Nat /\ <<i, k>> # NoPair
  BY DEF NoPair
<1>2. CASE Pair(ops, i, k) \/ (b # NoPair /\ ~Earlier(<<i, k>>, b))
  BY <1>2 DEF Least, Covered
<1>3. CASE ~Pair(ops, i, k) /\ ~(b # NoPair /\ ~Earlier(<<i, k>>, b))
  <2>1. Least(b, i, k) = <<i, k>>
    BY <1>3 DEF Least
  <2>2. Found(<<i, k>>)
    BY <1>1, <1>3 DEF Found
  <2>3. Covered(<<i, k>>, i, k)
    BY <1>1, EarlierFacts DEF Covered
  <2>4. ASSUME NEW x \in DOMAIN ops, NEW y \in DOMAIN ops, Covered(b, x, y)
        PROVE  Covered(<<i, k>>, x, y)
    <3>1. CASE Pair(ops, x, y)
      BY <3>1 DEF Covered
    <3>2. CASE b # NoPair /\ ~Earlier(<<x, y>>, b)
      <4>1. <<x, y>> \in Nat \X Nat
        BY <1>1
      <4>2. Earlier(<<i, k>>, b)
        BY <1>3, <3>2
      <4>3. ~Earlier(<<x, y>>, <<i, k>>)
        BY <1>1, <3>2, <4>1, <4>2, EarlierFacts
      <4> QED
        BY <1>1, <4>3 DEF Covered
    <3> QED
      BY <2>4, <3>1, <3>2 DEF Covered
  <2> QED
    BY <1>1, <2>1, <2>2, <2>3, <2>4
<1> QED
  BY <1>2, <1>3

-----------------------------------------------------------------------------
(* The inductive invariant: what each loop has established where it stands.  *)

SweepTypeOK ==
  /\ ops \in Seq(Shape)
  /\ order \in Seq((1 .. Len(ops)) \X {0, 1})
  /\ stage \in {"place", "selfs", "sweep", "pairwise", "done"}
  /\ at \in Nat \ {0}
  /\ to \in Nat \ {0}
  /\ best \in Nat \X Nat

KeyAt(n) == EntryKey(ops, order[n])

\* The first n entries of the hint are entries of the set, in key order.
SortedTo(n) ==
  /\ \A x \in 1 .. n : order[x] \in Entries(ops)
  /\ \A x, y \in 1 .. n : x < y => LexLe(KeyAt(x), KeyAt(y))

PlaceInv ==
  stage = "place" => best = NoPair /\ at <= Len(order) + 1 /\ SortedTo(at - 1)

HintHolds == stage \in {"selfs", "sweep"} => SortedTo(Len(order)) /\ AllPlaced

SelfsInv ==
  /\ stage = "selfs" => \A i \in DOMAIN ops : i < at => Covered(best, i, i)
  /\ stage = "sweep" => \A i \in DOMAIN ops : Covered(best, i, i)

\* Both ways round, of two entries of the hint.
BothCovered(b, x, y) ==
  /\ Covered(b, order[x][1], order[y][1])
  /\ Covered(b, order[y][1], order[x][1])

ScannedInv ==
  stage = "sweep" =>
    /\ to > at
    /\ \A x, y \in DOMAIN order :
         /\ x < y
         /\ x < at \/ (x = at /\ y < to)
         /\ Prefix(KeyAt(x), KeyAt(y))
         => BothCovered(best, x, y)

PairwiseInv ==
  stage = "pairwise" =>
    /\ best = NoPair
    /\ \A i, k \in DOMAIN ops : i < at \/ (i = at /\ k < to) => Pair(ops, i, k)

DoneInv == stage = "done" => \A i, k \in DOMAIN ops : Covered(best, i, k)

SweepInv ==
  /\ SweepTypeOK /\ Found(best)
  /\ PlaceInv /\ HintHolds /\ SelfsInv /\ ScannedInv /\ PairwiseInv /\ DoneInv

LEMMA SweepInitInv == SweepInit => SweepInv
<1> SUFFICES ASSUME SweepInit PROVE SweepInv
  OBVIOUS
<1>1. ops \in Seq(Shape) /\ order \in Seq((1 .. Len(ops)) \X {0, 1})
  BY SetsAssumption DEF SweepInit
<1>2. SweepTypeOK
  BY <1>1 DEF SweepInit, SweepTypeOK, NoPair
<1>3. PlaceInv
  BY <1>1 DEF SweepInit, PlaceInv, SortedTo
<1> QED
  BY <1>2, <1>3
  DEF SweepInit, SweepInv, Found, HintHolds, SelfsInv, ScannedInv, PairwiseInv, DoneInv

LEMMA KeysAreSequences ==
  ASSUME SweepTypeOK, NEW x \in DOMAIN order, order[x] \in Entries(ops)
  PROVE  KeyAt(x) \in Seq(Nat)
<1>1. order[x] \in (1 .. Len(ops)) \X {0, 1}
  BY DEF SweepTypeOK
<1>2. order[x][2] # 0 => Two(ops[order[x][1]])
  BY DEF Entries
<1>3. ops[order[x][1]] \in Shape
  BY <1>1 DEF SweepTypeOK
<1> QED
  BY <1>2, <1>3, ShapeFacts, KeyFacts DEF KeyAt, EntryKey

-----------------------------------------------------------------------------
(* Each action keeps it.                                                     *)

LEMMA PlaceStep ==
  ASSUME SweepInv, Place
  PROVE  SweepInv'
<1>1. /\ stage = "place" /\ at \in 1 .. Len(order) /\ Follows(at)
      /\ at' = at + 1 /\ UNCHANGED <<ops, order, stage, to, best>>
  BY DEF Place, SweepInv, SweepTypeOK
<1>2. SweepTypeOK /\ SortedTo(at - 1) /\ Len(order) \in Nat /\ at \in Nat \ {0}
  BY <1>1 DEF SweepInv, PlaceInv, SweepTypeOK
<1>3. \A x \in 1 .. at : order[x] \in Entries(ops)
  BY <1>1, <1>2 DEF SortedTo, Follows
<1>4. \A x \in 1 .. at : KeyAt(x) \in Seq(Nat)
  BY <1>1, <1>2, <1>3, KeysAreSequences
<1>5. ASSUME NEW x \in 1 .. at, NEW y \in 1 .. at, x < y
      PROVE  LexLe(KeyAt(x), KeyAt(y))
  <2>1. CASE y < at
    BY <1>2, <1>5, <2>1 DEF SortedTo
  <2>2. CASE y = at /\ x = at - 1
    BY <1>1, <1>2, <1>5, <2>2 DEF Follows, KeyAt
  <2>3. CASE y = at /\ x < at - 1
    <3>1. at - 1 \in 1 .. at /\ LexLe(KeyAt(x), KeyAt(at - 1))
      BY <1>2, <1>5, <2>3 DEF SortedTo
    <3>2. LexLe(KeyAt(at - 1), KeyAt(at))
      BY <1>1, <1>2, <1>5, <2>3 DEF Follows, KeyAt
    <3> QED
      BY <1>4, <1>5, <2>3, <3>1, <3>2, LexTransitive
  <2> QED
    BY <1>2, <1>5, <2>1, <2>2, <2>3
<1>6. SortedTo(at)
  BY <1>3, <1>5 DEF SortedTo
<1>7. (at + 1) - 1 = at /\ at + 1 <= Len(order) + 1
  BY <1>1, <1>2
<1>8. SortedTo(at - 1)'
  <2>1. at' - 1 = at
    BY <1>1, <1>7
  <2> QED
    BY <1>1, <1>6, <2>1 DEF SortedTo, KeyAt
<1>9. SweepTypeOK'
  BY <1>1, <1>2 DEF SweepTypeOK
<1>10. PlaceInv'
  BY <1>1, <1>7, <1>8 DEF PlaceInv, SweepInv
<1> QED
  BY <1>1, <1>9, <1>10
  DEF SweepInv, HintHolds, SelfsInv, ScannedInv, PairwiseInv, DoneInv, Found

LEMMA PlacedStep ==
  ASSUME SweepInv, Placed
  PROVE  SweepInv'
<1>1. /\ stage = "place" /\ at > Len(order) /\ AllPlaced
      /\ stage' = "selfs" /\ at' = 1 /\ UNCHANGED <<ops, order, to, best>>
  BY DEF Placed
<1>2. at - 1 = Len(order) /\ SortedTo(at - 1)
  <2>1. at <= Len(order) + 1 /\ SortedTo(at - 1)
    BY <1>1 DEF SweepInv, PlaceInv
  <2>2. at \in Nat /\ Len(order) \in Nat
    BY DEF SweepInv, SweepTypeOK
  <2>3. at = Len(order) + 1
    BY <1>1, <2>1, <2>2
  <2> QED
    BY <2>1, <2>2, <2>3
<1>3. SweepTypeOK'
  BY <1>1 DEF SweepInv, SweepTypeOK
<1>4. HintHolds'
  BY <1>1, <1>2 DEF HintHolds, SortedTo, AllPlaced, KeyAt
<1>5. SelfsInv'
  BY <1>1 DEF SelfsInv, SweepInv, SweepTypeOK
<1> QED
  BY <1>1, <1>3, <1>4, <1>5
  DEF SweepInv, PlaceInv, ScannedInv, PairwiseInv, DoneInv, Found

LEMMA MisplacedStep ==
  ASSUME SweepInv, Misplaced
  PROVE  SweepInv'
<1>1. /\ stage = "place" /\ stage' = "pairwise" /\ at' = 1 /\ to' = 1
      /\ UNCHANGED <<ops, order, best>>
  BY DEF Misplaced
<1>2. SweepTypeOK'
  BY <1>1 DEF SweepInv, SweepTypeOK
<1>3. PairwiseInv'
  BY <1>1 DEF SweepInv, SweepTypeOK, PlaceInv, PairwiseInv
<1> QED
  BY <1>1, <1>2, <1>3
  DEF SweepInv, PlaceInv, HintHolds, SelfsInv, ScannedInv, DoneInv, Found

LEMMA SelfStep ==
  ASSUME SweepInv, Self
  PROVE  SweepInv'
<1>1. /\ stage = "selfs" /\ at \in DOMAIN ops
      /\ best' = Least(best, at, at) /\ at' = at + 1
      /\ UNCHANGED <<ops, order, stage, to>>
  BY DEF Self, SweepInv, SweepTypeOK
<1>2. /\ best' \in Nat \X Nat
      /\ Found(best')
      /\ Covered(best', at, at)
      /\ \A x, y \in DOMAIN ops : Covered(best, x, y) => Covered(best', x, y)
  BY <1>1, LeastFacts DEF SweepInv, SweepTypeOK
<1>3. SweepTypeOK'
  BY <1>1, <1>2 DEF SweepInv, SweepTypeOK
<1>4. Found(best)'
  BY <1>1, <1>2 DEF Found
<1>5. SelfsInv'
  <2>1. \A i \in DOMAIN ops : i < at + 1 => Covered(best', i, i)
    BY <1>1, <1>2 DEF SweepInv, SweepTypeOK, SelfsInv
  <2> QED
    BY <1>1, <2>1 DEF SelfsInv, Covered
<1>6. HintHolds'
  BY <1>1 DEF SweepInv, HintHolds, SortedTo, AllPlaced, KeyAt
<1> QED
  BY <1>1, <1>3, <1>4, <1>5, <1>6
  DEF SweepInv, PlaceInv, ScannedInv, PairwiseInv, DoneInv

LEMMA SelvesDoneStep ==
  ASSUME SweepInv, SelvesDone
  PROVE  SweepInv'
<1>1. /\ stage = "selfs" /\ at > Len(ops) /\ stage' = "sweep" /\ at' = 1 /\ to' = 2
      /\ UNCHANGED <<ops, order, best>>
  BY DEF SelvesDone
<1>2. SweepTypeOK'
  BY <1>1 DEF SweepInv, SweepTypeOK
<1>3. HintHolds'
  BY <1>1 DEF SweepInv, HintHolds, SortedTo, AllPlaced, KeyAt
<1>4. SelfsInv'
  <2>1. \A i \in DOMAIN ops : i < at
    BY <1>1 DEF SweepInv, SweepTypeOK
  <2> QED
    BY <1>1, <2>1 DEF SweepInv, SelfsInv, Covered
<1>5. ScannedInv'
  <2>1. \A x, y \in DOMAIN order : x < y => ~(x < 1 \/ (x = 1 /\ y < 2))
    BY DEF SweepInv, SweepTypeOK
  <2> QED
    BY <1>1, <2>1 DEF ScannedInv
<1> QED
  BY <1>1, <1>2, <1>3, <1>4, <1>5
  DEF SweepInv, PlaceInv, PairwiseInv, DoneInv, Found

LEMMA ScanStep ==
  ASSUME SweepInv, Scan
  PROVE  SweepInv'
<1> DEFINE i == order[at][1]
           k == order[to][1]
<1>1. /\ stage = "sweep" /\ at <= Len(order) /\ to <= Len(order)
      /\ best' = Least(Least(best, i, k), k, i) /\ to' = to + 1
      /\ UNCHANGED <<ops, order, stage, at>>
  BY DEF Scan, Inside
<1>2. /\ SweepTypeOK /\ Found(best) /\ SortedTo(Len(order)) /\ AllPlaced
      /\ i \in DOMAIN ops /\ k \in DOMAIN ops
  BY <1>1 DEF SweepInv, SweepTypeOK, HintHolds
<1> HIDE DEF i, k
<1>3. /\ Least(best, i, k) \in Nat \X Nat
      /\ Found(Least(best, i, k))
      /\ Covered(Least(best, i, k), i, k)
      /\ \A x, y \in DOMAIN ops : Covered(best, x, y) => Covered(Least(best, i, k), x, y)
  BY <1>2, LeastFacts DEF SweepTypeOK
<1>4. /\ best' \in Nat \X Nat
      /\ Found(best')
      /\ Covered(best', k, i)
      /\ \A x, y \in DOMAIN ops : Covered(Least(best, i, k), x, y) => Covered(best', x, y)
  BY <1>1, <1>2, <1>3, LeastFacts DEF SweepTypeOK
<1>5. SweepTypeOK'
  BY <1>1, <1>2, <1>4 DEF SweepTypeOK
<1>6. Found(best)'
  BY <1>1, <1>4 DEF Found
<1>7. HintHolds'
  BY <1>1, <1>2 DEF HintHolds, SortedTo, AllPlaced, KeyAt
<1>8. SelfsInv'
  BY <1>1, <1>3, <1>4 DEF SweepInv, SelfsInv, Covered
<1>9. ScannedInv'
  <2>1. ASSUME NEW x \in DOMAIN order, NEW y \in DOMAIN order, x < y,
               x < at \/ (x = at /\ y < to + 1), Prefix(KeyAt(x), KeyAt(y))
        PROVE  BothCovered(best', x, y)
    <3>1. order[x][1] \in DOMAIN ops /\ order[y][1] \in DOMAIN ops
      BY <1>2 DEF SweepTypeOK
    <3>2. CASE x = at /\ y = to
      BY <1>2, <1>3, <1>4, <3>2 DEF BothCovered, i, k
    <3>3. CASE ~(x = at /\ y = to)
      <4>1. x < at \/ (x = at /\ y < to)
        BY <1>2, <2>1, <3>3 DEF SweepTypeOK
      <4>2. BothCovered(best, x, y)
        BY <1>1, <2>1, <4>1 DEF SweepInv, ScannedInv
      <4> QED
        BY <1>3, <1>4, <3>1, <4>2 DEF BothCovered
    <3> QED
      BY <3>2, <3>3
  <2>2. to + 1 > at
    BY <1>1, <1>2 DEF SweepInv, ScannedInv, SweepTypeOK
  <2> QED
    BY <1>1, <2>1, <2>2 DEF ScannedInv, BothCovered, Covered, KeyAt
<1> QED
  BY <1>1, <1>5, <1>6, <1>7, <1>8, <1>9
  DEF SweepInv, PlaceInv, PairwiseInv, DoneInv

\* Where the scan ends, no entry further on is inside the key either.
LEMMA ScanEndsStep ==
  ASSUME SweepInv, ScanEnds
  PROVE  SweepInv'
<1>1. /\ stage = "sweep" /\ at <= Len(order) /\ ~Inside
      /\ at' = at + 1 /\ to' = at + 2
      /\ UNCHANGED <<ops, order, stage, best>>
  BY DEF ScanEnds
<1>2. SweepTypeOK /\ SortedTo(Len(order)) /\ AllPlaced /\ to > at
  BY <1>1 DEF SweepInv, HintHolds, ScannedInv
<1>3. SweepTypeOK'
  BY <1>1, <1>2 DEF SweepTypeOK
<1>4. HintHolds' /\ SelfsInv'
  BY <1>1, <1>2 DEF SweepInv, HintHolds, SelfsInv, SortedTo, AllPlaced, KeyAt, Covered
<1>5. ASSUME NEW y \in DOMAIN order, y >= to, Prefix(KeyAt(at), KeyAt(y))
      PROVE  FALSE
  <2>1. /\ at \in DOMAIN order /\ to \in DOMAIN order
        /\ at \in 1 .. Len(order) /\ to \in 1 .. Len(order) /\ y \in 1 .. Len(order)
    BY <1>1, <1>2, <1>5 DEF SweepTypeOK
  <2>2. KeyAt(at) \in Seq(Nat) /\ KeyAt(to) \in Seq(Nat) /\ KeyAt(y) \in Seq(Nat)
    BY <1>2, <2>1, KeysAreSequences DEF SortedTo
  <2>3. LexLe(KeyAt(at), KeyAt(to))
    BY <1>2, <2>1 DEF SortedTo
  <2>4. y # to => LexLe(KeyAt(to), KeyAt(y))
    BY <1>2, <1>5, <2>1 DEF SortedTo
  <2>5. ~Prefix(KeyAt(at), KeyAt(to))
    BY <1>1, <2>1 DEF Inside, KeyAt
  <2> QED
    BY <1>5, <2>2, <2>3, <2>4, <2>5, NoGap
<1>6. ScannedInv'
  <2>1. ASSUME NEW x \in DOMAIN order, NEW y \in DOMAIN order, x < y,
               x < at + 1 \/ (x = at + 1 /\ y < at + 2), Prefix(KeyAt(x), KeyAt(y))
        PROVE  BothCovered(best, x, y)
    <3>1. x < at \/ (x = at /\ y < to)
      BY <1>2, <1>5, <2>1 DEF SweepTypeOK
    <3> QED
      BY <1>1, <2>1, <3>1 DEF SweepInv, ScannedInv
  <2>2. at + 2 > at + 1
    BY <1>2 DEF SweepTypeOK
  <2> QED
    BY <1>1, <2>1, <2>2 DEF ScannedInv, BothCovered, Covered, KeyAt
<1> QED
  BY <1>1, <1>3, <1>4, <1>6
  DEF SweepInv, PlaceInv, PairwiseInv, DoneInv, Found

\* When every entry has been scanned, every pair that could be refused has
\* been looked at.
LEMMA SweepEndsStep ==
  ASSUME SweepInv, SweepEnds
  PROVE  SweepInv'
<1>1. /\ stage = "sweep" /\ at > Len(order) /\ stage' = "done"
      /\ UNCHANGED <<ops, order, at, to, best>>
  BY DEF SweepEnds
<1>2. SweepTypeOK /\ SortedTo(Len(order)) /\ AllPlaced
  BY <1>1 DEF SweepInv, HintHolds
<1>3. ASSUME NEW i \in DOMAIN ops, NEW k \in DOMAIN ops
      PROVE  Covered(best, i, k)
  <2>1. CASE i = k
    BY <1>1, <2>1 DEF SweepInv, SelfsInv
  <2>2. CASE Pair(ops, i, k)
    BY <2>2 DEF Covered
  <2>3. CASE i # k /\ ~Pair(ops, i, k)
    <3>1. i \in 1 .. Len(ops) /\ k \in 1 .. Len(ops) /\ ops \in Seq(Shape)
      BY <1>2 DEF SweepTypeOK
    <3>2. Meets(ops, i, k)
      BY <2>3, <3>1, RefusedPairsMeet
    <3>3. PICK s \in {0, 1}, t \in {0, 1} :
            /\ <<i, s>> \in Entries(ops) /\ <<k, t>> \in Entries(ops)
            /\ \/ Prefix(EntryKey(ops, <<i, s>>), EntryKey(ops, <<k, t>>))
               \/ Prefix(EntryKey(ops, <<k, t>>), EntryKey(ops, <<i, s>>))
      BY <3>2 DEF Meets
    <3>4. PICK x \in DOMAIN order, y \in DOMAIN order :
            order[x] = <<i, s>> /\ order[y] = <<k, t>>
      BY <1>2, <3>3 DEF AllPlaced
    <3>5. /\ order[x][1] = i /\ order[y][1] = k /\ x # y
          /\ x \in 1 .. Len(order) /\ y \in 1 .. Len(order) /\ Len(order) \in Nat
      BY <1>2, <2>3, <3>4 DEF SweepTypeOK
    <3>6. Prefix(KeyAt(x), KeyAt(y)) \/ Prefix(KeyAt(y), KeyAt(x))
      BY <3>3, <3>4 DEF KeyAt
    <3>7. KeyAt(x) \in Seq(Nat) /\ KeyAt(y) \in Seq(Nat)
      BY <1>2, <3>5, KeysAreSequences DEF SortedTo
    <3>8. CASE x < y
      <4>1. LexLe(KeyAt(x), KeyAt(y))
        BY <1>2, <3>5, <3>8 DEF SortedTo
      <4>2. Prefix(KeyAt(x), KeyAt(y))
        BY <3>6, <3>7, <4>1, OuterFirst
      <4>3. x < at
        BY <1>1, <1>2, <3>5 DEF SweepTypeOK
      <4>4. BothCovered(best, x, y)
        BY <1>1, <3>8, <4>2, <4>3 DEF SweepInv, ScannedInv
      <4> QED
        BY <3>5, <4>4 DEF BothCovered
    <3>9. CASE y < x
      <4>1. LexLe(KeyAt(y), KeyAt(x))
        BY <1>2, <3>5, <3>9 DEF SortedTo
      <4>2. Prefix(KeyAt(y), KeyAt(x))
        BY <3>6, <3>7, <4>1, OuterFirst
      <4>3. y < at
        BY <1>1, <1>2, <3>5 DEF SweepTypeOK
      <4>4. BothCovered(best, y, x)
        BY <1>1, <3>9, <4>2, <4>3 DEF SweepInv, ScannedInv
      <4> QED
        BY <3>5, <4>4 DEF BothCovered
    <3> QED
      BY <3>5, <3>8, <3>9
  <2> QED
    BY <2>1, <2>2, <2>3
<1>4. SweepTypeOK'
  BY <1>1, <1>2 DEF SweepTypeOK
<1>5. DoneInv'
  BY <1>1, <1>3 DEF DoneInv, Covered
<1> QED
  BY <1>1, <1>4, <1>5
  DEF SweepInv, PlaceInv, HintHolds, SelfsInv, ScannedInv, PairwiseInv, Found

LEMMA CompareStep ==
  ASSUME SweepInv, Compare \/ CompareNext
  PROVE  SweepInv'
<1>1. /\ stage = "pairwise" /\ at <= Len(ops) /\ UNCHANGED <<ops, order, stage, best>>
      /\ \/ to <= Len(ops) /\ Pair(ops, at, to) /\ to' = to + 1 /\ at' = at
         \/ to > Len(ops) /\ at' = at + 1 /\ to' = 1
  BY DEF Compare, CompareNext
<1>2. SweepTypeOK /\ PairwiseInv
  BY DEF SweepInv
<1>3. SweepTypeOK'
  BY <1>1, <1>2 DEF SweepTypeOK
<1>4. DOMAIN ops = 1 .. Len(ops) /\ Len(ops) \in Nat /\ at \in Nat /\ to \in Nat
  BY <1>2 DEF SweepTypeOK
<1>5. PairwiseInv'
  <2>1. ASSUME NEW i \in DOMAIN ops, NEW k \in DOMAIN ops,
               i < at' \/ (i = at' /\ k < to')
        PROVE  Pair(ops, i, k)
    BY <1>1, <1>2, <1>4, <2>1 DEF PairwiseInv
  <2> QED
    BY <1>1, <1>2, <2>1 DEF PairwiseInv
<1> QED
  BY <1>1, <1>3, <1>5
  DEF SweepInv, PlaceInv, HintHolds, SelfsInv, ScannedInv, DoneInv, Found

LEMMA CompareRefusesStep ==
  ASSUME SweepInv, CompareRefuses
  PROVE  SweepInv'
<1>1. /\ stage = "pairwise" /\ at <= Len(ops) /\ to <= Len(ops) /\ ~Pair(ops, at, to)
      /\ best' = <<at, to>> /\ stage' = "done" /\ UNCHANGED <<ops, order, at, to>>
  BY DEF CompareRefuses
<1>2. SweepTypeOK /\ PairwiseInv
  BY DEF SweepInv
<1>3. /\ DOMAIN ops = 1 .. Len(ops) /\ at \in DOMAIN ops /\ to \in DOMAIN ops
      /\ at \in Nat \ {0} /\ to \in Nat \ {0} /\ <<at, to>> # NoPair
  BY <1>1, <1>2 DEF SweepTypeOK, NoPair
<1>4. SweepTypeOK'
  BY <1>1, <1>2 DEF SweepTypeOK
<1>5. Found(best)'
  BY <1>1, <1>3 DEF Found
<1>6. ASSUME NEW i \in DOMAIN ops, NEW k \in DOMAIN ops
      PROVE  Covered(<<at, to>>, i, k)
  BY <1>1, <1>2, <1>3 DEF PairwiseInv, Covered, Earlier
<1>7. DoneInv'
  BY <1>1, <1>6 DEF DoneInv, Covered
<1> QED
  BY <1>1, <1>4, <1>5, <1>7
  DEF SweepInv, PlaceInv, HintHolds, SelfsInv, ScannedInv, PairwiseInv

LEMMA CompareEndsStep ==
  ASSUME SweepInv, CompareEnds
  PROVE  SweepInv'
<1>1. /\ stage = "pairwise" /\ at > Len(ops) /\ stage' = "done"
      /\ UNCHANGED <<ops, order, at, to, best>>
  BY DEF CompareEnds
<1>2. SweepTypeOK /\ PairwiseInv
  BY DEF SweepInv
<1>3. \A i \in DOMAIN ops : i < at
  BY <1>1, <1>2 DEF SweepTypeOK
<1>4. SweepTypeOK'
  BY <1>1, <1>2 DEF SweepTypeOK
<1>5. DoneInv'
  BY <1>1, <1>2, <1>3 DEF PairwiseInv, DoneInv, Covered
<1> QED
  BY <1>1, <1>4, <1>5
  DEF SweepInv, PlaceInv, HintHolds, SelfsInv, ScannedInv, PairwiseInv, Found

LEMMA SweepStep ==
  ASSUME SweepInv, [SweepNext]_sweepVars
  PROVE  SweepInv'
<1>1. CASE UNCHANGED sweepVars
  BY <1>1
  DEF sweepVars, SweepInv, SweepTypeOK, Found, PlaceInv, HintHolds, SelfsInv, ScannedInv,
      PairwiseInv, DoneInv, SortedTo, AllPlaced, KeyAt, BothCovered, Covered
<1>2. CASE SweepNext
  BY <1>2, PlaceStep, PlacedStep, MisplacedStep, SelfStep, SelvesDoneStep, ScanStep,
     ScanEndsStep, SweepEndsStep, CompareStep, CompareRefusesStep, CompareEndsStep
  DEF SweepNext
<1> QED
  BY <1>1, <1>2

\* Of every set of ops, over any paths whose keys are told apart, and of any
\* order handed to it: the search reports a refusal exactly when some pair of
\* ops breaks the rule, and the one it reports is the first, as comparing
\* every pair in turn would have found it.
THEOREM SweepIsPairwiseAlways == SweepSpec => []SweepIsPairwise
<1>1. SweepInit => SweepInv
  BY SweepInitInv
<1>2. SweepInv /\ [SweepNext]_sweepVars => SweepInv'
  BY SweepStep
<1>3. SweepInv => SweepIsPairwise
  <2> SUFFICES ASSUME SweepInv, stage = "done"
               PROVE  /\ best = NoPair <=> Admissible(ops)
                      /\ best # NoPair =>
                           /\ ~Pair(ops, best[1], best[2])
                           /\ \A i, k \in DOMAIN ops :
                                ~Pair(ops, i, k) => ~Earlier(<<i, k>>, best)
    BY DEF SweepIsPairwise
  <2>1. \A i, k \in DOMAIN ops : Covered(best, i, k)
    BY DEF SweepInv, DoneInv
  <2>2. best # NoPair =>
          best[1] \in DOMAIN ops /\ best[2] \in DOMAIN ops /\ ~Pair(ops, best[1], best[2])
    BY DEF SweepInv, Found
  <2> QED
    BY <2>1, <2>2 DEF Covered, Admissible
<1> QED
  BY <1>1, <1>2, <1>3, PTL DEF SweepSpec

-----------------------------------------------------------------------------
(* Bytes read at a place.                                                    *)

\* The symbols r stand in s behind the first n.
Reads(s, n, r) ==
  n + Len(r) <= Len(s) /\ \A j \in 1 .. Len(r) : s[n + j] = r[j]

LEMMA Joined ==
  ASSUME NEW r \in Seq(Nat), NEW q \in Seq(Nat)
  PROVE  /\ r \o q \in Seq(Nat) /\ Len(r \o q) = Len(r) + Len(q)
         /\ \A j \in 1 .. Len(r) : (r \o q)[j] = r[j]
         /\ \A j \in 1 .. Len(q) : (r \o q)[Len(r) + j] = q[j]
<1>1. \A j \in 1 .. Len(r) + Len(q) :
        (r \o q)[j] = IF j <= Len(r) THEN r[j] ELSE q[j - Len(r)]
  BY ConcatProperties
<1> QED BY <1>1, ConcatProperties

\* Of two pieces one behind the other, each is read in its place.
LEMMA ReadsBoth ==
  ASSUME NEW s \in Seq(Nat), NEW n \in Nat, NEW r \in Seq(Nat), NEW q \in Seq(Nat)
  PROVE  Reads(s, n, r \o q) <=> Reads(s, n, r) /\ Reads(s, n + Len(r), q)
<1> DEFINE a == Len(r)
           b == Len(q)
<1>1. /\ a \in Nat /\ b \in Nat /\ Len(s) \in Nat /\ Len(r \o q) = a + b
      /\ \A j \in 1 .. a : (r \o q)[j] = r[j]
      /\ \A j \in 1 .. b : (r \o q)[a + j] = q[j]
  BY Joined
<1> HIDE DEF a, b
<1>2. ASSUME Reads(s, n, r \o q) PROVE Reads(s, n, r) /\ Reads(s, n + a, q)
  <2>1. n + (a + b) <= Len(s) /\ \A j \in 1 .. a + b : s[n + j] = (r \o q)[j]
    BY <1>1, <1>2 DEF Reads
  <2>2. ASSUME NEW j \in 1 .. a PROVE s[n + j] = r[j]
    <3>1. j \in 1 .. a + b
      BY <1>1
    <3> QED BY <1>1, <2>1, <3>1
  <2>3. ASSUME NEW j \in 1 .. b PROVE s[(n + a) + j] = q[j]
    <3>1. a + j \in 1 .. a + b /\ (n + a) + j = n + (a + j)
      BY <1>1
    <3> QED BY <1>1, <2>1, <3>1
  <2>4. n + a <= Len(s) /\ (n + a) + b <= Len(s)
    BY <1>1, <2>1
  <2> QED BY <2>2, <2>3, <2>4 DEF Reads, a, b
<1>3. ASSUME Reads(s, n, r), Reads(s, n + a, q) PROVE Reads(s, n, r \o q)
  <2>1. /\ (n + a) + b <= Len(s)
        /\ \A j \in 1 .. a : s[n + j] = r[j]
        /\ \A j \in 1 .. b : s[(n + a) + j] = q[j]
    BY <1>3 DEF Reads, a, b
  <2>2. ASSUME NEW j \in 1 .. a + b PROVE s[n + j] = (r \o q)[j]
    <3>1. CASE j <= a
      <4>1. j \in 1 .. a
        BY <1>1, <3>1
      <4> QED BY <1>1, <2>1, <4>1
    <3>2. CASE j > a
      <4>1. PICK i \in 1 .. b : j = a + i
        <5>1. j - a \in 1 .. b /\ j = a + (j - a)
          BY <1>1, <3>2
        <5> QED BY <5>1
      <4>2. n + j = (n + a) + i
        BY <1>1, <4>1
      <4> QED BY <1>1, <2>1, <4>1, <4>2
    <3> QED BY <1>1, <3>1, <3>2
  <2>3. n + (a + b) <= Len(s)
    BY <1>1, <2>1
  <2> QED BY <1>1, <2>2, <2>3 DEF Reads
<1> QED BY <1>2, <1>3 DEF a

-----------------------------------------------------------------------------
(* What the cursor takes, it has read; and what can be read, it takes.       *)

\* What a look at s from n gave: r, for the value v.
Took(out, s, n, r, v) ==
  Reads(s, n, r) /\ out = [got |-> v, at |-> n + Len(r)]

\* A place behind the first symbol is never Bad.
LEMMA NotBad ==
  ASSUME NEW n \in Nat \ {0}, NEW k \in Nat, NEW v
  PROVE  [got |-> v, at |-> n + k] # Bad
BY DEF Bad

LEMMA TakeIsRead ==
  ASSUME NEW s \in Seq(Nat), NEW n \in Nat \ {0}, NEW k \in Nat
  PROVE  /\ Take(s, n, k) # Bad =>
              \E r \in Seq(Nat) : Len(r) = k /\ Took(Take(s, n, k), s, n, r, r)
         /\ \A r \in Seq(Nat) :
              Len(r) = k /\ Reads(s, n, r) => Took(Take(s, n, k), s, n, r, r)
<1>1. ASSUME n + k <= Len(s)
      PROVE  /\ SubSeq(s, n + 1, n + k) \in Seq(Nat)
             /\ Len(SubSeq(s, n + 1, n + k)) = k
             /\ \A j \in 1 .. k : SubSeq(s, n + 1, n + k)[j] = s[n + j]
  <2> DEFINE q == SubSeq(s, n + 1, n + k)
  <2>1. \A i \in n + 1 .. n + k : s[i] \in Nat
    BY <1>1
  <2>2. /\ q \in Seq(Nat)
        /\ Len(q) = IF n + 1 <= n + k THEN (n + k) - (n + 1) + 1 ELSE 0
        /\ \A j \in 1 .. (n + k) - (n + 1) + 1 : q[j] = s[(n + 1) + j - 1]
    BY <2>1, SubSeqProperties
  <2>3. (n + k) - (n + 1) + 1 = k /\ \A j \in 1 .. k : (n + 1) + j - 1 = n + j
    OBVIOUS
  <2>4. Len(q) = k
    BY <2>2, <2>3
  <2> QED BY <2>2, <2>3, <2>4
<1>2. Len(s) \in Nat
  OBVIOUS
<1>3. ASSUME Take(s, n, k) # Bad
      PROVE  \E r \in Seq(Nat) : Len(r) = k /\ Took(Take(s, n, k), s, n, r, r)
  <2>1. n + k <= Len(s)
    BY <1>2, <1>3 DEF Take
  <2>2. PICK r : r = SubSeq(s, n + 1, n + k)
    OBVIOUS
  <2>3. Reads(s, n, r) /\ r \in Seq(Nat) /\ Len(r) = k
    BY <1>1, <2>1, <2>2 DEF Reads
  <2>4. Take(s, n, k) = [got |-> r, at |-> n + k]
    BY <1>2, <2>1, <2>2 DEF Take
  <2> QED BY <2>3, <2>4 DEF Took
<1>4. ASSUME NEW r \in Seq(Nat), Len(r) = k, Reads(s, n, r)
      PROVE  Took(Take(s, n, k), s, n, r, r)
  <2>1. n + k <= Len(s) /\ \A j \in 1 .. k : s[n + j] = r[j]
    BY <1>4 DEF Reads
  <2>2. SubSeq(s, n + 1, n + k) = r
    BY <1>1, <1>4, <2>1, SeqEqual
  <2>3. Take(s, n, k) = [got |-> r, at |-> n + k]
    BY <1>2, <2>1, <2>2 DEF Take
  <2> QED BY <1>4, <2>3 DEF Took
<1> QED BY <1>3, <1>4

LEMMA FieldType ==
  ASSUME NEW r \in Seq(Nat)
  PROVE  Field(r) \in Seq(Nat) /\ Len(r) \in Nat /\ Len(Field(r)) = 1 + Len(r)
<1>1. <<Len(r)>> \in Seq(Nat) /\ Len(<<Len(r)>>) = 1 /\ Len(r) \in Nat
  OBVIOUS
<1> QED BY <1>1, Joined DEF Field

LEMMA FieldIsRead ==
  ASSUME NEW s \in Seq(Nat), NEW n \in Nat \ {0}
  PROVE  /\ TakeField(s, n) # Bad =>
              \E r \in Seq(Nat) : Took(TakeField(s, n), s, n, Field(r), r)
         /\ \A r \in Seq(Nat) :
              Reads(s, n, Field(r)) => Took(TakeField(s, n), s, n, Field(r), r)
<1> DEFINE w == Take(s, n, 1)
<1>1. n + 1 \in Nat \ {0} /\ 1 \in Nat
  OBVIOUS
<1>2. ASSUME NEW r \in Seq(Nat)
      PROVE  /\ <<Len(r)>> \in Seq(Nat) /\ Len(<<Len(r)>>) = 1 /\ Len(r) \in Nat
             /\ Reads(s, n, Field(r)) <=> Reads(s, n, <<Len(r)>>) /\ Reads(s, n + 1, r)
             /\ (n + 1) + Len(r) = n + Len(Field(r))
  <2>1. <<Len(r)>> \in Seq(Nat) /\ Len(<<Len(r)>>) = 1 /\ Len(r) \in Nat
    OBVIOUS
  <2>2. Len(Field(r)) = 1 + Len(r)
    BY FieldType
  <2>3. Reads(s, n, <<Len(r)>> \o r)
          <=> Reads(s, n, <<Len(r)>>) /\ Reads(s, n + Len(<<Len(r)>>), r)
    BY <2>1, ReadsBoth
  <2>4. n + Len(<<Len(r)>>) = n + 1 /\ (n + 1) + Len(r) = n + (1 + Len(r))
    BY <2>1
  <2> QED BY <2>1, <2>2, <2>3, <2>4 DEF Field
<1>3. ASSUME NEW r \in Seq(Nat), w = [got |-> <<Len(r)>>, at |-> n + 1]
      PROVE  TakeField(s, n) = Take(s, n + 1, Len(r))
  <2>1. w # Bad
    BY <1>3, NotBad, <1>1
  <2>2. w.at = n + 1 /\ w.got[1] = Len(r)
    BY <1>3
  <2> QED BY <2>1, <2>2 DEF TakeField
<1>4. ASSUME TakeField(s, n) # Bad
      PROVE  \E r \in Seq(Nat) : Took(TakeField(s, n), s, n, Field(r), r)
  <2>1. w # Bad
    BY <1>4 DEF TakeField
  <2>2. PICK c \in Seq(Nat) : Len(c) = 1 /\ Took(w, s, n, c, c)
    BY <1>1, <2>1, TakeIsRead
  <2>3. c[1] \in Nat /\ c = <<c[1]>>
    <3>0. c \in Seq(Nat) /\ Len(c) = 1 /\ 1 \in 1 .. 1
      BY <2>2
    <3>1. c[1] \in Nat
      BY <3>0, ElementOfSeq
    <3>2. Len(<<c[1]>>) = 1 /\ <<c[1]>>[1] = c[1] /\ <<c[1]>> \in Seq(Nat)
      BY <3>1
    <3> QED BY <2>2, <3>1, <3>2, SeqEqual
  <2>c. Reads(s, n, c) /\ w = [got |-> c, at |-> n + 1]
    BY <2>2 DEF Took
  <2>4. w.at = n + 1 /\ w.got[1] = c[1]
    BY <2>c
  <2>5. TakeField(s, n) = Take(s, n + 1, c[1])
    BY <2>1, <2>4 DEF TakeField
  <2>6. PICK r \in Seq(Nat) : Len(r) = c[1] /\ Took(Take(s, n + 1, c[1]), s, n + 1, r, r)
    BY <1>1, <1>4, <2>3, <2>5, TakeIsRead
  <2>7. Reads(s, n + 1, r) /\ TakeField(s, n) = [got |-> r, at |-> (n + 1) + Len(r)]
    BY <2>5, <2>6 DEF Took
  <2> QED BY <1>2, <2>3, <2>c, <2>6, <2>7 DEF Took
<1>5. ASSUME NEW r \in Seq(Nat), Reads(s, n, Field(r))
      PROVE  Took(TakeField(s, n), s, n, Field(r), r)
  <2>1. Took(w, s, n, <<Len(r)>>, <<Len(r)>>)
    BY <1>1, <1>2, <1>5, TakeIsRead
  <2>2. TakeField(s, n) = Take(s, n + 1, Len(r))
    BY <1>2, <1>3, <2>1 DEF Took
  <2>3. Took(Take(s, n + 1, Len(r)), s, n + 1, r, r)
    BY <1>1, <1>2, <1>5, TakeIsRead
  <2> QED BY <1>2, <1>5, <2>2, <2>3 DEF Took
<1> QED BY <1>4, <1>5

LEMMA PathIsRead ==
  ASSUME NEW s \in Seq(Nat), NEW n \in Nat \ {0}
  PROVE  /\ TakePath(s, n) # Bad =>
              \E r \in Seq(Nat) : IsText(r) /\ Took(TakePath(s, n), s, n, Field(r), r)
         /\ \A r \in Seq(Nat) :
              IsText(r) /\ Reads(s, n, Field(r)) => Took(TakePath(s, n), s, n, Field(r), r)
<1>1. ASSUME TakePath(s, n) # Bad
      PROVE  \E r \in Seq(Nat) : IsText(r) /\ Took(TakePath(s, n), s, n, Field(r), r)
  <2>1. TakePath(s, n) = TakeField(s, n) /\ IsText(TakeField(s, n).got)
    BY <1>1 DEF TakePath
  <2>2. PICK r \in Seq(Nat) : Took(TakeField(s, n), s, n, Field(r), r)
    BY <1>1, <2>1, FieldIsRead
  <2>3. TakeField(s, n).got = r
    BY <2>2 DEF Took
  <2> QED BY <2>1, <2>2, <2>3
<1>2. ASSUME NEW r \in Seq(Nat), IsText(r), Reads(s, n, Field(r))
      PROVE  Took(TakePath(s, n), s, n, Field(r), r)
  <2>1. Took(TakeField(s, n), s, n, Field(r), r)
    BY <1>2, FieldIsRead
  <2>2. TakeField(s, n).got = r
    BY <2>1 DEF Took
  <2>3. TakePath(s, n) = TakeField(s, n)
    BY <1>2, <2>2 DEF TakePath
  <2> QED BY <2>1, <2>3
<1> QED BY <1>1, <1>2

-----------------------------------------------------------------------------
(* The forms of a record.                                                    *)

Texts(op) == \A j \in DOMAIN Paths(op) : IsText(Paths(op)[j])

LEMMA OpForms ==
  ASSUME NEW L, NEW op \in OpOver(L)
  PROVE  \/ \E p \in L, b \in L : op = Write(p, b)
         \/ \E p \in L, q \in L : op \in {Rename(p, q), CopyFrom(p, q), SetLink(p, q)}
         \/ \E p \in L : op = Remove(p)
         \/ \E p \in L, x \in BOOLEAN : op = SetExecutable(p, x)
<1>1. CASE op \in [act : {"Write"}, path : L, bytes : L]
  BY <1>1 DEF Write
<1>2. CASE op \in [act : {"Rename", "CopyFrom"}, path : L, other : L]
  BY <1>2 DEF Rename, CopyFrom
<1>3. CASE op \in [act : {"Remove"}, path : L]
  BY <1>3 DEF Remove
<1>4. CASE op \in [act : {"SetExecutable"}, path : L, exec : BOOLEAN]
  BY <1>4 DEF SetExecutable
<1>5. CASE op \in [act : {"SetLink"}, path : L, target : L]
  BY <1>5 DEF SetLink
<1> QED BY <1>1, <1>2, <1>3, <1>4, <1>5 DEF OpOver

LEMMA FormsAreOps ==
  ASSUME NEW L, NEW p \in L, NEW q \in L, NEW x \in BOOLEAN
  PROVE  {Write(p, q), Rename(p, q), CopyFrom(p, q), SetLink(p, q), Remove(p),
          SetExecutable(p, x)} \subseteq OpOver(L)
BY DEF OpOver, Write, Rename, CopyFrom, SetLink, Remove, SetExecutable

\* What the tag of an op over two paths makes of them.
TwoPaths(tag, p, q) ==
  CASE tag = 1 -> Rename(p, q)
    [] tag = 3 -> CopyFrom(p, q)
    [] tag = 5 -> SetLink(p, q)

Flag(x) == IF x THEN 1 ELSE 0

LEMMA RecordForms ==
  /\ \A p \in Seq(Nat), q \in Seq(Nat) : Record(Write(p, q)) = <<0>> \o (Field(p) \o Field(q))
  /\ \A p \in Seq(Nat), q \in Seq(Nat), tag \in {1, 3, 5} :
       Record(TwoPaths(tag, p, q)) = <<tag>> \o (Field(p) \o Field(q))
  /\ \A p \in Seq(Nat) : Record(Remove(p)) = <<2>> \o (Field(p) \o <<>>)
  /\ \A p \in Seq(Nat), x \in BOOLEAN :
       Record(SetExecutable(p, x)) = <<4>> \o (Field(p) \o <<Flag(x)>>)
<1>0. ASSUME NEW p, NEW q
      PROVE  /\ Len(<<p>>) = 1 /\ Len(<<p, q>>) = 2
             /\ <<p>>[1] = p /\ <<p, q>>[1] = p /\ <<p, q>>[2] = q
  OBVIOUS
<1>1. ASSUME NEW p \in Seq(Nat), NEW q \in Seq(Nat)
      PROVE  Record(Write(p, q)) = <<0>> \o (Field(p) \o Field(q))
  <2> DEFINE op == Write(p, q)
  <2>1. op.act = "Write" /\ op.path = p /\ op.bytes = q
    BY DEF Write
  <2> HIDE DEF op
  <2>2. Paths(op) = <<p>> /\ Tag(op) = 0
    BY <2>1 DEF Paths, Tag
  <2>3. Rest(op) = Field(q)
    BY <1>0, <2>1, <2>2 DEF Rest
  <2> QED BY <1>0, <2>2, <2>3 DEF Record, op
<1>2. ASSUME NEW p \in Seq(Nat), NEW q \in Seq(Nat), NEW tag \in {1, 3, 5}
      PROVE  Record(TwoPaths(tag, p, q)) = <<tag>> \o (Field(p) \o Field(q))
  <2> DEFINE op == TwoPaths(tag, p, q)
  <2>2. Paths(op) = <<p, q>> /\ Tag(op) = tag
    <3>1. CASE tag = 1
      BY <3>1 DEF TwoPaths, Rename, Paths, Tag
    <3>2. CASE tag = 3
      BY <3>2 DEF TwoPaths, CopyFrom, Paths, Tag
    <3>3. CASE tag = 5
      BY <3>3 DEF TwoPaths, SetLink, Paths, Tag
    <3> QED BY <3>1, <3>2, <3>3
  <2> HIDE DEF op
  <2>3. Rest(op) = Field(q)
    BY <1>0, <2>2 DEF Rest
  <2> QED BY <1>0, <2>2, <2>3 DEF Record, op
<1>3. ASSUME NEW p \in Seq(Nat)
      PROVE  Record(Remove(p)) = <<2>> \o (Field(p) \o <<>>)
  <2> DEFINE op == Remove(p)
  <2>1. op.act = "Remove" /\ op.path = p
    BY DEF Remove
  <2> HIDE DEF op
  <2>2. Paths(op) = <<p>> /\ Tag(op) = 2
    BY <2>1 DEF Paths, Tag
  <2>3. Rest(op) = <<>>
    BY <1>0, <2>1, <2>2 DEF Rest
  <2> QED BY <1>0, <2>2, <2>3 DEF Record, op
<1>4. ASSUME NEW p \in Seq(Nat), NEW x \in BOOLEAN
      PROVE  Record(SetExecutable(p, x)) = <<4>> \o (Field(p) \o <<Flag(x)>>)
  <2> DEFINE op == SetExecutable(p, x)
  <2>1. op.act = "SetExecutable" /\ op.path = p /\ op.exec = x
    BY DEF SetExecutable
  <2> HIDE DEF op
  <2>2. Paths(op) = <<p>> /\ Tag(op) = 4
    BY <2>1 DEF Paths, Tag
  <2>3. Rest(op) = <<Flag(x)>>
    BY <1>0, <2>1, <2>2 DEF Rest, Flag
  <2> QED BY <1>0, <2>2, <2>3 DEF Record, op
<1> QED BY <1>1, <1>2, <1>3, <1>4

LEMMA TextForms ==
  ASSUME NEW p, NEW q, NEW x
  PROVE  /\ Texts(Write(p, q)) <=> IsText(p)
         /\ \A tag \in {1, 3, 5} : Texts(TwoPaths(tag, p, q)) <=> IsText(p) /\ IsText(q)
         /\ Texts(Remove(p)) <=> IsText(p)
         /\ Texts(SetExecutable(p, x)) <=> IsText(p)
<1>0. /\ DOMAIN <<p>> = {1} /\ DOMAIN <<p, q>> = {1, 2}
      /\ <<p>>[1] = p /\ <<p, q>>[1] = p /\ <<p, q>>[2] = q
  OBVIOUS
<1>1. Paths(Write(p, q)) = <<p>>
  BY DEF Write, Paths
<1>2. ASSUME NEW tag \in {1, 3, 5} PROVE Paths(TwoPaths(tag, p, q)) = <<p, q>>
  <2>1. CASE tag = 1
    BY <2>1 DEF TwoPaths, Rename, Paths
  <2>2. CASE tag = 3
    BY <2>2 DEF TwoPaths, CopyFrom, Paths
  <2>3. CASE tag = 5
    BY <2>3 DEF TwoPaths, SetLink, Paths
  <2> QED BY <2>1, <2>2, <2>3
<1>3. Paths(Remove(p)) = <<p>>
  BY DEF Remove, Paths
<1>4. Paths(SetExecutable(p, x)) = <<p>>
  BY DEF SetExecutable, Paths
<1> QED BY <1>0, <1>1, <1>2, <1>3, <1>4 DEF Texts

-----------------------------------------------------------------------------
(* An op is taken exactly where its record stands.                           *)

LEMMA PathThen ==
  ASSUME NEW s \in Seq(Nat), NEW n \in Nat \ {0}, NEW p \in Seq(Nat), NEW q \in Seq(Nat)
  PROVE  /\ n + Len(Field(p)) \in Nat \ {0}
         /\ Reads(s, n, Field(p) \o q)
              <=> Reads(s, n, Field(p)) /\ Reads(s, n + Len(Field(p)), q)
         /\ (n + Len(Field(p))) + Len(q) = n + Len(Field(p) \o q)
         /\ Field(p) \o q \in Seq(Nat)
<1>1. Field(p) \in Seq(Nat) /\ Len(Field(p)) \in Nat /\ Len(q) \in Nat
  BY FieldType
<1>2. Len(Field(p) \o q) = Len(Field(p)) + Len(q) /\ Field(p) \o q \in Seq(Nat)
  BY <1>1, Joined
<1>3. Reads(s, n, Field(p) \o q) <=> Reads(s, n, Field(p)) /\ Reads(s, n + Len(Field(p)), q)
  BY <1>1, ReadsBoth
<1> QED BY <1>1, <1>2, <1>3

LEMMA WriteIsRead ==
  ASSUME NEW s \in Seq(Nat), NEW n \in Nat \ {0}
  PROVE  /\ TakeWrite(s, n) # Bad =>
              \E p \in Seq(Nat), b \in Seq(Nat) :
                IsText(p) /\ Took(TakeWrite(s, n), s, n, Field(p) \o Field(b), Write(p, b))
         /\ \A p \in Seq(Nat), b \in Seq(Nat) :
              IsText(p) /\ Reads(s, n, Field(p) \o Field(b)) =>
                Took(TakeWrite(s, n), s, n, Field(p) \o Field(b), Write(p, b))
<1>1. ASSUME TakeWrite(s, n) # Bad
      PROVE  \E p \in Seq(Nat), b \in Seq(Nat) :
               IsText(p) /\ Took(TakeWrite(s, n), s, n, Field(p) \o Field(b), Write(p, b))
  <2>1. TakePath(s, n) # Bad
    BY <1>1 DEF TakeWrite
  <2>2. PICK p \in Seq(Nat) : IsText(p) /\ Took(TakePath(s, n), s, n, Field(p), p)
    BY <2>1, PathIsRead
  <2> DEFINE m == n + Len(Field(p))
  <2>3. TakePath(s, n).got = p /\ TakePath(s, n).at = m /\ Reads(s, n, Field(p))
    BY <2>2 DEF Took
  <2>4. m \in Nat \ {0}
    BY PathThen
  <2>5. TakeField(s, m) # Bad
    BY <1>1, <2>3 DEF TakeWrite
  <2>6. PICK b \in Seq(Nat) : Took(TakeField(s, m), s, m, Field(b), b)
    BY <2>4, <2>5, FieldIsRead
  <2>7. TakeField(s, m).got = b /\ TakeField(s, m).at = m + Len(Field(b)) /\ Reads(s, m, Field(b))
    BY <2>6 DEF Took
  <2>8. TakeWrite(s, n) = [got |-> Write(p, b), at |-> m + Len(Field(b))]
    BY <2>1, <2>3, <2>5, <2>7 DEF TakeWrite
  <2>9. Field(b) \in Seq(Nat)
    BY FieldType
  <2> QED BY <2>2, <2>3, <2>7, <2>8, <2>9, PathThen DEF Took
<1>2. ASSUME NEW p \in Seq(Nat), NEW b \in Seq(Nat), IsText(p), Reads(s, n, Field(p) \o Field(b))
      PROVE  Took(TakeWrite(s, n), s, n, Field(p) \o Field(b), Write(p, b))
  <2> DEFINE m == n + Len(Field(p))
  <2>1. Field(b) \in Seq(Nat) /\ Len(Field(p)) \in Nat /\ Len(Field(b)) \in Nat
    BY FieldType
  <2>2. /\ m \in Nat \ {0} /\ Reads(s, n, Field(p)) /\ Reads(s, m, Field(b))
        /\ m + Len(Field(b)) = n + Len(Field(p) \o Field(b))
    BY <1>2, <2>1, PathThen
  <2>3. TakePath(s, n) = [got |-> p, at |-> m]
    BY <1>2, <2>2, PathIsRead DEF Took
  <2>4. TakeField(s, m) = [got |-> b, at |-> m + Len(Field(b))]
    BY <2>2, FieldIsRead DEF Took
  <2>5. TakePath(s, n) # Bad /\ TakeField(s, m) # Bad
    BY <2>1, <2>2, <2>3, <2>4, NotBad
  <2>6. TakeWrite(s, n) = [got |-> Write(p, b), at |-> m + Len(Field(b))]
    BY <2>3, <2>4, <2>5 DEF TakeWrite
  <2> QED BY <1>2, <2>2, <2>6 DEF Took
<1> QED BY <1>1, <1>2

LEMMA RemoveIsRead ==
  ASSUME NEW s \in Seq(Nat), NEW n \in Nat \ {0}
  PROVE  /\ TakeRemove(s, n) # Bad =>
              \E p \in Seq(Nat) :
                IsText(p) /\ Took(TakeRemove(s, n), s, n, Field(p) \o <<>>, Remove(p))
         /\ \A p \in Seq(Nat) :
              IsText(p) /\ Reads(s, n, Field(p) \o <<>>) =>
                Took(TakeRemove(s, n), s, n, Field(p) \o <<>>, Remove(p))
<1>0. ASSUME NEW p \in Seq(Nat)
      PROVE  Field(p) \o <<>> = Field(p) /\ Len(Field(p)) \in Nat
  BY FieldType, ConcatEmptySeq
<1>1. ASSUME TakeRemove(s, n) # Bad
      PROVE  \E p \in Seq(Nat) :
               IsText(p) /\ Took(TakeRemove(s, n), s, n, Field(p) \o <<>>, Remove(p))
  <2>1. TakePath(s, n) # Bad
    BY <1>1 DEF TakeRemove
  <2>2. PICK p \in Seq(Nat) : IsText(p) /\ Took(TakePath(s, n), s, n, Field(p), p)
    BY <2>1, PathIsRead
  <2>3. TakePath(s, n) = [got |-> p, at |-> n + Len(Field(p))] /\ Reads(s, n, Field(p))
    BY <2>2 DEF Took
  <2>4. TakeRemove(s, n) = [got |-> Remove(p), at |-> n + Len(Field(p))]
    BY <2>1, <2>3 DEF TakeRemove
  <2> QED BY <1>0, <2>2, <2>3, <2>4 DEF Took
<1>2. ASSUME NEW p \in Seq(Nat), IsText(p), Reads(s, n, Field(p) \o <<>>)
      PROVE  Took(TakeRemove(s, n), s, n, Field(p) \o <<>>, Remove(p))
  <2>1. Reads(s, n, Field(p)) /\ Len(Field(p)) \in Nat
    BY <1>0, <1>2
  <2>2. TakePath(s, n) = [got |-> p, at |-> n + Len(Field(p))]
    BY <1>2, <2>1, PathIsRead DEF Took
  <2>3. TakePath(s, n) # Bad
    BY <2>1, <2>2, NotBad
  <2>4. TakeRemove(s, n) = [got |-> Remove(p), at |-> n + Len(Field(p))]
    BY <2>2, <2>3 DEF TakeRemove
  <2> QED BY <1>0, <1>2, <2>4 DEF Took
<1> QED BY <1>1, <1>2

LEMMA FlipIsRead ==
  ASSUME NEW s \in Seq(Nat), NEW n \in Nat \ {0}
  PROVE  /\ TakeFlip(s, n) # Bad =>
              \E p \in Seq(Nat), x \in BOOLEAN :
                IsText(p) /\ Took(TakeFlip(s, n), s, n, Field(p) \o <<Flag(x)>>, SetExecutable(p, x))
         /\ \A p \in Seq(Nat), x \in BOOLEAN :
              IsText(p) /\ Reads(s, n, Field(p) \o <<Flag(x)>>) =>
                Took(TakeFlip(s, n), s, n, Field(p) \o <<Flag(x)>>, SetExecutable(p, x))
<1>f. ASSUME NEW x \in BOOLEAN
      PROVE  /\ Flag(x) \in {0, 1} /\ <<Flag(x)>> \in Seq(Nat) /\ Len(<<Flag(x)>>) = 1
             /\ <<Flag(x)>>[1] = Flag(x) /\ (Flag(x) = 1) = x
  <2>1. Flag(x) \in {0, 1} /\ (Flag(x) = 1) = x
    BY DEF Flag
  <2> QED BY <2>1
<1>p. ASSUME NEW p \in Seq(Nat), NEW c \in Seq(Nat), Len(c) = 1
      PROVE  /\ n + Len(Field(p)) \in Nat \ {0}
             /\ Reads(s, n, Field(p) \o c) <=> Reads(s, n, Field(p)) /\ Reads(s, n + Len(Field(p)), c)
             /\ (n + Len(Field(p))) + 1 = n + Len(Field(p) \o c)
  <2>2. /\ n + Len(Field(p)) \in Nat \ {0}
        /\ Reads(s, n, Field(p) \o c) <=> Reads(s, n, Field(p)) /\ Reads(s, n + Len(Field(p)), c)
        /\ (n + Len(Field(p))) + Len(c) = n + Len(Field(p) \o c)
    BY PathThen
  <2> QED BY <1>p, <2>2, Zenon
<1>1. ASSUME TakeFlip(s, n) # Bad
      PROVE  \E p \in Seq(Nat), x \in BOOLEAN :
               IsText(p) /\ Took(TakeFlip(s, n), s, n, Field(p) \o <<Flag(x)>>, SetExecutable(p, x))
  <2>1. TakePath(s, n) # Bad
    BY <1>1 DEF TakeFlip
  <2>2. PICK p \in Seq(Nat) : IsText(p) /\ Took(TakePath(s, n), s, n, Field(p), p)
    BY <2>1, PathIsRead
  <2> DEFINE m == n + Len(Field(p))
  <2>3. TakePath(s, n).got = p /\ TakePath(s, n).at = m /\ Reads(s, n, Field(p))
    BY <2>2 DEF Took
  <2>4. m \in Nat \ {0}
    BY PathThen
  <2>5. Take(s, m, 1) # Bad /\ Take(s, m, 1).got[1] \in {0, 1}
    BY <1>1, <2>3 DEF TakeFlip
  <2>6. PICK c \in Seq(Nat) : Len(c) = 1 /\ Took(Take(s, m, 1), s, m, c, c)
    BY <2>4, <2>5, TakeIsRead
  <2>7. Take(s, m, 1).got = c /\ Take(s, m, 1).at = m + 1 /\ Reads(s, m, c)
    BY <2>6 DEF Took
  <2>8. PICK x \in BOOLEAN : x = (c[1] = 1)
    OBVIOUS
  <2>9. c = <<Flag(x)>>
    <3>1. c[1] = Flag(x)
      BY <2>5, <2>7, <2>8 DEF Flag
    <3>2. c \in Seq(Nat) /\ Len(c) = 1
      BY <2>6
    <3> QED BY <1>f, <3>1, <3>2, SeqEqual
  <2>10. TakeFlip(s, n) = [got |-> SetExecutable(p, x), at |-> m + 1]
    BY <2>1, <2>3, <2>5, <2>7, <2>8 DEF TakeFlip
  <2>11. m + 1 = n + Len(Field(p) \o c) /\ Reads(s, n, Field(p) \o c)
    BY <1>p, <2>3, <2>6, <2>7
  <2> QED BY <2>2, <2>9, <2>10, <2>11 DEF Took
<1>2. ASSUME NEW p \in Seq(Nat), NEW x \in BOOLEAN, IsText(p),
             Reads(s, n, Field(p) \o <<Flag(x)>>)
      PROVE  Took(TakeFlip(s, n), s, n, Field(p) \o <<Flag(x)>>, SetExecutable(p, x))
  <2> DEFINE m == n + Len(Field(p))
  <2>1. Len(Field(p)) \in Nat
    BY FieldType
  <2>2. /\ m \in Nat \ {0} /\ Reads(s, n, Field(p)) /\ Reads(s, m, <<Flag(x)>>)
        /\ m + 1 = n + Len(Field(p) \o <<Flag(x)>>)
    <3>1. PICK c \in Seq(Nat) : c = <<Flag(x)>> /\ Len(c) = 1
      BY <1>f
    <3>2. /\ m \in Nat \ {0} /\ Reads(s, n, Field(p)) /\ Reads(s, m, c)
          /\ m + 1 = n + Len(Field(p) \o c)
      BY <1>2, <1>p, <3>1
    <3> QED BY <3>1, <3>2
  <2>3. TakePath(s, n) = [got |-> p, at |-> m]
    BY <1>2, <2>2, PathIsRead DEF Took
  <2>4. Take(s, m, 1) = [got |-> <<Flag(x)>>, at |-> m + 1]
    <3>1. PICK c \in Seq(Nat) : c = <<Flag(x)>> /\ Len(c) = 1
      BY <1>f
    <3>2. Took(Take(s, m, 1), s, m, c, c)
      BY <2>2, <3>1, TakeIsRead
    <3> QED BY <3>1, <3>2 DEF Took
  <2>5. TakePath(s, n) # Bad /\ Take(s, m, 1) # Bad
    BY <2>1, <2>2, <2>3, <2>4, NotBad
  <2>6. Take(s, m, 1).got[1] = Flag(x) /\ Take(s, m, 1).at = m + 1
    BY <1>f, <2>4
  <2>7. TakeFlip(s, n) = [got |-> SetExecutable(p, x), at |-> m + 1]
    BY <1>f, <2>3, <2>5, <2>6 DEF TakeFlip
  <2> QED BY <1>2, <2>2, <2>7 DEF Took
<1> QED BY <1>1, <1>2

LEMMA TwoPathsAreRead ==
  ASSUME NEW s \in Seq(Nat), NEW n \in Nat \ {0}, NEW tag \in {1, 3, 5}
  PROVE  /\ TakeTwoPaths(s, n, tag) # Bad =>
              \E p \in Seq(Nat), q \in Seq(Nat) :
                /\ IsText(p) /\ IsText(q)
                /\ Took(TakeTwoPaths(s, n, tag), s, n, Field(p) \o Field(q), TwoPaths(tag, p, q))
         /\ \A p \in Seq(Nat), q \in Seq(Nat) :
              IsText(p) /\ IsText(q) /\ Reads(s, n, Field(p) \o Field(q)) =>
                Took(TakeTwoPaths(s, n, tag), s, n, Field(p) \o Field(q), TwoPaths(tag, p, q))
<1>1. ASSUME TakeTwoPaths(s, n, tag) # Bad
      PROVE  \E p \in Seq(Nat), q \in Seq(Nat) :
               /\ IsText(p) /\ IsText(q)
               /\ Took(TakeTwoPaths(s, n, tag), s, n, Field(p) \o Field(q), TwoPaths(tag, p, q))
  <2>1. TakePath(s, n) # Bad
    BY <1>1 DEF TakeTwoPaths
  <2>2. PICK p \in Seq(Nat) : IsText(p) /\ Took(TakePath(s, n), s, n, Field(p), p)
    BY <2>1, PathIsRead
  <2> DEFINE m == n + Len(Field(p))
  <2>3. TakePath(s, n).got = p /\ TakePath(s, n).at = m /\ Reads(s, n, Field(p))
    BY <2>2 DEF Took
  <2>4. m \in Nat \ {0}
    BY PathThen
  <2>5. TakePath(s, m) # Bad
    BY <1>1, <2>3 DEF TakeTwoPaths
  <2>6. PICK q \in Seq(Nat) : IsText(q) /\ Took(TakePath(s, m), s, m, Field(q), q)
    BY <2>4, <2>5, PathIsRead
  <2>7. TakePath(s, m).got = q /\ TakePath(s, m).at = m + Len(Field(q)) /\ Reads(s, m, Field(q))
    BY <2>6 DEF Took
  <2>8. TakeTwoPaths(s, n, tag) = [got |-> TwoPaths(tag, p, q), at |-> m + Len(Field(q))]
    BY <2>1, <2>3, <2>5, <2>7 DEF TakeTwoPaths, TwoPaths
  <2>9. Field(q) \in Seq(Nat)
    BY FieldType
  <2> QED BY <2>2, <2>3, <2>6, <2>7, <2>8, <2>9, PathThen DEF Took
<1>2. ASSUME NEW p \in Seq(Nat), NEW q \in Seq(Nat), IsText(p), IsText(q),
             Reads(s, n, Field(p) \o Field(q))
      PROVE  Took(TakeTwoPaths(s, n, tag), s, n, Field(p) \o Field(q), TwoPaths(tag, p, q))
  <2> DEFINE m == n + Len(Field(p))
  <2>1. Field(q) \in Seq(Nat) /\ Len(Field(p)) \in Nat /\ Len(Field(q)) \in Nat
    BY FieldType
  <2>2. /\ m \in Nat \ {0} /\ Reads(s, n, Field(p)) /\ Reads(s, m, Field(q))
        /\ m + Len(Field(q)) = n + Len(Field(p) \o Field(q))
    BY <1>2, <2>1, PathThen
  <2>3. TakePath(s, n) = [got |-> p, at |-> m]
    BY <1>2, <2>2, PathIsRead DEF Took
  <2>4. TakePath(s, m) = [got |-> q, at |-> m + Len(Field(q))]
    BY <1>2, <2>2, PathIsRead DEF Took
  <2>5. TakePath(s, n) # Bad /\ TakePath(s, m) # Bad
    BY <2>1, <2>2, <2>3, <2>4, NotBad
  <2>6. TakeTwoPaths(s, n, tag) = [got |-> TwoPaths(tag, p, q), at |-> m + Len(Field(q))]
    BY <2>3, <2>4, <2>5 DEF TakeTwoPaths, TwoPaths
  <2> QED BY <1>2, <2>2, <2>6 DEF Took
<1> QED BY <1>1, <1>2

LEMMA TagThen ==
  ASSUME NEW s \in Seq(Nat), NEW n \in Nat \ {0}, NEW tag \in 0 .. 5, NEW r \in Seq(Nat)
  PROVE  /\ n + 1 \in Nat \ {0} /\ <<tag>> \o r \in Seq(Nat)
         /\ Reads(s, n, <<tag>> \o r) <=> Reads(s, n, <<tag>>) /\ Reads(s, n + 1, r)
         /\ (n + 1) + Len(r) = n + Len(<<tag>> \o r)
<1>1. PICK c \in Seq(Nat) : c = <<tag>> /\ Len(c) = 1
  <2>1. <<tag>> \in Seq(Nat) /\ Len(<<tag>>) = 1
    OBVIOUS
  <2> QED BY <2>1
<1>2. c \o r \in Seq(Nat) /\ Len(c \o r) = Len(c) + Len(r) /\ Len(r) \in Nat
  BY Joined
<1>3. Reads(s, n, c \o r) <=> Reads(s, n, c) /\ Reads(s, n + Len(c), r)
  BY ReadsBoth
<1> QED BY <1>1, <1>2, <1>3

LEMMA TagIsRead ==
  ASSUME NEW s \in Seq(Nat), NEW n \in Nat \ {0}
  PROVE  /\ Take(s, n, 1) # Bad =>
              \E v \in Nat : Reads(s, n, <<v>>) /\ Take(s, n, 1) = [got |-> <<v>>, at |-> n + 1]
         /\ \A v \in Nat :
              Reads(s, n, <<v>>) => Take(s, n, 1) = [got |-> <<v>>, at |-> n + 1]
<1>0. ASSUME NEW v \in Nat PROVE <<v>> \in Seq(Nat) /\ Len(<<v>>) = 1 /\ <<v>>[1] = v
  OBVIOUS
<1>1. ASSUME Take(s, n, 1) # Bad
      PROVE  \E v \in Nat : Reads(s, n, <<v>>) /\ Take(s, n, 1) = [got |-> <<v>>, at |-> n + 1]
  <2>1. PICK c \in Seq(Nat) : Len(c) = 1 /\ Took(Take(s, n, 1), s, n, c, c)
    BY <1>1, TakeIsRead
  <2>2. c \in Seq(Nat) /\ Len(c) = 1 /\ 1 \in 1 .. 1
    BY <2>1
  <2>3. c[1] \in Nat
    BY <2>2, ElementOfSeq
  <2>4. c = <<c[1]>>
    BY <1>0, <2>2, <2>3, SeqEqual
  <2>5. Reads(s, n, c) /\ Take(s, n, 1) = [got |-> c, at |-> n + 1]
    BY <2>1 DEF Took
  <2> QED BY <2>3, <2>4, <2>5
<1>2. ASSUME NEW v \in Nat, Reads(s, n, <<v>>)
      PROVE  Take(s, n, 1) = [got |-> <<v>>, at |-> n + 1]
  <2>1. PICK c \in Seq(Nat) : c = <<v>> /\ Len(c) = 1
    BY <1>0
  <2>2. Took(Take(s, n, 1), s, n, c, c)
    BY <1>2, <2>1, TakeIsRead
  <2> QED BY <2>1, <2>2 DEF Took
<1> QED BY <1>1, <1>2

\* A record is its tag, then what the tag's taker reads.
LEMMA RecordType ==
  ASSUME NEW op \in OpOver(Seq(Nat))
  PROVE  Record(op) \in Seq(Nat) /\ Len(Record(op)) \in Nat \ {0}
<1>1. ASSUME NEW tag \in 0 .. 5, NEW p \in Seq(Nat), NEW q \in Seq(Nat)
      PROVE  /\ <<tag>> \o (Field(p) \o q) \in Seq(Nat)
             /\ Len(<<tag>> \o (Field(p) \o q)) \in Nat \ {0}
  <2>1. Field(p) \o q \in Seq(Nat)
    BY FieldType, Joined
  <2>2. PICK c \in Seq(Nat) : c = <<tag>> /\ Len(c) = 1
    <3>1. <<tag>> \in Seq(Nat) /\ Len(<<tag>>) = 1
      OBVIOUS
    <3> QED BY <3>1
  <2>3. c \o (Field(p) \o q) \in Seq(Nat) /\ Len(c \o (Field(p) \o q)) = 1 + Len(Field(p) \o q)
    BY <2>1, <2>2, Joined
  <2>4. Len(Field(p) \o q) \in Nat
    BY <2>1
  <2> QED BY <2>2, <2>3, <2>4
<1>2. ASSUME NEW p \in Seq(Nat), NEW b \in Seq(Nat)
      PROVE  Field(b) \in Seq(Nat)
  BY FieldType
<1>3. ASSUME NEW x \in BOOLEAN PROVE <<Flag(x)>> \in Seq(Nat)
  BY DEF Flag
<1>4. <<>> \in Seq(Nat)
  OBVIOUS
<1>5. CASE \E p \in Seq(Nat), b \in Seq(Nat) : op = Write(p, b)
  <2>1. PICK p \in Seq(Nat), b \in Seq(Nat) : op = Write(p, b)
    BY <1>5
  <2>2. Record(op) = <<0>> \o (Field(p) \o Field(b))
    BY <2>1, RecordForms
  <2>3. Field(b) \in Seq(Nat) /\ 0 \in 0 .. 5
    BY <1>2
  <2> QED BY <1>1, <2>2, <2>3, Zenon
<1>6. CASE \E p \in Seq(Nat), q \in Seq(Nat) : op \in {Rename(p, q), CopyFrom(p, q), SetLink(p, q)}
  <2>1. PICK p \in Seq(Nat), q \in Seq(Nat), tag \in {1, 3, 5} : op = TwoPaths(tag, p, q)
    BY <1>6 DEF TwoPaths
  <2>2. Record(op) = <<tag>> \o (Field(p) \o Field(q))
    BY <2>1, RecordForms
  <2> QED BY <1>1, <1>2, <2>2
<1>7. CASE \E p \in Seq(Nat) : op = Remove(p)
  <2>1. PICK p \in Seq(Nat) : op = Remove(p)
    BY <1>7
  <2>2. Record(op) = <<2>> \o (Field(p) \o <<>>)
    BY <2>1, RecordForms
  <2>3. <<>> \in Seq(Nat) /\ 2 \in 0 .. 5
    BY <1>4
  <2> QED BY <1>1, <2>2, <2>3, Zenon
<1>8. CASE \E p \in Seq(Nat), x \in BOOLEAN : op = SetExecutable(p, x)
  <2>1. PICK p \in Seq(Nat), x \in BOOLEAN : op = SetExecutable(p, x)
    BY <1>8
  <2>2. Record(op) = <<4>> \o (Field(p) \o <<Flag(x)>>)
    BY <2>1, RecordForms
  <2>3. <<Flag(x)>> \in Seq(Nat) /\ 4 \in 0 .. 5
    BY <1>3
  <2> QED BY <1>1, <2>2, <2>3, Zenon
<1> QED BY <1>5, <1>6, <1>7, <1>8, OpForms

\* What TakeOp does once the tag is read.
LEMMA TagDecides ==
  ASSUME NEW s, NEW n \in Nat \ {0}, NEW v \in Nat,
         Take(s, n, 1) = [got |-> <<v>>, at |-> n + 1]
  PROVE  TakeOp(s, n) = IF v > 5 THEN Bad
                        ELSE IF v = 0 THEN TakeWrite(s, n + 1)
                        ELSE IF v = 2 THEN TakeRemove(s, n + 1)
                        ELSE IF v = 4 THEN TakeFlip(s, n + 1)
                        ELSE TakeTwoPaths(s, n + 1, v)
<1> DEFINE w == Take(s, n, 1)
<1>1. w # Bad /\ w.at = n + 1 /\ w.got[1] = v
  BY NotBad
<1> HIDE DEF w
<1>2. TakeOp(s, n) = IF w.got[1] > 5 THEN Bad
                     ELSE CASE w.got[1] = 0 -> TakeWrite(s, w.at)
                            [] w.got[1] = 2 -> TakeRemove(s, w.at)
                            [] w.got[1] = 4 -> TakeFlip(s, w.at)
                            [] OTHER -> TakeTwoPaths(s, w.at, w.got[1])
  BY <1>1 DEF TakeOp, w
<1> QED BY <1>1, <1>2

LEMMA OpIsRead ==
  ASSUME NEW s \in Seq(Nat), NEW n \in Nat \ {0}
  PROVE  /\ TakeOp(s, n) # Bad =>
              \E op \in OpOver(Seq(Nat)) : Texts(op) /\ Took(TakeOp(s, n), s, n, Record(op), op)
         /\ \A op \in OpOver(Seq(Nat)) :
              Texts(op) /\ Reads(s, n, Record(op)) => Took(TakeOp(s, n), s, n, Record(op), op)
<1>1. n + 1 \in Nat \ {0}
  OBVIOUS
<1>2. ASSUME TakeOp(s, n) # Bad
      PROVE  \E op \in OpOver(Seq(Nat)) : Texts(op) /\ Took(TakeOp(s, n), s, n, Record(op), op)
  <2>1. Take(s, n, 1) # Bad
    BY <1>2 DEF TakeOp
  <2>2. PICK v \in Nat : Reads(s, n, <<v>>) /\ Take(s, n, 1) = [got |-> <<v>>, at |-> n + 1]
    BY <2>1, TagIsRead
  <2>3. v \in 0 .. 5
    BY <1>2, <2>2, TagDecides
  <2>4. ASSUME NEW op \in OpOver(Seq(Nat)), Texts(op), NEW r \in Seq(Nat), Record(op) = <<v>> \o r,
               Took(TakeOp(s, n), s, n + 1, r, op)
        PROVE  \E p \in OpOver(Seq(Nat)) : Texts(p) /\ Took(TakeOp(s, n), s, n, Record(p), p)
    <3>1. Reads(s, n + 1, r) /\ TakeOp(s, n) = [got |-> op, at |-> (n + 1) + Len(r)]
      BY <2>4 DEF Took
    <3>2. Reads(s, n, Record(op)) /\ (n + 1) + Len(r) = n + Len(Record(op))
      BY <2>2, <2>3, <2>4, <3>1, TagThen
    <3>3. Took(TakeOp(s, n), s, n, Record(op), op)
      BY <3>1, <3>2 DEF Took
    <3> QED BY <2>4, <3>3
  <2>5. CASE v = 0
    <3>1. TakeOp(s, n) = TakeWrite(s, n + 1)
      BY <2>2, <2>5, TagDecides
    <3>2. PICK p \in Seq(Nat), b \in Seq(Nat) :
            IsText(p) /\ Took(TakeOp(s, n), s, n + 1, Field(p) \o Field(b), Write(p, b))
      BY <1>1, <1>2, <3>1, WriteIsRead
    <3>3. /\ Write(p, b) \in OpOver(Seq(Nat)) /\ Texts(Write(p, b))
          /\ Field(p) \o Field(b) \in Seq(Nat)
          /\ Record(Write(p, b)) = <<v>> \o (Field(p) \o Field(b))
      BY <2>5, <3>2, FormsAreOps, TextForms, RecordForms, FieldType, Joined
    <3> QED BY <2>4, <3>2, <3>3
  <2>6. CASE v \in {1, 3, 5}
    <3>1. TakeOp(s, n) = TakeTwoPaths(s, n + 1, v)
      BY <2>2, <2>6, TagDecides
    <3>2. PICK p \in Seq(Nat), q \in Seq(Nat) :
            /\ IsText(p) /\ IsText(q)
            /\ Took(TakeOp(s, n), s, n + 1, Field(p) \o Field(q), TwoPaths(v, p, q))
      BY <1>1, <1>2, <2>6, <3>1, TwoPathsAreRead
    <3>3. TwoPaths(v, p, q) \in {Rename(p, q), CopyFrom(p, q), SetLink(p, q)}
      BY <2>6 DEF TwoPaths
    <3>4. {Rename(p, q), CopyFrom(p, q), SetLink(p, q)} \subseteq OpOver(Seq(Nat))
      BY FormsAreOps
    <3>5. Texts(TwoPaths(v, p, q))
      BY <2>6, <3>2, TextForms
    <3>6. Field(p) \o Field(q) \in Seq(Nat)
      BY FieldType, Joined
    <3>7. Record(TwoPaths(v, p, q)) = <<v>> \o (Field(p) \o Field(q))
      BY <2>6, RecordForms
    <3> QED BY <2>4, <3>2, <3>3, <3>4, <3>5, <3>6, <3>7
  <2>7. CASE v = 2
    <3>1. TakeOp(s, n) = TakeRemove(s, n + 1)
      BY <2>2, <2>7, TagDecides
    <3>2. PICK p \in Seq(Nat) :
            IsText(p) /\ Took(TakeOp(s, n), s, n + 1, Field(p) \o <<>>, Remove(p))
      BY <1>1, <1>2, <3>1, RemoveIsRead
    <3>3. /\ Remove(p) \in OpOver(Seq(Nat)) /\ Texts(Remove(p))
          /\ Field(p) \o <<>> \in Seq(Nat)
          /\ Record(Remove(p)) = <<v>> \o (Field(p) \o <<>>)
      BY <2>7, <3>2, FormsAreOps, TextForms, RecordForms, FieldType, ConcatEmptySeq
    <3> QED BY <2>4, <3>2, <3>3
  <2>8. CASE v = 4
    <3>1. TakeOp(s, n) = TakeFlip(s, n + 1)
      BY <2>2, <2>8, TagDecides
    <3>2. PICK p \in Seq(Nat), x \in BOOLEAN :
            IsText(p) /\ Took(TakeOp(s, n), s, n + 1, Field(p) \o <<Flag(x)>>, SetExecutable(p, x))
      BY <1>1, <1>2, <3>1, FlipIsRead
    <3>3. <<Flag(x)>> \in Seq(Nat)
      BY DEF Flag
    <3>4. /\ SetExecutable(p, x) \in OpOver(Seq(Nat)) /\ Texts(SetExecutable(p, x))
          /\ Field(p) \o <<Flag(x)>> \in Seq(Nat)
          /\ Record(SetExecutable(p, x)) = <<v>> \o (Field(p) \o <<Flag(x)>>)
      BY <2>8, <3>2, <3>3, FormsAreOps, TextForms, RecordForms, FieldType, Joined
    <3> QED BY <2>4, <3>2, <3>4
  <2> QED BY <2>3, <2>5, <2>6, <2>7, <2>8
<1>3. ASSUME NEW op \in OpOver(Seq(Nat)), Texts(op), Reads(s, n, Record(op))
      PROVE  Took(TakeOp(s, n), s, n, Record(op), op)
  <2>0. {0, 2, 4} \subseteq 0 .. 5 /\ {1, 3, 5} \subseteq 0 .. 5
    OBVIOUS
  <2>1. ASSUME NEW tag \in 0 .. 5, NEW r \in Seq(Nat), Record(op) = <<tag>> \o r
        PROVE  /\ Take(s, n, 1) = [got |-> <<tag>>, at |-> n + 1]
               /\ Reads(s, n + 1, r)
               /\ Took(TakeOp(s, n), s, n + 1, r, op) => Took(TakeOp(s, n), s, n, Record(op), op)
    <3>a. Reads(s, n, <<tag>> \o r) <=> Reads(s, n, <<tag>>) /\ Reads(s, n + 1, r)
      BY TagThen
    <3>b. (n + 1) + Len(r) = n + Len(<<tag>> \o r)
      BY TagThen
    <3>1. /\ Reads(s, n, <<tag>>) /\ Reads(s, n + 1, r)
          /\ (n + 1) + Len(r) = n + Len(Record(op))
      BY <1>3, <2>1, <3>a, <3>b
    <3>2. Take(s, n, 1) = [got |-> <<tag>>, at |-> n + 1]
      BY <3>1, TagIsRead
    <3> QED BY <1>3, <3>1, <3>2 DEF Took
  <2>2. CASE \E p \in Seq(Nat), b \in Seq(Nat) : op = Write(p, b)
    <3>1. PICK p \in Seq(Nat), b \in Seq(Nat) : op = Write(p, b)
      BY <2>2
    <3>2. /\ IsText(p) /\ Field(p) \o Field(b) \in Seq(Nat)
          /\ Record(op) = <<0>> \o (Field(p) \o Field(b))
      BY <1>3, <3>1, TextForms, RecordForms, FieldType, Joined
    <3>3. /\ Take(s, n, 1) = [got |-> <<0>>, at |-> n + 1]
          /\ Reads(s, n + 1, Field(p) \o Field(b))
      BY <2>0, <2>1, <3>2, Zenon
    <3>4. TakeOp(s, n) = TakeWrite(s, n + 1)
      BY <3>3, TagDecides
    <3>5. Took(TakeOp(s, n), s, n + 1, Field(p) \o Field(b), op)
      BY <1>1, <3>1, <3>2, <3>3, <3>4, WriteIsRead
    <3> QED BY <2>0, <2>1, <3>2, <3>5, Zenon
  <2>3. CASE \E p \in Seq(Nat), q \in Seq(Nat) : op \in {Rename(p, q), CopyFrom(p, q), SetLink(p, q)}
    <3>1. PICK p \in Seq(Nat), q \in Seq(Nat), tag \in {1, 3, 5} : op = TwoPaths(tag, p, q)
      BY <2>3 DEF TwoPaths
    <3>2. IsText(p) /\ IsText(q)
      BY <1>3, <3>1, TextForms
    <3>3. Field(p) \o Field(q) \in Seq(Nat)
      BY FieldType, Joined
    <3>4. Record(op) = <<tag>> \o (Field(p) \o Field(q))
      BY <3>1, RecordForms
    <3>5. /\ Take(s, n, 1) = [got |-> <<tag>>, at |-> n + 1]
          /\ Reads(s, n + 1, Field(p) \o Field(q))
      BY <2>0, <2>1, <3>3, <3>4, Zenon
    <3>6. TakeOp(s, n) = TakeTwoPaths(s, n + 1, tag)
      BY <3>5, TagDecides
    <3>7. Took(TakeOp(s, n), s, n + 1, Field(p) \o Field(q), op)
      BY <1>1, <3>1, <3>2, <3>5, <3>6, TwoPathsAreRead
    <3> QED BY <2>0, <2>1, <3>3, <3>4, <3>7, Zenon
  <2>4. CASE \E p \in Seq(Nat) : op = Remove(p)
    <3>1. PICK p \in Seq(Nat) : op = Remove(p)
      BY <2>4
    <3>2. /\ IsText(p) /\ Field(p) \o <<>> \in Seq(Nat)
          /\ Record(op) = <<2>> \o (Field(p) \o <<>>)
      BY <1>3, <3>1, TextForms, RecordForms, FieldType, ConcatEmptySeq
    <3>3. Take(s, n, 1) = [got |-> <<2>>, at |-> n + 1] /\ Reads(s, n + 1, Field(p) \o <<>>)
      BY <2>0, <2>1, <3>2, Zenon
    <3>4. TakeOp(s, n) = TakeRemove(s, n + 1)
      BY <3>3, TagDecides
    <3>5. Took(TakeOp(s, n), s, n + 1, Field(p) \o <<>>, op)
      BY <1>1, <3>1, <3>2, <3>3, <3>4, RemoveIsRead
    <3> QED BY <2>0, <2>1, <3>2, <3>5, Zenon
  <2>5. CASE \E p \in Seq(Nat), x \in BOOLEAN : op = SetExecutable(p, x)
    <3>1. PICK p \in Seq(Nat), x \in BOOLEAN : op = SetExecutable(p, x)
      BY <2>5
    <3>2. <<Flag(x)>> \in Seq(Nat)
      BY DEF Flag
    <3>3. /\ IsText(p) /\ Field(p) \o <<Flag(x)>> \in Seq(Nat)
          /\ Record(op) = <<4>> \o (Field(p) \o <<Flag(x)>>)
      BY <1>3, <3>1, <3>2, TextForms, RecordForms, FieldType, Joined
    <3>4. Take(s, n, 1) = [got |-> <<4>>, at |-> n + 1] /\ Reads(s, n + 1, Field(p) \o <<Flag(x)>>)
      BY <2>0, <2>1, <3>3, Zenon
    <3>5. TakeOp(s, n) = TakeFlip(s, n + 1)
      BY <3>4, TagDecides
    <3>6. Took(TakeOp(s, n), s, n + 1, Field(p) \o <<Flag(x)>>, op)
      BY <1>1, <3>1, <3>3, <3>4, <3>5, FlipIsRead
    <3> QED BY <2>0, <2>1, <3>3, <3>6, Zenon
  <2> QED BY <2>2, <2>3, <2>4, <2>5, OpForms
<1> QED BY <1>2, <1>3

-----------------------------------------------------------------------------
(* The recursive functions of the format, unfolded.                          *)

Words == Seq(Nat)
RawOp == OpOver(Words)

LEMMA RecordsSteps ==
  ASSUME NEW set \in Seq(RawOp)
  PROVE  /\ Len(set) \in Nat /\ DOMAIN set = 1 .. Len(set)
         /\ \A n \in 1 .. Len(set) : set[n] \in RawOp
         /\ \A n \in 0 .. Len(set) :
              Records(set)[n] \in Words /\ Len(Records(set)[n]) \in Nat /\ Len(Records(set)[n]) >= n
         /\ Records(set)[0] = <<>>
         /\ \A n \in 1 .. Len(set) : Records(set)[n] = Records(set)[n - 1] \o Record(set[n])
<1> DEFINE N == Len(set)
           Step(n, x) == IF n \in 1 .. N THEN x \o Record(set[n]) ELSE x
           G == [n \in Nat |-> [x \in Words |-> Step(n, x)]]
<1>1. N \in Nat /\ DOMAIN set = 1 .. N /\ \A n \in 1 .. N : set[n] \in RawOp
  OBVIOUS
<1>2. ASSUME NEW n \in 1 .. N
      PROVE  Record(set[n]) \in Words /\ Len(Record(set[n])) \in Nat \ {0}
  <2>1. set[n] \in RawOp
    BY <1>1
  <2> QED BY <2>1, RecordType DEF RawOp, Words
<1>3. ASSUME NEW n \in Nat, NEW x \in Words PROVE Step(n, x) \in Words
  <2>1. CASE n \in 1 .. N
    <3>1. Record(set[n]) \in Words
      BY <1>2, <2>1
    <3>2. x \o Record(set[n]) \in Words
      BY <3>1, Joined DEF Words
    <3> QED BY <2>1, <3>2
  <2>2. CASE n \notin 1 .. N
    BY <2>2
  <2> QED BY <2>1, <2>2
<1> HIDE DEF N, Step
<1>g. G \in [Nat -> [Words -> Words]]
  BY <1>3
<1>4. \A n \in Nat, x \in Words : G[n][x] = Step(n, x)
  OBVIOUS
<1>e. <<>> \in Words
  BY DEF Words
<1> HIDE DEF G
<1>5. PICK f \in [Nat -> Words] : Made(f, <<>>, G, N)
  BY <1>1, <1>e, <1>g, Iterates
<1>6. f[0] = <<>> /\ \A n \in 1 .. N : f[n] = f[n - 1] \o Record(set[n])
  <2>1. ASSUME NEW n \in 1 .. N PROVE f[n] = f[n - 1] \o Record(set[n])
    <3>1. n - 1 \in Nat /\ n - 1 < N /\ (n - 1) + 1 = n /\ n \in Nat
      BY <1>1
    <3>2. f[n] = G[n][f[n - 1]] /\ f[n - 1] \in Words
      BY <1>5, <3>1 DEF Made
    <3> QED BY <1>4, <3>1, <3>2 DEF Step
  <2> QED BY <1>5, <2>1 DEF Made
<1> DEFINE P(h) == h = [n \in 0 .. N |-> IF n = 0 THEN <<>> ELSE h[n - 1] \o Record(set[n])]
<1>7. \E h : P(h)
  <2>1. PICK h : h = [n \in 0 .. N |-> f[n]]
    OBVIOUS
  <2>2. \A n \in 0 .. N : n # 0 => n - 1 \in 0 .. N /\ n \in 1 .. N
    BY <1>1
  <2>3. \A n \in 0 .. N : h[n] = IF n = 0 THEN <<>> ELSE h[n - 1] \o Record(set[n])
    BY <1>6, <2>1, <2>2
  <2>4. P(h)
    BY <2>1, <2>3
  <2> QED BY <2>4
<1>8. Records(set) = CHOOSE h : P(h)
  BY DEF Records, N
<1>9. P(Records(set))
  BY <1>7, <1>8
<1>10. PICK h : h = Records(set)
  OBVIOUS
<1>11. h[0] = <<>> /\ \A n \in 1 .. N : h[n] = h[n - 1] \o Record(set[n])
  BY <1>1, <1>9, <1>10
<1>12. \A n \in 0 .. N : h[n] \in Words /\ Len(h[n]) \in Nat /\ Len(h[n]) >= n
  <2> DEFINE S == {n \in Nat : n <= N => h[n] \in Words /\ Len(h[n]) \in Nat /\ Len(h[n]) >= n}
  <2>1. 0 \in S
    <3>1. h[0] \in Words /\ Len(h[0]) = 0
      BY <1>11, <1>e
    <3> QED BY <3>1
  <2>2. ASSUME NEW k \in Nat, k < N, k \in S PROVE k + 1 \in S
    <3>1. k + 1 \in 1 .. N /\ (k + 1) - 1 = k /\ k + 1 \in Nat
      BY <1>1, <2>2
    <3>2. h[k + 1] = h[k] \o Record(set[k + 1])
      BY <1>11, <3>1
    <3>3. /\ h[k] \in Words /\ Len(h[k]) \in Nat /\ Len(h[k]) >= k
          /\ Record(set[k + 1]) \in Words /\ Len(Record(set[k + 1])) \in Nat \ {0}
      BY <1>1, <1>2, <2>2, <3>1
    <3>4. h[k + 1] \in Words /\ Len(h[k + 1]) = Len(h[k]) + Len(Record(set[k + 1]))
      BY <3>2, <3>3, Joined DEF Words
    <3>5. Len(h[k + 1]) \in Nat /\ Len(h[k + 1]) >= k + 1
      <4>1. \A a \in Nat, b \in Nat \ {0} : a >= k => a + b \in Nat /\ a + b >= k + 1
        OBVIOUS
      <4> QED BY <3>3, <3>4, <4>1
    <3> QED BY <3>1, <3>4, <3>5
  <2>3. \A n \in 0 .. N : n \in S
    <3> HIDE DEF S
    <3> QED BY <1>1, <2>1, <2>2, UpTo
  <2> QED BY <1>1, <2>3
<1> QED BY <1>1, <1>10, <1>11, <1>12 DEF N

\* The records of the ops two sets begin with are the same.
LEMMA RecordsPrefix ==
  ASSUME NEW set \in Seq(RawOp), NEW other \in Seq(RawOp), NEW k \in Nat,
         k <= Len(set), k <= Len(other), \A n \in 1 .. k : set[n] = other[n]
  PROVE  Records(set)[k] = Records(other)[k]
<1> DEFINE S == {n \in Nat : n <= k => Records(set)[n] = Records(other)[n]}
<1>0. Len(set) \in Nat /\ Len(other) \in Nat
  OBVIOUS
<1>1. 0 \in S
  BY RecordsSteps
<1>2. ASSUME NEW n \in Nat, n < k, n \in S PROVE n + 1 \in S
  <2>1. /\ n + 1 \in 1 .. k /\ n + 1 \in 1 .. Len(set) /\ n + 1 \in 1 .. Len(other)
        /\ (n + 1) - 1 = n /\ n + 1 \in Nat
    BY <1>0, <1>2
  <2>2. Records(set)[n + 1] = Records(set)[n] \o Record(set[n + 1])
    BY <2>1, RecordsSteps
  <2>3. Records(other)[n + 1] = Records(other)[n] \o Record(other[n + 1])
    BY <2>1, RecordsSteps
  <2>4. set[n + 1] = other[n + 1] /\ Records(set)[n] = Records(other)[n]
    BY <1>2, <2>1
  <2> QED BY <2>1, <2>2, <2>3, <2>4
<1>3. \A n \in 0 .. k : n \in S
  <2> HIDE DEF S
  <2> QED BY <1>1, <1>2, UpTo
<1>4. k \in S
  BY <1>3
<1> QED BY <1>4

\* The sum goes from symbol to symbol.
LEMMA HashSteps ==
  ASSUME NEW s \in Seq(Symbol)
  PROVE  /\ \A n \in 0 .. Len(s) : Hash(s)[n] \in Symbol
         /\ Hash(s)[0] = 5 % Limit
         /\ \A n \in 1 .. Len(s) : Hash(s)[n] = (BitXor(Hash(s)[n - 1], s[n]) * 3) % Limit
<1> DEFINE N == Len(s)
           Step(n, x) == IF n \in 1 .. N THEN (BitXor(x, s[n]) * 3) % Limit ELSE x
           G == [n \in Nat |-> [x \in Symbol |-> Step(n, x)]]
<1>1. N \in Nat /\ \A n \in 1 .. N : s[n] \in Symbol
  OBVIOUS
<1>2. \A v \in Nat : v % Limit \in Symbol
  BY SymbolAssumption DEF Symbol
<1>3. ASSUME NEW x \in Symbol, NEW v \in Symbol
      PROVE  (BitXor(x, v) * 3) % Limit \in Symbol
  <2>1. BitXor(x, v) \in Symbol
    BY XorAssumption
  <2>2. BitXor(x, v) * 3 \in Nat
    BY <2>1 DEF Symbol
  <2> QED BY <1>2, <2>2
<1>4. ASSUME NEW n \in Nat, NEW x \in Symbol PROVE Step(n, x) \in Symbol
  <2>1. CASE n \in 1 .. N
    <3>1. s[n] \in Symbol
      BY <1>1, <2>1
    <3> QED BY <1>3, <2>1, <3>1
  <2>2. CASE n \notin 1 .. N
    BY <2>2
  <2> QED BY <2>1, <2>2
<1>b. 5 % Limit \in Symbol
  BY <1>2
<1> HIDE DEF N, Step
<1>g. G \in [Nat -> [Symbol -> Symbol]]
  BY <1>4
<1>5. \A n \in Nat, x \in Symbol : G[n][x] = Step(n, x)
  OBVIOUS
<1> HIDE DEF G
<1>6. PICK f \in [Nat -> Symbol] : Made(f, 5 % Limit, G, N)
  BY <1>1, <1>b, <1>g, Iterates
<1>7. f[0] = 5 % Limit /\ \A n \in 1 .. N : f[n] = (BitXor(f[n - 1], s[n]) * 3) % Limit
  <2>1. ASSUME NEW n \in 1 .. N PROVE f[n] = (BitXor(f[n - 1], s[n]) * 3) % Limit
    <3>1. n - 1 \in Nat /\ n - 1 < N /\ (n - 1) + 1 = n /\ n \in Nat
      BY <1>1
    <3>2. f[n] = G[n][f[n - 1]] /\ f[n - 1] \in Symbol
      BY <1>6, <3>1 DEF Made
    <3> QED BY <1>5, <3>1, <3>2 DEF Step
  <2> QED BY <1>6, <2>1 DEF Made
<1> DEFINE P(h) == h = [n \in 0 .. N |->
                          IF n = 0 THEN 5 % Limit ELSE (BitXor(h[n - 1], s[n]) * 3) % Limit]
<1>8. \E h : P(h)
  <2>1. PICK h : h = [n \in 0 .. N |-> f[n]]
    OBVIOUS
  <2>2. \A n \in 0 .. N : n # 0 => n - 1 \in 0 .. N /\ n \in 1 .. N
    BY <1>1
  <2>3. \A n \in 0 .. N : h[n] = IF n = 0 THEN 5 % Limit ELSE (BitXor(h[n - 1], s[n]) * 3) % Limit
    BY <1>7, <2>1, <2>2
  <2>4. P(h)
    BY <2>1, <2>3
  <2> QED BY <2>4
<1>9. Hash(s) = CHOOSE h : P(h)
  BY DEF Hash, N
<1>10. P(Hash(s))
  BY <1>8, <1>9
<1>11. PICK h : h = Hash(s)
  OBVIOUS
<1>12. h[0] = 5 % Limit /\ \A n \in 1 .. N : h[n] = (BitXor(h[n - 1], s[n]) * 3) % Limit
  BY <1>1, <1>10, <1>11
<1>13. \A n \in 0 .. N : h[n] \in Symbol
  <2> DEFINE S == {n \in Nat : n <= N => h[n] \in Symbol}
  <2>1. 0 \in S
    BY <1>12, <1>b
  <2>2. ASSUME NEW k \in Nat, k < N, k \in S PROVE k + 1 \in S
    <3>1. k + 1 \in 1 .. N /\ (k + 1) - 1 = k /\ k + 1 \in Nat
      BY <1>1, <2>2
    <3>2. h[k + 1] = (BitXor(h[k], s[k + 1]) * 3) % Limit
      BY <1>12, <3>1
    <3>3. h[k] \in Symbol /\ s[k + 1] \in Symbol
      BY <1>1, <2>2, <3>1
    <3> QED BY <1>3, <3>1, <3>2, <3>3
  <2>3. \A n \in 0 .. N : n \in S
    <3> HIDE DEF S
    <3> QED BY <1>1, <2>1, <2>2, UpTo
  <2> QED BY <1>1, <2>3
<1> QED BY <1>1, <1>11, <1>12, <1>13 DEF N

LEMMA FnvType ==
  ASSUME NEW s \in Seq(Symbol)
  PROVE  Fnv(s) \in Symbol
<1>1. Len(s) \in 0 .. Len(s)
  OBVIOUS
<1> QED BY <1>1, HashSteps DEF Fnv

\* A step of the sum tells apart what is in it and what comes to it.
LEMMA HashTells ==
  ASSUME NEW a \in Symbol, NEW b \in Symbol, NEW v \in Symbol, NEW w \in Symbol,
         (BitXor(a, v) * 3) % Limit = (BitXor(b, w) * 3) % Limit
  PROVE  (v = w => a = b) /\ (a = b => v = w)
<1>1. BitXor(a, v) \in Symbol /\ BitXor(b, w) \in Symbol
  BY XorAssumption
<1>2. BitXor(a, v) = BitXor(b, w)
  BY <1>1, PrimeAssumption
<1>3. /\ BitXor(BitXor(a, v), v) = a /\ BitXor(BitXor(b, w), w) = b
      /\ BitXor(BitXor(v, a), a) = v /\ BitXor(BitXor(w, b), b) = w
      /\ BitXor(a, v) = BitXor(v, a) /\ BitXor(b, w) = BitXor(w, b)
  BY XorAssumption
<1> QED BY <1>2, <1>3

\* Two texts that differ in one symbol differ in their sums.
LEMMA OneSymbol ==
  ASSUME NEW s \in Seq(Symbol), NEW j \in DOMAIN s, NEW v \in Symbol, v # s[j]
  PROVE  Fnv([s EXCEPT ![j] = v]) # Fnv(s)
<1> DEFINE N == Len(s)
<1>1. PICK t : t = [s EXCEPT ![j] = v]
  OBVIOUS
<1>2. N \in Nat /\ DOMAIN s = 1 .. N /\ j \in 1 .. N /\ \A n \in 1 .. N : s[n] \in Symbol
  OBVIOUS
<1>3. t \in Seq(Symbol) /\ Len(t) = N /\ t[j] = v /\ \A n \in 1 .. N : n # j => t[n] = s[n]
  BY <1>1, <1>2
<1> HIDE DEF N
<1>4. ASSUME NEW n \in 1 .. N
      PROVE  /\ Hash(s)[n] = (BitXor(Hash(s)[n - 1], s[n]) * 3) % Limit
             /\ Hash(t)[n] = (BitXor(Hash(t)[n - 1], t[n]) * 3) % Limit
             /\ Hash(s)[n - 1] \in Symbol /\ Hash(t)[n - 1] \in Symbol
             /\ s[n] \in Symbol /\ t[n] \in Symbol
  <2>1. n - 1 \in 0 .. N
    BY <1>2
  <2>2. s[n] \in Symbol /\ t[n] \in Symbol
    BY <1>2, <1>3
  <2>3. /\ Hash(s)[n] = (BitXor(Hash(s)[n - 1], s[n]) * 3) % Limit
        /\ Hash(s)[n - 1] \in Symbol
    BY <2>1, HashSteps DEF N
  <2>4. /\ Hash(t)[n] = (BitXor(Hash(t)[n - 1], t[n]) * 3) % Limit
        /\ Hash(t)[n - 1] \in Symbol
    BY <1>3, <2>1, HashSteps
  <2> QED BY <2>2, <2>3, <2>4
<1> DEFINE S == {n \in Nat : n <= N => (n < j => Hash(t)[n] = Hash(s)[n])
                                       /\ (n >= j => Hash(t)[n] # Hash(s)[n])}
<1>5. 0 \in S
  <2>1. Hash(t)[0] = Hash(s)[0]
    BY <1>3, HashSteps
  <2> QED BY <1>2, <2>1
<1>6. ASSUME NEW k \in Nat, k < N, k \in S PROVE k + 1 \in S
  <2>1. k + 1 \in 1 .. N /\ (k + 1) - 1 = k /\ k + 1 \in Nat
    BY <1>2, <1>6
  <2>2. /\ Hash(s)[k + 1] = (BitXor(Hash(s)[k], s[k + 1]) * 3) % Limit
        /\ Hash(t)[k + 1] = (BitXor(Hash(t)[k], t[k + 1]) * 3) % Limit
        /\ Hash(s)[k] \in Symbol /\ Hash(t)[k] \in Symbol
        /\ s[k + 1] \in Symbol /\ t[k + 1] \in Symbol
    BY <1>4, <2>1
  <2>3. CASE k + 1 < j
    <3>1. t[k + 1] = s[k + 1] /\ Hash(t)[k] = Hash(s)[k] /\ ~(k + 1 >= j)
      BY <1>2, <1>3, <1>6, <2>1, <2>3
    <3> QED BY <2>1, <2>2, <3>1
  <2>4. CASE k + 1 = j
    <3>1. t[k + 1] # s[k + 1] /\ Hash(t)[k] = Hash(s)[k]
      BY <1>2, <1>3, <1>6, <2>1, <2>4
    <3>2. Hash(t)[k + 1] # Hash(s)[k + 1]
      BY <2>2, <3>1, HashTells
    <3> QED BY <2>1, <2>4, <3>2
  <2>5. CASE k + 1 > j
    <3>1. t[k + 1] = s[k + 1] /\ Hash(t)[k] # Hash(s)[k] /\ ~(k + 1 < j)
      BY <1>2, <1>3, <1>6, <2>1, <2>5
    <3>2. Hash(t)[k + 1] # Hash(s)[k + 1]
      BY <2>2, <3>1, HashTells
    <3> QED BY <2>1, <3>1, <3>2
  <2> QED BY <1>2, <2>1, <2>3, <2>4, <2>5
<1>7. \A n \in 0 .. N : n \in S
  <2> HIDE DEF S
  <2> QED BY <1>2, <1>5, <1>6, UpTo
<1>8. Hash(t)[N] # Hash(s)[N]
  BY <1>2, <1>7
<1> QED BY <1>1, <1>3, <1>8 DEF Fnv, N

-----------------------------------------------------------------------------
(* What a journal is made of.                                                *)

LEMMA SymbolsAreNumbers ==
  /\ Symbol \subseteq Nat /\ 0 .. 5 \subseteq Symbol
  /\ Seq(Symbol) \subseteq Words
<1>1. Symbol \subseteq Nat /\ 0 .. 5 \subseteq Symbol
  BY SymbolAssumption DEF Symbol
<1>2. ASSUME NEW s \in Seq(Symbol) PROVE s \in Seq(Nat)
  <2>1. Len(s) \in Nat /\ s \in [1 .. Len(s) -> Symbol]
    OBVIOUS
  <2>2. s \in [1 .. Len(s) -> Nat]
    BY <1>1, <2>1
  <2> QED BY <2>1, <2>2
<1> QED BY <1>1, <1>2 DEF Words

LEMMA OpsAreRaw ==
  /\ OpOver(Line) \subseteq RawOp
  /\ \A set \in Journals :
       set \in Seq(RawOp) /\ Len(set) \in Symbol /\ \A n \in 1 .. Len(set) : set[n] \in OpOver(Line)
<1>1. Line \subseteq Words
  BY SymbolsAreNumbers DEF Line
<1>2. OpOver(Line) \subseteq RawOp
  BY <1>1 DEF OpOver, RawOp
<1>3. ASSUME NEW set \in Journals
      PROVE  set \in Seq(RawOp) /\ Len(set) \in Symbol /\ \A n \in 1 .. Len(set) : set[n] \in OpOver(Line)
  <2>1. set \in Seq(OpOver(Line)) /\ Len(set) < Limit
    BY JournalAssumption
  <2>2. Len(set) \in Nat /\ set \in [1 .. Len(set) -> OpOver(Line)]
    BY <2>1
  <2>3. set \in [1 .. Len(set) -> RawOp]
    BY <1>2, <2>2
  <2>4. set \in Seq(RawOp)
    BY <2>2, <2>3
  <2>5. Len(set) \in Symbol
    BY <2>1, <2>2, SymbolAssumption DEF Symbol
  <2> QED BY <2>2, <2>4, <2>5
<1> QED BY <1>2, <1>3

\* A record is written in symbols, its lengths too.
LEMMA RecordSymbols ==
  ASSUME NEW op \in OpOver(Line)
  PROVE  Record(op) \in Seq(Symbol)
<1>1. ASSUME NEW s \in Seq(Symbol), NEW r \in Seq(Symbol) PROVE s \o r \in Seq(Symbol)
  BY ConcatProperties
<1>2. ASSUME NEW r \in Line PROVE r \in Words /\ Field(r) \in Seq(Symbol)
  <2>1. r \in Seq(Symbol) /\ Len(r) \in Symbol
    BY SymbolAssumption DEF Line, Symbol
  <2>2. <<Len(r)>> \in Seq(Symbol)
    BY <2>1
  <2> QED BY <1>1, <2>1, <2>2, SymbolsAreNumbers DEF Field
<1>3. ASSUME NEW v \in 0 .. 5 PROVE <<v>> \in Seq(Symbol)
  BY SymbolsAreNumbers
<1>4. ASSUME NEW tag \in 0 .. 5, NEW p \in Line, NEW r \in Seq(Symbol)
      PROVE  <<tag>> \o (Field(p) \o r) \in Seq(Symbol)
  <2>1. <<tag>> \in Seq(Symbol) /\ Field(p) \in Seq(Symbol)
    BY <1>2, <1>3
  <2>2. Field(p) \o r \in Seq(Symbol)
    BY <1>1, <2>1
  <2> QED BY <1>1, <2>1, <2>2
<1>0. {0, 2, 4} \subseteq 0 .. 5 /\ {1, 3, 5} \subseteq 0 .. 5 /\ <<>> \in Seq(Symbol)
  OBVIOUS
<1>5. CASE \E p \in Line, b \in Line : op = Write(p, b)
  <2>1. PICK p \in Line, b \in Line : op = Write(p, b)
    BY <1>5
  <2>2. Record(op) = <<0>> \o (Field(p) \o Field(b))
    BY <1>2, <2>1, RecordForms DEF Words
  <2>3. Field(b) \in Seq(Symbol)
    BY <1>2
  <2> QED BY <1>0, <1>4, <2>2, <2>3, Zenon
<1>6. CASE \E p \in Line, q \in Line : op \in {Rename(p, q), CopyFrom(p, q), SetLink(p, q)}
  <2>1. PICK p \in Line, q \in Line, tag \in {1, 3, 5} : op = TwoPaths(tag, p, q)
    BY <1>6 DEF TwoPaths
  <2>2. Record(op) = <<tag>> \o (Field(p) \o Field(q))
    BY <1>2, <2>1, RecordForms DEF Words
  <2>3. Field(q) \in Seq(Symbol)
    BY <1>2
  <2> QED BY <1>0, <1>4, <2>2, <2>3, Zenon
<1>7. CASE \E p \in Line : op = Remove(p)
  <2>1. PICK p \in Line : op = Remove(p)
    BY <1>7
  <2>2. Record(op) = <<2>> \o (Field(p) \o <<>>)
    BY <1>2, <2>1, RecordForms DEF Words
  <2> QED BY <1>0, <1>4, <2>2, Zenon
<1>8. CASE \E p \in Line, x \in BOOLEAN : op = SetExecutable(p, x)
  <2>1. PICK p \in Line, x \in BOOLEAN : op = SetExecutable(p, x)
    BY <1>8
  <2>2. Record(op) = <<4>> \o (Field(p) \o <<Flag(x)>>)
    BY <1>2, <2>1, RecordForms DEF Words
  <2>3. Flag(x) \in 0 .. 5
    BY DEF Flag
  <2>4. <<Flag(x)>> \in Seq(Symbol)
    BY <1>3, <2>3
  <2> QED BY <1>0, <1>4, <2>2, <2>4, Zenon
<1> QED BY <1>5, <1>6, <1>7, <1>8, OpForms

LEMMA RecordsSymbols ==
  ASSUME NEW set \in Journals
  PROVE  Records(set)[Len(set)] \in Seq(Symbol)
<1>1. set \in Seq(RawOp) /\ Len(set) \in Nat
  BY OpsAreRaw
<1> DEFINE S == {n \in Nat : n <= Len(set) => Records(set)[n] \in Seq(Symbol)}
<1>2. 0 \in S
  <2>1. Records(set)[0] = <<>>
    BY <1>1, RecordsSteps
  <2>2. <<>> \in Seq(Symbol)
    OBVIOUS
  <2> QED BY <2>1, <2>2
<1>3. ASSUME NEW k \in Nat, k < Len(set), k \in S PROVE k + 1 \in S
  <2>1. k + 1 \in 1 .. Len(set) /\ (k + 1) - 1 = k /\ k + 1 \in Nat
    BY <1>1, <1>3
  <2>2. Records(set)[k + 1] = Records(set)[k] \o Record(set[k + 1])
    BY <1>1, <2>1, RecordsSteps
  <2>3. set[k + 1] \in OpOver(Line)
    BY <2>1, OpsAreRaw
  <2>4. Record(set[k + 1]) \in Seq(Symbol)
    BY <2>3, RecordSymbols
  <2>5. Records(set)[k] \in Seq(Symbol)
    BY <1>1, <1>3
  <2> QED BY <2>1, <2>2, <2>4, <2>5, ConcatProperties
<1>4. \A n \in 0 .. Len(set) : n \in S
  <2> HIDE DEF S
  <2> QED BY <1>1, <1>2, <1>3, UpTo
<1>5. Len(set) \in S
  BY <1>1, <1>4
<1> QED BY <1>1, <1>5

\* A stamp, a count and what follows them.
LEMMA Assembled ==
  ASSUME NEW x \in Nat, NEW y \in Nat, NEW r \in Words
  PROVE  /\ <<x, y>> \o r \in Words /\ Len(<<x, y>> \o r) = 2 + Len(r)
         /\ (<<x, y>> \o r)[1] = x /\ (<<x, y>> \o r)[2] = y
         /\ \A j \in 1 .. Len(r) : (<<x, y>> \o r)[2 + j] = r[j]
         /\ Reads(<<x, y>> \o r, 2, r)
<1>1. PICK h \in Words : h = <<x, y>> /\ Len(h) = 2 /\ h[1] = x /\ h[2] = y
  <2>1. <<x, y>> \in Seq(Nat) /\ Len(<<x, y>>) = 2 /\ <<x, y>>[1] = x /\ <<x, y>>[2] = y
    OBVIOUS
  <2> QED BY <2>1 DEF Words
<1>2. /\ h \o r \in Words /\ Len(h \o r) = Len(h) + Len(r)
      /\ \A j \in 1 .. Len(h) : (h \o r)[j] = h[j]
      /\ \A j \in 1 .. Len(r) : (h \o r)[Len(h) + j] = r[j]
  BY Joined DEF Words
<1>3. 1 \in 1 .. 2 /\ 2 \in 1 .. 2 /\ Len(r) \in Nat
  BY DEF Words
<1>4. PICK b : b = h \o r
  OBVIOUS
<1>5. Len(b) = 2 + Len(r) /\ \A j \in 1 .. Len(r) : b[2 + j] = r[j]
  BY <1>1, <1>2, <1>4
<1>6. Reads(b, 2, r)
  BY <1>3, <1>5 DEF Reads
<1> QED BY <1>1, <1>2, <1>3, <1>4, <1>5, <1>6

\* Nothing else reads so.
LEMMA TakenApart ==
  ASSUME NEW x \in Nat, NEW y \in Nat, NEW r \in Words, NEW s \in Words,
         s[1] = x, s[2] = y, Len(s) = 2 + Len(r), Reads(s, 2, r)
  PROVE  s = <<x, y>> \o r
<1>1. Len(r) \in Nat /\ \A j \in 1 .. Len(r) : s[2 + j] = r[j]
  BY DEF Reads, Words
<1>2. PICK b \in Words : b = <<x, y>> \o r
  BY Assembled
<1>3. /\ Len(b) = Len(s) /\ b[1] = x /\ b[2] = y
      /\ \A j \in 1 .. Len(r) : b[2 + j] = r[j]
  BY <1>2, Assembled
<1>4. ASSUME NEW j \in 1 .. 2 + Len(r) PROVE s[j] = b[j]
  <2>1. CASE j \in {1, 2}
    BY <1>3, <2>1
  <2>2. CASE j \notin {1, 2}
    <3>1. j - 2 \in 1 .. Len(r) /\ 2 + (j - 2) = j
      BY <1>1, <2>2
    <3> QED BY <1>1, <1>3, <3>1
  <2> QED BY <2>1, <2>2
<1>5. \A j \in 1 .. Len(s) : s[j] = b[j]
  BY <1>4
<1> QED BY <1>2, <1>3, <1>5, SeqEqual DEF Words

LEMMA Restamped ==
  ASSUME NEW x \in Nat, NEW y \in Nat, NEW z \in Nat, NEW r \in Words,
         NEW b \in Words, b = <<x, y>> \o r,
         NEW s \in Words, Len(s) = Len(b),
         \A j \in 1 .. Len(b) : s[j] = IF j = 1 THEN z ELSE b[j]
  PROVE  s = <<z, y>> \o r
<1>1. Len(b) = 2 + Len(r) /\ b[2] = y /\ Len(r) \in Nat /\ \A j \in 1 .. Len(r) : b[2 + j] = r[j]
  BY Assembled DEF Words
<1>2. 1 \in 1 .. Len(b) /\ 2 \in 1 .. Len(b) /\ \A j \in 1 .. Len(r) : 2 + j \in 1 .. Len(b) /\ 2 + j # 1
  BY <1>1
<1>3. s[1] = z /\ s[2] = y
  BY <1>1, <1>2
<1>4. \A j \in 1 .. Len(r) : s[2 + j] = r[j]
  BY <1>1, <1>2
<1>5. Reads(s, 2, r)
  BY <1>1, <1>4 DEF Reads
<1>6. Len(s) = 2 + Len(r)
  BY <1>1
<1> QED BY <1>3, <1>5, <1>6, TakenApart

\* A sum behind a body.
LEMMA SealedForm ==
  ASSUME NEW b \in Seq(Symbol)
  PROVE  /\ Sealed(b) \in Seq(Symbol) /\ Len(Sealed(b)) = Len(b) + 1
         /\ BodyOf(Sealed(b)) = b
         /\ Sealed(b)[Len(b) + 1] = Fnv(b)
         /\ \A j \in 1 .. Len(b) : Sealed(b)[j] = b[j]
<1>1. Fnv(b) \in Symbol
  BY FnvType
<1>2. PICK s : s = Append(b, Fnv(b))
  OBVIOUS
<1>3. /\ s \in Seq(Symbol) /\ Len(s) = Len(b) + 1 /\ Len(b) \in Nat
      /\ s[Len(b) + 1] = Fnv(b)
      /\ \A j \in 1 .. Len(b) : s[j] = b[j]
  BY <1>1, <1>2, AppendProperties
<1>4. SubSeq(s, 1, Len(s) - 1) = b
  BY <1>2, <1>3
<1> QED BY <1>2, <1>3, <1>4 DEF Sealed, BodyOf

\* A file is what it holds before its last symbol, and that.
LEMMA BodyForm ==
  ASSUME NEW s \in Seq(Symbol), Len(s) >= 1
  PROVE  /\ BodyOf(s) \in Seq(Symbol) /\ Len(BodyOf(s)) = Len(s) - 1
         /\ \A j \in 1 .. Len(s) - 1 : BodyOf(s)[j] = s[j]
         /\ s = Append(BodyOf(s), s[Len(s)])
<1>1. Len(s) \in Nat /\ Len(s) - 1 \in Nat /\ \A j \in 1 .. Len(s) : s[j] \in Symbol
  OBVIOUS
<1>2. PICK b : b = SubSeq(s, 1, Len(s) - 1)
  OBVIOUS
<1>3. b \in Seq(Symbol) /\ Len(b) = Len(s) - 1 /\ \A j \in 1 .. Len(s) - 1 : b[j] = s[j]
  <2>1. \A i \in 1 .. Len(s) - 1 : s[i] \in Symbol
    BY <1>1
  <2>2. /\ b \in Seq(Symbol)
        /\ Len(b) = IF 1 <= Len(s) - 1 THEN (Len(s) - 1) - 1 + 1 ELSE 0
        /\ \A j \in 1 .. (Len(s) - 1) - 1 + 1 : b[j] = s[1 + j - 1]
    BY <1>1, <1>2, <2>1, SubSeqProperties
  <2>3. (Len(s) - 1) - 1 + 1 = Len(s) - 1 /\ \A j \in 1 .. Len(s) - 1 : 1 + j - 1 = j
    BY <1>1
  <2>4. Len(b) = Len(s) - 1
    <3>1. \A l \in Nat : l >= 1 => (IF 1 <= l - 1 THEN (l - 1) - 1 + 1 ELSE 0) = l - 1
      OBVIOUS
    <3> QED BY <1>1, <2>2, <3>1
  <2> QED BY <2>2, <2>3, <2>4
<1>4. PICK t : t = Append(b, s[Len(s)])
  OBVIOUS
<1>5. s[Len(s)] \in Symbol
  BY <1>1
<1>6. /\ t \in Seq(Symbol) /\ Len(t) = Len(b) + 1 /\ t[Len(b) + 1] = s[Len(s)]
      /\ \A j \in 1 .. Len(b) : t[j] = b[j]
  BY <1>3, <1>4, <1>5, AppendProperties
<1>7. Len(t) = Len(s) /\ \A j \in 1 .. Len(s) : s[j] = t[j]
  <2>1. ASSUME NEW j \in 1 .. Len(s) PROVE s[j] = t[j]
    <3>1. CASE j = Len(s)
      BY <1>1, <1>3, <1>6, <3>1
    <3>2. CASE j # Len(s)
      <4>1. j \in 1 .. Len(s) - 1 /\ j \in 1 .. Len(b)
        BY <1>1, <1>3, <3>2
      <4> QED BY <1>3, <1>6, <4>1
    <3> QED BY <3>1, <3>2
  <2> QED BY <1>1, <1>3, <1>6, <2>1
<1>8. s = t
  BY <1>6, <1>7, SeqEqual
<1> QED BY <1>2, <1>3, <1>4, <1>8 DEF BodyOf

\* The body of a set that is journaled, under a stamp.
BodyUnder(x, set) == <<x, Len(set)>> \o Records(set)[Len(set)]

LEMMA JournalBody ==
  ASSUME NEW set \in Journals
  PROVE  /\ Body(set) \in Seq(Symbol) /\ Len(Body(set)) >= 2
         /\ Body(set) = BodyUnder(Stamp, set)
         /\ \A x \in Symbol :
              [Body(set) EXCEPT ![1] = x] = BodyUnder(x, set) /\ BodyUnder(x, set) \in Seq(Symbol)
<1>1. /\ Records(set)[Len(set)] \in Seq(Symbol) /\ Len(set) \in Symbol /\ Stamp \in Symbol
      /\ Symbol \subseteq Nat
  BY RecordsSymbols, OpsAreRaw, SymbolAssumption, SymbolsAreNumbers
<1>2. PICK r \in Seq(Symbol) : r = Records(set)[Len(set)]
  BY <1>1
<1>3. r \in Words /\ Len(r) \in Nat
  BY <1>2, SymbolsAreNumbers
<1>4. PICK n \in Symbol : n = Len(set)
  BY <1>1
<1>5. ASSUME NEW x \in Symbol
      PROVE  <<x, n>> \o r \in Seq(Symbol) /\ Len(<<x, n>> \o r) >= 2
  <2>1. PICK h \in Seq(Symbol) : h = <<x, n>> /\ Len(h) = 2
    <3>1. <<x, n>> \in Seq(Symbol) /\ Len(<<x, n>>) = 2
      OBVIOUS
    <3> QED BY <3>1
  <2>2. h \o r \in Seq(Symbol) /\ Len(h \o r) = Len(h) + Len(r)
    BY ConcatProperties
  <2>3. Len(h \o r) >= 2
    BY <1>3, <2>1, <2>2
  <2> QED BY <2>1, <2>2, <2>3
<1>6. ASSUME NEW x \in Symbol, NEW b \in Words, b = <<Stamp, n>> \o r
      PROVE  [b EXCEPT ![1] = x] = <<x, n>> \o r
  <2>1. Stamp \in Nat /\ n \in Nat /\ x \in Nat
    BY <1>1
  <2>2. PICK s : s = [b EXCEPT ![1] = x]
    OBVIOUS
  <2>3. Len(b) \in Nat /\ b \in [1 .. Len(b) -> Nat]
    BY DEF Words
  <2>4. s \in [1 .. Len(b) -> Nat] /\ \A j \in 1 .. Len(b) : s[j] = IF j = 1 THEN x ELSE b[j]
    BY <2>1, <2>2, <2>3
  <2>5. s \in Words /\ Len(s) = Len(b)
    BY <2>3, <2>4 DEF Words
  <2>6. s = <<x, n>> \o r
    BY <1>3, <1>6, <2>1, <2>4, <2>5, Restamped
  <2> QED BY <2>2, <2>6
<1>7. Body(set) = <<Stamp, n>> \o r
  BY <1>2, <1>4 DEF Body
<1>8. \A x : BodyUnder(x, set) = <<x, n>> \o r
  BY <1>2, <1>4 DEF BodyUnder
<1>9. Body(set) \in Words
  BY <1>1, <1>5, <1>7, SymbolsAreNumbers
<1>10. \A x \in Symbol : [Body(set) EXCEPT ![1] = x] = <<x, n>> \o r
  BY <1>6, <1>7, <1>9
<1>11. Body(set) \in Seq(Symbol) /\ Len(Body(set)) >= 2
  BY <1>1, <1>5, <1>7
<1>12. Body(set) = BodyUnder(Stamp, set)
  BY <1>7, <1>8, Zenon
<1>13. \A x \in Symbol :
         [Body(set) EXCEPT ![1] = x] = BodyUnder(x, set) /\ BodyUnder(x, set) \in Seq(Symbol)
  BY <1>5, <1>8, <1>10, Zenon
<1> QED BY <1>11, <1>12, <1>13

\* Whatever became of the file, it is made of symbols.
LEMMA FatesAreSymbols ==
  ASSUME NEW set \in Journals, NEW f \in Rot, NEW s \in Fates(set, f)
  PROVE  /\ s \in Seq(Symbol)
         /\ f \in {"whole", "legacy"} => \E x \in {Stamp, OldStamp} : s = Sealed(BodyUnder(x, set))
         /\ f = "flipped" => s \in Altered(Sealed(Body(set)))
<1> DEFINE b == Body(set)
<1>1. /\ b \in Seq(Symbol) /\ Len(b) >= 2 /\ Sealed(b) \in Seq(Symbol)
      /\ Stamp \in Symbol /\ OldStamp \in Symbol
  BY JournalBody, SealedForm, SymbolAssumption
<1>2. b = BodyUnder(Stamp, set) /\ [b EXCEPT ![1] = OldStamp] = BodyUnder(OldStamp, set)
      /\ BodyUnder(OldStamp, set) \in Seq(Symbol)
  BY <1>1, JournalBody
<1> HIDE DEF b
<1>3. ASSUME NEW t \in Seq(Symbol)
      PROVE  Altered(t) \cup Tails(t) \cup Grown(t) \subseteq Seq(Symbol)
  <2>1. ASSUME NEW j \in DOMAIN t, NEW v \in Symbol PROVE [t EXCEPT ![j] = v] \in Seq(Symbol)
    BY ExceptSeq
  <2>2. ASSUME NEW n \in 0 .. Len(t) - 1 PROVE SubSeq(t, 1, n) \in Seq(Symbol)
    OBVIOUS
  <2>3. ASSUME NEW v \in Symbol PROVE Append(t, v) \in Seq(Symbol)
    OBVIOUS
  <2>4. ASSUME NEW u \in Altered(t) PROVE u \in Seq(Symbol)
    <3>1. PICK j \in DOMAIN t, v \in Symbol : u = [t EXCEPT ![j] = v]
      BY <2>4 DEF Altered
    <3> QED BY <2>1, <3>1
  <2>5. ASSUME NEW u \in Tails(t) PROVE u \in Seq(Symbol)
    <3>1. PICK n \in 0 .. Len(t) - 1 : u = SubSeq(t, 1, n)
      BY <2>5 DEF Tails
    <3> QED BY <2>2, <3>1
  <2>6. ASSUME NEW u \in Grown(t) PROVE u \in Seq(Symbol)
    <3>1. PICK v \in Symbol : u = Append(t, v)
      BY <2>6 DEF Grown
    <3> QED BY <2>3, <3>1
  <2> QED BY <2>4, <2>5, <2>6
<1>4. f \in {"whole", "legacy", "flipped", "cut", "grown", "forged"}
  BY SymbolAssumption
<1>5. CASE f = "whole"
  <2>1. s = Sealed(b)
    BY <1>5 DEF Fates, b
  <2> QED BY <1>1, <1>2, <1>5, <2>1
<1>6. CASE f = "legacy"
  <2>1. s = Sealed([b EXCEPT ![1] = OldStamp])
    BY <1>6 DEF Fates, b
  <2> QED BY <1>2, <1>6, <2>1, SealedForm
<1>7. CASE f = "flipped"
  <2>1. s \in Altered(Sealed(b))
    BY <1>7 DEF Fates, b
  <2> QED BY <1>1, <1>3, <1>7, <2>1 DEF b
<1>8. CASE f = "cut"
  <2>1. s \in Tails(Sealed(b))
    BY <1>8 DEF Fates, b
  <2> QED BY <1>1, <1>3, <1>8, <2>1
<1>9. CASE f = "grown"
  <2>1. s \in Grown(Sealed(b))
    BY <1>9 DEF Fates, b
  <2> QED BY <1>1, <1>3, <1>9, <2>1
<1>10. CASE f = "forged"
  <2>1. PICK t : s = Sealed(t) /\ t \in Altered(b) \cup Tails(b) \cup Grown(b) \cup Crafted
    BY <1>10 DEF Fates, b
  <2>2. t \in Seq(Symbol)
    BY <1>1, <1>3, <2>1, SymbolAssumption
  <2> QED BY <1>10, <2>1, <2>2, SealedForm
<1> QED BY <1>4, <1>5, <1>6, <1>7, <1>8, <1>9, <1>10

\* Where the records of a set stand, each of them stands in its place.
LEMMA RecordsRead ==
  ASSUME NEW s \in Words, NEW set \in Seq(RawOp), Reads(s, 2, Records(set)[Len(set)])
  PROVE  \A n \in 1 .. Len(set) : Reads(s, 2 + Len(Records(set)[n - 1]), Record(set[n]))
<1> DEFINE N == Len(set)
<1>1. N \in Nat
  OBVIOUS
<1>2. ASSUME NEW n \in 1 .. N, Reads(s, 2, Records(set)[n])
      PROVE  Reads(s, 2, Records(set)[n - 1]) /\ Reads(s, 2 + Len(Records(set)[n - 1]), Record(set[n]))
  <2>1. n - 1 \in 0 .. N /\ set[n] \in RawOp
    BY <1>1
  <2>2. Records(set)[n - 1] \in Words /\ Record(set[n]) \in Words
    BY <2>1, RecordsSteps, RecordType DEF RawOp, Words
  <2>3. Records(set)[n] = Records(set)[n - 1] \o Record(set[n])
    BY RecordsSteps
  <2> QED BY <1>2, <2>2, <2>3, ReadsBoth DEF Words
<1> DEFINE S == {m \in Nat : m <= N => Reads(s, 2, Records(set)[N - m])}
<1>3. 0 \in S
  BY <1>1
<1>4. ASSUME NEW k \in Nat, k < N, k \in S PROVE k + 1 \in S
  <2>1. N - k \in 1 .. N /\ (N - k) - 1 = N - (k + 1) /\ k + 1 \in Nat
    BY <1>1, <1>4
  <2>2. Reads(s, 2, Records(set)[N - k])
    BY <1>4
  <2>3. Reads(s, 2, Records(set)[(N - k) - 1])
    BY <1>2, <2>1, <2>2
  <2> QED BY <2>1, <2>3
<1>5. \A m \in 0 .. N : m \in S
  <2> HIDE DEF S, N
  <2> QED BY <1>1, <1>3, <1>4, UpTo
<1>6. ASSUME NEW n \in 1 .. N PROVE Reads(s, 2, Records(set)[n])
  <2>1. N - n \in 0 .. N /\ N - (N - n) = n
    BY <1>1
  <2> QED BY <1>5, <2>1
<1> QED BY <1>2, <1>6

\* One more op read.
LEMMA OneMore ==
  ASSUME NEW s \in Words, NEW set \in Seq(RawOp), NEW op \in RawOp,
         Reads(s, 2, Records(set)[Len(set)]),
         Reads(s, 2 + Len(Records(set)[Len(set)]), Record(op))
  PROVE  LET more == Append(set, op) IN
         /\ more \in Seq(RawOp) /\ Len(more) = Len(set) + 1
         /\ Reads(s, 2, Records(more)[Len(more)])
         /\ Len(Records(more)[Len(more)]) = Len(Records(set)[Len(set)]) + Len(Record(op))
<1>1. PICK more \in Seq(RawOp) : more = Append(set, op)
  <2>1. Append(set, op) \in Seq(RawOp)
    BY AppendProperties
  <2> QED BY <2>1
<1>2. /\ Len(set) \in Nat /\ Len(more) = Len(set) + 1 /\ more[Len(set) + 1] = op
      /\ \A n \in 1 .. Len(set) : more[n] = set[n]
  BY <1>1, AppendProperties
<1>3. Records(more)[Len(set)] = Records(set)[Len(set)]
  <2>1. Len(set) <= Len(more) /\ Len(set) <= Len(set) /\ \A n \in 1 .. Len(set) : set[n] = more[n]
    BY <1>2
  <2> QED BY <1>2, <2>1, RecordsPrefix
<1>4. Records(more)[Len(more)] = Records(set)[Len(set)] \o Record(op)
  <2>1. Len(more) \in 1 .. Len(more) /\ Len(more) - 1 = Len(set) /\ more[Len(more)] = op
    BY <1>2
  <2>2. Records(more)[Len(more)] = Records(more)[Len(more) - 1] \o Record(more[Len(more)])
    BY <2>1, RecordsSteps
  <2> QED BY <1>3, <2>1, <2>2
<1>5. Records(set)[Len(set)] \in Words /\ Record(op) \in Words
  <2>1. Len(set) \in 0 .. Len(set)
    BY <1>2
  <2> QED BY <2>1, RecordsSteps, RecordType DEF RawOp, Words
<1>6. /\ Reads(s, 2, Records(more)[Len(more)])
      /\ Len(Records(more)[Len(more)]) = Len(Records(set)[Len(set)]) + Len(Record(op))
  BY <1>4, <1>5, ReadsBoth, Joined DEF Words
<1> QED BY <1>1, <1>2, <1>6

-----------------------------------------------------------------------------
(* What is true while a file is read.                                        *)

\* The file is what its fate made of it; only the reading goes on.
FileInv ==
  /\ wrote \in Journals /\ Encodable(wrote)
  /\ fate \in Rot /\ raw \in Fates(wrote, fate)

\* What was taken stands, record behind record, where the cursor went.
Kept ==
  /\ taken \in Seq(RawOp)
  /\ \A n \in 1 .. Len(taken) : Texts(taken[n])
  /\ owed \in Nat /\ owed + Len(taken) = raw[2]
  /\ cursor = 2 + Len(Records(taken)[Len(taken)])
  /\ Reads(BodyOf(raw), 2, Records(taken)[Len(taken)])

ReadInv ==
  /\ verdict \in {"header", "reading", "accepted", "refused"}
  /\ verdict = "header" => taken = <<>>
  /\ verdict \in {"reading", "accepted"} => HeaderHolds /\ Kept
  /\ verdict = "accepted" => owed = 0 /\ Ends

\* Of a journal that is whole, what was taken is what the set begins with.
WholeInv ==
  fate \in {"whole", "legacy"} =>
    /\ verdict # "refused"
    /\ verdict \in {"reading", "accepted"} =>
         /\ Len(taken) <= Len(wrote)
         /\ \A n \in 1 .. Len(taken) : taken[n] = wrote[n]

FormatInv == FileInv /\ ReadInv /\ WholeInv

\* The body of a file whose header holds.
LEMMA BodyHeld ==
  ASSUME FileInv, HeaderHolds
  PROVE  /\ raw \in Seq(Symbol) /\ Len(raw) \in Nat /\ Len(raw) >= 3
         /\ BodyOf(raw) \in Words /\ BodyOf(raw) \in Seq(Symbol)
         /\ Len(BodyOf(raw)) = Len(raw) - 1
         /\ BodyOf(raw)[1] = raw[1] /\ BodyOf(raw)[2] = raw[2]
         /\ raw[1] \in Symbol /\ raw[2] \in Nat
<1>1. raw \in Seq(Symbol)
  BY FatesAreSymbols DEF FileInv
<1>2. Len(raw) \in Nat /\ Len(raw) >= 3
  BY <1>1 DEF HeaderHolds, Stamped
<1>3. /\ BodyOf(raw) \in Seq(Symbol) /\ Len(BodyOf(raw)) = Len(raw) - 1
      /\ \A j \in 1 .. Len(raw) - 1 : BodyOf(raw)[j] = raw[j]
  BY <1>1, <1>2, BodyForm
<1>4. 1 \in 1 .. Len(raw) - 1 /\ 2 \in 1 .. Len(raw) - 1 /\ 1 \in 1 .. Len(raw) /\ 2 \in 1 .. Len(raw)
  BY <1>2
<1>5. raw[1] \in Symbol /\ raw[2] \in Symbol
  BY <1>1, <1>4, ElementOfSeq
<1> QED BY <1>1, <1>2, <1>3, <1>4, <1>5, SymbolsAreNumbers

\* The body of a whole journal.
LEMMA BodyWhole ==
  ASSUME FileInv, fate \in {"whole", "legacy"}
  PROVE  /\ HeaderHolds /\ raw[2] = Len(wrote)
         /\ wrote \in Seq(RawOp) /\ Len(wrote) \in Nat
         /\ Len(BodyOf(raw)) = 2 + Len(Records(wrote)[Len(wrote)])
         /\ Reads(BodyOf(raw), 2, Records(wrote)[Len(wrote)])
<1>1. PICK x \in {Stamp, OldStamp} : raw = Sealed(BodyUnder(x, wrote))
  BY FatesAreSymbols DEF FileInv
<1>2. PICK b : b = BodyUnder(x, wrote)
  OBVIOUS
<1>3. x \in Symbol /\ x \in Nat
  BY <1>1, SymbolAssumption, SymbolsAreNumbers
<1>4. b \in Seq(Symbol) /\ b \in Words /\ Len(b) \in Nat
  BY <1>2, <1>3, JournalBody, SymbolsAreNumbers DEF FileInv
<1>5. wrote \in Seq(RawOp) /\ Len(wrote) \in Nat
  BY OpsAreRaw DEF FileInv
<1>6. PICK r : r = Records(wrote)[Len(wrote)]
  OBVIOUS
<1>7. r \in Words /\ Len(r) \in Nat /\ Len(r) >= Len(wrote)
  <2>1. Len(wrote) \in 0 .. Len(wrote)
    BY <1>5
  <2> QED BY <1>5, <1>6, <2>1, RecordsSteps
<1>8. b = <<x, Len(wrote)>> \o r
  BY <1>2, <1>6 DEF BodyUnder
<1>9. Len(b) = 2 + Len(r) /\ b[1] = x /\ b[2] = Len(wrote) /\ Reads(b, 2, r)
  BY <1>3, <1>5, <1>7, <1>8, Assembled
<1>10. /\ raw \in Seq(Symbol) /\ Len(raw) = Len(b) + 1 /\ BodyOf(raw) = b /\ raw[Len(b) + 1] = Fnv(b)
       /\ \A j \in 1 .. Len(b) : raw[j] = b[j]
  BY <1>1, <1>2, <1>4, SealedForm
<1>11. 1 \in 1 .. Len(b) /\ 2 \in 1 .. Len(b)
  BY <1>7, <1>9
<1>12. raw[1] = x /\ raw[2] = Len(wrote)
  BY <1>9, <1>10, <1>11
<1>13. raw[2] <= Len(raw) - 3 /\ Len(raw) >= 3
  BY <1>4, <1>5, <1>7, <1>9, <1>10, <1>12
<1>14. HeaderHolds
  BY <1>1, <1>10, <1>12, <1>13 DEF HeaderHolds, Stamped
<1> QED BY <1>5, <1>6, <1>9, <1>10, <1>12, <1>14

LEMMA FormatInvInit ==
  ASSUME FormatInit
  PROVE  FormatInv
<1>1. FileInv
  BY DEF FormatInit, FileInv
<1>2. ReadInv
  BY DEF FormatInit, ReadInv
<1>3. WholeInv
  BY DEF FormatInit, WholeInv
<1> QED BY <1>1, <1>2, <1>3 DEF FormatInv

\* Nothing has been taken once the header is read.
LEMMA HeaderStep ==
  ASSUME FormatInv, ReadHeader
  PROVE  FormatInv'
<1>1. /\ verdict = "header" /\ verdict' = "reading" /\ HeaderHolds /\ cursor' = 2 /\ owed' = raw[2]
      /\ wrote' = wrote /\ fate' = fate /\ raw' = raw /\ taken' = taken /\ taken = <<>>
  BY DEF FormatInv, ReadInv, ReadHeader
<1>2. FileInv /\ FileInv'
  BY <1>1 DEF FormatInv, FileInv
<1>3. raw[2] \in Nat /\ BodyOf(raw) \in Words /\ Len(BodyOf(raw)) = Len(raw) - 1
      /\ Len(raw) \in Nat /\ Len(raw) >= 3
  BY <1>1, <1>2, BodyHeld
<1>4. <<>> \in Seq(RawOp) /\ Len(<<>>) = 0
  OBVIOUS
<1>5. Records(<<>>)[0] = <<>>
  BY <1>4, RecordsSteps
<1>6. Reads(BodyOf(raw), 2, <<>>)
  BY <1>3, <1>4 DEF Reads
<1>7. Kept'
  BY <1>1, <1>3, <1>4, <1>5, <1>6 DEF Kept
<1>8. HeaderHolds'
  BY <1>1 DEF HeaderHolds
<1>9. ReadInv'
  BY <1>1, <1>7, <1>8 DEF ReadInv
<1>10. WholeInv'
  <2>1. Len(taken) = 0 /\ (wrote \in Seq(RawOp) => 0 <= Len(wrote))
    BY <1>1, <1>4
  <2>2. wrote \in Seq(RawOp)
    BY <1>2, OpsAreRaw DEF FileInv
  <2> QED BY <1>1, <2>1, <2>2 DEF WholeInv
<1> QED BY <1>2, <1>9, <1>10 DEF FormatInv

LEMMA OpStep ==
  ASSUME FormatInv, ReadOp
  PROVE  FormatInv'
<1> DEFINE s == BodyOf(raw)
           out == TakeOp(s, cursor)
<1>1. /\ verdict = "reading" /\ verdict' = "reading" /\ owed > 0 /\ owed' = owed - 1
      /\ out # Bad /\ cursor' = out.at /\ taken' = Append(taken, out.got)
      /\ wrote' = wrote /\ fate' = fate /\ raw' = raw
  BY DEF ReadOp
<1>2. FileInv /\ FileInv' /\ HeaderHolds /\ HeaderHolds' /\ Kept
  BY <1>1 DEF FormatInv, FileInv, ReadInv, HeaderHolds
<1>3. s \in Words
  BY <1>2, BodyHeld
<1>4. /\ taken \in Seq(RawOp) /\ Len(taken) \in Nat
      /\ \A n \in 1 .. Len(taken) : Texts(taken[n])
      /\ owed \in Nat /\ owed + Len(taken) = raw[2]
      /\ cursor = 2 + Len(Records(taken)[Len(taken)])
      /\ Reads(s, 2, Records(taken)[Len(taken)])
  BY <1>2 DEF Kept
<1>5. Len(Records(taken)[Len(taken)]) \in Nat
  <2>1. Len(taken) \in 0 .. Len(taken)
    BY <1>4
  <2> QED BY <1>4, <2>1, RecordsSteps
<1>6. cursor \in Nat \ {0}
  BY <1>4, <1>5
<1> HIDE DEF s, out
<1>7. PICK op \in RawOp : Texts(op) /\ Took(out, s, cursor, Record(op), op)
  BY <1>1, <1>3, <1>6, OpIsRead DEF out, Words, RawOp
<1>8. Reads(s, cursor, Record(op)) /\ out.got = op /\ out.at = cursor + Len(Record(op))
  BY <1>7 DEF Took
<1>9. Len(Record(op)) \in Nat
  BY RecordType DEF RawOp, Words
<1>10. PICK more : more = Append(taken, op)
  OBVIOUS
<1>11. /\ more \in Seq(RawOp) /\ Len(more) = Len(taken) + 1
       /\ Reads(s, 2, Records(more)[Len(more)])
       /\ Len(Records(more)[Len(more)]) = Len(Records(taken)[Len(taken)]) + Len(Record(op))
  BY <1>3, <1>4, <1>8, <1>10, OneMore
<1>12. more[Len(taken) + 1] = op /\ \A n \in 1 .. Len(taken) : more[n] = taken[n]
  BY <1>4, <1>10, AppendProperties
<1>13. taken' = more /\ cursor' = 2 + Len(Records(more)[Len(more)])
  BY <1>1, <1>4, <1>5, <1>8, <1>9, <1>10, <1>11
<1>14. Kept'
  <2>1. \A n \in 1 .. Len(more) : Texts(more[n])
    <3>1. ASSUME NEW n \in 1 .. Len(more) PROVE Texts(more[n])
      <4>1. CASE n = Len(taken) + 1
        BY <1>7, <1>12, <4>1
      <4>2. CASE n # Len(taken) + 1
        <5>1. n \in 1 .. Len(taken)
          BY <1>4, <1>11, <4>2
        <5> QED BY <1>4, <1>12, <5>1
      <4> QED BY <4>1, <4>2
    <3> QED BY <3>1
  <2>2. owed' \in Nat /\ owed' + Len(more) = raw[2]
    BY <1>1, <1>4, <1>11
  <2>3. Reads(BodyOf(raw'), 2, Records(more)[Len(more)])
    BY <1>1, <1>11 DEF s
  <2> QED BY <1>1, <1>11, <1>13, <2>1, <2>2, <2>3 DEF Kept
<1>15. ReadInv'
  BY <1>1, <1>2, <1>14 DEF ReadInv
<1>16. WholeInv'
  <2>1. SUFFICES ASSUME fate \in {"whole", "legacy"}
        PROVE  /\ Len(more) <= Len(wrote)
               /\ \A n \in 1 .. Len(more) : more[n] = wrote[n]
    BY <1>1, <1>13 DEF WholeInv
  <2>2. Len(taken) <= Len(wrote) /\ \A n \in 1 .. Len(taken) : taken[n] = wrote[n]
    BY <1>1, <2>1 DEF FormatInv, WholeInv
  <2>3. /\ raw[2] = Len(wrote) /\ wrote \in Seq(RawOp) /\ Len(wrote) \in Nat
        /\ Reads(s, 2, Records(wrote)[Len(wrote)])
    BY <1>2, <2>1, BodyWhole DEF s
  <2>4. Len(taken) + 1 \in 1 .. Len(wrote) /\ (Len(taken) + 1) - 1 = Len(taken)
    BY <1>1, <1>4, <2>3
  <2> DEFINE w == wrote[Len(taken) + 1]
  <2>5. Reads(s, 2 + Len(Records(wrote)[Len(taken)]), Record(w))
    BY <1>3, <2>3, <2>4, RecordsRead
  <2>6. Records(wrote)[Len(taken)] = Records(taken)[Len(taken)]
    <3>1. Len(taken) <= Len(taken)
      BY <1>4
    <3> QED BY <1>4, <2>2, <2>3, <3>1, RecordsPrefix
  <2>7. w \in RawOp /\ Texts(w)
    <3>1. w \in RawOp
      BY <2>3, <2>4, RecordsSteps
    <3>2. Len(taken) + 1 \in DOMAIN wrote
      BY <2>3, <2>4
    <3>3. Texts(w)
      BY <1>2, <3>2 DEF FileInv, Encodable, Texts
    <3> QED BY <3>1, <3>3
  <2>8. Took(out, s, cursor, Record(w), w)
    BY <1>3, <1>4, <1>6, <2>5, <2>6, <2>7, OpIsRead DEF out, Words, RawOp
  <2>9. w = op
    BY <1>8, <2>8 DEF Took
  <2>10. ASSUME NEW n \in 1 .. Len(more) PROVE more[n] = wrote[n]
    <3>1. CASE n = Len(taken) + 1
      BY <1>12, <2>9, <3>1
    <3>2. CASE n # Len(taken) + 1
      <4>1. n \in 1 .. Len(taken)
        BY <1>4, <1>11, <3>2
      <4> QED BY <1>12, <2>2, <4>1
    <3> QED BY <3>1, <3>2
  <2>11. Len(more) <= Len(wrote)
    BY <1>4, <1>11, <2>3, <2>4
  <2> QED BY <2>10, <2>11
<1> QED BY <1>2, <1>15, <1>16 DEF FormatInv

\* A whole journal has a header that holds.
LEMMA NoHeaderStep ==
  ASSUME FormatInv, RefuseHeader
  PROVE  FormatInv'
<1>1. /\ verdict' = "refused" /\ ~HeaderHolds
      /\ wrote' = wrote /\ fate' = fate /\ raw' = raw
  BY DEF RefuseHeader
<1>2. FileInv /\ FileInv'
  BY <1>1 DEF FormatInv, FileInv
<1>3. ReadInv'
  BY <1>1 DEF ReadInv
<1>4. WholeInv'
  BY <1>1, <1>2, BodyWhole DEF WholeInv
<1> QED BY <1>2, <1>3, <1>4 DEF FormatInv

\* Of a whole journal, the next op can be taken.
LEMMA NoOpStep ==
  ASSUME FormatInv, RefuseOp
  PROVE  FormatInv'
<1>1. /\ verdict = "reading" /\ verdict' = "refused" /\ owed > 0
      /\ TakeOp(BodyOf(raw), cursor) = Bad
      /\ wrote' = wrote /\ fate' = fate /\ raw' = raw
  BY DEF RefuseOp
<1>2. FileInv /\ FileInv' /\ HeaderHolds /\ Kept
  BY <1>1 DEF FormatInv, FileInv, ReadInv
<1>3. ReadInv'
  BY <1>1 DEF ReadInv
<1>4. WholeInv'
  <2>1. SUFFICES ASSUME fate \in {"whole", "legacy"} PROVE FALSE
    BY <1>1 DEF WholeInv
  <2> DEFINE s == BodyOf(raw)
  <2>2. /\ taken \in Seq(RawOp) /\ Len(taken) \in Nat /\ owed \in Nat
        /\ owed + Len(taken) = raw[2]
        /\ cursor = 2 + Len(Records(taken)[Len(taken)])
    BY <1>2 DEF Kept
  <2>3. Len(Records(taken)[Len(taken)]) \in Nat
    <3>1. Len(taken) \in 0 .. Len(taken)
      BY <2>2
    <3> QED BY <2>2, <3>1, RecordsSteps
  <2>4. Len(taken) <= Len(wrote) /\ \A n \in 1 .. Len(taken) : taken[n] = wrote[n]
    BY <1>1, <2>1 DEF FormatInv, WholeInv
  <2>5. /\ raw[2] = Len(wrote) /\ wrote \in Seq(RawOp) /\ Len(wrote) \in Nat
        /\ Reads(s, 2, Records(wrote)[Len(wrote)])
    BY <1>2, <2>1, BodyWhole
  <2>6. s \in Words
    BY <1>2, BodyHeld
  <2> HIDE DEF s
  <2>7. Len(taken) + 1 \in 1 .. Len(wrote) /\ (Len(taken) + 1) - 1 = Len(taken)
    BY <1>1, <2>2, <2>5
  <2> DEFINE w == wrote[Len(taken) + 1]
  <2>8. Reads(s, 2 + Len(Records(wrote)[Len(taken)]), Record(w))
    BY <2>5, <2>6, <2>7, RecordsRead
  <2>9. Records(wrote)[Len(taken)] = Records(taken)[Len(taken)]
    <3>1. Len(taken) <= Len(taken)
      BY <2>2
    <3> QED BY <2>2, <2>4, <2>5, <3>1, RecordsPrefix
  <2>10. w \in RawOp /\ Texts(w)
    <3>1. w \in RawOp
      BY <2>5, <2>7, RecordsSteps
    <3>2. Len(taken) + 1 \in DOMAIN wrote
      BY <2>5, <2>7
    <3>3. Texts(w)
      BY <1>2, <3>2 DEF FileInv, Encodable, Texts
    <3> QED BY <3>1, <3>3
  <2>11. cursor \in Nat \ {0} /\ Len(Record(w)) \in Nat
    BY <2>2, <2>3, <2>10, RecordType DEF RawOp, Words
  <2>12. Took(TakeOp(s, cursor), s, cursor, Record(w), w)
    BY <2>2, <2>6, <2>8, <2>9, <2>10, <2>11, OpIsRead DEF Words, RawOp
  <2>13. TakeOp(s, cursor) # Bad
    BY <2>11, <2>12, NotBad DEF Took
  <2> QED BY <1>1, <2>13 DEF s
<1> QED BY <1>2, <1>3, <1>4 DEF FormatInv

\* Of a whole journal, nothing is left over.
LEMMA FinishStep ==
  ASSUME FormatInv, Finish
  PROVE  FormatInv'
<1>1. /\ verdict = "reading" /\ verdict' = (IF Ends THEN "accepted" ELSE "refused") /\ owed = 0
      /\ wrote' = wrote /\ fate' = fate /\ raw' = raw /\ cursor' = cursor /\ owed' = owed
      /\ taken' = taken
  BY DEF Finish
<1>2. FileInv /\ FileInv' /\ HeaderHolds /\ HeaderHolds' /\ Kept /\ Kept'
  BY <1>1 DEF FormatInv, FileInv, ReadInv, HeaderHolds, Kept
<1>3. ReadInv'
  BY <1>1, <1>2 DEF ReadInv, Ends
<1>4. WholeInv'
  <2>1. SUFFICES ASSUME fate \in {"whole", "legacy"} PROVE WholeInv'
    BY <1>1 DEF WholeInv
  <2>2. Len(taken) <= Len(wrote) /\ \A n \in 1 .. Len(taken) : taken[n] = wrote[n]
    BY <1>1, <2>1 DEF FormatInv, WholeInv
  <2>3. /\ raw[2] = Len(wrote) /\ wrote \in Seq(RawOp) /\ Len(wrote) \in Nat
        /\ Len(BodyOf(raw)) = 2 + Len(Records(wrote)[Len(wrote)])
    BY <1>2, <2>1, BodyWhole
  <2>4. /\ taken \in Seq(RawOp) /\ Len(taken) \in Nat /\ Len(taken) = Len(wrote)
        /\ cursor = 2 + Len(Records(taken)[Len(taken)])
    BY <1>1, <1>2, <2>3 DEF Kept
  <2>5. Records(wrote)[Len(taken)] = Records(taken)[Len(taken)]
    <3>1. Len(taken) <= Len(taken)
      BY <2>4
    <3> QED BY <2>2, <2>3, <2>4, <3>1, RecordsPrefix
  <2>6. Ends
    BY <2>3, <2>4, <2>5 DEF Ends
  <2> QED BY <1>1, <2>2, <2>6 DEF WholeInv
<1> QED BY <1>2, <1>3, <1>4 DEF FormatInv

LEMMA FormatInvStep ==
  ASSUME FormatInv, [FormatNext]_formatVars
  PROVE  FormatInv'
<1>1. CASE FormatNext
  BY <1>1, HeaderStep, NoHeaderStep, OpStep, NoOpStep, FinishStep DEF FormatNext
<1>2. CASE UNCHANGED formatVars
  BY <1>2 DEF formatVars, FormatInv, FileInv, ReadInv, WholeInv, HeaderHolds, Kept, Ends
<1> QED BY <1>1, <1>2

LEMMA FormatInvHolds == FormatSpec => []FormatInv
BY FormatInvInit, FormatInvStep, PTL DEF FormatSpec

-----------------------------------------------------------------------------

\* encode and decode: a journal that is still what encode wrote, under the
\* present stamp or the old one, is never refused, and is read back as the set
\* it was written for; for sets, texts and payloads of every length.
THEOREM WrittenIsRead == FormatSpec => []RoundTrip
<1>1. ASSUME FormatInv PROVE RoundTrip
  <2>1. SUFFICES ASSUME fate \in {"whole", "legacy"}
        PROVE  verdict # "refused" /\ (verdict = "accepted" => taken = wrote)
    BY DEF RoundTrip
  <2>2. verdict # "refused"
    BY <1>1, <2>1 DEF FormatInv, WholeInv
  <2>3. ASSUME verdict = "accepted" PROVE taken = wrote
    <3>1. /\ FileInv /\ Kept /\ owed = 0
          /\ \A n \in 1 .. Len(taken) : taken[n] = wrote[n]
      BY <1>1, <2>1, <2>3 DEF FormatInv, ReadInv, WholeInv
    <3>2. raw[2] = Len(wrote) /\ wrote \in Seq(RawOp) /\ Len(wrote) \in Nat
      BY <2>1, <3>1, BodyWhole
    <3>3. taken \in Seq(RawOp) /\ Len(taken) = Len(wrote)
      BY <3>1, <3>2 DEF Kept
    <3> QED BY <3>1, <3>2, <3>3, SeqEqual
  <2> QED BY <2>2, <2>3
<1> QED BY <1>1, FormatInvHolds, PTL

\* decode: whatever the bytes are and whoever made their sum fit, what is
\* accepted is, to the last symbol, what encode writes for the ops it is read
\* as: no length is followed past the end, no text that is none is taken, no set
\* has two readings, nothing is left over.
THEOREM OneReadingOnly == FormatSpec => []OneReading
<1>1. ASSUME FormatInv PROVE OneReading
  <2>1. SUFFICES ASSUME verdict = "accepted"
        PROVE  Encodable(taken) /\ raw = Sealed([Body(taken) EXCEPT ![1] = raw[1]])
    BY DEF OneReading
  <2>2. FileInv /\ HeaderHolds /\ Kept /\ owed = 0 /\ Ends
    BY <1>1, <2>1 DEF FormatInv, ReadInv
  <2>3. PICK b : b = BodyOf(raw)
    OBVIOUS
  <2>4. /\ raw \in Seq(Symbol) /\ Len(raw) \in Nat /\ Len(raw) >= 3
        /\ b \in Words /\ b[1] = raw[1] /\ b[2] = raw[2] /\ raw[1] \in Symbol /\ raw[2] \in Nat
    BY <2>2, <2>3, BodyHeld
  <2>5. PICK r : r = Records(taken)[Len(taken)]
    OBVIOUS
  <2>6. taken \in Seq(RawOp) /\ Len(taken) \in Nat /\ DOMAIN taken = 1 .. Len(taken)
    BY <2>2 DEF Kept
  <2>7. r \in Words
    <3>1. Len(taken) \in 0 .. Len(taken)
      BY <2>6
    <3> QED BY <2>5, <2>6, <3>1, RecordsSteps
  <2>8. b[2] = Len(taken) /\ Len(b) = 2 + Len(r) /\ Reads(b, 2, r)
    BY <2>2, <2>3, <2>4, <2>5, <2>6 DEF Kept, Ends
  <2>9. raw[1] \in Nat /\ Stamp \in Nat
    BY <2>4, SymbolAssumption, SymbolsAreNumbers
  <2>10. b = <<raw[1], Len(taken)>> \o r
    BY <2>4, <2>6, <2>7, <2>8, <2>9, TakenApart
  <2>11. PICK c : c = Body(taken)
    OBVIOUS
  <2>12. c = <<Stamp, Len(taken)>> \o r
    BY <2>5, <2>11 DEF Body
  <2>13. c \in Words /\ Len(c) \in Nat
    BY <2>6, <2>7, <2>9, <2>12, Assembled DEF Words
  <2>14. [c EXCEPT ![1] = raw[1]] = b
    <3>1. PICK s : s = [c EXCEPT ![1] = raw[1]]
      OBVIOUS
    <3>2. c \in [1 .. Len(c) -> Nat]
      BY <2>13 DEF Words
    <3>3. s \in [1 .. Len(c) -> Nat] /\ \A j \in 1 .. Len(c) : s[j] = IF j = 1 THEN raw[1] ELSE c[j]
      BY <2>9, <3>1, <3>2
    <3>4. s \in Words /\ Len(s) = Len(c)
      BY <2>13, <3>3 DEF Words
    <3>5. s = <<raw[1], Len(taken)>> \o r
      BY <2>6, <2>7, <2>9, <2>12, <2>13, <3>3, <3>4, Restamped
    <3> QED BY <2>10, <3>1, <3>5
  <2>15. Fnv(b) = raw[Len(raw)] /\ raw = Append(b, raw[Len(raw)])
    BY <2>2, <2>3, <2>4, BodyForm DEF HeaderHolds
  <2>16. raw = Sealed(b)
    BY <2>15 DEF Sealed
  <2>17. Encodable(taken)
    BY <2>2, <2>6 DEF Kept, Encodable, Texts
  <2> QED BY <2>11, <2>14, <2>16, <2>17
<1> QED BY <1>1, FormatInvHolds, PTL

\* fnv1a and decode: a journal with one symbol altered, wherever it is, is never
\* accepted, for no step of the sum forgets anything.
THEOREM RotAlwaysFound == FormatSpec => []RotIsFound
<1>1. ASSUME FormatInv PROVE RotIsFound
  <2>1. SUFFICES ASSUME fate = "flipped", verdict = "accepted" PROVE FALSE
    BY DEF RotIsFound
  <2>2. FileInv /\ HeaderHolds
    BY <1>1, <2>1 DEF FormatInv, ReadInv
  <2>3. PICK b : b = Body(wrote)
    OBVIOUS
  <2>4. b \in Seq(Symbol) /\ Len(b) \in Nat
    BY <2>2, <2>3, JournalBody DEF FileInv
  <2>5. PICK s : s = Sealed(b)
    OBVIOUS
  <2>6. /\ s \in Seq(Symbol) /\ Len(s) = Len(b) + 1 /\ BodyOf(s) = b /\ s[Len(b) + 1] = Fnv(b)
        /\ \A j \in 1 .. Len(b) : s[j] = b[j]
    BY <2>4, <2>5, SealedForm
  <2>7. raw \in Altered(s)
    BY <2>1, <2>2, <2>3, <2>5, FatesAreSymbols DEF FileInv
  <2>8. PICK j \in DOMAIN s, v \in Symbol : raw = [s EXCEPT ![j] = v] /\ raw # s
    BY <2>7 DEF Altered
  <2>9. j \in 1 .. Len(s) /\ s \in [1 .. Len(s) -> Symbol] /\ Len(s) \in Nat
    BY <2>6, <2>8
  <2>10. /\ raw \in [1 .. Len(s) -> Symbol] /\ Len(raw) = Len(s) /\ raw \in Seq(Symbol)
         /\ raw[j] = v /\ \A n \in 1 .. Len(s) : n # j => raw[n] = s[n]
    BY <2>8, <2>9
  <2>11. v # s[j]
    BY <2>8, <2>9
  <2>12. Fnv(BodyOf(raw)) = raw[Len(raw)]
    BY <2>2 DEF HeaderHolds
  <2>13. /\ BodyOf(raw) \in Seq(Symbol) /\ Len(BodyOf(raw)) = Len(b)
         /\ \A n \in 1 .. Len(b) : BodyOf(raw)[n] = raw[n]
    <3>1. Len(raw) >= 1 /\ Len(raw) - 1 = Len(b)
      BY <2>4, <2>6, <2>10
    <3> QED BY <2>10, <3>1, BodyForm
  <2>14. CASE j = Len(s)
    <3>1. \A n \in 1 .. Len(b) : BodyOf(raw)[n] = b[n]
      BY <2>4, <2>6, <2>10, <2>13, <2>14
    <3>2. BodyOf(raw) = b
      BY <2>4, <2>13, <3>1, SeqEqual
    <3> QED BY <2>6, <2>10, <2>11, <2>12, <2>14, <3>2
  <2>15. CASE j # Len(s)
    <3>1. j \in 1 .. Len(b) /\ j \in DOMAIN b
      BY <2>4, <2>6, <2>9, <2>15
    <3>2. PICK c : c = [b EXCEPT ![j] = v]
      OBVIOUS
    <3>3. b \in [1 .. Len(b) -> Symbol]
      BY <2>4
    <3>4. /\ c \in [1 .. Len(b) -> Symbol] /\ c \in Seq(Symbol) /\ Len(c) = Len(b)
          /\ \A n \in 1 .. Len(b) : c[n] = IF n = j THEN v ELSE b[n]
      BY <2>4, <3>1, <3>2, <3>3
    <3>5. \A n \in 1 .. Len(b) : BodyOf(raw)[n] = c[n]
      <4>1. ASSUME NEW n \in 1 .. Len(b) PROVE BodyOf(raw)[n] = c[n]
        <5>1. n \in 1 .. Len(s)
          BY <2>4, <2>6
        <5> QED BY <2>6, <2>10, <2>13, <3>4, <5>1
      <4> QED BY <4>1
    <3>6. BodyOf(raw) = c
      BY <2>13, <3>4, <3>5, SeqEqual
    <3>7. v # b[j]
      BY <2>6, <2>11, <3>1
    <3>8. Fnv(c) # Fnv(b)
      BY <2>4, <3>1, <3>2, <3>7, OneSymbol
    <3>9. raw[Len(raw)] = s[Len(s)]
      BY <2>9, <2>10, <2>15
    <3> QED BY <2>6, <2>12, <3>6, <3>8, <3>9
  <2> QED BY <2>14, <2>15
<1> QED BY <1>1, FormatInvHolds, PTL

=============================================================================
