---------------------------- MODULE DurableProofs ----------------------------
(***************************************************************************)
(* The tree a process sees through the port is the one the disk has: what  *)
(* each call of apply and recover writes and flushes does to the files of  *)
(* a disk what the call does to the tree, through any power cut.  It rests *)
(* on what the inodes are for: no two slots ever have the same, the        *)
(* journal's are no document's, and a new one is one no name knows.        *)
(*                                                                         *)
(* What a cut may take back of the journal and of what was moved aside     *)
(* rests on what each write of their names still owes (Placed): it is      *)
(* never more than the flushes of apply and of recover push.               *)
(***************************************************************************)
EXTENDS DurableSet, DiskProofs, ChangeSetProofs

-----------------------------------------------------------------------------
(* What each name may have, and what each inode.                             *)

CanHold(l) ==
  IF l \in Slot
  THEN {Gone, Subdir} \cup {Inode(n) : n \in Pool} \cup {Symlink(to) : to \in Target}
  ELSE IF l = InRoot THEN {Gone} \cup {Inode(n) : n \in Pool}
  ELSE IF l = InHome THEN {Gone} \cup {Inode(n) : n \in HomePool}
  ELSE {Gone, Subdir}

\* A write of bytes is a write of nothing else.
Shaped(k) ==
  \A q \in DOMAIN k.log :
    /\ DOMAIN k.log[q].puts \subseteq Entries \cup Parts
    /\ \A n \in Inodes :
         BytesOf(n) \in DOMAIN k.log[q].puts => DOMAIN k.log[q].puts = {BytesOf(n)}

Typed(k) ==
  /\ Sound(k)
  /\ DOMAIN k.store = Entries \cup Parts
  /\ Shaped(k)
  /\ \A l \in Entries : Values(k, l) \subseteq CanHold(l)
  /\ \A n \in Inodes : Values(k, ModeOf(n)) \subseteq BOOLEAN

\* An inode a slot has had is a document's; one a journal has had is a set's.
Document(k, n) ==
  /\ Values(k, BytesOf(n)) \subseteq Bytes \cup {Torn}
  /\ \A j \in JournalNames : Inode(n) \notin Values(k, j)

Intent(k, n) == Values(k, BytesOf(n)) \subseteq Staged \cup {Torn}

Roles(k) ==
  \A n \in Inodes :
    /\ \A p \in Slot : Inode(n) \in Values(k, p) => Document(k, n)
    /\ \A j \in JournalNames : Inode(n) \in Values(k, j) => Intent(k, n)

\* Whatever has landed, two slots have not the same inode.
Unshared(k) ==
  \A S \in Closures(k) : \A x, y \in Slot, n \in Inodes :
    (Landed(k, S)[x] = Inode(n) /\ Landed(k, S)[y] = Inode(n)) => x = y

DiskInv(k) == Typed(k) /\ Roles(k) /\ Unshared(k)

-----------------------------------------------------------------------------
(* Locations and entries.                                                    *)

LEMMA PartsDiffer ==
  /\ \A n, m : BytesOf(n) = BytesOf(m) => n = m
  /\ \A n, m : ModeOf(n) = ModeOf(m) => n = m
  /\ \A n, m : BytesOf(n) # ModeOf(m)
  /\ \A n \in Inodes : BytesOf(n) \in Parts /\ ModeOf(n) \in Parts
  /\ \A n \in Inodes : BytesOf(n) \notin Entries /\ ModeOf(n) \notin Entries
<1>1. "bytes" # "exec"
  OBVIOUS
<1>2. \A n \in Inodes : BytesOf(n) \in Parts /\ ModeOf(n) \in Parts
  BY DEF Parts
<1>3. Entries \cap Parts = {}
  BY LayoutAssumption
<1>4. /\ \A n, m : <<n, "bytes">> = <<m, "bytes">> => n = m
      /\ \A n, m : <<n, "exec">> = <<m, "exec">> => n = m
      /\ \A n, m : <<n, "bytes">> # <<m, "exec">>
  BY <1>1
<1> QED
  BY <1>2, <1>3, <1>4 DEF BytesOf, ModeOf

LEMMA EntriesDiffer ==
  /\ Gone.kind = "absent" /\ Subdir.kind = "dir"
  /\ \A n : Inode(n).kind = "file" /\ Inode(n).inode = n
  /\ \A to : Symlink(to).kind = "link" /\ Symlink(to).target = to
  BY DEF Gone, Subdir, Inode, Symlink

LEMMA NamesDiffer ==
  /\ Slot \subseteq Entries /\ JournalNames \subseteq Entries /\ HomeName \in Entries
  /\ Slot \cap JournalNames = {} /\ HomeName \notin Slot \cup JournalNames
  /\ InRoot # InHome /\ InRoot \in JournalNames /\ InHome \in JournalNames
  BY LayoutAssumption DEF Entries, JournalNames

LEMMA PoolsDiffer ==
  /\ Inodes = Pool \cup HomePool /\ Pool \cap HomePool = {} /\ Inodes \subseteq Nat
  BY DeviceAssumption

\* A name has one entry of the kinds it can hold.
LEMMA HoldKinds ==
  ASSUME NEW l \in Entries, NEW e \in CanHold(l)
  PROVE  \/ e = Gone /\ e.kind = "absent"
         \/ e = Subdir /\ e.kind = "dir" /\ l \notin JournalNames
         \/ /\ e = Inode(e.inode) /\ e.kind = "file" /\ e.inode \in Inodes
            /\ l \in Slot \/ l \in JournalNames
            /\ e.inode \in IF l = InHome THEN HomePool ELSE Pool
         \/ e = Symlink(e.target) /\ e.kind = "link" /\ e.target \in Target /\ l \in Slot
<1>1. l \in Slot \/ l = InRoot \/ l = InHome \/ l = HomeName
  BY DEF Entries, JournalNames
<1>2. CASE l \in Slot
  <2>1. \/ e = Gone \/ e = Subdir
        \/ \E n \in Pool : e = Inode(n)
        \/ \E to \in Target : e = Symlink(to)
    BY <1>2 DEF CanHold
  <2> QED
    BY <1>2, <2>1, EntriesDiffer, NamesDiffer, PoolsDiffer
<1>3. CASE l \in JournalNames
  <2>1. e = Gone \/ \E n \in IF l = InHome THEN HomePool ELSE Pool : e = Inode(n)
    BY <1>3, NamesDiffer DEF CanHold, JournalNames
  <2> QED
    BY <1>3, <2>1, EntriesDiffer, PoolsDiffer
<1>4. CASE l = HomeName
  <2>1. e = Gone \/ e = Subdir
    BY <1>4, NamesDiffer DEF CanHold
  <2> QED
    BY <1>4, <2>1, EntriesDiffer, NamesDiffer
<1> QED
  BY <1>1, <1>2, <1>3, <1>4 DEF JournalNames

\* What may have landed at each location, and what is seen there.
LEMMA LandedTypes ==
  ASSUME NEW k, Typed(k), NEW S \in SUBSET DOMAIN k.log
  PROVE  /\ DOMAIN Landed(k, S) = Entries \cup Parts
         /\ \A l \in Entries \cup Parts : Landed(k, S)[l] \in Values(k, l)
         /\ \A l \in Entries : Landed(k, S)[l] \in CanHold(l)
         /\ \A n \in Inodes : Landed(k, S)[ModeOf(n)] \in BOOLEAN
<1>1. \A l \in Entries \cup Parts :
         l \in DOMAIN Landed(k, S) /\ Landed(k, S)[l] \in Values(k, l)
  <2> SUFFICES ASSUME NEW l \in Entries \cup Parts
               PROVE  l \in DOMAIN Landed(k, S) /\ Landed(k, S)[l] \in Values(k, l)
    OBVIOUS
  <2>1. l \in DOMAIN k.store /\ Sound(k)
    BY DEF Typed
  <2> QED
    BY <2>1, LandedIsValue
<1>2. DOMAIN Landed(k, S) \subseteq Entries \cup Parts
  BY DEF Typed, Shaped, Landed
<1>3. \A l \in Entries : Landed(k, S)[l] \in CanHold(l)
  BY <1>1 DEF Typed
<1>4. \A n \in Inodes : Landed(k, S)[ModeOf(n)] \in BOOLEAN
  BY <1>1, PartsDiffer DEF Typed
<1> QED
  BY <1>1, <1>2, <1>3, <1>4

LEMMA AllClosed ==
  ASSUME NEW k, Sound(k)
  PROVE  DOMAIN k.log \in Closures(k)
  BY DEF Sound, InOrder, Closures

LEMMA SeenTypes ==
  ASSUME NEW k, DiskInv(k)
  PROVE  /\ DOMAIN Seen(k) = Entries \cup Parts
         /\ \A l \in Entries \cup Parts : Seen(k)[l] \in Values(k, l)
         /\ \A l \in Entries : Seen(k)[l] \in CanHold(l)
         /\ \A n \in Inodes : Seen(k)[ModeOf(n)] \in BOOLEAN
         /\ \A p \in Slot, n \in Inodes :
              Seen(k)[p] = Inode(n) => Document(k, n) /\ Seen(k)[BytesOf(n)] \in Bytes \cup {Torn}
         /\ \A j \in JournalNames, n \in Inodes :
              Seen(k)[j] = Inode(n) => Intent(k, n) /\ Seen(k)[BytesOf(n)] \in Staged \cup {Torn}
         /\ \A x, y \in Slot, n \in Inodes :
              (Seen(k)[x] = Inode(n) /\ Seen(k)[y] = Inode(n)) => x = y
<1>1. /\ DOMAIN Seen(k) = Entries \cup Parts
      /\ \A l \in Entries \cup Parts : Seen(k)[l] \in Values(k, l)
      /\ \A l \in Entries : Seen(k)[l] \in CanHold(l)
      /\ \A n \in Inodes : Seen(k)[ModeOf(n)] \in BOOLEAN
  BY LandedTypes DEF DiskInv, Seen
<1>2. \A p \in Slot, n \in Inodes :
         Seen(k)[p] = Inode(n) => Document(k, n) /\ Seen(k)[BytesOf(n)] \in Bytes \cup {Torn}
  BY <1>1, NamesDiffer, PartsDiffer DEF DiskInv, Roles, Document
<1>3. \A j \in JournalNames, n \in Inodes :
         Seen(k)[j] = Inode(n) => Intent(k, n) /\ Seen(k)[BytesOf(n)] \in Staged \cup {Torn}
  BY <1>1, NamesDiffer, PartsDiffer DEF DiskInv, Roles, Intent
<1>4. DOMAIN k.log \in Closures(k)
  BY AllClosed DEF DiskInv, Typed
<1>5. \A x, y \in Slot, n \in Inodes :
         (Seen(k)[x] = Inode(n) /\ Seen(k)[y] = Inode(n)) => x = y
  BY <1>4 DEF DiskInv, Unshared, Seen
<1> QED
  BY <1>1, <1>2, <1>3, <1>5

-----------------------------------------------------------------------------
(* What is held through a write.                                             *)

\* n may come to p: a document's inode a slot, a set's a journal name.
Suits(k, n, p) ==
  /\ p \in Slot => Document(k, n)
  /\ p \in JournalNames => Intent(k, n) /\ \A x \in Slot : Inode(n) \notin Values(k, x)

\* Wherever the names of puts have been written all over, no other slot has
\* the inode put at p.
Alone(k, puts, p) ==
  \A n \in Inodes : puts[p] = Inode(n) =>
    \A y \in Slot \ {p} :
      IF y \in DOMAIN puts THEN puts[y] # Inode(n)
      ELSE \A S \in Closures(k) :
             (\A x \in DOMAIN puts : WritersOf(k, x) \subseteq S) => Landed(k, S)[y] # Inode(n)

Fits(k, puts) ==
  /\ DOMAIN puts \subseteq Entries
  /\ \A p \in DOMAIN puts :
       /\ puts[p] \in CanHold(p)
       /\ \A n \in Inodes : puts[p] = Inode(n) => Suits(k, n, p)
       /\ p \in Slot => Alone(k, puts, p)
  /\ \A p, q \in DOMAIN puts, n \in Inodes :
       (p \in Slot /\ q \in JournalNames) => puts[p] # Inode(n) \/ puts[q] # Inode(n)

LEMMA EntryKeeps ==
  ASSUME NEW k, DiskInv(k), NEW puts, Fits(k, puts), NEW h, Added(h, k, puts)
  PROVE  DiskInv(h)
<1> DEFINE next == NextWrite(k)
<1>s. Sound(k) /\ Sound(h)
  BY DEF DiskInv, Typed, Added
<1>v. \A l : IF l \in DOMAIN puts
             THEN Values(h, l) = Values(k, l) \cup {puts[l]}
             ELSE Values(h, l) = Values(k, l)
  BY <1>s, AddedValues
<1>p. \A n \in Inodes : /\ BytesOf(n) \notin DOMAIN puts /\ ModeOf(n) \notin DOMAIN puts
                        /\ Values(h, BytesOf(n)) = Values(k, BytesOf(n))
                        /\ Values(h, ModeOf(n)) = Values(k, ModeOf(n))
  BY <1>v, PartsDiffer DEF Fits
<1>1. Typed(h)
  <2>1. Shaped(h)
    BY <1>p DEF Shaped, DiskInv, Typed, Added, Fits
  <2>2. \A l \in Entries : Values(h, l) \subseteq CanHold(l)
    BY <1>v DEF DiskInv, Typed, Fits
  <2> QED
    BY <1>s, <1>p, <2>1, <2>2 DEF DiskInv, Typed, Added
<1>2. Roles(h)
  <2> SUFFICES ASSUME NEW n \in Inodes
               PROVE  /\ \A p \in Slot : Inode(n) \in Values(h, p) => Document(h, n)
                      /\ \A j \in JournalNames : Inode(n) \in Values(h, j) => Intent(h, n)
    BY DEF Roles
  <2>1. ASSUME NEW j \in JournalNames, Inode(n) \in Values(h, j) PROVE Intent(h, n)
    <3>1. Intent(k, n)
      BY <1>v, <2>1 DEF DiskInv, Roles, Fits, Suits
    <3> QED
      BY <1>p, <3>1 DEF Intent
  <2>2. ASSUME NEW p \in Slot, Inode(n) \in Values(h, p) PROVE Document(h, n)
    <3>1. Document(k, n)
      BY <1>v, <2>2 DEF DiskInv, Roles, Fits, Suits
    <3>2. ASSUME NEW j \in JournalNames PROVE Inode(n) \notin Values(h, j)
      <4>1. Inode(n) \notin Values(k, j)
        BY <3>1 DEF Document
      <4>2. SUFFICES ASSUME j \in DOMAIN puts, puts[j] = Inode(n) PROVE FALSE
        BY <1>v, <4>1
      <4>3. \A x \in Slot : Inode(n) \notin Values(k, x)
        BY <4>2 DEF Fits, Suits
      <4>4. p \in DOMAIN puts /\ puts[p] = Inode(n)
        BY <1>v, <2>2, <4>3
      <4> QED
        BY <4>2, <4>4 DEF Fits
    <3> QED
      BY <1>p, <3>1, <3>2 DEF Document
  <2> QED
    BY <2>1, <2>2
<1>3. Unshared(h)
  <2> SUFFICES ASSUME NEW S \in Closures(h), NEW x \in Slot, NEW y \in Slot, NEW n \in Inodes,
                      Landed(h, S)[x] = Inode(n), Landed(h, S)[y] = Inode(n), x # y
               PROVE  FALSE
    BY DEF Unshared
  <2> DEFINE R == S \ {next}
  <2>1. /\ S \in SUBSET DOMAIN h.log /\ R \in Closures(k)
        /\ next \in S => \A l \in DOMAIN puts : WritersOf(k, l) \subseteq S
    BY <1>s, AddedClosures
  <2>2. \A l \in Slot : Landed(h, S)[l] = IF next \in S /\ l \in DOMAIN puts
                                          THEN puts[l] ELSE Landed(k, R)[l]
    <3>1. \A l : IF next \in S /\ l \in DOMAIN puts
                 THEN l \in DOMAIN Landed(h, S) /\ Landed(h, S)[l] = puts[l]
                 ELSE /\ l \in DOMAIN Landed(h, S) <=> l \in DOMAIN Landed(k, R)
                      /\ l \in DOMAIN Landed(k, R) => Landed(h, S)[l] = Landed(k, R)[l]
      BY <1>s, <2>1, AddedLands
    <3>2. R \in SUBSET DOMAIN k.log
      BY <2>1 DEF Closures
    <3>3. DOMAIN Landed(k, R) = Entries \cup Parts
      BY <3>2, LandedTypes DEF DiskInv
    <3> QED
      BY <3>1, <3>3, NamesDiffer
  <2>3. next \in S => \A l \in DOMAIN puts : WritersOf(k, l) \subseteq R
    <3>1. \A l : next \notin WritersOf(k, l)
      BY DEF Added, WritersOf, Writers
    <3> QED
      BY <2>1, <3>1
  <2>4. ~(next \in S /\ (x \in DOMAIN puts \/ y \in DOMAIN puts))
    <3>1. ASSUME next \in S, NEW p \in Slot, NEW q \in Slot, p # q, p \in DOMAIN puts,
                 Landed(h, S)[p] = Inode(n), Landed(h, S)[q] = Inode(n)
          PROVE  FALSE
      <4>1. puts[p] = Inode(n)
        BY <2>2, <3>1
      <4>2. Alone(k, puts, p)
        BY <3>1 DEF Fits
      <4>3. IF q \in DOMAIN puts THEN puts[q] # Inode(n) ELSE Landed(k, R)[q] # Inode(n)
        BY <2>1, <2>3, <3>1, <4>1, <4>2 DEF Alone
      <4> QED
        BY <2>2, <3>1, <4>3
    <3> QED
      BY <3>1
  <2>5. Landed(k, R)[x] = Inode(n) /\ Landed(k, R)[y] = Inode(n)
    BY <2>2, <2>4
  <2> QED
    BY <2>1, <2>5 DEF DiskInv, Unshared
<1> QED
  BY <1>1, <1>2, <1>3 DEF DiskInv

\* v may be put at location l of inode n.
PartFits(k, n, l, v) ==
  \/ l = ModeOf(n) /\ v \in BOOLEAN
  \/ /\ l = BytesOf(n)
     /\ \A p \in Slot : Inode(n) \in Values(k, p) => v \in Bytes \cup {Torn}
     /\ \A j \in JournalNames : Inode(n) \in Values(k, j) => v \in Staged \cup {Torn}

LEMMA PartKeeps ==
  ASSUME NEW k, DiskInv(k), NEW n \in Inodes, NEW l, NEW v, PartFits(k, n, l, v),
         NEW h, Added(h, k, At(l, v))
  PROVE  DiskInv(h)
<1> DEFINE next == NextWrite(k)
<1>s. Sound(k) /\ Sound(h)
  BY DEF DiskInv, Typed, Added
<1>a. DOMAIN At(l, v) = {l} /\ At(l, v)[l] = v
  BY OnePut
<1>v. \A x : Values(h, x) = IF x = l THEN Values(k, x) \cup {v} ELSE Values(k, x)
  <2>1. \A x : IF x \in DOMAIN At(l, v)
               THEN Values(h, x) = Values(k, x) \cup {At(l, v)[x]}
               ELSE Values(h, x) = Values(k, x)
    BY <1>s, AddedValues
  <2> QED
    BY <1>a, <2>1
<1>l. l \in Parts /\ l \notin Entries
  BY PartsDiffer DEF PartFits
<1>e. \A x \in Entries : Values(h, x) = Values(k, x)
  BY <1>v, <1>l
<1>1. Typed(h)
  <2>1. Shaped(h)
    <3>1. \A m \in Inodes : BytesOf(m) = l => m = n
      BY PartsDiffer DEF PartFits
    <3> QED
      BY <1>a, <1>l, <3>1 DEF Shaped, DiskInv, Typed, Added
  <2>2. \A m \in Inodes : Values(h, ModeOf(m)) \subseteq BOOLEAN
    <3> SUFFICES ASSUME NEW m \in Inodes PROVE Values(h, ModeOf(m)) \subseteq BOOLEAN
      OBVIOUS
    <3>1. Values(k, ModeOf(m)) \subseteq BOOLEAN
      BY DEF DiskInv, Typed
    <3>2. ModeOf(m) = l => v \in BOOLEAN
      BY PartsDiffer DEF PartFits
    <3> QED
      BY <1>v, <3>1, <3>2
  <2> QED
    BY <1>s, <1>e, <2>1, <2>2 DEF DiskInv, Typed, Added
<1>2. Roles(h)
  <2> SUFFICES ASSUME NEW m \in Inodes
               PROVE  /\ \A p \in Slot : Inode(m) \in Values(h, p) => Document(h, m)
                      /\ \A j \in JournalNames : Inode(m) \in Values(h, j) => Intent(h, m)
    BY DEF Roles
  <2>1. BytesOf(m) = l => m = n /\ l = BytesOf(n)
    BY PartsDiffer DEF PartFits
  <2>2. ASSUME NEW j \in JournalNames, Inode(m) \in Values(h, j) PROVE Intent(h, m)
    <3>1. Inode(m) \in Values(k, j)
      BY <1>e, <2>2, NamesDiffer
    <3>2. Values(k, BytesOf(m)) \subseteq Staged \cup {Torn}
      BY <3>1 DEF DiskInv, Roles, Intent
    <3>3. BytesOf(m) = l => v \in Staged \cup {Torn}
      BY <2>1, <2>2, <3>1, PartsDiffer DEF PartFits
    <3> QED
      BY <1>v, <3>2, <3>3 DEF Intent
  <2>3. ASSUME NEW p \in Slot, Inode(m) \in Values(h, p) PROVE Document(h, m)
    <3>1. Inode(m) \in Values(k, p)
      BY <1>e, <2>3, NamesDiffer
    <3>2. Document(k, m)
      BY <3>1 DEF DiskInv, Roles
    <3>3. BytesOf(m) = l => v \in Bytes \cup {Torn}
      BY <2>1, <2>3, <3>1, PartsDiffer DEF PartFits
    <3>4. Values(h, BytesOf(m)) \subseteq Bytes \cup {Torn}
      BY <1>v, <3>2, <3>3 DEF Document
    <3>5. \A j \in JournalNames : Values(h, j) = Values(k, j)
      BY <1>e, NamesDiffer
    <3> QED
      BY <3>2, <3>4, <3>5 DEF Document
  <2> QED
    BY <2>2, <2>3
<1>3. Unshared(h)
  <2> SUFFICES ASSUME NEW S \in Closures(h)
               PROVE  \A x, y \in Slot, m \in Inodes :
                        (Landed(h, S)[x] = Inode(m) /\ Landed(h, S)[y] = Inode(m)) => x = y
    BY DEF Unshared
  <2> DEFINE R == S \ {next}
  <2>1. S \in SUBSET DOMAIN h.log /\ R \in Closures(k)
    BY <1>s, AddedClosures
  <2>2. \A x : IF next \in S /\ x \in DOMAIN At(l, v)
               THEN x \in DOMAIN Landed(h, S) /\ Landed(h, S)[x] = At(l, v)[x]
               ELSE /\ x \in DOMAIN Landed(h, S) <=> x \in DOMAIN Landed(k, R)
                    /\ x \in DOMAIN Landed(k, R) => Landed(h, S)[x] = Landed(k, R)[x]
    BY <1>s, <2>1, AddedLands
  <2>3. R \in SUBSET DOMAIN k.log
    BY <2>1 DEF Closures
  <2>4. DOMAIN Landed(k, R) = Entries \cup Parts
    BY <2>3, LandedTypes DEF DiskInv
  <2>5. \A x \in Slot : Landed(h, S)[x] = Landed(k, R)[x]
    BY <1>a, <1>l, <2>2, <2>4, NamesDiffer
  <2> QED
    BY <2>1, <2>5 DEF DiskInv, Unshared
<1> QED
  BY <1>1, <1>2, <1>3 DEF DiskInv

\* h has lost nothing k shows, and has no more behind it.
Calmer(h, k) ==
  /\ DiskInv(h)
  /\ Seen(h) = Seen(k)
  /\ \A l \in Entries \cup Parts :
       Values(h, l) \subseteq Values(k, l) /\ WritersOf(h, l) \subseteq WritersOf(k, l)

\* Having had less, a disk has its types and roles.
LEMMA FewerValues ==
  ASSUME NEW k, DiskInv(k), NEW h, Sound(h), DOMAIN h.store = Entries \cup Parts, Shaped(h),
         \A l \in Entries \cup Parts : Values(h, l) \subseteq Values(k, l)
  PROVE  Typed(h) /\ Roles(h)
<1>1. /\ \A l \in Entries : Values(h, l) \subseteq Values(k, l)
      /\ \A n \in Inodes : /\ Values(h, BytesOf(n)) \subseteq Values(k, BytesOf(n))
                           /\ Values(h, ModeOf(n)) \subseteq Values(k, ModeOf(n))
  BY PartsDiffer
<1>2. Typed(h)
  BY <1>1 DEF DiskInv, Typed
<1>3. Roles(h)
  <2> SUFFICES ASSUME NEW n \in Inodes
               PROVE  /\ \A p \in Slot : Inode(n) \in Values(h, p) => Document(h, n)
                      /\ \A j \in JournalNames : Inode(n) \in Values(h, j) => Intent(h, n)
    BY DEF Roles
  <2>1. ASSUME NEW p \in Slot, Inode(n) \in Values(h, p) PROVE Document(h, n)
    <3>1. Document(k, n)
      BY <1>1, <2>1, NamesDiffer DEF DiskInv, Roles
    <3> QED
      BY <1>1, <3>1, NamesDiffer DEF Document
  <2>2. ASSUME NEW j \in JournalNames, Inode(n) \in Values(h, j) PROVE Intent(h, n)
    <3>1. Intent(k, n)
      BY <1>1, <2>2, NamesDiffer DEF DiskInv, Roles
    <3> QED
      BY <1>1, <3>1 DEF Intent
  <2> QED
    BY <2>1, <2>2
<1> QED
  BY <1>2, <1>3

LEMMA CalmerSame ==
  ASSUME NEW k, DiskInv(k)
  PROVE  Calmer(k, k)
  BY DEF Calmer

LEMMA CalmerTwice ==
  ASSUME NEW k, NEW h, NEW g, Calmer(h, k), Calmer(g, h)
  PROVE  Calmer(g, k)
  BY DEF Calmer

LEMMA RewriteCalms ==
  ASSUME NEW k, DiskInv(k), NEW h, Sound(h), Rewritten(h, k)
  PROVE  Calmer(h, k)
<1>s. Sound(k)
  BY DEF DiskInv, Typed
<1>1. \A l : WritersOf(h, l) = WritersOf(k, l)
  BY DEF Rewritten, WritersOf, Writers
<1>2. \A l : Values(h, l) = Values(k, l)
  BY <1>1 DEF Rewritten, Values, WritersOf, Writers
<1>3. Shaped(h)
  BY DEF DiskInv, Typed, Shaped, Rewritten
<1>4. Typed(h) /\ Roles(h)
  BY <1>2, <1>3, FewerValues DEF DiskInv, Typed, Rewritten
<1>5. Closures(h) = Closures(k)
  BY DEF Closures, Rewritten
<1>6. \A S \in Closures(h) : Landed(h, S) = Landed(k, S)
  BY <1>s, <1>5, RewrittenLands DEF Closures
<1>7. Unshared(h)
  BY <1>5, <1>6 DEF DiskInv, Unshared
<1>8. Seen(h) = Seen(k)
  BY <1>s, RewrittenIsUnseen
<1> QED
  BY <1>1, <1>2, <1>4, <1>7, <1>8 DEF Calmer, DiskInv

LEMMA DrainCalms ==
  ASSUME NEW k, DiskInv(k), NEW d
  PROVE  Calmer(Drained(k, d), k)
<1> DEFINE h == Drained(k, d)
           done == Done(k, d)
<1>s. Sound(k) /\ Sound(h)
  BY DrainedIsSound DEF DiskInv, Typed
<1>1. h = [store |-> Landed(k, done), ordered |-> k.ordered, grade |-> k.grade,
           log |-> [n \in DOMAIN k.log \ done |->
                     [puts |-> k.log[n].puts, device |-> k.log[n].device,
                      owed |-> k.log[n].owed, bound |-> k.log[n].bound,
                      after |-> k.log[n].after \ done]]]
  BY <1>s, DrainedIs
<1>2. done \in SUBSET DOMAIN k.log
  BY <1>s, DoneIsClosed
<1>8. Seen(h) = Seen(k)
  BY <1>s, DrainedIsUnseen
<1>9. \A S \in SUBSET (DOMAIN k.log \ done) : Landed(h, S) = Landed(k, S \cup done)
  BY <1>s, DrainedLands
<1>10. \A S \in Closures(h) : S \cup done \in Closures(k)
  <2> SUFFICES ASSUME NEW S \in Closures(h) PROVE S \cup done \in Closures(k)
    OBVIOUS
  <2>1. Possible(h, S, {})
    BY DEF Possible
  <2>2. Possible(k, S \cup done, {})
    BY <1>s, <2>1, DrainedOutcome
  <2> QED
    BY <2>2 DEF Possible
<1>v. \A l \in DOMAIN k.store : Values(h, l) \subseteq Values(k, l)
  BY <1>s, DrainedValues
<1> HIDE DEF h, done
<1>3. /\ h.store = Landed(k, done) /\ DOMAIN h.log = DOMAIN k.log \ done
      /\ \A n \in DOMAIN h.log : h.log[n].puts = k.log[n].puts
  BY <1>1
<1>4. DOMAIN h.store = Entries \cup Parts /\ DOMAIN k.store = Entries \cup Parts
  BY <1>2, <1>3, LandedTypes DEF DiskInv, Typed
<1>5. Shaped(h)
  BY <1>3 DEF DiskInv, Typed, Shaped
<1>6. Typed(h) /\ Roles(h)
  BY <1>s, <1>4, <1>5, <1>v, FewerValues
<1>7. Unshared(h)
  <2>1. \A S \in Closures(h) : S \in SUBSET (DOMAIN k.log \ done)
    BY <1>3 DEF Closures
  <2> QED
    BY <1>9, <1>10, <2>1 DEF DiskInv, Unshared
<1>11. \A l : WritersOf(h, l) \subseteq WritersOf(k, l)
  BY <1>3 DEF WritersOf, Writers
<1> QED
  BY <1>4, <1>6, <1>7, <1>8, <1>11, <1>v DEF Calmer, DiskInv, h

LEMMA HandCalms ==
  ASSUME NEW k, DiskInv(k), NEW os
  PROVE  Calmer(Handed(k, os), k)
<1>1. Sound(Handed(k, os)) /\ Rewritten(Handed(k, os), k)
  BY HandedFacts DEF DiskInv, Typed
<1> QED
  BY <1>1, RewriteCalms

LEMMA BarrierCalms ==
  ASSUME NEW k, DiskInv(k), NEW d
  PROVE  Calmer(Barriered(k, d), k)
<1>1. Sound(Barriered(k, d)) /\ Rewritten(Barriered(k, d), k)
  BY BarrieredFacts DEF DiskInv, Typed
<1> QED
  BY <1>1, RewriteCalms

LEMMA SyncCalms ==
  ASSUME NEW k, DiskInv(k), NEW o, NEW need
  PROVE  Calmer(Sync(k, o, need), k)
<1> DEFINE g == Handed(k, {o})
           given == IF Satisfies(k.grade, need) THEN need ELSE k.grade
<1>1. Calmer(g, k) /\ DiskInv(g)
  BY HandCalms DEF Calmer
<1>2. Calmer(Drained(g, Device(o)), g) /\ Calmer(Barriered(g, Device(o)), g)
  BY <1>1, DrainCalms, BarrierCalms
<1>3. Calmer(Drained(g, Device(o)), k) /\ Calmer(Barriered(g, Device(o)), k)
  BY <1>1, <1>2, CalmerTwice
<1>4. Sync(k, o, need) = IF given = "Durable" THEN Drained(g, Device(o))
                         ELSE IF given = "Ordered" THEN Barriered(g, Device(o))
                         ELSE g
  BY DEF Sync
<1> HIDE DEF g, given
<1> QED
  BY <1>1, <1>3, <1>4

LEMMA FileSyncCalms ==
  ASSUME NEW k, DiskInv(k), NEW p, NEW need
  PROVE  Calmer(SyncFile(k, p, need), k)
  BY SyncCalms, CalmerSame DEF SyncFile

LEMMA FlushCalms ==
  ASSUME NEW k, DiskInv(k), NEW debts, NEW anchor, NEW need
  PROVE  Calmer(FlushAll(k, debts, anchor, need), k)
<1>1. \A os : Calmer(Handed(k, os), k) /\ DiskInv(Handed(k, os))
  BY HandCalms DEF Calmer
<1>2. Calmer(Sync(Handed(k, debts \ {anchor}), anchor, need), Handed(k, debts \ {anchor}))
  BY <1>1, SyncCalms
<1>3. Calmer(Sync(Handed(k, debts \ {anchor}), anchor, need), k)
  BY <1>1, <1>2, CalmerTwice
<1> QED
  BY <1>1, <1>3, CalmerSame DEF FlushAll

-----------------------------------------------------------------------------
(* What each write does.                                                     *)

LEMMA AddedShows ==
  ASSUME NEW k, DiskInv(k), NEW h, NEW puts, Added(h, k, puts)
  PROVE  /\ \A l \in Entries \cup Parts :
              Seen(h)[l] = IF l \in DOMAIN puts THEN puts[l] ELSE Seen(k)[l]
         /\ \A l : Values(h, l) = IF l \in DOMAIN puts THEN Values(k, l) \cup {puts[l]}
                                  ELSE Values(k, l)
<1>s. Sound(k)
  BY DEF DiskInv, Typed
<1>1. \A l : IF l \in DOMAIN puts
             THEN l \in DOMAIN Seen(h) /\ Seen(h)[l] = puts[l]
             ELSE /\ l \in DOMAIN Seen(h) <=> l \in DOMAIN Seen(k)
                  /\ l \in DOMAIN Seen(k) => Seen(h)[l] = Seen(k)[l]
  BY <1>s, AddedSees
<1>2. \A l : IF l \in DOMAIN puts
             THEN Values(h, l) = Values(k, l) \cup {puts[l]}
             ELSE Values(h, l) = Values(k, l)
  BY AddedValues
<1>3. DOMAIN Seen(k) = Entries \cup Parts
  BY SeenTypes
<1> QED
  BY <1>1, <1>2, <1>3

LEMMA EntryDoes ==
  ASSUME NEW k, DiskInv(k), NEW puts, Fits(k, puts)
  PROVE  /\ DiskInv(Enter(k, puts))
         /\ \A l \in Entries \cup Parts :
              Seen(Enter(k, puts))[l] = IF l \in DOMAIN puts THEN puts[l] ELSE Seen(k)[l]
         /\ \A l : Values(Enter(k, puts), l) =
              IF l \in DOMAIN puts THEN Values(k, l) \cup {puts[l]} ELSE Values(k, l)
<1>1. \A os : Added(IssueBy(k, os, puts), k, puts)
  BY IssuedAdds DEF DiskInv, Typed
<1>2. Added(Enter(k, puts), k, puts)
  BY <1>1 DEF Enter
<1>3. DiskInv(Enter(k, puts))
  BY <1>2, EntryKeeps
<1> HIDE DEF Enter
<1> QED
  BY <1>2, <1>3, AddedShows

LEMMA PartDoes ==
  ASSUME NEW k, DiskInv(k), NEW n \in Inodes, NEW l, NEW v, PartFits(k, n, l, v),
         NEW h, Added(h, k, At(l, v))
  PROVE  /\ DiskInv(h)
         /\ \A x \in Entries \cup Parts : Seen(h)[x] = IF x = l THEN v ELSE Seen(k)[x]
         /\ \A x : Values(h, x) = IF x = l THEN Values(k, x) \cup {v} ELSE Values(k, x)
<1> DEFINE puts == At(l, v)
<1>1. Added(h, k, puts)
  OBVIOUS
<1>2. DiskInv(h)
  BY <1>1, PartKeeps
<1>3. DOMAIN puts = {l} /\ puts[l] = v
  BY OnePut
<1> HIDE DEF puts
<1>5. \A g, q : Added(g, k, q) =>
        /\ \A x \in Entries \cup Parts : Seen(g)[x] = IF x \in DOMAIN q THEN q[x] ELSE Seen(k)[x]
        /\ \A x : Values(g, x) = IF x \in DOMAIN q THEN Values(k, x) \cup {q[x]}
                                 ELSE Values(k, x)
  BY AddedShows
<1>4. /\ \A x \in Entries \cup Parts :
           Seen(h)[x] = IF x \in DOMAIN puts THEN puts[x] ELSE Seen(k)[x]
      /\ \A x : Values(h, x) = IF x \in DOMAIN puts THEN Values(k, x) \cup {puts[x]}
                               ELSE Values(k, x)
  BY <1>1, <1>5
<1> QED
  BY <1>2, <1>3, <1>4

LEMMA BytesDo ==
  ASSUME NEW k, DiskInv(k), NEW n \in Inodes, NEW v, PartFits(k, n, BytesOf(n), v)
  PROVE  LET h == SetBytes(k, n, v) IN
         /\ DiskInv(h)
         /\ \A x \in Entries \cup Parts : Seen(h)[x] = IF x = BytesOf(n) THEN v ELSE Seen(k)[x]
         /\ \A x : Values(h, x) = IF x = BytesOf(n) THEN Values(k, x) \cup {v} ELSE Values(k, x)
<1> DEFINE h == SetBytes(k, n, v)
<1>1. Added(h, k, At(BytesOf(n), v))
  BY IssuedAdds DEF SetBytes, DiskInv, Typed
<1> HIDE DEF h
<1>2. /\ DiskInv(h)
      /\ \A x \in Entries \cup Parts : Seen(h)[x] = IF x = BytesOf(n) THEN v ELSE Seen(k)[x]
      /\ \A x : Values(h, x) = IF x = BytesOf(n) THEN Values(k, x) \cup {v} ELSE Values(k, x)
  BY <1>1, PartDoes
<1> QED
  BY <1>2 DEF h

LEMMA ModeDoes ==
  ASSUME NEW k, DiskInv(k), NEW n \in Inodes, NEW v \in BOOLEAN
  PROVE  LET h == SetMode(k, n, v) IN
         /\ DiskInv(h)
         /\ \A x \in Entries \cup Parts : Seen(h)[x] = IF x = ModeOf(n) THEN v ELSE Seen(k)[x]
         /\ \A x : Values(h, x) = IF x = ModeOf(n) THEN Values(k, x) \cup {v} ELSE Values(k, x)
<1> DEFINE h == SetMode(k, n, v)
<1>1. Added(h, k, At(ModeOf(n), v))
  BY IssuedAdds DEF SetMode, DiskInv, Typed
<1>2. PartFits(k, n, ModeOf(n), v)
  BY DEF PartFits
<1> HIDE DEF h
<1>3. /\ DiskInv(h)
      /\ \A x \in Entries \cup Parts : Seen(h)[x] = IF x = ModeOf(n) THEN v ELSE Seen(k)[x]
      /\ \A x : Values(h, x) = IF x = ModeOf(n) THEN Values(k, x) \cup {v} ELSE Values(k, x)
  BY <1>1, <1>2, PartDoes
<1> QED
  BY <1>3 DEF h

\* One name entered.
LEMMA NameDoes ==
  ASSUME NEW k, DiskInv(k), NEW p, NEW v, Fits(k, At(p, v))
  PROVE  LET h == Enter(k, At(p, v)) IN
         /\ DiskInv(h)
         /\ \A l \in Entries \cup Parts : Seen(h)[l] = IF l = p THEN v ELSE Seen(k)[l]
         /\ \A l : Values(h, l) = IF l = p THEN Values(k, l) \cup {v} ELSE Values(k, l)
<1> DEFINE puts == At(p, v)
<1>1. DOMAIN puts = {p} /\ puts[p] = v
  BY OnePut
<1> HIDE DEF puts
<1>2. /\ DiskInv(Enter(k, puts))
      /\ \A l \in Entries \cup Parts :
           Seen(Enter(k, puts))[l] = IF l \in DOMAIN puts THEN puts[l] ELSE Seen(k)[l]
      /\ \A l : Values(Enter(k, puts), l) =
           IF l \in DOMAIN puts THEN Values(k, l) \cup {puts[l]} ELSE Values(k, l)
  <2>1. Fits(k, puts)
    BY DEF puts
  <2> QED
    BY <2>1, EntryDoes
<1>3. /\ \A l \in Entries \cup Parts : Seen(Enter(k, puts))[l] = IF l = p THEN v ELSE Seen(k)[l]
      /\ \A l : Values(Enter(k, puts), l) = IF l = p THEN Values(k, l) \cup {v} ELSE Values(k, l)
  BY <1>1, <1>2
<1> QED
  BY <1>2, <1>3 DEF puts

\* No name has had inode n, and no write is of its parts.
Unnamed(k, n) == \A l \in Entries : Inode(n) \notin Values(k, l)

Free(k, n) ==
  /\ Unnamed(k, n)
  /\ WritersOf(k, BytesOf(n)) = {} /\ WritersOf(k, ModeOf(n)) = {}

LEMMA UnknownIs ==
  ASSUME NEW k, Typed(k), NEW pool \in SUBSET Inodes, NEW n \in pool
  PROVE  n \in Unknown(k, pool) <=> Free(k, n)
<1> DEFINE named == {e \in {k.store[l] : l \in DOMAIN k.store \ Parts} : e.kind = "file"}
           Knows(w) == \E l \in DOMAIN w.puts :
                         l \in {BytesOf(n), ModeOf(n)} \/ (l \notin Parts /\ w.puts[l] = Inode(n))
<1>1. n \in Unknown(k, pool) <=> (Inode(n) \notin named /\ \A q \in DOMAIN k.log : ~Knows(k.log[q]))
  BY DEF Unknown
<1>2. DOMAIN k.store \ Parts = Entries
  BY LayoutAssumption DEF Typed
<1>3. Inode(n) \notin named <=> \A l \in Entries : k.store[l] # Inode(n)
  BY <1>2, EntriesDiffer
<1>4. (\A q \in DOMAIN k.log : ~Knows(k.log[q])) <=>
        /\ WritersOf(k, BytesOf(n)) = {} /\ WritersOf(k, ModeOf(n)) = {}
        /\ \A l \in Entries : \A q \in WritersOf(k, l) : k.log[q].puts[l] # Inode(n)
  <2>1. \A q \in DOMAIN k.log : \A l \in DOMAIN k.log[q].puts :
           l \in Entries \cup Parts /\ (l \notin Parts <=> l \in Entries)
    BY LayoutAssumption DEF Typed, Shaped
  <2> QED
    BY <2>1 DEF WritersOf, Writers
<1>5. Unnamed(k, n) <=> /\ \A l \in Entries : k.store[l] # Inode(n)
                        /\ \A l \in Entries : \A q \in WritersOf(k, l) : k.log[q].puts[l] # Inode(n)
  BY DEF Unnamed, Values
<1> HIDE DEF named, Knows
<1> QED
  BY <1>1, <1>3, <1>4, <1>5 DEF Free

LEMMA FreshIs ==
  ASSUME NEW k, Typed(k), NEW pool \in SUBSET Inodes, Unknown(k, pool) # {}
  PROVE  Fresh(k, pool) \in pool /\ Free(k, Fresh(k, pool))
<1>1. Unknown(k, pool) \in SUBSET pool /\ Unknown(k, pool) \in SUBSET Nat
  BY PoolsDiffer DEF Unknown
<1>2. \E x \in Unknown(k, pool) : \A y \in Unknown(k, pool) : x <= y
  BY <1>1, NatLeast
<1>3. Fresh(k, pool) \in Unknown(k, pool)
  BY <1>2 DEF Fresh, Fin!Min
<1> HIDE DEF Fresh
<1> QED
  BY <1>1, <1>3, UnknownIs

LEMMA CalmerFree ==
  ASSUME NEW k, NEW h, Calmer(h, k), NEW n \in Inodes, Free(k, n)
  PROVE  Free(h, n)
  BY PartsDiffer DEF Calmer, Free, Unnamed

\* Two disks of the same writes.
LEMMA SameLog ==
  ASSUME NEW k, NEW h, Sound(k), Sound(h), h.log = k.log,
         NEW S \in SUBSET DOMAIN k.log, NEW l \in DOMAIN k.store, l \in DOMAIN h.store
  PROVE  /\ h.store[l] = k.store[l] => Landed(h, S)[l] = Landed(k, S)[l]
         /\ WritersOf(k, l) = {} => Landed(h, S)[l] = h.store[l]
<1>1. Writers(h, S, l) = Writers(k, S, l)
  BY DEF Writers
<1>2. CASE Writers(k, S, l) = {}
  <2>1. Landed(k, S)[l] = k.store[l]
    BY <1>2, UnwrittenIs
  <2>2. Landed(h, S)[l] = h.store[l]
    BY <1>1, <1>2, UnwrittenIs
  <2> QED
    BY <2>1, <2>2
<1>3. CASE Writers(k, S, l) # {}
  <2>1. PICK n \in Writers(k, S, l) : \A m \in Writers(k, S, l) : m <= n
    BY <1>3, LastExists
  <2>2. Landed(k, S)[l] = k.log[n].puts[l]
    BY <2>1, LastIs
  <2>3. Landed(h, S)[l] = h.log[n].puts[l]
    BY <1>1, <2>1, LastIs
  <2>4. WritersOf(k, l) # {}
    BY <2>1 DEF Writers, WritersOf
  <2> QED
    BY <2>2, <2>3, <2>4
<1> QED
  BY <1>2, <1>3

LEMMA MintDoes ==
  ASSUME NEW k, DiskInv(k), NEW n \in Inodes, Free(k, n)
  PROVE  LET h == Minted(k, n) IN
         /\ DiskInv(h) /\ Unnamed(h, n) /\ Values(h, BytesOf(n)) = {Torn}
         /\ Seen(h)[BytesOf(n)] = Torn /\ Seen(h)[ModeOf(n)] = FALSE
         /\ \A l \in (Entries \cup Parts) \ {BytesOf(n), ModeOf(n)} : Seen(h)[l] = Seen(k)[l]
<1> DEFINE h == Minted(k, n)
           st == [k.store EXCEPT ![BytesOf(n)] = Torn, ![ModeOf(n)] = FALSE]
<1>s. Sound(k) /\ Sound(h)
  BY MintedIsSound DEF DiskInv, Typed
<1>1. h.store = st /\ h.log = k.log
  <2>1. k = [store |-> k.store, log |-> k.log, ordered |-> k.ordered, grade |-> k.grade]
    BY <1>s DEF Sound, Form
  <2>2. h = [k EXCEPT !.store = st]
    BY DEF Minted
  <2> HIDE DEF h, st
  <2> QED
    BY <2>1, <2>2
<1>2. /\ DOMAIN st = Entries \cup Parts /\ DOMAIN k.store = Entries \cup Parts
      /\ st[BytesOf(n)] = Torn /\ st[ModeOf(n)] = FALSE
      /\ \A l \in (Entries \cup Parts) \ {BytesOf(n), ModeOf(n)} : st[l] = k.store[l]
  BY PartsDiffer DEF DiskInv, Typed
<1> HIDE DEF h, st
<1>w. \A l : WritersOf(h, l) = WritersOf(k, l)
  BY <1>1 DEF WritersOf, Writers
<1>v. /\ \A l \in (Entries \cup Parts) \ {BytesOf(n), ModeOf(n)} : Values(h, l) = Values(k, l)
      /\ Values(h, BytesOf(n)) = {Torn} /\ Values(h, ModeOf(n)) = {FALSE}
  BY <1>1, <1>2, <1>w DEF Values, Free
<1>e. \A l \in Entries : Values(h, l) = Values(k, l)
  BY <1>v, PartsDiffer
<1>3. Typed(h)
  <2>1. Shaped(h)
    BY <1>1 DEF Shaped, DiskInv, Typed
  <2>2. \A m \in Inodes : Values(h, ModeOf(m)) \subseteq BOOLEAN
    <3> SUFFICES ASSUME NEW m \in Inodes PROVE Values(h, ModeOf(m)) \subseteq BOOLEAN
      OBVIOUS
    <3>1. CASE m = n
      BY <1>v, <3>1
    <3>2. CASE m # n
      BY <1>v, <3>2, PartsDiffer DEF DiskInv, Typed
    <3> QED
      BY <3>1, <3>2
  <2> QED
    BY <1>s, <1>1, <1>2, <1>e, <2>1, <2>2 DEF DiskInv, Typed
<1>4. Roles(h)
  <2> SUFFICES ASSUME NEW m \in Inodes
               PROVE  /\ \A p \in Slot : Inode(m) \in Values(h, p) => Document(h, m)
                      /\ \A j \in JournalNames : Inode(m) \in Values(h, j) => Intent(h, m)
    BY DEF Roles
  <2>j. \A j \in JournalNames : Values(h, j) = Values(k, j)
    BY <1>e, NamesDiffer
  <2>p. \A p \in Slot : Values(h, p) = Values(k, p)
    BY <1>e, NamesDiffer
  <2>1. CASE m = n
    BY <1>e, <2>1, NamesDiffer DEF Free, Unnamed
  <2>2. CASE m # n
    <3>1. Values(h, BytesOf(m)) = Values(k, BytesOf(m))
      BY <1>v, <2>2, PartsDiffer
    <3> QED
      BY <2>j, <2>p, <3>1 DEF DiskInv, Roles, Document, Intent
  <2> QED
    BY <2>1, <2>2
<1>l. /\ \A S \in SUBSET DOMAIN k.log : \A l \in (Entries \cup Parts) \ {BytesOf(n), ModeOf(n)} :
           Landed(h, S)[l] = Landed(k, S)[l]
      /\ \A S \in SUBSET DOMAIN k.log : \A l \in {BytesOf(n), ModeOf(n)} :
           Landed(h, S)[l] = h.store[l]
  <2> SUFFICES ASSUME NEW S \in SUBSET DOMAIN k.log, NEW l \in Entries \cup Parts
               PROVE  IF l \in {BytesOf(n), ModeOf(n)} THEN Landed(h, S)[l] = h.store[l]
                      ELSE Landed(h, S)[l] = Landed(k, S)[l]
    BY PartsDiffer
  <2>1. l \in DOMAIN k.store /\ l \in DOMAIN h.store
    BY <1>1, <1>2
  <2>2. /\ h.store[l] = k.store[l] => Landed(h, S)[l] = Landed(k, S)[l]
        /\ WritersOf(k, l) = {} => Landed(h, S)[l] = h.store[l]
    BY <1>s, <1>1, <2>1, SameLog
  <2> QED
    BY <1>1, <1>2, <2>2 DEF Free
<1>5. Unshared(h)
  <2>1. Closures(h) = Closures(k)
    BY <1>1 DEF Closures
  <2>2. \A S \in Closures(h) : \A x \in Slot : Landed(h, S)[x] = Landed(k, S)[x]
    <3>1. \A S \in Closures(h) : S \in SUBSET DOMAIN k.log
      BY <2>1 DEF Closures
    <3>2. \A x \in Slot : x \in (Entries \cup Parts) \ {BytesOf(n), ModeOf(n)}
      BY NamesDiffer, PartsDiffer
    <3> QED
      BY <1>l, <3>1, <3>2
  <2> QED
    BY <2>1, <2>2 DEF DiskInv, Unshared
<1>6. /\ Seen(h)[BytesOf(n)] = Torn /\ Seen(h)[ModeOf(n)] = FALSE
      /\ \A l \in (Entries \cup Parts) \ {BytesOf(n), ModeOf(n)} : Seen(h)[l] = Seen(k)[l]
  BY <1>l, <1>1, <1>2 DEF Seen
<1>7. Unnamed(h, n)
  BY <1>e DEF Free, Unnamed
<1> QED
  BY <1>3, <1>4, <1>5, <1>6, <1>7, <1>v DEF DiskInv, h

-----------------------------------------------------------------------------
(* A file written, whole, at a name.                                         *)

PoolFor(p) == IF p = InHome THEN HomePool ELSE Pool

WordsOf(p) == (IF p \in Slot THEN Bytes ELSE Staged) \cup {Torn}

Holders == Slot \cup JournalNames

\* h is k but for the file at p, of inode n.
FileAt(h, k, p, n, b, x) ==
  /\ DiskInv(h)
  /\ n \in Inodes
  /\ Seen(h)[p] = Inode(n) /\ Seen(h)[BytesOf(n)] = b /\ Seen(h)[ModeOf(n)] = x
  /\ \A l \in (Entries \cup Parts) \ {p, BytesOf(n), ModeOf(n)} : Seen(h)[l] = Seen(k)[l]
  /\ \A y \in Holders \ {p} : Seen(k)[y] # Inode(n)

LEMMA NewName ==
  ASSUME NEW k, DiskInv(k), NEW p \in Holders, NEW n \in PoolFor(p), Unnamed(k, n),
         Values(k, BytesOf(n)) \subseteq WordsOf(p)
  PROVE  Fits(k, At(p, Inode(n)))
<1> DEFINE puts == At(p, Inode(n))
<1>1. DOMAIN puts = {p} /\ puts[p] = Inode(n)
  BY OnePut
<1> HIDE DEF puts
<1>2. p \in Entries /\ (p \in Slot <=> p \notin JournalNames) /\ n \in Inodes
  BY NamesDiffer, PoolsDiffer DEF Holders, PoolFor
<1>3. Inode(n) \in CanHold(p)
  BY NamesDiffer DEF CanHold, PoolFor, Holders, JournalNames
<1>4. \A m : Inode(m) = Inode(n) => m = n
  BY EntriesDiffer
<1>5. Suits(k, n, p)
  BY <1>2, NamesDiffer DEF Suits, Document, Intent, WordsOf, Unnamed
<1>6. p \in Slot => Alone(k, puts, p)
  <2> SUFFICES ASSUME p \in Slot, NEW y \in Slot \ {p}, NEW S \in Closures(k)
               PROVE  Landed(k, S)[y] # Inode(n)
    BY <1>1, <1>4 DEF Alone
  <2>1. Landed(k, S)[y] \in Values(k, y)
    BY LandedTypes, NamesDiffer DEF Closures, DiskInv
  <2> QED
    BY <2>1, NamesDiffer DEF Unnamed
<1>7. \A q, r \in DOMAIN puts, m \in Inodes :
        (q \in Slot /\ r \in JournalNames) => puts[q] # Inode(m) \/ puts[r] # Inode(m)
  BY <1>1, <1>2
<1> QED
  BY <1>1, <1>2, <1>3, <1>4, <1>5, <1>6, <1>7 DEF Fits, puts

LEMMA ReplaceDoes ==
  ASSUME NEW k, DiskInv(k), NEW p \in Holders, Unknown(k, PoolFor(p)) # {},
         NEW b \in WordsOf(p), NEW x \in BOOLEAN
  PROVE  \E n : FileAt(Replace(k, p, b, x, PoolFor(p)), k, p, n, b, x)
<1> DEFINE n == Fresh(k, PoolFor(p))
           m0 == Minted(k, n)
           m1 == SetBytes(m0, n, b)
           m2 == Sync(m1, n, "Ordered")
           m3 == IF x THEN SetMode(m2, n, x) ELSE m2
           m4 == Enter(m3, At(p, Inode(n)))
<1>1. Replace(k, p, b, x, PoolFor(p)) = m4
  BY DEF Replace
<1>2. n \in PoolFor(p) /\ n \in Inodes /\ Free(k, n)
  <2>1. PoolFor(p) \in SUBSET Inodes
    BY PoolsDiffer DEF PoolFor
  <2> QED
    BY <2>1, FreshIs DEF DiskInv
<1>3. p \in Entries /\ p \notin Parts /\ p # BytesOf(n) /\ p # ModeOf(n)
  BY <1>2, NamesDiffer, PartsDiffer, LayoutAssumption DEF Holders
<1> HIDE DEF n
<1>4. /\ DiskInv(m0) /\ Unnamed(m0, n) /\ Values(m0, BytesOf(n)) = {Torn}
      /\ Seen(m0)[BytesOf(n)] = Torn /\ Seen(m0)[ModeOf(n)] = FALSE
      /\ \A l \in (Entries \cup Parts) \ {BytesOf(n), ModeOf(n)} : Seen(m0)[l] = Seen(k)[l]
  BY <1>2, MintDoes
<1> HIDE DEF m0
<1>5. PartFits(m0, n, BytesOf(n), b)
  BY <1>4, NamesDiffer DEF PartFits, Unnamed
<1>6. /\ DiskInv(m1)
      /\ \A l \in Entries \cup Parts : Seen(m1)[l] = IF l = BytesOf(n) THEN b ELSE Seen(m0)[l]
      /\ \A l : Values(m1, l) = IF l = BytesOf(n) THEN Values(m0, l) \cup {b} ELSE Values(m0, l)
  BY <1>2, <1>4, <1>5, BytesDo
<1> HIDE DEF m1
<1>7. Unnamed(m1, n) /\ Values(m1, BytesOf(n)) = {Torn, b}
  BY <1>2, <1>4, <1>6, PartsDiffer DEF Unnamed
<1>8. Calmer(m2, m1)
  BY <1>6, SyncCalms
<1> HIDE DEF m2
<1>9. /\ DiskInv(m2) /\ Seen(m2) = Seen(m1) /\ Unnamed(m2, n)
      /\ Values(m2, BytesOf(n)) \subseteq {Torn, b}
  <2>1. BytesOf(n) \in Entries \cup Parts
    BY <1>2, PartsDiffer
  <2> QED
    BY <1>7, <1>8, <2>1 DEF Calmer, Unnamed
<1>10. /\ DiskInv(SetMode(m2, n, x))
       /\ \A l \in Entries \cup Parts :
            Seen(SetMode(m2, n, x))[l] = IF l = ModeOf(n) THEN x ELSE Seen(m2)[l]
       /\ \A l : Values(SetMode(m2, n, x), l) =
            IF l = ModeOf(n) THEN Values(m2, l) \cup {x} ELSE Values(m2, l)
  BY <1>2, <1>9, ModeDoes
<1>11. x => /\ DiskInv(m3)
            /\ \A l \in Entries \cup Parts : Seen(m3)[l] = IF l = ModeOf(n) THEN x ELSE Seen(m2)[l]
            /\ \A l : Values(m3, l) = IF l = ModeOf(n) THEN Values(m2, l) \cup {x} ELSE Values(m2, l)
  BY <1>10
<1>12. ~x => m3 = m2 /\ x = FALSE
  OBVIOUS
<1> HIDE DEF m3
<1>p. /\ BytesOf(n) \in Entries \cup Parts /\ ModeOf(n) \in Entries \cup Parts
      /\ BytesOf(n) # ModeOf(n) /\ ModeOf(n) \notin Entries /\ BytesOf(n) \notin Entries
  BY <1>2, PartsDiffer
<1>13. /\ DiskInv(m3) /\ Unnamed(m3, n) /\ Values(m3, BytesOf(n)) \subseteq {Torn, b}
       /\ Seen(m3)[BytesOf(n)] = b /\ Seen(m3)[ModeOf(n)] = x
       /\ \A l \in (Entries \cup Parts) \ {BytesOf(n), ModeOf(n)} : Seen(m3)[l] = Seen(k)[l]
  <2>1. CASE x
    BY <1>4, <1>6, <1>9, <1>11, <1>p, <2>1 DEF Unnamed
  <2>2. CASE ~x
    BY <1>4, <1>6, <1>9, <1>12, <1>p, <2>2
  <2> QED
    BY <2>1, <2>2
<1>14. Fits(m3, At(p, Inode(n)))
  <2>1. Values(m3, BytesOf(n)) \subseteq WordsOf(p)
    BY <1>13 DEF WordsOf
  <2> QED
    BY <1>2, <1>13, <2>1, NewName
<1>15. /\ DiskInv(m4)
       /\ \A l \in Entries \cup Parts : Seen(m4)[l] = IF l = p THEN Inode(n) ELSE Seen(m3)[l]
  BY <1>13, <1>14, NameDoes
<1> HIDE DEF m4
<1>17. \A y \in Holders \ {p} : Seen(k)[y] # Inode(n)
  <2>1. \A y \in Holders : y \in Entries
    BY NamesDiffer DEF Holders
  <2>2. \A y \in Entries : Seen(k)[y] \in Values(k, y)
    BY SeenTypes
  <2> QED
    BY <1>2, <2>1, <2>2 DEF Free, Unnamed
<1>18. FileAt(m4, k, p, n, b, x)
  BY <1>2, <1>3, <1>p, <1>13, <1>15, <1>17 DEF FileAt
<1> QED
  BY <1>1, <1>18

\* Nothing else has the inode that is seen at a name.
LEMMA SoleHolder ==
  ASSUME NEW k, DiskInv(k), NEW p \in Holders, NEW n \in Inodes, Seen(k)[p] = Inode(n),
         NEW y \in Holders \ {p}
  PROVE  Seen(k)[y] # Inode(n)
<1>1. CASE p \in Slot /\ y \in Slot
  BY <1>1, SeenTypes
<1>2. /\ \A q \in Holders : Seen(k)[q] \in Values(k, q) /\ Seen(k)[q] \in CanHold(q)
      /\ p \in Entries /\ y \in Entries
  BY SeenTypes, NamesDiffer DEF Holders
<1>3. CASE p \in Slot /\ y \in JournalNames
  <2>1. Document(k, n)
    BY <1>3, SeenTypes
  <2> QED
    BY <1>2, <1>3, <2>1 DEF Document
<1>4. CASE p \in JournalNames /\ y \in Slot
  <2>1. Seen(k)[y] = Inode(n) => Document(k, n)
    BY <1>4, SeenTypes
  <2> QED
    BY <1>2, <1>4, <2>1 DEF Document
<1>5. CASE p \in JournalNames /\ y \in JournalNames
  <2>1. p \notin Slot /\ y \notin Slot
    BY <1>5, NamesDiffer
  <2>2. \A q \in JournalNames : Seen(k)[q] = Inode(n) => n \in PoolFor(q)
    <3> SUFFICES ASSUME NEW q \in JournalNames, Seen(k)[q] = Inode(n) PROVE n \in PoolFor(q)
      OBVIOUS
    <3>1. Seen(k)[q] \in CanHold(q) /\ q \in Entries
      BY <1>2, NamesDiffer DEF Holders
    <3>2. Seen(k)[q].kind = "file" /\ Seen(k)[q].inode = n
      BY EntriesDiffer
    <3>3. /\ Gone.kind # "file" /\ Subdir.kind # "file"
          /\ \A to \in Target : Symlink(to).kind # "file"
      BY EntriesDiffer
    <3>4. Seen(k)[q].inode \in PoolFor(q)
      BY <3>1, <3>2, HoldKinds DEF PoolFor
    <3> QED
      BY <3>2, <3>4
  <2>3. {p, y} = {InRoot, InHome}
    BY <1>5 DEF JournalNames
  <2> QED
    BY <1>5, <2>2, <2>3, PoolsDiffer, NamesDiffer DEF PoolFor
<1> QED
  BY <1>1, <1>3, <1>4, <1>5 DEF Holders

LEMMA InPlaceDoes ==
  ASSUME NEW k, DiskInv(k), NEW p \in Holders, NEW n \in Inodes, Seen(k)[p] = Inode(n)
  PROVE  /\ \A b \in WordsOf(p) : FileAt(SetBytes(k, n, b), k, p, n, b, Seen(k)[ModeOf(n)])
         /\ \A x \in BOOLEAN : FileAt(SetMode(k, n, x), k, p, n, Seen(k)[BytesOf(n)], x)
<1>1. \A y \in Holders \ {p} : Seen(k)[y] # Inode(n)
  BY SoleHolder
<1>2. /\ BytesOf(n) \in Entries \cup Parts /\ ModeOf(n) \in Entries \cup Parts
      /\ BytesOf(n) # ModeOf(n) /\ ModeOf(n) \notin Entries /\ BytesOf(n) \notin Entries
      /\ p \in Entries
  BY PartsDiffer, NamesDiffer DEF Holders
<1>3. ASSUME NEW b \in WordsOf(p)
      PROVE  FileAt(SetBytes(k, n, b), k, p, n, b, Seen(k)[ModeOf(n)])
  <2>1. PartFits(k, n, BytesOf(n), b)
    <3>1. CASE p \in Slot
      <4>1. Document(k, n) /\ b \in Bytes \cup {Torn}
        BY <3>1, SeenTypes DEF WordsOf
      <4> QED
        BY <4>1 DEF PartFits, Document
    <3>2. CASE p \in JournalNames
      <4>1. p \notin Slot /\ b \in Staged \cup {Torn}
        BY <3>2, NamesDiffer DEF WordsOf
      <4>2. Inode(n) \in Values(k, p)
        BY <1>2, SeenTypes
      <4>3. \A q \in Slot : Inode(n) \notin Values(k, q)
        BY <3>2, <4>2 DEF DiskInv, Roles, Document
      <4> QED
        BY <4>1, <4>3 DEF PartFits
    <3> QED
      BY <3>1, <3>2 DEF Holders
  <2>2. /\ DiskInv(SetBytes(k, n, b))
        /\ \A l \in Entries \cup Parts :
             Seen(SetBytes(k, n, b))[l] = IF l = BytesOf(n) THEN b ELSE Seen(k)[l]
    BY <2>1, BytesDo
  <2> QED
    BY <1>1, <1>2, <2>2 DEF FileAt
<1>4. ASSUME NEW x \in BOOLEAN
      PROVE  FileAt(SetMode(k, n, x), k, p, n, Seen(k)[BytesOf(n)], x)
  <2>2. /\ DiskInv(SetMode(k, n, x))
        /\ \A l \in Entries \cup Parts :
             Seen(SetMode(k, n, x))[l] = IF l = ModeOf(n) THEN x ELSE Seen(k)[l]
    BY ModeDoes
  <2> QED
    BY <1>1, <1>2, <2>2 DEF FileAt
<1> QED
  BY <1>3, <1>4

LEMMA OverwriteDoes ==
  ASSUME NEW k, DiskInv(k), NEW p \in Holders, Unknown(k, PoolFor(p)) # {},
         NEW b \in WordsOf(p)
  PROVE  \E n : FileAt(Overwritten(k, p, b, PoolFor(p)), k, p, n, b,
                       Seen(k)[p].kind = "file" /\ Seen(k)[ModeOf(Seen(k)[p].inode)])
<1>p. p \in Entries /\ p \notin Parts /\ Seen(k)[p] \in CanHold(p)
  BY NamesDiffer, LayoutAssumption, SeenTypes DEF Holders
<1>1. CASE Seen(k)[p].kind = "file"
  <2> DEFINE n == Seen(k)[p].inode
  <2>1. Seen(k)[p] = Inode(n) /\ n \in Inodes
    BY <1>p, <1>1, HoldKinds
  <2>2. Overwritten(k, p, b, PoolFor(p)) = SetBytes(k, n, b)
    BY <1>1 DEF Overwritten
  <2>3. Seen(k)[ModeOf(n)] \in BOOLEAN
    BY <2>1, SeenTypes
  <2> HIDE DEF n
  <2>4. FileAt(SetBytes(k, n, b), k, p, n, b, Seen(k)[ModeOf(n)])
    BY <2>1, InPlaceDoes
  <2>5. (Seen(k)[p].kind = "file" /\ Seen(k)[ModeOf(n)]) = Seen(k)[ModeOf(n)]
    BY <1>1, <2>3
  <2>6. FileAt(SetBytes(k, n, b), k, p, n, b, Seen(k)[p].kind = "file" /\ Seen(k)[ModeOf(n)])
    BY <2>4, <2>5
  <2> QED
    BY <2>2, <2>6 DEF n
<1>2. CASE Seen(k)[p].kind # "file"
  <2> DEFINE n == Fresh(k, PoolFor(p))
             m0 == Minted(k, n)
             m1 == Enter(m0, At(p, Inode(n)))
             m2 == SetBytes(m1, n, b)
  <2>1. Overwritten(k, p, b, PoolFor(p)) = m2
    BY <1>2 DEF Overwritten
  <2>2. n \in PoolFor(p) /\ n \in Inodes /\ Free(k, n)
    <3>1. PoolFor(p) \in SUBSET Inodes
      BY PoolsDiffer DEF PoolFor
    <3> QED
      BY <3>1, FreshIs DEF DiskInv
  <2> HIDE DEF n
  <2>3. p # BytesOf(n) /\ p # ModeOf(n)
    BY <1>p, <2>2, PartsDiffer
  <2>4. /\ DiskInv(m0) /\ Unnamed(m0, n) /\ Values(m0, BytesOf(n)) = {Torn}
        /\ Seen(m0)[BytesOf(n)] = Torn /\ Seen(m0)[ModeOf(n)] = FALSE
        /\ \A l \in (Entries \cup Parts) \ {BytesOf(n), ModeOf(n)} : Seen(m0)[l] = Seen(k)[l]
    BY <2>2, MintDoes
  <2> HIDE DEF m0
  <2>5. Fits(m0, At(p, Inode(n)))
    <3>1. Values(m0, BytesOf(n)) \subseteq WordsOf(p)
      BY <2>4 DEF WordsOf
    <3> QED
      BY <2>2, <2>4, <3>1, NewName
  <2>6. /\ DiskInv(m1)
        /\ \A l \in Entries \cup Parts : Seen(m1)[l] = IF l = p THEN Inode(n) ELSE Seen(m0)[l]
    BY <2>4, <2>5, NameDoes
  <2> HIDE DEF m1
  <2>8. Seen(m1)[p] = Inode(n) /\ Seen(m1)[ModeOf(n)] = FALSE
    BY <1>p, <2>2, <2>3, <2>4, <2>6, PartsDiffer
  <2>9. FileAt(m2, m1, p, n, b, FALSE)
    BY <2>2, <2>6, <2>8, InPlaceDoes
  <2>10. \A y \in Holders \ {p} : Seen(k)[y] # Inode(n)
    <3>1. \A y \in Holders : y \in Entries
      BY NamesDiffer DEF Holders
    <3>2. \A y \in Entries : Seen(k)[y] \in Values(k, y)
      BY SeenTypes
    <3> QED
      BY <2>2, <3>1, <3>2 DEF Free, Unnamed
  <2> HIDE DEF m2
  <2>11. FileAt(m2, k, p, n, b, FALSE)
    BY <2>4, <2>6, <2>9, <2>10 DEF FileAt
  <2>12. (Seen(k)[p].kind = "file" /\ Seen(k)[ModeOf(Seen(k)[p].inode)]) = FALSE
    BY <1>2
  <2> QED
    BY <2>1, <2>11, <2>12
<1> QED
  BY <1>1, <1>2

-----------------------------------------------------------------------------
(* The tree and the journal a disk shows.                                    *)

LEMMA Shown ==
  ASSUME NEW k, DiskInv(k)
  PROVE  /\ TreeIn(Seen(k)) \in Trees
         /\ \A p \in Slot :
              /\ TreeIn(Seen(k))[p] = EntryIn(Seen(k), p)
              /\ TreeIn(Seen(k))[p].kind = Seen(k)[p].kind
              /\ Seen(k)[p].kind = "link" => TreeIn(Seen(k))[p].target = Seen(k)[p].target
              /\ Seen(k)[p].kind = "file" =>
                   LET n == Seen(k)[p].inode IN
                   /\ n \in Inodes /\ Seen(k)[p] = Inode(n)
                   /\ TreeIn(Seen(k))[p] = File(Seen(k)[BytesOf(n)], Seen(k)[ModeOf(n)])
                   /\ TreeIn(Seen(k))[p].bytes = Seen(k)[BytesOf(n)]
                   /\ TreeIn(Seen(k))[p].exec = Seen(k)[ModeOf(n)]
<1> SUFFICES ASSUME NEW p \in Slot
             PROVE  LET d == EntryIn(Seen(k), p)
                        n == Seen(k)[p].inode
                    IN  /\ d \in Entry /\ d.kind = Seen(k)[p].kind
                        /\ Seen(k)[p].kind = "link" => d.target = Seen(k)[p].target
                        /\ Seen(k)[p].kind = "file" =>
                             /\ n \in Inodes /\ Seen(k)[p] = Inode(n)
                             /\ d = File(Seen(k)[BytesOf(n)], Seen(k)[ModeOf(n)])
                             /\ d.bytes = Seen(k)[BytesOf(n)]
                             /\ d.exec = Seen(k)[ModeOf(n)]
  BY DEF TreeIn, Trees
<1>1. p \in Entries /\ Seen(k)[p] \in CanHold(p)
  BY NamesDiffer, SeenTypes
<1>2. /\ \/ Seen(k)[p].kind = "absent"
         \/ Seen(k)[p].kind = "dir"
         \/ /\ Seen(k)[p] = Inode(Seen(k)[p].inode) /\ Seen(k)[p].kind = "file"
            /\ Seen(k)[p].inode \in Inodes
         \/ Seen(k)[p].kind = "link" /\ Seen(k)[p].target \in Target
  BY <1>1, HoldKinds
<1>3. CASE Seen(k)[p].kind = "file"
  <2> DEFINE n == Seen(k)[p].inode
  <2>1. n \in Inodes /\ Seen(k)[p] = Inode(n)
    BY <1>2, <1>3
  <2>2. Seen(k)[BytesOf(n)] \in Bytes \cup {Torn} /\ Seen(k)[ModeOf(n)] \in BOOLEAN
    BY <2>1, SeenTypes
  <2>3. EntryIn(Seen(k), p) = File(Seen(k)[BytesOf(n)], Seen(k)[ModeOf(n)])
    BY <1>3 DEF EntryIn
  <2> HIDE DEF n
  <2>4. /\ EntryIn(Seen(k), p) \in Entry /\ EntryIn(Seen(k), p).kind = "file"
        /\ EntryIn(Seen(k), p).bytes = Seen(k)[BytesOf(n)]
        /\ EntryIn(Seen(k), p).exec = Seen(k)[ModeOf(n)]
    BY <2>2, <2>3, EntryTypes DEF File
  <2> QED
    BY <1>3, <2>1, <2>3, <2>4 DEF n
<1>4. CASE Seen(k)[p].kind = "link"
  <2>1. EntryIn(Seen(k), p) = Link(Seen(k)[p].target)
    BY <1>4 DEF EntryIn
  <2> QED
    BY <1>2, <1>4, <2>1, EntryTypes DEF Link
<1>5. CASE Seen(k)[p].kind = "dir"
  <2>1. EntryIn(Seen(k), p) = Directory
    BY <1>5 DEF EntryIn
  <2> QED
    BY <1>5, <2>1 DEF Directory, Entry
<1>6. CASE Seen(k)[p].kind = "absent"
  <2>1. EntryIn(Seen(k), p) = Absent
    BY <1>6 DEF EntryIn
  <2> QED
    BY <1>6, <2>1 DEF Absent, Entry
<1> QED
  BY <1>2, <1>3, <1>4, <1>5, <1>6

\* Two stores that have the same at y, and of its inode.
SameAt(r, s, y) ==
  r[y] = s[y] /\ \A m \in Inodes : s[y] = Inode(m) =>
                   r[BytesOf(m)] = s[BytesOf(m)] /\ r[ModeOf(m)] = s[ModeOf(m)]

LEMMA SameEntry ==
  ASSUME NEW k, DiskInv(k), NEW r, NEW y \in Slot, SameAt(r, Seen(k), y)
  PROVE  EntryIn(r, y) = EntryIn(Seen(k), y)
<1>1. Seen(k)[y].kind = "file" =>
        Seen(k)[y].inode \in Inodes /\ Seen(k)[y] = Inode(Seen(k)[y].inode)
  BY Shown
<1> QED
  BY <1>1 DEF EntryIn, SameAt

LEMMA SameJournal ==
  ASSUME NEW k, DiskInv(k), NEW r, kept \in JournalNames, SameAt(r, Seen(k), kept),
         r[HomeName] = Seen(k)[HomeName]
  PROVE  JournalIn(r) = JournalIn(Seen(k))
<1>1. kept \in Entries /\ Seen(k)[kept] \in CanHold(kept) /\ kept \notin Slot
  BY NamesDiffer, SeenTypes
<1>2. \/ Seen(k)[kept].kind = "absent"
      \/ Seen(k)[kept].inode \in Inodes /\ Seen(k)[kept] = Inode(Seen(k)[kept].inode)
  BY <1>1, HoldKinds
<1> QED
  BY <1>2 DEF JournalIn, SameAt

LEMMA JournalShown ==
  ASSUME NEW k, DiskInv(k), kept \in JournalNames
  PROVE  JournalIn(Seen(k)) \in {None, Garbled} \cup Staged
<1>1. kept \in Entries /\ Seen(k)[kept] \in CanHold(kept) /\ kept \notin Slot
  BY NamesDiffer, SeenTypes
<1>2. \/ Seen(k)[kept].kind = "absent"
      \/ Seen(k)[kept].inode \in Inodes /\ Seen(k)[kept] = Inode(Seen(k)[kept].inode)
  BY <1>1, HoldKinds
<1>3. CASE Seen(k)[kept].inode \in Inodes /\ Seen(k)[kept] = Inode(Seen(k)[kept].inode)
  <2>1. Seen(k)[BytesOf(Seen(k)[kept].inode)] \in Staged \cup {Torn}
    BY <1>3, SeenTypes
  <2> QED
    BY <2>1 DEF JournalIn
<1> QED
  BY <1>2, <1>3 DEF JournalIn

\* A file written at a slot, or where the journal is kept.
LEMMA FileShows ==
  ASSUME NEW k, DiskInv(k), kept \in JournalNames, NEW p \in Slot,
         NEW h, NEW n, NEW b, NEW x, FileAt(h, k, p, n, b, x)
  PROVE  /\ TreeIn(Seen(h)) = [TreeIn(Seen(k)) EXCEPT ![p] = File(b, x)]
         /\ JournalIn(Seen(h)) = JournalIn(Seen(k))
<1>1. \A y \in Holders \ {p} : SameAt(Seen(h), Seen(k), y)
  BY PartsDiffer, NamesDiffer DEF FileAt, SameAt, Holders
<1>2. EntryIn(Seen(h), p) = File(b, x)
  <2>1. Seen(h)[p].kind = "file" /\ Seen(h)[p].inode = n
    BY EntriesDiffer DEF FileAt
  <2> QED
    BY <2>1 DEF EntryIn, FileAt
<1>3. \A y \in Slot \ {p} : EntryIn(Seen(h), y) = EntryIn(Seen(k), y)
  BY <1>1, SameEntry DEF Holders
<1>4. Seen(h)[HomeName] = Seen(k)[HomeName]
  BY NamesDiffer, PartsDiffer DEF FileAt
<1>5. JournalIn(Seen(h)) = JournalIn(Seen(k))
  <2>1. kept \in Holders \ {p}
    BY NamesDiffer DEF Holders
  <2> QED
    BY <1>1, <1>4, <2>1, SameJournal
<1> QED
  BY <1>2, <1>3, <1>5 DEF TreeIn

LEMMA JournalFileShows ==
  ASSUME NEW k, DiskInv(k), kept \in JournalNames,
         NEW h, NEW n, NEW b, NEW x, FileAt(h, k, kept, n, b, x)
  PROVE  /\ TreeIn(Seen(h)) = TreeIn(Seen(k))
         /\ JournalIn(Seen(h)) = IF HomeMissing(k) THEN None
                                 ELSE IF b = Torn THEN Garbled ELSE b
<1>1. \A y \in Slot : SameAt(Seen(h), Seen(k), y)
  BY PartsDiffer, NamesDiffer DEF FileAt, SameAt, Holders
<1>2. \A y \in Slot : EntryIn(Seen(h), y) = EntryIn(Seen(k), y)
  BY <1>1, SameEntry
<1>3. Seen(h)[HomeName] = Seen(k)[HomeName]
  BY NamesDiffer, PartsDiffer DEF FileAt
<1>4. Seen(h)[kept].kind = "file" /\ Seen(h)[kept].inode = n /\ Seen(h)[BytesOf(n)] = b
  BY EntriesDiffer DEF FileAt
<1>5. TreeIn(Seen(h)) = TreeIn(Seen(k))
  BY <1>2 DEF TreeIn
<1>6. JournalIn(Seen(h)) = IF HomeMissing(k) THEN None ELSE IF b = Torn THEN Garbled ELSE b
  BY <1>3, <1>4 DEF JournalIn, HomeMissing
<1> QED
  BY <1>5, <1>6

-----------------------------------------------------------------------------
(* Names unlinked, linked and moved.                                         *)

LEMMA UnlinkDoes ==
  ASSUME NEW k, DiskInv(k), NEW p \in Entries
  PROVE  /\ DiskInv(Unlinked(k, p))
         /\ \A l \in Entries \cup Parts :
              Seen(Unlinked(k, p))[l] = IF l = p THEN Gone ELSE Seen(k)[l]
<1> DEFINE puts == At(p, Gone)
<1>1. DOMAIN puts = {p} /\ puts[p] = Gone
  BY OnePut
<1> HIDE DEF puts
<1>2. Gone \in CanHold(p)
  BY DEF CanHold
<1>3. \A n : Inode(n) # Gone
  BY EntriesDiffer
<1>4. Fits(k, puts)
  BY <1>1, <1>2, <1>3 DEF Fits, Alone
<1>5. Fits(k, At(p, Gone))
  BY <1>4 DEF puts
<1> QED
  BY <1>5, NameDoes DEF Unlinked

LEMMA SymlinkDoes ==
  ASSUME NEW k, DiskInv(k), NEW p \in Slot, NEW to \in Target
  PROVE  /\ DiskInv(Symlinked(k, p, to))
         /\ \A l \in Entries \cup Parts :
              Seen(Symlinked(k, p, to))[l] = IF l = p THEN Symlink(to) ELSE Seen(k)[l]
<1> DEFINE puts == At(p, Symlink(to))
<1>1. DOMAIN puts = {p} /\ puts[p] = Symlink(to)
  BY OnePut
<1> HIDE DEF puts
<1>2. Symlink(to) \in CanHold(p) /\ p \in Entries
  BY NamesDiffer DEF CanHold
<1>3. \A n : Inode(n) # Symlink(to)
  BY EntriesDiffer
<1>4. Fits(k, puts)
  BY <1>1, <1>2, <1>3 DEF Fits, Alone
<1>5. Fits(k, At(p, Symlink(to)))
  BY <1>4 DEF puts
<1> QED
  BY <1>5, NameDoes DEF Symlinked

\* The home's own entry, which no file comes to.
LEMMA HomeDoes ==
  ASSUME NEW k, DiskInv(k)
  PROVE  LET h == Enter(k, At(HomeName, Subdir)) IN
         /\ DiskInv(h)
         /\ \A l \in Entries \cup Parts : Seen(h)[l] = IF l = HomeName THEN Subdir ELSE Seen(k)[l]
         /\ \A n \in Inodes : Free(k, n) => Free(h, n)
<1> DEFINE puts == At(HomeName, Subdir)
<1>1. DOMAIN puts = {HomeName} /\ puts[HomeName] = Subdir
  BY OnePut
<1> HIDE DEF puts
<1>2. Subdir \in CanHold(HomeName) /\ HomeName \in Entries /\ HomeName \notin Slot \cup JournalNames
  BY NamesDiffer DEF CanHold, JournalNames
<1>3. \A n : Inode(n) # Subdir
  BY EntriesDiffer
<1>4. Fits(k, puts)
  BY <1>1, <1>2, <1>3 DEF Fits, Alone
<1>5. Fits(k, At(HomeName, Subdir))
  BY <1>4 DEF puts
<1> DEFINE h == Enter(k, puts)
<1>6. /\ DiskInv(h)
      /\ \A l \in Entries \cup Parts : Seen(h)[l] = IF l = HomeName THEN Subdir ELSE Seen(k)[l]
      /\ \A l : Values(h, l) = IF l = HomeName THEN Values(k, l) \cup {Subdir} ELSE Values(k, l)
  BY <1>5, NameDoes DEF puts
<1>7. Added(h, k, puts)
  BY IssuedAdds DEF Enter, DiskInv, Typed
<1> HIDE DEF h
<1>8. ASSUME NEW n \in Inodes, Free(k, n) PROVE Free(h, n)
  <2>1. Unnamed(h, n)
    BY <1>3, <1>6, <1>8 DEF Free, Unnamed
  <2>2. BytesOf(n) \notin DOMAIN puts /\ ModeOf(n) \notin DOMAIN puts
    BY <1>1, <1>2, PartsDiffer
  <2>3. \A g, q : Added(g, k, q) => \A l : l \notin DOMAIN q => WritersOf(g, l) = WritersOf(k, l)
    BY AddedValues
  <2> QED
    BY <1>7, <1>8, <2>1, <2>2, <2>3 DEF Free
<1> QED
  BY <1>6, <1>8 DEF h, puts

LEMMA RenameDoes ==
  ASSUME NEW k, DiskInv(k), NEW p \in Slot, NEW q \in Slot, p # q
  PROVE  /\ DiskInv(Renamed(k, p, q))
         /\ \A l \in Entries \cup Parts :
              Seen(Renamed(k, p, q))[l] =
                IF l = p THEN Gone ELSE IF l = q THEN Seen(k)[p] ELSE Seen(k)[l]
<1> DEFINE puts == [l \in {p, q} |-> IF l = p THEN Gone ELSE Seen(k)[p]]
<1>1. DOMAIN puts = {p, q} /\ puts[p] = Gone /\ puts[q] = Seen(k)[p]
  OBVIOUS
<1> HIDE DEF puts
<1>2. p \in Entries /\ q \in Entries /\ p \notin JournalNames /\ q \notin JournalNames
  BY NamesDiffer
<1>3. \A n : Inode(n) # Gone
  BY EntriesDiffer
<1>4. Seen(k)[p] \in CanHold(q) /\ Gone \in CanHold(p)
  <2>1. Seen(k)[p] \in CanHold(p)
    BY <1>2, SeenTypes
  <2> QED
    BY <2>1 DEF CanHold
<1>5. \A n \in Inodes : Seen(k)[p] = Inode(n) => Document(k, n)
  BY SeenTypes
<1>6. Alone(k, puts, q)
  <2> SUFFICES ASSUME NEW n \in Inodes, Seen(k)[p] = Inode(n), NEW y \in Slot \ {q},
                      y \notin DOMAIN puts, NEW S \in Closures(k),
                      \A x \in DOMAIN puts : WritersOf(k, x) \subseteq S
               PROVE  Landed(k, S)[y] # Inode(n)
    BY <1>1, <1>3 DEF Alone
  <2>1. WritersOf(k, p) \subseteq S /\ y # p
    BY <1>1
  <2>2. p \in DOMAIN k.store /\ Sound(k) /\ S \in SUBSET DOMAIN k.log
    BY <1>2 DEF DiskInv, Typed, Closures
  <2>3. Landed(k, S)[p] = Inode(n)
    BY <2>1, <2>2, LandedIsValue
  <2> QED
    BY <2>1, <2>3 DEF DiskInv, Unshared
<1>7. Alone(k, puts, p)
  BY <1>1, <1>3 DEF Alone
<1>8. Fits(k, puts)
  BY <1>1, <1>2, <1>3, <1>4, <1>5, <1>6, <1>7 DEF Fits, Suits
<1>9. Renamed(k, p, q) = Enter(k, puts)
  BY DEF Renamed, puts
<1>10. \A l \in Entries \cup Parts :
         Seen(Enter(k, puts))[l] = IF l \in DOMAIN puts THEN puts[l] ELSE Seen(k)[l]
  BY <1>8, EntryDoes
<1>11. DiskInv(Enter(k, puts))
  BY <1>8, EntryDoes
<1> QED
  BY <1>1, <1>9, <1>10, <1>11

-----------------------------------------------------------------------------
(* What a disk holds: the tree t and the journal j, as a process sees it.    *)

Does(k, t, j) ==
  /\ DiskInv(k)
  /\ TreeIn(Seen(k)) = t
  /\ JournalIn(Seen(k)) = j

LEMMA CalmDoes ==
  ASSUME NEW k, NEW h, NEW t, NEW j, Calmer(h, k), Does(k, t, j)
  PROVE  Does(h, t, j)
  BY DEF Calmer, Does

LEMMA DoesTypes ==
  ASSUME NEW k, NEW t, NEW j, Does(k, t, j)
  PROVE  /\ DiskInv(k) /\ t \in Trees
         /\ \A p \in Slot :
              /\ t[p].kind = Seen(k)[p].kind
              /\ IsLink(t[p]) <=> Seen(k)[p].kind = "link"
              /\ IsFile(t[p]) <=> Seen(k)[p].kind = "file"
              /\ IsFile(t[p]) =>
                   LET n == Seen(k)[p].inode IN
                   /\ n \in Inodes /\ Seen(k)[p] = Inode(n)
                   /\ t[p].bytes = Seen(k)[BytesOf(n)]
                   /\ t[p].exec = Seen(k)[ModeOf(n)]
  BY Shown DEF Does, IsLink, IsFile

LEMMA RemovedOn ==
  ASSUME NEW k, NEW t, NEW j, Does(k, t, j), kept \in JournalNames, NEW p \in Slot
  PROVE  Does(Unlinked(k, p), Removed(t, p), j)
<1> DEFINE h == Unlinked(k, p)
<1>1. /\ DiskInv(h) /\ DiskInv(k)
      /\ \A l \in Entries \cup Parts : Seen(h)[l] = IF l = p THEN Gone ELSE Seen(k)[l]
  BY UnlinkDoes, NamesDiffer DEF Does
<1> HIDE DEF h
<1>2. \A y \in Holders \ {p} : SameAt(Seen(h), Seen(k), y)
  BY <1>1, PartsDiffer, NamesDiffer DEF SameAt, Holders
<1>3. EntryIn(Seen(h), p) = Absent
  BY <1>1, NamesDiffer, EntriesDiffer DEF EntryIn
<1>4. \A y \in Slot \ {p} : EntryIn(Seen(h), y) = EntryIn(Seen(k), y)
  BY <1>1, <1>2, SameEntry DEF Holders
<1>5. JournalIn(Seen(h)) = JournalIn(Seen(k))
  BY <1>1, <1>2, SameJournal, NamesDiffer DEF Holders
<1> QED
  BY <1>1, <1>3, <1>4, <1>5 DEF TreeIn, Does, Removed, h

LEMMA LinkedOn ==
  ASSUME NEW k, NEW t, NEW j, Does(k, t, j), kept \in JournalNames, NEW p \in Slot,
         NEW to \in Target
  PROVE  Does(Symlinked(k, p, to), Linked(t, p, to), j)
<1> DEFINE h == Symlinked(k, p, to)
<1>1. /\ DiskInv(h) /\ DiskInv(k)
      /\ \A l \in Entries \cup Parts : Seen(h)[l] = IF l = p THEN Symlink(to) ELSE Seen(k)[l]
  BY SymlinkDoes DEF Does
<1> HIDE DEF h
<1>2. \A y \in Holders \ {p} : SameAt(Seen(h), Seen(k), y)
  BY <1>1, PartsDiffer, NamesDiffer DEF SameAt, Holders
<1>3. EntryIn(Seen(h), p) = Link(to)
  BY <1>1, NamesDiffer, EntriesDiffer DEF EntryIn
<1>4. \A y \in Slot \ {p} : EntryIn(Seen(h), y) = EntryIn(Seen(k), y)
  BY <1>1, <1>2, SameEntry DEF Holders
<1>5. JournalIn(Seen(h)) = JournalIn(Seen(k))
  BY <1>1, <1>2, SameJournal, NamesDiffer DEF Holders
<1> QED
  BY <1>1, <1>3, <1>4, <1>5 DEF TreeIn, Does, Linked, h

LEMMA MovedOn ==
  ASSUME NEW k, NEW t, NEW j, Does(k, t, j), kept \in JournalNames,
         NEW p \in Slot, NEW q \in Slot
  PROVE  Does(Renamed(k, p, q), Moved(t, p, q), j)
<1>0. CASE p = q
  BY <1>0 DEF Renamed, Moved
<1> DEFINE h == Renamed(k, p, q)
<1>n. CASE p # q
  <2>1. /\ DiskInv(h) /\ DiskInv(k)
        /\ \A l \in Entries \cup Parts :
             Seen(h)[l] = IF l = p THEN Gone ELSE IF l = q THEN Seen(k)[p] ELSE Seen(k)[l]
    BY <1>n, RenameDoes DEF Does
  <2> HIDE DEF h
  <2>2. \A y \in Holders \ {p, q} : SameAt(Seen(h), Seen(k), y)
    BY <2>1, PartsDiffer, NamesDiffer DEF SameAt, Holders
  <2>3. EntryIn(Seen(h), p) = Absent
    BY <2>1, NamesDiffer, EntriesDiffer DEF EntryIn
  <2>4. EntryIn(Seen(h), q) = EntryIn(Seen(k), p)
    <3>1. Seen(h)[q] = Seen(k)[p]
      BY <1>n, <2>1, NamesDiffer
    <3>2. Seen(k)[p].kind = "file" => Seen(k)[p].inode \in Inodes
      BY <2>1, Shown
    <3>3. \A m \in Inodes :
            Seen(h)[BytesOf(m)] = Seen(k)[BytesOf(m)] /\ Seen(h)[ModeOf(m)] = Seen(k)[ModeOf(m)]
      BY <2>1, PartsDiffer, NamesDiffer
    <3> QED
      BY <3>1, <3>2, <3>3 DEF EntryIn
  <2>5. \A y \in Slot \ {p, q} : EntryIn(Seen(h), y) = EntryIn(Seen(k), y)
    BY <2>1, <2>2, SameEntry DEF Holders
  <2>6. JournalIn(Seen(h)) = JournalIn(Seen(k))
    BY <2>1, <2>2, SameJournal, NamesDiffer DEF Holders
  <2> QED
    BY <1>n, <2>1, <2>3, <2>4, <2>5, <2>6 DEF TreeIn, Does, Moved, h
<1> QED
  BY <1>0, <1>n

-----------------------------------------------------------------------------
(* What each call does.                                                      *)

LEMMA WrittenOn ==
  ASSUME NEW k, NEW j, Does(k, tree, j), kept \in JournalNames, Unknown(k, Pool) # {},
         NEW p \in Slot, NEW b \in Bytes \cup {Torn}
  PROVE  Does(WrittenAt(k, p, b), Written(tree, p, b), j)
<1> DEFINE r == Referent(tree, p)
<1>1. r \in Slot /\ DiskInv(k) /\ tree \in Trees
  BY DoesTypes, ReferentSlot
<1>2. /\ WrittenAt(k, p, b) = IF IsLink(tree[r]) THEN k ELSE Overwritten(k, r, b, Pool)
      /\ Written(tree, p, b) = IF IsLink(tree[r]) THEN tree
           ELSE [tree EXCEPT ![r] = File(b, IsFile(tree[r]) /\ tree[r].exec)]
  BY DEF WrittenAt, Written
<1> HIDE DEF r
<1>3. PoolFor(r) = Pool /\ r \in Holders /\ b \in WordsOf(r)
  BY <1>1, NamesDiffer DEF PoolFor, Holders, WordsOf
<1>4. PICK n : FileAt(Overwritten(k, r, b, Pool), k, r, n, b,
                      Seen(k)[r].kind = "file" /\ Seen(k)[ModeOf(Seen(k)[r].inode)])
  BY <1>1, <1>3, OverwriteDoes
<1>5. (Seen(k)[r].kind = "file" /\ Seen(k)[ModeOf(Seen(k)[r].inode)])
        = (IsFile(tree[r]) /\ tree[r].exec)
  BY <1>1, DoesTypes
<1>6. FileAt(Overwritten(k, r, b, Pool), k, r, n, b, IsFile(tree[r]) /\ tree[r].exec)
  BY <1>4, <1>5
<1>7. /\ TreeIn(Seen(Overwritten(k, r, b, Pool))) =
           [TreeIn(Seen(k)) EXCEPT ![r] = File(b, IsFile(tree[r]) /\ tree[r].exec)]
      /\ JournalIn(Seen(Overwritten(k, r, b, Pool))) = JournalIn(Seen(k))
  BY <1>1, <1>6, FileShows
<1>8. DiskInv(Overwritten(k, r, b, Pool))
  BY <1>6 DEF FileAt
<1> QED
  BY <1>2, <1>7, <1>8 DEF Does

LEMMA PutBackOn ==
  ASSUME NEW k, NEW j, Does(k, tree, j), kept \in JournalNames, Unknown(k, Pool) # {},
         NEW p \in Slot, NEW b \in Bytes \cup {Torn}
  PROVE  Does(PutBack(k, p, b), Written(tree, p, b), j)
<1>1. Does(WrittenAt(k, p, b), Written(tree, p, b), j)
  BY WrittenOn
<1>2. Calmer(PutBack(k, p, b), WrittenAt(k, p, b))
  BY <1>1, FileSyncCalms DEF PutBack, Does
<1> QED
  BY <1>1, <1>2, CalmDoes

LEMMA LandBytesOn ==
  ASSUME NEW k, NEW j, Does(k, tree, j), kept \in JournalNames, Unknown(k, Pool) # {},
         NEW p \in Slot, NEW b \in Bytes \cup {Torn}
  PROVE  Does(LandBytes(k, p, b), Replaced(tree, p, b), j)
<1>1. CASE ~AtomicReplace
  BY <1>1, PutBackOn DEF LandBytes, Replaced
<1>2. CASE AtomicReplace
  <2> DEFINE x == CarriedExec(tree, p)
             h == Replace(k, p, b, x, Pool)
  <2>1. x \in BOOLEAN
    BY DEF CarriedExec
  <2>2. LandBytes(k, p, b) = h /\ Replaced(tree, p, b) = [tree EXCEPT ![p] = File(b, x)]
    BY <1>2 DEF LandBytes, Replaced
  <2> HIDE DEF x
  <2>3. PoolFor(p) = Pool /\ p \in Holders /\ b \in WordsOf(p) /\ DiskInv(k)
    BY NamesDiffer DEF PoolFor, Holders, WordsOf, Does
  <2>4. PICK n : FileAt(h, k, p, n, b, x)
    BY <2>1, <2>3, ReplaceDoes
  <2> HIDE DEF h
  <2>5. /\ TreeIn(Seen(h)) = [TreeIn(Seen(k)) EXCEPT ![p] = File(b, x)]
        /\ JournalIn(Seen(h)) = JournalIn(Seen(k))
    BY <2>3, <2>4, FileShows
  <2> QED
    BY <2>2, <2>4, <2>5 DEF Does, FileAt
<1> QED
  BY <1>1, <1>2

LEMMA ModeOn ==
  ASSUME NEW k, NEW j, Does(k, tree, j), kept \in JournalNames,
         NEW p \in Slot, NEW x \in BOOLEAN
  PROVE  Does(ModeSet(k, p, x), Flipped(tree, p, x), j)
<1> DEFINE r == Referent(tree, p)
<1>1. r \in Slot /\ DiskInv(k) /\ tree \in Trees
  BY DoesTypes, ReferentSlot
<1>2. /\ ModeSet(k, p, x) = IF IsFile(tree[r]) THEN SetMode(k, Seen(k)[r].inode, x) ELSE k
      /\ Flipped(tree, p, x) =
           IF IsFile(tree[r]) THEN [tree EXCEPT ![r] = File(tree[r].bytes, x)] ELSE tree
  BY DEF ModeSet, Flipped
<1> HIDE DEF r
<1>3. CASE IsFile(tree[r])
  <2> DEFINE n == Seen(k)[r].inode
             h == SetMode(k, n, x)
  <2>1. n \in Inodes /\ Seen(k)[r] = Inode(n) /\ tree[r].bytes = Seen(k)[BytesOf(n)]
    BY <1>1, <1>3, DoesTypes
  <2> HIDE DEF n
  <2>2. FileAt(h, k, r, n, tree[r].bytes, x)
    BY <1>1, <2>1, InPlaceDoes DEF Holders
  <2> HIDE DEF h
  <2>3. /\ TreeIn(Seen(h)) = [TreeIn(Seen(k)) EXCEPT ![r] = File(tree[r].bytes, x)]
        /\ JournalIn(Seen(h)) = JournalIn(Seen(k))
    BY <1>1, <2>2, FileShows
  <2>4. Does(h, [tree EXCEPT ![r] = File(tree[r].bytes, x)], j)
    BY <2>2, <2>3 DEF Does, FileAt
  <2> QED
    BY <1>2, <1>3, <2>4 DEF h, n
<1> QED
  BY <1>2, <1>3

LEMMA FlipOn ==
  ASSUME NEW k, NEW j, Does(k, tree, j), kept \in JournalNames,
         NEW p \in Slot, NEW x \in BOOLEAN
  PROVE  Does(Flip(k, p, x), Flipped(tree, p, x), j)
<1>1. Does(ModeSet(k, p, x), Flipped(tree, p, x), j)
  BY ModeOn
<1>2. Calmer(Flip(k, p, x), ModeSet(k, p, x))
  BY <1>1, FileSyncCalms DEF Flip, Does
<1> QED
  BY <1>1, <1>2, CalmDoes

\* The ops a call is made for, of a set or of a rollback.
Callable(op) ==
  /\ op.act \in {"Write", "CopyFrom", "Rename", "Remove", "SetExecutable", "SetLink"}
  /\ op.path \in Slot
  /\ Lands(op) => Contents(tree, op) \in Bytes \cup {Torn}
  /\ op.act = "Rename" => op.other \in Slot
  /\ op.act = "SetExecutable" => op.exec \in BOOLEAN
  /\ op.act = "SetLink" => op.target \in Target

LEMMA OpIsCallable ==
  ASSUME tree \in Trees, NEW op \in Op, op.act = "CopyFrom" => Readable(tree, op.other)
  PROVE  Callable(op)
<1>1. Lands(op) => Contents(tree, op) \in Bytes \cup {Torn}
  BY OpFields, ReadableBytes, AsideSlots DEF Lands, Contents
<1> QED
  BY <1>1, OpFields, AsideSlots DEF Callable

LEMMA StepIsCallable ==
  ASSUME NEW u \in UndoStep, u.act \notin {"Restore", "Delete"}
  PROVE  Callable(u)
  BY UndoFields, AsideSlots DEF Callable, Lands

LEMMA CallDoes ==
  ASSUME NEW k, NEW j, Does(k, tree, j), kept \in JournalNames, Unknown(k, Pool) # {},
         NEW op, Callable(op)
  PROVE  Does(CallOn(k, op), Ran(tree, op), j)
<1>1. CASE Lands(op)
  <2>1. CallOn(k, op) = LandBytes(k, op.path, Contents(tree, op))
    BY <1>1 DEF CallOn, Lands
  <2>2. Ran(tree, op) = Replaced(tree, op.path, Contents(tree, op))
    BY <1>1 DEF Ran
  <2> QED
    BY <1>1, <2>1, <2>2, LandBytesOn DEF Callable
<1>2. CASE op.act = "Rename"
  <2>1. CallOn(k, op) = Renamed(k, op.path, op.other)
    BY <1>2 DEF CallOn, Lands
  <2>2. Ran(tree, op) = Moved(tree, op.path, op.other)
    BY <1>2 DEF Ran, Lands
  <2> QED
    BY <1>2, <2>1, <2>2, MovedOn DEF Callable
<1>3. CASE op.act = "Remove"
  <2>1. CallOn(k, op) = Unlinked(k, op.path)
    BY <1>3 DEF CallOn, Lands
  <2>2. Ran(tree, op) = Removed(tree, op.path)
    BY <1>3 DEF Ran, Lands
  <2> QED
    BY <1>3, <2>1, <2>2, RemovedOn DEF Callable
<1>4. CASE op.act = "SetExecutable"
  <2>1. CallOn(k, op) = Flip(k, op.path, op.exec)
    BY <1>4 DEF CallOn, Lands
  <2>2. Ran(tree, op) = Flipped(tree, op.path, op.exec)
    BY <1>4 DEF Ran, Lands
  <2> QED
    BY <1>4, <2>1, <2>2, FlipOn DEF Callable
<1>5. CASE op.act = "SetLink"
  <2>1. CallOn(k, op) = Symlinked(k, op.path, op.target)
    BY <1>5 DEF CallOn, Lands
  <2>2. Ran(tree, op) = Linked(tree, op.path, op.target)
    BY <1>5 DEF Ran, Lands
  <2> QED
    BY <1>5, <2>1, <2>2, LinkedOn DEF Callable
<1> QED
  BY <1>1, <1>2, <1>3, <1>4, <1>5 DEF Callable, Lands

LEMMA CallLeaves ==
  ASSUME NEW k, NEW j, Does(k, tree, j), kept \in JournalNames, Unknown(k, Pool) # {},
         NEW op, CanRun(tree, op) => Callable(op), NEW h \in CallLeft(k, op)
  PROVE  DiskInv(h)
<1>1. CASE h = k
  BY <1>1 DEF Does
<1>2. CASE CanRun(tree, op) /\ Lands(op) /\ ~AtomicReplace /\ h # k
  <2>1. PICK b \in {Torn, Contents(tree, op)} : h = WrittenAt(k, op.path, b)
    BY <1>2 DEF CallLeft
  <2>2. b \in Bytes \cup {Torn} /\ op.path \in Slot
    BY <1>2 DEF Callable
  <2> QED
    BY <2>1, <2>2, WrittenOn DEF Does
<1>3. CASE CanRun(tree, op) /\ op.act = "SetExecutable" /\ h # k
  <2>1. h = ModeSet(k, op.path, op.exec)
    BY <1>3 DEF CallLeft, Lands
  <2> QED
    BY <1>3, <2>1, ModeOn DEF Does, Callable
<1>4. CASE CanRun(tree, op) /\ op.act = "SetLink" /\ h # k
  <2>1. h = Unlinked(k, op.path)
    BY <1>4 DEF CallLeft, Lands
  <2>2. op.path \in Entries
    BY <1>4, NamesDiffer DEF Callable
  <2> QED
    BY <2>1, <2>2, UnlinkDoes DEF Does
<1>5. \/ h = k
      \/ CanRun(tree, op) /\ Lands(op) /\ ~AtomicReplace
      \/ CanRun(tree, op) /\ op.act \in {"SetExecutable", "SetLink"}
  BY DEF CallLeft
<1> QED
  BY <1>1, <1>2, <1>3, <1>4, <1>5

LEMMA ReplayDoes ==
  ASSUME NEW k, NEW j, Does(k, tree, j), kept \in JournalNames, Unknown(k, Pool) # {},
         NEW op \in Op, CanReplay(tree, op)
  PROVE  Does(ReplayOn(k, op), Replayed(tree, op), j)
<1>0. tree \in Trees /\ op.path \in Slot
  BY DoesTypes, OpFields, AsideSlots
<1>1. CASE op.act \in {"Rename", "SetExecutable"} /\ ~Exists(tree, op.path)
  BY <1>1 DEF ReplayOn, Replayed
<1>2. CASE op.act = "Remove" /\ tree[op.path] = Absent
  <2>1. ReplayOn(k, op) = k
    BY <1>2 DEF ReplayOn
  <2>2. Replayed(tree, op) = Removed(tree, op.path)
    BY <1>2 DEF Replayed, Ran, Lands
  <2>3. Removed(tree, op.path) = tree
    BY <1>0, <1>2 DEF Removed, Trees
  <2> QED
    BY <2>1, <2>2, <2>3
<1>3. CASE ~ \/ op.act \in {"Rename", "SetExecutable"} /\ ~Exists(tree, op.path)
             \/ op.act = "Remove" /\ tree[op.path] = Absent
  <2>1. ReplayOn(k, op) = CallOn(k, op) /\ Replayed(tree, op) = Ran(tree, op)
    BY <1>3 DEF ReplayOn, Replayed
  <2>2. op.act = "CopyFrom" => Readable(tree, op.other)
    BY DEF CanReplay, CanRun
  <2> QED
    BY <1>0, <2>1, <2>2, OpIsCallable, CallDoes
<1> QED
  BY <1>1, <1>2, <1>3

LEMMA UndoDoes ==
  ASSUME NEW k, NEW j, Does(k, tree, j), kept \in JournalNames, Unknown(k, Pool) # {},
         NEW u \in UndoStep
  PROVE  Does(UndoOn(k, u), Undone(tree, u), j)
<1>1. CASE u.act = "Restore"
  <2>1. UndoOn(k, u) = PutBack(k, u.path, u.bytes) /\ Undone(tree, u) = Written(tree, u.path, u.bytes)
    BY <1>1 DEF UndoOn, Undone
  <2> QED
    BY <1>1, <2>1, UndoFields, AsideSlots, PutBackOn
<1>2. CASE u.act = "Delete"
  <2>1. u.path \in Slot /\ tree \in Trees
    BY <1>2, UndoFields, AsideSlots, DoesTypes
  <2>2. UndoOn(k, u) = (IF tree[u.path] = Absent THEN k ELSE Unlinked(k, u.path))
    BY <1>2 DEF UndoOn
  <2>3. Undone(tree, u) = Removed(tree, u.path)
    BY <1>2 DEF Undone
  <2>4. tree[u.path] = Absent => Removed(tree, u.path) = tree
    BY <2>1 DEF Removed, Trees
  <2> QED
    BY <2>1, <2>2, <2>3, <2>4, RemovedOn
<1>3. CASE u.act \notin {"Restore", "Delete"}
  <2>1. UndoOn(k, u) = CallOn(k, u) /\ Undone(tree, u) = Ran(tree, u)
    BY <1>3 DEF UndoOn, Undone
  <2> QED
    BY <1>3, <2>1, StepIsCallable, CallDoes
<1> QED
  BY <1>1, <1>2, <1>3

LEMMA UndoLeaves ==
  ASSUME NEW k, NEW j, Does(k, tree, j), kept \in JournalNames, Unknown(k, Pool) # {},
         NEW u \in UndoStep, NEW h \in UndoLeft(k, u)
  PROVE  DiskInv(h)
<1>1. CASE h = k
  BY <1>1 DEF Does
<1>2. CASE u.act = "Restore" /\ h # k
  <2>1. PICK b \in {Torn, u.bytes} : h = WrittenAt(k, u.path, b)
    BY <1>2 DEF UndoLeft
  <2>2. b \in Bytes \cup {Torn} /\ u.path \in Slot
    BY <1>2, UndoFields, AsideSlots
  <2> QED
    BY <2>1, <2>2, WrittenOn DEF Does
<1>3. CASE u.act \notin {"Restore", "Delete"} /\ h # k
  <2>1. h \in CallLeft(k, u)
    BY <1>3 DEF UndoLeft
  <2> QED
    BY <1>3, <2>1, StepIsCallable, CallLeaves
<1>4. u.act = "Delete" => h = k
  BY DEF UndoLeft
<1> QED
  BY <1>1, <1>2, <1>3, <1>4

-----------------------------------------------------------------------------
(* What the journal's own writes do.                                         *)

LEMMA JournalUnlinked ==
  ASSUME NEW k, NEW t, NEW j, Does(k, t, j), kept \in JournalNames
  PROVE  Does(Unlinked(k, kept), t, None)
<1> DEFINE h == Unlinked(k, kept)
<1>1. /\ DiskInv(h) /\ DiskInv(k)
      /\ \A l \in Entries \cup Parts : Seen(h)[l] = IF l = kept THEN Gone ELSE Seen(k)[l]
  BY UnlinkDoes, NamesDiffer DEF Does
<1> HIDE DEF h
<1>2. \A y \in Slot : SameAt(Seen(h), Seen(k), y)
  BY <1>1, PartsDiffer, NamesDiffer DEF SameAt
<1>3. \A y \in Slot : EntryIn(Seen(h), y) = EntryIn(Seen(k), y)
  BY <1>1, <1>2, SameEntry
<1>4. JournalIn(Seen(h)) = None
  BY <1>1, NamesDiffer, EntriesDiffer DEF JournalIn
<1> QED
  BY <1>1, <1>3, <1>4 DEF TreeIn, Does, h

LEMMA RoomIs ==
  ASSUME NEW k, DiskInv(k), NEW pool \in {Pool, HomePool}
  PROVE  Unknown(k, pool) # {} <=> \E n \in pool : n \in Inodes /\ Free(k, n)
<1>1. pool \in SUBSET Inodes
  BY PoolsDiffer
<1>2. Unknown(k, pool) \subseteq pool
  BY DEF Unknown
<1>3. \A n \in pool : n \in Unknown(k, pool) <=> Free(k, n)
  BY <1>1, UnknownIs DEF DiskInv
<1> QED
  BY <1>1, <1>2, <1>3

\* The home is made, and nothing else.
LEMMA WithHomeDoes ==
  ASSUME NEW k, DiskInv(k)
  PROVE  /\ DiskInv(WithHome(k)) /\ ~HomeMissing(WithHome(k))
         /\ TreeIn(Seen(WithHome(k))) = TreeIn(Seen(k))
         /\ \A pool \in {Pool, HomePool} : Unknown(k, pool) # {} => Unknown(WithHome(k), pool) # {}
<1>1. CASE ~HomeMissing(k)
  BY <1>1 DEF WithHome
<1>2. CASE HomeMissing(k)
  <2> DEFINE g == Enter(k, At(HomeName, Subdir))
             h == Sync(Sync(g, Home, "Durable"), Attic, "Durable")
  <2>1. /\ DiskInv(g)
        /\ \A l \in Entries \cup Parts : Seen(g)[l] = IF l = HomeName THEN Subdir ELSE Seen(k)[l]
        /\ \A n \in Inodes : Free(k, n) => Free(g, n)
    BY HomeDoes
  <2>2. WithHome(k) = h
    BY <1>2 DEF WithHome
  <2> HIDE DEF g
  <2>3. Calmer(h, g)
    <3>1. Calmer(Sync(g, Home, "Durable"), g)
      BY <2>1, SyncCalms
    <3>2. Calmer(h, Sync(g, Home, "Durable"))
      BY <3>1, SyncCalms DEF Calmer
    <3> QED
      BY <3>1, <3>2, CalmerTwice
  <2> HIDE DEF h
  <2>4. DiskInv(h) /\ Seen(h) = Seen(g)
    BY <2>3 DEF Calmer
  <2>5. ~HomeMissing(h)
    BY <2>1, <2>4, NamesDiffer, EntriesDiffer DEF HomeMissing
  <2>6. TreeIn(Seen(h)) = TreeIn(Seen(k))
    <3>1. \A y \in Slot : SameAt(Seen(h), Seen(k), y)
      BY <2>1, <2>4, PartsDiffer, NamesDiffer DEF SameAt
    <3>2. \A y \in Slot : EntryIn(Seen(h), y) = EntryIn(Seen(k), y)
      BY <3>1, SameEntry
    <3> QED
      BY <3>2 DEF TreeIn
  <2>7. \A n \in Inodes : Free(k, n) => Free(h, n)
    BY <2>1, <2>3, CalmerFree
  <2>8. \A pool \in {Pool, HomePool} : Unknown(k, pool) # {} => Unknown(h, pool) # {}
    BY <2>4, <2>7, RoomIs
  <2> QED
    BY <2>2, <2>4, <2>5, <2>6, <2>8
<1> QED
  BY <1>1, <1>2

LEMMA PublishDoes ==
  ASSUME NEW k, DiskInv(k), kept \in JournalNames, ops \in Staged,
         \A pool \in {Pool, HomePool} : Unknown(k, pool) # {}, ~HomeMissing(k)
  PROVE  /\ Does(Published(k), TreeIn(Seen(k)), ops)
         /\ DiskInv(Overwritten(k, kept, Torn, JournalPool))
<1>1. /\ JournalPool = PoolFor(kept) /\ Unknown(k, PoolFor(kept)) # {} /\ kept \in Holders
      /\ ops \in WordsOf(kept) /\ Torn \in WordsOf(kept) /\ ops # Torn
  BY NamesDiffer, StoreAssumption DEF JournalPool, PoolFor, Holders, WordsOf
<1>2. ASSUME NEW h, NEW n, NEW x, FileAt(h, k, kept, n, ops, x)
      PROVE  Does(h, TreeIn(Seen(k)), ops)
  <2>1. TreeIn(Seen(h)) = TreeIn(Seen(k)) /\ JournalIn(Seen(h)) = ops
    BY <1>1, <1>2, JournalFileShows
  <2> QED
    BY <1>2, <2>1 DEF Does, FileAt
<1>3. \E n : FileAt(Replace(k, kept, ops, FALSE, PoolFor(kept)), k, kept, n, ops, FALSE)
  BY <1>1, ReplaceDoes
<1>4. \A b \in WordsOf(kept) :
        \E n : FileAt(Overwritten(k, kept, b, PoolFor(kept)), k, kept, n, b,
                      Seen(k)[kept].kind = "file" /\ Seen(k)[ModeOf(Seen(k)[kept].inode)])
  BY <1>1, OverwriteDoes
<1>5. Does(Replace(k, kept, ops, FALSE, JournalPool), TreeIn(Seen(k)), ops)
  BY <1>1, <1>2, <1>3
<1>6. Does(Overwritten(k, kept, ops, JournalPool), TreeIn(Seen(k)), ops)
  BY <1>1, <1>2, <1>4
<1>7. DiskInv(Overwritten(k, kept, Torn, JournalPool))
  BY <1>1, <1>4 DEF FileAt
<1> QED
  BY <1>5, <1>6, <1>7 DEF Published

LEMMA CommitDoes ==
  ASSUME NEW k, NEW t, NEW j, Does(k, t, j), kept \in JournalNames, ops \in Staged,
         \A pool \in {Pool, HomePool} : Unknown(k, pool) # {}
  PROVE  /\ Does(Committed(k), t, ops)
         /\ \A h \in CommitLeft(k) : DiskInv(h)
<1> DEFINE g == WithHome(k)
           w == Published(g)
<1>1. /\ DiskInv(k) /\ DiskInv(g) /\ ~HomeMissing(g) /\ TreeIn(Seen(g)) = t
      /\ \A pool \in {Pool, HomePool} : Unknown(g, pool) # {}
  BY WithHomeDoes DEF Does
<1>2. Does(w, t, ops) /\ DiskInv(Overwritten(g, kept, Torn, JournalPool))
  <2> HIDE DEF g
  <2> QED
    BY <1>1, PublishDoes
<1>3. DiskInv(Enter(k, At(HomeName, Subdir)))
  BY <1>1, HomeDoes
<1>4. \A h \in CommitLeft(k) : DiskInv(h)
  BY <1>1, <1>2, <1>3 DEF CommitLeft, Does
<1> DEFINE f == IF AtomicReplace THEN w ELSE SyncFile(w, kept, "Durable")
<1>5. Committed(k) = Sync(f, DirOf(kept), "Durable")
  BY DEF Committed
<1> HIDE DEF w, g
<1>6. Calmer(f, w)
  BY <1>2, FileSyncCalms, CalmerSame DEF Does
<1> HIDE DEF f
<1>7. Does(f, t, ops)
  BY <1>2, <1>6, CalmDoes
<1>8. Does(Committed(k), t, ops)
  BY <1>5, <1>7, SyncCalms, CalmDoes DEF Does
<1> QED
  BY <1>4, <1>8

LEMMA RetireDoes ==
  ASSUME NEW k, NEW t, NEW j, Does(k, t, j), kept \in JournalNames, NEW debts
  PROVE  Does(Retired(k, debts), t, None)
<1>1. Calmer(FlushAll(k, debts, Root, "Durable"), k)
  BY FlushCalms DEF Does
<1>2. Does(FlushAll(k, debts, Root, "Durable"), t, j)
  BY <1>1, CalmDoes
<1> QED
  BY <1>2, JournalUnlinked DEF Retired

LEMMA AbortDoes ==
  ASSUME NEW k, NEW t, NEW j, Does(k, t, j), kept \in JournalNames
  PROVE  Does(Aborted(k), t, None)
<1> DEFINE g == IF UndoDebts = {} THEN k ELSE Barriered(Handed(k, UndoDebts), "tree")
           h == IF kept = InHome THEN Sync(g, Root, "Durable") ELSE g
<1>1. Calmer(g, k)
  <2>1. Calmer(Handed(k, UndoDebts), k) /\ Calmer(k, k)
    BY HandCalms, CalmerSame DEF Does
  <2>2. Calmer(Barriered(Handed(k, UndoDebts), "tree"), Handed(k, UndoDebts))
    BY <2>1, BarrierCalms DEF Calmer
  <2> QED
    BY <2>1, <2>2, CalmerTwice
<1>2. Aborted(k) = Unlinked(h, kept)
  BY DEF Aborted
<1> HIDE DEF g
<1>3. Does(g, t, j)
  BY <1>1, CalmDoes
<1>4. Does(h, t, j)
  BY <1>3, SyncCalms, CalmDoes DEF Does
<1> QED
  BY <1>2, <1>4, JournalUnlinked

-----------------------------------------------------------------------------
(* A disk with nothing pending: the first one, and what a power cut leaves.  *)

LEMMA CleanIs ==
  ASSUME NEW s, s = [l \in DOMAIN s |-> s[l]], NEW o, NEW g
  PROVE  LET h == Clean(s, o, g) IN
         /\ Sound(h) /\ h.store = s /\ DOMAIN h.log = {}
         /\ Closures(h) = {{}} /\ Landed(h, {}) = s /\ Seen(h) = s
         /\ \A l : Values(h, l) = {s[l]}
<1> DEFINE h == Clean(s, o, g)
<1>1. Sound(h)
  BY EveryDiskIsSound
<1>2. h.store = s /\ DOMAIN h.log = {}
  BY DEF Clean
<1> HIDE DEF h
<1>3. \A l : Writers(h, {}, l) = {} /\ WritersOf(h, l) = {}
  BY <1>2 DEF Writers, WritersOf
<1>4. \A l : Values(h, l) = {s[l]}
  BY <1>2, <1>3 DEF Values
<1>5. Closures(h) = {{}}
  BY <1>2 DEF Closures
<1>6. Landed(h, {}) = s
  <2>1. \A l : /\ l \in DOMAIN Landed(h, {}) <=> l \in DOMAIN s
               /\ l \in DOMAIN s => Landed(h, {})[l] = s[l]
    BY <1>2, <1>3, UnwrittenIs
  <2>2. Landed(h, {}) = [l \in DOMAIN Landed(h, {}) |-> Landed(h, {})[l]]
    BY LandedIsFunction
  <2>3. DOMAIN Landed(h, {}) = DOMAIN s
    BY <2>1
  <2> QED
    BY <2>1, <2>2, <2>3
<1> QED
  BY <1>1, <1>2, <1>4, <1>5, <1>6 DEF Seen, h

\* A store that keeps to what the names and the inodes are for.
WellKept(s) ==
  /\ s = [l \in DOMAIN s |-> s[l]]
  /\ DOMAIN s = Entries \cup Parts
  /\ \A l \in Entries : s[l] \in CanHold(l)
  /\ \A n \in Inodes : s[ModeOf(n)] \in BOOLEAN
  /\ \A p \in Slot, n \in Inodes : s[p] = Inode(n) =>
       s[BytesOf(n)] \in Bytes \cup {Torn} /\ \A j \in JournalNames : s[j] # Inode(n)
  /\ \A j \in JournalNames, n \in Inodes : s[j] = Inode(n) => s[BytesOf(n)] \in Staged \cup {Torn}
  /\ \A x, y \in Slot, n \in Inodes : (s[x] = Inode(n) /\ s[y] = Inode(n)) => x = y

LEMMA CleanDoes ==
  ASSUME NEW s, WellKept(s), NEW o, NEW g
  PROVE  DiskInv(Clean(s, o, g)) /\ Seen(Clean(s, o, g)) = s
<1> DEFINE h == Clean(s, o, g)
<1>1. /\ Sound(h) /\ h.store = s /\ DOMAIN h.log = {}
      /\ Closures(h) = {{}} /\ Landed(h, {}) = s /\ Seen(h) = s
      /\ \A l : Values(h, l) = {s[l]}
  BY CleanIs DEF WellKept
<1> HIDE DEF h
<1>2. Typed(h)
  BY <1>1 DEF Typed, Shaped, WellKept
<1>3. Roles(h)
  BY <1>1 DEF Roles, Document, Intent, WellKept
<1>4. Unshared(h)
  BY <1>1 DEF Unshared, WellKept
<1> QED
  BY <1>1, <1>2, <1>3, <1>4 DEF DiskInv, h

LEMMA CutDoes ==
  ASSUME NEW k, DiskInv(k), kept \in JournalNames, NEW s \in Survivors(k), NEW o, NEW g
  PROVE  Does(Clean(WithoutHome(s), o, g), TreeIn(s), JournalIn(s))
<1>1. PICK S, T : Possible(k, S, T) /\ s = Outcome(k, S, T)
  BY SurvivorsAre
<1>2. /\ S \in SUBSET DOMAIN k.log /\ T \in SUBSET DOMAIN k.log /\ S \in Closures(k)
      /\ \A n \in T : \E c \in Inodes : BytesOf(c) \in DOMAIN k.log[n].puts
  BY <1>1, PossibleFacts DEF Possible
<1>3. /\ DOMAIN Landed(k, S) = Entries \cup Parts
      /\ \A l \in Entries \cup Parts : Landed(k, S)[l] \in Values(k, l)
      /\ \A l \in Entries : Landed(k, S)[l] \in CanHold(l)
      /\ \A n \in Inodes : Landed(k, S)[ModeOf(n)] \in BOOLEAN
  BY <1>2, LandedTypes DEF DiskInv
<1>4. \A n \in T : \E c \in Inodes : DOMAIN k.log[n].puts = {BytesOf(c)}
  BY <1>2 DEF DiskInv, Typed, Shaped
<1>5. /\ s = [l \in DOMAIN s |-> s[l]] /\ DOMAIN s = Entries \cup Parts
      /\ \A l \in Entries : s[l] = Landed(k, S)[l]
      /\ \A n \in Inodes : s[ModeOf(n)] = Landed(k, S)[ModeOf(n)]
      /\ \A n \in Inodes : s[BytesOf(n)] \in Values(k, BytesOf(n)) \cup {Torn}
  <2>1. s = [l \in DOMAIN s |-> s[l]] /\ DOMAIN s = Entries \cup Parts
    BY <1>1, <1>3 DEF Outcome
  <2>2. \A l \in Entries \cup Parts :
          s[l] = IF \E n \in T : l \in DOMAIN k.log[n].puts THEN Torn ELSE Landed(k, S)[l]
    BY <1>1, <1>3, OutcomeAt
  <2> QED
    BY <1>3, <1>4, <2>1, <2>2, PartsDiffer
<1> DEFINE r == WithoutHome(s)
<1>6. /\ r = [l \in DOMAIN r |-> r[l]] /\ DOMAIN r = Entries \cup Parts
      /\ \A l \in (Entries \cup Parts) \ {InHome} : r[l] = s[l]
      /\ r[InHome] = IF s[HomeName] = Gone THEN Gone ELSE s[InHome]
  BY <1>5, NamesDiffer DEF WithoutHome
<1> HIDE DEF r
<1>7. /\ \A p \in Slot : r[p] = s[p] /\ p \in Entries
      /\ \A n \in Inodes : r[BytesOf(n)] = s[BytesOf(n)] /\ r[ModeOf(n)] = s[ModeOf(n)]
      /\ r[HomeName] = s[HomeName]
      /\ \A j \in JournalNames : r[j] \in {s[j], Gone} /\ j \in Entries
  BY <1>6, NamesDiffer, PartsDiffer, LayoutAssumption DEF JournalNames
<1>8. \A n : Inode(n) # Gone
  BY EntriesDiffer
<1>9. WellKept(r)
  <2>1. \A l \in Entries : r[l] \in CanHold(l)
    <3>1. \A l : Gone \in CanHold(l)
      BY DEF CanHold
    <3> QED
      BY <1>3, <1>5, <1>6, <3>1
  <2>2. \A n \in Inodes : r[ModeOf(n)] \in BOOLEAN
    BY <1>3, <1>5, <1>7
  <2>3. ASSUME NEW p \in Slot, NEW n \in Inodes, r[p] = Inode(n)
        PROVE  r[BytesOf(n)] \in Bytes \cup {Torn} /\ \A j \in JournalNames : r[j] # Inode(n)
    <3>1. Inode(n) \in Values(k, p)
      BY <1>3, <1>5, <1>7, <2>3
    <3>2. Document(k, n)
      BY <3>1 DEF DiskInv, Roles
    <3>3. \A j \in JournalNames : s[j] \in Values(k, j)
      BY <1>3, <1>5, <1>7
    <3> QED
      BY <1>5, <1>7, <1>8, <3>2, <3>3 DEF Document
  <2>4. ASSUME NEW j \in JournalNames, NEW n \in Inodes, r[j] = Inode(n)
        PROVE  r[BytesOf(n)] \in Staged \cup {Torn}
    <3>1. Inode(n) \in Values(k, j)
      BY <1>3, <1>5, <1>7, <1>8, <2>4
    <3>2. Intent(k, n)
      BY <3>1 DEF DiskInv, Roles
    <3> QED
      BY <1>5, <1>7, <3>2 DEF Intent
  <2>5. \A x, y \in Slot, n \in Inodes : (r[x] = Inode(n) /\ r[y] = Inode(n)) => x = y
    BY <1>2, <1>5, <1>7 DEF DiskInv, Unshared
  <2> QED
    BY <1>6, <2>1, <2>2, <2>3, <2>4, <2>5 DEF WellKept
<1>10. DiskInv(Clean(r, o, g)) /\ Seen(Clean(r, o, g)) = r
  BY <1>9, CleanDoes
<1>11. TreeIn(r) = TreeIn(s)
  <2>1. ASSUME NEW p \in Slot PROVE EntryIn(r, p) = EntryIn(s, p)
    <3>1. s[p].kind = "file" => s[p].inode \in Inodes
      <4>1. p \in Entries /\ s[p] \in CanHold(p)
        BY <1>3, <1>5, NamesDiffer
      <4> QED
        BY <4>1, HoldKinds
    <3> QED
      BY <1>7, <3>1 DEF EntryIn
  <2> QED
    BY <2>1 DEF TreeIn
<1>12. JournalIn(r) = JournalIn(s)
  <2>1. CASE kept = InHome /\ s[HomeName] = Gone
    BY <1>7, <2>1 DEF JournalIn
  <2>2. CASE ~(kept = InHome /\ s[HomeName] = Gone)
    <3>1. r[kept] = s[kept] /\ kept \in Entries /\ s[kept] \in CanHold(kept) /\ kept \notin Slot
      BY <1>3, <1>5, <1>6, <1>7, <2>2, NamesDiffer DEF JournalNames
    <3>2. s[kept].kind = "absent" \/ s[kept].inode \in Inodes
      BY <3>1, HoldKinds
    <3> QED
      BY <1>7, <3>1, <3>2 DEF JournalIn
  <2> QED
    BY <2>1, <2>2
<1> QED
  BY <1>10, <1>11, <1>12 DEF Does, r

\* The first disk holds the first tree, and no journal.
LEMMA StoreDoes ==
  ASSUME NEW t \in InitTrees, kept \in JournalNames, NEW o, NEW g
  PROVE  Does(Clean(StoreOf(t), o, g), t, None)
<1> DEFINE files == FilesOf(t)
           inode == CHOOSE f \in [files -> Pool] : OneToOne(f)
           used(n) == \E p \in files : inode[p] = n
           owner(n) == CHOOSE p \in files : inode[p] = n
           s == StoreOf(t)
<1>1. t \in Trees /\ \A a \in Aside : t[a] = Absent
  BY InitAssumption DEF Trees
<1>2. inode \in [files -> Pool] /\ OneToOne(inode)
  BY StoreAssumption
<1>3. s = [l \in Entries \cup Parts |->
            IF l \in files THEN Inode(inode[l])
            ELSE IF l \in Path /\ IsLink(t[l]) THEN Symlink(t[l].target)
            ELSE IF l \in Path /\ IsDir(t[l]) THEN Subdir
            ELSE IF l \in Entries THEN Gone
            ELSE IF l[2] = "bytes" THEN (IF used(l[1]) THEN t[owner(l[1])].bytes ELSE Torn)
            ELSE used(l[1]) /\ t[owner(l[1])].exec]
  BY DEF StoreOf
<1>4. \A p \in files : p \in Path /\ p \in Slot /\ IsFile(t[p])
  BY AsideSlots DEF FilesOf
<1>5. \A p \in files : used(inode[p]) /\ owner(inode[p]) = p /\ inode[p] \in Pool
  BY <1>2 DEF OneToOne
<1> HIDE DEF s, files, inode, used, owner
<1>6. /\ s = [l \in DOMAIN s |-> s[l]] /\ DOMAIN s = Entries \cup Parts
      /\ \A p \in files : s[p] = Inode(inode[p])
      /\ \A p \in Path \ files : s[p] = IF IsLink(t[p]) THEN Symlink(t[p].target)
                                        ELSE IF IsDir(t[p]) THEN Subdir ELSE Gone
      /\ \A l \in Entries \ Path : s[l] = Gone
      /\ \A n \in Inodes : s[BytesOf(n)] = IF used(n) THEN t[owner(n)].bytes ELSE Torn
      /\ \A n \in Inodes : s[ModeOf(n)] = (used(n) /\ t[owner(n)].exec)
  <2>1. Path \subseteq Entries
    BY NamesDiffer, AsideSlots
  <2>2. /\ s = [l \in DOMAIN s |-> s[l]] /\ DOMAIN s = Entries \cup Parts
        /\ \A p \in files : s[p] = Inode(inode[p])
        /\ \A p \in Path \ files : s[p] = IF IsLink(t[p]) THEN Symlink(t[p].target)
                                          ELSE IF IsDir(t[p]) THEN Subdir ELSE Gone
        /\ \A l \in Entries \ Path : s[l] = Gone
    BY <1>3, <1>4, <2>1
  <2>3. \A n \in Inodes : /\ BytesOf(n) \in Parts /\ ModeOf(n) \in Parts
                          /\ BytesOf(n) \notin Entries /\ ModeOf(n) \notin Entries
                          /\ BytesOf(n) \notin Path /\ ModeOf(n) \notin Path
                          /\ BytesOf(n) \notin files /\ ModeOf(n) \notin files
    BY <1>4, <2>1, PartsDiffer
  <2>4. \A n \in Inodes : /\ BytesOf(n)[1] = n /\ BytesOf(n)[2] = "bytes"
                          /\ ModeOf(n)[1] = n /\ ModeOf(n)[2] # "bytes"
    BY DEF BytesOf, ModeOf
  <2>5. ASSUME NEW n \in Inodes
        PROVE  s[BytesOf(n)] = IF used(n) THEN t[owner(n)].bytes ELSE Torn
    BY <1>3, <2>3, <2>4
  <2>6. ASSUME NEW n \in Inodes
        PROVE  s[ModeOf(n)] = (used(n) /\ t[owner(n)].exec)
    BY <1>3, <2>3, <2>4
  <2> QED
    BY <2>2, <2>5, <2>6
<1>7. \A p \in Path : \/ p \in files /\ IsFile(t[p])
                      \/ p \notin files /\ IsLink(t[p]) /\ t[p].target \in Target
                      \/ p \notin files /\ ~IsFile(t[p]) /\ ~IsLink(t[p])
  <2>1. \A p \in Path : t[p] \in Entry /\ (p \in files <=> IsFile(t[p]))
    BY <1>1, AsideSlots DEF FilesOf, files, Trees
  <2> QED
    BY <2>1, EntryKinds DEF IsFile, IsLink
<1>8. \A n \in Inodes : used(n) => owner(n) \in files /\ inode[owner(n)] = n
  BY DEF used, owner
<1>9. \A p \in files : t[p].bytes \in Bytes \cup {Torn} /\ t[p].exec \in BOOLEAN
  BY <1>1, <1>4, EntryKinds DEF IsFile, Trees
<1>10. \A p \in Slot, n \in Inodes : s[p] = Inode(n) => p \in files /\ inode[p] = n
  <2>1. \A m, n : Inode(m) = Inode(n) => m = n
    BY EntriesDiffer
  <2>2. /\ \A n : Inode(n) # Gone /\ Inode(n) # Subdir
        /\ \A n, to : Inode(n) # Symlink(to)
    BY EntriesDiffer
  <2>3. \A p \in Slot : p \in Path \/ p \in Entries \ Path
    BY NamesDiffer
  <2> QED
    BY <1>6, <2>1, <2>2, <2>3
<1>11. WellKept(s)
  <2>1. \A l \in Entries : s[l] \in CanHold(l)
    <3>1. \A l : Gone \in CanHold(l)
      BY DEF CanHold
    <3>2. \A p \in Path : s[p] \in CanHold(p)
      <4> SUFFICES ASSUME NEW p \in Path PROVE s[p] \in CanHold(p)
        OBVIOUS
      <4>1. p \in Slot
        BY AsideSlots
      <4>2. p \in files => s[p] = Inode(inode[p]) /\ inode[p] \in Pool
        BY <1>5, <1>6
      <4>3. p \notin files =>
              s[p] = Gone \/ s[p] = Subdir \/ \E to \in Target : s[p] = Symlink(to)
        BY <1>6, <1>7
      <4> QED
        BY <4>1, <4>2, <4>3 DEF CanHold
    <3> QED
      BY <1>6, <3>1, <3>2
  <2>2. \A n \in Inodes : s[ModeOf(n)] \in BOOLEAN
    BY <1>6
  <2>3. \A p \in Slot, n \in Inodes : s[p] = Inode(n) =>
          s[BytesOf(n)] \in Bytes \cup {Torn} /\ \A j \in JournalNames : s[j] # Inode(n)
    <3>1. \A j \in JournalNames : j \in Entries \ Path
      BY NamesDiffer, AsideSlots
    <3>2. \A n : Inode(n) # Gone
      BY EntriesDiffer
    <3> QED
      BY <1>5, <1>6, <1>9, <1>10, <3>1, <3>2
  <2>4. \A j \in JournalNames, n \in Inodes : s[j] # Inode(n)
    <3>1. \A j \in JournalNames : j \in Entries \ Path
      BY NamesDiffer, AsideSlots
    <3>2. \A n : Inode(n) # Gone
      BY EntriesDiffer
    <3> QED
      BY <1>6, <3>1, <3>2
  <2>5. \A x, y \in Slot, n \in Inodes : (s[x] = Inode(n) /\ s[y] = Inode(n)) => x = y
    BY <1>2, <1>10 DEF OneToOne
  <2> QED
    BY <1>6, <2>1, <2>2, <2>3, <2>4, <2>5 DEF WellKept
<1>12. DiskInv(Clean(s, o, g)) /\ Seen(Clean(s, o, g)) = s
  BY <1>11, CleanDoes
<1>13. \A p \in Slot : EntryIn(s, p) = t[p]
  <2> SUFFICES ASSUME NEW p \in Slot PROVE EntryIn(s, p) = t[p]
    OBVIOUS
  <2>0. t[p] \in Entry
    BY <1>1 DEF Trees
  <2>1. CASE p \in files
    <3>1. /\ s[p].kind = "file" /\ s[p].inode = inode[p] /\ inode[p] \in Inodes
          /\ used(inode[p]) /\ owner(inode[p]) = p
      BY <1>5, <1>6, <2>1, EntriesDiffer, PoolsDiffer
    <3>2. s[BytesOf(inode[p])] = t[p].bytes /\ s[ModeOf(inode[p])] = t[p].exec
      BY <1>6, <1>9, <2>1, <3>1
    <3>3. EntryIn(s, p) = File(t[p].bytes, t[p].exec)
      BY <3>1, <3>2 DEF EntryIn
    <3> QED
      BY <1>4, <2>0, <2>1, <3>3, EntryKinds DEF IsFile
  <2>2. CASE p \in Path \ files /\ IsLink(t[p])
    <3>1. s[p].kind = "link" /\ s[p].target = t[p].target
      BY <1>6, <2>2, EntriesDiffer
    <3>2. EntryIn(s, p) = Link(t[p].target)
      BY <3>1 DEF EntryIn
    <3> QED
      BY <2>0, <2>2, <3>2, EntryKinds DEF IsLink
  <2>3. CASE p \in Path \ files /\ IsDir(t[p])
    <3>1. ~IsLink(t[p])
      BY <2>3 DEF IsLink, IsDir
    <3>2. s[p].kind = "dir"
      BY <1>6, <2>3, <3>1, EntriesDiffer
    <3>3. EntryIn(s, p) = Directory
      BY <3>2 DEF EntryIn
    <3> QED
      BY <2>0, <2>3, <3>3, EntryKinds DEF IsDir
  <2>4. CASE p \notin files /\ (p \in Path => ~IsLink(t[p]) /\ ~IsDir(t[p]))
    <3>1. t[p] = Absent
      BY <1>1, <1>7, <2>0, <2>4, EntryKinds DEF Slot, IsFile, IsLink, IsDir
    <3>2. s[p].kind = "absent"
      BY <1>6, <2>4, EntriesDiffer, NamesDiffer
    <3> QED
      BY <3>1, <3>2 DEF EntryIn
  <2> QED
    BY <2>1, <2>2, <2>3, <2>4
<1>14. TreeIn(s) = t
  BY <1>1, <1>13 DEF TreeIn, Trees
<1>15. JournalIn(s) = None
  BY <1>6, NamesDiffer, AsideSlots, EntriesDiffer DEF JournalIn
<1> QED
  BY <1>12, <1>14, <1>15 DEF Does, s

-----------------------------------------------------------------------------
(* Where the process stands, whatever a power cut made of its journal.       *)

Standing ==
  /\ kept \in JournalNames
  /\ pc \in Phases
  /\ ops \in {<<>>} \cup Staged
  /\ i \in Nat
  /\ undo \in Seq(UndoStep)
  /\ asides \in Seq(Aside)
  /\ pc \notin {"idle", "replay", "sweep", "settle"} => ops \in Staged
  /\ pc \in {"lone", "commit", "exec", "land"} => i \in DOMAIN ops
  /\ pc = "unwind" => i <= Len(undo)
  /\ pc \in {"replay", "sweep", "settle"} => journal \in Staged
  /\ pc \in {"replay", "sweep"} => i \in DOMAIN journal

LEMMA StagedOps ==
  ASSUME NEW set \in Staged
  PROVE  /\ set \in Seq(Op) /\ Len(set) \in Nat /\ DOMAIN set = 1 .. Len(set) /\ 1 \in DOMAIN set
         /\ \A n \in DOMAIN set :
              /\ set[n] \in Op /\ n \in 1 .. MaxOps /\ n \in Nat
              /\ Displaced(set[n]) \in Path /\ Displaced(set[n]) \in Slot
              /\ AsideOf(Displaced(set[n]), n) \in Aside
              /\ AsideOf(Displaced(set[n]), n) \in Slot
<1>1. set \in Seq(Op) /\ Len(set) \in 1 .. MaxOps /\ DOMAIN set = 1 .. Len(set)
  BY StagedAssumption
<1>2. \A n \in DOMAIN set : set[n] \in Op /\ n \in 1 .. MaxOps /\ n \in Nat
  BY <1>1, ValueAssumption
<1> QED
  BY <1>1, <1>2, OpFields, AsideSlots

LEMMA StandsAtReturn ==
  ASSUME Standing, NEW a, Return(a), ops' = ops, kept' = kept
  PROVE  Standing'
<1>1. pc' = "idle" /\ i' = 0 /\ undo' = <<>> /\ asides' = <<>>
  BY DEF Return
<1>2. undo' \in Seq(UndoStep) /\ asides' \in Seq(Aside)
  BY <1>1, EmptySeq
<1> QED
  BY <1>1, <1>2 DEF Standing, Phases

LEMMA StandsInTurn ==
  ASSUME Standing, pc \in {"exec", "land"}, NextOp, ops' = ops, kept' = kept,
         undo' \in Seq(UndoStep), asides' \in Seq(Aside)
  PROVE  Standing'
<1>1. ops \in Staged /\ i \in DOMAIN ops /\ i \in Nat
  BY DEF Standing
<1>2. DOMAIN ops = 1 .. Len(ops) /\ Len(ops) \in Nat
  BY <1>1, StagedOps
<1>3. pc' \in {"exec", "certify"} /\ i' \in Nat /\ (pc' = "exec" => i' \in DOMAIN ops)
  BY <1>1, <1>2 DEF NextOp, GoTo
<1> QED
  BY <1>1, <1>3 DEF Standing, Phases

LEMMA StandsInRollback ==
  ASSUME Standing, ops \in Staged, pc' = "unwind", ops' = ops, kept' = kept,
         undo' \in Seq(UndoStep), i' = Len(undo'), asides' = asides
  PROVE  Standing'
<1>1. i' \in Nat /\ i' <= Len(undo')
  OBVIOUS
<1> QED
  BY <1>1 DEF Standing, Phases

LEMMA StandsStill ==
  ASSUME Standing, pc' = pc, ops' = ops, kept' = kept, i' = i, undo' = undo,
         asides' \in Seq(Aside), journal' = journal
  PROVE  Standing'
  BY DEF Standing

\* What the op at its last call has recorded.
LEMMA StepsRecorded ==
  ASSUME Standing, tree \in Trees, AtLanding
  PROVE  undo \o Recorded(tree, ops[i]) \in Seq(UndoStep)
<1> DEFINE steps == Recorded(tree, ops[i])
<1>1. pc \in {"exec", "land"} /\ (pc = "land" \/ ~Barred(tree, ops[i]))
  BY DEF AtLanding, AtOp
<1>2. ops[i] \in Op
  BY <1>1, StagedOps DEF Standing
<1>3. steps = <<>> \/ \E u \in UndoStep : steps = <<u>>
  BY <1>1, <1>2, RecordedTypes
<1> HIDE DEF steps
<1>4. undo \in Seq(UndoStep)
  BY DEF Standing
<1>5. steps = <<>> => undo \o steps \in Seq(UndoStep)
  BY <1>4, ConcatEmptySeq
<1>6. ASSUME NEW u \in UndoStep, steps = <<u>>
      PROVE  undo \o steps \in Seq(UndoStep)
  BY <1>4, <1>6, Longer
<1>7. undo \o steps \in Seq(UndoStep)
  BY <1>3, <1>5, <1>6
<1> QED
  BY <1>7 DEF steps

LEMMA StandingStep ==
  ASSUME Standing, tree \in Trees, journal \in {None, Garbled} \cup Staged, kept' = kept, Next
  PROVE  Standing'
<1>s. undo \in Seq(UndoStep) /\ asides \in Seq(Aside) /\ i \in Nat
  BY DEF Standing
<1>1. CASE Apply
  <2>1. ops' \in Staged /\ pc' \in {"lone", "commit"} /\ i' = 1 /\ undo' = <<>> /\ asides' = <<>>
    BY <1>1 DEF Apply
  <2>2. 1 \in DOMAIN ops' /\ undo' \in Seq(UndoStep) /\ asides' \in Seq(Aside)
    BY <2>1, StagedOps, EmptySeq
  <2> QED
    BY <2>1, <2>2 DEF Standing, Phases
<1>2. CASE ApplyRefused
  <2>1. /\ pc' = pc /\ ops' = ops /\ i' = i /\ undo' = undo /\ asides' = asides
        /\ journal' = journal
    BY <1>2 DEF ApplyRefused, log
  <2> QED
    BY <1>s, <2>1, StandsStill
<1>3. CASE RunLone
  <2>1. /\ pc' = "lonecertify" /\ pc = "lone" /\ ops' = ops /\ i' = i
        /\ undo' = undo /\ asides' = asides
    BY <1>3 DEF RunLone, log
  <2> QED
    BY <2>1 DEF Standing, Phases
<1>4. CASE LoneFails \/ CertifyLone \/ CommitFails \/ RetireJournal \/ RetireFails
           \/ AbortFlush \/ ReplayFails \/ SettleRecovery \/ RecoveryFails \/ Crash
  <2>1. ops' = ops /\ \E a : Return(a)
    BY <1>4 DEF LoneFails, CertifyLone, CommitFails, RetireJournal, RetireFails, AbortFlush,
                ReplayFails, SettleRecovery, RecoveryFails, Crash
  <2> QED
    BY <2>1, StandsAtReturn
<1>5. CASE Commit
  <2>1. /\ pc' = "exec" /\ pc = "commit" /\ ops' = ops /\ i' = i
        /\ undo' = undo /\ asides' = asides
    BY <1>5 DEF Commit, log
  <2> QED
    BY <2>1 DEF Standing, Phases
<1>6. CASE MoveAside
  <2> DEFINE p == Displaced(ops[i])
             a == AsideOf(p, i)
  <2>1. /\ pc = "exec" /\ ops' = ops /\ undo' = Append(undo, Rename(a, p))
        /\ asides' = Append(asides, a) /\ (NextOp \/ GoTo("land", i))
    BY <1>6 DEF MoveAside, AtOp
  <2>2. ops \in Staged /\ i \in DOMAIN ops
    BY <2>1 DEF Standing
  <2>3. p \in Path /\ a \in Aside /\ a \in Slot
    BY <2>2, StagedOps
  <2>4. Rename(a, p) \in UndoStep
    BY <2>3 DEF UndoStep
  <2> HIDE DEF a, p
  <2>5. undo' \in Seq(UndoStep) /\ asides' \in Seq(Aside)
    BY <1>s, <2>1, <2>3, <2>4
  <2>6. CASE NextOp
    BY <2>1, <2>5, <2>6, StandsInTurn
  <2>7. CASE GoTo("land", i)
    BY <2>1, <2>2, <2>5, <2>7 DEF GoTo, Standing, Phases
  <2> QED
    BY <2>1, <2>6, <2>7
<1>7. CASE Land
  <2>1. /\ AtLanding /\ NextOp /\ ops' = ops /\ asides' = asides
        /\ undo' = undo \o Recorded(tree, ops[i])
    BY <1>7 DEF Land
  <2>2. pc \in {"exec", "land"}
    BY <2>1 DEF AtLanding, AtOp
  <2> QED
    BY <1>s, <2>1, <2>2, StepsRecorded, StandsInTurn
<1>8. CASE LandRename
  <2>1. /\ AtLanding /\ NextOp /\ ops' = ops /\ asides' = asides /\ ops[i].act = "Rename"
        /\ undo' \in {undo, Append(undo, Rename(ops[i].other, ops[i].path))}
    BY <1>8 DEF LandRename
  <2>2. pc \in {"exec", "land"}
    BY <2>1 DEF AtLanding, AtOp
  <2>3. ops[i] \in Op
    BY <2>2, StagedOps DEF Standing
  <2>4. Rename(ops[i].other, ops[i].path) \in UndoStep
    BY <2>1, <2>3, OpFields, AsideSlots DEF UndoStep
  <2>5. undo' \in Seq(UndoStep)
    <3> DEFINE u == Rename(ops[i].other, ops[i].path)
    <3>1. u \in UndoStep /\ undo' \in {undo, Append(undo, u)}
      BY <2>1, <2>4
    <3> HIDE DEF u
    <3> QED
      BY <1>s, <3>1
  <2> QED
    BY <1>s, <2>1, <2>2, <2>5, StandsInTurn
<1>9. CASE ExecFails
  <2>1. /\ pc = "exec" /\ pc' = "unwind" /\ i' = Len(undo) /\ ops' = ops
        /\ undo' = undo /\ asides' = asides
    BY <1>9 DEF ExecFails, GoTo, log
  <2>2. ops \in Staged
    BY <2>1 DEF Standing
  <2> QED
    BY <1>s, <2>1, <2>2, StandsInRollback
<1>10. CASE LandFails
  <2>1. /\ AtLanding /\ pc' = "unwind" /\ i' = Len(undo') /\ ops' = ops /\ asides' = asides
        /\ undo' = undo \o Recorded(tree, ops[i])
    BY <1>10 DEF LandFails, GoTo
  <2>2. ops \in Staged
    BY <2>1 DEF AtLanding, AtOp, Standing
  <2> QED
    BY <2>1, <2>2, StepsRecorded, StandsInRollback
<1>11. CASE Certify
  <2>1. /\ pc = "certify" /\ ops' = ops /\ undo' = undo /\ asides' = asides
        /\ GoTo("retire", 0) \/ GoTo("unwind", Len(undo))
    BY <1>11 DEF Certify, log
  <2>2. ops \in Staged
    BY <2>1 DEF Standing
  <2>3. CASE GoTo("retire", 0)
    BY <2>1, <2>2, <2>3 DEF GoTo, Standing, Phases
  <2>4. CASE GoTo("unwind", Len(undo))
    BY <1>s, <2>1, <2>2, <2>4, StandsInRollback DEF GoTo
  <2> QED
    BY <2>1, <2>3, <2>4
<1>12. CASE RetireAside
  <2>1. /\ pc' = pc /\ ops' = ops /\ i' = i /\ undo' = undo /\ journal' = journal
        /\ asides # <<>> /\ asides' = Tail(asides)
    BY <1>12 DEF RetireAside
  <2>2. asides' \in Seq(Aside)
    BY <1>s, <2>1
  <2> QED
    BY <2>1, <2>2, StandsStill
<1>13. CASE Unwind \/ UnwindFails
  <2>1. /\ pc = "unwind" /\ pc' = pc /\ i > 0 /\ i' = i - 1
        /\ ops' = ops /\ undo' = undo /\ asides' = asides
    BY <1>13 DEF Unwind, UnwindFails, log
  <2>2. ops \in Staged /\ i <= Len(undo) /\ Len(undo) \in Nat
    BY <1>s, <2>1 DEF Standing
  <2>3. i' \in Nat /\ i' <= Len(undo)
    BY <1>s, <2>1, <2>2
  <2> QED
    BY <2>1, <2>2, <2>3 DEF Standing
<1>14. CASE Unwound
  <2>1. pc = "unwind" /\ ops' = ops
    BY <1>14 DEF Unwound
  <2>2. CASE failed
    BY <1>14, <2>1, <2>2, StandsAtReturn DEF Unwound
  <2>3. CASE ~failed
    <3>1. pc' = "abort" /\ i' = 0 /\ undo' = undo /\ asides' = asides
      BY <1>14, <2>3 DEF Unwound, GoTo, log
    <3> QED
      BY <2>1, <3>1 DEF Standing, Phases
  <2> QED
    BY <2>2, <2>3
<1>15. CASE Abort
  <2>1. pc = "abort" /\ ops' = ops
    BY <1>15 DEF Abort
  <2>2. CASE Return("torn")
    BY <2>1, <2>2, StandsAtReturn
  <2>3. CASE ~Return("torn")
    <3>1. pc' = "abortflush" /\ i' = 0 /\ undo' = undo /\ asides' = asides
      BY <1>15, <2>3 DEF Abort, GoTo, log
    <3> QED
      BY <2>1, <3>1 DEF Standing, Phases
  <2> QED
    BY <2>2, <2>3
<1>16. CASE Recover
  <2>1. /\ pc = "idle" /\ journal # None /\ journal' = journal
        /\ ops' = ops /\ undo' = undo /\ asides' = asides
    BY <1>16 DEF Recover, log
  <2>2. CASE journal = Garbled
    BY <1>s, <1>16, <2>1, <2>2, StandsStill DEF Recover
  <2>3. CASE journal # Garbled
    <3>1. pc' = "replay" /\ i' = 1 /\ journal \in Staged
      BY <1>16, <2>1, <2>3 DEF Recover, GoTo
    <3>2. 1 \in DOMAIN journal
      BY <3>1, StagedOps
    <3> QED
      BY <2>1, <3>1, <3>2 DEF Standing, Phases
  <2> QED
    BY <2>2, <2>3
<1>17. CASE Replay \/ Sweep
  <2>1. /\ pc \in {"replay", "sweep"} /\ journal' = journal
        /\ ops' = ops /\ undo' = undo /\ asides' = asides
        /\ \/ i = Len(journal) /\ ((pc' = "sweep" /\ i' = 1) \/ (pc' = "settle" /\ i' = 0))
           \/ i # Len(journal) /\ pc' = pc /\ i' = i + 1
    BY <1>17 DEF Replay, Sweep, GoTo, log
  <2>2. journal \in Staged /\ i \in DOMAIN journal
    BY <2>1 DEF Standing
  <2>3. DOMAIN journal = 1 .. Len(journal) /\ Len(journal) \in Nat /\ 1 \in DOMAIN journal
    BY <2>2, StagedOps
  <2>4. pc' \in {"replay", "sweep", "settle"} /\ i' \in Nat
        /\ (pc' \in {"replay", "sweep"} => i' \in DOMAIN journal)
    <3>1. CASE i = Len(journal)
      BY <1>s, <2>1, <2>3, <3>1
    <3>2. CASE i # Len(journal)
      <4>1. pc' = pc /\ i' = i + 1
        BY <2>1, <3>2
      <4>2. \A a, m \in Nat : (a \in 1 .. m /\ a # m) => (a + 1 \in 1 .. m /\ a + 1 \in Nat)
        OBVIOUS
      <4>3. i \in 1 .. Len(journal)
        BY <2>2, <2>3
      <4>4. i' \in 1 .. Len(journal) /\ i' \in Nat
        BY <1>s, <2>3, <3>2, <4>1, <4>2, <4>3
      <4> QED
        BY <2>1, <2>3, <4>1, <4>4
    <3> QED
      BY <3>1, <3>2
  <2> QED
    BY <2>1, <2>2, <2>4 DEF Standing, Phases
<1> QED
  BY <1>1, <1>2, <1>3, <1>4, <1>5, <1>6, <1>7, <1>8, <1>9, <1>10, <1>11, <1>12, <1>13, <1>14,
     <1>15, <1>16, <1>17 DEF Next, Call, Proceed

-----------------------------------------------------------------------------
(* Every step of the machine.                                                *)

DurableInv ==
  /\ Standing
  /\ Does(disk, tree, journal)

LEMMA DoesNext ==
  ASSUME kept' = kept, Does(disk', tree', journal')
  PROVE  Does(disk, tree, journal)'
<1>1. DiskInv(disk') /\ TreeIn(Seen(disk')) = tree' /\ JournalIn(Seen(disk')) = journal'
  BY DEF Does
<1>2. DiskInv(disk)' /\ (TreeIn(Seen(disk)) = tree)'
  BY <1>1
<1>3. (JournalIn(Seen(disk)) = journal)'
  BY <1>1 DEF JournalIn
<1> QED
  BY <1>2, <1>3 DEF Does

LEMMA ShowsDoes ==
  ASSUME DiskInv(disk'), Shows'
  PROVE  Does(disk, tree, journal)'
<1>1. DiskInv(disk)'
  OBVIOUS
<1> QED
  BY <1>1 DEF Does, Shows

LEMMA DurableBegins ==
  ASSUME DurableInit
  PROVE  DurableInv
<1>1. kept \in JournalNames
  BY LayoutAssumption DEF DurableInit
<1>2. PICK ordered \in Orders : disk = Clean(StoreOf(tree), ordered, "Durable")
  BY DEF DurableInit
<1>3. tree \in InitTrees /\ journal = None
  BY DEF DurableInit, Init
<1>4. Does(disk, tree, journal)
  BY <1>1, <1>2, <1>3, StoreDoes
<1>5. Standing
  BY <1>1, EmptySeq DEF DurableInit, Init, Standing, Phases
<1> QED
  BY <1>4, <1>5 DEF DurableInv

LEMMA RoomHas ==
  ASSUME HasRoom
  PROVE  Unknown(disk, Pool) # {} /\ \A pool \in {Pool, HomePool} : Unknown(disk, pool) # {}
  BY DEF HasRoom

LEMMA OpNow ==
  ASSUME DurableInv, pc \in {"lone", "commit", "exec", "land"}
  PROVE  /\ kept \in JournalNames /\ tree \in Trees
         /\ ops \in Staged /\ i \in DOMAIN ops /\ ops[i] \in Op
         /\ (CanRun(tree, ops[i]) => Callable(ops[i]))
<1>1. kept \in JournalNames /\ tree \in Trees /\ ops \in Staged /\ i \in DOMAIN ops
  BY DoesTypes DEF DurableInv, Standing
<1>2. ops[i] \in Op
  BY <1>1, StagedOps
<1>3. CanRun(tree, ops[i]) => (ops[i].act = "CopyFrom" => Readable(tree, ops[i].other))
  BY DEF CanRun
<1> QED
  BY <1>1, <1>2, <1>3, OpIsCallable

LEMMA LoneNow ==
  ASSUME DurableInv, pc = "lone"
  PROVE  /\ ops[1] \in Op
         /\ (CanRun(tree, ops[1]) => Callable(ops[1]))
<1>1. tree \in Trees /\ ops \in Staged
  BY DoesTypes DEF DurableInv, Standing
<1>2. ops[1] \in Op
  BY <1>1, StagedOps
<1>3. CanRun(tree, ops[1]) => (ops[1].act = "CopyFrom" => Readable(tree, ops[1].other))
  BY DEF CanRun
<1> QED
  BY <1>1, <1>2, <1>3, OpIsCallable

LEMMA ReplayNow ==
  ASSUME DurableInv, pc \in {"replay", "sweep"}
  PROVE  /\ journal[i] \in Op
         /\ AsideOf(Displaced(journal[i]), i) \in Slot
         /\ (CanRun(tree, journal[i]) => Callable(journal[i]))
<1>1. tree \in Trees /\ journal \in Staged /\ i \in DOMAIN journal
  BY DoesTypes DEF DurableInv, Standing
<1>2. journal[i] \in Op /\ AsideOf(Displaced(journal[i]), i) \in Slot
  BY <1>1, StagedOps
<1>3. CanRun(tree, journal[i]) => (journal[i].act = "CopyFrom" => Readable(tree, journal[i].other))
  BY DEF CanRun
<1> QED
  BY <1>1, <1>2, <1>3, OpIsCallable

LEMMA UndoNow ==
  ASSUME DurableInv, pc = "unwind", i > 0
  PROVE  undo[i] \in UndoStep
<1>1. undo \in Seq(UndoStep) /\ i \in Nat /\ i <= Len(undo)
  BY DEF DurableInv, Standing
<1>2. i \in 1 .. Len(undo)
  BY <1>1
<1> QED
  BY <1>1, <1>2

\* The calls of the process, each against what it does to the disk.
LEMMA PassesShow ==
  ASSUME DurableInv, kept' = kept, Begins \/ Passes
  PROVE  Does(disk, tree, journal)'
<1>1. disk' = disk /\ tree' = tree /\ journal' = journal
  BY DEF Begins, Passes, Apply, ApplyRefused, ExecFails, Unwound, RetireFails, RecoveryFails,
         Recover
<1> QED
  BY <1>1, DoesNext DEF DurableInv

LEMMA LoneShows ==
  ASSUME DurableInv, HasRoom, kept' = kept, RunsLone \/ LeavesLone \/ CertifiesLone
  PROVE  Does(disk, tree, journal)'
<1>k. kept \in JournalNames /\ Does(disk, tree, journal)
  BY DEF DurableInv, Standing
<1>1. CASE RunsLone
  <2>1. /\ pc = "lone" /\ CanRun(tree, ops[1])
        /\ tree' = Ran(tree, ops[1]) /\ journal' = journal /\ disk' = CallOn(disk, ops[1])
    BY <1>1 DEF RunsLone, RunLone
  <2>2. Callable(ops[1])
    BY <2>1, LoneNow
  <2>3. Does(CallOn(disk, ops[1]), Ran(tree, ops[1]), journal)
    BY <1>k, <2>2, RoomHas, CallDoes
  <2> QED
    BY <2>1, <2>3, DoesNext
<1>2. CASE LeavesLone
  <2>1. pc = "lone" /\ disk' \in CallLeft(disk, ops[1]) /\ Shows'
    BY <1>2 DEF LeavesLone, LoneFails
  <2>2. CanRun(tree, ops[1]) => Callable(ops[1])
    BY <2>1, LoneNow
  <2>3. DiskInv(disk')
    BY <1>k, <2>1, <2>2, RoomHas, CallLeaves
  <2> QED
    BY <2>1, <2>3, ShowsDoes
<1>3. CASE CertifiesLone
  <2>1. /\ tree' = tree /\ journal' = journal
        /\ \/ disk' = disk
           \/ disk' = FlushAll(disk, Debts(ops[1]), Root, "Durable")
    BY <1>3 DEF CertifiesLone, CertifyLone
  <2>2. Calmer(FlushAll(disk, Debts(ops[1]), Root, "Durable"), disk)
    BY <1>k, FlushCalms DEF Does
  <2>3. Does(disk', tree, journal)
    BY <1>k, <2>1, <2>2, CalmDoes
  <2> QED
    BY <2>1, <2>3, DoesNext
<1> QED
  BY <1>1, <1>2, <1>3

LEMMA CommitShows ==
  ASSUME DurableInv, HasRoom, kept' = kept, Commits \/ LeavesCommit
  PROVE  Does(disk, tree, journal)'
<1>1. kept \in JournalNames /\ Does(disk, tree, journal)
  BY DEF DurableInv, Standing
<1>2. pc = "commit" /\ ops \in Staged
  BY DEF Commits, LeavesCommit, Commit, CommitFails, DurableInv, Standing
<1>3. Does(Committed(disk), tree, ops) /\ \A h \in CommitLeft(disk) : DiskInv(h)
  BY <1>1, <1>2, RoomHas, CommitDoes
<1>4. CASE Commits
  <2>1. tree' = tree /\ journal' = ops /\ disk' = Committed(disk)
    BY <1>4 DEF Commits, Commit
  <2> QED
    BY <1>3, <2>1, DoesNext
<1>5. CASE LeavesCommit
  <2>1. disk' \in CommitLeft(disk) /\ Shows'
    BY <1>5 DEF LeavesCommit
  <2> QED
    BY <1>3, <2>1, ShowsDoes
<1> QED
  BY <1>4, <1>5

LEMMA ExecShows ==
  ASSUME DurableInv, HasRoom, kept' = kept, MovesItAside \/ LandsOp \/ LeavesOp
  PROVE  Does(disk, tree, journal)'
<1>k. Does(disk, tree, journal) /\ kept \in JournalNames
  BY DEF DurableInv, Standing
<1>1. pc \in {"exec", "land"}
  BY DEF MovesItAside, LandsOp, LeavesOp, MoveAside, Land, LandRename, LandFails, AtLanding, AtOp
<1>2. ops \in Staged /\ i \in DOMAIN ops /\ (CanRun(tree, ops[i]) => Callable(ops[i]))
  BY <1>1, OpNow
<1>3. CASE MovesItAside
  <2> DEFINE p == Displaced(ops[i])
             a == AsideOf(p, i)
  <2>1. /\ disk' = Renamed(disk, p, a) /\ tree' = Moved(tree, p, a) /\ journal' = journal
    BY <1>3 DEF MovesItAside, MoveAside
  <2>2. p \in Slot /\ a \in Slot
    BY <1>2, StagedOps
  <2> HIDE DEF p, a
  <2>3. Does(disk', tree', journal')
    BY <1>k, <2>1, <2>2, MovedOn
  <2> QED
    BY <2>3, DoesNext
<1>4. CASE LandsOp
  <2>1. /\ CanRun(tree, ops[i])
        /\ tree' = Ran(tree, ops[i]) /\ journal' = journal /\ disk' = CallOn(disk, ops[i])
    BY <1>4 DEF LandsOp, Land, LandRename
  <2>2. Does(CallOn(disk, ops[i]), Ran(tree, ops[i]), journal)
    BY <1>k, <1>2, <2>1, RoomHas, CallDoes
  <2> QED
    BY <2>1, <2>2, DoesNext
<1>5. CASE LeavesOp
  <2>1. disk' \in CallLeft(disk, ops[i]) /\ Shows'
    BY <1>5 DEF LeavesOp
  <2>2. DiskInv(disk')
    BY <1>k, <1>2, <2>1, RoomHas, CallLeaves
  <2> QED
    BY <2>1, <2>2, ShowsDoes
<1> QED
  BY <1>3, <1>4, <1>5

LEMMA RetireShows ==
  ASSUME DurableInv, kept' = kept, Certifies \/ RetiresAside \/ RetiresJournal
  PROVE  Does(disk, tree, journal)'
<1>k. Does(disk, tree, journal) /\ kept \in JournalNames
  BY DEF DurableInv, Standing
<1>1. CASE Certifies
  <2>1. /\ tree' = tree /\ journal' = journal
        /\ \/ disk' = disk
           \/ disk' = FlushAll(disk, AllDebts(ops), Root, "Durable")
    BY <1>1 DEF Certifies, Certify
  <2>2. Calmer(FlushAll(disk, AllDebts(ops), Root, "Durable"), disk)
    BY <1>k, FlushCalms DEF Does
  <2>3. Does(disk', tree, journal)
    BY <1>k, <2>1, <2>2, CalmDoes
  <2> QED
    BY <2>1, <2>3, DoesNext
<1>2. CASE RetiresAside
  <2>1. /\ asides # <<>> /\ tree' = Removed(tree, Head(asides)) /\ journal' = journal
        /\ disk' = Unlinked(disk, Head(asides))
    BY <1>2 DEF RetiresAside, RetireAside
  <2>2. asides \in Seq(Aside)
    BY DEF DurableInv, Standing
  <2>3. Head(asides) \in Aside
    BY <2>1, <2>2
  <2>4. Head(asides) \in Slot
    BY <2>3 DEF Slot
  <2>5. Does(Unlinked(disk, Head(asides)), Removed(tree, Head(asides)), journal)
    BY <1>k, <2>4, RemovedOn
  <2> QED
    BY <2>1, <2>5, DoesNext
<1>3. CASE RetiresJournal
  <2>1. /\ tree' = tree /\ journal' = None
        /\ disk' = Retired(disk, {DirOf(a) : a \in Displacements})
    BY <1>3 DEF RetiresJournal, RetireJournal
  <2>2. Does(disk', tree', journal')
    BY <1>k, <2>1, RetireDoes
  <2> QED
    BY <2>2, DoesNext
<1> QED
  BY <1>1, <1>2, <1>3

LEMMA RollbackShows ==
  ASSUME DurableInv, HasRoom, kept' = kept,
         Unwinds \/ LeavesUnwind \/ Aborts \/ FlushesAbort
  PROVE  Does(disk, tree, journal)'
<1>k. Does(disk, tree, journal) /\ kept \in JournalNames
  BY DEF DurableInv, Standing
<1>1. CASE Unwinds
  <2>1. /\ pc = "unwind" /\ i > 0
        /\ tree' = Undone(tree, undo[i]) /\ journal' = journal /\ disk' = UndoOn(disk, undo[i])
    BY <1>1 DEF Unwinds, Unwind
  <2>2. undo[i] \in UndoStep
    BY <2>1, UndoNow
  <2>3. Does(UndoOn(disk, undo[i]), Undone(tree, undo[i]), journal)
    BY <1>k, <2>2, RoomHas, UndoDoes
  <2> QED
    BY <2>1, <2>3, DoesNext
<1>2. CASE LeavesUnwind
  <2>1. pc = "unwind" /\ i > 0 /\ disk' \in UndoLeft(disk, undo[i]) /\ Shows'
    BY <1>2 DEF LeavesUnwind, UnwindFails
  <2>2. undo[i] \in UndoStep
    BY <2>1, UndoNow
  <2>3. DiskInv(disk')
    BY <1>k, <2>1, <2>2, RoomHas, UndoLeaves
  <2> QED
    BY <2>1, <2>3, ShowsDoes
<1>3. CASE Aborts
  <2>1. CASE pc' = "abortflush"
    <3>1. tree' = tree /\ journal' = None /\ disk' = Aborted(disk)
      BY <1>3, <2>1 DEF Aborts, Abort, Return
    <3>2. Does(disk', tree', journal')
      BY <1>k, <3>1, AbortDoes
    <3> QED
      BY <3>2, DoesNext
  <2>2. CASE pc' # "abortflush"
    <3>1. tree' = tree /\ journal' = journal /\ disk' = disk
      BY <1>3, <2>2 DEF Aborts, Abort, GoTo
    <3> QED
      BY <1>k, <3>1, DoesNext
  <2> QED
    BY <2>1, <2>2
<1>4. CASE FlushesAbort
  <2>1. /\ tree' = tree /\ journal' = journal
        /\ \/ disk' = disk
           \/ disk' = Sync(disk, DirOf(kept), "Durable")
    BY <1>4 DEF FlushesAbort, AbortFlush
  <2>2. Calmer(Sync(disk, DirOf(kept), "Durable"), disk)
    BY <1>k, SyncCalms DEF Does
  <2>3. Does(disk', tree, journal)
    BY <1>k, <2>1, <2>2, CalmDoes
  <2> QED
    BY <2>1, <2>3, DoesNext
<1> QED
  BY <1>1, <1>2, <1>3, <1>4

LEMMA RecoveryShows ==
  ASSUME DurableInv, HasRoom, kept' = kept,
         ReplaysOp \/ LeavesReplay \/ Sweeps \/ SettlesRecovery
  PROVE  Does(disk, tree, journal)'
<1>k. Does(disk, tree, journal) /\ kept \in JournalNames
  BY DEF DurableInv, Standing
<1>1. CASE ReplaysOp
  <2>1. /\ pc = "replay" /\ CanReplay(tree, journal[i])
        /\ tree' = Replayed(tree, journal[i]) /\ journal' = journal
        /\ disk' = ReplayOn(disk, journal[i])
    BY <1>1 DEF ReplaysOp, Replay
  <2>2. journal[i] \in Op
    BY <2>1, ReplayNow
  <2>3. Does(ReplayOn(disk, journal[i]), Replayed(tree, journal[i]), journal)
    BY <1>k, <2>1, <2>2, RoomHas, ReplayDoes
  <2> QED
    BY <2>1, <2>3, DoesNext
<1>2. CASE LeavesReplay
  <2>1. pc = "replay" /\ disk' \in CallLeft(disk, journal[i]) /\ Shows'
    BY <1>2 DEF LeavesReplay, ReplayFails
  <2>2. CanRun(tree, journal[i]) => Callable(journal[i])
    BY <2>1, ReplayNow
  <2>3. DiskInv(disk')
    BY <1>k, <2>1, <2>2, RoomHas, CallLeaves
  <2> QED
    BY <2>1, <2>3, ShowsDoes
<1>3. CASE Sweeps
  <2> DEFINE a == AsideOf(Displaced(journal[i]), i)
  <2>1. /\ pc = "sweep" /\ journal' = journal
        /\ tree' \in {tree, Removed(tree, a)}
        /\ disk' = IF tree' = tree THEN disk ELSE Unlinked(disk, a)
    BY <1>3 DEF Sweeps, Sweep
  <2>2. a \in Slot
    BY <2>1, ReplayNow
  <2> HIDE DEF a
  <2>3. Does(Unlinked(disk, a), Removed(tree, a), journal)
    BY <1>k, <2>2, RemovedOn
  <2>4. Does(disk', tree', journal')
    BY <1>k, <2>1, <2>3
  <2> QED
    BY <2>4, DoesNext
<1>4. CASE SettlesRecovery
  <2>1. tree' = tree /\ journal' = None /\ disk' = Retired(disk, AllDebts(journal))
    BY <1>4 DEF SettlesRecovery, SettleRecovery
  <2>2. Does(disk', tree', journal')
    BY <1>k, <2>1, RetireDoes
  <2> QED
    BY <2>2, DoesNext
<1> QED
  BY <1>1, <1>2, <1>3, <1>4

LEMMA DeathShows ==
  ASSUME DurableInv, HasRoom, kept' = kept, Dies
  PROVE  Does(disk, tree, journal)'
<1>k. Does(disk, tree, journal) /\ kept \in JournalNames
  BY DEF DurableInv, Standing
<1>1. Shows'
  BY DEF Dies
<1>2. CASE pc = "lone" \/ AtLanding
  <2>1. disk' \in CallLeft(disk, ops[i])
    BY <1>2 DEF Dies
  <2>2. pc \in {"lone", "exec", "land"}
    BY <1>2 DEF AtLanding, AtOp
  <2>3. CanRun(tree, ops[i]) => Callable(ops[i])
    BY <2>2, OpNow
  <2>4. DiskInv(disk')
    BY <1>k, <2>1, <2>3, RoomHas, CallLeaves
  <2> QED
    BY <1>1, <2>4, ShowsDoes
<1>3. CASE pc = "unwind" /\ i > 0
  <2>1. disk' \in UndoLeft(disk, undo[i])
    BY <1>3 DEF Dies, AtLanding, AtOp
  <2>2. undo[i] \in UndoStep
    BY <1>3, UndoNow
  <2>3. DiskInv(disk')
    BY <1>k, <2>1, <2>2, RoomHas, UndoLeaves
  <2> QED
    BY <1>1, <2>3, ShowsDoes
<1>4. CASE pc = "replay"
  <2>1. disk' \in CallLeft(disk, journal[i])
    BY <1>4 DEF Dies, AtLanding, AtOp
  <2>2. CanRun(tree, journal[i]) => Callable(journal[i])
    BY <1>4, ReplayNow
  <2>3. DiskInv(disk')
    BY <1>k, <2>1, <2>2, RoomHas, CallLeaves
  <2> QED
    BY <1>1, <2>3, ShowsDoes
<1>5. CASE pc = "commit"
  <2>1. disk' \in CommitLeft(disk)
    BY <1>5 DEF Dies, AtLanding, AtOp
  <2>2. ops \in Staged
    BY <1>5, OpNow
  <2>3. DiskInv(disk')
    BY <1>k, <2>1, <2>2, RoomHas, CommitDoes
  <2> QED
    BY <1>1, <2>3, ShowsDoes
<1>6. CASE /\ pc \notin {"lone", "replay", "commit"} /\ ~AtLanding
           /\ ~(pc = "unwind" /\ i > 0)
  <2>1. disk' = disk
    BY <1>6 DEF Dies
  <2> QED
    BY <1>k, <1>1, <2>1, ShowsDoes DEF Does
<1> QED
  BY <1>2, <1>3, <1>4, <1>5, <1>6

LEMMA CutShows ==
  ASSUME DurableInv, PowerCut
  PROVE  DurableInv'
<1>1. /\ Does(disk, tree, journal) /\ Standing /\ kept \in JournalNames
      /\ kept' = kept /\ ops' = ops /\ Return("crashed")
  BY DEF DurableInv, Standing, PowerCut
<1>2. PICK s \in Survivors(disk) :
        /\ disk' = Clean(WithoutHome(s), disk.ordered, disk.grade)
        /\ tree' = TreeIn(s) /\ journal' = JournalIn(s)
  BY DEF PowerCut
<1>3. Does(disk', tree', journal')
  BY <1>1, <1>2, CutDoes DEF Does
<1>4. Does(disk, tree, journal)'
  BY <1>1, <1>3, DoesNext
<1>5. Standing'
  BY <1>1, StandsAtReturn
<1> QED
  BY <1>4, <1>5 DEF DurableInv

LEMMA RunShows ==
  ASSUME DurableInv, Runs
  PROVE  DurableInv'
<1>1. HasRoom /\ kept' = kept
  BY DEF Runs
<1>2. Does(disk, tree, journal)'
  <2>1. CASE Begins \/ Passes
    BY <1>1, <2>1, PassesShow
  <2>2. CASE RunsLone \/ LeavesLone \/ CertifiesLone
    BY <1>1, <2>2, LoneShows
  <2>3. CASE Commits \/ LeavesCommit
    BY <1>1, <2>3, CommitShows
  <2>4. CASE MovesItAside \/ LandsOp \/ LeavesOp
    BY <1>1, <2>4, ExecShows
  <2>5. CASE Certifies \/ RetiresAside \/ RetiresJournal
    BY <1>1, <2>5, RetireShows
  <2>6. CASE Unwinds \/ LeavesUnwind \/ Aborts \/ FlushesAbort
    BY <1>1, <2>6, RollbackShows
  <2>7. CASE ReplaysOp \/ LeavesReplay \/ Sweeps \/ SettlesRecovery
    BY <1>1, <2>7, RecoveryShows
  <2>8. CASE Dies
    BY <1>1, <2>8, DeathShows
  <2> QED
    BY <2>1, <2>2, <2>3, <2>4, <2>5, <2>6, <2>7, <2>8 DEF Runs
<1>3. Next
  <2>1. CASE Begins \/ Passes \/ RunsLone \/ LeavesLone \/ CertifiesLone \/ Commits \/ LeavesCommit
             \/ MovesItAside \/ LandsOp \/ LeavesOp
    BY <2>1 DEF Begins, Passes, RunsLone, LeavesLone, CertifiesLone, Commits, LeavesCommit,
                MovesItAside, LandsOp, LeavesOp, Next, Call, Proceed
  <2>2. CASE Certifies \/ RetiresAside \/ RetiresJournal \/ Unwinds \/ LeavesUnwind \/ Aborts
             \/ FlushesAbort
    BY <2>2 DEF Certifies, RetiresAside, RetiresJournal, Unwinds, LeavesUnwind, Aborts,
                FlushesAbort, Next, Proceed
  <2>3. CASE ReplaysOp \/ LeavesReplay \/ Sweeps \/ SettlesRecovery \/ Dies
    BY <2>3 DEF ReplaysOp, LeavesReplay, Sweeps, SettlesRecovery, Dies, Next, Proceed
  <2> QED
    BY <2>1, <2>2, <2>3 DEF Runs
<1>4. tree \in Trees /\ journal \in {None, Garbled} \cup Staged
  BY DoesTypes, JournalShown DEF DurableInv, Does, Standing
<1>5. Standing'
  BY <1>1, <1>3, <1>4, StandingStep DEF DurableInv
<1> QED
  BY <1>2, <1>5 DEF DurableInv

LEMMA DurableStep ==
  ASSUME DurableInv, [DurableNext]_dvars
  PROVE  DurableInv'
<1>1. CASE Runs
  BY <1>1, RunShows
<1>2. CASE PowerCut
  BY <1>2, CutShows
<1>3. CASE UNCHANGED dvars
  <2>1. /\ tree' = tree /\ journal' = journal /\ disk' = disk /\ kept' = kept
        /\ pc' = pc /\ ops' = ops /\ i' = i /\ undo' = undo /\ asides' = asides
    BY <1>3 DEF dvars, vars
  <2>2. Does(disk, tree, journal)'
    BY <2>1, DoesNext DEF DurableInv
  <2>3. Standing'
    BY <2>1 DEF DurableInv, Standing
  <2> QED
    BY <2>2, <2>3 DEF DurableInv
<1> QED
  BY <1>1, <1>2, <1>3 DEF DurableNext

\* Every disk the calls leave has its inodes in order, and holds the tree and
\* the journal, through any number of failures, deaths and power cuts.
THEOREM DurableAlwaysInv == DurableSpec => []DurableInv
<1>1. DurableInit => DurableInv
  BY DurableBegins
<1>2. DurableInv /\ [DurableNext]_dvars => DurableInv'
  BY DurableStep
<1> QED
  BY <1>1, <1>2, PTL DEF DurableSpec

\* The tree and the journal every other property is about are those a process
\* finds on the disk, whatever a call of apply, of its rollback or of recover
\* has written, wherever a call failed or was cut short, and after a power cut.
THEOREM DiskAlwaysShowsTree == DurableSpec => []DiskShowsTree
<1>1. DurableInv => DiskShowsTree
  BY DEF DurableInv, Does, DiskShowsTree, Shows
<1> QED
  BY <1>1, DurableAlwaysInv, PTL

-----------------------------------------------------------------------------
(* What a call leaves of the journal, of its home and of the asides: what    *)
(* they may come out as, and when they are settled.                          *)

Watched == Aside \cup JournalNames \cup {HomeName}

\* An inode a journal may have.
Claimed(k, n) == \E j \in JournalNames : Inode(n) \in Values(k, j)

Based(k) == Sound(k) /\ Entries \cup Parts \subseteq DOMAIN k.store

\* h is k after calls that had nothing to do with them.
Spares(h, k) ==
  /\ Based(h)
  /\ Alike(h, k, Watched)
  /\ \A l \in Watched : Seen(h)[l] = Seen(k)[l]
  /\ \A n \in Inodes : Claimed(h, n) => Eases(h, k, BytesOf(n))

LEMMA WatchedAre ==
  /\ Watched \subseteq Entries /\ Watched \cap Path = {} /\ Watched \cap Parts = {}
  /\ JournalNames \subseteq Watched /\ Aside \subseteq Watched /\ HomeName \in Watched
  /\ Path \subseteq Entries /\ Path \cap Aside = {} /\ Path \cap Parts = {}
  /\ Aside \cap JournalNames = {} /\ HomeName \notin Aside
<1>1. Path \subseteq Slot /\ Aside \subseteq Slot /\ Path \cap Aside = {}
  BY PathAssumption DEF Slot
<1> QED
  BY <1>1, NamesDiffer, LayoutAssumption DEF Watched

LEMMA BasedIs ==
  ASSUME NEW k, DiskInv(k)
  PROVE  Based(k)
  BY DEF DiskInv, Typed, Based

LEMMA SparesSame ==
  ASSUME NEW k, Based(k)
  PROVE  Spares(k, k)
  BY AlikeSame DEF Spares, Eases

LEMMA SparesTwice ==
  ASSUME NEW k, NEW h, NEW g, Spares(h, k), Spares(g, h)
  PROVE  Spares(g, k)
<1>1. Alike(g, k, Watched)
  BY AlikeTwice DEF Spares
<1>2. ASSUME NEW n \in Inodes, Claimed(g, n) PROVE Eases(g, k, BytesOf(n))
  <2>1. Claimed(h, n)
    BY <1>2, WatchedAre DEF Claimed, Spares, Alike, Eases
  <2> QED
    BY <1>2, <2>1, EasesTwice DEF Spares
<1> QED
  BY <1>1, <1>2 DEF Spares

LEMMA SparesUnclaimed ==
  ASSUME NEW k, NEW h, Spares(h, k), NEW n, ~Claimed(k, n)
  PROVE  ~Claimed(h, n)
  BY WatchedAre DEF Claimed, Spares, Alike, Eases

\* A write of other locations is not seen there.
LEMMA SeenBeside ==
  ASSUME NEW k, Based(k), NEW h, NEW puts, Added(h, k, puts), Watched \cap DOMAIN puts = {}
  PROVE  \A l \in Watched : Seen(h)[l] = Seen(k)[l]
<1> SUFFICES ASSUME NEW l \in Watched PROVE Seen(h)[l] = Seen(k)[l]
  OBVIOUS
<1>1. l \in DOMAIN k.store /\ l \notin DOMAIN puts
  BY WatchedAre DEF Based
<1>2. l \in DOMAIN Seen(k)
  BY <1>1, SeenIsValue DEF Based
<1> QED
  BY <1>1, <1>2, AddedSees DEF Based

LEMMA SyncSpares ==
  ASSUME NEW k, Based(k), NEW o, NEW need
  PROVE  Spares(Sync(k, o, need), k)
<1>1. Sound(Sync(k, o, need)) /\ Seen(Sync(k, o, need)) = Seen(k)
  BY SyncKeeps DEF Based
<1>2. Watched \in SUBSET DOMAIN k.store /\ \A n \in Inodes : BytesOf(n) \in DOMAIN k.store
  BY WatchedAre, PartsDiffer DEF Based
<1> QED
  BY <1>1, <1>2, SyncAlike DEF Spares, Based

LEMMA FlushSpares ==
  ASSUME NEW k, Based(k), NEW debts, NEW anchor, NEW need
  PROVE  Spares(FlushAll(k, debts, anchor, need), k)
<1>1. /\ Sound(FlushAll(k, debts, anchor, need))
      /\ Seen(FlushAll(k, debts, anchor, need)) = Seen(k)
  BY FlushesAreUnseen DEF Based
<1>2. Watched \in SUBSET DOMAIN k.store /\ \A n \in Inodes : BytesOf(n) \in DOMAIN k.store
  BY WatchedAre, PartsDiffer DEF Based
<1> QED
  BY <1>1, <1>2, FlushAlike DEF Spares, Based

LEMMA FileSyncSpares ==
  ASSUME NEW k, Based(k), NEW p, NEW need
  PROVE  Spares(SyncFile(k, p, need), k)
  BY SparesSame, SyncSpares DEF SyncFile

LEMMA HandSpares ==
  ASSUME NEW k, Based(k), NEW os
  PROVE  Spares(Handed(k, os), k)
<1>1. Sound(Handed(k, os)) /\ Handed(k, os).store = k.store
  BY HandedFacts DEF Based, Rewritten
<1>2. Seen(Handed(k, os)) = Seen(k)
  BY HandedFacts, RewrittenIsUnseen DEF Based
<1> QED
  BY <1>1, <1>2, HandedAlike DEF Spares, Based

LEMMA BarrierSpares ==
  ASSUME NEW k, Based(k), NEW d
  PROVE  Spares(Barriered(k, d), k)
<1>1. Sound(Barriered(k, d)) /\ Barriered(k, d).store = k.store
  BY BarrieredFacts DEF Based, Rewritten
<1>2. Seen(Barriered(k, d)) = Seen(k)
  BY BarrieredFacts, RewrittenIsUnseen DEF Based
<1> QED
  BY <1>1, <1>2, BarrieredAlike DEF Spares, Based

\* A write of documents' names.
LEMMA EntrySpares ==
  ASSUME NEW k, Based(k), NEW puts, DOMAIN puts \subseteq Path
  PROVE  Spares(Enter(k, puts), k)
<1> DEFINE h == Enter(k, puts)
<1>1. Added(h, k, puts)
  BY IssuedAdds DEF Enter, Based
<1> HIDE DEF h
<1>2. Based(h)
  BY <1>1 DEF Added, Based
<1>3. Alike(h, k, Watched)
  <2>1. Watched \in SUBSET DOMAIN k.store /\ Watched \cap DOMAIN puts = {}
    BY WatchedAre DEF Based
  <2> QED
    BY <1>1, <2>1, AddedAlike DEF Based
<1>4. \A n \in Inodes : Eases(h, k, BytesOf(n))
  <2>1. \A n \in Inodes : BytesOf(n) \notin DOMAIN puts
    BY WatchedAre, PartsDiffer
  <2> QED
    BY <1>1, <2>1, AddedAlike DEF Based
<1>5. \A l \in Watched : Seen(h)[l] = Seen(k)[l]
  BY <1>1, WatchedAre, SeenBeside
<1> QED
  BY <1>2, <1>3, <1>4, <1>5 DEF Spares, h

\* A write into an inode no journal has.
LEMMA PartSpares ==
  ASSUME NEW k, Based(k), NEW n \in Inodes, ~Claimed(k, n),
         NEW l \in {BytesOf(n), ModeOf(n)}, NEW v
  PROVE  Spares(IssueBy(k, {n}, At(l, v)), k)
<1> DEFINE h == IssueBy(k, {n}, At(l, v))
<1>1. Added(h, k, At(l, v)) /\ DOMAIN At(l, v) = {l}
  BY IssuedAdds, OnePut DEF Based
<1> HIDE DEF h
<1>2. Based(h)
  BY <1>1 DEF Added, Based
<1>3. l \in Parts /\ \A m \in Inodes : BytesOf(m) = l => m = n
  BY PartsDiffer
<1>4. Alike(h, k, Watched)
  <2>1. Watched \in SUBSET DOMAIN k.store /\ Watched \cap DOMAIN At(l, v) = {}
    BY <1>1, <1>3, WatchedAre DEF Based
  <2> QED
    BY <1>1, <2>1, AddedAlike DEF Based
<1>5. ASSUME NEW m \in Inodes, Claimed(h, m) PROVE Eases(h, k, BytesOf(m))
  <2>1. Claimed(k, m)
    BY <1>4, <1>5, WatchedAre DEF Claimed, Alike, Eases
  <2>2. BytesOf(m) \notin DOMAIN At(l, v)
    BY <1>1, <1>3, <2>1
  <2> QED
    BY <1>1, <2>2, AddedAlike DEF Based
<1>6. \A w \in Watched : Seen(h)[w] = Seen(k)[w]
  BY <1>1, <1>3, WatchedAre, SeenBeside
<1> QED
  BY <1>2, <1>4, <1>5, <1>6 DEF Spares, h

LEMMA MintSpares ==
  ASSUME NEW k, Based(k), NEW n \in Inodes, ~Claimed(k, n)
  PROVE  Spares(Minted(k, n), k)
<1> DEFINE h == Minted(k, n)
<1>1. Based(h)
  BY MintedIsSound, MintedAlike DEF Based
<1>2. Alike(h, k, Watched)
  <2>1. Watched \in SUBSET (DOMAIN k.store \ {BytesOf(n), ModeOf(n)})
    BY WatchedAre, PartsDiffer DEF Based
  <2> QED
    BY <2>1, MintedAlike DEF Based
<1> HIDE DEF h
<1>3. ASSUME NEW m \in Inodes, Claimed(h, m) PROVE Eases(h, k, BytesOf(m))
  <2>1. Claimed(k, m)
    BY <1>2, <1>3, WatchedAre DEF Claimed, Alike, Eases
  <2>2. BytesOf(m) \in DOMAIN k.store \ {BytesOf(n), ModeOf(n)}
    BY <2>1, PartsDiffer DEF Based
  <2> QED
    BY <2>2, MintedAlike DEF Based, h
<1>4. ASSUME NEW l \in Watched PROVE Seen(h)[l] = Seen(k)[l]
  <2>1. l \in DOMAIN k.store /\ l \notin {BytesOf(n), ModeOf(n)}
    BY WatchedAre, PartsDiffer DEF Based
  <2>2. h.log = k.log /\ l \in DOMAIN h.store /\ h.store[l] = k.store[l]
    <3>1. k = [store |-> k.store, log |-> k.log, ordered |-> k.ordered, grade |-> k.grade]
      BY DEF Based, Sound, Form
    <3> QED
      BY <2>1, <3>1 DEF Minted, h
  <2>3. Sound(h) /\ Sound(k)
    BY <1>1 DEF Based
  <2> QED
    BY <2>1, <2>2, <2>3, SameLog DEF Seen
<1> QED
  BY <1>1, <1>2, <1>3, <1>4 DEF Spares, h

LEMMA FreeUnclaimed ==
  ASSUME NEW k, NEW n, Free(k, n)
  PROVE  ~Claimed(k, n)
  BY NamesDiffer DEF Free, Unnamed, Claimed

LEMMA DocumentUnclaimed ==
  ASSUME NEW k, DiskInv(k), NEW p \in Slot, Seen(k)[p].kind = "file"
  PROVE  Seen(k)[p].inode \in Inodes /\ ~Claimed(k, Seen(k)[p].inode)
<1>1. Seen(k)[p] \in CanHold(p) /\ p \in Entries
  BY SeenTypes, NamesDiffer
<1>2. /\ Seen(k)[p].inode \in Inodes
      /\ Seen(k)[p] = Inode(Seen(k)[p].inode)
  BY <1>1, HoldKinds, EntriesDiffer
<1> QED
  BY <1>2, SeenTypes DEF Document, Claimed

LEMMA PoolFresh ==
  ASSUME NEW k, DiskInv(k), Unknown(k, Pool) # {}
  PROVE  Fresh(k, Pool) \in Inodes /\ ~Claimed(k, Fresh(k, Pool))
<1>1. Pool \in SUBSET Inodes
  BY PoolsDiffer
<1> QED
  BY <1>1, FreshIs, FreeUnclaimed DEF DiskInv

LEMMA NameSpares ==
  ASSUME NEW k, Based(k), NEW p \in Path, NEW e
  PROVE  Spares(Enter(k, At(p, e)), k)
<1>1. DOMAIN At(p, e) = {p}
  BY OnePut
<1>2. DOMAIN At(p, e) \subseteq Path
  BY <1>1
<1> QED
  BY <1>2, EntrySpares

LEMMA ReplaceSpares ==
  ASSUME NEW k, DiskInv(k), NEW p \in Path, Unknown(k, Pool) # {}, NEW b, NEW x
  PROVE  Spares(Replace(k, p, b, x, Pool), k)
<1> DEFINE n == Fresh(k, Pool)
           h1 == Minted(k, n)
           h2 == SetBytes(h1, n, b)
           h3 == Sync(h2, n, "Ordered")
           h4 == IF x THEN SetMode(h3, n, x) ELSE h3
           h5 == Enter(h4, At(p, Inode(n)))
<1>1. n \in Inodes /\ ~Claimed(k, n)
  BY PoolFresh
<1>2. Replace(k, p, b, x, Pool) = h5
  BY DEF Replace
<1> HIDE DEF n
<1>3. Spares(h1, k)
  BY <1>1, BasedIs, MintSpares
<1>4. Based(h1) /\ ~Claimed(h1, n)
  BY <1>1, <1>3, SparesUnclaimed DEF Spares
<1> HIDE DEF h1
<1>5. Spares(h2, h1)
  BY <1>1, <1>4, PartSpares DEF SetBytes
<1>6. Based(h2) /\ ~Claimed(h2, n)
  BY <1>4, <1>5, SparesUnclaimed DEF Spares
<1> HIDE DEF h2
<1>7. Spares(h3, h2)
  BY <1>6, SyncSpares
<1>8. Based(h3) /\ ~Claimed(h3, n)
  BY <1>6, <1>7, SparesUnclaimed DEF Spares
<1> HIDE DEF h3
<1>9. Spares(h4, h3)
  BY <1>1, <1>8, PartSpares, SparesSame DEF SetMode
<1>10. Based(h4)
  BY <1>9 DEF Spares
<1> HIDE DEF h4
<1>11. Spares(h5, h4)
  BY <1>10, NameSpares
<1> HIDE DEF h5
<1> QED
  BY <1>2, <1>3, <1>5, <1>7, <1>9, <1>11, SparesTwice

LEMMA OverwriteSpares ==
  ASSUME NEW k, DiskInv(k), NEW p \in Path, Unknown(k, Pool) # {}, NEW b
  PROVE  Spares(Overwritten(k, p, b, Pool), k)
<1>1. p \in Slot
  BY PathAssumption DEF Slot
<1>2. CASE Seen(k)[p].kind = "file"
  BY <1>1, <1>2, BasedIs, DocumentUnclaimed, PartSpares DEF Overwritten, SetBytes
<1>3. CASE Seen(k)[p].kind # "file"
  <2> DEFINE n == Fresh(k, Pool)
             h1 == Minted(k, n)
             h2 == Enter(h1, At(p, Inode(n)))
             h3 == SetBytes(h2, n, b)
  <2>1. n \in Inodes /\ ~Claimed(k, n)
    BY PoolFresh
  <2>2. Overwritten(k, p, b, Pool) = h3
    BY <1>3 DEF Overwritten
  <2> HIDE DEF n
  <2>3. Spares(h1, k)
    BY <2>1, BasedIs, MintSpares
  <2>4. Based(h1) /\ ~Claimed(h1, n)
    BY <2>1, <2>3, SparesUnclaimed DEF Spares
  <2> HIDE DEF h1
  <2>5. Spares(h2, h1)
    BY <2>4, NameSpares
  <2>6. Based(h2) /\ ~Claimed(h2, n)
    BY <2>4, <2>5, SparesUnclaimed DEF Spares
  <2> HIDE DEF h2
  <2>7. Spares(h3, h2)
    BY <2>1, <2>6, PartSpares DEF SetBytes
  <2> HIDE DEF h3
  <2> QED
    BY <2>2, <2>3, <2>5, <2>7, SparesTwice
<1> QED
  BY <1>2, <1>3

LEMMA WriteSpares ==
  ASSUME NEW k, NEW j, Does(k, tree, j), Unknown(k, Pool) # {}, NEW p \in Path, NEW b
  PROVE  /\ Spares(WrittenAt(k, p, b), k)
         /\ Spares(PutBack(k, p, b), k)
<1>1. Referent(tree, p) \in Path
  BY ReferentSlot, DoesTypes, PathAssumption DEF Slot
<1>2. DiskInv(k) /\ Based(k)
  BY BasedIs DEF Does
<1>3. Spares(WrittenAt(k, p, b), k)
  BY <1>1, <1>2, OverwriteSpares, SparesSame DEF WrittenAt
<1>4. Based(WrittenAt(k, p, b))
  BY <1>3 DEF Spares
<1>5. Spares(PutBack(k, p, b), WrittenAt(k, p, b))
  BY <1>4, FileSyncSpares DEF PutBack
<1> QED
  BY <1>3, <1>5, SparesTwice

LEMMA LandSpares ==
  ASSUME NEW k, NEW j, Does(k, tree, j), Unknown(k, Pool) # {}, NEW p \in Path, NEW b
  PROVE  Spares(LandBytes(k, p, b), k)
<1>1. DiskInv(k)
  BY DEF Does
<1> QED
  BY <1>1, ReplaceSpares, WriteSpares DEF LandBytes

LEMMA FlipSpares ==
  ASSUME NEW k, NEW j, Does(k, tree, j), NEW p \in Path, NEW x
  PROVE  /\ Spares(ModeSet(k, p, x), k)
         /\ Spares(Flip(k, p, x), k)
<1> DEFINE r == Referent(tree, p)
<1>1. r \in Path /\ r \in Slot
  BY ReferentSlot, DoesTypes, PathAssumption DEF Slot
<1>2. DiskInv(k) /\ Based(k)
  BY BasedIs DEF Does
<1>3. ModeSet(k, p, x) = IF IsFile(tree[r]) THEN SetMode(k, Seen(k)[r].inode, x) ELSE k
  BY DEF ModeSet
<1> HIDE DEF r
<1>4. IsFile(tree[r]) => Seen(k)[r].kind = "file"
  BY <1>1, DoesTypes
<1>5. Spares(ModeSet(k, p, x), k)
  BY <1>1, <1>2, <1>3, <1>4, DocumentUnclaimed, PartSpares, SparesSame DEF SetMode
<1>6. Based(ModeSet(k, p, x))
  BY <1>5 DEF Spares
<1>7. Spares(Flip(k, p, x), ModeSet(k, p, x))
  BY <1>6, FileSyncSpares DEF Flip
<1> QED
  BY <1>5, <1>7, SparesTwice

LEMMA RenameSpares ==
  ASSUME NEW k, Based(k), NEW p \in Path, NEW q \in Path
  PROVE  Spares(Renamed(k, p, q), k)
<1> DEFINE puts == [l \in {p, q} |-> IF l = p THEN Gone ELSE Seen(k)[p]]
<1>1. Renamed(k, p, q) = IF p = q THEN k ELSE Enter(k, puts)
  BY DEF Renamed
<1>2. DOMAIN puts \subseteq Path
  OBVIOUS
<1> HIDE DEF puts
<1> QED
  BY <1>1, <1>2, EntrySpares, SparesSame

\* An op whose names are the tree's own.
Plain(op) ==
  /\ op.act \in {"Write", "CopyFrom", "Rename", "Remove", "SetExecutable", "SetLink"}
  /\ op.path \in Path
  /\ op.act = "Rename" => op.other \in Path

LEMMA CallSpares ==
  ASSUME NEW k, NEW j, Does(k, tree, j), Unknown(k, Pool) # {}, NEW op, Plain(op)
  PROVE  /\ Spares(CallOn(k, op), k)
         /\ \A h \in CallLeft(k, op) : Spares(h, k)
<1>1. Based(k)
  BY BasedIs DEF Does
<1>2. Spares(CallOn(k, op), k)
  <2>1. CASE Lands(op)
    <3>1. CallOn(k, op) = LandBytes(k, op.path, Contents(tree, op))
      BY <2>1 DEF CallOn, Lands
    <3> QED
      BY <3>1, LandSpares DEF Plain
  <2>2. CASE op.act = "Rename"
    BY <1>1, <2>2, RenameSpares DEF CallOn, Plain, Lands
  <2>3. CASE op.act = "Remove"
    BY <1>1, <2>3, NameSpares DEF CallOn, Plain, Lands, Unlinked
  <2>4. CASE op.act = "SetExecutable"
    BY <1>1, <2>4, FlipSpares DEF CallOn, Plain, Lands
  <2>5. CASE op.act = "SetLink"
    BY <1>1, <2>5, NameSpares DEF CallOn, Plain, Lands, Symlinked
  <2> QED
    BY <2>1, <2>2, <2>3, <2>4, <2>5 DEF Plain, Lands
<1>3. ASSUME NEW h \in CallLeft(k, op) PROVE Spares(h, k)
  <2>1. \/ h = k
        \/ \E b : h = WrittenAt(k, op.path, b)
        \/ h = ModeSet(k, op.path, op.exec)
        \/ h = Unlinked(k, op.path)
    BY <1>3 DEF CallLeft
  <2> QED
    BY <1>1, <2>1, SparesSame, WriteSpares, FlipSpares, NameSpares DEF Plain, Unlinked
<1> QED
  BY <1>2, <1>3

LEMMA OpIsPlain ==
  ASSUME NEW op \in Op
  PROVE  Plain(op)
  BY OpFields DEF Plain

LEMMA ReplaySpares ==
  ASSUME NEW k, NEW j, Does(k, tree, j), Unknown(k, Pool) # {}, NEW op \in Op
  PROVE  Spares(ReplayOn(k, op), k)
<1>1. Based(k)
  BY BasedIs DEF Does
<1> QED
  BY <1>1, OpIsPlain, CallSpares, SparesSame DEF ReplayOn

LEMMA UndoSpares ==
  ASSUME NEW k, NEW j, Does(k, tree, j), Unknown(k, Pool) # {}, NEW u \in UndoStep
  PROVE  /\ ~(u.act = "Rename" /\ u.path \in Aside) => Spares(UndoOn(k, u), k)
         /\ \A h \in UndoLeft(k, u) : Spares(h, k)
<1>1. Based(k)
  BY BasedIs DEF Does
<1>2. u.act \in {"Restore", "Delete"} => u.path \in Path
  BY UndoFields
<1>3. u.act \notin {"Restore", "Delete"} /\ ~(u.act = "Rename" /\ u.path \in Aside) => Plain(u)
  BY UndoFields DEF Plain, Slot
<1>4. ~(u.act = "Rename" /\ u.path \in Aside) => Spares(UndoOn(k, u), k)
  <2>1. CASE u.act = "Restore"
    BY <1>2, <2>1, WriteSpares DEF UndoOn
  <2>2. CASE u.act = "Delete"
    BY <1>1, <1>2, <2>2, NameSpares, SparesSame DEF UndoOn, Unlinked
  <2>3. CASE u.act \notin {"Restore", "Delete"}
    BY <1>3, <2>3, CallSpares DEF UndoOn
  <2> QED
    BY <2>1, <2>2, <2>3
<1>5. ASSUME NEW h \in UndoLeft(k, u) PROVE Spares(h, k)
  <2>1. CASE u.act = "Restore"
    <3>1. h = k \/ \E b : h = WrittenAt(k, u.path, b)
      BY <1>5, <2>1 DEF UndoLeft
    <3> QED
      BY <1>1, <1>2, <2>1, <3>1, WriteSpares, SparesSame
  <2>2. CASE u.act \in {"Delete", "Rename"}
    <3>1. h = k
      BY <1>5, <2>2 DEF UndoLeft, CallLeft, Lands
    <3> QED
      BY <1>1, <3>1, SparesSame
  <2>3. CASE u.act \notin {"Restore", "Delete", "Rename"}
    <3>1. h = k \/ h \in CallLeft(k, u)
      BY <1>5, <2>3 DEF UndoLeft
    <3> QED
      BY <1>1, <1>3, <2>3, <3>1, CallSpares, SparesSame
  <2> QED
    BY <2>1, <2>2, <2>3
<1> QED
  BY <1>4, <1>5

-----------------------------------------------------------------------------
(* The writes of names that a sync of their directory lands.                 *)

Placed(k) ==
  /\ k.grade = "Durable"
  /\ \A l \in Watched : \A q \in WritersOf(k, l) :
       k.log[q].owed \subseteq {DirOf(l)} /\ k.log[q].device = Device(DirOf(l))

LEMMA PlacedAlike ==
  ASSUME NEW k, NEW h, Placed(k), Alike(h, k, Watched)
  PROVE  Placed(h)
<1> SUFFICES ASSUME NEW l \in Watched, NEW q \in WritersOf(h, l)
             PROVE  h.log[q].owed \subseteq {DirOf(l)} /\ h.log[q].device = Device(DirOf(l))
  BY DEF Placed, Alike
<1>1. Eases(h, k, l)
  BY DEF Alike
<1> QED
  BY <1>1 DEF Eases, Placed

\* h is k and the write of puts that the objects of os owe.
Issued(h, k, os, puts) ==
  /\ Added(h, k, puts)
  /\ h.log[NextWrite(k)].owed = os
  /\ h.log[NextWrite(k)].device = HomeOf(os)
  /\ h.log[NextWrite(k)].after = Preceding(k, os, puts)

LEMMA IssueIs ==
  ASSUME NEW k, Sound(k), NEW os, NEW puts
  PROVE  Issued(IssueBy(k, os, puts), k, os, puts)
  BY IssuedAdds DEF Issued

LEMMA OneDevice ==
  ASSUME NEW o
  PROVE  HomeOf({o}) = Device(o)
  BY DEF HomeOf

\* A write of names of one directory is its directory's.
LEMMA EnterIs ==
  ASSUME NEW k, Sound(k), NEW puts, DOMAIN puts # {}, NEW dir,
         \A l \in DOMAIN puts : DirOf(l) = dir
  PROVE  Issued(Enter(k, puts), k, {dir}, puts)
<1>1. {DirOf(p) : p \in DOMAIN puts} = {dir}
  OBVIOUS
<1>2. Enter(k, puts) = IssueBy(k, {dir}, puts)
  BY <1>1 DEF Enter
<1>3. Issued(IssueBy(k, {dir}, puts), k, {dir}, puts)
  BY IssueIs
<1> QED
  BY <1>2, <1>3

LEMMA EnterPlaced ==
  ASSUME NEW k, Sound(k), Placed(k), NEW puts, DOMAIN puts # {}, NEW dir,
         \A l \in DOMAIN puts : DirOf(l) = dir
  PROVE  Placed(Enter(k, puts))
<1> DEFINE h == Enter(k, puts)
           new == NextWrite(k)
<1>1. /\ Added(h, k, puts)
      /\ h.log[new].owed = {dir} /\ h.log[new].device = Device(dir)
  <2>1. Issued(h, k, {dir}, puts)
    BY EnterIs
  <2> HIDE DEF h
  <2> QED
    BY <2>1, OneDevice DEF Issued
<1> HIDE DEF h
<1> SUFFICES ASSUME NEW l \in Watched, NEW q \in WritersOf(h, l)
             PROVE  h.log[q].owed \subseteq {DirOf(l)} /\ h.log[q].device = Device(DirOf(l))
  BY <1>1 DEF Placed, Added, h
<1>2. CASE q = new
  <2>1. l \in DOMAIN puts
    BY <1>1, <1>2 DEF Added, WritersOf, Writers
  <2> QED
    BY <1>1, <1>2, <2>1
<1>3. CASE q # new
  <2>1. q \in WritersOf(k, l) /\ h.log[q] = k.log[q]
    BY <1>1, <1>3 DEF Added, WritersOf, Writers
  <2> QED
    BY <2>1 DEF Placed
<1> QED
  BY <1>2, <1>3

LEMMA OneNamePlaced ==
  ASSUME NEW k, Sound(k), Placed(k), NEW l, NEW v
  PROVE  Placed(Enter(k, At(l, v)))
<1>1. DOMAIN At(l, v) = {l}
  BY OnePut
<1>2. DOMAIN At(l, v) # {} /\ \A x \in DOMAIN At(l, v) : DirOf(x) = DirOf(l)
  BY <1>1
<1> QED
  BY <1>2, EnterPlaced

-----------------------------------------------------------------------------
(* The commit point.                                                         *)

\* On an ordered disk the home's name lands with the journal in it.
LEMMA NameLeads ==
  ASSUME NEW k, DiskInv(k), Placed(k), k.ordered \/ WritersOf(k, HomeName) = {}, NEW v
  PROVE  Leads(Enter(k, At(InHome, v)), HomeName, InHome)
<1> DEFINE puts == At(InHome, v)
           h == Enter(k, puts)
           new == NextWrite(k)
<1>0. Sound(k) /\ Shaped(k)
  BY DEF DiskInv, Typed
<1>1. DOMAIN puts = {InHome}
  BY OnePut
<1> HIDE DEF puts
<1>2. DOMAIN puts # {} /\ \A l \in DOMAIN puts : DirOf(l) = Home
  BY <1>1, LayoutAssumption
<1>3. /\ Added(h, k, puts)
      /\ h.log[new].after = Preceding(k, {Home}, puts)
  <2>1. Issued(h, k, {Home}, puts)
    BY <1>0, <1>2, EnterIs
  <2> HIDE DEF h
  <2> QED
    BY <2>1 DEF Issued
<1> HIDE DEF h
<1>4. /\ WritersOf(h, HomeName) = WritersOf(k, HomeName)
      /\ new \in WritersOf(h, InHome)
  BY <1>1, <1>3, AddedValues, NamesDiffer
<1>5. CASE WritersOf(k, HomeName) = {}
  BY <1>4, <1>5 DEF Leads, h, puts
<1>6. CASE k.ordered
  <2>1. Metadata(puts)
    BY <1>1, NamesDiffer, PartsDiffer DEF Metadata
  <2>2. ASSUME NEW q \in WritersOf(k, HomeName) PROVE q \in Earlier(k, {Home}, puts)
    <3>1. q \in DOMAIN k.log /\ HomeName \in DOMAIN k.log[q].puts
      BY DEF WritersOf, Writers
    <3>2. Metadata(k.log[q].puts)
      BY <1>0, <3>1, NamesDiffer, PartsDiffer DEF Shaped, Metadata
    <3>3. k.log[q].device = Device(DirOf(HomeName))
      BY WatchedAre DEF Placed
    <3>4. Device(DirOf(HomeName)) = "home" /\ HomeOf({Home}) = "home"
      BY OneDevice, LayoutAssumption, DeviceAssumption
    <3> QED
      BY <1>6, <2>1, <3>1, <3>2, <3>3, <3>4 DEF Earlier
  <2>3. WritersOf(h, HomeName) \subseteq h.log[new].after
    BY <1>3, <1>4, <2>2 DEF Preceding
  <2> QED
    BY <1>4, <2>3 DEF Leads, h, puts
<1> QED
  BY <1>5, <1>6

\* What a commit has written when it flushes: n is the journal's inode.
Laid(h, n) ==
  /\ Based(h) /\ Placed(h) /\ n \in Inodes
  /\ Seen(h)[kept] = Inode(n) /\ Seen(h)[BytesOf(n)] = ops
  /\ kept = InHome => Leads(h, HomeName, kept) /\ Seen(h)[HomeName] = Subdir
  /\ \A q \in WritersOf(h, BytesOf(n)) :
       h.log[q].device = Device(n) /\ h.log[q].owed \subseteq IF AtomicReplace THEN {} ELSE {n}

LEMMA JournalDevice ==
  ASSUME kept \in JournalNames, NEW n \in JournalPool
  PROVE  n \in Inodes /\ Device(n) = Device(DirOf(kept))
  BY LayoutAssumption, DeviceAssumption DEF JournalPool, JournalNames

LEMMA StagedDoes ==
  ASSUME NEW k, DiskInv(k), k.grade = "Durable", NEW n \in Inodes, Free(k, n), NEW b
  PROVE  LET h == Sync(SetBytes(Minted(k, n), n, b), n, "Ordered") IN
         /\ DiskInv(h) /\ Unnamed(h, n) /\ Spares(h, k) /\ Values(h, BytesOf(n)) \subseteq {Torn, b}
         /\ Seen(h)[BytesOf(n)] = b
         /\ \A l \in Entries : Seen(h)[l] = Seen(k)[l]
         /\ \A q \in WritersOf(h, BytesOf(n)) : h.log[q].owed = {} /\ h.log[q].device = Device(n)
<1> DEFINE m0 == Minted(k, n)
           m1 == SetBytes(m0, n, b)
           m2 == Sync(m1, n, "Ordered")
<1>p. BytesOf(n) \in Entries \cup Parts /\ BytesOf(n) \notin Entries /\ ModeOf(n) \notin Entries
  BY PartsDiffer
<1>1. /\ DiskInv(m0) /\ Unnamed(m0, n) /\ Values(m0, BytesOf(n)) = {Torn}
      /\ \A l \in (Entries \cup Parts) \ {BytesOf(n), ModeOf(n)} : Seen(m0)[l] = Seen(k)[l]
  BY MintDoes
<1>2. Spares(m0, k) /\ ~Claimed(m0, n)
  BY BasedIs, FreeUnclaimed, MintSpares, SparesUnclaimed
<1>3. WritersOf(m0, BytesOf(n)) = {} /\ m0.grade = "Durable"
  <2>1. m0.log = k.log /\ m0.grade = k.grade
    <3>1. k = [store |-> k.store, log |-> k.log, ordered |-> k.ordered, grade |-> k.grade]
      BY DEF DiskInv, Typed, Sound, Form
    <3> QED
      BY <3>1 DEF Minted
  <2> QED
    BY <2>1 DEF Free, WritersOf, Writers
<1> HIDE DEF m0
<1>4. PartFits(m0, n, BytesOf(n), b)
  BY <1>1, NamesDiffer DEF PartFits, Unnamed
<1>5. /\ DiskInv(m1)
      /\ \A l \in Entries \cup Parts : Seen(m1)[l] = IF l = BytesOf(n) THEN b ELSE Seen(m0)[l]
      /\ \A l : Values(m1, l) = IF l = BytesOf(n) THEN Values(m0, l) \cup {b} ELSE Values(m0, l)
  BY <1>1, <1>4, BytesDo
<1>6. Spares(m1, m0)
  BY <1>2, PartSpares DEF SetBytes, Spares
<1>7. /\ m1.grade = "Durable"
      /\ \A q \in WritersOf(m1, BytesOf(n)) : m1.log[q].owed = {n} /\ m1.log[q].device = Device(n)
  <2>1. DOMAIN At(BytesOf(n), b) = {BytesOf(n)}
    BY OnePut
  <2>2. /\ Added(m1, m0, At(BytesOf(n), b))
        /\ m1.log[NextWrite(m0)].owed = {n} /\ m1.log[NextWrite(m0)].device = Device(n)
    <3>1. m1 = IssueBy(m0, {n}, At(BytesOf(n), b)) /\ Sound(m0)
      BY <1>1 DEF SetBytes, DiskInv, Typed
    <3> HIDE DEF m1
    <3>2. Issued(m1, m0, {n}, At(BytesOf(n), b))
      BY <3>1, IssueIs
    <3> QED
      BY <3>2, OneDevice DEF Issued
  <2> HIDE DEF m1
  <2>3. WritersOf(m1, BytesOf(n)) = {NextWrite(m0)}
    BY <1>3, <2>1, <2>2, AddedValues
  <2> QED
    BY <1>3, <2>2, <2>3 DEF Added
<1> HIDE DEF m1
<1>8. Spares(m2, m1) /\ Calmer(m2, m1)
  BY <1>5, BasedIs, SyncSpares, SyncCalms
<1>9. \A q \in WritersOf(m2, BytesOf(n)) : m2.log[q].owed = {} /\ m2.log[q].device = Device(n)
  <2> DEFINE g == Handed(m1, {n})
  <2>1. m2 = Barriered(g, Device(n))
    BY <1>7 DEF Sync, Satisfies
  <2>2. /\ Sound(g) /\ Rewritten(g, m1)
        /\ \A q \in DOMAIN m1.log : g.log[q].owed = m1.log[q].owed \ {n}
    BY <1>5, <1>7, HandedFacts DEF DiskInv, Typed
  <2> HIDE DEF g
  <2>3. /\ Rewritten(m2, g)
        /\ \A q \in DOMAIN g.log : m2.log[q].owed = g.log[q].owed
    BY <2>1, <2>2, BarrieredFacts
  <2> QED
    BY <1>7, <2>2, <2>3 DEF Rewritten, WritersOf, Writers
<1> HIDE DEF m2
<1>10. Unnamed(m2, n) /\ Values(m2, BytesOf(n)) \subseteq {Torn, b}
  BY <1>1, <1>5, <1>8, <1>p DEF Calmer, Unnamed
<1>11. DiskInv(m2) /\ Seen(m2)[BytesOf(n)] = b /\ \A l \in Entries : Seen(m2)[l] = Seen(k)[l]
  BY <1>1, <1>5, <1>8, <1>p DEF Calmer
<1>12. Spares(m2, k)
  BY <1>2, <1>6, <1>8, SparesTwice
<1> QED
  BY <1>9, <1>10, <1>11, <1>12 DEF m2, m1, m0

LEMMA ReplaceLays ==
  ASSUME NEW k, DiskInv(k), Placed(k), kept \in JournalNames, ops \in Staged,
         Unknown(k, JournalPool) # {},
         kept = InHome =>
           (k.ordered \/ WritersOf(k, HomeName) = {}) /\ Seen(k)[HomeName] = Subdir
  PROVE  \E n \in JournalPool : Laid(Replace(k, kept, ops, FALSE, JournalPool), n)
<1> DEFINE n == Fresh(k, JournalPool)
           m == Sync(SetBytes(Minted(k, n), n, ops), n, "Ordered")
           h == Enter(m, At(kept, Inode(n)))
<1>1. Replace(k, kept, ops, FALSE, JournalPool) = h
  BY DEF Replace
<1>2. n \in JournalPool /\ n \in Inodes /\ Free(k, n)
  <2>1. JournalPool \in SUBSET Inodes
    BY PoolsDiffer DEF JournalPool
  <2> QED
    BY <2>1, FreshIs DEF DiskInv
<1> HIDE DEF n
<1>p. /\ kept \in Entries /\ kept \in Holders /\ HomeName \in Entries
      /\ BytesOf(n) \in Entries \cup Parts /\ BytesOf(n) \notin Entries
      /\ HomeName # kept
  BY <1>2, NamesDiffer, PartsDiffer DEF Holders
<1>3. /\ DiskInv(m) /\ Unnamed(m, n) /\ Spares(m, k) /\ Values(m, BytesOf(n)) \subseteq {Torn, ops}
      /\ Seen(m)[BytesOf(n)] = ops
      /\ \A l \in Entries : Seen(m)[l] = Seen(k)[l]
      /\ \A q \in WritersOf(m, BytesOf(n)) : m.log[q].owed = {} /\ m.log[q].device = Device(n)
  BY <1>2, StagedDoes DEF Placed
<1> HIDE DEF m
<1>4. Fits(m, At(kept, Inode(n)))
  <2>1. Values(m, BytesOf(n)) \subseteq WordsOf(kept)
    BY <1>3, NamesDiffer DEF WordsOf
  <2>2. n \in PoolFor(kept)
    BY <1>2 DEF PoolFor, JournalPool
  <2> QED
    BY <1>3, <1>p, <2>1, <2>2, NewName
<1>5. /\ DiskInv(h)
      /\ \A l \in Entries \cup Parts : Seen(h)[l] = IF l = kept THEN Inode(n) ELSE Seen(m)[l]
  BY <1>3, <1>4, NameDoes
<1>6. Placed(m) /\ Sound(m)
  BY <1>3, PlacedAlike DEF Spares, DiskInv, Typed
<1>7. Placed(h)
  BY <1>6, OneNamePlaced
<1>8. kept = InHome => Leads(h, HomeName, kept)
  <2> SUFFICES ASSUME kept = InHome PROVE Leads(h, HomeName, InHome)
    OBVIOUS
  <2>1. m.ordered = k.ordered /\ Eases(m, k, HomeName)
    BY <1>3, WatchedAre DEF Spares, Alike
  <2>2. m.ordered \/ WritersOf(m, HomeName) = {}
    BY <2>1 DEF Eases
  <2> QED
    BY <1>3, <1>6, <2>2, NameLeads
<1>9. \A q \in WritersOf(h, BytesOf(n)) : h.log[q].owed = {} /\ h.log[q].device = Device(n)
  <2>1. DOMAIN At(kept, Inode(n)) = {kept}
    BY OnePut
  <2>2. Added(h, m, At(kept, Inode(n)))
    BY <1>6, IssuedAdds DEF Enter
  <2> HIDE DEF h
  <2>3. WritersOf(h, BytesOf(n)) = WritersOf(m, BytesOf(n))
    BY <1>p, <2>1, <2>2, AddedValues
  <2> QED
    BY <1>3, <2>2, <2>3 DEF Added, WritersOf, Writers
<1> HIDE DEF h
<1>10. Sound(h) /\ DOMAIN h.store = Entries \cup Parts
  BY <1>5 DEF DiskInv, Typed
<1>11. Laid(h, n)
  BY <1>2, <1>3, <1>5, <1>7, <1>8, <1>9, <1>10, <1>p DEF Laid, Based
<1> QED
  BY <1>1, <1>2, <1>11

LEMMA OverwriteLays ==
  ASSUME NEW k, DiskInv(k), Placed(k), kept \in JournalNames, ops \in Staged,
         Unknown(k, JournalPool) # {}, Seen(k)[kept].kind # "file", ~AtomicReplace,
         kept = InHome =>
           (k.ordered \/ WritersOf(k, HomeName) = {}) /\ Seen(k)[HomeName] = Subdir
  PROVE  \E n \in JournalPool : Laid(Overwritten(k, kept, ops, JournalPool), n)
<1> DEFINE n == Fresh(k, JournalPool)
           m0 == Minted(k, n)
           m1 == Enter(m0, At(kept, Inode(n)))
           m2 == SetBytes(m1, n, ops)
<1>1. Overwritten(k, kept, ops, JournalPool) = m2
  BY DEF Overwritten
<1>2. n \in JournalPool /\ n \in Inodes /\ Free(k, n)
  <2>1. JournalPool \in SUBSET Inodes
    BY PoolsDiffer DEF JournalPool
  <2> QED
    BY <2>1, FreshIs DEF DiskInv
<1> HIDE DEF n
<1>p. /\ kept \in Entries /\ kept \in Holders /\ HomeName \in Entries /\ HomeName # kept
      /\ BytesOf(n) \in Entries \cup Parts /\ BytesOf(n) \notin Entries /\ ModeOf(n) \notin Entries
  BY <1>2, NamesDiffer, PartsDiffer DEF Holders
<1>3. /\ DiskInv(m0) /\ Unnamed(m0, n) /\ Values(m0, BytesOf(n)) = {Torn}
      /\ \A l \in (Entries \cup Parts) \ {BytesOf(n), ModeOf(n)} : Seen(m0)[l] = Seen(k)[l]
  BY <1>2, MintDoes
<1>4. Spares(m0, k)
  BY <1>2, BasedIs, FreeUnclaimed, MintSpares
<1>5. WritersOf(m0, BytesOf(n)) = {}
  <2>1. m0.log = k.log
    <3>1. k = [store |-> k.store, log |-> k.log, ordered |-> k.ordered, grade |-> k.grade]
      BY DEF DiskInv, Typed, Sound, Form
    <3> QED
      BY <3>1 DEF Minted
  <2> QED
    BY <1>2, <2>1 DEF Free, WritersOf, Writers
<1> HIDE DEF m0
<1>6. Fits(m0, At(kept, Inode(n)))
  <2>1. Values(m0, BytesOf(n)) \subseteq WordsOf(kept)
    BY <1>3 DEF WordsOf
  <2>2. n \in PoolFor(kept)
    BY <1>2 DEF PoolFor, JournalPool
  <2> QED
    BY <1>3, <1>p, <2>1, <2>2, NewName
<1>7. /\ DiskInv(m1)
      /\ \A l \in Entries \cup Parts : Seen(m1)[l] = IF l = kept THEN Inode(n) ELSE Seen(m0)[l]
      /\ \A l : Values(m1, l) = IF l = kept THEN Values(m0, l) \cup {Inode(n)} ELSE Values(m0, l)
  BY <1>3, <1>6, NameDoes
<1>8. Placed(m0) /\ Sound(m0)
  BY <1>3, <1>4, PlacedAlike DEF Spares, DiskInv, Typed
<1>9. Placed(m1)
  BY <1>8, OneNamePlaced
<1>10. kept = InHome => Leads(m1, HomeName, kept)
  <2> SUFFICES ASSUME kept = InHome PROVE Leads(m1, HomeName, InHome)
    OBVIOUS
  <2>1. m0.ordered = k.ordered /\ Eases(m0, k, HomeName)
    BY <1>4, WatchedAre DEF Spares, Alike
  <2>2. m0.ordered \/ WritersOf(m0, HomeName) = {}
    BY <2>1 DEF Eases
  <2> QED
    BY <1>3, <1>8, <2>2, NameLeads
<1>11. WritersOf(m1, BytesOf(n)) = {}
  <2>1. DOMAIN At(kept, Inode(n)) = {kept}
    BY OnePut
  <2>2. Added(m1, m0, At(kept, Inode(n)))
    BY <1>8, IssuedAdds DEF Enter
  <2> HIDE DEF m1
  <2> QED
    BY <1>5, <1>p, <2>1, <2>2, AddedValues
<1> HIDE DEF m1
<1>12. PartFits(m1, n, BytesOf(n), ops)
  <2>1. \A p \in Slot : Inode(n) \notin Values(m1, p)
    BY <1>3, <1>7, NamesDiffer DEF Unnamed
  <2> QED
    BY <2>1 DEF PartFits
<1>13. /\ DiskInv(m2)
       /\ \A l \in Entries \cup Parts : Seen(m2)[l] = IF l = BytesOf(n) THEN ops ELSE Seen(m1)[l]
  BY <1>2, <1>7, <1>12, BytesDo
<1>14. Sound(m1)
  BY <1>7 DEF DiskInv, Typed
<1>15. Issued(m2, m1, {n}, At(BytesOf(n), ops)) /\ DOMAIN At(BytesOf(n), ops) = {BytesOf(n)}
  BY <1>14, IssueIs, OnePut DEF SetBytes
<1> HIDE DEF m2
<1>16. \A q \in WritersOf(m2, BytesOf(n)) : m2.log[q].owed = {n} /\ m2.log[q].device = Device(n)
  <2>1. WritersOf(m2, BytesOf(n)) = {NextWrite(m1)}
    BY <1>11, <1>15, AddedValues DEF Issued
  <2> QED
    BY <1>15, <2>1, OneDevice DEF Issued
<1>17. Alike(m2, m1, Watched)
  <2>1. Watched \in SUBSET DOMAIN m1.store /\ Watched \cap DOMAIN At(BytesOf(n), ops) = {}
    BY <1>7, <1>15, <1>p, WatchedAre DEF DiskInv, Typed
  <2> QED
    BY <1>14, <1>15, <2>1, AddedAlike DEF Issued
<1>18. Placed(m2)
  BY <1>9, <1>17, PlacedAlike
<1>19. kept = InHome => Leads(m2, HomeName, kept)
  <2>1. HomeName \notin DOMAIN At(BytesOf(n), ops) /\ kept \notin DOMAIN At(BytesOf(n), ops)
    BY <1>15, <1>p
  <2> QED
    BY <1>10, <1>14, <1>15, <2>1, AddedLeads DEF Issued
<1>20. Sound(m2) /\ DOMAIN m2.store = Entries \cup Parts
  BY <1>13 DEF DiskInv, Typed
<1>21. /\ Seen(m2)[kept] = Inode(n) /\ Seen(m2)[BytesOf(n)] = ops
       /\ kept = InHome => Seen(m2)[HomeName] = Subdir
  BY <1>3, <1>7, <1>13, <1>p
<1>22. Laid(m2, n)
  BY <1>2, <1>16, <1>18, <1>19, <1>20, <1>21, <1>p DEF Laid, Based
<1> QED
  BY <1>1, <1>2, <1>22

\* A sync keeps the places, whatever it is of.
LEMMA SyncPlaced ==
  ASSUME NEW k, Based(k), Placed(k), NEW o, NEW need
  PROVE  Based(Sync(k, o, need)) /\ Placed(Sync(k, o, need))
  BY SyncSpares, PlacedAlike DEF Spares

LEMMA HomeReady ==
  ASSUME NEW k, DiskInv(k), Placed(k), kept \in JournalNames, Seen(k)[kept].kind # "file",
         kept = InHome => k.ordered \/ WritersOf(k, HomeName) = {} \/ HomeMissing(k)
  PROVE  LET g == WithHome(k) IN
         /\ DiskInv(g) /\ Placed(g) /\ Seen(g)[kept].kind # "file"
         /\ kept = InHome =>
              (g.ordered \/ WritersOf(g, HomeName) = {}) /\ Seen(g)[HomeName] = Subdir
<1>p. HomeName \in Entries /\ kept \in Entries /\ kept # HomeName /\ HomeName \in Watched
  BY NamesDiffer, WatchedAre
<1>1. CASE ~HomeMissing(k)
  <2>1. Seen(k)[HomeName] \in CanHold(HomeName)
    BY <1>p, SeenTypes
  <2>2. CanHold(HomeName) = {Gone, Subdir}
    BY NamesDiffer DEF CanHold, JournalNames
  <2>3. kept = InHome => Seen(k)[HomeName] = Subdir
    BY <1>1, <2>1, <2>2 DEF HomeMissing
  <2> QED
    BY <1>1, <2>3 DEF WithHome
<1>2. CASE HomeMissing(k)
  <2> DEFINE e == Enter(k, At(HomeName, Subdir))
             f == Sync(e, Home, "Durable")
             g == Sync(f, Attic, "Durable")
  <2>1. WithHome(k) = g
    BY <1>2 DEF WithHome
  <2>2. /\ DiskInv(e)
        /\ \A l \in Entries \cup Parts : Seen(e)[l] = IF l = HomeName THEN Subdir ELSE Seen(k)[l]
    BY HomeDoes
  <2>3. Placed(e) /\ Based(e)
    BY <2>2, OneNamePlaced, BasedIs DEF DiskInv, Typed
  <2> HIDE DEF e
  <2>4. Calmer(f, e) /\ Placed(f) /\ Based(f)
    BY <2>2, <2>3, SyncCalms, SyncPlaced
  <2> HIDE DEF f
  <2>5. Calmer(g, f) /\ Placed(g)
    BY <2>4, SyncCalms, SyncPlaced DEF Calmer
  <2>6. Rests(g, HomeName, Seen(f)[HomeName])
    <3>1. Sound(f) /\ HomeName \in DOMAIN f.store /\ f.grade = "Durable"
      BY <1>p, <2>4 DEF Based, Placed
    <3>2. DirOf(HomeName) = Attic
      BY LayoutAssumption
    <3>3. \A q \in WritersOf(f, HomeName) :
            f.log[q].owed \subseteq {Attic} /\ f.log[q].device = Device(Attic)
      BY <1>p, <2>4, <3>2 DEF Placed
    <3> QED
      BY <3>1, <3>3, SyncSettles
  <2> HIDE DEF g
  <2>7. DiskInv(g) /\ Seen(g) = Seen(e)
    BY <2>4, <2>5 DEF Calmer
  <2>8. Seen(g)[HomeName] = Subdir /\ Seen(g)[kept] = Seen(k)[kept]
    BY <1>p, <2>2, <2>7
  <2> QED
    BY <2>1, <2>5, <2>6, <2>7, <2>8 DEF Rests
<1> QED
  BY <1>1, <1>2

\* The journal on disk is set, and whatever is lost stays so.
Firm(k, set) ==
  \E n \in Inodes :
    /\ Rests(k, kept, Inode(n))
    /\ Rests(k, BytesOf(n), set)
    /\ kept = InHome => Rests(k, HomeName, Subdir)

\* The last flush of a commit.
LEMMA LaidLasts ==
  ASSUME NEW h, NEW n, Laid(h, n), Device(n) = Device(DirOf(kept)), kept \in JournalNames,
         Rests(h, BytesOf(n), ops) \/ AtomicReplace
  PROVE  Firm(Sync(h, DirOf(kept), "Durable"), ops)
<1> DEFINE o == DirOf(kept)
           g == Sync(h, o, "Durable")
<1>0. kept \in Watched /\ Sound(h) /\ h.grade = "Durable"
  BY WatchedAre DEF Laid, Placed, Based
<1>1. \A q \in WritersOf(h, kept) : h.log[q].owed \subseteq {o} /\ h.log[q].device = Device(o)
  BY <1>0 DEF Laid, Placed
<1>2. kept \in DOMAIN h.store /\ HomeName \in DOMAIN h.store /\ BytesOf(n) \in DOMAIN h.store
  BY NamesDiffer, PartsDiffer DEF Laid, Based
<1> HIDE DEF o
<1>3. Rests(g, kept, Seen(h)[kept])
  BY <1>0, <1>1, <1>2, SyncSettles
<1>4. Rests(g, BytesOf(n), ops)
  <2>1. CASE AtomicReplace
    <3>1. \A q \in WritersOf(h, BytesOf(n)) :
            h.log[q].owed \subseteq {o} /\ h.log[q].device = Device(o)
      BY <2>1 DEF Laid, o
    <3>2. Rests(g, BytesOf(n), Seen(h)[BytesOf(n)])
      BY <1>0, <1>2, <3>1, SyncSettles
    <3> QED
      BY <3>2 DEF Laid
  <2>2. CASE Rests(h, BytesOf(n), ops)
    <3>1. Eases(g, h, BytesOf(n))
      BY <1>0, <1>2, SyncAlike
    <3> QED
      BY <2>2, <3>1, RestStays
  <2> QED
    BY <2>1, <2>2
<1>5. kept = InHome => Rests(g, HomeName, Seen(h)[HomeName])
  BY <1>0, <1>1, <1>2, LeadSettles DEF Laid
<1> HIDE DEF g
<1>6. Firm(g, ops)
  BY <1>3, <1>4, <1>5 DEF Firm, Laid
<1> QED
  BY <1>6 DEF g, o

LEMMA CommitFirms ==
  ASSUME NEW k, DiskInv(k), Placed(k), kept \in JournalNames, ops \in Staged,
         \A pool \in {Pool, HomePool} : Unknown(k, pool) # {}, Seen(k)[kept].kind # "file",
         kept = InHome => k.ordered \/ WritersOf(k, HomeName) = {} \/ HomeMissing(k)
  PROVE  Placed(Committed(k)) /\ Firm(Committed(k), ops)
<1> DEFINE g == WithHome(k)
           w == Published(g)
           f == IF AtomicReplace THEN w ELSE SyncFile(w, kept, "Durable")
<1>1. /\ DiskInv(g) /\ Placed(g) /\ Seen(g)[kept].kind # "file"
      /\ kept = InHome =>
           (g.ordered \/ WritersOf(g, HomeName) = {}) /\ Seen(g)[HomeName] = Subdir
  BY HomeReady
<1>2. \A pool \in {Pool, HomePool} : Unknown(g, pool) # {}
  BY WithHomeDoes
<1>3. Committed(k) = Sync(f, DirOf(kept), "Durable")
  BY DEF Committed
<1> HIDE DEF g
<1>4. Unknown(g, JournalPool) # {}
  BY <1>2 DEF JournalPool
<1>5. \E n \in JournalPool : Laid(w, n)
  BY <1>1, <1>4, ReplaceLays, OverwriteLays DEF Published
<1> HIDE DEF w
<1>6. PICK n \in JournalPool : Laid(w, n)
  BY <1>5
<1>7. n \in Inodes /\ Device(n) = Device(DirOf(kept))
  BY JournalDevice
<1>9. Sound(w) /\ Placed(w) /\ Watched \in SUBSET DOMAIN w.store /\ Based(w)
  BY <1>6, WatchedAre DEF Laid, Based
<1>10. CASE AtomicReplace
  <2>1. f = w
    BY <1>10
  <2>2. Placed(Sync(w, DirOf(kept), "Durable"))
    BY <1>9, SyncPlaced
  <2> HIDE DEF f
  <2> QED
    BY <1>3, <1>6, <1>7, <1>10, <2>1, <2>2, LaidLasts
<1>11. CASE ~AtomicReplace
  <2> DEFINE v == Sync(w, n, "Durable")
  <2>1. f = v
    BY <1>6, <1>11, EntriesDiffer DEF Laid, SyncFile
  <2>2. Sound(v) /\ Seen(v) = Seen(w)
    BY <1>9, SyncKeeps
  <2>3. Placed(v) /\ Based(v)
    BY <1>9, SyncPlaced
  <2>5. \A l \in Entries \cup Parts : Eases(v, w, l)
    BY <1>9, SyncAlike DEF Based
  <2>6. kept = InHome => Leads(v, HomeName, kept)
    <3>1. HomeName \in DOMAIN w.store /\ w.grade = "Durable"
      BY <1>9, NamesDiffer DEF Based, Placed
    <3> QED
      BY <1>6, <1>9, <3>1, SyncLeads DEF Laid
  <2>7. Rests(v, BytesOf(n), ops)
    <3>1. BytesOf(n) \in DOMAIN w.store /\ w.grade = "Durable"
      BY <1>6, <1>9, PartsDiffer DEF Laid, Based, Placed
    <3>2. \A q \in WritersOf(w, BytesOf(n)) :
            w.log[q].owed \subseteq {n} /\ w.log[q].device = Device(n)
      BY <1>6, <1>11 DEF Laid
    <3>3. Rests(v, BytesOf(n), Seen(w)[BytesOf(n)])
      BY <1>9, <3>1, <3>2, SyncSettles
    <3> QED
      BY <1>6, <3>3 DEF Laid
  <2> HIDE DEF v, f
  <2>8. \A q \in WritersOf(v, BytesOf(n)) :
          v.log[q].device = Device(n) /\ v.log[q].owed \subseteq IF AtomicReplace THEN {} ELSE {n}
    BY <2>7 DEF Rests
  <2>9. Laid(v, n)
    BY <1>6, <2>2, <2>3, <2>6, <2>8, NamesDiffer, PartsDiffer DEF Laid
  <2>10. Placed(Sync(v, DirOf(kept), "Durable"))
    BY <2>3, SyncPlaced
  <2> QED
    BY <1>3, <1>7, <2>1, <2>7, <2>9, <2>10, LaidLasts
<1> QED
  BY <1>10, <1>11

-----------------------------------------------------------------------------
(* Where the process is in a set, and what its undo steps move back.         *)

Applying == {"exec", "land", "certify", "retire", "unwind", "abort"}

\* The asides a sweep of set clears.
Swept(set) ==
  {AsideOf(Displaced(set[m]), m) :
     m \in {n \in DOMAIN set : set[n].act \in {"Remove", "Rename", "SetLink"}}}

\* What an undo step moves back was moved aside by an op of the set.
Undoes(u, set) ==
  \A n \in DOMAIN u : (u[n].act = "Rename" /\ u[n].path \in Aside) =>
    u[n].path \in Swept(set) /\ u[n].other = u[n].path[1]

\* What was moved aside, an undo step moves back.
MovedBy(moved, u) ==
  \A k \in DOMAIN moved : \E n \in DOMAIN u : u[n].act = "Rename" /\ u[n].path = moved[k]

Course ==
  /\ begun \in Nat
  /\ begun = 0 => pc \in {"idle", "replay", "sweep", "settle"}
  /\ pc \in Applying => journal = ops
  /\ pc \in {"lone", "lonecertify", "commit", "abortflush"} => journal = None
  /\ pc = "commit" => undo = <<>> /\ asides = <<>>
  /\ Undoes(undo, ops)
  /\ pc \in Applying \ {"unwind", "abort"} => MovedBy(asides, undo)

LEMMA SweptAre ==
  ASSUME NEW set \in Staged
  PROVE  Swept(set) \subseteq Aside
  BY StagedOps DEF Swept

\* An aside and what was moved there are of one directory.
LEMMA AsideHome ==
  ASSUME NEW a \in Aside
  PROVE  a[1] \in Path /\ DirOf(a) = DirOf(a[1])
<1>1. PICK p \in Path, n \in 1 .. MaxOps : a = <<p, n>>
  BY DEF Aside
<1>2. DirOf(AsideOf(p, n)) = DirOf(p)
  BY LayoutAssumption
<1> QED
  BY <1>1, <1>2 DEF AsideOf

LEMMA UndoesMore ==
  ASSUME undo \in Seq(UndoStep), NEW u \in UndoStep,
         (u.act = "Rename" /\ u.path \in Aside) => u.path \in Swept(ops) /\ u.other = u.path[1]
  PROVE  /\ Undoes(undo, ops) => Undoes(Append(undo, u), ops)
         /\ \A moved : MovedBy(moved, undo) => MovedBy(moved, Append(undo, u))
<1> DEFINE v == Append(undo, u)
<1>1. /\ DOMAIN undo = 1 .. Len(undo) /\ Len(undo) \in Nat
      /\ DOMAIN v = 1 .. Len(undo) + 1
      /\ \A k \in 1 .. Len(undo) : v[k] = undo[k]
      /\ v[Len(undo) + 1] = u
  BY Longer
<1> HIDE DEF v
<1>2. \A n \in DOMAIN v : n \in DOMAIN undo \/ v[n] = u
  BY <1>1
<1>3. Undoes(undo, ops) => Undoes(v, ops)
  BY <1>1, <1>2 DEF Undoes
<1>4. \A n \in DOMAIN undo : n \in DOMAIN v /\ v[n] = undo[n]
  BY <1>1
<1>5. \A moved : MovedBy(moved, undo) => MovedBy(moved, v)
  BY <1>4 DEF MovedBy
<1> QED
  BY <1>3, <1>5 DEF v

LEMMA RecordedStays ==
  ASSUME tree \in Trees, NEW op \in Op, pc = "land" \/ ~Barred(tree, op),
         undo \in Seq(UndoStep), NEW v, v = undo \o Recorded(tree, op)
  PROVE  /\ Undoes(undo, ops) => Undoes(v, ops)
         /\ \A moved : MovedBy(moved, undo) => MovedBy(moved, v)
<1>1. \/ Recorded(tree, op) = <<>>
      \/ \E u \in UndoStep : Recorded(tree, op) = <<u>> /\ u.act # "Rename"
  <2>1. ASSUME NEW u \in UndoStep, Recorded(tree, op) = <<u>> PROVE u.act # "Rename"
    <3>1. u \in {SetExecutable(op.path, CarriedExec(tree, op.path)), Capture(tree, op.path)}
      BY <2>1 DEF Recorded
    <3> QED
      BY <3>1 DEF Capture, SetExecutable, Delete, SetLink, Restore
  <2> QED
    BY <2>1, RecordedTypes
<1>2. CASE Recorded(tree, op) = <<>>
  BY <1>2, ConcatEmptySeq
<1>3. ASSUME NEW u \in UndoStep, Recorded(tree, op) = <<u>>, u.act # "Rename"
      PROVE  /\ Undoes(undo, ops) => Undoes(v, ops)
             /\ \A moved : MovedBy(moved, undo) => MovedBy(moved, v)
  <2>1. v = Append(undo, u)
    BY <1>3, Longer
  <2> QED
    BY <1>3, <2>1, UndoesMore
<1> QED
  BY <1>1, <1>2, <1>3

LEMMA CourseAtReturn ==
  ASSUME Course, NEW a, Return(a), begun' = begun
  PROVE  Course'
<1>1. pc' = "idle" /\ undo' = <<>> /\ DOMAIN <<>> = {}
  BY DEF Return
<1>2. Undoes(undo, ops)'
  BY <1>1 DEF Undoes
<1> QED
  BY <1>1, <1>2 DEF Course, Applying

\* The course through one step of the process.
LEMMA CourseStep ==
  ASSUME Standing, tree \in Trees, Course, Next
  PROVE  Course'
<1>s. undo \in Seq(UndoStep) /\ asides \in Seq(Aside) /\ begun \in Nat
  BY DEF Standing, Course
<1>1. CASE Apply
  <2>1. /\ journal = None /\ journal' = journal /\ pc' \in {"lone", "commit"}
        /\ undo' = <<>> /\ asides' = <<>> /\ begun' = begun + 1
    BY <1>1 DEF Apply, Refused
  <2>2. begun' \in Nat /\ begun' # 0
    BY <1>s, <2>1
  <2>3. Undoes(undo, ops)'
    BY <2>1 DEF Undoes
  <2> QED
    BY <2>1, <2>2, <2>3 DEF Course, Applying
<1>2. CASE ApplyRefused
  BY <1>2 DEF ApplyRefused, log, budget, Course, Undoes, MovedBy, Swept
<1>3. CASE RunLone
  BY <1>3 DEF RunLone, log, budget, Course, Undoes, Swept, Applying
<1>4. CASE LoneFails \/ CertifyLone \/ CommitFails \/ RetireJournal \/ RetireFails
           \/ AbortFlush \/ ReplayFails \/ SettleRecovery \/ RecoveryFails \/ Crash
  <2>1. begun' = begun /\ \E a : Return(a)
    BY <1>4 DEF LoneFails, CertifyLone, CommitFails, RetireJournal, RetireFails, AbortFlush,
                ReplayFails, SettleRecovery, RecoveryFails, Crash, budget
  <2> QED
    BY <2>1, CourseAtReturn
<1>5. CASE Commit
  <2>1. /\ pc = "commit" /\ pc' = "exec" /\ journal' = ops /\ ops' = ops
        /\ undo' = undo /\ asides' = asides /\ begun' = begun
    BY <1>5 DEF Commit, log, budget
  <2>2. undo' = <<>> /\ asides' = <<>> /\ begun' # 0
    BY <2>1 DEF Course
  <2>3. Undoes(undo, ops)' /\ MovedBy(asides, undo)'
    BY <2>2 DEF Undoes, MovedBy
  <2> QED
    BY <2>1, <2>2, <2>3 DEF Course, Applying
<1>6. CASE MoveAside
  <2> DEFINE p == Displaced(ops[i])
             a == AsideOf(p, i)
  <2>1. /\ pc = "exec" /\ pc' \in Applying \ {"unwind", "abort"}
        /\ journal' = journal /\ ops' = ops /\ begun' = begun
        /\ undo' = Append(undo, Rename(a, p)) /\ asides' = Append(asides, a)
        /\ MovesAside(tree, ops[i])
    BY <1>6 DEF MoveAside, AtOp, NextOp, GoTo, Applying, budget
  <2>2. ops \in Staged /\ i \in DOMAIN ops
    BY <2>1 DEF Standing
  <2>3. p \in Path /\ a \in Aside /\ a \in Slot /\ a[1] = p
    BY <2>2, StagedOps DEF AsideOf
  <2>4. a \in Swept(ops)
    BY <2>1, <2>2 DEF Swept, MovesAside, Moves
  <2>5. Rename(a, p) \in UndoStep /\ Rename(a, p).act = "Rename"
        /\ Rename(a, p).path = a /\ Rename(a, p).other = p
    BY <2>3 DEF UndoStep, Rename
  <2> HIDE DEF a, p
  <2>6. Undoes(Append(undo, Rename(a, p)), ops) /\ MovedBy(asides, Append(undo, Rename(a, p)))
    BY <1>s, <2>1, <2>3, <2>4, <2>5, UndoesMore DEF Course, Applying
  <2>7. MovedBy(Append(asides, a), Append(undo, Rename(a, p)))
    <3> DEFINE v == Append(undo, Rename(a, p))
    <3>1. v[Len(undo) + 1] = Rename(a, p) /\ Len(undo) + 1 \in DOMAIN v
      <4>1. Append(undo, Rename(a, p)) \in Seq(UndoStep) /\ Len(v) = Len(undo) + 1
            /\ v[Len(undo) + 1] = Rename(a, p)
        BY <1>s, <2>5, Longer
      <4>2. Len(undo) \in Nat /\ DOMAIN v = 1 .. Len(v)
        BY <1>s, <4>1
      <4> HIDE DEF v
      <4> QED
        BY <4>1, <4>2
    <3>2. MovedBy(asides, v)
      BY <2>6
    <3> HIDE DEF v
    <3>3. ASSUME NEW k \in DOMAIN Append(asides, a)
          PROVE  \E n \in DOMAIN v : v[n].act = "Rename" /\ v[n].path = Append(asides, a)[k]
      <4>1. (k \in DOMAIN asides /\ Append(asides, a)[k] = asides[k]) \/ Append(asides, a)[k] = a
        BY <1>s, <2>3
      <4> QED
        BY <2>5, <3>1, <3>2, <4>1 DEF MovedBy
    <3> QED
      BY <3>3 DEF MovedBy, v
  <2>8. Undoes(undo, ops)' /\ MovedBy(asides, undo)'
    BY <2>1, <2>6, <2>7 DEF Undoes, MovedBy, Swept
  <2> QED
    BY <2>1, <2>8 DEF Course, Applying
<1>7. CASE Land \/ LandFails
  <2>1. /\ AtLanding /\ journal' = journal /\ ops' = ops /\ begun' = begun
        /\ pc' \in Applying \ {"abort"} /\ asides' = asides
        /\ undo' = undo \o Recorded(tree, ops[i])
    BY <1>7 DEF Land, LandFails, NextOp, GoTo, Applying, budget
  <2>2. pc \in {"exec", "land"} /\ (pc = "land" \/ ~Barred(tree, ops[i]))
    BY <2>1 DEF AtLanding, AtOp
  <2>3. ops[i] \in Op
    BY <2>2, StagedOps DEF Standing
  <2>4. Undoes(undo', ops) /\ MovedBy(asides, undo')
    BY <1>s, <2>1, <2>2, <2>3, RecordedStays DEF Course, Applying
  <2>5. Undoes(undo, ops)' /\ MovedBy(asides, undo)'
    BY <2>1, <2>4 DEF Undoes, MovedBy, Swept
  <2> QED
    BY <2>1, <2>2, <2>5 DEF Course, Applying
<1>8. CASE LandRename
  <2> DEFINE u == Rename(ops[i].other, ops[i].path)
  <2>1. /\ AtLanding /\ ops[i].act = "Rename"
        /\ journal' = journal /\ ops' = ops /\ begun' = begun
        /\ pc' \in Applying \ {"unwind", "abort"} /\ asides' = asides
        /\ undo' \in {undo, Append(undo, u)}
    BY <1>8 DEF LandRename, NextOp, GoTo, Applying, budget
  <2>2. pc \in {"exec", "land"}
    BY <2>1 DEF AtLanding, AtOp
  <2>3. ops[i] \in Op
    BY <2>2, StagedOps DEF Standing
  <2>4. u \in UndoStep /\ u.path \notin Aside
    BY <2>1, <2>3, OpFields, AsideSlots, PathAssumption DEF UndoStep, Rename
  <2> HIDE DEF u
  <2>5. Undoes(undo', ops) /\ MovedBy(asides, undo')
    BY <1>s, <2>1, <2>2, <2>4, UndoesMore DEF Course, Applying
  <2>6. Undoes(undo, ops)' /\ MovedBy(asides, undo)'
    BY <2>1, <2>5 DEF Undoes, MovedBy, Swept
  <2> QED
    BY <2>1, <2>2, <2>6 DEF Course, Applying
<1>9. CASE ExecFails \/ Certify \/ Unwind \/ UnwindFails
  <2>1. /\ pc \in Applying /\ pc' \in Applying /\ journal' = journal /\ ops' = ops
        /\ begun' = begun /\ undo' = undo /\ asides' = asides
        /\ pc' \in {"unwind", "abort"} \/ pc \notin {"unwind", "abort"}
    BY <1>9 DEF ExecFails, Certify, Unwind, UnwindFails, GoTo, Applying, log, budget
  <2>2. Undoes(undo, ops)' /\ (MovedBy(asides, undo) => MovedBy(asides, undo)')
    BY <2>1 DEF Undoes, MovedBy, Swept, Course
  <2> QED
    BY <2>1, <2>2 DEF Course, Applying
<1>10. CASE RetireAside
  <2>1. /\ pc = "retire" /\ pc' = pc /\ ops' = ops /\ undo' = undo /\ journal' = journal
        /\ begun' = begun /\ asides # <<>> /\ asides' = Tail(asides)
    BY <1>10 DEF RetireAside, budget
  <2>2. \A k \in DOMAIN Tail(asides) : k + 1 \in DOMAIN asides /\ Tail(asides)[k] = asides[k + 1]
    BY <1>s, <2>1
  <2>3. MovedBy(asides, undo)'
    BY <2>1, <2>2 DEF MovedBy, Course, Applying
  <2>4. Undoes(undo, ops)'
    BY <2>1 DEF Undoes, Swept, Course
  <2> QED
    BY <2>1, <2>3, <2>4 DEF Course, Applying
<1>11. CASE Unwound \/ Abort
  <2>1. CASE \E a : Return(a)
    <3>1. begun' = begun
      BY <1>11 DEF Unwound, Abort, budget
    <3> QED
      BY <2>1, <3>1, CourseAtReturn
  <2>2. CASE ~\E a : Return(a)
    <3>1. /\ pc' \in {"abort", "abortflush"} /\ pc \in Applying /\ ops' = ops
          /\ begun' = begun /\ undo' = undo /\ asides' = asides
          /\ IF pc' = "abort" THEN journal' = journal ELSE journal' = None
      BY <1>11, <2>2 DEF Unwound, Abort, GoTo, Applying, log, budget
    <3>2. Undoes(undo, ops)'
      BY <3>1 DEF Undoes, Swept, Course
    <3> QED
      BY <3>1, <3>2 DEF Course, Applying
  <2> QED
    BY <2>1, <2>2
<1>12. CASE Recover \/ Replay \/ Sweep
  <2>1. /\ pc \in {"idle", "replay", "sweep"} /\ pc' \in {"idle", "replay", "sweep", "settle"}
        /\ journal' = journal /\ ops' = ops /\ begun' = begun /\ undo' = undo /\ asides' = asides
    BY <1>12 DEF Recover, Replay, Sweep, GoTo, log, budget
  <2>2. Undoes(undo, ops)'
    BY <2>1 DEF Undoes, Swept, Course
  <2> QED
    BY <2>1, <2>2 DEF Course, Applying
<1> QED
  BY <1>1, <1>2, <1>3, <1>4, <1>5, <1>6, <1>7, <1>8, <1>9, <1>10, <1>11, <1>12
     DEF Next, Call, Proceed

-----------------------------------------------------------------------------
(* The steps that have nothing to do with the journal, its home or an aside. *)

\* The undo step that moves back what was moved aside.
Returns(u) == u.act = "Rename" /\ u.path \in Aside

Sparing ==
  \/ Begins \/ Passes \/ RunsLone \/ LeavesLone \/ CertifiesLone
  \/ LandsOp \/ LeavesOp \/ Certifies
  \/ (Unwinds /\ ~Returns(undo[i])) \/ LeavesUnwind
  \/ (Aborts /\ pc' # "abortflush") \/ FlushesAbort
  \/ ReplaysOp \/ LeavesReplay \/ (Dies /\ pc # "commit")

LEMMA SparingSpares ==
  ASSUME DurableInv, HasRoom, Sparing
  PROVE  Spares(disk', disk)
<1>k. Does(disk, tree, journal) /\ Unknown(disk, Pool) # {} /\ Based(disk)
  BY BasedIs DEF DurableInv, HasRoom, Does
<1>1. CASE disk' = disk
  BY <1>k, <1>1, SparesSame
<1>2. CASE RunsLone \/ LeavesLone
  <2>1. pc = "lone" /\ (disk' = CallOn(disk, ops[1]) \/ disk' \in CallLeft(disk, ops[1]))
    BY <1>2 DEF RunsLone, RunLone, LeavesLone, LoneFails
  <2>2. ops[1] \in Op
    BY <2>1, LoneNow
  <2> QED
    BY <1>k, <2>1, <2>2, OpIsPlain, CallSpares
<1>3. CASE CertifiesLone
  <2>1. disk' = disk \/ disk' = FlushAll(disk, Debts(ops[1]), Root, "Durable")
    BY <1>3 DEF CertifiesLone
  <2> QED
    BY <1>k, <2>1, SparesSame, FlushSpares
<1>4. CASE LandsOp \/ LeavesOp
  <2>1. AtLanding /\ (disk' = CallOn(disk, ops[i]) \/ disk' \in CallLeft(disk, ops[i]))
    BY <1>4 DEF LandsOp, Land, LandRename, LeavesOp, LandFails
  <2>2. ops[i] \in Op
    BY <2>1, OpNow DEF AtLanding, AtOp
  <2> QED
    BY <1>k, <2>1, <2>2, OpIsPlain, CallSpares
<1>5. CASE Certifies
  <2>1. disk' = disk \/ disk' = FlushAll(disk, AllDebts(ops), Root, "Durable")
    BY <1>5 DEF Certifies
  <2> QED
    BY <1>k, <2>1, SparesSame, FlushSpares
<1>6. CASE (Unwinds /\ ~Returns(undo[i])) \/ LeavesUnwind
  <2>1. /\ pc = "unwind" /\ i > 0
        /\ \/ disk' = UndoOn(disk, undo[i]) /\ ~Returns(undo[i])
           \/ disk' \in UndoLeft(disk, undo[i])
    BY <1>6 DEF Unwinds, Unwind, LeavesUnwind, UnwindFails
  <2>2. undo[i] \in UndoStep
    BY <2>1, UndoNow
  <2> QED
    BY <1>k, <2>1, <2>2, UndoSpares DEF Returns
<1>7. CASE FlushesAbort
  <2>1. disk' = disk \/ disk' = Sync(disk, DirOf(kept), "Durable")
    BY <1>7 DEF FlushesAbort
  <2> QED
    BY <1>k, <2>1, SparesSame, SyncSpares
<1>8. CASE ReplaysOp \/ LeavesReplay
  <2>1. /\ pc = "replay"
        /\ disk' = ReplayOn(disk, journal[i]) \/ disk' \in CallLeft(disk, journal[i])
    BY <1>8 DEF ReplaysOp, Replay, LeavesReplay, ReplayFails
  <2>2. journal[i] \in Op
    BY <2>1, ReplayNow
  <2> QED
    BY <1>k, <2>1, <2>2, OpIsPlain, CallSpares, ReplaySpares
<1>9. CASE Dies /\ pc # "commit"
  <2>1. CASE pc = "lone" \/ AtLanding
    <3>1. pc \in {"lone", "exec", "land"} /\ disk' \in CallLeft(disk, ops[i])
      BY <1>9, <2>1 DEF Dies, AtLanding, AtOp
    <3>2. ops[i] \in Op
      BY <3>1, OpNow
    <3> QED
      BY <1>k, <3>1, <3>2, OpIsPlain, CallSpares
  <2>2. CASE pc = "unwind" /\ i > 0
    <3>1. disk' \in UndoLeft(disk, undo[i]) /\ undo[i] \in UndoStep
      BY <1>9, <2>2, UndoNow DEF Dies, AtLanding, AtOp
    <3> QED
      BY <1>k, <3>1, UndoSpares
  <2>3. CASE pc = "replay"
    <3>1. disk' \in CallLeft(disk, journal[i]) /\ journal[i] \in Op
      BY <1>9, <2>3, ReplayNow DEF Dies, AtLanding, AtOp
    <3> QED
      BY <1>k, <3>1, OpIsPlain, CallSpares
  <2> QED
    BY <1>1, <1>9, <2>1, <2>2, <2>3 DEF Dies
<1> QED
  BY <1>1, <1>2, <1>3, <1>4, <1>5, <1>6, <1>7, <1>8, <1>9
     DEF Sparing, Begins, Passes, Aborts

-----------------------------------------------------------------------------
(* What the steps that leave the journal in place keep of it.                *)

\* No journal is in a home that is not there.
Homed(k) == Seen(k)[HomeName] = Gone => Seen(k)[InHome] = Gone

Steady(h, k) ==
  /\ Placed(h) /\ h.ordered = k.ordered
  /\ \A l \in JournalNames \cup {HomeName} : Seen(h)[l] = Seen(k)[l] /\ Eases(h, k, l)
  /\ \A n \in Inodes : Claimed(h, n) => Eases(h, k, BytesOf(n))

LEMMA SparesSteady ==
  ASSUME NEW k, NEW h, Placed(k), Spares(h, k)
  PROVE  Steady(h, k)
  BY WatchedAre, PlacedAlike DEF Spares, Alike, Steady

\* Names of the tree, all of one directory.
LEMMA NamesSteady ==
  ASSUME NEW k, DiskInv(k), Placed(k), NEW puts, DOMAIN puts # {}, DOMAIN puts \subseteq Slot,
         NEW dir, \A l \in DOMAIN puts : DirOf(l) = dir
  PROVE  Steady(Enter(k, puts), k)
<1> DEFINE h == Enter(k, puts)
<1>1. Sound(k) /\ Entries \cup Parts = DOMAIN k.store
  BY DEF DiskInv, Typed
<1>2. Placed(h)
  BY <1>1, EnterPlaced
<1>3. Added(h, k, puts)
  BY <1>1, IssuedAdds DEF Enter
<1> HIDE DEF h
<1>4. h.ordered = k.ordered
  BY <1>3 DEF Added
<1>5. \A l \in JournalNames \cup {HomeName} : l \in Entries /\ l \notin DOMAIN puts
  BY NamesDiffer
<1>6. \A l \in JournalNames \cup {HomeName} : Seen(h)[l] = Seen(k)[l] /\ Eases(h, k, l)
  BY <1>1, <1>3, <1>5, AddedShows, AddedAlike
<1>7. \A n \in Inodes : Eases(h, k, BytesOf(n))
  <2>1. \A n \in Inodes : BytesOf(n) \notin DOMAIN puts
    BY PartsDiffer, NamesDiffer
  <2> QED
    BY <1>1, <1>3, <2>1, AddedAlike
<1> QED
  BY <1>2, <1>4, <1>6, <1>7 DEF Steady, h

LEMMA UnlinkSteady ==
  ASSUME NEW k, DiskInv(k), Placed(k), NEW a \in Slot
  PROVE  Steady(Unlinked(k, a), k)
<1>1. DOMAIN At(a, Gone) = {a}
  BY OnePut
<1>2. DOMAIN At(a, Gone) # {} /\ DOMAIN At(a, Gone) \subseteq Slot
      /\ \A l \in DOMAIN At(a, Gone) : DirOf(l) = DirOf(a)
  BY <1>1
<1> QED
  BY <1>2, NamesSteady DEF Unlinked

LEMMA RenameSteady ==
  ASSUME NEW k, DiskInv(k), Placed(k), NEW p \in Slot, NEW q \in Slot, p # q,
         DirOf(p) = DirOf(q)
  PROVE  Steady(Renamed(k, p, q), k)
<1> DEFINE puts == [l \in {p, q} |-> IF l = p THEN Gone ELSE Seen(k)[p]]
<1>1. Renamed(k, p, q) = Enter(k, puts)
  BY DEF Renamed
<1>2. DOMAIN puts # {} /\ DOMAIN puts \subseteq Slot /\ \A l \in DOMAIN puts : DirOf(l) = DirOf(p)
  OBVIOUS
<1> HIDE DEF puts
<1> QED
  BY <1>1, <1>2, NamesSteady

LEMMA SteadyFirm ==
  ASSUME NEW k, NEW h, Steady(h, k), kept \in JournalNames, NEW set, Firm(k, set)
  PROVE  Firm(h, set)
<1>1. PICK n \in Inodes :
        /\ Rests(k, kept, Inode(n)) /\ Rests(k, BytesOf(n), set)
        /\ kept = InHome => Rests(k, HomeName, Subdir)
  BY DEF Firm
<1>2. Rests(h, kept, Inode(n)) /\ (kept = InHome => Rests(h, HomeName, Subdir))
  BY <1>1, RestStays DEF Steady
<1>3. Claimed(h, n)
  BY <1>2 DEF Rests, Claimed
<1>4. Rests(h, BytesOf(n), set)
  BY <1>1, <1>3, RestStays DEF Steady
<1> QED
  BY <1>2, <1>4 DEF Firm

\* The steps that move a file aside, move it back or clear it.
AsideStep ==
  MovesItAside \/ RetiresAside \/ (Unwinds /\ Returns(undo[i])) \/ Sweeps

LEMMA AsideSteady ==
  ASSUME DurableInv, Course, Placed(disk), AsideStep
  PROVE  Steady(disk', disk)
<1>k. DiskInv(disk) /\ Based(disk)
  BY BasedIs DEF DurableInv, Does
<1>1. CASE MovesItAside
  <2> DEFINE p == Displaced(ops[i])
             a == AsideOf(p, i)
  <2>1. pc = "exec" /\ disk' = Renamed(disk, p, a)
    BY <1>1 DEF MovesItAside, MoveAside, AtOp
  <2>2. ops \in Staged /\ i \in DOMAIN ops
    BY <2>1, OpNow
  <2>3. p \in Path /\ p \in Slot /\ a \in Aside /\ a \in Slot /\ a[1] = p
    BY <2>2, StagedOps DEF AsideOf
  <2> HIDE DEF p, a
  <2>4. p # a /\ DirOf(p) = DirOf(a)
    BY <2>3, AsideHome, PathAssumption
  <2> QED
    BY <1>k, <2>1, <2>3, <2>4, RenameSteady
<1>2. CASE RetiresAside
  <2>1. asides # <<>> /\ disk' = Unlinked(disk, Head(asides))
    BY <1>2 DEF RetiresAside, RetireAside
  <2>2. Head(asides) \in Aside
    BY <2>1 DEF DurableInv, Standing
  <2>3. Head(asides) \in Slot
    BY <2>2 DEF Slot
  <2> QED
    BY <1>k, <2>1, <2>3, UnlinkSteady
<1>3. CASE Unwinds /\ Returns(undo[i])
  <2> DEFINE u == undo[i]
  <2>1. pc = "unwind" /\ i > 0 /\ disk' = UndoOn(disk, u) /\ u.act = "Rename" /\ u.path \in Aside
    BY <1>3 DEF Unwinds, Unwind, Returns
  <2>2. u \in UndoStep /\ i \in DOMAIN undo
    BY <2>1, UndoNow DEF DurableInv, Standing
  <2>3. u.other = u.path[1]
    BY <2>1, <2>2 DEF Course, Undoes
  <2> HIDE DEF u
  <2>4. u.path \in Slot /\ u.other \in Slot /\ u.path # u.other /\ DirOf(u.path) = DirOf(u.other)
    BY <2>1, <2>3, AsideHome, PathAssumption DEF Slot
  <2>5. disk' = Renamed(disk, u.path, u.other)
    BY <2>1 DEF UndoOn, CallOn, Lands
  <2> QED
    BY <1>k, <2>4, <2>5, RenameSteady
<1>4. CASE Sweeps
  <2> DEFINE a == AsideOf(Displaced(journal[i]), i)
  <2>1. pc = "sweep" /\ (disk' = disk \/ disk' = Unlinked(disk, a))
    BY <1>4 DEF Sweeps, Sweep
  <2>2. a \in Slot
    BY <2>1, ReplayNow
  <2> HIDE DEF a
  <2> QED
    BY <1>k, <2>1, <2>2, UnlinkSteady, SparesSame, SparesSteady
<1> QED
  BY <1>1, <1>2, <1>3, <1>4 DEF AsideStep

-----------------------------------------------------------------------------
(* What the steps that write the journal's name keep.                        *)

\* The asides after writes that are of none of them.
Eased(h, k) ==
  /\ Based(h)
  /\ \A a \in Aside : Eases(h, k, a) /\ Seen(h)[a] = Seen(k)[a]

LEMMA EasedTwice ==
  ASSUME NEW k, NEW h, NEW g, Eased(h, k), Eased(g, h)
  PROVE  Eased(g, k)
  BY EasesTwice DEF Eased

LEMMA SparesEased ==
  ASSUME NEW k, NEW h, Spares(h, k)
  PROVE  Eased(h, k)
  BY WatchedAre DEF Spares, Alike, Eased

LEMMA AddedEased ==
  ASSUME NEW k, Based(k), NEW h, NEW puts, Added(h, k, puts), Aside \cap DOMAIN puts = {}
  PROVE  Eased(h, k)
<1>1. Based(h)
  BY DEF Added, Based
<1>2. ASSUME NEW a \in Aside PROVE Eases(h, k, a) /\ Seen(h)[a] = Seen(k)[a]
  <2>1. a \in DOMAIN k.store /\ a \notin DOMAIN puts
    BY WatchedAre DEF Based
  <2>2. a \in DOMAIN Seen(k)
    BY <2>1, SeenIsValue DEF Based
  <2> QED
    BY <2>1, <2>2, AddedAlike, AddedSees DEF Based
<1> QED
  BY <1>1, <1>2 DEF Eased

Rooted(h, k) ==
  /\ Eased(h, k) /\ Placed(h) /\ h.ordered = k.ordered
  /\ \A l \in {HomeName, InHome} \ {kept} : Seen(h)[l] = Seen(k)[l]

LEMMA RootedTwice ==
  ASSUME NEW k, NEW h, NEW g, Rooted(h, k), Rooted(g, h)
  PROVE  Rooted(g, k)
  BY EasedTwice DEF Rooted, Eased

LEMMA SparesRooted ==
  ASSUME NEW k, NEW h, Placed(k), Spares(h, k)
  PROVE  Rooted(h, k)
<1>1. {HomeName, InHome} \subseteq Watched
  BY NamesDiffer, WatchedAre
<1> QED
  BY <1>1, PlacedAlike, SparesEased DEF Spares, Alike, Rooted

LEMMA PartRooted ==
  ASSUME NEW k, Based(k), Placed(k), NEW n \in Inodes, NEW l \in {BytesOf(n), ModeOf(n)}, NEW v
  PROVE  Rooted(IssueBy(k, {n}, At(l, v)), k)
<1> DEFINE h == IssueBy(k, {n}, At(l, v))
<1>1. Added(h, k, At(l, v)) /\ DOMAIN At(l, v) = {l}
  BY IssuedAdds, OnePut DEF Based
<1> HIDE DEF h
<1>2. Eased(h, k) /\ h.ordered = k.ordered
  <2>1. Aside \cap DOMAIN At(l, v) = {}
    BY <1>1, WatchedAre, PartsDiffer
  <2> QED
    BY <1>1, <2>1, AddedEased DEF Added
<1>3. Watched \in SUBSET DOMAIN k.store /\ Watched \cap DOMAIN At(l, v) = {}
  BY <1>1, WatchedAre, PartsDiffer DEF Based
<1>4. Alike(h, k, Watched) /\ \A x \in Watched : Seen(h)[x] = Seen(k)[x]
  BY <1>1, <1>3, AddedAlike, SeenBeside DEF Based
<1>5. {HomeName, InHome} \subseteq Watched
  BY NamesDiffer, WatchedAre
<1> QED
  BY <1>2, <1>4, <1>5, PlacedAlike DEF Rooted, h

LEMMA KeptRooted ==
  ASSUME NEW k, Based(k), Placed(k), kept \in JournalNames, NEW e
  PROVE  Rooted(Enter(k, At(kept, e)), k)
<1> DEFINE h == Enter(k, At(kept, e))
<1>1. Added(h, k, At(kept, e)) /\ DOMAIN At(kept, e) = {kept}
  BY IssuedAdds, OnePut DEF Based, Enter
<1>2. Placed(h)
  BY OneNamePlaced DEF Based
<1> HIDE DEF h
<1>3. Eased(h, k) /\ h.ordered = k.ordered
  <2>1. Aside \cap DOMAIN At(kept, e) = {}
    BY <1>1, WatchedAre
  <2> QED
    BY <1>1, <2>1, AddedEased DEF Added
<1>4. ASSUME NEW l \in {HomeName, InHome} \ {kept} PROVE Seen(h)[l] = Seen(k)[l]
  <2>1. l \in DOMAIN k.store /\ l \notin DOMAIN At(kept, e)
    BY <1>1, NamesDiffer DEF Based
  <2>2. l \in DOMAIN Seen(k)
    BY <2>1, SeenIsValue DEF Based
  <2> QED
    BY <1>1, <2>1, <2>2, AddedSees DEF Based
<1> QED
  BY <1>2, <1>3, <1>4 DEF Rooted, h

LEMMA ReplaceRooted ==
  ASSUME NEW k, DiskInv(k), Placed(k), kept \in JournalNames, Unknown(k, JournalPool) # {}, NEW b
  PROVE  Rooted(Replace(k, kept, b, FALSE, JournalPool), k)
<1> DEFINE n == Fresh(k, JournalPool)
           m0 == Minted(k, n)
           m1 == SetBytes(m0, n, b)
           m2 == Sync(m1, n, "Ordered")
           m3 == Enter(m2, At(kept, Inode(n)))
<1>1. Replace(k, kept, b, FALSE, JournalPool) = m3
  BY DEF Replace
<1>2. n \in Inodes /\ Free(k, n)
  <2>1. JournalPool \in SUBSET Inodes
    BY PoolsDiffer DEF JournalPool
  <2> QED
    BY <2>1, FreshIs DEF DiskInv
<1> HIDE DEF n
<1>3. Rooted(m0, k)
  BY <1>2, BasedIs, FreeUnclaimed, MintSpares, SparesRooted
<1>4. Based(m0) /\ Placed(m0)
  BY <1>3 DEF Rooted, Eased
<1> HIDE DEF m0
<1>5. Rooted(m1, m0)
  BY <1>2, <1>4, PartRooted DEF SetBytes
<1>6. Based(m1) /\ Placed(m1)
  BY <1>5 DEF Rooted, Eased
<1> HIDE DEF m1
<1>7. Rooted(m2, m1)
  BY <1>6, SyncSpares, SparesRooted
<1>8. Based(m2) /\ Placed(m2)
  BY <1>7 DEF Rooted, Eased
<1> HIDE DEF m2
<1>9. Rooted(m3, m2)
  BY <1>8, KeptRooted
<1> HIDE DEF m3
<1> QED
  BY <1>1, <1>3, <1>5, <1>7, <1>9, RootedTwice

LEMMA OverwriteRooted ==
  ASSUME NEW k, DiskInv(k), Placed(k), kept \in JournalNames, Unknown(k, JournalPool) # {}, NEW b
  PROVE  Rooted(Overwritten(k, kept, b, JournalPool), k)
<1>1. CASE Seen(k)[kept].kind = "file"
  <2> DEFINE n == Seen(k)[kept].inode
  <2>1. n \in Inodes
    BY <1>1, NamesDiffer, SeenTypes, HoldKinds, EntriesDiffer
  <2>2. Overwritten(k, kept, b, JournalPool) = IssueBy(k, {n}, At(BytesOf(n), b))
    BY <1>1 DEF Overwritten, SetBytes
  <2> HIDE DEF n
  <2> QED
    BY <2>1, <2>2, BasedIs, PartRooted
<1>2. CASE Seen(k)[kept].kind # "file"
  <2> DEFINE n == Fresh(k, JournalPool)
             m0 == Minted(k, n)
             m1 == Enter(m0, At(kept, Inode(n)))
             m2 == SetBytes(m1, n, b)
  <2>1. Overwritten(k, kept, b, JournalPool) = m2
    BY <1>2 DEF Overwritten
  <2>2. n \in Inodes /\ Free(k, n)
    <3>1. JournalPool \in SUBSET Inodes
      BY PoolsDiffer DEF JournalPool
    <3> QED
      BY <3>1, FreshIs DEF DiskInv
  <2> HIDE DEF n
  <2>3. Rooted(m0, k)
    BY <2>2, BasedIs, FreeUnclaimed, MintSpares, SparesRooted
  <2>4. Based(m0) /\ Placed(m0)
    BY <2>3 DEF Rooted, Eased
  <2> HIDE DEF m0
  <2>5. Rooted(m1, m0)
    BY <2>4, KeptRooted
  <2>6. Based(m1) /\ Placed(m1)
    BY <2>5 DEF Rooted, Eased
  <2> HIDE DEF m1
  <2>7. Rooted(m2, m1)
    BY <2>2, <2>6, PartRooted DEF SetBytes
  <2> HIDE DEF m2
  <2> QED
    BY <2>1, <2>3, <2>5, <2>7, RootedTwice
<1> QED
  BY <1>1, <1>2

\* h holds no journal in a home that is not there, and names as k did.
Housed(h, k) == Placed(h) /\ Homed(h) /\ h.ordered = k.ordered

LEMMA RootedHoused ==
  ASSUME NEW k, NEW h, Rooted(h, k), Homed(k), kept \in JournalNames, ~HomeMissing(k)
  PROVE  Housed(h, k)
<1>1. CASE kept = InHome
  BY <1>1, NamesDiffer DEF Rooted, Housed, Homed, HomeMissing
<1>2. CASE kept # InHome
  BY <1>2, NamesDiffer DEF Rooted, Housed, Homed
<1> QED
  BY <1>1, <1>2

LEMMA SteadyHoused ==
  ASSUME NEW k, NEW h, Steady(h, k), Homed(k)
  PROVE  Housed(h, k)
  BY NamesDiffer DEF Steady, Housed, Homed

\* The home made, flushed or not.
LEMMA HomeHoused ==
  ASSUME NEW k, DiskInv(k), Placed(k), Homed(k), kept \in JournalNames
  PROVE  /\ Housed(WithHome(k), k)
         /\ Housed(Enter(k, At(HomeName, Subdir)), k)
<1> DEFINE e == Enter(k, At(HomeName, Subdir))
           f == Sync(e, Home, "Durable")
           g == Sync(f, Attic, "Durable")
<1>1. /\ DiskInv(e)
      /\ \A l \in Entries \cup Parts : Seen(e)[l] = IF l = HomeName THEN Subdir ELSE Seen(k)[l]
  BY HomeDoes
<1>2. Placed(e) /\ Added(e, k, At(HomeName, Subdir))
  BY OneNamePlaced, IssuedAdds DEF DiskInv, Typed, Enter
<1>3. Seen(e)[HomeName] # Gone
  BY <1>1, NamesDiffer, EntriesDiffer
<1>4. Housed(e, k)
  BY <1>2, <1>3 DEF Housed, Homed, Added
<1>5. Based(e)
  BY <1>1, BasedIs
<1> HIDE DEF e
<1>6. Steady(f, e) /\ Based(f)
  BY <1>2, <1>5, SyncSpares, SparesSteady DEF Spares
<1> HIDE DEF f
<1>7. Steady(g, f)
  BY <1>6, SyncSpares, SparesSteady DEF Steady
<1> HIDE DEF g
<1>8. Housed(g, k)
  BY <1>4, <1>6, <1>7, SteadyHoused DEF Housed
<1>9. WithHome(k) = g \/ WithHome(k) = k
  BY DEF WithHome, g, f, e
<1>10. Housed(k, k)
  BY DEF Housed
<1> QED
  BY <1>4, <1>8, <1>9, <1>10 DEF e

LEMMA CommitHoused ==
  ASSUME NEW k, DiskInv(k), Placed(k), Homed(k), kept \in JournalNames,
         \A pool \in {Pool, HomePool} : Unknown(k, pool) # {}
  PROVE  /\ Housed(Committed(k), k)
         /\ \A h \in CommitLeft(k) : Housed(h, k)
<1> DEFINE g == WithHome(k)
           w == Published(g)
           t == Overwritten(g, kept, Torn, JournalPool)
<1>1. Housed(g, k) /\ Housed(Enter(k, At(HomeName, Subdir)), k)
  BY HomeHoused
<1>2. DiskInv(g) /\ ~HomeMissing(g) /\ Unknown(g, JournalPool) # {}
  BY WithHomeDoes DEF JournalPool
<1>3. /\ Committed(k) = LET f == IF AtomicReplace THEN w ELSE SyncFile(w, kept, "Durable") IN
                        Sync(f, DirOf(kept), "Durable")
      /\ \A h \in CommitLeft(k) : h \in {k, g, Enter(k, At(HomeName, Subdir)), w, t}
  BY DEF Committed, CommitLeft
<1> HIDE DEF g
<1>4. Rooted(w, g) /\ Rooted(t, g)
  BY <1>1, <1>2, ReplaceRooted, OverwriteRooted DEF Published, Housed
<1> HIDE DEF w, t
<1>5. Housed(w, k) /\ Housed(t, k) /\ Housed(k, k)
  BY <1>1, <1>2, <1>4, RootedHoused DEF Housed
<1>6. Based(w)
  BY <1>4 DEF Rooted, Eased
<1> DEFINE f == IF AtomicReplace THEN w ELSE SyncFile(w, kept, "Durable")
           c == Sync(f, DirOf(kept), "Durable")
<1>7. Steady(f, w) /\ Based(f)
  <2>1. Spares(f, w)
    BY <1>6, SparesSame, FileSyncSpares
  <2> QED
    BY <1>5, <2>1, SparesSteady DEF Spares, Housed
<1> HIDE DEF f
<1>8. Steady(c, f)
  BY <1>7, SyncSpares, SparesSteady DEF Steady
<1>9. Housed(c, k)
  BY <1>5, <1>7, <1>8, SteadyHoused DEF Housed
<1> HIDE DEF c
<1>10. Committed(k) = c
  BY <1>3 DEF c, f
<1> QED
  BY <1>1, <1>3, <1>5, <1>9, <1>10

\* The journal's name given up.
LEMMA UnkeptHoused ==
  ASSUME NEW k, DiskInv(k), Placed(k), Homed(k), kept \in JournalNames
  PROVE  Housed(Unlinked(k, kept), k)
<1>1. Rooted(Unlinked(k, kept), k)
  BY BasedIs, KeptRooted DEF Unlinked
<1>2. Seen(Unlinked(k, kept))[kept] = Gone
  BY UnlinkDoes, NamesDiffer
<1> QED
  BY <1>1, <1>2, NamesDiffer DEF Rooted, Housed, Homed

LEMMA RetireHoused ==
  ASSUME NEW k, DiskInv(k), Placed(k), Homed(k), kept \in JournalNames
  PROVE  /\ \A debts : Housed(Retired(k, debts), k)
         /\ Housed(Aborted(k), k)
<1>1. ASSUME NEW h, DiskInv(h), Spares(h, k) PROVE Housed(Unlinked(h, kept), k)
  <2>1. Housed(h, k)
    BY <1>1, SparesSteady, SteadyHoused
  <2>2. Housed(Unlinked(h, kept), h)
    BY <1>1, <2>1, UnkeptHoused DEF Housed
  <2> QED
    BY <2>1, <2>2 DEF Housed
<1>2. ASSUME NEW debts PROVE Housed(Retired(k, debts), k)
  <2>1. /\ DiskInv(FlushAll(k, debts, Root, "Durable"))
        /\ Spares(FlushAll(k, debts, Root, "Durable"), k)
    BY BasedIs, FlushSpares, FlushCalms DEF Calmer
  <2> QED
    BY <1>1, <2>1 DEF Retired
<1>3. Housed(Aborted(k), k)
  <2> DEFINE m == Handed(k, UndoDebts)
             b == IF UndoDebts = {} THEN k ELSE Barriered(m, "tree")
             c == IF kept = InHome THEN Sync(b, Root, "Durable") ELSE b
  <2>1. Aborted(k) = Unlinked(c, kept)
    BY DEF Aborted
  <2>2. DiskInv(m) /\ Spares(m, k)
    BY BasedIs, HandSpares, HandCalms DEF Calmer
  <2> HIDE DEF m
  <2>3. DiskInv(b) /\ Spares(b, k)
    <3>1. Spares(k, k)
      BY BasedIs, SparesSame
    <3>2. DiskInv(Barriered(m, "tree")) /\ Spares(Barriered(m, "tree"), m)
      BY <2>2, BasedIs, BarrierSpares, BarrierCalms DEF Calmer
    <3> QED
      BY <2>2, <3>1, <3>2, SparesTwice
  <2> HIDE DEF b
  <2>4. DiskInv(c) /\ Spares(c, k)
    <3>1. DiskInv(Sync(b, Root, "Durable")) /\ Spares(Sync(b, Root, "Durable"), b)
      BY <2>3, BasedIs, SyncSpares, SyncCalms DEF Calmer
    <3> QED
      BY <2>3, <3>1, SparesTwice
  <2> HIDE DEF c
  <2> QED
    BY <1>1, <2>1, <2>4
<1> QED
  BY <1>2, <1>3

LEMMA RetireQuiet ==
  ASSUME NEW k, DiskInv(k), kept \in JournalNames, WritersOf(k, HomeName) = {}, NEW debts
  PROVE  WritersOf(Retired(k, debts), HomeName) = {}
<1> DEFINE f == FlushAll(k, debts, Root, "Durable")
           h == Enter(f, At(kept, Gone))
<1>1. Spares(f, k) /\ Retired(k, debts) = h
  BY BasedIs, FlushSpares DEF Retired, Unlinked
<1>2. WritersOf(f, HomeName) = {}
  BY <1>1, WatchedAre DEF Spares, Alike, Eases
<1>3. Sound(f)
  BY <1>1 DEF Spares, Based
<1> HIDE DEF f
<1>4. Added(h, f, At(kept, Gone))
  BY <1>3, IssuedAdds DEF Enter
<1>5. HomeName \notin DOMAIN At(kept, Gone)
  <2>1. DOMAIN At(kept, Gone) = {kept}
    BY OnePut
  <2> QED
    BY <2>1, NamesDiffer
<1> HIDE DEF h
<1> QED
  BY <1>1, <1>2, <1>4, <1>5, AddedValues

\* A disk after the power is back.
LEMMA CleanHoused ==
  ASSUME NEW s, NEW o, DiskInv(Clean(s, o, "Durable")), s[HomeName] = Gone => s[InHome] = Gone
  PROVE  LET h == Clean(s, o, "Durable") IN
         /\ Placed(h) /\ Homed(h) /\ h.ordered = o /\ h.log = <<>>
         /\ \A l : WritersOf(h, l) = {}
<1> DEFINE h == Clean(s, o, "Durable")
<1>1. h.grade = "Durable" /\ h.ordered = o /\ h.log = <<>> /\ h.store = s
  BY DEF Clean
<1>2. Based(h)
  BY BasedIs
<1> HIDE DEF h
<1>3. DOMAIN h.log = {}
  BY <1>1
<1>4. \A l : WritersOf(h, l) = {}
  BY <1>3 DEF WritersOf, Writers
<1>5. \A l \in Entries : Seen(h)[l] = s[l]
  BY <1>1, <1>2, <1>4, SettledIs DEF Rests, Values, Based
<1>6. Homed(h)
  BY <1>5, NamesDiffer DEF Homed
<1> QED
  BY <1>1, <1>4, <1>6 DEF Placed, h

-----------------------------------------------------------------------------
(* The intent through every step.                                            *)

\* Before the first commit.
Early == begun = 0 \/ (begun = 1 /\ pc = "commit")

IntentInv ==
  /\ Course
  /\ Placed(disk) /\ Homed(disk)
  /\ Early => WritersOf(disk, HomeName) = {}
  /\ (pc \in Applying /\ ~HomeAdrift) => Firm(disk, ops)

LEMMA AdriftStays ==
  ASSUME kept' = kept, disk'.ordered = disk.ordered, begun \in Nat, begun' \in {begun, begun + 1},
         HomeAdrift
  PROVE  HomeAdrift'
<1>1. begun' > 1
  BY DEF HomeAdrift
<1> QED
  BY <1>1 DEF HomeAdrift

LEMMA SteadyIntent ==
  ASSUME IntentInv, kept \in JournalNames, kept' = kept, Course', Steady(disk', disk),
         begun' \in {begun, begun + 1}, Early' => Early,
         pc' \in Applying => pc \in Applying /\ ops' = ops
  PROVE  IntentInv'
<1>1. Placed(disk)' /\ disk'.ordered = disk.ordered
  BY DEF Steady, Placed
<1>2. Homed(disk)'
  BY SteadyHoused DEF IntentInv, Housed, Homed
<1>3. Early' => (WritersOf(disk, HomeName) = {})'
  BY DEF IntentInv, Steady, Eases
<1>4. ASSUME pc' \in Applying, ~HomeAdrift' PROVE Firm(disk, ops)'
  <2>1. Firm(disk, ops) /\ ops' = ops
    BY <1>1, <1>4, AdriftStays DEF IntentInv, Course
  <2>2. Firm(disk', ops)
    BY <2>1, SteadyFirm
  <2> QED
    BY <2>1, <2>2 DEF Firm, Rests
<1> QED
  BY <1>1, <1>2, <1>3, <1>4 DEF IntentInv

LEMMA HousedIntent ==
  ASSUME IntentInv, kept' = kept, Course', Housed(disk', disk),
         Early' => WritersOf(disk', HomeName) = {}, pc' \notin Applying
  PROVE  IntentInv'
<1>1. Placed(disk)' /\ Homed(disk)'
  BY DEF Housed, Placed, Homed
<1> QED
  BY <1>1 DEF IntentInv

\* A set is begun by an apply, and set to work by its commit.
LEMMA OnwardStep ==
  ASSUME begun \in Nat, Next, ~Commit
  PROVE  /\ begun' \in {begun, begun + 1}
         /\ Early' => Early
         /\ pc' \in Applying => pc \in Applying /\ ops' = ops
<1>1. CASE Apply
  BY <1>1 DEF Apply, Early, Applying
<1>2. CASE ApplyRefused
  BY <1>2 DEF ApplyRefused, log, budget, Early, Applying
<1>3. CASE \E a : Return(a)
  <2>1. pc' = "idle"
    BY <1>3 DEF Return
  <2>2. ~Apply
    BY <2>1 DEF Apply
  <2>3. begun' = begun
    BY <2>2 DEF Next, Call, Proceed, ApplyRefused, RunLone, LoneFails, CertifyLone, CommitFails, Commit,
                MoveAside, Land, LandRename, ExecFails, LandFails, Certify, RetireAside, RetireJournal,
                RetireFails, Unwind, UnwindFails, Unwound, Abort, AbortFlush, Replay, ReplayFails,
                Sweep, SettleRecovery, RecoveryFails, Recover, Crash, budget
  <2> QED
    BY <2>1, <2>3 DEF Early, Applying
<1>4. CASE RunLone \/ Recover \/ Replay \/ Sweep
  BY <1>4 DEF RunLone, Recover, Replay, Sweep, GoTo, log, budget, Early, Applying
<1>5. CASE MoveAside \/ Land \/ LandRename \/ ExecFails \/ LandFails
  BY <1>5 DEF MoveAside, Land, LandRename, ExecFails, LandFails, NextOp, GoTo, AtOp, AtLanding,
              log, budget, Early, Applying
<1>6. CASE Certify \/ RetireAside \/ Unwind \/ UnwindFails
  BY <1>6 DEF Certify, RetireAside, Unwind, UnwindFails, GoTo, log, budget, Early, Applying
<1>7. CASE (Unwound \/ Abort) /\ ~\E a : Return(a)
  BY <1>7 DEF Unwound, Abort, GoTo, log, budget, Early, Applying
<1>8. CASE LoneFails \/ CertifyLone \/ CommitFails \/ RetireJournal \/ RetireFails
           \/ AbortFlush \/ ReplayFails \/ SettleRecovery \/ RecoveryFails \/ Crash
  <2>1. \E a : Return(a)
    BY <1>8 DEF LoneFails, CertifyLone, CommitFails, RetireJournal, RetireFails, AbortFlush,
                ReplayFails, SettleRecovery, RecoveryFails, Crash
  <2> QED
    BY <1>3, <2>1
<1> QED
  BY <1>1, <1>2, <1>3, <1>4, <1>5, <1>6, <1>7, <1>8 DEF Next, Call, Proceed

\* A step of the process is one of the set's and the recovery's.
LEMMA RunsNext ==
  ASSUME Runs
  PROVE  Next
<1>1. CASE Begins \/ Passes \/ RunsLone \/ LeavesLone \/ CertifiesLone \/ Commits \/ LeavesCommit
           \/ MovesItAside \/ LandsOp \/ LeavesOp
  BY <1>1 DEF Begins, Passes, RunsLone, LeavesLone, CertifiesLone, Commits, LeavesCommit,
              MovesItAside, LandsOp, LeavesOp, Next, Call, Proceed
<1>2. CASE Certifies \/ RetiresAside \/ RetiresJournal \/ Unwinds \/ LeavesUnwind \/ Aborts
           \/ FlushesAbort
  BY <1>2 DEF Certifies, RetiresAside, RetiresJournal, Unwinds, LeavesUnwind, Aborts,
              FlushesAbort, Next, Proceed
<1>3. CASE ReplaysOp \/ LeavesReplay \/ Sweeps \/ SettlesRecovery \/ Dies
  BY <1>3 DEF ReplaysOp, LeavesReplay, Sweeps, SettlesRecovery, Dies, Next, Proceed
<1> QED
  BY <1>1, <1>2, <1>3 DEF Runs

LEMMA IntentBegins ==
  ASSUME DurableInit, DurableInv
  PROVE  IntentInv
<1>1. PICK ordered \in Orders : disk = Clean(StoreOf(tree), ordered, "Durable")
  BY DEF DurableInit
<1>2. StoreOf(tree)[InHome] = Gone
  <2>1. InHome \in Entries /\ InHome \notin Path /\ InHome \notin FilesOf(tree)
    BY LayoutAssumption DEF JournalNames, Entries, Slot, FilesOf
  <2> QED
    BY <2>1 DEF StoreOf
<1>3. /\ Placed(disk) /\ Homed(disk) /\ \A l : WritersOf(disk, l) = {}
  <2>1. DiskInv(Clean(StoreOf(tree), ordered, "Durable"))
    BY <1>1 DEF DurableInv, Does
  <2> QED
    BY <1>1, <1>2, <2>1, CleanHoused
<1>4. Course /\ pc \notin Applying
  <2>1. begun = 0 /\ pc = "idle" /\ undo = <<>> /\ DOMAIN <<>> = {}
    BY DEF DurableInit, Init
  <2> QED
    BY <2>1 DEF Course, Applying, Undoes
<1> QED
  BY <1>3, <1>4 DEF IntentInv

\* Where no journal is read, none is there.
LEMMA NoneIsGone ==
  ASSUME NEW k, DiskInv(k), Homed(k), kept \in JournalNames, JournalIn(Seen(k)) = None
  PROVE  Seen(k)[kept].kind # "file"
<1> SUFFICES ASSUME Seen(k)[kept].kind = "file" PROVE FALSE
  OBVIOUS
<1>1. kept \in Entries /\ Seen(k)[kept] \in CanHold(kept)
  BY SeenTypes, NamesDiffer
<1>2. PICK n \in Inodes : Seen(k)[kept] = Inode(n)
  BY <1>1, HoldKinds
<1>3. Seen(k)[BytesOf(n)] \in Staged \cup {Torn}
  BY <1>2, SeenTypes
<1>4. ~(kept = InHome /\ Seen(k)[HomeName] = Gone) /\ Inode(n).kind # "absent" /\ Inode(n).inode = n
  BY <1>2, EntriesDiffer DEF Homed
<1>5. \A set \in Staged : set # None
  <2>1. ASSUME NEW set \in Staged PROVE 1 \in DOMAIN set
    BY <2>1, StagedOps
  <2>2. DOMAIN None = {}
    BY DEF None
  <2> QED
    BY <2>1, <2>2
<1>6. Garbled # None
  BY DEF Garbled, None
<1> QED
  BY <1>2, <1>3, <1>4, <1>5, <1>6 DEF JournalIn

LEMMA IntentCommits ==
  ASSUME DurableInv, IntentInv, HasRoom, kept' = kept, Course', Commits
  PROVE  IntentInv'
<1>1. /\ pc = "commit" /\ pc' = "exec" /\ ops' = ops /\ begun' = begun
      /\ disk' = Committed(disk)
  BY DEF Commits, Commit, budget
<1>2. /\ DiskInv(disk) /\ JournalIn(Seen(disk)) = journal /\ kept \in JournalNames /\ ops \in Staged
      /\ Placed(disk) /\ Homed(disk) /\ journal = None /\ begun \in Nat /\ begun # 0
  BY <1>1 DEF DurableInv, Does, Standing, IntentInv, Course
<1>3. \A pool \in {Pool, HomePool} : Unknown(disk, pool) # {}
  BY RoomHas
<1>4. Housed(disk', disk)
  BY <1>1, <1>2, <1>3, CommitHoused
<1>5. ASSUME ~HomeAdrift' PROVE Firm(disk', ops)
  <2>1. Seen(disk)[kept].kind # "file"
    BY <1>2, NoneIsGone
  <2>2. kept = InHome => disk.ordered \/ WritersOf(disk, HomeName) = {}
    <3>1. kept = InHome => disk.ordered \/ ~(begun > 1)
      BY <1>1, <1>4, <1>5 DEF HomeAdrift, Housed
    <3>2. ~(begun > 1) => begun = 1
      BY <1>2
    <3> QED
      BY <1>1, <3>1, <3>2 DEF IntentInv, Early
  <2>3. Firm(Committed(disk), ops)
    BY <1>2, <1>3, <2>1, <2>2, CommitFirms
  <2> QED
    BY <1>1, <2>3
<1>6. ~HomeAdrift' => Firm(disk, ops)'
  BY <1>1, <1>5 DEF Firm, Rests
<1>7. Placed(disk)' /\ Homed(disk)' /\ ~Early'
  BY <1>1, <1>2, <1>4 DEF Housed, Placed, Homed, Early
<1> QED
  BY <1>6, <1>7 DEF IntentInv

LEMMA IntentRuns ==
  ASSUME DurableInv, IntentInv, Runs
  PROVE  IntentInv'
<1>1. HasRoom /\ kept' = kept /\ kept \in JournalNames /\ DiskInv(disk) /\ Placed(disk) /\ Homed(disk)
      /\ begun \in Nat /\ Course /\ ops' = ops'
  BY DEF Runs, DurableInv, Standing, Does, IntentInv, Course
<1>2. Next
  BY RunsNext
<1>3. Course'
  <2>1. tree \in Trees
    BY DoesTypes DEF DurableInv
  <2> QED
    BY <1>1, <1>2, <2>1, CourseStep DEF DurableInv
<1>4. CASE Sparing \/ AsideStep
  <2>1. ~Commit
    BY <1>4 DEF Sparing, AsideStep, Commit, Begins, Apply, ApplyRefused, Passes, ExecFails, Unwound,
                RetireFails, RecoveryFails, Recover, RunsLone, RunLone, LeavesLone, LoneFails,
                CertifiesLone, CertifyLone, LandsOp, Land, LandRename, AtLanding, AtOp, LeavesOp,
                LandFails, Certifies, Certify, Unwinds, Unwind, LeavesUnwind, UnwindFails, Aborts,
                Abort, FlushesAbort, AbortFlush, ReplaysOp, Replay, LeavesReplay, ReplayFails, Dies,
                MovesItAside, MoveAside, RetiresAside, RetireAside, Sweeps, Sweep
  <2>2. Steady(disk', disk)
    BY <1>1, <1>4, SparingSpares, SparesSteady, AsideSteady
  <2> QED
    BY <1>1, <1>2, <1>3, <2>1, <2>2, OnwardStep, SteadyIntent
<1>5. CASE Commits
  BY <1>1, <1>3, <1>5, IntentCommits
<1>6. CASE LeavesCommit \/ (Dies /\ pc = "commit")
  <2>1. /\ pc = "commit" /\ pc' = "idle" /\ begun' = begun /\ begun # 0
        /\ disk' \in CommitLeft(disk)
    BY <1>1, <1>6 DEF LeavesCommit, CommitFails, Dies, Crash, Return, Course, AtLanding, AtOp
  <2>2. Housed(disk', disk)
    BY <1>1, <2>1, RoomHas, CommitHoused
  <2> QED
    BY <1>1, <1>3, <2>1, <2>2, HousedIntent DEF Early, Applying
<1>7. CASE RetiresJournal \/ (Aborts /\ pc' = "abortflush")
  <2>1. /\ pc \in {"retire", "abort"} /\ pc' \in {"idle", "abortflush"} /\ begun' = begun /\ begun # 0
        /\ disk' = Aborted(disk) \/ \E debts : disk' = Retired(disk, debts)
    BY <1>1, <1>7 DEF RetiresJournal, RetireJournal, Aborts, Abort, Return, Course, budget
  <2>2. Housed(disk', disk)
    BY <1>1, <2>1, RetireHoused
  <2> QED
    BY <1>1, <1>3, <2>1, <2>2, HousedIntent DEF Early, Applying
<1>8. CASE SettlesRecovery
  <2>1. /\ pc' = "idle" /\ begun' = begun /\ \E debts : disk' = Retired(disk, debts)
    BY <1>8 DEF SettlesRecovery, SettleRecovery, Return, budget
  <2>2. Housed(disk', disk)
    BY <1>1, <2>1, RetireHoused
  <2>3. Early' => WritersOf(disk', HomeName) = {}
    <3>1. Early' => WritersOf(disk, HomeName) = {}
      BY <2>1 DEF Early, IntentInv
    <3> QED
      BY <1>1, <2>1, <3>1, RetireQuiet
  <2> QED
    BY <1>1, <1>3, <2>1, <2>2, <2>3, HousedIntent DEF Applying
<1> QED
  BY <1>4, <1>5, <1>6, <1>7, <1>8 DEF Runs, Sparing, AsideStep

LEMMA IntentCut ==
  ASSUME DurableInv, IntentInv, PowerCut
  PROVE  IntentInv'
<1>1. /\ DiskInv(disk) /\ kept \in JournalNames /\ kept' = kept /\ begun' = begun /\ Return("crashed")
      /\ disk.grade = "Durable"
  BY DEF DurableInv, Does, Standing, PowerCut, IntentInv, Placed
<1>2. PICK s \in Survivors(disk) : disk' = Clean(WithoutHome(s), disk.ordered, "Durable")
  BY <1>1 DEF PowerCut
<1> DEFINE r == WithoutHome(s)
<1>3. DiskInv(Clean(r, disk.ordered, "Durable"))
  BY <1>1, CutDoes DEF Does
<1>4. r[HomeName] = Gone => r[InHome] = Gone
  <2>1. DOMAIN r = Entries \cup Parts
    BY <1>3 DEF DiskInv, Typed, Clean
  <2>2. DOMAIN r = DOMAIN s
    BY DEF WithoutHome
  <2>3. InHome \in DOMAIN s /\ InHome # HomeName
    BY <2>1, <2>2, NamesDiffer
  <2> QED
    BY <2>3 DEF WithoutHome
<1> HIDE DEF r
<1>5. /\ Placed(disk') /\ Homed(disk') /\ \A l : WritersOf(disk', l) = {}
  BY <1>2, <1>3, <1>4, CleanHoused DEF r
<1>6. Course' /\ pc' \notin Applying
  BY <1>1, CourseAtReturn DEF IntentInv, Return, Applying
<1>7. Placed(disk)' /\ Homed(disk)' /\ (WritersOf(disk, HomeName) = {})'
  BY <1>5 DEF Placed, Homed
<1> QED
  BY <1>6, <1>7 DEF IntentInv

LEMMA IntentStep ==
  ASSUME DurableInv, IntentInv, [DurableNext]_dvars
  PROVE  IntentInv'
<1>1. CASE Runs
  BY <1>1, IntentRuns
<1>2. CASE PowerCut
  BY <1>2, IntentCut
<1>3. CASE UNCHANGED dvars
  BY <1>3 DEF dvars, vars, budget, IntentInv, Course, Undoes, MovedBy, Swept, Placed, Homed, Early, Firm,
              HomeAdrift, Rests, WritersOf, Writers, Applying
<1> QED
  BY <1>1, <1>2, <1>3 DEF DurableNext

\* What lasts is what every cut leaves.
LEMMA RestSurvives ==
  ASSUME NEW k, DiskInv(k), NEW s \in Survivors(k), NEW l \in Entries \cup Parts, NEW v, Rests(k, l, v),
         l \in Entries \/ \E n \in Inodes : l = BytesOf(n)
  PROVE  s[l] = v
<1>1. PICK S, T : Possible(k, S, T) /\ s = Outcome(k, S, T)
  BY SurvivorsAre
<1>2. S \in SUBSET DOMAIN k.log /\ T \in SUBSET DOMAIN k.log
  BY <1>1, PossibleFacts
<1>3. Sound(k) /\ l \in DOMAIN k.store
  BY DEF DiskInv, Typed
<1>4. l \in DOMAIN Landed(k, S) /\ Landed(k, S)[l] = v
  BY <1>2, <1>3, LandedIsValue DEF Rests
<1>5. ~\E n \in T : l \in DOMAIN k.log[n].puts
  BY <1>2 DEF Rests, WritersOf, Writers
<1> QED
  BY <1>1, <1>4, <1>5, OutcomeAt

LEMMA FirmSurvives ==
  ASSUME NEW k, DiskInv(k), kept \in JournalNames, NEW set \in Staged, Firm(k, set),
         NEW s \in Survivors(k)
  PROVE  JournalIn(s) = set
<1>1. PICK n \in Inodes :
        /\ Rests(k, kept, Inode(n))
        /\ Rests(k, BytesOf(n), set)
        /\ kept = InHome => Rests(k, HomeName, Subdir)
  BY DEF Firm
<1>2. kept \in Entries /\ HomeName \in Entries /\ BytesOf(n) \in Parts
  BY NamesDiffer, PartsDiffer
<1>3. s[kept] = Inode(n) /\ s[BytesOf(n)] = set /\ (kept = InHome => s[HomeName] = Subdir)
  BY <1>1, <1>2, RestSurvives
<1>4. set # Torn /\ Subdir # Gone
  BY StoreAssumption, EntriesDiffer
<1> QED
  BY <1>3, <1>4, EntriesDiffer DEF JournalIn

THEOREM IntentAlwaysInv == DurableSpec => [](DurableInv /\ IntentInv)
<1>1. DurableInit => DurableInv /\ IntentInv
  BY DurableBegins, IntentBegins
<1>2. (DurableInv /\ IntentInv) /\ [DurableNext]_dvars => (DurableInv /\ IntentInv)'
  BY DurableStep, IntentStep
<1> QED
  BY <1>1, <1>2, PTL DEF DurableSpec

\* Once commit has returned, no power cut can lose the journal or tear it, however
\* the tree's own writes are reordered or lost, until a retirement or a clean
\* rollback gives it up: apply may change the tree from there on.
THEOREM IntentAlwaysSurvives == DurableSpec => []IntentSurvives
<1>1. DurableInv /\ IntentInv => IntentSurvives
  <2> SUFFICES ASSUME DurableInv, IntentInv, pc \in Applying, ~HomeAdrift, NEW s \in Survivors(disk)
               PROVE  JournalIn(s) = ops
    BY DEF IntentSurvives, Applying, Cuts
  <2>1. DiskInv(disk) /\ kept \in JournalNames /\ ops \in Staged /\ Firm(disk, ops)
    BY DEF DurableInv, Does, Standing, IntentInv, Applying
  <2> QED
    BY <2>1, FirmSurvives
<1> QED
  BY <1>1, IntentAlwaysInv, PTL

\* A rollback has answered, and its journal is gone for good.
Answered ==
  answer = "rolledback" =>
    /\ pc = "idle" /\ Rests(disk, kept, Gone)

\* Only a rollback answers so, and every call after it answers anew.
LEMMA RollbackAnswers ==
  ASSUME Next, answer = "rolledback" => pc = "idle", answer' = "rolledback"
  PROVE  AbortFlush /\ pc' = "idle"
<1>1. CASE answer' = answer
  <2>1. pc = "idle"
    BY <1>1
  <2> QED
    BY <1>1, <2>1 DEF Next, Call, Proceed, Apply, ApplyRefused, RunLone, LoneFails, CertifyLone,
         CommitFails, Commit, MoveAside, Land, LandRename, ExecFails, LandFails, AtLanding, AtOp,
         Certify, RetireAside, RetireJournal, RetireFails, Unwind, UnwindFails, Unwound, Abort,
         AbortFlush, Replay, ReplayFails, Sweep, SettleRecovery, RecoveryFails, Recover, Crash
<1>2. CASE answer' # answer
  BY <1>2 DEF Next, Call, Proceed, Apply, ApplyRefused, RunLone, LoneFails, CertifyLone,
         CommitFails, Commit, MoveAside, Land, LandRename, ExecFails, LandFails,
         Certify, RetireAside, RetireJournal, RetireFails, Unwind, UnwindFails, Unwound, Abort,
         AbortFlush, Replay, ReplayFails, Sweep, SettleRecovery, RecoveryFails, Recover, Crash,
         Return
<1> QED
  BY <1>1, <1>2

LEMMA AnsweredStep ==
  ASSUME DurableInv, IntentInv, Answered, [DurableNext]_dvars
  PROVE  Answered'
<1>1. CASE UNCHANGED dvars
  BY <1>1 DEF dvars, vars, Answered, Rests, WritersOf, Writers, Values
<1>2. CASE PowerCut
  BY <1>2 DEF PowerCut, Return, Answered
<1>3. ASSUME Runs, answer' = "rolledback" PROVE pc' = "idle" /\ Rests(disk', kept, Gone)
  <2>1. AbortFlush /\ pc' = "idle"
    BY <1>3, RunsNext, RollbackAnswers DEF Answered
  <2>2. pc = "abortflush"
    BY <2>1 DEF AbortFlush
  <2>3. disk' = Sync(disk, DirOf(kept), "Durable")
    BY <1>3, <2>2 DEF Runs, Begins, Apply, ApplyRefused, Passes, ExecFails, Unwound, RetireFails,
         RecoveryFails, Recover, RunsLone, RunLone, LeavesLone, LoneFails, CertifiesLone, CertifyLone,
         Commits, Commit, LeavesCommit, CommitFails, MovesItAside, MoveAside, LandsOp, Land, LandRename,
         AtLanding, AtOp, LeavesOp, LandFails, Certifies, Certify, RetiresAside, RetireAside,
         RetiresJournal, RetireJournal, Unwinds, Unwind, LeavesUnwind, UnwindFails, Aborts, Abort,
         FlushesAbort, AbortFlush, ReplaysOp, Replay, LeavesReplay, ReplayFails, Sweeps, Sweep,
         SettlesRecovery, SettleRecovery, Dies, Crash, Return
  <2>4. /\ DiskInv(disk) /\ JournalIn(Seen(disk)) = None /\ kept \in JournalNames
        /\ Placed(disk) /\ Homed(disk) /\ Sound(disk) /\ disk.grade = "Durable"
    BY <2>2 DEF DurableInv, Does, Standing, IntentInv, Course, Placed, DiskInv, Typed
  <2>5. Seen(disk)[kept] = Gone
    <3>1. Seen(disk)[kept].kind # "file" /\ Seen(disk)[kept] \in CanHold(kept) /\ kept \in Entries
      BY <2>4, NoneIsGone, SeenTypes, NamesDiffer
    <3> QED
      BY <2>4, <3>1, HoldKinds, NamesDiffer
  <2>6. Rests(Sync(disk, DirOf(kept), "Durable"), kept, Seen(disk)[kept])
    <3>1. kept \in Watched /\ kept \in DOMAIN disk.store
      BY <2>4, WatchedAre DEF DiskInv, Typed
    <3>2. \A q \in WritersOf(disk, kept) :
            disk.log[q].owed \subseteq {DirOf(kept)} /\ disk.log[q].device = Device(DirOf(kept))
      BY <2>4, <3>1 DEF Placed
    <3> QED
      BY <2>4, <3>1, <3>2, SyncSettles
  <2> QED
    BY <2>1, <2>3, <2>5, <2>6
<1>4. CASE Runs
  <2>1. kept' = kept
    BY <1>4 DEF Runs
  <2> QED
    BY <1>3, <1>4, <2>1 DEF Answered, Rests
<1> QED
  BY <1>1, <1>2, <1>4 DEF DurableNext

THEOREM AbortIsFinal == DurableSpec => []NoResurrection
<1>1. DurableInit => Answered
  BY DEF DurableInit, Init, Answered
<1>2. (DurableInv /\ IntentInv) /\ Answered /\ [DurableNext]_dvars => Answered'
  BY AnsweredStep
<1>3. (DurableInv /\ IntentInv) /\ Answered => NoResurrection
  <2> SUFFICES ASSUME DurableInv, Answered, answer = "rolledback", NEW s \in Survivors(disk)
               PROVE  JournalIn(s) = None
    BY DEF NoResurrection, Cuts
  <2>1. DiskInv(disk) /\ kept \in Entries /\ Rests(disk, kept, Gone)
    BY NamesDiffer DEF DurableInv, Does, Standing, Answered
  <2>2. s[kept] = Gone
    BY <2>1, RestSurvives
  <2> QED
    BY <2>2, EntriesDiffer DEF JournalIn
<1> QED
  BY <1>1, <1>2, <1>3, IntentAlwaysInv, PTL DEF DurableSpec

-----------------------------------------------------------------------------
(* What a cut may bring back of the asides.                                  *)

\* The asides a cut may find in use, or whose going is not certain to last.
Trail(k) == {a \in Aside : ~Rests(k, a, Gone)}

\* Whatever has landed, an aside in use has with it the journal, whole, that a
\* recovery would clear it for.
BackedIn(k, s, a) ==
  \E set \in Staged, n \in Inodes :
    /\ a \in Swept(set)
    /\ Rests(k, BytesOf(n), set)
    /\ s[kept] = Inode(n)
    /\ kept = InHome => s[HomeName] # Gone

Backed(k) ==
  \A S \in Closures(k) : \A a \in Aside :
    Landed(k, S)[a] # Gone => BackedIn(k, Landed(k, S), a)

\* Only the asides of X are owed a flush.
Owing(k, X) == \A a \in Aside \ X : \A q \in WritersOf(k, a) : k.log[q].owed = {}

\* What a journal asks to be swept.
SweptNow == IF journal \in Staged THEN Swept(journal) ELSE {}

TrailInv ==
  ~HomeAdrift =>
    /\ AsidesAccounted
    /\ Backed(disk)
    /\ Owing(disk, SweptNow)
    /\ (kept = InHome /\ journal \notin Staged) => Trail(disk) = {}
    /\ pc \in Applying => Trail(disk) \subseteq Displacements

LEMMA AsideStored ==
  ASSUME NEW k, Based(k)
  PROVE  /\ Sound(k) /\ Aside \subseteq DOMAIN k.store /\ HomeName \in DOMAIN k.store
         /\ kept \in JournalNames => kept \in DOMAIN k.store
  BY WatchedAre DEF Based

LEMMA ClosuresAre ==
  ASSUME NEW k, NEW S \in Closures(k)
  PROVE  S \in SUBSET DOMAIN k.log
  BY DEF Closures

\* Without a trail nothing is there to be backed.
LEMMA NoTrail ==
  ASSUME NEW k, Based(k), Trail(k) = {}
  PROVE  Backed(k) /\ \A X : Owing(k, X)
<1>1. \A a \in Aside : Rests(k, a, Gone)
  BY DEF Trail
<1>2. ASSUME NEW S \in Closures(k), NEW a \in Aside PROVE Landed(k, S)[a] = Gone
  BY <1>1, AsideStored, ClosuresAre, RestLands DEF Rests
<1> QED
  BY <1>1, <1>2 DEF Backed, Owing, Rests

LEMMA EasedTrail ==
  ASSUME NEW k, NEW h, Eased(h, k)
  PROVE  /\ Trail(h) \subseteq Trail(k)
         /\ \A X : Owing(k, X) => Owing(h, X)
<1>1. Trail(h) \subseteq Trail(k)
  BY RestStays DEF Eased, Trail
<1>2. ASSUME NEW X, Owing(k, X) PROVE Owing(h, X)
  <2>1. SUFFICES ASSUME NEW a \in Aside \ X, NEW q \in WritersOf(h, a) PROVE h.log[q].owed = {}
    BY DEF Owing
  <2>2. q \in WritersOf(k, a) /\ h.log[q].owed \subseteq k.log[q].owed
    BY <2>1 DEF Eased, Eases
  <2> QED
    BY <1>2, <2>1, <2>2 DEF Owing
<1> QED
  BY <1>1, <1>2

LEMMA SparesBacked ==
  ASSUME NEW k, NEW h, Spares(h, k), kept \in JournalNames, Backed(k)
  PROVE  Backed(h)
<1> SUFFICES ASSUME NEW S \in Closures(h), NEW a \in Aside, Landed(h, S)[a] # Gone
             PROVE  BackedIn(h, Landed(h, S), a)
  BY DEF Backed
<1>1. PICK R \in Closures(k) : \A l \in Watched : Landed(h, S)[l] = Landed(k, R)[l]
  BY DEF Spares, Alike
<1>2. {a, kept, HomeName} \subseteq Watched
  BY WatchedAre
<1>3. Landed(k, R)[a] # Gone
  BY <1>1, <1>2
<1>4. PICK set \in Staged, n \in Inodes :
        /\ a \in Swept(set) /\ Rests(k, BytesOf(n), set)
        /\ Landed(k, R)[kept] = Inode(n)
        /\ kept = InHome => Landed(k, R)[HomeName] # Gone
  BY <1>3 DEF Backed, BackedIn
<1>5. Landed(h, S)[kept] = Inode(n) /\ (kept = InHome => Landed(h, S)[HomeName] # Gone)
  BY <1>1, <1>2, <1>4
<1>6. Inode(n) \in Values(h, kept)
  <2>1. Based(h)
    BY DEF Spares
  <2>2. Landed(h, S)[kept] \in Values(h, kept)
    BY <2>1, AsideStored, ClosuresAre, LandedIsValue
  <2> QED
    BY <1>5, <2>2
<1>7. Rests(h, BytesOf(n), set)
  BY <1>4, <1>6, RestStays DEF Spares, Claimed
<1> QED
  BY <1>4, <1>5, <1>7 DEF BackedIn

\* A firm journal backs every aside it asks to be swept.
LEMMA FirmBacks ==
  ASSUME NEW k, Based(k), kept \in JournalNames, NEW set \in Staged, Firm(k, set),
         Trail(k) \subseteq Swept(set)
  PROVE  Backed(k) /\ Owing(k, Swept(set))
<1>1. PICK n \in Inodes :
        /\ Rests(k, kept, Inode(n)) /\ Rests(k, BytesOf(n), set)
        /\ kept = InHome => Rests(k, HomeName, Subdir)
  BY DEF Firm
<1>2. ASSUME NEW S \in Closures(k), NEW a \in Aside, Landed(k, S)[a] # Gone
      PROVE  BackedIn(k, Landed(k, S), a)
  <2>1. a \in Trail(k)
    BY <1>2, AsideStored, ClosuresAre, RestLands DEF Trail, Rests
  <2>2. Landed(k, S)[kept] = Inode(n) /\ (kept = InHome => Landed(k, S)[HomeName] = Subdir)
    BY <1>1, <1>2, AsideStored, ClosuresAre, RestLands DEF Rests
  <2>3. Subdir # Gone
    BY EntriesDiffer
  <2> QED
    BY <1>1, <2>1, <2>2, <2>3 DEF BackedIn
<1>3. \A a \in Aside \ Swept(set) : WritersOf(k, a) = {}
  BY DEF Trail, Rests
<1> QED
  BY <1>2, <1>3 DEF Backed, Owing

-----------------------------------------------------------------------------
(* One write at a time.                                                      *)

\* A cut of h is one of k, and what the new write says where it has landed.
LEMMA AddedCut ==
  ASSUME NEW k, Based(k), NEW h, NEW puts, Added(h, k, puts), NEW S \in Closures(h),
         NEW R, R = S \ {NextWrite(k)}
  PROVE  /\ R \in Closures(k)
         /\ NextWrite(k) \in S => \A l \in DOMAIN puts : WritersOf(k, l) \subseteq R
         /\ \A l \in DOMAIN k.store :
              Landed(h, S)[l] = IF NextWrite(k) \in S /\ l \in DOMAIN puts
                                THEN puts[l] ELSE Landed(k, R)[l]
<1>1. Sound(k) /\ NextWrite(k) \notin DOMAIN k.log
  BY DEF Based, Added
<1>2. S \in SUBSET DOMAIN h.log /\ R \in Closures(k)
  BY <1>1, AddedClosures
<1>3. NextWrite(k) \in S => \A l \in DOMAIN puts : WritersOf(k, l) \subseteq R
  <2>1. \A l : NextWrite(k) \notin WritersOf(k, l)
    BY <1>1 DEF WritersOf, Writers
  <2> QED
    BY <1>1, <2>1, AddedClosures
<1>4. ASSUME NEW l \in DOMAIN k.store
      PROVE  Landed(h, S)[l] = IF NextWrite(k) \in S /\ l \in DOMAIN puts
                               THEN puts[l] ELSE Landed(k, R)[l]
  <2>1. l \in DOMAIN Landed(k, R)
    BY <1>1, <1>2, ClosuresAre, LandedIsValue
  <2> QED
    BY <1>1, <1>2, <2>1, AddedLands
<1> QED
  BY <1>2, <1>3, <1>4

\* An aside given up, or a write to an inode that is no standing journal's.
LEMMA AddedBacks ==
  ASSUME NEW k, Based(k), kept \in JournalNames, Backed(k), NEW h, NEW puts, Added(h, k, puts),
         \A a \in Aside : a \in DOMAIN puts => puts[a] = Gone,
         {kept, HomeName} \cap DOMAIN puts = {},
         \A n \in Inodes, set \in Staged :
           Rests(k, BytesOf(n), set) => BytesOf(n) \notin DOMAIN puts
  PROVE  Backed(h)
<1> SUFFICES ASSUME NEW S \in Closures(h), NEW a \in Aside, Landed(h, S)[a] # Gone
             PROVE  BackedIn(h, Landed(h, S), a)
  BY DEF Backed
<1> DEFINE R == S \ {NextWrite(k)}
<1>1. R \in Closures(k)
  BY AddedCut
<1>2. /\ Landed(k, R)[a] # Gone
      /\ Landed(h, S)[kept] = Landed(k, R)[kept]
      /\ Landed(h, S)[HomeName] = Landed(k, R)[HomeName]
  BY AddedCut, AsideStored
<1> HIDE DEF R
<1>3. PICK set \in Staged, n \in Inodes :
        /\ a \in Swept(set) /\ Rests(k, BytesOf(n), set)
        /\ Landed(k, R)[kept] = Inode(n)
        /\ kept = InHome => Landed(k, R)[HomeName] # Gone
  BY <1>1, <1>2 DEF Backed, BackedIn
<1>4. Rests(h, BytesOf(n), set)
  BY <1>3, AsideStored, AddedAlike, RestStays
<1> QED
  BY <1>2, <1>3, <1>4 DEF BackedIn

\* The journal's name written where none is.
LEMMA KeptBacks ==
  ASSUME NEW k, Based(k), kept \in JournalNames, Backed(k), Seen(k)[kept] = Gone, NEW v
  PROVE  Backed(Enter(k, At(kept, v)))
<1> DEFINE h == Enter(k, At(kept, v))
<1>1. Added(h, k, At(kept, v)) /\ DOMAIN At(kept, v) = {kept}
  BY AsideStored, IssuedAdds, OnePut DEF Enter
<1> HIDE DEF h
<1>2. SUFFICES ASSUME NEW S \in Closures(h), NEW a \in Aside, Landed(h, S)[a] # Gone
               PROVE  BackedIn(h, Landed(h, S), a)
  BY DEF Backed, h
<1> DEFINE R == S \ {NextWrite(k)}
<1>3. /\ R \in Closures(k)
      /\ Landed(k, R)[a] # Gone
      /\ NextWrite(k) \in S => WritersOf(k, kept) \subseteq R
      /\ NextWrite(k) \notin S => /\ Landed(h, S)[kept] = Landed(k, R)[kept]
                                  /\ Landed(h, S)[HomeName] = Landed(k, R)[HomeName]
  <2>1. /\ R \in Closures(k)
        /\ NextWrite(k) \in S => \A l \in {kept} : WritersOf(k, l) \subseteq R
        /\ \A l \in DOMAIN k.store \ {kept} : Landed(h, S)[l] = Landed(k, R)[l]
        /\ NextWrite(k) \notin S => \A l \in DOMAIN k.store : Landed(h, S)[l] = Landed(k, R)[l]
    BY <1>1, AddedCut
  <2>2. /\ {a, kept, HomeName} \subseteq DOMAIN k.store /\ a # kept
    BY AsideStored, WatchedAre
  <2> HIDE DEF R
  <2> QED
    BY <1>2, <2>1, <2>2
<1> HIDE DEF R
<1>4. PICK set \in Staged, n \in Inodes :
        /\ a \in Swept(set) /\ Rests(k, BytesOf(n), set)
        /\ Landed(k, R)[kept] = Inode(n)
        /\ kept = InHome => Landed(k, R)[HomeName] # Gone
  BY <1>3 DEF Backed, BackedIn
<1>5. NextWrite(k) \notin S
  <2> SUFFICES ASSUME NextWrite(k) \in S PROVE FALSE
    OBVIOUS
  <2>1. Landed(k, R)[kept] = Gone
    BY <1>3, AsideStored, ClosuresAre, LandedIsValue
  <2> QED
    BY <1>4, <2>1, EntriesDiffer
<1>6. Rests(h, BytesOf(n), set)
  <2>1. BytesOf(n) \notin DOMAIN At(kept, v)
    BY <1>1, PartsDiffer, NamesDiffer
  <2> QED
    BY <1>1, <1>4, <2>1, AsideStored, AddedAlike, RestStays
<1> QED
  BY <1>3, <1>4, <1>5, <1>6 DEF BackedIn

\* The journal's name given up, by a write that lands after all of the asides'.
LEMMA UnkeptBacks ==
  ASSUME NEW k, Based(k), kept \in JournalNames, Backed(k), NEW v,
         \A a \in Aside : Seen(k)[a] = Gone,
         \A a \in Aside : \A q \in WritersOf(k, a) :
           k.log[q].bound /\ k.log[q].device = Device(DirOf(kept))
  PROVE  Backed(Enter(k, At(kept, v)))
<1> DEFINE h == Enter(k, At(kept, v))
<1>1. Added(h, k, At(kept, v)) /\ DOMAIN At(kept, v) = {kept}
  BY AsideStored, IssuedAdds, OnePut DEF Enter
<1>2. h.log[NextWrite(k)].after = Preceding(k, {DirOf(kept)}, At(kept, v))
  <2>1. Issued(h, k, {DirOf(kept)}, At(kept, v))
    BY <1>1, AsideStored, EnterIs
  <2> QED
    BY <2>1 DEF Issued
<1>3. \A a \in Aside : WritersOf(k, a) \subseteq h.log[NextWrite(k)].after
  BY <1>2, OneDevice DEF Preceding, Earlier, WritersOf, Writers
<1> HIDE DEF h
<1>4. SUFFICES ASSUME NEW S \in Closures(h), NEW a \in Aside, Landed(h, S)[a] # Gone
               PROVE  BackedIn(h, Landed(h, S), a)
  BY DEF Backed, h
<1> DEFINE R == S \ {NextWrite(k)}
<1>5. /\ R \in Closures(k)
      /\ Landed(k, R)[a] # Gone
      /\ NextWrite(k) \notin S => /\ Landed(h, S)[kept] = Landed(k, R)[kept]
                                  /\ Landed(h, S)[HomeName] = Landed(k, R)[HomeName]
  <2>1. /\ R \in Closures(k)
        /\ \A l \in DOMAIN k.store \ {kept} : Landed(h, S)[l] = Landed(k, R)[l]
        /\ NextWrite(k) \notin S => \A l \in DOMAIN k.store : Landed(h, S)[l] = Landed(k, R)[l]
    BY <1>1, AddedCut
  <2>2. /\ {a, kept, HomeName} \subseteq DOMAIN k.store /\ a # kept
    BY AsideStored, WatchedAre
  <2> HIDE DEF R
  <2> QED
    BY <1>4, <2>1, <2>2
<1>6. NextWrite(k) \notin S
  <2> SUFFICES ASSUME NextWrite(k) \in S PROVE FALSE
    OBVIOUS
  <2>1. WritersOf(k, a) \subseteq R
    <3>1. NextWrite(k) \notin WritersOf(k, a)
      BY <1>1 DEF Added, WritersOf, Writers
    <3> QED
      BY <1>3, <3>1 DEF Closures
  <2>2. Landed(k, R)[a] = Seen(k)[a]
    BY <1>5, <2>1, AsideStored, ClosuresAre, LandedIsValue
  <2> QED
    BY <1>5, <2>2
<1> HIDE DEF R
<1>7. PICK set \in Staged, n \in Inodes :
        /\ a \in Swept(set) /\ Rests(k, BytesOf(n), set)
        /\ Landed(k, R)[kept] = Inode(n)
        /\ kept = InHome => Landed(k, R)[HomeName] # Gone
  BY <1>5 DEF Backed, BackedIn
<1>8. Rests(h, BytesOf(n), set)
  <2>1. BytesOf(n) \notin DOMAIN At(kept, v)
    BY <1>1, PartsDiffer, NamesDiffer
  <2> QED
    BY <1>1, <1>7, <2>1, AsideStored, AddedAlike, RestStays
<1> QED
  BY <1>5, <1>6, <1>7, <1>8 DEF BackedIn

LEMMA UnlinkBacks ==
  ASSUME NEW k, Based(k), kept \in JournalNames, Backed(k), NEW a \in Aside
  PROVE  /\ Backed(Unlinked(k, a))
         /\ \A X : (a \in X /\ Owing(k, X)) => Owing(Unlinked(k, a), X)
<1> DEFINE h == Unlinked(k, a)
<1>1. Added(h, k, At(a, Gone)) /\ DOMAIN At(a, Gone) = {a} /\ At(a, Gone)[a] = Gone
  BY AsideStored, IssuedAdds, OnePut DEF Enter, Unlinked
<1> HIDE DEF h
<1>2. Backed(h)
  <2>1. a \notin JournalNames /\ a # HomeName /\ a \in Entries
    BY WatchedAre
  <2>2. \A n \in Inodes : BytesOf(n) \notin DOMAIN At(a, Gone)
    BY <1>1, <2>1, PartsDiffer
  <2> QED
    BY <1>1, <2>1, <2>2, AddedBacks
<1>3. ASSUME NEW X, a \in X, Owing(k, X) PROVE Owing(h, X)
  <2>1. ASSUME NEW b \in Aside \ X, NEW q \in WritersOf(h, b) PROVE h.log[q].owed = {}
    <3>1. b \notin DOMAIN At(a, Gone)
      BY <1>1, <1>3, <2>1
    <3>2. q \in WritersOf(k, b)
      BY <1>1, <2>1, <3>1, AddedValues
    <3>3. h.log[q] = k.log[q]
      BY <1>1, <3>2 DEF Added, WritersOf, Writers
    <3> QED
      BY <1>3, <3>2, <3>3 DEF Owing
  <2> QED
    BY <2>1 DEF Owing
<1> QED
  BY <1>2, <1>3 DEF h

LEMMA SameEased ==
  ASSUME NEW k, Based(k)
  PROVE  Eased(k, k)
  BY DEF Eased, Eases

LEMMA HomeEased ==
  ASSUME NEW k, Based(k)
  PROVE  /\ Eased(WithHome(k), k)
         /\ Eased(Enter(k, At(HomeName, Subdir)), k)
<1> DEFINE e == Enter(k, At(HomeName, Subdir))
           f == Sync(e, Home, "Durable")
           g == Sync(f, Attic, "Durable")
<1>1. Eased(e, k)
  <2>1. Added(e, k, At(HomeName, Subdir)) /\ DOMAIN At(HomeName, Subdir) = {HomeName}
    BY AsideStored, IssuedAdds, OnePut DEF Enter
  <2> HIDE DEF e
  <2>2. Aside \cap DOMAIN At(HomeName, Subdir) = {}
    BY <2>1, WatchedAre
  <2> QED
    BY <2>1, <2>2, AddedEased
<1> HIDE DEF e
<1>2. Eased(f, e)
  BY <1>1, SyncSpares, SparesEased DEF Eased
<1> HIDE DEF f
<1>3. Eased(g, f)
  BY <1>2, SyncSpares, SparesEased DEF Eased
<1> HIDE DEF g
<1>4. Eased(g, k)
  BY <1>1, <1>2, <1>3, EasedTwice
<1>5. WithHome(k) = g \/ WithHome(k) = k
  BY DEF WithHome, g, f, e
<1> QED
  BY <1>1, <1>4, <1>5, SameEased DEF e

LEMMA PublishEased ==
  ASSUME NEW k, DiskInv(k), Placed(k), Homed(k), kept \in JournalNames,
         \A pool \in {Pool, HomePool} : Unknown(k, pool) # {}
  PROVE  /\ Rooted(Published(WithHome(k)), WithHome(k))
         /\ Rooted(Overwritten(WithHome(k), kept, Torn, JournalPool), WithHome(k))
<1> DEFINE g == WithHome(k)
<1>1. Placed(g)
  BY HomeHoused DEF Housed
<1>2. DiskInv(g) /\ Unknown(g, JournalPool) # {}
  BY WithHomeDoes DEF JournalPool
<1> HIDE DEF g
<1>3. /\ Rooted(Replace(g, kept, ops, FALSE, JournalPool), g)
      /\ \A b : Rooted(Overwritten(g, kept, b, JournalPool), g)
  BY <1>1, <1>2, ReplaceRooted, OverwriteRooted
<1>4. Rooted(Published(g), g)
  BY <1>3 DEF Published
<1> QED
  BY <1>3, <1>4 DEF g

LEMMA CommitLeftEased ==
  ASSUME NEW k, DiskInv(k), Placed(k), Homed(k), kept \in JournalNames,
         \A pool \in {Pool, HomePool} : Unknown(k, pool) # {}, NEW h \in CommitLeft(k)
  PROVE  Eased(h, k)
<1> DEFINE g == WithHome(k)
           w == Published(g)
           t == Overwritten(g, kept, Torn, JournalPool)
<1>1. h \in {k, g, Enter(k, At(HomeName, Subdir)), w, t}
  BY DEF CommitLeft
<1>2. Eased(k, k) /\ Eased(g, k) /\ Eased(Enter(k, At(HomeName, Subdir)), k)
  BY BasedIs, SameEased, HomeEased
<1>3. Eased(w, g) /\ Eased(t, g)
  BY PublishEased DEF Rooted
<1> HIDE DEF g, w, t
<1>4. Eased(w, k) /\ Eased(t, k)
  BY <1>2, <1>3, EasedTwice
<1> QED
  BY <1>1, <1>2, <1>4

\* After a commit nothing is left of an aside of an earlier set.
LEMMA CommitClears ==
  ASSUME NEW k, DiskInv(k), Placed(k), Homed(k), kept \in JournalNames,
         \A pool \in {Pool, HomePool} : Unknown(k, pool) # {},
         \A a \in Aside : Seen(k)[a] = Gone, Owing(k, {}), kept = InHome => Trail(k) = {}
  PROVE  Trail(Committed(k)) = {}
<1> DEFINE g == WithHome(k)
           w == Published(g)
           f == IF AtomicReplace THEN w ELSE SyncFile(w, kept, "Durable")
           c == Sync(f, DirOf(kept), "Durable")
<1>1. Committed(k) = c
  BY DEF Committed
<1>2. Eased(g, k)
  BY BasedIs, HomeEased
<1>3. Rooted(w, g)
  BY PublishEased
<1> HIDE DEF g
<1>4. Eased(w, k) /\ Placed(w)
  BY <1>2, <1>3, EasedTwice DEF Rooted
<1> HIDE DEF w
<1>5. Eased(f, k) /\ Placed(f) /\ Based(f)
  <2>1. Spares(f, w)
    BY <1>4, SparesSame, FileSyncSpares DEF Eased
  <2>2. Placed(f)
    BY <1>4, <2>1, PlacedAlike DEF Spares
  <2> QED
    BY <1>4, <2>1, <2>2, SparesEased, EasedTwice DEF Eased
<1> HIDE DEF f
<1>6. CASE kept = InHome
  <2>1. Eased(c, f)
    BY <1>5, SyncSpares, SparesEased
  <2> HIDE DEF c
  <2>2. Trail(c) \subseteq Trail(k)
    BY <1>5, <2>1, EasedTwice, EasedTrail
  <2> QED
    BY <1>1, <1>6, <2>2
<1>7. CASE kept = InRoot
  <2>1. ASSUME NEW a \in Aside PROVE Rests(c, a, Gone)
    <3>1. a \in DOMAIN f.store /\ Sound(f) /\ f.grade = "Durable"
      BY <1>5, AsideStored DEF Placed
    <3>2. Device(DirOf(a)) = Device(DirOf(kept))
      BY <1>7, AsideHome, LayoutAssumption, DeviceAssumption
    <3>3. ASSUME NEW q \in WritersOf(f, a)
          PROVE  f.log[q].owed \subseteq {DirOf(kept)} /\ f.log[q].device = Device(DirOf(kept))
      <4>1. Owing(f, {})
        BY <1>5, EasedTrail
      <4>2. f.log[q].owed = {}
        BY <3>3, <4>1 DEF Owing
      <4>3. f.log[q].device = Device(DirOf(a))
        BY <1>5, <3>3, WatchedAre DEF Placed
      <4> QED
        BY <3>2, <4>2, <4>3
    <3>4. Seen(f)[a] = Gone
      BY <1>5 DEF Eased
    <3> HIDE DEF c
    <3>5. Rests(Sync(f, DirOf(kept), "Durable"), a, Seen(f)[a])
      BY <3>1, <3>3, SyncSettles
    <3> QED
      BY <3>4, <3>5 DEF c
  <2> HIDE DEF c
  <2> QED
    BY <1>1, <2>1 DEF Trail
<1> QED
  BY <1>6, <1>7 DEF JournalNames

\* A commit that failed leaves every aside backed.
LEMMA PublishBacks ==
  ASSUME NEW k, DiskInv(k), k.grade = "Durable", kept \in JournalNames, Backed(k),
         Seen(k)[kept] = Gone, Unknown(k, JournalPool) # {}, NEW b
  PROVE  /\ Backed(Replace(k, kept, b, FALSE, JournalPool))
         /\ Backed(Overwritten(k, kept, b, JournalPool))
<1> DEFINE n == Fresh(k, JournalPool)
           m == Minted(k, n)
           y == Sync(SetBytes(m, n, b), n, "Ordered")
           e == Enter(m, At(kept, Inode(n)))
           w == SetBytes(e, n, b)
<1>1. n \in Inodes /\ Free(k, n)
  <2>1. JournalPool \in SUBSET Inodes
    BY PoolsDiffer DEF JournalPool
  <2> QED
    BY <2>1, FreshIs DEF DiskInv
<1>2. Replace(k, kept, b, FALSE, JournalPool) = Enter(y, At(kept, Inode(n)))
  BY DEF Replace
<1>3. Overwritten(k, kept, b, JournalPool) = w
  BY EntriesDiffer DEF Overwritten
<1> HIDE DEF n
<1>4. Backed(Enter(y, At(kept, Inode(n))))
  <2>1. Spares(y, k)
    BY <1>1, StagedDoes
  <2> HIDE DEF y
  <2>2. Based(y) /\ Backed(y) /\ Seen(y)[kept] = Gone
    BY <2>1, SparesBacked, WatchedAre DEF Spares
  <2> QED
    BY <2>2, KeptBacks
<1>5. Backed(w)
  <2>1. Spares(m, k) /\ Values(m, BytesOf(n)) = {Torn}
    BY <1>1, BasedIs, FreeUnclaimed, MintSpares, MintDoes
  <2> HIDE DEF m
  <2>2. Based(m) /\ Backed(m) /\ Seen(m)[kept] = Gone
    BY <2>1, SparesBacked, WatchedAre DEF Spares
  <2>3. Backed(e) /\ Added(e, m, At(kept, Inode(n))) /\ DOMAIN At(kept, Inode(n)) = {kept}
    BY <2>2, KeptBacks, AsideStored, IssuedAdds, OnePut DEF Enter
  <2> HIDE DEF e
  <2>4. Based(e) /\ Values(e, BytesOf(n)) = {Torn}
    <3>1. BytesOf(n) \notin DOMAIN At(kept, Inode(n))
      BY <1>1, <2>3, PartsDiffer, NamesDiffer
    <3> QED
      BY <2>1, <2>2, <2>3, <3>1, AddedValues DEF Added, Based
  <2>5. Added(w, e, At(BytesOf(n), b)) /\ DOMAIN At(BytesOf(n), b) = {BytesOf(n)}
    BY <2>4, AsideStored, IssuedAdds, OnePut DEF SetBytes
  <2> HIDE DEF w
  <2>6. \A x \in Inodes, set \in Staged : Rests(e, BytesOf(x), set) => BytesOf(x) # BytesOf(n)
    BY <2>4, StoreAssumption DEF Rests
  <2>7. BytesOf(n) \notin Entries
    BY <1>1, PartsDiffer
  <2> QED
    BY <2>3, <2>4, <2>5, <2>6, <2>7, AddedBacks, WatchedAre
<1> QED
  BY <1>2, <1>3, <1>4, <1>5

\* The journal's name written: the asides are as they were.
LEMMA KeptEased ==
  ASSUME NEW k, Based(k), kept \in JournalNames, NEW e
  PROVE  Eased(Enter(k, At(kept, e)), k)
<1> DEFINE h == Enter(k, At(kept, e))
<1>1. Added(h, k, At(kept, e)) /\ DOMAIN At(kept, e) = {kept}
  BY AsideStored, IssuedAdds, OnePut DEF Enter
<1> HIDE DEF h
<1>2. Aside \cap DOMAIN At(kept, e) = {}
  BY <1>1, WatchedAre
<1> QED
  BY <1>1, <1>2, AddedEased DEF h

\* Before a journal goes, what is owed of the asides has been flushed.
LEMMA RetireClears ==
  ASSUME NEW k, DiskInv(k), Placed(k), kept \in JournalNames, NEW debts,
         \A a \in Aside : Seen(k)[a] = Gone,
         \A a \in Aside : \A q \in WritersOf(k, a) : k.log[q].owed \subseteq debts,
         debts = {} => Trail(k) = {}
  PROVE  Trail(Retired(k, debts)) = {}
<1> DEFINE f == FlushAll(k, debts, Root, "Durable")
           h == Enter(f, At(kept, Gone))
<1>1. Retired(k, debts) = h
  BY DEF Retired, Unlinked
<1>2. Based(k) /\ Spares(f, k)
  BY BasedIs, FlushSpares
<1>3. Trail(f) = {}
  <2>1. CASE debts = {}
    BY <1>2, <2>1, SparesEased, EasedTrail
  <2>2. CASE debts # {}
    <3>1. ASSUME NEW a \in Aside PROVE Rests(f, a, Gone)
      <4>1. a \in DOMAIN k.store /\ Sound(k) /\ k.grade = "Durable"
        BY <1>2, AsideStored DEF Placed
      <4>2. Device(DirOf(a)) = Device(Root)
        BY AsideHome, DeviceAssumption
      <4>3. \A q \in WritersOf(k, a) :
              k.log[q].owed \subseteq debts \cup {Root} /\ k.log[q].device = Device(Root)
        BY <4>2, WatchedAre DEF Placed
      <4> HIDE DEF f
      <4>4. Rests(FlushAll(k, debts, Root, "Durable"), a, Seen(k)[a])
        BY <2>2, <4>1, <4>3, FlushSettles
      <4> QED
        BY <4>4 DEF f
    <3> QED
      BY <3>1 DEF Trail
  <2> QED
    BY <2>1, <2>2
<1>4. Based(f)
  BY <1>2 DEF Spares
<1> HIDE DEF f
<1>5. Eased(h, f)
  BY <1>4, KeptEased
<1> HIDE DEF h
<1> QED
  BY <1>1, <1>3, <1>5, EasedTrail

\* A rollback gives its journal up only after what it moved back.
LEMMA AbortBacks ==
  ASSUME NEW k, DiskInv(k), Placed(k), kept \in JournalNames, NEW set \in Staged, Firm(k, set),
         \A a \in Aside : Seen(k)[a] = Gone,
         Trail(k) \subseteq Swept(set),
         \A a \in Trail(k) : DirOf(a) \in UndoDebts
  PROVE  /\ Backed(Aborted(k)) /\ Owing(Aborted(k), {})
         /\ kept = InHome => Trail(Aborted(k)) = {}
<1> DEFINE m == Handed(k, UndoDebts)
           b == IF UndoDebts = {} THEN k ELSE Barriered(m, "tree")
           c == IF kept = InHome THEN Sync(b, Root, "Durable") ELSE b
           h == Enter(c, At(kept, Gone))
<1>1. Aborted(k) = h
  BY DEF Aborted, Unlinked
<1>2. Based(k) /\ Sound(k) /\ k.grade = "Durable"
  BY BasedIs DEF Based, Placed
<1>3. CASE Trail(k) = {}
  <2>1. Spares(b, k) /\ Based(b)
    <3>1. Spares(m, k) /\ Based(m)
      BY <1>2, HandSpares DEF Spares
    <3> HIDE DEF m
    <3>2. Spares(Barriered(m, "tree"), m)
      BY <3>1, BarrierSpares
    <3> QED
      BY <1>2, <3>1, <3>2, SparesSame, SparesTwice DEF Spares
  <2> HIDE DEF b
  <2>2. Spares(c, b) /\ Based(c)
    BY <2>1, SyncSpares, SparesSame DEF Spares
  <2> HIDE DEF c
  <2>3. Eased(h, c) /\ Based(h)
    BY <2>2, KeptEased DEF Eased
  <2> HIDE DEF h
  <2>4. Trail(h) = {}
    BY <1>3, <2>1, <2>2, <2>3, SparesEased, EasedTrail
  <2> QED
    BY <1>1, <2>3, <2>4, NoTrail
<1>4. CASE Trail(k) # {}
  <2>1. UndoDebts # {}
    BY <1>4
  <2>2. ASSUME NEW a \in Aside, NEW q \in WritersOf(k, a)
        PROVE  k.log[q].owed \subseteq UndoDebts /\ k.log[q].device = "tree"
    <3>1. a \in Trail(k)
      BY <2>2 DEF Trail, Rests
    <3>2. Device(DirOf(a)) = "tree"
      BY AsideHome, DeviceAssumption
    <3> QED
      BY <2>2, <3>1, <3>2, WatchedAre DEF Placed
  <2>3. Spares(m, k) /\ Based(m) /\ Rewritten(m, k)
    BY <1>2, HandSpares, HandedFacts DEF Spares
  <2>4. \A n \in DOMAIN k.log : m.log[n].owed = k.log[n].owed \ UndoDebts
    BY <1>2, HandedFacts
  <2> HIDE DEF m
  <2>5. ASSUME NEW a \in Aside, NEW q \in WritersOf(m, a)
        PROVE  m.log[q].owed = {} /\ m.log[q].device = "tree" /\ q \in DOMAIN m.log
    <3>1. q \in WritersOf(k, a) /\ q \in DOMAIN k.log /\ m.log[q].device = k.log[q].device
      BY <2>3, <2>5 DEF Rewritten, WritersOf, Writers
    <3> QED
      BY <2>2, <2>3, <2>4, <3>1 DEF Rewritten
  <2>6. b = Barriered(m, "tree")
    BY <2>1
  <2> HIDE DEF b
  <2>7. Spares(b, m) /\ Based(b) /\ Rewritten(b, m)
    BY <2>3, <2>6, BarrierSpares, BarrieredFacts DEF Spares, Based
  <2>8. ASSUME NEW a \in Aside, NEW q \in WritersOf(b, a)
        PROVE  b.log[q].owed = {} /\ b.log[q].device = "tree" /\ b.log[q].bound
    <3>1. q \in WritersOf(m, a) /\ q \in DOMAIN m.log /\ b.log[q].device = m.log[q].device
      BY <2>7, <2>8 DEF Rewritten, WritersOf, Writers
    <3>2. q \in OnDevice(m, "tree")
      BY <2>5, <3>1 DEF OnDevice
    <3> QED
      BY <2>3, <2>5, <2>6, <3>1, <3>2, BarrieredFacts DEF Based
  <2>9. Spares(b, k)
    BY <2>3, <2>7, SparesTwice
  <2>10. \A a \in Aside : Seen(b)[a] = Gone
    BY <2>9, WatchedAre DEF Spares
  <2>11. CASE kept = InHome
    <3>1. Trail(c) = {} /\ Based(c)
      <4>1. ASSUME NEW a \in Aside PROVE Rests(Sync(b, Root, "Durable"), a, Gone)
        <5>1. a \in DOMAIN b.store /\ Sound(b) /\ b.grade = "Durable"
          BY <1>2, <2>7, <2>9, AsideStored DEF Spares, Alike
        <5>2. \A q \in WritersOf(b, a) : b.log[q].owed \subseteq {Root} /\ b.log[q].device = Device(Root)
          BY <2>8, DeviceAssumption
        <5>3. Rests(Sync(b, Root, "Durable"), a, Seen(b)[a])
          BY <5>1, <5>2, SyncSettles
        <5> QED
          BY <2>10, <5>3
      <4>2. Based(Sync(b, Root, "Durable"))
        BY <2>7, SyncSpares DEF Spares
      <4> QED
        BY <2>11, <4>1, <4>2 DEF Trail
    <3> HIDE DEF c
    <3>2. Eased(h, c) /\ Based(h)
      BY <3>1, KeptEased DEF Eased
    <3> HIDE DEF h
    <3>3. Trail(h) = {}
      BY <3>1, <3>2, EasedTrail
    <3> QED
      BY <1>1, <3>2, <3>3, NoTrail
  <2>12. CASE kept = InRoot
    <3>1. c = b
      BY <2>12, LayoutAssumption
    <3> HIDE DEF c
    <3>2. Backed(b)
      <4>1. Backed(k)
        BY <1>2, FirmBacks
      <4> QED
        BY <2>9, <4>1, SparesBacked
    <3>3. \A a \in Aside : \A q \in WritersOf(b, a) :
            b.log[q].bound /\ b.log[q].device = Device(DirOf(kept))
      BY <2>8, <2>12, LayoutAssumption, DeviceAssumption
    <3>4. Backed(h)
      BY <2>7, <2>10, <3>1, <3>2, <3>3, UnkeptBacks
    <3>5. Owing(b, {})
      BY <2>8 DEF Owing
    <3>6. Eased(h, b)
      BY <2>7, <3>1, KeptEased
    <3> HIDE DEF h
    <3>7. Owing(h, {})
      BY <3>5, <3>6, EasedTrail
    <3> QED
      BY <1>1, <2>12, <3>4, <3>7, LayoutAssumption
  <2> QED
    BY <2>11, <2>12 DEF JournalNames
<1> QED
  BY <1>3, <1>4

-----------------------------------------------------------------------------
(* The asides through every step.                                            *)

LEMMA StandsInCall == DurableInv /\ Course => InCall
<1> SUFFICES ASSUME DurableInv, Course PROVE InCall
  OBVIOUS
<1>1. Standing /\ tree \in Trees
  BY DoesTypes DEF DurableInv
<1>2. ASSUME NEW set \in {<<>>} \cup Staged PROVE set \in Seq(Op) /\ Len(set) <= MaxOps
  <2>1. CASE set = <<>>
    BY <2>1, ValueAssumption
  <2>2. CASE set \in Staged
    BY <2>2, ValueAssumption, StagedAssumption
  <2> QED
    BY <1>2, <2>1, <2>2
<1>3. ops \in Seq(Op) /\ Len(ops) <= MaxOps
  BY <1>1, <1>2 DEF Standing
<1>4. pc \in {"replay", "sweep", "settle"} => journal \in Seq(Op) /\ Len(journal) <= MaxOps
  BY <1>1, <1>2 DEF Standing
<1> QED
  BY <1>1, <1>3, <1>4 DEF Standing, Course, Applying, InCall

LEMMA StandsInCallNext == DurableInv' /\ Course' => InCall'
  BY StandsInCall, PTL

\* No aside is in use.
LEMMA VacantIs ==
  ASSUME DurableInv, Occupied = {}
  PROVE  \A a \in Aside : Seen(disk)[a] = Gone
<1> SUFFICES ASSUME NEW a \in Aside PROVE Seen(disk)[a] = Gone
  OBVIOUS
<1>1. DiskInv(disk) /\ a \in Slot /\ a \in Entries
  BY NamesDiffer DEF DurableInv, Does, Slot
<1>2. tree[a] = Absent /\ tree[a].kind = Seen(disk)[a].kind
  BY <1>1, DoesTypes DEF DurableInv, Occupied
<1>3. Absent.kind = "absent"
  BY DEF Absent
<1> QED
  BY <1>1, <1>2, <1>3, SeenTypes, HoldKinds

\* The next state's asides, said of the next disk.
TrailNext ==
  /\ Backed(disk')
  /\ Owing(disk', IF journal' \in Staged THEN Swept(journal') ELSE {})
  /\ (kept = InHome /\ journal' \notin Staged) => Trail(disk') = {}
  /\ pc' \in Applying => Trail(disk') \subseteq Displacements'

LEMMA TrailHolds ==
  ASSUME kept' = kept, AsidesAccounted', TrailNext
  PROVE  TrailInv'
<1>1. Backed(disk)'
  BY DEF TrailNext, Backed, BackedIn
<1>2. Owing(disk, SweptNow)'
  BY DEF TrailNext, SweptNow, Owing, WritersOf
<1>3. (Trail(disk) = {})' <=> Trail(disk') = {}
  BY DEF Trail, Rests
<1>4. (pc \in Applying)' => (Trail(disk) \subseteq Displacements)'
  BY DEF TrailNext, Trail, Rests, Applying
<1> QED
  BY <1>1, <1>2, <1>3, <1>4 DEF TrailInv, TrailNext

LEMMA KeptDisplaces ==
  ASSUME Kept(undo, undo')
  PROVE  Displacements \subseteq Displacements'
  BY DEF Kept, Displacements

\* Where the journal is firm, the undo steps say the rest.
LEMMA FirmTrail ==
  ASSUME Based(disk'), kept \in JournalNames, ops \in Staged, ops' = ops, journal' = ops,
         Firm(disk', ops), Undoes(undo', ops), Trail(disk') \subseteq Displacements'
  PROVE  TrailNext
<1>1. Displacements' \subseteq Swept(ops)
  BY DEF Displacements, Undoes
<1>2. Backed(disk') /\ Owing(disk', Swept(ops))
  BY <1>1, FirmBacks
<1> QED
  BY <1>2 DEF TrailNext

LEMMA AddedTrail ==
  ASSUME NEW k, Based(k), NEW h, NEW puts, Added(h, k, puts)
  PROVE  Trail(h) \subseteq Trail(k) \cup (Aside \cap DOMAIN puts)
<1> SUFFICES ASSUME NEW a \in Aside, ~Rests(h, a, Gone), a \notin DOMAIN puts
             PROVE  ~Rests(k, a, Gone)
  BY DEF Trail
<1>1. Eases(h, k, a)
  BY AsideStored, AddedAlike
<1> QED
  BY <1>1, RestStays

LEMMA SparingStays ==
  ASSUME DurableInv, Course, Sparing
  PROVE  /\ journal' = journal
         /\ pc' \in Applying => Displacements \subseteq Displacements'
<1>k. InCall
  BY StandsInCall
<1>1. CASE Begins \/ Passes \/ RunsLone \/ LeavesLone \/ CertifiesLone
  <2>1. journal' = journal /\ (pc' \in Applying => undo' = undo)
    BY <1>1 DEF Begins, Apply, ApplyRefused, Passes, ExecFails, Unwound, RetireFails, RecoveryFails,
                Recover, RunsLone, RunLone, LeavesLone, LoneFails, CertifiesLone, CertifyLone, Return,
                GoTo, log, Applying
  <2> QED
    BY <2>1 DEF Displacements
<1>2. CASE LandsOp \/ LeavesOp
  <2>1. journal' = journal /\ AtLanding
        /\ (undo' = undo \o Recorded(tree, ops[i]) \/ undo' = undo
             \/ (ops[i].act = "Rename" /\ undo' = Append(undo, Rename(ops[i].other, ops[i].path))))
    BY <1>2 DEF LandsOp, Land, LandRename, LeavesOp, LandFails
  <2>2. undo \in Seq(UndoStep) /\ Kept(undo, undo)
    BY <1>k DEF InCall, Kept
  <2>3. Kept(undo, undo')
    <3>1. CASE ops[i].act = "Rename" /\ undo' = Append(undo, Rename(ops[i].other, ops[i].path))
      <4>1. ops[i] \in Op
        BY <1>k, <2>1, AtOpInCall DEF AtLanding, AtOp
      <4>2. Rename(ops[i].other, ops[i].path) \in UndoStep
        BY <3>1, <4>1, OpFields DEF UndoStep, Slot
      <4> QED
        BY <2>2, <3>1, <4>2, GrownKept
    <3> QED
      BY <1>k, <2>1, <2>2, <3>1, RecordedKept
  <2> QED
    BY <2>1, <2>3, KeptDisplaces
<1>3. CASE Certifies \/ Unwinds \/ LeavesUnwind \/ (Aborts /\ pc' # "abortflush")
  <2>1. journal' = journal /\ (pc' \in Applying => undo' = undo)
    BY <1>3 DEF Certifies, Certify, Unwinds, Unwind, LeavesUnwind, UnwindFails, Aborts, Abort, Return,
                GoTo, log, Applying
  <2> QED
    BY <2>1 DEF Displacements
<1>4. CASE FlushesAbort \/ ReplaysOp \/ LeavesReplay \/ (Dies /\ pc # "commit")
  <2>1. journal' = journal /\ (pc' \in Applying => undo' = undo)
    BY <1>4 DEF FlushesAbort, AbortFlush, ReplaysOp, Replay, LeavesReplay, ReplayFails, Dies, Crash,
                Return, GoTo, log, Applying
  <2> QED
    BY <2>1 DEF Displacements
<1> QED
  BY <1>1, <1>2, <1>3, <1>4 DEF Sparing

LEMMA SparingTrail ==
  ASSUME DurableInv, IntentInv, HasRoom, Sparing, TrailInv, ~HomeAdrift,
         pc' \in Applying => pc \in Applying
  PROVE  TrailNext
<1>1. Spares(disk', disk) /\ kept \in JournalNames
  BY SparingSpares DEF DurableInv, Standing
<1>2. journal' = journal /\ (pc' \in Applying => Displacements \subseteq Displacements')
  BY SparingStays DEF IntentInv
<1>3. Backed(disk')
  BY <1>1, SparesBacked DEF TrailInv
<1>4. Owing(disk', SweptNow) /\ Trail(disk') \subseteq Trail(disk)
  BY <1>1, SparesEased, EasedTrail DEF TrailInv
<1> QED
  BY <1>2, <1>3, <1>4 DEF TrailNext, TrailInv, SweptNow

\* An entry moved aside, retired or moved back.
LEMMA MovedTrail ==
  ASSUME DurableInv, IntentInv, IntentInv', DiskInv(disk'), kept' = kept, TrailInv, ~HomeAdrift, ~HomeAdrift',
         MovesItAside \/ RetiresAside \/ (Unwinds /\ Returns(undo[i]))
  PROVE  TrailNext
<1>k. /\ DiskInv(disk) /\ Based(disk) /\ Based(disk') /\ kept \in JournalNames /\ Course
      /\ undo \in Seq(UndoStep) /\ asides \in Seq(Aside) /\ i \in Nat
  BY BasedIs DEF DurableInv, Does, Standing, IntentInv
<1>1. /\ pc \in Applying /\ pc' \in Applying /\ ops \in Staged /\ ops' = ops /\ journal' = ops
      /\ Trail(disk) \subseteq Displacements
  <2>1. /\ pc \in Applying /\ pc' \in Applying /\ ops' = ops /\ journal' = journal
    BY DEF MovesItAside, MoveAside, AtOp, NextOp, RetiresAside, RetireAside, Unwinds, Unwind, GoTo,
           Applying
  <2> QED
    BY <1>k, <2>1 DEF Course, DurableInv, Standing, TrailInv, Applying
<1>2. Firm(disk', ops)
  BY <1>1 DEF IntentInv, Firm, Rests, Applying
<1>3. Undoes(undo', ops)
  BY <1>1 DEF IntentInv, Course, Undoes, Swept
<1>4. Trail(disk') \subseteq Displacements'
  <2>1. CASE MovesItAside
    <3> DEFINE p == Displaced(ops[i])
               a == AsideOf(p, i)
               puts == [l \in {p, a} |-> IF l = p THEN Gone ELSE Seen(disk)[p]]
    <3>1. /\ pc = "exec" /\ undo' = Append(undo, Rename(a, p))
          /\ disk' = Renamed(disk, p, a)
      BY <2>1 DEF MovesItAside, MoveAside, AtOp
    <3>2. i \in DOMAIN ops
      BY <3>1, OpNow
    <3>3. p \in Path /\ a \in Aside /\ a \in Slot
      BY <1>1, <3>2, StagedOps
    <3> HIDE DEF p, a
    <3>4. p # a /\ p \notin Aside
      BY <3>3, PathAssumption
    <3>5. disk' = Enter(disk, puts) /\ DOMAIN puts = {p, a}
      BY <3>1, <3>4 DEF Renamed
    <3> HIDE DEF puts
    <3>6. Added(disk', disk, puts)
      BY <1>k, <3>5, AsideStored, IssuedAdds DEF Enter
    <3>7. Trail(disk') \subseteq Trail(disk) \cup {a}
      BY <1>k, <3>4, <3>5, <3>6, AddedTrail
    <3>8. Rename(a, p) \in UndoStep /\ Rename(a, p).act = "Rename" /\ Rename(a, p).path = a
      BY <3>3 DEF UndoStep, Rename
    <3>9. /\ Kept(undo, undo')
          /\ Len(undo) + 1 \in DOMAIN undo' /\ undo'[Len(undo) + 1] = Rename(a, p)
      BY <1>k, <3>1, <3>8, GrownKept
    <3>10. a \in Displacements'
      BY <3>3, <3>8, <3>9 DEF Displacements
    <3> QED
      BY <1>1, <3>7, <3>9, <3>10, KeptDisplaces
  <2>2. CASE RetiresAside
    <3> DEFINE a == Head(asides)
    <3>1. /\ pc = "retire" /\ asides # <<>> /\ undo' = undo /\ disk' = Enter(disk, At(a, Gone))
      BY <2>2 DEF RetiresAside, RetireAside, Unlinked
    <3>2. 1 \in DOMAIN asides /\ a = asides[1] /\ a \in Aside
      BY <1>k, <3>1
    <3>3. PICK n \in DOMAIN undo : undo[n].act = "Rename" /\ undo[n].path = a
      BY <1>k, <3>1, <3>2 DEF Course, MovedBy, Applying
    <3> HIDE DEF a
    <3>4. Added(disk', disk, At(a, Gone)) /\ DOMAIN At(a, Gone) = {a}
      BY <1>k, <3>1, AsideStored, IssuedAdds, OnePut DEF Enter
    <3>5. Trail(disk') \subseteq Trail(disk) \cup {a}
      BY <1>k, <3>4, AddedTrail
    <3>6. a \in Displacements /\ Displacements' = Displacements
      BY <3>1, <3>2, <3>3 DEF Displacements
    <3> QED
      BY <1>1, <3>5, <3>6
  <2>3. CASE Unwinds /\ Returns(undo[i])
    <3> DEFINE a == undo[i].path
               q == undo[i].other
               puts == [l \in {a, q} |-> IF l = a THEN Gone ELSE Seen(disk)[a]]
    <3>1. /\ pc = "unwind" /\ i > 0 /\ undo' = undo /\ undo[i].act = "Rename" /\ a \in Aside
          /\ disk' = UndoOn(disk, undo[i])
      BY <2>3 DEF Unwinds, Unwind, Returns, log
    <3>2. i \in DOMAIN undo
      BY <1>k, <3>1 DEF DurableInv, Standing
    <3>3. q \in Path
      BY <1>k, <3>1, <3>2, AsideHome DEF Course, Undoes
    <3>4. disk' = Renamed(disk, a, q)
      BY <3>1 DEF UndoOn, CallOn, Lands
    <3>5. a \in Displacements /\ Displacements' = Displacements
      BY <3>1, <3>2 DEF Displacements
    <3> HIDE DEF a, q
    <3>6. a # q /\ q \notin Aside
      BY <3>1, <3>3, PathAssumption
    <3>7. disk' = Enter(disk, puts) /\ DOMAIN puts = {a, q}
      BY <3>4, <3>6 DEF Renamed
    <3> HIDE DEF puts
    <3>8. Added(disk', disk, puts)
      BY <1>k, <3>7, AsideStored, IssuedAdds DEF Enter
    <3>9. Trail(disk') \subseteq Trail(disk) \cup {a}
      BY <1>k, <3>6, <3>7, <3>8, AddedTrail
    <3> QED
      BY <1>1, <3>5, <3>9
  <2> QED
    BY <2>1, <2>2, <2>3
<1> QED
  BY <1>k, <1>1, <1>2, <1>3, <1>4, FirmTrail

\* A sweep gives up an aside of the journal it replays.
LEMMA SweepTrail ==
  ASSUME DurableInv, TrailInv, ~HomeAdrift, Sweeps
  PROVE  TrailNext
<1> DEFINE a == AsideOf(Displaced(journal[i]), i)
<1>1. /\ pc = "sweep" /\ journal' = journal /\ pc' \in {"sweep", "settle"}
      /\ disk' = IF tree' = tree THEN disk ELSE Unlinked(disk, a)
      /\ journal[i].act \notin {"Remove", "Rename", "SetLink"} => tree' = tree
  BY DEF Sweeps, Sweep, GoTo
<1>2. /\ journal \in Staged /\ i \in DOMAIN journal /\ kept \in JournalNames
      /\ Based(disk) /\ Backed(disk) /\ Owing(disk, Swept(journal))
  BY <1>1, BasedIs DEF DurableInv, Standing, Does, TrailInv, SweptNow
<1>3. a \in Aside
  BY <1>2, StagedOps
<1>4. journal[i].act \in {"Remove", "Rename", "SetLink"} => a \in Swept(journal)
  BY <1>2 DEF Swept
<1> HIDE DEF a
<1>5. Backed(disk') /\ Owing(disk', Swept(journal))
  BY <1>1, <1>2, <1>3, <1>4, UnlinkBacks
<1> QED
  BY <1>1, <1>2, <1>5 DEF TrailNext, Applying

LEMMA NoneUnstaged == None \notin Staged
<1>1. DOMAIN None = {}
  BY DEF None
<1> QED
  BY <1>1, StagedOps

\* At the commit no aside is in use, nor any journal there.
LEMMA AtCommit ==
  ASSUME DurableInv, IntentInv, HasRoom, TrailInv, ~HomeAdrift, pc = "commit"
  PROVE  /\ DiskInv(disk) /\ Placed(disk) /\ Homed(disk) /\ kept \in JournalNames /\ Backed(disk)
         /\ \A pool \in {Pool, HomePool} : Unknown(disk, pool) # {}
         /\ \A a \in Aside : Seen(disk)[a] = Gone
         /\ Seen(disk)[kept] = Gone
         /\ Owing(disk, {})
         /\ kept = InHome => Trail(disk) = {}
<1>1. /\ DiskInv(disk) /\ Placed(disk) /\ Homed(disk) /\ kept \in JournalNames
      /\ journal = None /\ JournalIn(Seen(disk)) = None
  BY DEF DurableInv, Does, Standing, IntentInv, Course
<1>2. \A pool \in {Pool, HomePool} : Unknown(disk, pool) # {}
  BY RoomHas
<1>3. Occupied = {}
  BY DEF TrailInv, AsidesAccounted
<1>4. \A a \in Aside : Seen(disk)[a] = Gone
  BY <1>3, VacantIs
<1>5. Seen(disk)[kept] = Gone
  <2>1. Seen(disk)[kept].kind # "file" /\ Seen(disk)[kept] \in CanHold(kept) /\ kept \in Entries
    BY <1>1, NoneIsGone, SeenTypes, NamesDiffer
  <2> QED
    BY <1>1, <2>1, HoldKinds, NamesDiffer
<1>6. Backed(disk) /\ Owing(disk, {}) /\ (kept = InHome => Trail(disk) = {})
  BY <1>1, NoneUnstaged DEF TrailInv, SweptNow
<1> QED
  BY <1>1, <1>2, <1>4, <1>5, <1>6

LEMMA ClearTrail ==
  ASSUME Based(disk'), Trail(disk') = {}
  PROVE  TrailNext
<1>1. Backed(disk') /\ \A X : Owing(disk', X)
  BY NoTrail
<1> QED
  BY <1>1 DEF TrailNext

LEMMA CommitTrail ==
  ASSUME DurableInv, IntentInv, DiskInv(disk'), HasRoom, TrailInv, ~HomeAdrift, Commits
  PROVE  TrailNext
<1>1. pc = "commit" /\ disk' = Committed(disk)
  BY DEF Commits, Commit
<1>2. Trail(Committed(disk)) = {}
  BY <1>1, AtCommit, CommitClears
<1>3. Trail(disk') = {} /\ Based(disk')
  BY <1>1, <1>2, BasedIs
<1> QED
  BY <1>3, ClearTrail

LEMMA LeftTrail ==
  ASSUME DurableInv, IntentInv, DiskInv(disk'), HasRoom, TrailInv, ~HomeAdrift,
         LeavesCommit \/ (Dies /\ pc = "commit")
  PROVE  TrailNext
<1>1. pc = "commit" /\ pc' \notin Applying /\ disk' \in CommitLeft(disk)
  BY DEF LeavesCommit, CommitFails, Dies, Crash, Return, Applying, AtLanding, AtOp
<1>2. DiskInv(disk) /\ kept \in JournalNames /\ Based(disk')
  BY <1>1, AtCommit, BasedIs
<1>3. Eased(disk', disk)
  BY <1>1, AtCommit, CommitLeftEased
<1>4. CASE kept = InHome
  <2>1. Trail(disk') = {}
    BY <1>1, <1>3, <1>4, AtCommit, EasedTrail
  <2> QED
    BY <1>2, <2>1, ClearTrail
<1>5. CASE kept = InRoot
  <2>1. WithHome(disk) = disk /\ ~HomeMissing(disk) /\ kept # InHome
    BY <1>5, NamesDiffer DEF WithHome, HomeMissing
  <2>2. disk' \in {disk, Published(disk), Overwritten(disk, kept, Torn, JournalPool)}
    BY <1>1, <2>1 DEF CommitLeft
  <2>3. disk.grade = "Durable" /\ Unknown(disk, JournalPool) # {}
    BY <1>1, AtCommit DEF Placed, JournalPool
  <2>4. \A b : /\ Backed(Replace(disk, kept, b, FALSE, JournalPool))
               /\ Backed(Overwritten(disk, kept, b, JournalPool))
    BY <1>1, <2>3, AtCommit, PublishBacks
  <2>5. Backed(disk')
    BY <1>1, <2>2, <2>4, AtCommit DEF Published
  <2>6. Owing(disk', {})
    BY <1>1, <1>3, AtCommit, EasedTrail
  <2>7. \A X : Owing(disk', X)
    BY <2>6 DEF Owing
  <2> QED
    BY <1>1, <2>1, <2>5, <2>7 DEF TrailNext
<1> QED
  BY <1>2, <1>4, <1>5 DEF JournalNames

\* A set that ran retires its journal after what it moved aside is flushed.
LEMMA RetireTrail ==
  ASSUME DurableInv, IntentInv, DiskInv(disk'), TrailInv, ~HomeAdrift, RetiresJournal
  PROVE  TrailNext
<1> DEFINE debts == {DirOf(a) : a \in Displacements}
<1>1. pc = "retire" /\ asides = <<>> /\ disk' = Retired(disk, debts)
  BY DEF RetiresJournal, RetireJournal
<1>2. DiskInv(disk) /\ Placed(disk) /\ kept \in JournalNames /\ Trail(disk) \subseteq Displacements
  BY <1>1 DEF DurableInv, Does, Standing, IntentInv, TrailInv, Applying
<1>3. \A a \in Aside : Seen(disk)[a] = Gone
  <2>1. DOMAIN asides = {}
    BY <1>1
  <2>2. Occupied = {}
    BY <1>1, <2>1 DEF TrailInv, AsidesAccounted
  <2> QED
    BY <2>2, VacantIs
<1>4. ASSUME NEW a \in Aside, NEW q \in WritersOf(disk, a) PROVE disk.log[q].owed \subseteq debts
  <2>1. a \in Displacements
    BY <1>2, <1>4 DEF Trail, Rests
  <2>2. disk.log[q].owed \subseteq {DirOf(a)}
    BY <1>2, <1>4, WatchedAre DEF Placed
  <2> QED
    BY <2>1, <2>2
<1>5. debts = {} => Trail(disk) = {}
  BY <1>2
<1> HIDE DEF debts
<1>6. Trail(disk') = {} /\ Based(disk')
  BY <1>1, <1>2, <1>3, <1>4, <1>5, RetireClears, BasedIs
<1> QED
  BY <1>6, ClearTrail

\* What a sweep gave up is flushed with what the replay wrote.
LEMMA SettleTrail ==
  ASSUME DurableInv, IntentInv, DiskInv(disk'), TrailInv, ~HomeAdrift, SettlesRecovery
  PROVE  TrailNext
<1> DEFINE debts == AllDebts(journal)
<1>1. pc = "settle" /\ disk' = Retired(disk, debts)
  BY DEF SettlesRecovery, SettleRecovery
<1>2. DiskInv(disk) /\ Placed(disk) /\ kept \in JournalNames /\ journal \in Staged
  BY <1>1 DEF DurableInv, Does, Standing, IntentInv
<1>3. \A a \in Aside : Seen(disk)[a] = Gone
  BY <1>1, VacantIs DEF TrailInv, AsidesAccounted
<1>4. ASSUME NEW a \in Aside, NEW q \in WritersOf(disk, a) PROVE disk.log[q].owed \subseteq debts
  <2>1. CASE a \in Swept(journal)
    <3>1. PICK n \in DOMAIN journal : a = AsideOf(Displaced(journal[n]), n)
      BY <2>1 DEF Swept
    <3>2. a[1] = Displaced(journal[n])
      BY <3>1 DEF AsideOf
    <3>3. DirOf(a) \in Debts(journal[n])
      BY <3>2, AsideHome DEF Displaced, Debts
    <3>4. DirOf(a) \in debts
      BY <3>1, <3>3 DEF AllDebts
    <3>5. disk.log[q].owed \subseteq {DirOf(a)}
      BY <1>2, <1>4, WatchedAre DEF Placed
    <3> QED
      BY <3>4, <3>5
  <2>2. CASE a \notin Swept(journal)
    <3>1. disk.log[q].owed = {}
      BY <1>2, <1>4, <2>2 DEF TrailInv, SweptNow, Owing
    <3> QED
      BY <3>1
  <2> QED
    BY <2>1, <2>2
<1>5. debts # {}
  <2>1. 1 \in DOMAIN journal
    BY <1>2, StagedOps
  <2>2. DirOf(journal[1].path) \in Debts(journal[1])
    BY DEF Debts
  <2> QED
    BY <2>1, <2>2 DEF AllDebts
<1> HIDE DEF debts
<1>6. Trail(disk') = {} /\ Based(disk')
  BY <1>1, <1>2, <1>3, <1>4, <1>5, RetireClears, BasedIs
<1> QED
  BY <1>6, ClearTrail

\* A rollback gives up its journal after what it moved back.
LEMMA AbortTrail ==
  ASSUME DurableInv, IntentInv, DiskInv(disk'), TrailInv, ~HomeAdrift, Aborts, pc' = "abortflush"
  PROVE  TrailNext
<1>1. pc = "abort" /\ journal' = None /\ disk' = Aborted(disk)
  BY DEF Aborts, Abort, Return
<1>2. /\ DiskInv(disk) /\ Placed(disk) /\ kept \in JournalNames /\ ops \in Staged
      /\ Firm(disk, ops) /\ Undoes(undo, ops) /\ Trail(disk) \subseteq Displacements
  BY <1>1 DEF DurableInv, Does, Standing, IntentInv, Course, TrailInv, Applying
<1>3. \A a \in Aside : Seen(disk)[a] = Gone
  BY <1>1, VacantIs DEF TrailInv, AsidesAccounted
<1>4. Trail(disk) \subseteq Swept(ops)
  BY <1>2 DEF Displacements, Undoes
<1>5. ASSUME NEW a \in Trail(disk) PROVE DirOf(a) \in UndoDebts
  <2>1. PICK n \in DOMAIN undo : undo[n].act = "Rename" /\ undo[n].path = a
    BY <1>2, <1>5 DEF Displacements
  <2>2. DirOf(a) \in Debts(undo[n]) /\ undo[n].act # "SetExecutable"
    BY <2>1 DEF Debts
  <2> QED
    BY <2>1, <2>2 DEF UndoDebts
<1>6. /\ Backed(disk') /\ Owing(disk', {})
      /\ kept = InHome => Trail(disk') = {}
  BY <1>1, <1>2, <1>3, <1>4, <1>5, AbortBacks
<1>7. pc' \notin Applying
  BY DEF Applying
<1> QED
  BY <1>1, <1>6, <1>7, NoneUnstaged DEF TrailNext

\* What makes the home adrift is not unmade by a step of the process.
LEMMA HomeStays ==
  ASSUME DurableInv, IntentInv, Runs
  PROVE  HomeAdrift => HomeAdrift'
<1>1. HasRoom /\ kept' = kept /\ kept \in JournalNames /\ DiskInv(disk) /\ Placed(disk) /\ Homed(disk)
      /\ begun \in Nat /\ Course
  BY DEF Runs, DurableInv, Standing, Does, IntentInv, Course
<1>2. begun' \in {begun, begun + 1}
  <2>1. CASE Commit
    BY <2>1 DEF Commit, budget
  <2>2. CASE ~Commit
    BY <1>1, <2>2, RunsNext, OnwardStep
  <2> QED
    BY <2>1, <2>2
<1>3. disk'.ordered = disk.ordered
  <2>1. CASE Sparing \/ AsideStep
    <3>1. Steady(disk', disk)
      BY <1>1, <2>1, SparingSpares, SparesSteady, AsideSteady
    <3> QED
      BY <3>1 DEF Steady
  <2>2. CASE Commits \/ LeavesCommit \/ (Dies /\ pc = "commit")
    <3>1. disk' = Committed(disk) \/ disk' \in CommitLeft(disk)
      BY <2>2 DEF Commits, LeavesCommit, CommitFails, Dies, AtLanding, AtOp
    <3>2. Housed(disk', disk)
      BY <1>1, <3>1, RoomHas, CommitHoused
    <3> QED
      BY <3>2 DEF Housed
  <2>3. CASE RetiresJournal \/ (Aborts /\ pc' = "abortflush") \/ SettlesRecovery
    <3>1. disk' = Aborted(disk) \/ \E debts : disk' = Retired(disk, debts)
      BY <2>3 DEF RetiresJournal, Aborts, SettlesRecovery
    <3>2. Housed(disk', disk)
      BY <1>1, <3>1, RetireHoused
    <3> QED
      BY <3>2 DEF Housed
  <2> QED
    BY <2>1, <2>2, <2>3 DEF Runs, Sparing, AsideStep
<1> QED
  BY <1>1, <1>2, <1>3, AdriftStays

LEMMA TrailRuns ==
  ASSUME DurableInv, DurableInv', IntentInv, IntentInv', TrailInv, Runs
  PROVE  TrailInv'
<1> SUFFICES ASSUME ~HomeAdrift' PROVE TrailInv'
  BY DEF TrailInv
<1>1. /\ HasRoom /\ kept' = kept /\ Course /\ begun \in Nat
      /\ DiskInv(disk')
  BY DEF Runs, IntentInv, Course, DurableInv, Does
<1>2. ~HomeAdrift
  BY HomeStays
<1>3. AsidesAccounted'
  <2>1. InCall
    BY <1>1, StandsInCall
  <2>2. InCall'
    BY StandsInCallNext DEF IntentInv
  <2>3. AsidesAccounted /\ Next
    BY <1>2, RunsNext DEF TrailInv
  <2> QED
    BY <2>1, <2>2, <2>3, AsidesStep
<1>4. TrailNext
  <2>1. CASE Sparing
    <3>1. ~Commit
      BY <2>1 DEF Sparing, Commit, Begins, Apply, ApplyRefused, Passes, ExecFails, Unwound,
                  RetireFails, RecoveryFails, Recover, RunsLone, RunLone, LeavesLone, LoneFails,
                  CertifiesLone, CertifyLone, LandsOp, Land, LandRename, AtLanding, AtOp, LeavesOp,
                  LandFails, Certifies, Certify, Unwinds, Unwind, LeavesUnwind, UnwindFails, Aborts,
                  Abort, FlushesAbort, AbortFlush, ReplaysOp, Replay, LeavesReplay, ReplayFails, Dies
    <3>2. pc' \in Applying => pc \in Applying
      BY <1>1, <3>1, RunsNext, OnwardStep
    <3> QED
      BY <1>1, <1>2, <2>1, <3>2, SparingTrail
  <2>2. CASE MovesItAside \/ RetiresAside \/ (Unwinds /\ Returns(undo[i]))
    BY <1>1, <1>2, <2>2, MovedTrail
  <2>3. CASE Sweeps
    BY <1>2, <2>3, SweepTrail
  <2>4. CASE Commits
    BY <1>1, <1>2, <2>4, CommitTrail
  <2>5. CASE LeavesCommit \/ (Dies /\ pc = "commit")
    BY <1>1, <1>2, <2>5, LeftTrail
  <2>6. CASE RetiresJournal
    BY <1>1, <1>2, <2>6, RetireTrail
  <2>7. CASE SettlesRecovery
    BY <1>1, <1>2, <2>7, SettleTrail
  <2>8. CASE Aborts /\ pc' = "abortflush"
    BY <1>1, <1>2, <2>8, AbortTrail
  <2> QED
    BY <2>1, <2>2, <2>3, <2>4, <2>5, <2>6, <2>7, <2>8 DEF Runs, Sparing
<1> QED
  BY <1>1, <1>3, <1>4, TrailHolds

-----------------------------------------------------------------------------
(* The asides through a power cut.                                           *)

LEMMA CutBacks ==
  ASSUME NEW k, DiskInv(k), kept \in JournalNames, Backed(k), NEW s \in Survivors(k),
         NEW a \in Aside, s[a] # Gone
  PROVE  \E set \in Staged, n \in Inodes :
           /\ a \in Swept(set) /\ JournalIn(s) = set
           /\ s[BytesOf(n)] = set /\ s[kept] = Inode(n)
           /\ kept = InHome => s[HomeName] # Gone
<1>1. PICK S, T : Possible(k, S, T) /\ s = Outcome(k, S, T)
  BY SurvivorsAre
<1>2. /\ S \in Closures(k) /\ S \in SUBSET DOMAIN k.log /\ T \in SUBSET DOMAIN k.log
      /\ \A m \in T : \E x \in Inodes : BytesOf(x) \in DOMAIN k.log[m].puts
  BY <1>1, PossibleFacts DEF Possible
<1>3. Typed(k) /\ Based(k)
  BY BasedIs DEF DiskInv
<1>4. ASSUME NEW l \in Entries PROVE s[l] = Landed(k, S)[l]
  <2>1. l \in DOMAIN Landed(k, S)
    BY <1>2, <1>3, LandedTypes
  <2>2. ASSUME NEW m \in T PROVE l \notin DOMAIN k.log[m].puts
    <3>1. PICK x \in Inodes : BytesOf(x) \in DOMAIN k.log[m].puts
      BY <1>2
    <3>2. DOMAIN k.log[m].puts = {BytesOf(x)}
      BY <1>2, <1>3, <3>1 DEF Typed, Shaped
    <3> QED
      BY <3>2, PartsDiffer
  <2> QED
    BY <1>1, <2>1, <2>2, OutcomeAt
<1>5. /\ s[a] = Landed(k, S)[a] /\ s[kept] = Landed(k, S)[kept]
      /\ s[HomeName] = Landed(k, S)[HomeName]
  BY <1>4, WatchedAre
<1>6. PICK set \in Staged, n \in Inodes :
        /\ a \in Swept(set) /\ Rests(k, BytesOf(n), set)
        /\ s[kept] = Inode(n)
        /\ kept = InHome => s[HomeName] # Gone
  BY <1>2, <1>5 DEF Backed, BackedIn
<1>7. s[BytesOf(n)] = set
  BY <1>6, RestSurvives, PartsDiffer
<1>8. JournalIn(s) = set
  <2>1. set # Torn
    BY StoreAssumption
  <2> QED
    BY <1>6, <1>7, <2>1, EntriesDiffer DEF JournalIn
<1> QED
  BY <1>6, <1>7, <1>8

LEMMA GoneIsAbsent ==
  ASSUME NEW s, NEW a \in Slot, s[a] = Gone
  PROVE  TreeIn(s)[a] = Absent
<1>1. s[a].kind = "absent"
  BY EntriesDiffer
<1> QED
  BY <1>1 DEF TreeIn, EntryIn

LEMMA TrailCut ==
  ASSUME DurableInv, IntentInv, TrailInv, PowerCut
  PROVE  TrailInv'
<1>1. /\ DiskInv(disk) /\ kept \in JournalNames /\ kept' = kept /\ begun' = begun /\ pc' = "idle"
      /\ disk.grade = "Durable"
  BY DEF DurableInv, Does, Standing, PowerCut, Return, IntentInv, Placed
<1>2. PICK s \in Survivors(disk) :
        /\ disk' = Clean(WithoutHome(s), disk.ordered, "Durable")
        /\ tree' = TreeIn(s) /\ journal' = JournalIn(s)
  BY <1>1 DEF PowerCut
<1> DEFINE r == WithoutHome(s)
<1>3. disk' = Clean(r, disk.ordered, "Durable") /\ DiskInv(Clean(r, disk.ordered, "Durable"))
  BY <1>1, <1>2, CutDoes DEF Does
<1>4. DOMAIN s = Entries \cup Parts
  <2>1. DOMAIN r = Entries \cup Parts
    BY <1>3 DEF DiskInv, Typed, Clean
  <2> QED
    BY <2>1 DEF WithoutHome
<1>5. /\ \A l \in (Entries \cup Parts) \ {InHome} : r[l] = s[l]
      /\ s[HomeName] # Gone => r[InHome] = s[InHome]
  BY <1>4 DEF WithoutHome
<1>6. disk'.store = r /\ disk'.ordered = disk.ordered /\ disk'.log = <<>>
  BY <1>3 DEF Clean
<1>7. Based(disk')
  BY <1>3, BasedIs
<1> HIDE DEF r
<1> SUFFICES ASSUME ~HomeAdrift' PROVE TrailInv'
  BY DEF TrailInv
<1>8. Backed(disk)
  BY <1>1, <1>6 DEF TrailInv, HomeAdrift
<1>9. ASSUME NEW l \in Entries \cup Parts
      PROVE  /\ Rests(disk', l, r[l])
             /\ \A S \in Closures(disk') : Landed(disk', S)[l] = r[l]
  <2>1. DOMAIN disk'.log = {}
    BY <1>6
  <2>2. WritersOf(disk', l) = {}
    BY <2>1 DEF WritersOf, Writers
  <2>3. Rests(disk', l, r[l])
    BY <1>6, <2>2 DEF Rests, Values
  <2>4. l \in DOMAIN disk'.store /\ Sound(disk')
    BY <1>7 DEF Based
  <2> QED
    BY <2>3, <2>4, ClosuresAre, RestLands DEF Rests
<1>10. ASSUME NEW a \in Aside, s[a] # Gone
       PROVE  \E set \in Staged, n \in Inodes :
                /\ a \in Swept(set) /\ journal' = set
                /\ Rests(disk', BytesOf(n), set)
                /\ r[kept] = Inode(n)
                /\ kept = InHome => r[HomeName] # Gone
  <2>1. PICK set \in Staged, n \in Inodes :
          /\ a \in Swept(set) /\ JournalIn(s) = set
          /\ s[BytesOf(n)] = set /\ s[kept] = Inode(n)
          /\ kept = InHome => s[HomeName] # Gone
    BY <1>1, <1>8, <1>10, CutBacks
  <2>2. /\ BytesOf(n) \in Parts /\ BytesOf(n) # InHome /\ HomeName # InHome
        /\ HomeName \in Entries /\ kept \in Entries
    BY <1>1, PartsDiffer, NamesDiffer
  <2>3. r[BytesOf(n)] = set /\ r[kept] = Inode(n) /\ r[HomeName] = s[HomeName]
    BY <1>5, <2>1, <2>2
  <2>4. Rests(disk', BytesOf(n), set)
    BY <1>9, <2>2, <2>3
  <2> QED
    BY <1>2, <2>1, <2>3, <2>4
<1>11. ASSUME NEW a \in Aside PROVE r[a] = s[a]
  BY <1>5, WatchedAre, NamesDiffer
<1>12. Backed(disk')
  <2> SUFFICES ASSUME NEW S \in Closures(disk'), NEW a \in Aside, Landed(disk', S)[a] # Gone
               PROVE  BackedIn(disk', Landed(disk', S), a)
    BY DEF Backed
  <2>1. \A l \in {a, kept, HomeName} : Landed(disk', S)[l] = r[l]
    BY <1>1, <1>9, WatchedAre
  <2>2. s[a] # Gone
    BY <1>11, <2>1
  <2> QED
    BY <1>10, <2>1, <2>2 DEF BackedIn
<1>13. \A X : Owing(disk', X)
  BY <1>9, WatchedAre DEF Owing, Rests
<1>14. ASSUME journal' \notin Staged PROVE Trail(disk') = {}
  <2>1. ASSUME NEW a \in Aside PROVE Rests(disk', a, Gone)
    <3>1. s[a] = Gone
      BY <1>10, <1>14
    <3> QED
      BY <1>9, <1>11, <3>1, WatchedAre
  <2> QED
    BY <2>1 DEF Trail
<1>15. TrailNext
  BY <1>1, <1>12, <1>13, <1>14 DEF TrailNext, Applying
<1>16. AsidesAccounted'
  <2>1. ASSUME NEW a \in Aside, tree'[a] # Absent
        PROVE  /\ a[2] \in DOMAIN journal'
               /\ journal'[a[2]].act \in {"Remove", "Rename", "SetLink"}
               /\ a[1] = Displaced(journal'[a[2]])
    <3>1. s[a] # Gone
      BY <1>2, <2>1, GoneIsAbsent DEF Slot
    <3>2. PICK set \in Staged : a \in Swept(set) /\ journal' = set
      BY <1>10, <3>1
    <3>3. PICK m \in DOMAIN set :
            set[m].act \in {"Remove", "Rename", "SetLink"} /\ a = AsideOf(Displaced(set[m]), m)
      BY <3>2 DEF Swept
    <3>4. a[1] = Displaced(set[m]) /\ a[2] = m
      BY <3>3 DEF AsideOf
    <3> QED
      BY <3>2, <3>3, <3>4
  <2> QED
    BY <1>1, <2>1 DEF AsidesAccounted, Occupied
<1> QED
  BY <1>1, <1>15, <1>16, TrailHolds

LEMMA TrailBegins ==
  ASSUME DurableInit, DurableInv
  PROVE  TrailInv
<1>1. PICK ordered \in Orders : disk = Clean(StoreOf(tree), ordered, "Durable")
  BY DEF DurableInit
<1>2. AsidesAccounted /\ pc = "idle" /\ Occupied = {}
  BY AsidesInit, InitAssumption DEF DurableInit, Init, Occupied
<1>3. Based(disk) /\ DOMAIN disk.log = {}
  BY <1>1, BasedIs DEF DurableInv, Does, Clean
<1>4. ASSUME NEW a \in Aside PROVE Rests(disk, a, Gone)
  <2>1. a \in DOMAIN disk.store /\ Sound(disk)
    BY <1>3, AsideStored
  <2>2. Rests(disk, a, Seen(disk)[a])
    BY <1>3, <2>1, SettledIs DEF WritersOf, Writers
  <2> QED
    BY <1>2, <2>2, VacantIs
<1>5. Trail(disk) = {}
  BY <1>4 DEF Trail
<1>6. Backed(disk) /\ \A X : Owing(disk, X)
  BY <1>3, <1>5, NoTrail
<1> QED
  BY <1>2, <1>5, <1>6 DEF TrailInv

LEMMA TrailStep ==
  ASSUME DurableInv, DurableInv', IntentInv, IntentInv', TrailInv, [DurableNext]_dvars
  PROVE  TrailInv'
<1>1. CASE Runs
  BY <1>1, TrailRuns
<1>2. CASE PowerCut
  BY <1>2, TrailCut
<1>3. CASE UNCHANGED dvars
  <2>1. AsidesAccounted' <=> AsidesAccounted
    BY <1>3 DEF dvars, vars, log, budget, AsidesAccounted, Occupied
  <2>2. Backed(disk)' <=> Backed(disk)
    BY <1>3 DEF dvars, Backed, BackedIn, Swept, Rests, Closures, Landed, WritersOf, Writers, Values
  <2>3. Owing(disk, SweptNow)' <=> Owing(disk, SweptNow)
    BY <1>3 DEF dvars, vars, SweptNow, Swept, Owing, WritersOf, Writers
  <2>4. /\ (Trail(disk) = {})' <=> Trail(disk) = {}
        /\ (Trail(disk) \subseteq Displacements)' <=> Trail(disk) \subseteq Displacements
    BY <1>3 DEF dvars, vars, log, Trail, Rests, WritersOf, Writers, Values, Displacements
  <2> QED
    BY <1>3, <2>1, <2>2, <2>3, <2>4 DEF TrailInv, HomeAdrift, Applying, dvars, vars, budget
<1> QED
  BY <1>1, <1>2, <1>3 DEF DurableNext

\* The asides through every step and every cut.
THEOREM TrailAlwaysInv == DurableSpec => []TrailInv
<1>1. DurableInit => DurableInv /\ TrailInv
  BY DurableBegins, TrailBegins
<1>2. DurableInv /\ DurableInv' /\ IntentInv /\ IntentInv' /\ TrailInv /\ [DurableNext]_dvars
        => TrailInv'
  BY TrailStep
<1> QED
  BY <1>1, <1>2, IntentAlwaysInv, PTL DEF DurableSpec

\* A file moved aside never comes back by a power cut under a journal that stays
\* gone, in any order the backend lands what is not flushed: apply flushes the
\* directory of each aside before its journal goes, a rollback binds what it moved
\* back to land before the journal's removal, and a recovery flushes what it swept.
THEOREM NothingComesBack == DurableSpec => []NoOrphanComesBack
<1>1. DurableInv /\ TrailInv => NoOrphanComesBack
  <2> SUFFICES ASSUME DurableInv, TrailInv, ~HomeAdrift, NEW s \in Survivors(disk),
                      JournalIn(s) = None, NEW a \in Aside
               PROVE  TreeIn(s)[a] = Absent
    BY DEF NoOrphanComesBack, Cuts
  <2>1. DiskInv(disk) /\ kept \in JournalNames /\ Backed(disk)
    BY DEF DurableInv, Does, Standing, TrailInv
  <2>2. s[a] = Gone
    BY <2>1, CutBacks, NoneUnstaged
  <2> QED
    BY <2>2, GoneIsAbsent DEF Slot
<1> QED
  BY <1>1, TrailAlwaysInv, DurableAlwaysInv, PTL

=============================================================================
