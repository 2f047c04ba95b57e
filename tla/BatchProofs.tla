---------------------------- MODULE BatchProofs ----------------------------
(***************************************************************************)
(* What a batch promises across a power cut, proved of every layout of     *)
(* directories, every batch, every backend and any number of calls,        *)
(* failures and cuts.                                                      *)
(*                                                                         *)
(* An op is firm once its file and every directory above it are flushed    *)
(* and a barrier has found them: whatever is written from then on reaches  *)
(* the disk after them.  The invariant says that what has landed is firm,  *)
(* or that the tier's debts cover it; and that no cut shows a later op     *)
(* without those that were firm when it was written.                       *)
(***************************************************************************)
EXTENDS OrderedBatch, DiskProofs, WellFoundedInduction

-----------------------------------------------------------------------------
(* The disks a batch is applied to.                                          *)

IsEntry(w) ==
  \E p \in Files, n \in Inodes : w.puts = At(p, Inode(n)) /\ w.owed \subseteq {DirOf(p)}

IsFolder(w) ==
  \E c \in Folders : w.puts = At(c, Subdir) /\ w.owed \subseteq {DirOf(c)}

IsBytes(w) ==
  \E n \in Inodes, b \in Payloads \cup {Torn} :
    w.puts = At(BytesOf(n), b) /\ w.owed \subseteq {n}

Typed(k) ==
  /\ Sound(k)
  /\ DOMAIN k.store = Files \cup Folders \cup Parts
  /\ \A p \in Files : k.store[p] = Gone \/ \E n \in Inodes : k.store[p] = Inode(n)
  /\ \A c \in Folders : k.store[c] \in {Gone, Subdir}
  /\ \A n \in DOMAIN k.log :
       /\ IsEntry(k.log[n]) \/ IsFolder(k.log[n]) \/ IsBytes(k.log[n])
       /\ k.log[n].device = Device(Root)
       /\ k.log[n].bound => k.log[n].owed = {}

\* A file there is, or may yet be lost, is in a directory that is seen.
Nested(k) ==
  \A p \in Files : (\E v \in Values(k, p) : v # Gone) => ~Lost(Seen(k), p)

\* No two names are of one inode.
Unshared(k) ==
  \A p, q \in Files : p # q => \A n : ~(Inode(n) \in Values(k, p) /\ Inode(n) \in Values(k, q))

DiskInv(k) == Typed(k) /\ Nested(k) /\ Unshared(k)

LEMMA KindsDiffer ==
  /\ \A n : Inode(n) # Gone /\ Inode(n) # Subdir /\ Inode(n).kind = "file" /\ Inode(n).inode = n
  /\ Subdir # Gone /\ Gone.kind # "file" /\ Subdir.kind # "file"
<1>1. \A n : Inode(n).kind = "file" /\ Inode(n).inode = n
  BY DEF Inode
<1>2. Gone.kind = "absent" /\ Subdir.kind = "dir"
  BY DEF Gone, Subdir
<1> QED
  BY <1>1, <1>2

LEMMA PartsDiffer ==
  /\ \A m, n : (BytesOf(m) = BytesOf(n) => m = n) /\ BytesOf(m) # ModeOf(n)
  /\ \A n \in Inodes : BytesOf(n) \in Parts /\ ModeOf(n) \in Parts
  /\ \A l \in Parts : l \notin Files \cup Folders
  /\ \A l \in Files : l \notin Folders
<1>1. \A m, n : (BytesOf(m) = BytesOf(n) => m = n) /\ BytesOf(m) # ModeOf(n)
  BY DEF BytesOf, ModeOf
<1>2. \A n \in Inodes : BytesOf(n) \in Parts /\ ModeOf(n) \in Parts
  BY DEF Parts
<1> QED
  BY <1>1, <1>2, LayoutAssumption

\* What a write of the log puts, by where it puts it.
LEMMA PutFacts ==
  ASSUME NEW k, Typed(k), NEW n \in DOMAIN k.log
  PROVE  /\ DOMAIN k.log[n].puts \subseteq DOMAIN k.store
         /\ \A p \in Files : p \in DOMAIN k.log[n].puts =>
              /\ DOMAIN k.log[n].puts = {p} /\ k.log[n].owed \subseteq {DirOf(p)}
              /\ \E i \in Inodes : k.log[n].puts[p] = Inode(i)
         /\ \A c \in Folders : c \in DOMAIN k.log[n].puts =>
              /\ DOMAIN k.log[n].puts = {c} /\ k.log[n].owed \subseteq {DirOf(c)}
              /\ k.log[n].puts[c] = Subdir
         /\ \A i \in Inodes : BytesOf(i) \in DOMAIN k.log[n].puts =>
              DOMAIN k.log[n].puts = {BytesOf(i)} /\ k.log[n].owed \subseteq {i}
<1> DEFINE w == k.log[n]
<1>1. IsEntry(w) \/ IsFolder(w) \/ IsBytes(w)
  BY DEF Typed
<1>2. DOMAIN k.store = Files \cup Folders \cup Parts
  BY DEF Typed
<1> HIDE DEF w
<1>3. CASE IsEntry(w)
  <2>1. PICK p \in Files, i \in Inodes : w.puts = At(p, Inode(i)) /\ w.owed \subseteq {DirOf(p)}
    BY <1>3 DEF IsEntry
  <2>2. DOMAIN w.puts = {p} /\ w.puts[p] = Inode(i)
    BY <2>1, OnePut
  <2> QED
    BY <1>2, <2>1, <2>2, PartsDiffer DEF w
<1>4. CASE IsFolder(w)
  <2>1. PICK c \in Folders : w.puts = At(c, Subdir) /\ w.owed \subseteq {DirOf(c)}
    BY <1>4 DEF IsFolder
  <2>2. DOMAIN w.puts = {c} /\ w.puts[c] = Subdir
    BY <2>1, OnePut
  <2> QED
    BY <1>2, <2>1, <2>2, PartsDiffer DEF w
<1>5. CASE IsBytes(w)
  <2>1. PICK i \in Inodes, b \in Payloads \cup {Torn} :
          w.puts = At(BytesOf(i), b) /\ w.owed \subseteq {i}
    BY <1>5 DEF IsBytes
  <2>2. DOMAIN w.puts = {BytesOf(i)}
    BY <2>1, OnePut
  <2> QED
    BY <1>2, <2>1, <2>2, PartsDiffer DEF w
<1> QED
  BY <1>1, <1>3, <1>4, <1>5

LEMMA ValueFacts ==
  ASSUME NEW k, Typed(k)
  PROVE  /\ \A p \in Files : \A v \in Values(k, p) : v = Gone \/ \E n \in Inodes : v = Inode(n)
         /\ \A c \in Folders : \A v \in Values(k, c) : v \in {Gone, Subdir}
  BY PutFacts DEF Values, WritersOf, Writers, Typed

LEMMA LandedValue ==
  ASSUME NEW k, Typed(k), NEW S \in SUBSET DOMAIN k.log
  PROVE  /\ DOMAIN Landed(k, S) = Files \cup Folders \cup Parts
         /\ \A l \in DOMAIN k.store : Landed(k, S)[l] \in Values(k, l)
<1>1. Sound(k) /\ DOMAIN k.store = Files \cup Folders \cup Parts
  BY DEF Typed
<1>2. DOMAIN Landed(k, S) = DOMAIN k.store
  BY PutFacts DEF Landed
<1>3. ASSUME NEW l \in DOMAIN k.store
      PROVE  Landed(k, S)[l] \in Values(k, l)
  <2>1. CASE Writers(k, S, l) = {}
    BY <2>1, UnwrittenIs DEF Values
  <2>2. CASE Writers(k, S, l) # {}
    <3>1. PICK n \in Writers(k, S, l) : \A m \in Writers(k, S, l) : m <= n
      BY <1>1, <2>2, LastExists
    <3>2. Landed(k, S)[l] = k.log[n].puts[l]
      BY <1>1, <3>1, LastIs
    <3>3. n \in WritersOf(k, l)
      BY <3>1 DEF Writers, WritersOf
    <3> QED
      BY <3>2, <3>3 DEF Values
  <2> QED
    BY <2>1, <2>2
<1> QED
  BY <1>1, <1>2, <1>3

LEMMA OutcomeValue ==
  ASSUME NEW k, Typed(k), NEW S, NEW T, Possible(k, S, T)
  PROVE  /\ DOMAIN Outcome(k, S, T) = Files \cup Folders \cup Parts
         /\ \A l \in Files \cup Folders : Outcome(k, S, T)[l] \in Values(k, l)
<1>1. S \in SUBSET DOMAIN k.log /\ T \in SUBSET DOMAIN k.log
      /\ \A n \in T : \E i \in Inodes : BytesOf(i) \in DOMAIN k.log[n].puts
  BY PossibleFacts
<1>2. DOMAIN Outcome(k, S, T) = DOMAIN Landed(k, S)
  BY DEF Outcome
<1>3. ASSUME NEW l \in Files \cup Folders
      PROVE  Outcome(k, S, T)[l] = Landed(k, S)[l]
  <2>1. ASSUME NEW n \in T PROVE l \notin DOMAIN k.log[n].puts
    <3>1. PICK i \in Inodes : BytesOf(i) \in DOMAIN k.log[n].puts
      BY <1>1
    <3>2. DOMAIN k.log[n].puts = {BytesOf(i)}
      BY <1>1, <3>1, PutFacts
    <3> QED
      BY <3>2, PartsDiffer
  <2>2. l \in DOMAIN Landed(k, S)
    BY <1>1, LandedValue
  <2> QED
    BY <2>1, <2>2, OutcomeAt
<1>4. DOMAIN k.store = Files \cup Folders \cup Parts
  BY DEF Typed
<1> QED
  BY <1>1, <1>2, <1>3, <1>4, LandedValue

LEMMA SeenValue ==
  ASSUME NEW k, Typed(k)
  PROVE  /\ DOMAIN Seen(k) = Files \cup Folders \cup Parts
         /\ \A l \in DOMAIN k.store : Seen(k)[l] \in Values(k, l)
  BY LandedValue DEF Seen

-----------------------------------------------------------------------------
(* What writes and flushes do to such a disk.                                *)

LEMMA RewrittenValues ==
  ASSUME NEW k, NEW h, Typed(k), Rewritten(h, k)
  PROVE  /\ \A l : WritersOf(h, l) = WritersOf(k, l) /\ Values(h, l) = Values(k, l)
         /\ Seen(h) = Seen(k)
<1>1. \A l : WritersOf(h, l) = WritersOf(k, l)
  BY DEF Rewritten, WritersOf, Writers
<1>2. ASSUME NEW l PROVE Values(h, l) = Values(k, l)
  <2>1. \A n \in WritersOf(k, l) : h.log[n].puts = k.log[n].puts
    BY DEF Rewritten, WritersOf, Writers
  <2> QED
    BY <1>1, <2>1 DEF Values, Rewritten
<1>3. Seen(h) = Seen(k)
  BY RewrittenIsUnseen DEF Typed
<1> QED
  BY <1>1, <1>2, <1>3

LEMMA RewrittenInv ==
  ASSUME NEW k, NEW h, DiskInv(k), Rewritten(h, k), Sound(h),
         \A n \in DOMAIN k.log : /\ h.log[n].owed \subseteq k.log[n].owed
                                 /\ h.log[n].bound => h.log[n].owed = {}
  PROVE  DiskInv(h)
<1>1. Typed(k)
  BY DEF DiskInv
<1>2. ASSUME NEW n \in DOMAIN h.log
      PROVE  /\ IsEntry(h.log[n]) \/ IsFolder(h.log[n]) \/ IsBytes(h.log[n])
             /\ h.log[n].device = Device(Root)
             /\ h.log[n].bound => h.log[n].owed = {}
  <2>1. /\ n \in DOMAIN k.log /\ h.log[n].puts = k.log[n].puts
        /\ h.log[n].owed \subseteq k.log[n].owed /\ h.log[n].device = k.log[n].device
    BY DEF Rewritten
  <2>2. /\ IsEntry(k.log[n]) \/ IsFolder(k.log[n]) \/ IsBytes(k.log[n])
        /\ k.log[n].device = Device(Root)
    BY <1>1, <2>1 DEF Typed
  <2>3. IsEntry(k.log[n]) => IsEntry(h.log[n])
    BY <2>1 DEF IsEntry
  <2>4. IsFolder(k.log[n]) => IsFolder(h.log[n])
    BY <2>1 DEF IsFolder
  <2>5. IsBytes(k.log[n]) => IsBytes(h.log[n])
    BY <2>1 DEF IsBytes
  <2> QED
    BY <2>1, <2>2, <2>3, <2>4, <2>5
<1>3. Typed(h)
  BY <1>1, <1>2 DEF Typed, Rewritten
<1>4. /\ \A l : Values(h, l) = Values(k, l)
      /\ Seen(h) = Seen(k)
  BY <1>1, RewrittenValues
<1> QED
  BY <1>3, <1>4 DEF DiskInv, Nested, Unshared

\* Handing over, and a barrier.
LEMMA HandedInv ==
  ASSUME NEW k, DiskInv(k), NEW os
  PROVE  /\ DiskInv(Handed(k, os)) /\ Rewritten(Handed(k, os), k)
         /\ \A W : Grown(Handed(k, os), k, W)
<1> DEFINE h == Handed(k, os)
<1>1. Typed(k) /\ Sound(k)
  BY DEF DiskInv, Typed
<1>2. /\ Sound(h) /\ Rewritten(h, k)
      /\ \A n \in DOMAIN k.log :
           /\ h.log[n].bound = k.log[n].bound
           /\ k.grade # "None" => h.log[n].owed = k.log[n].owed \ os
  BY <1>1, HandedFacts
<1>3. k.grade = "None" => h = k
  BY DEF Handed
<1> HIDE DEF h
<1>4. \A n \in DOMAIN k.log : h.log[n].owed \subseteq k.log[n].owed
  BY <1>2, <1>3
<1>5. \A n \in DOMAIN k.log : h.log[n].bound => h.log[n].owed = {}
  BY <1>1, <1>2, <1>4 DEF Typed
<1>6. DiskInv(h)
  BY <1>2, <1>4, <1>5, RewrittenInv
<1>7. \A W : Grown(h, k, W)
  BY <1>2, <1>4, RewrittenGrows
<1> QED
  BY <1>2, <1>6, <1>7 DEF h

LEMMA BarrieredIs ==
  ASSUME NEW k, NEW d, Sound(k), NEW n \in DOMAIN k.log
  PROVE  Barriered(k, d).log[n].bound <=> k.log[n].bound \/ n \in OnDevice(k, d)
<1> DEFINE bound(m) == k.log[m].bound \/ m \in OnDevice(k, d)
           log == [m \in DOMAIN k.log |-> [k.log[m] EXCEPT !.bound = bound(m)]]
<1>1. Barriered(k, d) = [k EXCEPT !.log = log]
  BY DEF Barriered
<1>2. log[n] = [k.log[n] EXCEPT !.bound = bound(n)]
  OBVIOUS
<1>3. log[n].bound = bound(n)
  <2> HIDE DEF bound
  <2>1. k.log[n] = [puts |-> k.log[n].puts, device |-> k.log[n].device, owed |-> k.log[n].owed,
                    bound |-> k.log[n].bound, after |-> k.log[n].after]
    BY DEF Sound, Form, IsWrite
  <2> HIDE DEF log
  <2> QED
    BY <1>2, <2>1
<1>4. Barriered(k, d).log = log
  <2> HIDE DEF log
  <2> QED
    BY <1>1 DEF Sound, Form
<1> QED
  BY <1>3, <1>4

LEMMA BarrieredInv ==
  ASSUME NEW k, DiskInv(k), NEW d
  PROVE  /\ DiskInv(Barriered(k, d)) /\ Rewritten(Barriered(k, d), k)
         /\ \A W : Grown(Barriered(k, d), k, W)
<1> DEFINE h == Barriered(k, d)
<1>1. Typed(k) /\ Sound(k)
  BY DEF DiskInv, Typed
<1>2. /\ Sound(h) /\ Rewritten(h, k)
      /\ \A n \in DOMAIN k.log : h.log[n].owed = k.log[n].owed
  BY <1>1, BarrieredFacts
<1>3. \A n \in DOMAIN k.log : h.log[n].bound <=> k.log[n].bound \/ n \in OnDevice(k, d)
  BY <1>1, BarrieredIs
<1> HIDE DEF h
<1>4. \A n \in DOMAIN k.log : h.log[n].bound => h.log[n].owed = {}
  BY <1>1, <1>2, <1>3 DEF Typed, OnDevice
<1>5. DiskInv(h)
  BY <1>2, <1>4, RewrittenInv
<1>6. \A W : Grown(h, k, W)
  BY <1>2, <1>3, RewrittenGrows
<1> QED
  BY <1>2, <1>5, <1>6 DEF h

IsWriteOf(os, puts) ==
  LET w == [puts |-> puts, owed |-> os] IN IsEntry(w) \/ IsFolder(w) \/ IsBytes(w)

\* i is k with one write, of one location.
Issued(i, k, os, l0, v0) ==
  /\ Typed(i) /\ l0 \in DOMAIN k.store
  /\ Grown(i, k, {l0})
  /\ i.store = k.store
  /\ NextWrite(k) \notin DOMAIN k.log
  /\ DOMAIN i.log = DOMAIN k.log \cup {NextWrite(k)}
  /\ \A n \in DOMAIN k.log : i.log[n] = k.log[n]
  /\ i.log[NextWrite(k)].puts = At(l0, v0) /\ i.log[NextWrite(k)].owed = os
  /\ WritersOf(i, l0) = WritersOf(k, l0) \cup {NextWrite(k)}
  /\ \A l : l # l0 => WritersOf(i, l) = WritersOf(k, l)
  /\ Values(i, l0) = Values(k, l0) \cup {v0}
  /\ \A l : l # l0 => Values(i, l) = Values(k, l)
  /\ Seen(i)[l0] = v0
  /\ \A l \in DOMAIN k.store : l # l0 => Seen(i)[l] = Seen(k)[l]

LEMMA IssuedTyped ==
  ASSUME NEW k, Typed(k), NEW os, NEW l0, NEW v0,
         IsWriteOf(os, At(l0, v0)), HomeOf(os) = Device(Root)
  PROVE  Issued(IssueBy(k, os, At(l0, v0)), k, os, l0, v0)
<1> DEFINE i == IssueBy(k, os, At(l0, v0))
           puts == At(l0, v0)
           next == NextWrite(k)
           write == [puts |-> puts, device |-> HomeOf(os), owed |-> os, bound |-> FALSE,
                     after |-> Preceding(k, os, puts)]
           log == [n \in DOMAIN k.log \cup {next} |-> IF n = next THEN write ELSE k.log[n]]
<1>0. Sound(k) /\ \A n \in DOMAIN k.log : k.log[n].device = HomeOf(os)
  BY DEF Typed
<1>1. /\ next \notin DOMAIN k.log /\ \A n \in DOMAIN k.log : n < next
      /\ DOMAIN k.log \subseteq Nat /\ next \in Nat
  <2>1. next \in Nat \ {0} /\ \A n \in DOMAIN k.log : n < next
    BY <1>0, NextIsLast
  <2>2. DOMAIN k.log \subseteq Nat
    BY <1>0 DEF Sound, Form
  <2> QED
    BY <2>1, <2>2
<1>2. DOMAIN puts = {l0} /\ puts[l0] = v0
  BY OnePut
<1>3. Sound(i) /\ Grown(i, k, {l0})
  BY <1>0, <1>2, IssuedIsSound, IssuedGrows
<1>4. /\ write.puts = puts /\ write.owed = os /\ write.device = HomeOf(os)
      /\ write.bound = FALSE
  OBVIOUS
<1>5. i = [store |-> k.store, ordered |-> k.ordered, grade |-> k.grade, log |-> log]
  BY <1>0, IssuedIs DEF i
<1>6. IsEntry(write) \/ IsFolder(write) \/ IsBytes(write)
  BY DEF IsWriteOf, IsEntry, IsFolder, IsBytes
<1> HIDE DEF write, log, next, i
<1>7. i.store = k.store /\ i.log = log
  BY <1>5
<1>8. /\ DOMAIN i.log = DOMAIN k.log \cup {next}
      /\ i.log[next] = write
      /\ \A n \in DOMAIN k.log : i.log[n] = k.log[n]
  BY <1>1, <1>7 DEF log
<1>9. Typed(i)
  BY <1>3, <1>4, <1>6, <1>7, <1>8 DEF Typed
<1>10. l0 \in DOMAIN k.store
  BY <1>2, <1>4, <1>7, <1>8, <1>9, PutFacts
<1>11. /\ WritersOf(i, l0) = WritersOf(k, l0) \cup {next}
       /\ \A l : l # l0 => WritersOf(i, l) = WritersOf(k, l)
  BY <1>1, <1>2, <1>4, <1>8 DEF WritersOf, Writers
<1>12. \A l : \A n \in WritersOf(k, l) : n \in DOMAIN k.log /\ i.log[n].puts[l] = k.log[n].puts[l]
  BY <1>8 DEF WritersOf, Writers
<1>13. Values(i, l0) = Values(k, l0) \cup {v0}
  BY <1>2, <1>4, <1>7, <1>8, <1>11, <1>12 DEF Values
<1>14. \A l : l # l0 => Values(i, l) = Values(k, l)
  BY <1>7, <1>11, <1>12 DEF Values
<1>15. Seen(i)[l0] = v0
  <2>1. next \in WritersOf(i, l0) /\ \A m \in WritersOf(i, l0) : m <= next
    BY <1>1, <1>8, <1>11 DEF WritersOf, Writers
  <2>2. Seen(i)[l0] = i.log[next].puts[l0]
    BY <1>3, <2>1, LastIs DEF WritersOf, Seen
  <2> QED
    BY <1>2, <1>4, <1>8, <2>2
<1>16. ASSUME NEW l \in DOMAIN k.store, l # l0
       PROVE  Seen(i)[l] = Seen(k)[l]
  <2>1. CASE WritersOf(k, l) = {}
    <3>1. Seen(k)[l] = k.store[l]
      BY <2>1, UnwrittenIs DEF Seen, WritersOf
    <3>2. Seen(i)[l] = i.store[l]
      BY <1>7, <1>11, <1>16, <2>1, UnwrittenIs DEF Seen, WritersOf
    <3> QED
      BY <1>7, <3>1, <3>2
  <2>2. CASE WritersOf(k, l) # {}
    <3>1. PICK n \in WritersOf(k, l) : \A m \in WritersOf(k, l) : m <= n
      BY <1>0, <2>2, LastExists DEF WritersOf
    <3>2. Seen(k)[l] = k.log[n].puts[l]
      BY <1>0, <3>1, LastIs DEF Seen, WritersOf
    <3>3. n \in WritersOf(i, l) /\ \A m \in WritersOf(i, l) : m <= n
      BY <1>11, <1>16, <3>1
    <3>4. Seen(i)[l] = i.log[n].puts[l]
      BY <1>3, <3>3, LastIs DEF Seen, WritersOf
    <3> QED
      BY <1>12, <3>1, <3>2, <3>4
  <2> QED
    BY <2>1, <2>2
<1> HIDE DEF puts
<1>17. i.log[next].puts = puts /\ i.log[next].owed = os
  BY <1>4, <1>8
<1> QED
  BY <1>1, <1>3, <1>7, <1>8, <1>9, <1>10, <1>11, <1>13, <1>14, <1>15, <1>16, <1>17
  DEF next, puts, i, Issued

-----------------------------------------------------------------------------
(* The inodes nothing knows.                                                 *)

LEMMA NatHasLeast ==
  ASSUME NEW S \in SUBSET Nat, S # {}
  PROVE  Fin!Min(S) \in S
<1>1. PICK m \in S : \A n \in S : ~(<<n, m>> \in OpToRel(<, Nat))
  BY NatLessThanWellFounded, WFMin
<1>2. \A n \in S : m <= n
  <2> SUFFICES ASSUME NEW n \in S, n < m PROVE FALSE
    OBVIOUS
  <2>1. <<n, m>> \in Nat \X Nat
    OBVIOUS
  <2>2. <<n, m>> \in OpToRel(<, Nat)
    BY <2>1 DEF OpToRel
  <2> QED BY <1>1, <2>2
<1> QED
  BY <1>2 DEF Fin!Min

LEMMA UnknownIs ==
  ASSUME NEW k, Typed(k), NEW n \in Unknown(k, Inodes)
  PROVE  /\ n \in Inodes
         /\ \A p \in Files : Inode(n) \notin Values(k, p)
         /\ WritersOf(k, BytesOf(n)) = {}
<1> DEFINE named == {e \in {k.store[l] : l \in DOMAIN k.store \ Parts} : e.kind = "file"}
<1>1. /\ n \in Inodes /\ Inode(n) \notin named
      /\ \A q \in DOMAIN k.log : \A l : l \in DOMAIN k.log[q].puts =>
           /\ l # BytesOf(n)
           /\ l \notin Parts => k.log[q].puts[l] # Inode(n)
  BY DEF Unknown
<1>2. ASSUME NEW p \in Files
      PROVE  Inode(n) \notin Values(k, p)
  <2>1. p \in DOMAIN k.store \ Parts
    BY PartsDiffer DEF Typed
  <2>2. k.store[p] # Inode(n)
    BY <1>1, <2>1, KindsDiffer
  <2>3. \A q \in WritersOf(k, p) : k.log[q].puts[p] # Inode(n)
    BY <1>1, <2>1 DEF WritersOf, Writers
  <2> QED
    BY <2>2, <2>3 DEF Values
<1>3. WritersOf(k, BytesOf(n)) = {}
  BY <1>1 DEF WritersOf, Writers
<1> QED
  BY <1>1, <1>2, <1>3

LEMMA FreshIs ==
  ASSUME NEW k, Unknown(k, Inodes) # {}
  PROVE  Fresh(k, Inodes) \in Unknown(k, Inodes)
<1>1. Unknown(k, Inodes) \subseteq Inodes
  BY DEF Unknown
<1> QED
  BY <1>1, NatHasLeast, DeviceAssumption DEF Fresh

LEMMA MintedInv ==
  ASSUME NEW k, DiskInv(k), NEW n \in Inodes
  PROVE  LET h == Minted(k, n) IN
         /\ DiskInv(h) /\ Grown(h, k, {BytesOf(n), ModeOf(n)})
         /\ \A l : WritersOf(h, l) = WritersOf(k, l)
         /\ \A l \in Files \cup Folders : Values(h, l) = Values(k, l)
         /\ \A l \in DOMAIN k.store \ {BytesOf(n), ModeOf(n)} : Seen(h)[l] = Seen(k)[l]
         /\ h.log = k.log
<1> DEFINE h == Minted(k, n)
           store == [k.store EXCEPT ![BytesOf(n)] = Torn, ![ModeOf(n)] = FALSE]
<1>1. Typed(k) /\ Sound(k) /\ DOMAIN k.store = Files \cup Folders \cup Parts
  BY DEF DiskInv, Typed
<1>2. /\ {BytesOf(n), ModeOf(n)} \subseteq DOMAIN k.store
      /\ \A l \in Files \cup Folders : l \notin {BytesOf(n), ModeOf(n)} /\ l \in DOMAIN k.store
  BY <1>1, PartsDiffer
<1>3. Sound(h) /\ Grown(h, k, {BytesOf(n), ModeOf(n)})
  BY <1>1, <1>2, MintedIsSound, MintedGrows
<1>4. /\ DOMAIN store = DOMAIN k.store
      /\ \A l \in DOMAIN k.store \ {BytesOf(n), ModeOf(n)} : store[l] = k.store[l]
  OBVIOUS
<1>5. h = [k EXCEPT !.store = store]
  BY DEF Minted
<1> HIDE DEF h, store
<1>6. h.log = k.log /\ h.store = store
  BY <1>1, <1>5 DEF Sound, Form
<1>7. \A l \in Files \cup Folders : h.store[l] = k.store[l]
  BY <1>2, <1>4, <1>6
<1>8. Typed(h)
  BY <1>1, <1>3, <1>4, <1>6, <1>7 DEF Typed
<1>9. \A l : WritersOf(h, l) = WritersOf(k, l)
  BY <1>6 DEF WritersOf, Writers
<1>10. \A l \in Files \cup Folders : Values(h, l) = Values(k, l)
  BY <1>6, <1>7, <1>9 DEF Values
<1>11. ASSUME NEW l \in DOMAIN k.store \ {BytesOf(n), ModeOf(n)}
       PROVE  Seen(h)[l] = Seen(k)[l]
  <2>1. CASE WritersOf(k, l) = {}
    <3>1. Seen(k)[l] = k.store[l]
      BY <2>1, UnwrittenIs DEF Seen, WritersOf
    <3>2. Seen(h)[l] = h.store[l]
      BY <1>4, <1>6, <1>9, <2>1, UnwrittenIs DEF Seen, WritersOf
    <3> QED
      BY <1>4, <1>6, <3>1, <3>2
  <2>2. CASE WritersOf(k, l) # {}
    <3>1. PICK m \in WritersOf(k, l) : \A j \in WritersOf(k, l) : j <= m
      BY <1>1, <2>2, LastExists DEF WritersOf
    <3>2. Seen(k)[l] = k.log[m].puts[l]
      BY <1>1, <3>1, LastIs DEF Seen, WritersOf
    <3>3. Seen(h)[l] = h.log[m].puts[l]
      BY <1>3, <1>9, <3>1, LastIs DEF Seen, WritersOf
    <3> QED
      BY <1>6, <3>2, <3>3
  <2> QED
    BY <2>1, <2>2
<1>12. \A p \in Files : Lost(Seen(h), p) <=> Lost(Seen(k), p)
  <2>1. \A p \in Files : \A c \in Chain[DirOf(p)] : c \in Folders
    BY LayoutAssumption
  <2>2. \A c \in Folders : Seen(h)[c] = Seen(k)[c]
    BY <1>2, <1>11
  <2> QED
    BY <2>1, <2>2 DEF Lost
<1>13. Nested(h) /\ Unshared(h)
  BY <1>10, <1>12 DEF DiskInv, Nested, Unshared
<1> QED
  BY <1>3, <1>6, <1>8, <1>9, <1>10, <1>11, <1>13 DEF DiskInv, h

-----------------------------------------------------------------------------
(* The writes of a batch.                                                    *)

LEMMA HomeOfOne ==
  ASSUME NEW o \in Inodes \cup Folders \cup {Root}
  PROVE  HomeOf({o}) = Device(Root)
  BY DeviceAssumption DEF HomeOf

\* h is k once directory c has been made.
Made(h, k, c) ==
  /\ DiskInv(h) /\ Grown(h, k, {c}) /\ h.store = k.store
  /\ Seen(h)[c] = Subdir
  /\ \A l \in DOMAIN k.store : l # c => Seen(h)[l] = Seen(k)[l]
  /\ \A n \in DOMAIN h.log \ DOMAIN k.log : h.log[n].owed = {DirOf(c)}

LEMMA MadeInv ==
  ASSUME NEW k, DiskInv(k), NEW c \in Folders
  PROVE  Made(Enter(k, At(c, Subdir)), k, c)
<1> DEFINE os == {DirOf(c)}
           h == Enter(k, At(c, Subdir))
<1>1. Typed(k)
  BY DEF DiskInv
<1>2. IsWriteOf(os, At(c, Subdir))
  BY DEF IsWriteOf, IsFolder
<1>3. h = IssueBy(k, os, At(c, Subdir))
  <2>2. DOMAIN At(c, Subdir) = {c}
    BY OnePut
  <2>1. {DirOf(p) : p \in DOMAIN At(c, Subdir)} = os
    BY <2>2
  <2> QED
    BY <2>1 DEF Enter
<1>4. HomeOf(os) = Device(Root)
  BY HomeOfOne, LayoutAssumption
<1> HIDE DEF os, h
<1>0. Issued(h, k, os, c, Subdir)
  BY <1>1, <1>2, <1>3, <1>4, IssuedTyped
<1>5. /\ Typed(h) /\ c \in DOMAIN k.store
      /\ Grown(h, k, {c})
      /\ h.store = k.store
      /\ DOMAIN h.log = DOMAIN k.log \cup {NextWrite(k)}
      /\ h.log[NextWrite(k)].owed = os
      /\ \A l : l # c => Values(h, l) = Values(k, l)
      /\ Seen(h)[c] = Subdir
      /\ \A l \in DOMAIN k.store : l # c => Seen(h)[l] = Seen(k)[l]
  BY <1>0 DEF Issued
<1>6. \A p \in Files : ~Lost(Seen(k), p) => ~Lost(Seen(h), p)
  <2>1. \A p \in Files : \A d \in Chain[DirOf(p)] : d \in DOMAIN k.store
    BY <1>1, LayoutAssumption DEF Typed
  <2> QED
    BY <1>5, <2>1, KindsDiffer DEF Lost
<1>7. \A p \in Files : p # c /\ Values(h, p) = Values(k, p)
  BY <1>5, PartsDiffer
<1>8. Nested(h) /\ Unshared(h)
  BY <1>6, <1>7 DEF DiskInv, Nested, Unshared
<1> QED
  BY <1>5, <1>8 DEF DiskInv, os, h, Made

\* h is k once file q has been given an inode that no other name knows.
Entered(h, k, q, n) ==
  /\ DiskInv(h) /\ Grown(h, k, {q}) /\ h.store = k.store
  /\ Seen(h)[q] = Inode(n)
  /\ \A l \in DOMAIN k.store : l # q => Seen(h)[l] = Seen(k)[l]
  /\ \A l : l # q => WritersOf(h, l) = WritersOf(k, l) /\ Values(h, l) = Values(k, l)
  /\ Values(h, q) = Values(k, q) \cup {Inode(n)}
  /\ \A m \in DOMAIN k.log : h.log[m] = k.log[m]
  /\ \A m \in DOMAIN h.log \ DOMAIN k.log : h.log[m].puts[q] = Inode(n)

LEMMA EnteredInv ==
  ASSUME NEW k, DiskInv(k), NEW q \in Files, ~Lost(Seen(k), q), NEW n \in Inodes,
         \A p \in Files : p # q => Inode(n) \notin Values(k, p)
  PROVE  Entered(Enter(k, At(q, Inode(n))), k, q, n)
<1> DEFINE os == {DirOf(q)}
           h == Enter(k, At(q, Inode(n)))
<1>1. Typed(k)
  BY DEF DiskInv
<1>2. IsWriteOf(os, At(q, Inode(n)))
  BY DEF IsWriteOf, IsEntry
<1>3. h = IssueBy(k, os, At(q, Inode(n)))
  <2>2. DOMAIN At(q, Inode(n)) = {q}
    BY OnePut
  <2>1. {DirOf(p) : p \in DOMAIN At(q, Inode(n))} = os
    BY <2>2
  <2> QED
    BY <2>1 DEF Enter
<1>4. HomeOf(os) = Device(Root)
  BY HomeOfOne, LayoutAssumption
<1> HIDE DEF os, h
<1>0. Issued(h, k, os, q, Inode(n))
  BY <1>1, <1>2, <1>3, <1>4, IssuedTyped
<1>5. /\ Typed(h) /\ q \in DOMAIN k.store
      /\ Grown(h, k, {q})
      /\ h.store = k.store
      /\ \A m \in DOMAIN k.log : h.log[m] = k.log[m]
      /\ DOMAIN h.log = DOMAIN k.log \cup {NextWrite(k)}
      /\ h.log[NextWrite(k)].puts = At(q, Inode(n))
      /\ Values(h, q) = Values(k, q) \cup {Inode(n)}
      /\ \A l : l # q => Values(h, l) = Values(k, l)
      /\ \A l : l # q => WritersOf(h, l) = WritersOf(k, l)
      /\ Seen(h)[q] = Inode(n)
      /\ \A l \in DOMAIN k.store : l # q => Seen(h)[l] = Seen(k)[l]
  BY <1>0 DEF Issued
<1>6. \A p \in Files : Lost(Seen(h), p) <=> Lost(Seen(k), p)
  <2>1. \A p \in Files : \A d \in Chain[DirOf(p)] : d \in DOMAIN k.store /\ d # q
    BY <1>1, LayoutAssumption DEF Typed
  <2> QED
    BY <1>5, <2>1 DEF Lost
<1>7. Nested(h)
  <2> SUFFICES ASSUME NEW p \in Files, NEW v \in Values(h, p), v # Gone
               PROVE  ~Lost(Seen(h), p)
    BY DEF Nested
  <2>1. CASE p = q
    BY <1>6, <2>1
  <2>2. CASE p # q
    BY <1>5, <1>6, <2>2 DEF DiskInv, Nested
  <2> QED
    BY <2>1, <2>2
<1>8. Unshared(h)
  <2> SUFFICES ASSUME NEW p \in Files, NEW r \in Files, p # r, NEW m,
                      Inode(m) \in Values(h, p), Inode(m) \in Values(h, r)
               PROVE  FALSE
    BY DEF Unshared
  <2>1. Inode(m) = Inode(n) => m = n
    BY KindsDiffer
  <2>2. \A f \in Files : Inode(m) \in Values(h, f) => Inode(m) \in Values(k, f) \/ (f = q /\ m = n)
    BY <1>5, <2>1
  <2>3. ~(Inode(m) \in Values(k, p) /\ Inode(m) \in Values(k, r))
    BY DEF DiskInv, Unshared
  <2> QED
    BY <2>2, <2>3
<1>9. \A m \in DOMAIN h.log \ DOMAIN k.log : h.log[m].puts[q] = Inode(n)
  <2>1. At(q, Inode(n))[q] = Inode(n)
    BY OnePut
  <2> QED
    BY <1>5, <2>1
<1> QED
  BY <1>5, <1>7, <1>8, <1>9 DEF DiskInv, h, Entered

\* h is k once b has been written to inode n.
Filled(h, k, n, b) ==
  /\ DiskInv(h) /\ Grown(h, k, {BytesOf(n)}) /\ h.store = k.store
  /\ Seen(h)[BytesOf(n)] = b
  /\ \A l \in DOMAIN k.store : l # BytesOf(n) => Seen(h)[l] = Seen(k)[l]
  /\ \A l \in Files \cup Folders : Values(h, l) = Values(k, l)
  /\ \A l \in Files \cup Folders : WritersOf(h, l) = WritersOf(k, l)
  /\ WritersOf(h, BytesOf(n)) \subseteq
       WritersOf(k, BytesOf(n)) \cup {m \in DOMAIN h.log : h.log[m].owed = {n}}

LEMMA FilledInv ==
  ASSUME NEW k, DiskInv(k), NEW n \in Inodes, NEW b \in Payloads \cup {Torn}
  PROVE  Filled(SetBytes(k, n, b), k, n, b)
<1> DEFINE l0 == BytesOf(n)
           h == SetBytes(k, n, b)
<1>1. Typed(k)
  BY DEF DiskInv
<1>2. IsWriteOf({n}, At(l0, b))
  BY DEF IsWriteOf, IsBytes
<1>3. h = IssueBy(k, {n}, At(l0, b))
  BY DEF SetBytes
<1>4. HomeOf({n}) = Device(Root)
  BY HomeOfOne
<1>5. \A l \in Files \cup Folders : l # l0
  BY PartsDiffer
<1> HIDE DEF l0, h
<1>0. Issued(h, k, {n}, l0, b)
  BY <1>1, <1>2, <1>3, <1>4, IssuedTyped
<1>6. /\ Typed(h)
      /\ Grown(h, k, {l0})
      /\ h.store = k.store
      /\ DOMAIN h.log = DOMAIN k.log \cup {NextWrite(k)}
      /\ h.log[NextWrite(k)].owed = {n}
      /\ WritersOf(h, l0) = WritersOf(k, l0) \cup {NextWrite(k)}
      /\ \A l : l # l0 => Values(h, l) = Values(k, l)
      /\ \A l : l # l0 => WritersOf(h, l) = WritersOf(k, l)
      /\ Seen(h)[l0] = b
      /\ \A l \in DOMAIN k.store : l # l0 => Seen(h)[l] = Seen(k)[l]
  BY <1>0 DEF Issued
<1>7. \A p \in Files : Lost(Seen(h), p) <=> Lost(Seen(k), p)
  <2>1. \A p \in Files : \A d \in Chain[DirOf(p)] : d \in DOMAIN k.store /\ d # l0
    BY <1>1, <1>5, LayoutAssumption DEF Typed
  <2> QED
    BY <1>6, <2>1 DEF Lost
<1>8. Nested(h) /\ Unshared(h)
  BY <1>5, <1>6, <1>7 DEF DiskInv, Nested, Unshared
<1> QED
  BY <1>5, <1>6, <1>8 DEF DiskInv, l0, h, Filled

LEMMA GrownWider ==
  ASSUME NEW k, NEW h, NEW V, NEW W, Grown(h, k, V), V \subseteq W
  PROVE  Grown(h, k, W)
  BY DEF Grown

\* h is k once file q holds b, in inode n.
WroteFile(h, k, q, n, b) ==
  /\ DiskInv(h) /\ Grown(h, k, {q, BytesOf(n), ModeOf(n)}) /\ n \in Inodes
  /\ \A p \in Files : p # q => Inode(n) \notin Values(k, p)
  /\ h.store[BytesOf(n)] = k.store[BytesOf(n)] \/ Inode(n) \notin Values(k, q)
  /\ h.store[q] = k.store[q]
  /\ Seen(h)[q] = Inode(n) /\ Seen(h)[BytesOf(n)] = b
  /\ \A l \in DOMAIN k.store \ {q, BytesOf(n), ModeOf(n)} : Seen(h)[l] = Seen(k)[l]

\* The name is published after the bytes, which owe nothing.
WroteWhole(h, k, q, n) ==
  /\ Inode(n) \notin Values(k, q)
  /\ \A m \in WritersOf(h, BytesOf(n)) : h.log[m].owed = {}
  /\ \A m \in WritersOf(h, q) \ DOMAIN k.log :
       /\ WritersOf(h, BytesOf(n)) \subseteq h.log[m].after
       /\ h.log[m].puts[q] = Inode(n)

LEMMA OverwrittenWrites ==
  ASSUME NEW k, DiskInv(k), NEW q \in Files, ~Lost(Seen(k), q), NEW b \in Payloads \cup {Torn},
         Unknown(k, Inodes) # {}
  PROVE  \E n : WroteFile(Overwritten(k, q, b, Inodes), k, q, n, b)
<1>1. /\ Typed(k) /\ DOMAIN k.store = Files \cup Folders \cup Parts
      /\ q \in DOMAIN k.store
  BY DEF DiskInv, Typed
<1>2. CASE Seen(k)[q].kind = "file"
  <2>1. Seen(k)[q] \in Values(k, q)
    BY <1>1, SeenValue
  <2>2. PICK n \in Inodes : Seen(k)[q] = Inode(n)
    BY <1>1, <1>2, <2>1, ValueFacts, KindsDiffer
  <2> DEFINE h == SetBytes(k, n, b)
  <2>3. Overwritten(k, q, b, Inodes) = h
    BY <1>2, <2>2, KindsDiffer DEF Overwritten
  <2>4. /\ DiskInv(h) /\ Grown(h, k, {BytesOf(n)}) /\ h.store = k.store
        /\ Seen(h)[BytesOf(n)] = b
        /\ \A l \in DOMAIN k.store : l # BytesOf(n) => Seen(h)[l] = Seen(k)[l]
    <3>1. Filled(h, k, n, b)
      BY FilledInv
    <3> HIDE DEF h
    <3> QED
      BY <3>1 DEF Filled
  <2> HIDE DEF h
  <2>5. Grown(h, k, {q, BytesOf(n), ModeOf(n)})
    BY <2>4, GrownWider
  <2>6. \A p \in Files : p # q => Inode(n) \notin Values(k, p)
    BY <2>1, <2>2 DEF DiskInv, Unshared
  <2>7. q # BytesOf(n)
    BY PartsDiffer
  <2>8. WroteFile(h, k, q, n, b)
    BY <1>1, <2>2, <2>4, <2>5, <2>6, <2>7 DEF WroteFile
  <2> QED
    BY <2>3, <2>8
<1>3. CASE Seen(k)[q].kind # "file"
  <2> DEFINE n == Fresh(k, Inodes)
             g == Minted(k, n)
             i == Enter(g, At(q, Inode(n)))
             h == SetBytes(i, n, b)
  <2>1. Overwritten(k, q, b, Inodes) = h
    BY <1>3 DEF Overwritten
  <2>2. /\ n \in Inodes
        /\ \A p \in Files : Inode(n) \notin Values(k, p)
    BY <1>1, FreshIs, UnknownIs
  <2> HIDE DEF n
  <2>3. /\ DiskInv(g) /\ Grown(g, k, {BytesOf(n), ModeOf(n)})
        /\ \A l \in Files \cup Folders : Values(g, l) = Values(k, l)
        /\ \A l \in DOMAIN k.store \ {BytesOf(n), ModeOf(n)} : Seen(g)[l] = Seen(k)[l]
    BY <2>2, MintedInv
  <2> HIDE DEF g
  <2>4. DOMAIN g.store = DOMAIN k.store /\ ~Lost(Seen(g), q)
    <3>1. \A d \in Chain[DirOf(q)] : d \in DOMAIN k.store \ {BytesOf(n), ModeOf(n)}
      BY <1>1, <2>2, LayoutAssumption, PartsDiffer
    <3> QED
      BY <2>3, <3>1 DEF Lost, Grown
  <2>5. /\ DiskInv(i) /\ Grown(i, g, {q}) /\ i.store = g.store
        /\ Seen(i)[q] = Inode(n)
        /\ \A l \in DOMAIN g.store : l # q => Seen(i)[l] = Seen(g)[l]
    <3>1. Entered(i, g, q, n)
      BY <2>2, <2>3, <2>4, EnteredInv
    <3> HIDE DEF i
    <3> QED
      BY <3>1 DEF Entered
  <2> HIDE DEF i
  <2>6. /\ DiskInv(h) /\ Grown(h, i, {BytesOf(n)}) /\ h.store = i.store
        /\ Seen(h)[BytesOf(n)] = b
        /\ \A l \in DOMAIN i.store : l # BytesOf(n) => Seen(h)[l] = Seen(i)[l]
    <3>1. Filled(h, i, n, b)
      BY <2>2, <2>5, FilledInv
    <3> HIDE DEF h
    <3> QED
      BY <3>1 DEF Filled
  <2> HIDE DEF h
  <2>7. Grown(h, k, {q, BytesOf(n), ModeOf(n)})
    <3>1. Grown(i, k, {BytesOf(n), ModeOf(n)} \cup {q})
      BY <2>3, <2>5, GrownTwice
    <3>2. Grown(h, k, {BytesOf(n), ModeOf(n)} \cup {q} \cup {BytesOf(n)})
      BY <2>6, <3>1, GrownTwice
    <3> QED
      BY <3>2, GrownWider
  <2>8. q \notin {BytesOf(n), ModeOf(n)}
    BY <2>2, PartsDiffer
  <2>9. h.store[q] = k.store[q]
    BY <1>1, <2>3, <2>5, <2>6, <2>8 DEF Grown
  <2>10. WroteFile(h, k, q, n, b)
    BY <1>1, <2>2, <2>3, <2>4, <2>5, <2>6, <2>7, <2>8, <2>9 DEF WroteFile
  <2> QED
    BY <2>1, <2>10
<1> QED
  BY <1>2, <1>3

LEMMA ReplaceWrites ==
  ASSUME NEW k, DiskInv(k), NEW q \in Files, ~Lost(Seen(k), q), NEW b \in Payloads,
         Unknown(k, Inodes) # {}, Satisfies(k.grade, "Ordered")
  PROVE  \E n : /\ WroteFile(Replace(k, q, b, FALSE, Inodes), k, q, n, b)
                /\ WroteWhole(Replace(k, q, b, FALSE, Inodes), k, q, n)
<1> DEFINE n == Fresh(k, Inodes)
           g == Minted(k, n)
           w == SetBytes(g, n, b)
           p == Handed(w, {n})
           s == Barriered(p, Device(n))
           h == Enter(s, At(q, Inode(n)))
<1>1. /\ Typed(k) /\ DOMAIN k.store = Files \cup Folders \cup Parts
      /\ q \in DOMAIN k.store
  BY DEF DiskInv, Typed
<1>2. /\ n \in Inodes
      /\ \A f \in Files : Inode(n) \notin Values(k, f)
      /\ WritersOf(k, BytesOf(n)) = {}
  BY <1>1, FreshIs, UnknownIs
<1>3. Replace(k, q, b, FALSE, Inodes) = Enter(Sync(w, n, "Ordered"), At(q, Inode(n)))
  BY DEF Replace
<1> HIDE DEF n
<1>4. q \notin {BytesOf(n), ModeOf(n)}
  BY <1>2, PartsDiffer
<1>5. /\ DiskInv(g) /\ Grown(g, k, {BytesOf(n), ModeOf(n)}) /\ g.log = k.log
      /\ \A l : WritersOf(g, l) = WritersOf(k, l)
      /\ \A l \in Files \cup Folders : Values(g, l) = Values(k, l)
      /\ \A l \in DOMAIN k.store \ {BytesOf(n), ModeOf(n)} : Seen(g)[l] = Seen(k)[l]
  BY <1>2, MintedInv
<1> HIDE DEF g
<1>6. /\ DiskInv(w) /\ Grown(w, g, {BytesOf(n)}) /\ w.store = g.store
      /\ Seen(w)[BytesOf(n)] = b
      /\ \A l \in DOMAIN g.store : l # BytesOf(n) => Seen(w)[l] = Seen(g)[l]
      /\ \A l \in Files \cup Folders : Values(w, l) = Values(g, l)
      /\ \A l \in Files \cup Folders : WritersOf(w, l) = WritersOf(g, l)
      /\ WritersOf(w, BytesOf(n)) \subseteq
           WritersOf(g, BytesOf(n)) \cup {m \in DOMAIN w.log : w.log[m].owed = {n}}
  <2>1. Filled(w, g, n, b)
    BY <1>2, <1>5, FilledInv
  <2> HIDE DEF w
  <2> QED
    BY <2>1 DEF Filled
<1> HIDE DEF w
<1>7. w.grade = k.grade /\ k.grade # "None"
  BY <1>5, <1>6 DEF Grown, Satisfies
<1>8. /\ DiskInv(p) /\ Rewritten(p, w) /\ Grown(p, w, {})
      /\ \A m \in DOMAIN w.log : p.log[m].owed = w.log[m].owed \ {n}
  <2>1. Sound(w)
    BY <1>6 DEF DiskInv, Typed
  <2> QED
    BY <1>6, <1>7, <2>1, HandedInv, HandedFacts
<1>9. Sync(w, n, "Ordered") = s
  BY <1>7 DEF Sync
<1> HIDE DEF p
<1>10. /\ DiskInv(s) /\ Rewritten(s, p) /\ Grown(s, p, {})
       /\ \A m \in DOMAIN p.log : /\ s.log[m].owed = p.log[m].owed
                                  /\ m \in OnDevice(p, Device(n)) => s.log[m].bound
  <2>1. Sound(p)
    BY <1>8 DEF DiskInv, Typed
  <2> QED
    BY <1>8, <2>1, BarrieredInv, BarrieredFacts
<1> HIDE DEF s
<1>11. /\ Seen(s) = Seen(w) /\ s.store = w.store
       /\ \A l : WritersOf(s, l) = WritersOf(w, l) /\ Values(s, l) = Values(w, l)
  <2>1. Typed(w) /\ Typed(p)
    BY <1>6, <1>8 DEF DiskInv
  <2> QED
    BY <1>8, <1>10, <2>1, RewrittenValues DEF Rewritten
<1>12. \A m \in WritersOf(s, BytesOf(n)) : m \in DOMAIN s.log /\ s.log[m].owed = {} /\ s.log[m].bound
  <2> SUFFICES ASSUME NEW m \in WritersOf(s, BytesOf(n))
               PROVE  m \in DOMAIN s.log /\ s.log[m].owed = {} /\ s.log[m].bound
    OBVIOUS
  <2>1. m \in DOMAIN w.log /\ w.log[m].owed = {n}
    BY <1>2, <1>5, <1>6, <1>11
  <2>2. m \in DOMAIN p.log /\ p.log[m].owed = {} /\ m \in DOMAIN s.log
    BY <1>8, <1>10, <2>1 DEF Rewritten
  <2>3. p.log[m].device = Device(n)
    BY <1>2, <1>8, <2>2, DeviceAssumption DEF DiskInv, Typed
  <2> QED
    BY <1>10, <2>2, <2>3 DEF OnDevice
<1>13. /\ ~Lost(Seen(s), q) /\ DOMAIN s.store = DOMAIN k.store
  <2>1. \A d \in Chain[DirOf(q)] : d \in DOMAIN k.store \ {BytesOf(n), ModeOf(n)}
    BY <1>1, <1>2, LayoutAssumption, PartsDiffer
  <2> QED
    BY <1>5, <1>6, <1>11, <2>1 DEF Lost, Grown
<1>14. \A f \in Files : Inode(n) \notin Values(s, f)
  BY <1>2, <1>5, <1>6, <1>11
<1>15. /\ DiskInv(h) /\ Grown(h, s, {q}) /\ h.store = s.store
       /\ Seen(h)[q] = Inode(n)
       /\ \A l \in DOMAIN s.store : l # q => Seen(h)[l] = Seen(s)[l]
       /\ \A l : l # q => WritersOf(h, l) = WritersOf(s, l)
       /\ \A m \in DOMAIN s.log : h.log[m] = s.log[m]
       /\ \A m \in DOMAIN h.log \ DOMAIN s.log : h.log[m].puts[q] = Inode(n)
  <2>1. Entered(h, s, q, n)
    BY <1>2, <1>10, <1>13, <1>14, EnteredInv
  <2> HIDE DEF h
  <2> QED
    BY <2>1 DEF Entered
<1> HIDE DEF h
<1>16. Grown(h, k, {q, BytesOf(n), ModeOf(n)})
  <2>1. Grown(w, k, {BytesOf(n), ModeOf(n)} \cup {BytesOf(n)})
    BY <1>5, <1>6, GrownTwice
  <2>2. Grown(s, w, {} \cup {})
    BY <1>8, <1>10, GrownTwice
  <2>3. Grown(h, w, {} \cup {} \cup {q})
    BY <1>15, <2>2, GrownTwice
  <2>4. Grown(h, k, {BytesOf(n), ModeOf(n)} \cup {BytesOf(n)} \cup ({} \cup {} \cup {q}))
    BY <2>1, <2>3, GrownTwice
  <2> QED
    BY <2>4, GrownWider
<1>17. h.store[q] = k.store[q]
  BY <1>1, <1>4, <1>5, <1>6, <1>11, <1>15 DEF Grown
<1>18. WroteFile(h, k, q, n, b)
  <2>1. DOMAIN g.store = DOMAIN k.store /\ DOMAIN s.store = DOMAIN k.store
    BY <1>5, <1>13 DEF Grown
  <2>2. Seen(h)[BytesOf(n)] = b
    BY <1>1, <1>2, <1>4, <1>6, <1>11, <1>13, <1>15, PartsDiffer
  <2>3. \A l \in DOMAIN k.store \ {q, BytesOf(n), ModeOf(n)} : Seen(h)[l] = Seen(k)[l]
    BY <1>5, <1>6, <1>11, <1>15, <2>1
  <2> QED
    BY <1>2, <1>15, <1>16, <1>17, <2>2, <2>3 DEF WroteFile
<1>19. WroteWhole(h, k, q, n)
  <2>1. WritersOf(h, BytesOf(n)) = WritersOf(s, BytesOf(n))
    BY <1>4, <1>15
  <2>2. ASSUME NEW m \in WritersOf(h, q) \ DOMAIN k.log
        PROVE  /\ WritersOf(h, BytesOf(n)) \subseteq h.log[m].after
               /\ h.log[m].puts[q] = Inode(n)
    <3>1. m \in DOMAIN h.log \ DOMAIN s.log
      <4>1. m \notin WritersOf(s, q)
        BY <1>5, <1>6, <1>11, <2>2 DEF WritersOf, Writers
      <4>2. m \in DOMAIN h.log /\ q \in DOMAIN h.log[m].puts
        BY <2>2 DEF WritersOf, Writers
      <4> QED
        BY <1>15, <4>1, <4>2 DEF WritersOf, Writers
    <3> QED
      BY <1>12, <1>15, <2>1, <3>1 DEF Grown
  <2>3. \A m \in WritersOf(h, BytesOf(n)) : h.log[m].owed = {}
    BY <1>12, <1>15, <2>1
  <2> QED
    BY <1>2, <2>2, <2>3 DEF WroteWhole
<1> QED
  BY <1>3, <1>9, <1>18, <1>19 DEF h

-----------------------------------------------------------------------------
(* What a reader finds after a cut.                                          *)

LEMMA ChainIsFolders ==
  \A p \in Files \cup Folders : Chain[DirOf(p)] \subseteq Folders
  BY LayoutAssumption

LEMMA FoundAgrees ==
  ASSUME NEW s, NEW t, NEW p, s[p] = t[p],
         \A c \in Chain[DirOf(p)] : s[c] = t[c],
         s[p].kind = "file" => s[BytesOf(s[p].inode)] = t[BytesOf(s[p].inode)]
  PROVE  Found(s, p) = Found(t, p)
<1>1. Lost(s, p) <=> Lost(t, p)
  BY DEF Lost
<1> QED
  BY <1>1 DEF Found

\* What a reader goes through to the bytes of p.
Locs(k, p) == {p} \cup Chain[DirOf(p)] \cup {BytesOf(Seen(k)[p].inode)}

Firm(k, op) ==
  /\ Whole(Seen(k), op)
  /\ \A l \in Locs(k, op.path) : \A n \in WritersOf(k, l) : k.log[n].bound

\* Nothing is left to land of it.
Fixed(k, op) ==
  /\ Whole(Seen(k), op)
  /\ \A l \in Locs(k, op.path) : WritersOf(k, l) = {}

LEMMA OpFacts ==
  ASSUME NEW op \in BatchOp
  PROVE  /\ op.path \in Files /\ op.bytes \in Payloads
         /\ op.bytes # Gone /\ op.bytes # Torn
         /\ op.act \in {"Write", "CreateNew"}
<1>1. op.path \in Files /\ op.bytes \in Payloads /\ op.act \in {"Write", "CreateNew"}
  BY DEF BatchOp, Write, CreateNew
<1> QED
  BY <1>1, BatchAssumption

LEMMA WholeIsFile ==
  ASSUME NEW k, DiskInv(k), NEW op \in BatchOp, Whole(Seen(k), op)
  PROVE  /\ ~Lost(Seen(k), op.path)
         /\ \E n \in Inodes : /\ Seen(k)[op.path] = Inode(n) /\ Inode(n) \in Values(k, op.path)
                              /\ Seen(k)[BytesOf(n)] = op.bytes
                              /\ Locs(k, op.path) =
                                   {op.path} \cup Chain[DirOf(op.path)] \cup {BytesOf(n)}
         /\ Locs(k, op.path) \subseteq DOMAIN k.store
<1>1. Typed(k) /\ DOMAIN k.store = Files \cup Folders \cup Parts
  BY DEF DiskInv, Typed
<1>2. op.path \in Files /\ op.bytes # Gone
  BY OpFacts
<1>3. /\ ~Lost(Seen(k), op.path) /\ Seen(k)[op.path].kind = "file"
      /\ Seen(k)[BytesOf(Seen(k)[op.path].inode)] = op.bytes
  BY <1>2 DEF Whole, Found
<1>4. Seen(k)[op.path] \in Values(k, op.path)
  BY <1>1, <1>2, SeenValue
<1>5. PICK n \in Inodes : Seen(k)[op.path] = Inode(n)
  BY <1>1, <1>2, <1>3, <1>4, ValueFacts, KindsDiffer
<1>6. Inode(n).inode = n
  BY KindsDiffer
<1>7. Locs(k, op.path) = {op.path} \cup Chain[DirOf(op.path)] \cup {BytesOf(n)}
  BY <1>5, <1>6 DEF Locs
<1>8. Locs(k, op.path) \subseteq DOMAIN k.store
  BY <1>1, <1>2, <1>7, PartsDiffer, ChainIsFolders
<1> QED
  BY <1>3, <1>4, <1>5, <1>6, <1>7, <1>8

\* An op whose writes have all landed is there whole.
LEMMA LandedIsWhole ==
  ASSUME NEW k, DiskInv(k), NEW op \in BatchOp, Whole(Seen(k), op),
         NEW S, NEW T, Possible(k, S, T),
         \A l \in Locs(k, op.path) : WritersOf(k, l) \subseteq S
  PROVE  Whole(Outcome(k, S, T), op)
<1> DEFINE s == Outcome(k, S, T)
<1>1. PICK n \in Inodes : /\ Seen(k)[op.path] = Inode(n)
                          /\ Locs(k, op.path) = {op.path} \cup Chain[DirOf(op.path)] \cup {BytesOf(n)}
                          /\ Locs(k, op.path) \subseteq DOMAIN k.store
  BY WholeIsFile
<1>2. \A l \in Locs(k, op.path) : s[l] = Seen(k)[l]
  <2>1. Sound(k)
    BY DEF DiskInv, Typed
  <2> QED
    BY <1>1, <2>1, AllLanded DEF WritersOf
<1> HIDE DEF s
<1>3. Found(Seen(k), op.path) = Found(s, op.path)
  <2>1. Inode(n).inode = n
    BY KindsDiffer
  <2> QED
    BY <1>1, <1>2, <2>1, FoundAgrees
<1> QED
  BY <1>3 DEF Whole, s

LEMMA FirmIsWhole ==
  ASSUME NEW k, DiskInv(k), NEW op \in BatchOp, Firm(k, op),
         NEW S, NEW T, Possible(k, S, T),
         \A m \in DOMAIN k.log : k.log[m].bound => m \in S
  PROVE  Whole(Outcome(k, S, T), op)
<1>1. \A l \in Locs(k, op.path) : WritersOf(k, l) \subseteq S
  BY DEF Firm, WritersOf, Writers
<1> QED
  BY <1>1, LandedIsWhole DEF Firm

LEMMA FixedIsWhole ==
  ASSUME NEW k, DiskInv(k), NEW op \in BatchOp, Fixed(k, op), NEW s \in Survivors(k)
  PROVE  Whole(s, op)
<1>1. PICK S, T : Possible(k, S, T) /\ s = Outcome(k, S, T)
  BY SurvivorsAre
<1> QED
  BY <1>1, LandedIsWhole DEF Fixed

\* A cut while a file is written leaves what a cut before could, but for that
\* file, and leaves that changed only with all that was firm.
LEMMA FileStep ==
  ASSUME NEW k, DiskInv(k), NEW q \in Files, NEW h, NEW n, NEW b, WroteFile(h, k, q, n, b),
         NEW t \in Survivors(h)
  PROVE  \E s \in Survivors(k) :
           /\ \A p \in Files : p # q => Found(t, p) = Found(s, p)
           /\ Found(t, q) = Found(s, q) \/ \A op \in BatchOp : Firm(k, op) => Whole(s, op)
           /\ WroteWhole(h, k, q, n) => Found(t, q) \in {Found(s, q), b, Gone}
<1> DEFINE W == {q, BytesOf(n), ModeOf(n)}
<1>0. /\ Typed(k) /\ Typed(h) /\ Sound(k) /\ Sound(h) /\ Grown(h, k, W) /\ n \in Inodes
      /\ DOMAIN k.store = Files \cup Folders \cup Parts
      /\ DOMAIN h.store = DOMAIN k.store
      /\ \A l \in DOMAIN k.store \ W : h.store[l] = k.store[l]
  BY DEF WroteFile, DiskInv, Typed, Grown
<1>1. PICK S, T : Possible(h, S, T) /\ t = Outcome(h, S, T)
  BY SurvivorsAre
<1> DEFINE R == S \cap DOMAIN k.log
           U == T \cap DOMAIN k.log
           new == (S \cup T) \ DOMAIN k.log
           s == Outcome(k, R, U)
<1>2. /\ Possible(k, R, U)
      /\ new # {} => \A m \in DOMAIN k.log : k.log[m].bound => m \in R
      /\ \A l \in DOMAIN k.store :
           (h.store[l] = k.store[l] /\ \A m \in new : l \notin DOMAIN h.log[m].puts) =>
           t[l] = s[l]
  <2>1. Narrows(h, k, S, T, R, U)
    BY <1>0, <1>1, GrownOutcome
  <2> HIDE DEF R, U
  <2> QED
    BY <1>1, <2>1 DEF Narrows
<1>3. S \cup T \subseteq DOMAIN h.log
  BY <1>1, PossibleFacts
<1>4. s \in Survivors(k)
  BY <1>2, SurvivorsAre
<1>5. /\ DOMAIN s = Files \cup Folders \cup Parts
      /\ \A l \in Files \cup Folders : s[l] \in Values(k, l)
  BY <1>0, <1>2, OutcomeValue
<1> HIDE DEF s, R, U
<1>6. \A l \in DOMAIN k.store \ W : t[l] = s[l]
  BY <1>0, <1>2, <1>3 DEF Grown
<1>7. \A p \in Files : \A c \in Chain[DirOf(p)] : t[c] = s[c]
  BY <1>0, <1>6, ChainIsFolders, PartsDiffer
<1>8. ASSUME NEW p \in Files, p # q
      PROVE  Found(t, p) = Found(s, p)
  <2>1. t[p] = s[p]
    BY <1>0, <1>6, <1>8, PartsDiffer
  <2>2. ASSUME s[p].kind = "file"
        PROVE  t[BytesOf(s[p].inode)] = s[BytesOf(s[p].inode)]
    <3>1. PICK m \in Inodes : s[p] = Inode(m)
      BY <1>0, <1>5, <2>2, ValueFacts, KindsDiffer
    <3>2. m # n
      BY <1>5, <1>8, <3>1 DEF WroteFile
    <3>3. BytesOf(m) \in DOMAIN k.store \ W /\ s[p].inode = m
      BY <1>0, <3>1, <3>2, PartsDiffer, KindsDiffer
    <3> QED
      BY <1>6, <3>3
  <2> QED
    BY <1>7, <2>1, <2>2, FoundAgrees
<1>9. CASE new = {}
  <2>1. t[q] = s[q]
    BY <1>0, <1>2, <1>9 DEF WroteFile
  <2>2. ASSUME s[q].kind = "file"
        PROVE  t[BytesOf(s[q].inode)] = s[BytesOf(s[q].inode)]
    <3>1. PICK m \in Inodes : s[q] = Inode(m)
      BY <1>0, <1>5, <2>2, ValueFacts, KindsDiffer
    <3>2. BytesOf(m) \in DOMAIN k.store /\ s[q].inode = m
      BY <1>0, <3>1, PartsDiffer, KindsDiffer
    <3>3. h.store[BytesOf(m)] = k.store[BytesOf(m)]
      <4>1. CASE m = n
        BY <1>5, <3>1, <4>1 DEF WroteFile
      <4>2. CASE m # n
        BY <1>0, <3>1, <3>2, <4>2, PartsDiffer
      <4> QED
        BY <4>1, <4>2
    <3> QED
      BY <1>2, <1>9, <3>2, <3>3
  <2>3. Found(t, q) = Found(s, q)
    BY <1>7, <2>1, <2>2, FoundAgrees
  <2> QED
    BY <1>4, <1>8, <2>3
<1>10. CASE new # {}
  <2>1. \A op \in BatchOp : Firm(k, op) => Whole(s, op)
    BY <1>2, <1>10, FirmIsWhole DEF s
  <2>2. ASSUME WroteWhole(h, k, q, n)
        PROVE  Found(t, q) \in {Found(s, q), b, Gone}
    <3>1. CASE \E m \in new : q \in DOMAIN h.log[m].puts
      <4>1. PICK m \in new : q \in DOMAIN h.log[m].puts
        BY <3>1
      <4>2. m \in WritersOf(h, q) \ DOMAIN k.log /\ m \in S \cup T
        BY <1>3, <4>1 DEF WritersOf, Writers
      <4>3. m \notin T
        <5> SUFFICES ASSUME m \in T PROVE FALSE
          OBVIOUS
        <5>1. PICK i \in Inodes : BytesOf(i) \in DOMAIN h.log[m].puts
          BY <1>1, PossibleFacts
        <5>2. m \in DOMAIN h.log
          BY <1>3
        <5>3. DOMAIN h.log[m].puts = {BytesOf(i)}
          BY <1>0, <5>1, <5>2, PutFacts
        <5> QED
          BY <4>1, <5>3, PartsDiffer
      <4>4. WritersOf(h, BytesOf(n)) \subseteq S /\ m \in S
        BY <1>1, <2>2, <4>2, <4>3, PossibleFacts DEF WroteWhole
      <4>5. t[BytesOf(n)] = b
        <5>1. BytesOf(n) \in DOMAIN h.store
          BY <1>0, PartsDiffer
        <5> QED
          BY <1>0, <1>1, <4>4, <5>1, AllLanded DEF WroteFile, WritersOf
      <4>6. t[q] = Inode(n)
        <5>1. WritersOf(h, q) \cap S # {} /\ Writers(h, S, q) # {}
          BY <1>3, <4>2, <4>4 DEF WritersOf, Writers
        <5>2. PICK j \in Writers(h, S, q) : \A i \in Writers(h, S, q) : i <= j
          BY <1>0, <1>3, <5>1, LastExists
        <5>3. j \in DOMAIN h.log /\ q \in DOMAIN h.log[j].puts /\ j \in S
          BY <1>3, <5>2 DEF Writers
        <5>4. q \in DOMAIN Landed(h, S) /\ Landed(h, S)[q] = h.log[j].puts[q]
          BY <1>0, <1>3, <5>2, LastIs
        <5>5. \A i \in T : q \notin DOMAIN h.log[i].puts
          <6> SUFFICES ASSUME NEW i \in T, q \in DOMAIN h.log[i].puts PROVE FALSE
            OBVIOUS
          <6>1. PICK x \in Inodes : BytesOf(x) \in DOMAIN h.log[i].puts
            BY <1>1, PossibleFacts
          <6>2. i \in DOMAIN h.log
            BY <1>3
          <6>3. DOMAIN h.log[i].puts = {BytesOf(x)}
            BY <1>0, <6>1, <6>2, PutFacts
          <6> QED
            BY <6>3, PartsDiffer
        <5>6. t[q] = h.log[j].puts[q]
          BY <1>1, <5>4, <5>5, OutcomeAt
        <5>7. j \in WritersOf(h, q) \ DOMAIN k.log
          <6>1. m <= j
            BY <1>3, <4>2, <4>4, <5>2 DEF Writers, WritersOf
          <6>2. \A i \in DOMAIN k.log : i < m
            BY <1>0, <1>3, <4>1 DEF Grown
          <6>3. m \in Nat /\ j \in Nat
            BY <1>0, <1>3, <4>1, <5>3 DEF Sound, Form
          <6>4. j \notin DOMAIN k.log
            BY <6>1, <6>2, <6>3
          <6> QED
            BY <5>3, <6>4 DEF WritersOf, Writers
        <5> QED
          BY <2>2, <5>6, <5>7 DEF WroteWhole
      <4> QED
        BY <4>5, <4>6, KindsDiffer DEF Found
    <3>2. CASE ~\E m \in new : q \in DOMAIN h.log[m].puts
      <4>1. t[q] = s[q]
        BY <1>0, <1>2, <3>2 DEF WroteFile
      <4>2. ASSUME s[q].kind = "file"
            PROVE  t[BytesOf(s[q].inode)] = s[BytesOf(s[q].inode)]
        <5>1. PICK m \in Inodes : s[q] = Inode(m)
          BY <1>0, <1>5, <4>2, ValueFacts, KindsDiffer
        <5>2. m # n
          BY <1>5, <2>2, <5>1 DEF WroteWhole
        <5>3. BytesOf(m) \in DOMAIN k.store \ W /\ s[q].inode = m
          BY <1>0, <5>1, <5>2, PartsDiffer, KindsDiffer
        <5> QED
          BY <1>6, <5>3
      <4> QED
        BY <1>7, <4>1, <4>2, FoundAgrees
    <3> QED
      BY <3>1, <3>2
  <2> QED
    BY <1>4, <1>8, <2>1, <2>2
<1> QED
  BY <1>9, <1>10

\* No cut finds anything in a disk with no new write that one before could not.
LEMMA QuietStep ==
  ASSUME NEW k, DiskInv(k), NEW h, Grown(h, k, {}), NEW t \in Survivors(h)
  PROVE  \E s \in Survivors(k) : \A p \in Files : Found(t, p) = Found(s, p)
<1>0. /\ Typed(k) /\ Sound(k) /\ Sound(h)
      /\ DOMAIN k.store = Files \cup Folders \cup Parts
      /\ \A l \in DOMAIN k.store : h.store[l] = k.store[l]
  BY DEF DiskInv, Typed, Grown
<1>1. PICK S, T : Possible(h, S, T) /\ t = Outcome(h, S, T)
  BY SurvivorsAre
<1> DEFINE R == S \cap DOMAIN k.log
           U == T \cap DOMAIN k.log
           s == Outcome(k, R, U)
<1>2. Narrows(h, k, S, T, R, U)
  BY <1>0, <1>1, GrownOutcome
<1>3. S \cup T \subseteq DOMAIN h.log
  BY <1>1, PossibleFacts
<1> HIDE DEF R, U
<1>4. Possible(k, R, U) /\ \A l \in DOMAIN k.store : t[l] = s[l]
  BY <1>0, <1>1, <1>2, <1>3 DEF Narrows, Grown
<1>5. s \in Survivors(k) /\ \A l \in Files \cup Folders : s[l] \in Values(k, l)
  BY <1>0, <1>4, SurvivorsAre, OutcomeValue
<1> HIDE DEF s
<1>6. ASSUME NEW p \in Files PROVE Found(t, p) = Found(s, p)
  <2>1. ASSUME s[p].kind = "file"
        PROVE  t[BytesOf(s[p].inode)] = s[BytesOf(s[p].inode)]
    <3>1. PICK m \in Inodes : s[p] = Inode(m)
      BY <1>0, <1>5, <2>1, ValueFacts, KindsDiffer
    <3>2. BytesOf(m) \in DOMAIN k.store /\ s[p].inode = m
      BY <1>0, <3>1, PartsDiffer, KindsDiffer
    <3> QED
      BY <1>4, <3>2
  <2>2. \A c \in Chain[DirOf(p)] : t[c] = s[c]
    BY <1>0, <1>4, ChainIsFolders
  <2> QED
    BY <1>0, <1>4, <2>1, <2>2, FoundAgrees
<1> QED
  BY <1>5, <1>6

\* A new directory shows a reader nothing: it is in no chain of a file there is.
LEMMA DirectoryStep ==
  ASSUME NEW k, DiskInv(k), NEW c \in Folders, Seen(k)[c] = Gone, NEW h, Made(h, k, c),
         NEW t \in Survivors(h)
  PROVE  \E s \in Survivors(k) : \A p \in Files : Found(t, p) = Found(s, p)
<1>0. /\ Typed(k) /\ Typed(h) /\ Sound(k) /\ Sound(h) /\ Grown(h, k, {c})
      /\ DOMAIN k.store = Files \cup Folders \cup Parts /\ h.store = k.store
  BY DEF DiskInv, Typed, Made
<1>1. PICK S, T : Possible(h, S, T) /\ t = Outcome(h, S, T)
  BY SurvivorsAre
<1> DEFINE R == S \cap DOMAIN k.log
           U == T \cap DOMAIN k.log
           s == Outcome(k, R, U)
<1>2. Narrows(h, k, S, T, R, U)
  BY <1>0, <1>1, GrownOutcome
<1>3. S \cup T \subseteq DOMAIN h.log
  BY <1>1, PossibleFacts
<1> HIDE DEF R, U
<1>4. Possible(k, R, U) /\ \A l \in DOMAIN k.store : l # c => t[l] = s[l]
  BY <1>0, <1>1, <1>2, <1>3 DEF Narrows, Grown
<1>5. s \in Survivors(k) /\ \A l \in Files \cup Folders : s[l] \in Values(k, l)
  BY <1>0, <1>4, SurvivorsAre, OutcomeValue
<1> HIDE DEF s
<1>6. ASSUME NEW p \in Files PROVE Found(t, p) = Found(s, p)
  <2>0. p # c /\ p \in DOMAIN k.store /\ \A m \in Inodes : BytesOf(m) # c /\ BytesOf(m) \in DOMAIN k.store
    BY <1>0, PartsDiffer
  <2>1. ASSUME s[p].kind = "file"
        PROVE  t[BytesOf(s[p].inode)] = s[BytesOf(s[p].inode)]
    <3>1. PICK m \in Inodes : s[p] = Inode(m)
      BY <1>0, <1>5, <2>1, ValueFacts, KindsDiffer
    <3>2. s[p].inode = m
      BY <3>1, KindsDiffer
    <3> QED
      BY <1>4, <2>0, <3>2
  <2>2. CASE c \notin Chain[DirOf(p)]
    <3>1. \A d \in Chain[DirOf(p)] : t[d] = s[d]
      BY <1>0, <1>4, <2>2, ChainIsFolders
    <3> QED
      BY <1>4, <2>0, <2>1, <3>1, FoundAgrees
  <2>3. CASE c \in Chain[DirOf(p)]
    <3>1. Lost(Seen(k), p)
      BY <2>3 DEF Lost
    <3>2. s[p] = Gone /\ t[p] = Gone
      BY <1>4, <1>5, <2>0, <3>1 DEF DiskInv, Nested
    <3> QED
      BY <3>2, KindsDiffer DEF Found
  <2> QED
    BY <2>2, <2>3
<1> QED
  BY <1>5, <1>6

-----------------------------------------------------------------------------
(* What a step leaves of an op that has landed.                              *)

\* What a reader goes through to p is as it was, and owes and is bound as it was.
Same(h, k, p) ==
  \A l \in Locs(k, p) :
    /\ Seen(h)[l] = Seen(k)[l]
    /\ \A n \in WritersOf(h, l) :
         /\ n \in WritersOf(k, l)
         /\ k.log[n].bound => h.log[n].bound
         /\ h.log[n].owed \subseteq k.log[n].owed

\* The op is whole, and what its own file still owes is among the debts.
Landing(k, op, names) ==
  /\ Whole(Seen(k), op)
  /\ DirOf(op.path) \in names
  /\ \/ op.path \in names
     \/ \A n \in WritersOf(k, BytesOf(Seen(k)[op.path].inode)) : k.log[n].owed = {}

LEMMA SameKeeps ==
  ASSUME NEW k, DiskInv(k), NEW h, NEW op \in BatchOp, Same(h, k, op.path)
  PROVE  /\ Firm(k, op) => Firm(h, op)
         /\ Fixed(k, op) => Fixed(h, op)
         /\ \A few, all : (few \subseteq all /\ Landing(k, op, few)) => Landing(h, op, all)
<1> SUFFICES ASSUME Whole(Seen(k), op)
             PROVE  /\ Firm(k, op) => Firm(h, op)
                    /\ Fixed(k, op) => Fixed(h, op)
                    /\ \A few, all : (few \subseteq all /\ Landing(k, op, few)) => Landing(h, op, all)
  BY DEF Firm, Fixed, Landing
<1>1. PICK n \in Inodes : /\ Seen(k)[op.path] = Inode(n)
                          /\ Locs(k, op.path) = {op.path} \cup Chain[DirOf(op.path)] \cup {BytesOf(n)}
  BY WholeIsFile
<1>2. Inode(n).inode = n
  BY KindsDiffer
<1>3. /\ Seen(h)[op.path] = Inode(n)
      /\ Seen(h)[BytesOf(n)] = Seen(k)[BytesOf(n)]
      /\ \A c \in Chain[DirOf(op.path)] : Seen(h)[c] = Seen(k)[c]
  BY <1>1 DEF Same
<1>4. Found(Seen(k), op.path) = Found(Seen(h), op.path)
  BY <1>1, <1>2, <1>3, FoundAgrees
<1>5. Whole(Seen(h), op)
  BY <1>4 DEF Whole
<1>6. Locs(h, op.path) = Locs(k, op.path)
  BY <1>1, <1>3 DEF Locs
<1>7. Firm(k, op) => Firm(h, op)
  BY <1>5, <1>6 DEF Firm, Same
<1>8. Fixed(k, op) => Fixed(h, op)
  BY <1>5, <1>6 DEF Fixed, Same
<1>9. ASSUME NEW few, NEW all, few \subseteq all, Landing(k, op, few)
      PROVE  Landing(h, op, all)
  <2>1. CASE op.path \in few
    BY <1>5, <1>9, <2>1 DEF Landing
  <2>2. CASE op.path \notin few
    <3>1. \A m \in WritersOf(k, BytesOf(n)) : k.log[m].owed = {}
      BY <1>1, <1>2, <1>9, <2>2 DEF Landing
    <3>2. \A m \in WritersOf(h, BytesOf(n)) : h.log[m].owed = {}
      BY <1>1, <3>1 DEF Same
    <3> QED
      BY <1>2, <1>3, <1>5, <1>9, <3>2 DEF Landing
  <2> QED
    BY <2>1, <2>2
<1> QED
  BY <1>7, <1>8, <1>9

LEMMA GrownSame ==
  ASSUME NEW k, DiskInv(k), NEW h, NEW W, Grown(h, k, W), NEW op \in BatchOp,
         Whole(Seen(k), op), Locs(k, op.path) \cap W = {},
         \A l \in DOMAIN k.store \ W : Seen(h)[l] = Seen(k)[l]
  PROVE  Same(h, k, op.path)
<1>1. Locs(k, op.path) \subseteq DOMAIN k.store \ W
  BY WholeIsFile
<1>2. ASSUME NEW l \in Locs(k, op.path), NEW n \in WritersOf(h, l)
      PROVE  /\ n \in WritersOf(k, l)
             /\ k.log[n].bound => h.log[n].bound
             /\ h.log[n].owed \subseteq k.log[n].owed
  <2>1. n \in DOMAIN h.log /\ l \in DOMAIN h.log[n].puts
    BY DEF WritersOf, Writers
  <2>2. n \in DOMAIN k.log
    BY <1>2, <2>1 DEF Grown
  <2> QED
    BY <2>1, <2>2 DEF Grown, WritersOf, Writers
<1> QED
  BY <1>1, <1>2 DEF Same

LEMMA WroteSame ==
  ASSUME NEW k, DiskInv(k), NEW q \in Files, NEW h, NEW n, NEW b, WroteFile(h, k, q, n, b),
         NEW op \in BatchOp, op.path # q, Whole(Seen(k), op)
  PROVE  Same(h, k, op.path)
<1>1. PICK m \in Inodes : /\ Inode(m) \in Values(k, op.path)
                          /\ Locs(k, op.path) = {op.path} \cup Chain[DirOf(op.path)] \cup {BytesOf(m)}
  BY WholeIsFile
<1>2. op.path \in Files
  BY OpFacts
<1>3. n \in Inodes /\ m # n
  BY <1>1, <1>2 DEF WroteFile
<1>4. Locs(k, op.path) \cap {q, BytesOf(n), ModeOf(n)} = {}
  BY <1>1, <1>2, <1>3, PartsDiffer, ChainIsFolders
<1> QED
  BY <1>4, GrownSame DEF WroteFile

LEMMA MadeSame ==
  ASSUME NEW k, DiskInv(k), NEW c \in Folders, Seen(k)[c] = Gone, NEW h, Made(h, k, c),
         NEW op \in BatchOp, Whole(Seen(k), op)
  PROVE  Same(h, k, op.path)
<1>1. PICK m \in Inodes : Locs(k, op.path) = {op.path} \cup Chain[DirOf(op.path)] \cup {BytesOf(m)}
  BY WholeIsFile
<1>2. op.path \in Files /\ ~Lost(Seen(k), op.path)
  BY OpFacts, WholeIsFile
<1>3. Locs(k, op.path) \cap {c} = {}
  BY <1>1, <1>2, PartsDiffer DEF Lost
<1> QED
  BY <1>3, GrownSame DEF Made

LEMMA QuietSame ==
  ASSUME NEW k, DiskInv(k), NEW h, Grown(h, k, {}), Seen(h) = Seen(k),
         NEW op \in BatchOp, Whole(Seen(k), op)
  PROVE  Same(h, k, op.path)
  BY GrownSame

\* What names of directories owe is among the debts.
FoldersOwe(k, names) ==
  \A n \in DOMAIN k.log :
    DOMAIN k.log[n].puts \cap Folders # {} => k.log[n].owed \subseteq names

LEMMA GrownOwes ==
  ASSUME NEW k, NEW h, NEW W, Grown(h, k, W), NEW few, NEW all, FoldersOwe(k, few),
         few \subseteq all,
         \A n \in DOMAIN h.log \ DOMAIN k.log :
           DOMAIN h.log[n].puts \cap Folders # {} => h.log[n].owed \subseteq all
  PROVE  FoldersOwe(h, all)
<1> SUFFICES ASSUME NEW n \in DOMAIN h.log, DOMAIN h.log[n].puts \cap Folders # {}
             PROVE  h.log[n].owed \subseteq all
  BY DEF FoldersOwe
<1>1. CASE n \in DOMAIN k.log
  BY <1>1 DEF Grown, FoldersOwe
<1> QED
  BY <1>1

LEMMA WroteOwes ==
  ASSUME NEW k, NEW h, NEW q \in Files, NEW n, NEW b, WroteFile(h, k, q, n, b),
         NEW few, NEW all, FoldersOwe(k, few), few \subseteq all
  PROVE  FoldersOwe(h, all)
<1>1. {q, BytesOf(n), ModeOf(n)} \cap Folders = {}
  BY PartsDiffer DEF WroteFile
<1>2. \A m \in DOMAIN h.log \ DOMAIN k.log : DOMAIN h.log[m].puts \cap Folders = {}
  BY <1>1 DEF WroteFile, Grown
<1> QED
  BY <1>2, GrownOwes DEF WroteFile

-----------------------------------------------------------------------------
(* A flush.                                                                  *)

LEMMA DrainedKeeps ==
  ASSUME NEW k, DiskInv(k), NEW d
  PROVE  LET f == Drained(k, d) IN
         /\ DiskInv(f) /\ Seen(f) = Seen(k) /\ f.grade = k.grade
         /\ DOMAIN f.log = DOMAIN k.log \ Done(k, d)
         /\ \A n \in DOMAIN f.log : /\ f.log[n].puts = k.log[n].puts
                                    /\ f.log[n].owed = k.log[n].owed
                                    /\ f.log[n].bound = k.log[n].bound
<1> DEFINE f == Drained(k, d)
           done0 == Done(k, d)
<1>0. Typed(k) /\ Sound(k) /\ DOMAIN k.store = Files \cup Folders \cup Parts
  BY DEF DiskInv, Typed
<1>1. /\ f.store = Landed(k, done0) /\ f.grade = k.grade
      /\ DOMAIN f.log = DOMAIN k.log \ done0
      /\ \A n \in DOMAIN f.log : /\ f.log[n].puts = k.log[n].puts
                                 /\ f.log[n].owed = k.log[n].owed
                                 /\ f.log[n].bound = k.log[n].bound
                                 /\ f.log[n].device = k.log[n].device
  <2>1. f = [store |-> Landed(k, done0), ordered |-> k.ordered, grade |-> k.grade,
             log |-> [n \in DOMAIN k.log \ done0 |->
                       [puts |-> k.log[n].puts, device |-> k.log[n].device,
                        owed |-> k.log[n].owed, bound |-> k.log[n].bound,
                        after |-> k.log[n].after \ done0]]]
    BY <1>0, DrainedIs
  <2> HIDE DEF f, done0
  <2> QED
    BY <2>1
<1>2. Sound(f) /\ Seen(f) = Seen(k) /\ done0 \in SUBSET DOMAIN k.log
  BY <1>0, DrainedIsSound, DrainedIsUnseen, DoneIsClosed
<1> HIDE DEF f, done0
<1>3. /\ DOMAIN f.store = Files \cup Folders \cup Parts
      /\ \A l \in DOMAIN k.store : f.store[l] \in Values(k, l)
  BY <1>0, <1>1, <1>2, LandedValue
<1>4. \A l \in DOMAIN k.store : Values(f, l) \subseteq Values(k, l)
  <2> SUFFICES ASSUME NEW l \in DOMAIN k.store, NEW v \in Values(f, l)
               PROVE  v \in Values(k, l)
    OBVIOUS
  <2>1. CASE v = f.store[l]
    BY <1>3, <2>1
  <2>2. CASE v # f.store[l]
    <3>1. PICK n \in WritersOf(f, l) : v = f.log[n].puts[l]
      BY <2>2 DEF Values
    <3>2. n \in WritersOf(k, l) /\ v = k.log[n].puts[l]
      BY <1>1, <3>1 DEF WritersOf, Writers
    <3> QED
      BY <3>2 DEF Values
  <2> QED
    BY <2>1, <2>2
<1>5. Typed(f)
  <2>1. ASSUME NEW n \in DOMAIN f.log
        PROVE  IsEntry(f.log[n]) \/ IsFolder(f.log[n]) \/ IsBytes(f.log[n])
    <3>1. IsEntry(k.log[n]) \/ IsFolder(k.log[n]) \/ IsBytes(k.log[n])
      BY <1>0, <1>1 DEF Typed
    <3> QED
      BY <1>1, <3>1 DEF IsEntry, IsFolder, IsBytes
  <2>2. \A n \in DOMAIN f.log : /\ f.log[n].device = Device(Root)
                                /\ f.log[n].bound => f.log[n].owed = {}
    BY <1>0, <1>1 DEF Typed
  <2>3. /\ \A p \in Files : f.store[p] = Gone \/ \E n \in Inodes : f.store[p] = Inode(n)
        /\ \A c \in Folders : f.store[c] \in {Gone, Subdir}
    BY <1>0, <1>3, ValueFacts
  <2> QED
    BY <1>2, <1>3, <2>1, <2>2, <2>3 DEF Typed
<1>6. Nested(f) /\ Unshared(f)
  <2>1. \A p \in Files : Values(f, p) \subseteq Values(k, p)
    BY <1>0, <1>4
  <2> QED
    BY <1>2, <2>1 DEF DiskInv, Nested, Unshared
<1> QED
  BY <1>1, <1>2, <1>5, <1>6 DEF DiskInv, f, done0

LEMMA ObjectsHold ==
  ASSUME NEW k, NEW names
  PROVE  /\ \A d \in names \cap ({Root} \cup Folders) : d \in Objects(k, names)
         /\ \A p \in names \cap Files : Seen(k)[p].inode \in Objects(k, names)
         /\ names # {} => Objects(k, names) # {}
<1>1. \A d \in {Root} \cup Folders : d \notin Files
  BY LayoutAssumption
<1> QED
  BY <1>1 DEF Objects

\* Handed over, the debts of a tier leave nothing of its ops owed.
LEMMA DebtsCover ==
  ASSUME NEW k, DiskInv(k), NEW names, FoldersOwe(k, names), NEW op \in BatchOp,
         Landing(k, op, names),
         NEW l \in Locs(k, op.path), NEW n \in WritersOf(k, l)
  PROVE  k.log[n].owed \subseteq Objects(k, names)
<1>0. Typed(k) /\ n \in DOMAIN k.log /\ l \in DOMAIN k.log[n].puts
  BY DEF DiskInv, WritersOf, Writers
<1>1. PICK m \in Inodes : /\ Seen(k)[op.path] = Inode(m)
                          /\ Locs(k, op.path) = {op.path} \cup Chain[DirOf(op.path)] \cup {BytesOf(m)}
  BY WholeIsFile DEF Landing
<1>2. op.path \in Files /\ Inode(m).inode = m
  BY OpFacts, KindsDiffer
<1>3. CASE l = op.path
  <2>1. k.log[n].owed \subseteq {DirOf(op.path)}
    BY <1>0, <1>2, <1>3, PutFacts
  <2>2. DirOf(op.path) \in names \cap ({Root} \cup Folders)
    BY <1>2, LayoutAssumption DEF Landing
  <2> QED
    BY <2>1, <2>2, ObjectsHold
<1>4. CASE l \in Chain[DirOf(op.path)]
  <2>1. l \in Folders
    BY <1>2, <1>4, ChainIsFolders
  <2>2. k.log[n].owed \subseteq {DirOf(l)} /\ k.log[n].owed \subseteq names
    BY <1>0, <2>1, PutFacts DEF FoldersOwe
  <2>3. DirOf(l) \in {Root} \cup Folders
    BY <2>1, LayoutAssumption
  <2> QED
    BY <2>2, <2>3, ObjectsHold
<1>5. CASE l = BytesOf(m)
  <2>1. k.log[n].owed \subseteq {m}
    BY <1>0, <1>1, <1>5, PutFacts
  <2>2. CASE op.path \in names
    BY <1>1, <1>2, <2>1, <2>2, ObjectsHold
  <2>3. CASE op.path \notin names
    BY <1>1, <1>2, <1>5, <2>3 DEF Landing
  <2> QED
    BY <2>2, <2>3
<1> QED
  BY <1>1, <1>3, <1>4, <1>5

\* A capped flush keeps what is firm, and makes firm what the debts cover: of it
\* nothing is left to land, when the cap drains.
Capped(f, k, names, need) ==
  /\ DiskInv(f) /\ f.grade = k.grade
  /\ \A t \in Survivors(f) : \E s \in Survivors(k) : \A p \in Files : Found(t, p) = Found(s, p)
  /\ FoldersOwe(k, names) => FoldersOwe(f, {})
  /\ \A op \in BatchOp :
       /\ Fixed(k, op) => Fixed(f, op)
       /\ (Firm(k, op) \/ (Landing(k, op, names) /\ FoldersOwe(k, names))) =>
            /\ Firm(f, op)
            /\ (need = "Durable" /\ k.grade = "Durable") => Fixed(f, op)

LEMMA FlushCaps ==
  ASSUME NEW k, DiskInv(k), Satisfies(k.grade, "Ordered"),
         NEW names, names # {}, NEW need \in {"Ordered", "Durable"}
  PROVE  Capped(FlushAll(k, Objects(k, names), Root, need), k, names, need)
<1> DEFINE os == Objects(k, names)
           g == Handed(k, os \ {Root})
           h == Handed(g, {Root})
           d == Device(Root)
           f == FlushAll(k, os, Root, need)
<1>0. Typed(k) /\ Sound(k) /\ k.grade # "None" /\ k.grade \in {"Ordered", "Durable"}
  BY DEF DiskInv, Typed, Satisfies
<1>1. /\ DiskInv(g) /\ Rewritten(g, k) /\ Grown(g, k, {}) /\ Sound(g) /\ g.grade = k.grade
      /\ \A n \in DOMAIN k.log : /\ g.log[n].bound = k.log[n].bound
                                 /\ g.log[n].owed = k.log[n].owed \ (os \ {Root})
  BY <1>0, HandedInv, HandedFacts DEF Rewritten
<1>2. f = IF need = "Durable" /\ k.grade = "Durable" THEN Drained(h, d) ELSE Barriered(h, d)
  <2>1. os # {}
    BY ObjectsHold
  <2> HIDE DEF os, g
  <2>2. f = Sync(g, Root, need)
    BY <2>1 DEF FlushAll, g
  <2> HIDE DEF f
  <2> QED
    BY <1>0, <1>1, <2>2 DEF Sync, Satisfies
<1> HIDE DEF os, g, f
<1>3. /\ DiskInv(h) /\ Rewritten(h, g) /\ Grown(h, g, {}) /\ Sound(h) /\ h.grade = k.grade
      /\ \A n \in DOMAIN k.log : /\ h.log[n].bound = k.log[n].bound
                                 /\ h.log[n].owed = k.log[n].owed \ (os \cup {Root})
  <2>1. /\ DiskInv(h) /\ Rewritten(h, g) /\ Grown(h, g, {}) /\ Sound(h) /\ h.grade = g.grade
        /\ \A n \in DOMAIN g.log : /\ h.log[n].bound = g.log[n].bound
                                   /\ h.log[n].owed = g.log[n].owed \ {Root}
    BY <1>0, <1>1, HandedInv, HandedFacts DEF Rewritten
  <2> HIDE DEF h
  <2>2. DOMAIN g.log = DOMAIN k.log
    BY <1>1 DEF Rewritten
  <2> QED
    BY <1>1, <2>1, <2>2
<1> HIDE DEF h
<1>4. /\ Grown(h, k, {}) /\ Seen(h) = Seen(k) /\ DOMAIN h.log = DOMAIN k.log
      /\ \A l : WritersOf(h, l) = WritersOf(k, l)
      /\ \A n \in DOMAIN k.log : h.log[n].puts = k.log[n].puts
  <2>1. Grown(h, k, {} \cup {})
    BY <1>1, <1>3, GrownTwice
  <2>2. Typed(g)
    BY <1>1 DEF DiskInv
  <2> QED
    BY <1>0, <1>1, <1>3, <2>1, <2>2, RewrittenValues, GrownWider DEF Rewritten
\* What is firm or covered owes nothing once handed over.
<1>5. ASSUME NEW op \in BatchOp,
             Firm(k, op) \/ (Landing(k, op, names) /\ FoldersOwe(k, names))
      PROVE  /\ Whole(Seen(h), op) /\ Locs(h, op.path) = Locs(k, op.path)
             /\ \A l \in Locs(h, op.path) : WritersOf(h, l) \subseteq OnDevice(h, d)
  <2>1. Whole(Seen(h), op) /\ Locs(h, op.path) = Locs(k, op.path)
    BY <1>4, <1>5 DEF Firm, Landing, Locs
  <2>2. ASSUME NEW l \in Locs(k, op.path), NEW n \in WritersOf(k, l)
        PROVE  n \in OnDevice(h, d)
    <3>1. n \in DOMAIN k.log
      BY <2>2 DEF WritersOf, Writers
    <3>2. CASE Firm(k, op)
      <4>1. k.log[n].bound
        BY <3>2, <2>2 DEF Firm
      <4>2. k.log[n].owed = {}
        BY <1>0, <3>1, <4>1 DEF Typed
      <4> QED
        BY <1>3, <1>4, <3>1, <4>2 DEF OnDevice, DiskInv, Typed
    <3>3. CASE Landing(k, op, names) /\ FoldersOwe(k, names)
      <4>1. k.log[n].owed \subseteq os
        BY <3>3, DebtsCover DEF os
      <4> QED
        BY <1>3, <1>4, <3>1, <4>1 DEF OnDevice, DiskInv, Typed
    <3> QED
      BY <1>5, <3>2, <3>3
  <2> QED
    BY <1>4, <2>1, <2>2
<1>6. ASSUME FoldersOwe(k, names) PROVE FoldersOwe(h, {})
  <2> SUFFICES ASSUME NEW n \in DOMAIN h.log, DOMAIN h.log[n].puts \cap Folders # {}
               PROVE  h.log[n].owed \subseteq {}
    BY DEF FoldersOwe
  <2>1. n \in DOMAIN k.log /\ h.log[n].puts = k.log[n].puts
    BY <1>4
  <2>2. PICK c \in Folders : c \in DOMAIN k.log[n].puts
    BY <2>1
  <2>3. k.log[n].owed \subseteq names /\ k.log[n].owed \subseteq {DirOf(c)}
    BY <1>0, <1>6, <2>1, <2>2, PutFacts DEF FoldersOwe
  <2>4. DirOf(c) \in {Root} \cup Folders
    BY LayoutAssumption
  <2>5. k.log[n].owed \subseteq os
    BY <2>3, <2>4, ObjectsHold DEF os
  <2> QED
    BY <1>3, <2>1, <2>5
<1>7. \A t \in Survivors(h) : \E s \in Survivors(k) : \A p \in Files : Found(t, p) = Found(s, p)
  BY <1>4, QuietStep
<1>8. \A op \in BatchOp : Fixed(k, op) => Fixed(h, op)
  BY <1>4, QuietSame, SameKeeps DEF Fixed
<1>9. CASE need = "Durable" /\ k.grade = "Durable"
  <2> DEFINE e == Drained(h, d)
  <2>1. /\ DiskInv(e) /\ Seen(e) = Seen(h) /\ e.grade = h.grade
        /\ DOMAIN e.log = DOMAIN h.log \ Done(h, d)
        /\ \A n \in DOMAIN e.log : /\ e.log[n].puts = h.log[n].puts
                                   /\ e.log[n].owed = h.log[n].owed
    BY <1>3, DrainedKeeps
  <2>2. Survivors(e) \subseteq Survivors(h)
    <3> SUFFICES ASSUME NEW t \in Survivors(e) PROVE t \in Survivors(h)
      OBVIOUS
    <3>1. PICK S, T : Possible(e, S, T) /\ t = Outcome(e, S, T)
      BY SurvivorsAre
    <3>2. Possible(h, S \cup Done(h, d), T) /\ t = Outcome(h, S \cup Done(h, d), T)
      BY <1>3, <3>1, DrainedOutcome
    <3> QED
      BY <3>2, SurvivorsAre
  <2> HIDE DEF e
  <2>3. f = e
    BY <1>2, <1>9 DEF e
  <2>4. \A l : WritersOf(e, l) = WritersOf(h, l) \ Done(h, d)
    BY <2>1 DEF WritersOf, Writers
  <2>5. ASSUME NEW op \in BatchOp, Whole(Seen(h), op),
               \A l \in Locs(h, op.path) : WritersOf(h, l) \subseteq OnDevice(h, d)
        PROVE  Fixed(e, op)
    <3>1. Whole(Seen(e), op) /\ Locs(e, op.path) = Locs(h, op.path)
      BY <2>1, <2>5 DEF Locs
    <3>2. OnDevice(h, d) \subseteq Done(h, d)
      BY DEF Done
    <3> QED
      BY <2>4, <2>5, <3>1, <3>2 DEF Fixed
  <2>6. \A op \in BatchOp : Fixed(e, op) => Firm(e, op)
    BY DEF Fixed, Firm
  <2>7. ASSUME NEW op \in BatchOp, Fixed(h, op) PROVE Fixed(e, op)
    BY <2>5, <2>7 DEF Fixed
  <2>8. FoldersOwe(h, {}) => FoldersOwe(e, {})
    BY <2>1 DEF FoldersOwe
  <2> QED
    BY <1>3, <1>5, <1>6, <1>7, <1>8, <2>1, <2>2, <2>3, <2>5, <2>6, <2>7, <2>8 DEF Capped, f, os
<1>10. CASE ~(need = "Durable" /\ k.grade = "Durable")
  <2> DEFINE e == Barriered(h, d)
  <2>1. /\ DiskInv(e) /\ Rewritten(e, h) /\ Grown(e, h, {})
        /\ \A n \in DOMAIN h.log : /\ e.log[n].owed = h.log[n].owed
                                   /\ n \in OnDevice(h, d) => e.log[n].bound
    BY <1>3, BarrieredInv, BarrieredFacts
  <2> HIDE DEF e
  <2>2. f = e
    BY <1>2, <1>10 DEF e
  <2>3. Seen(e) = Seen(h) /\ \A l : WritersOf(e, l) = WritersOf(h, l)
    BY <1>3, <2>1, RewrittenValues DEF DiskInv
  <2>4. \A t \in Survivors(e) : \E s \in Survivors(h) : \A p \in Files : Found(t, p) = Found(s, p)
    BY <1>3, <2>1, QuietStep
  <2>5. ASSUME NEW op \in BatchOp, Whole(Seen(h), op),
               \A l \in Locs(h, op.path) : WritersOf(h, l) \subseteq OnDevice(h, d)
        PROVE  Firm(e, op)
    <3>1. Whole(Seen(e), op) /\ Locs(e, op.path) = Locs(h, op.path)
      BY <2>3, <2>5 DEF Locs
    <3>2. OnDevice(h, d) \subseteq DOMAIN h.log
      BY DEF OnDevice
    <3> QED
      BY <2>1, <2>3, <2>5, <3>1, <3>2 DEF Firm
  <2>6. \A op \in BatchOp : Fixed(h, op) => Fixed(e, op)
    BY <1>3, <2>1, <2>3, QuietSame, SameKeeps DEF Fixed
  <2>7. FoldersOwe(h, {}) => FoldersOwe(e, {})
    BY <2>1 DEF FoldersOwe, Rewritten
  <2>8. e.grade = k.grade
    BY <1>3, <2>1 DEF Rewritten
  <2>9. \A t \in Survivors(e) : \E s \in Survivors(k) : \A p \in Files : Found(t, p) = Found(s, p)
    BY <1>7, <2>4
  <2> QED
    BY <1>5, <1>6, <1>8, <1>10, <2>1, <2>2, <2>5, <2>6, <2>7, <2>8, <2>9 DEF Capped, f, os
<1> QED
  BY <1>9, <1>10

-----------------------------------------------------------------------------
(* A power cut.                                                              *)

LEMMA CleanIs ==
  ASSUME NEW s, NEW ordered, NEW grade
  PROVE  LET k == Clean(s, ordered, grade) IN
         /\ k.store = s /\ DOMAIN k.log = {} /\ k.grade = grade
         /\ \A l : WritersOf(k, l) = {} /\ Values(k, l) = {s[l]}
         /\ \A S, T : Possible(k, S, T) => S = {} /\ T = {}
<1> DEFINE k == Clean(s, ordered, grade)
<1>1. k.store = s /\ k.log = <<>> /\ k.grade = grade
  BY DEF Clean
<1>2. DOMAIN k.log = {}
  BY <1>1
<1> HIDE DEF k
<1>3. \A l : WritersOf(k, l) = {} /\ Values(k, l) = {s[l]}
  BY <1>1, <1>2 DEF WritersOf, Writers, Values
<1>4. \A S, T : Possible(k, S, T) => S = {} /\ T = {}
  BY <1>2, PossibleFacts
<1> QED
  BY <1>1, <1>2, <1>3, <1>4 DEF k

\* A cut leaves what its reader can come down to, and another cut the same.
LEMMA CutStep ==
  ASSUME NEW k, DiskInv(k), NEW s \in Survivors(k), NEW ordered, NEW grade,
         NEW h, h = Clean(Reachable(s), ordered, grade)
  PROVE  /\ DiskInv(h) /\ h.grade = grade /\ DOMAIN h.log = {}
         /\ \A p \in Files : Found(Seen(h), p) = Found(s, p)
         /\ \A t \in Survivors(h) : \A p \in Files : Found(t, p) = Found(s, p)
<1> DEFINE r == Reachable(s)
<1>1. Typed(k)
  BY DEF DiskInv
<1>2. PICK S, T : Possible(k, S, T) /\ s = Outcome(k, S, T)
  BY SurvivorsAre
<1>3. /\ DOMAIN s = Files \cup Folders \cup Parts
      /\ \A l \in Files \cup Folders : s[l] \in Values(k, l)
  BY <1>1, <1>2, OutcomeValue
<1>4. /\ DOMAIN r = Files \cup Folders \cup Parts
      /\ \A l \in Files \cup Folders : r[l] = IF Lost(s, l) THEN Gone ELSE s[l]
      /\ \A l \in Parts : r[l] = s[l]
  BY <1>3, PartsDiffer DEF Reachable
<1> HIDE DEF r
<1>5. /\ h.store = r /\ DOMAIN h.log = {} /\ h.grade = grade
      /\ \A l : Values(h, l) = {r[l]}
      /\ \A Q, U : Possible(h, Q, U) => Q = {} /\ U = {}
      /\ \A l : Writers(h, DOMAIN h.log, l) = {}
  BY CleanIs DEF r, WritersOf
<1>6. Sound(h)
  BY EveryDiskIsSound
<1>7. Typed(h)
  <2>1. /\ \A p \in Files : r[p] = Gone \/ \E n \in Inodes : r[p] = Inode(n)
        /\ \A c \in Folders : r[c] \in {Gone, Subdir}
    BY <1>1, <1>3, <1>4, ValueFacts
  <2> QED
    BY <1>4, <1>5, <1>6, <2>1 DEF Typed
\* Whatever is left has every directory above it left.
<1>8. ASSUME NEW p \in Files \cup Folders, ~Lost(s, p)
      PROVE  ~Lost(r, p)
  <2> SUFFICES ASSUME NEW c \in Chain[DirOf(p)] PROVE r[c] # Gone
    BY DEF Lost
  <2>1. c \in Folders /\ s[c] # Gone
    BY <1>8, ChainIsFolders DEF Lost
  <2>2. Chain[DirOf(c)] \subseteq Chain[c]
    BY <2>1, LayoutAssumption
  <2>3. Chain[c] \subseteq Chain[DirOf(p)]
    <3>1. DirOf(p) \in {Root} \cup Folders
      BY LayoutAssumption
    <3>2. DirOf(p) # Root
      BY LayoutAssumption
    <3> QED
      BY <3>1, <3>2, LayoutAssumption
  <2>4. ~Lost(s, c)
    BY <1>8, <2>2, <2>3 DEF Lost
  <2> QED
    BY <1>4, <2>1, <2>4
<1>9. ASSUME NEW p \in Files
      PROVE  Found(r, p) = Found(s, p)
  <2>1. CASE Lost(s, p)
    BY <1>4, <2>1, KindsDiffer DEF Found
  <2>2. CASE ~Lost(s, p)
    <3>1. r[p] = s[p] /\ ~Lost(r, p)
      BY <1>4, <1>8, <2>2
    <3>2. CASE s[p].kind # "file"
      BY <3>1, <3>2 DEF Found
    <3>3. CASE s[p].kind = "file"
      <4>1. PICK n \in Inodes : s[p] = Inode(n)
        BY <1>1, <1>3, <3>3, ValueFacts, KindsDiffer
      <4>2. BytesOf(n) \in Parts /\ s[p].inode = n
        BY <4>1, PartsDiffer, KindsDiffer
      <4> QED
        BY <1>4, <2>2, <3>1, <3>3, <4>2 DEF Found
    <3> QED
      BY <3>2, <3>3
  <2> QED
    BY <2>1, <2>2
<1>10. \A l \in DOMAIN h.store : Seen(h)[l] = r[l]
  BY <1>5, UnwrittenIs DEF Seen
<1>12. \A p \in Files : Lost(Seen(h), p) <=> Lost(r, p)
  <2>1. \A p \in Files : \A c \in Chain[DirOf(p)] : c \in DOMAIN h.store
    BY <1>4, <1>5, ChainIsFolders
  <2> QED
    BY <1>10, <2>1 DEF Lost
<1>13. Nested(h)
  BY <1>4, <1>5, <1>8, <1>12 DEF Nested
<1>14. Unshared(h)
  <2> SUFFICES ASSUME NEW p \in Files, NEW q \in Files, p # q, NEW n, Inode(n) = r[p], Inode(n) = r[q]
               PROVE  FALSE
    BY <1>5 DEF Unshared
  <2>1. Inode(n) = s[p] /\ Inode(n) = s[q]
    BY <1>4, KindsDiffer
  <2> QED
    BY <1>3, <2>1 DEF DiskInv, Unshared
\* Any reading of r as a store finds the same.
<1>15. ASSUME NEW t, \A l \in DOMAIN h.store : t[l] = r[l], NEW p \in Files
       PROVE  Found(t, p) = Found(s, p)
  <2>1. t[p] = r[p] /\ \A c \in Chain[DirOf(p)] : t[c] = r[c]
    BY <1>4, <1>5, <1>15, ChainIsFolders
  <2>2. ASSUME r[p].kind = "file"
        PROVE  t[BytesOf(r[p].inode)] = r[BytesOf(r[p].inode)]
    <3>1. PICK n \in Inodes : r[p] = Inode(n)
      BY <1>5, <1>7, <2>2, KindsDiffer DEF Typed
    <3>2. BytesOf(n) \in DOMAIN h.store /\ r[p].inode = n
      BY <1>4, <1>5, <3>1, PartsDiffer, KindsDiffer
    <3> QED
      BY <1>15, <3>2
  <2>3. Found(t, p) = Found(r, p)
    BY <2>1, <2>2, FoundAgrees
  <2> QED
    BY <1>9, <2>3
<1>16. ASSUME NEW t \in Survivors(h), NEW p \in Files
       PROVE  Found(t, p) = Found(s, p)
  <2>1. PICK Q, U : Possible(h, Q, U) /\ t = Outcome(h, Q, U)
    BY SurvivorsAre
  <2>2. Q = {} /\ U = {}
    BY <1>5, <2>1
  <2>3. \A l \in DOMAIN h.store : Writers(h, DOMAIN h.log, l) \subseteq Q
    BY <1>5
  <2>4. \A l \in DOMAIN h.store : t[l] = Seen(h)[l]
    BY <1>6, <2>1, <2>3, AllLanded
  <2> QED
    BY <1>10, <1>15, <2>4
<1> QED
  BY <1>5, <1>7, <1>10, <1>13, <1>14, <1>15, <1>16 DEF DiskInv

-----------------------------------------------------------------------------
(* The invariant.                                                            *)

Orders(k) == Satisfies(k.grade, "Ordered")

BatchTyped ==
  /\ calls \in Seq(BatchOp \cup {Barrier}) /\ done \in Nat
  /\ finality \in {"Pushed", "Ordered", "Durable"}
  /\ \A c \in certified : c[1] \in BatchOp
  /\ Sound(disk)

\* What names of directories owe, the tier covers.
FoldersOwed == (Running /\ settled) => FoldersOwe(disk, debts)

\* The op staged at n has landed in the tier that is being built.
InTier(n) ==
  /\ Landing(disk, calls[n], debts)
  /\ \A m \in DOMAIN calls : n <= m /\ m <= done => calls[m] # Barrier

\* What has landed for good is firm, or its tier's debts cover it.
Progress ==
  (Running /\ settled) =>
    \A n \in OpsAt(calls) :
      (n <= done /\ IsLast(calls, n)) => Firm(disk, calls[n]) \/ InTier(n)

\* A file that no op has come to is as a cut could have left it.
NotReached(p) == \A n \in OpsAt(calls) : n <= done + 1 => calls[n].path # p

Untouched ==
  Running =>
    \A s \in Cuts : \A p \in Files : NotReached(p) => <<p, Found(s, p)>> \in before

\* A cut shows nothing of a later tier, or all that was staged ahead of it.
Tiers ==
  settled =>
    \A s \in Cuts : \A i, j \in DOMAIN calls :
      Parted(calls, i, j) =>
        \/ <<calls[j].path, Found(s, calls[j].path)>> \in before
        \/ Whole(s, calls[i])

\* What a certificate speaks for that a later batch is ordered after.
Kept(c) == c[3] /\ c[2] # "Pushed"

Apart == Running => \A c \in certified : \A op \in OpsOf(calls) : op.path # c[1].path

\* What an Ok speaks for is firm, and where it was durable nothing is left to land.
CertifiedIsFirm ==
  \A c \in certified : Kept(c) =>
    /\ Firm(disk, c[1])
    /\ (c[2] = "Durable" /\ disk.grade = "Durable") => Fixed(disk, c[1])

Ahead ==
  \A c \in certified : Kept(c) =>
    \A s \in Cuts : \A op \in OpsOf(calls) :
      \/ c[1] \in OpsOf(calls)
      \/ <<op.path, Found(s, op.path)>> \in before
      \/ Whole(s, c[1])

OnlyWritten(p) ==
  (\A op \in OpsOf(calls) : op.path = p => op.act = "Write") /\ <<p, Torn>> \notin before

NothingTorn ==
  atomic => \A s \in Cuts : \A p \in Files : OnlyWritten(p) => Found(s, p) # Torn

\* What every cut of the disk shows.
CutsShow == Untouched /\ Tiers /\ Ahead /\ NothingTorn

BatchInv ==
  /\ BatchTyped
  /\ Apart
  /\ Orders(disk) => DiskInv(disk) /\ FoldersOwed /\ Progress /\ CertifiedIsFirm /\ CutsShow

-----------------------------------------------------------------------------
(* The calls of an op.                                                       *)

LEMMA GradeStays ==
  ASSUME NEW k, Sound(k)
  PROVE  /\ \A os, puts : IssueBy(k, os, puts).grade = k.grade
         /\ \A n : Minted(k, n).grade = k.grade
         /\ \A os : Sound(Handed(k, os)) /\ Handed(k, os).grade = k.grade
         /\ \A o, need : Sync(k, o, need).grade = k.grade
<1>0. k = [store |-> k.store, log |-> k.log, ordered |-> k.ordered, grade |-> k.grade]
  BY DEF Sound, Form
<1>1. /\ \A log : [k EXCEPT !.log = log].grade = k.grade
      /\ \A store : [k EXCEPT !.store = store].grade = k.grade
      /\ \A store, log : [k EXCEPT !.store = store, !.log = log].grade = k.grade
  BY <1>0
<1>2. \A os, puts : IssueBy(k, os, puts).grade = k.grade
  BY <1>1 DEF IssueBy
<1>3. \A n : Minted(k, n).grade = k.grade
  BY <1>1 DEF Minted
<1>4. \A os : Sound(Handed(k, os)) /\ Handed(k, os).grade = k.grade
  <2>1. \A os : Handed(k, os) = FlushAll(k, os, 0, "Pushed")
    BY DEF FlushAll
  <2>2. \A os : Sound(Handed(k, os))
    BY <2>1, EveryDiskIsSound
  <2>3. \A os : Handed(k, os).grade = k.grade
    BY <1>1 DEF Handed
  <2> QED
    BY <2>2, <2>3
<1>5. ASSUME NEW o, NEW need
      PROVE  Sync(k, o, need).grade = k.grade
  <2> DEFINE h == Handed(k, {o})
  <2>1. /\ h = [store |-> h.store, log |-> h.log, ordered |-> h.ordered, grade |-> h.grade]
        /\ h.grade = k.grade
    BY <1>4 DEF Sound, Form
  <2> HIDE DEF h
  <2>2. /\ \A log : [h EXCEPT !.log = log].grade = h.grade
        /\ \A store, log : [h EXCEPT !.store = store, !.log = log].grade = h.grade
    BY <2>1
  <2>3. Barriered(h, Device(o)).grade = h.grade
    BY <2>2 DEF Barriered
  <2>4. Drained(h, Device(o)).grade = h.grade
    BY <2>2 DEF Drained
  <2> QED
    BY <2>1, <2>3, <2>4 DEF Sync, h
<1> QED
  BY <1>2, <1>3, <1>4, <1>5

\* Of every disk a step makes of another.
Follows(h, k) == Sound(h) /\ h.grade = k.grade

LEMMA FileFollows ==
  ASSUME NEW k, Sound(k), NEW op, NEW b
  PROVE  Follows(FileLanded(k, op, b), k)
<1> DEFINE p == op.path
           n == Fresh(k, Inodes)
           m == Minted(k, n)
           w == SetBytes(m, n, b)
           y == Sync(w, n, "Ordered")
<1>1. Follows(m, k)
  BY GradeStays, EveryDiskIsSound DEF Follows
<1> HIDE DEF m
<1>2. Follows(w, k)
  BY <1>1, GradeStays, EveryDiskIsSound DEF Follows, SetBytes
<1> HIDE DEF w
<1>3. Follows(y, k)
  BY <1>2, GradeStays, EveryDiskIsSound DEF Follows
<1> HIDE DEF y
<1>4. Follows(Replace(k, p, b, FALSE, Inodes), k)
  <2>1. Replace(k, p, b, FALSE, Inodes) = Enter(y, At(p, Inode(n)))
    BY DEF Replace, y, w, m
  <2> DEFINE e == Enter(y, At(p, Inode(n)))
  <2> HIDE DEF n
  <2>2. Follows(e, k)
    BY <1>3, GradeStays, EveryDiskIsSound DEF Follows, Enter
  <2> HIDE DEF e
  <2> QED
    BY <2>1, <2>2 DEF e, n
<1>5. Follows(SetBytes(k, Seen(k)[p].inode, b), k)
  BY GradeStays, EveryDiskIsSound DEF Follows, SetBytes
<1>6. Follows(SetBytes(Enter(m, At(p, Inode(n))), n, b), k)
  <2> DEFINE e == Enter(m, At(p, Inode(n)))
  <2>1. Follows(e, k)
    BY <1>1, GradeStays, EveryDiskIsSound DEF Follows, Enter
  <2> HIDE DEF e, n
  <2>2. Follows(SetBytes(e, n, b), k)
    BY <2>1, GradeStays, EveryDiskIsSound DEF Follows, SetBytes
  <2> QED
    BY <2>2 DEF e
<1>7. Follows(Overwritten(k, p, b, Inodes), k)
  BY <1>5, <1>6 DEF Overwritten, m, n
<1> QED
  BY <1>4, <1>7 DEF FileLanded

\* What an op writes to: its file, with b, and whole when it is replaced.
Wrote(h, k, op) ==
  \E n, b :
    /\ WroteFile(h, k, op.path, n, b) /\ b \in Payloads \cup {Torn}
    /\ op.act = "Write" /\ atomic => WroteWhole(h, k, op.path, n) /\ b = op.bytes

LEMMA FileIsWrote ==
  ASSUME DiskInv(disk), Orders(disk), NEW op \in BatchOp, Missing(disk, DirOf(op.path)) = {},
         HasRoom, NEW b \in {op.bytes, Torn}, (op.act = "Write" /\ atomic) => b = op.bytes
  PROVE  \E n : /\ WroteFile(FileLanded(disk, op, b), disk, op.path, n, b)
                /\ op.act = "Write" /\ atomic =>
                     WroteWhole(FileLanded(disk, op, b), disk, op.path, n)
<1>1. ~Lost(Seen(disk), op.path)
  BY DEF Lost, Missing, Exists
<1>2. op.path \in Files /\ op.bytes \in Payloads
  BY OpFacts
<1>3. Unknown(disk, Inodes) # {}
  BY DEF HasRoom
<1>4. CASE op.act = "Write" /\ atomic
  <2>1. FileLanded(disk, op, b) = Replace(disk, op.path, b, FALSE, Inodes)
    BY <1>4 DEF FileLanded
  <2> QED
    BY <1>1, <1>2, <1>3, <1>4, <2>1, ReplaceWrites DEF Orders
<1>5. CASE ~(op.act = "Write" /\ atomic)
  <2>1. FileLanded(disk, op, b) = Overwritten(disk, op.path, b, Inodes)
    BY <1>5 DEF FileLanded
  <2> QED
    BY <1>1, <1>2, <1>3, <1>5, <2>1, OverwrittenWrites
<1> QED
  BY <1>4, <1>5

\* An op that has landed is whole, and what it owes is named.
LEMMA LandedLands ==
  ASSUME DiskInv(disk), NEW op \in BatchOp, Missing(disk, DirOf(op.path)) = {},
         NEW h, NEW n, WroteFile(h, disk, op.path, n, op.bytes),
         op.act = "Write" /\ atomic => WroteWhole(h, disk, op.path, n)
  PROVE  \A names : Landing(h, op, names \cup OpDebts(op))
<1> DEFINE p == op.path
<1>1. /\ Seen(h)[p] = Inode(n) /\ Seen(h)[BytesOf(n)] = op.bytes
      /\ \A l \in DOMAIN disk.store \ {p, BytesOf(n), ModeOf(n)} : Seen(h)[l] = Seen(disk)[l]
      /\ n \in Inodes
  BY DEF WroteFile
<1>2. p \in Files
  BY OpFacts
<1>3. ASSUME NEW c \in Chain[DirOf(p)]
      PROVE  Seen(h)[c] # Gone
  <2>1. c \in Folders
    BY <1>2, ChainIsFolders
  <2>2. c \in DOMAIN disk.store \ {p, BytesOf(n), ModeOf(n)}
    BY <1>1, <1>2, <2>1, PartsDiffer DEF DiskInv, Typed
  <2>3. Seen(disk)[c] # Gone
    BY DEF Missing, Exists
  <2> QED
    BY <1>1, <2>2, <2>3
<1>4. Whole(Seen(h), op)
  BY <1>1, <1>3, KindsDiffer DEF Whole, Found, Lost
<1>5. ASSUME op.act = "Write", atomic, NEW m \in WritersOf(h, BytesOf(n))
      PROVE  h.log[m].owed = {}
  BY <1>5 DEF WroteWhole
<1>6. Seen(h)[p].inode = n
  BY <1>1, KindsDiffer
<1> QED
  BY <1>4, <1>5, <1>6 DEF Landing, OpDebts

-----------------------------------------------------------------------------
(* What the cuts of a step's disk show.                                      *)

LEMMA OpIsOp ==
  ASSUME BatchTyped
  PROVE  /\ \A n \in OpsAt(calls) : calls[n] \in BatchOp /\ n \in Nat /\ n \in DOMAIN calls
         /\ \A op \in OpsOf(calls) : op \in BatchOp
         /\ DOMAIN calls \subseteq Nat /\ done \in Nat
BY DEF BatchTyped, OpsAt, OpsOf

LEMMA AtOpFacts ==
  ASSUME BatchTyped, AtOp
  PROVE  /\ Running /\ done + 1 \in OpsAt(calls) /\ Op = calls[done + 1]
         /\ Op \in BatchOp /\ Op \in OpsOf(calls) /\ Op.path \in Files /\ ~NotReached(Op.path)
<1>1. Running /\ done + 1 \in OpsAt(calls) /\ Op = calls[done + 1]
  BY DEF AtOp, Op
<1>2. Op \in BatchOp /\ Op \in OpsOf(calls)
  BY <1>1, OpIsOp DEF OpsOf
<1>3. ~NotReached(Op.path)
  BY <1>1, OpIsOp DEF NotReached
<1> QED
  BY <1>1, <1>2, <1>3, OpFacts

\* No cut of h finds what none of k did.
Narrow(h, k) ==
  \A t \in Survivors(h) : \E s \in Survivors(k) : \A p \in Files : Found(t, p) = Found(s, p)

LEMMA NarrowShows ==
  ASSUME BatchTyped, \A c \in certified' : c[1] \in BatchOp, CutsShow, Narrow(disk', disk),
         UNCHANGED <<atomic, calls, settled, before>>,
         Running' => Running, done' \in {done, done + 1},
         \A c \in certified' : c \in certified \/ c[1] \in OpsOf(calls)
  PROVE  CutsShow'
<1>1. ASSUME NEW t \in Cuts'
      PROVE  \E s \in Cuts : \A p \in Files : Found(t, p) = Found(s, p)
  BY <1>1 DEF Cuts, Narrow
<1>2. Untouched'
  <2> SUFFICES ASSUME Running', NEW t \in Cuts', NEW p \in Files, NotReached(p)'
               PROVE  <<p, Found(t, p)>> \in before'
    BY DEF Untouched
  <2>1. NotReached(p)
    BY OpIsOp DEF NotReached
  <2>2. PICK s \in Cuts : Found(t, p) = Found(s, p)
    BY <1>1
  <2> QED
    BY <2>1, <2>2 DEF CutsShow, Untouched
<1>3. Tiers'
  <2> SUFFICES ASSUME settled', NEW t \in Cuts', NEW i \in DOMAIN calls, NEW j \in DOMAIN calls,
                      Parted(calls, i, j)
               PROVE  \/ <<calls[j].path, Found(t, calls[j].path)>> \in before
                      \/ Whole(t, calls[i])
    BY DEF Tiers
  <2>1. PICK s \in Cuts : \A p \in Files : Found(t, p) = Found(s, p)
    BY <1>1
  <2>2. calls[i].path \in Files /\ calls[j].path \in Files
    BY OpIsOp, OpFacts DEF Parted
  <2> QED
    BY <2>1, <2>2 DEF CutsShow, Tiers, Whole
<1>4. Ahead'
  <2> SUFFICES ASSUME NEW c \in certified', Kept(c), NEW t \in Cuts', NEW op \in OpsOf(calls)
               PROVE  \/ c[1] \in OpsOf(calls)
                      \/ <<op.path, Found(t, op.path)>> \in before
                      \/ Whole(t, c[1])
    BY DEF Ahead
  <2>1. PICK s \in Cuts : \A p \in Files : Found(t, p) = Found(s, p)
    BY <1>1
  <2>2. op.path \in Files /\ c[1].path \in Files
    BY OpIsOp, OpFacts
  <2> QED
    BY <2>1, <2>2 DEF CutsShow, Ahead, Whole
<1>5. NothingTorn'
  <2> SUFFICES ASSUME atomic, NEW t \in Cuts', NEW p \in Files, OnlyWritten(p)
               PROVE  Found(t, p) # Torn
    BY DEF NothingTorn, OnlyWritten
  <2> QED
    BY <1>1 DEF CutsShow, NothingTorn
<1> QED
  BY <1>2, <1>3, <1>4, <1>5 DEF CutsShow

\* A step of the op the batch is at leaves the files of other ops, and shows its
\* own with all that was firm before.
LEMMA WroteShows ==
  ASSUME BatchInv, Orders(disk), AtOp, Wrote(disk', disk, Op),
         UNCHANGED <<atomic, calls, settled, before, certified>>,
         done' \in {done, done + 1}
  PROVE  CutsShow'
<1> DEFINE q == Op.path
<1>0. BatchTyped /\ Apart /\ DiskInv(disk) /\ Progress /\ CertifiedIsFirm /\ CutsShow
  BY DEF BatchInv
<1>1. /\ Running /\ done + 1 \in OpsAt(calls) /\ Op = calls[done + 1]
      /\ Op \in BatchOp /\ Op \in OpsOf(calls) /\ q \in Files /\ ~NotReached(q)
  BY <1>0, AtOpFacts
<1>2. PICK n, b : /\ WroteFile(disk', disk, q, n, b) /\ b \in Payloads \cup {Torn}
                  /\ Op.act = "Write" /\ atomic => WroteWhole(disk', disk, q, n) /\ b = Op.bytes
  BY DEF Wrote
<1>3. ASSUME NEW t \in Cuts'
      PROVE  \E s \in Cuts :
               /\ \A p \in Files : p # q => Found(t, p) = Found(s, p)
               /\ Found(t, q) = Found(s, q) \/ \A op \in BatchOp : Firm(disk, op) => Whole(s, op)
               /\ Op.act = "Write" /\ atomic => Found(t, q) \in {Found(s, q), Op.bytes, Gone}
  <2>1. t \in Survivors(disk')
    BY <1>3 DEF Cuts
  <2>2. PICK s \in Survivors(disk) :
          /\ \A p \in Files : p # q => Found(t, p) = Found(s, p)
          /\ Found(t, q) = Found(s, q) \/ \A op \in BatchOp : Firm(disk, op) => Whole(s, op)
          /\ WroteWhole(disk', disk, q, n) => Found(t, q) \in {Found(s, q), b, Gone}
    <3> HIDE DEF q
    <3> QED
      BY <1>0, <1>1, <1>2, <2>1, FileStep
  <2> QED
    BY <1>2, <2>2 DEF Cuts
<1> HIDE DEF q
<1>4. Untouched'
  <2> SUFFICES ASSUME NEW t \in Cuts', NEW p \in Files, NotReached(p)'
               PROVE  <<p, Found(t, p)>> \in before'
    BY DEF Untouched
  <2>1. NotReached(p)
    BY <1>0, OpIsOp DEF NotReached
  <2>2. PICK s \in Cuts : Found(t, p) = Found(s, p)
    BY <1>1, <1>3, <2>1
  <2> QED
    BY <1>0, <1>1, <2>1, <2>2 DEF CutsShow, Untouched
<1>5. Tiers'
  <2> SUFFICES ASSUME settled, NEW t \in Cuts', NEW i \in DOMAIN calls, NEW j \in DOMAIN calls,
                      Parted(calls, i, j)
               PROVE  \/ <<calls[j].path, Found(t, calls[j].path)>> \in before
                      \/ Whole(t, calls[i])
    BY DEF Tiers
  <2>1. PICK s \in Cuts :
          /\ \A p \in Files : p # q => Found(t, p) = Found(s, p)
          /\ Found(t, q) = Found(s, q) \/ \A op \in BatchOp : Firm(disk, op) => Whole(s, op)
    BY <1>3
  <2>2. /\ i \in OpsAt(calls) /\ j \in OpsAt(calls) /\ IsLast(calls, i) /\ IsFirst(calls, j)
        /\ calls[i] \in BatchOp
        /\ calls[i].path \in Files /\ calls[j].path \in Files
        /\ i \in Nat /\ j \in Nat /\ done \in Nat
    BY <1>0, OpIsOp, OpFacts DEF Parted
  <2>3. PICK m \in i .. j : calls[m] = Barrier
    BY DEF Parted
  <2>4. m # i /\ m # j
    BY <2>2, <2>3 DEF OpsAt
  <2>5. i < m /\ m < j
    BY <2>2, <2>3, <2>4
  <2>6. \/ <<calls[j].path, Found(s, calls[j].path)>> \in before
        \/ Whole(s, calls[i])
    BY <1>0, <2>1 DEF CutsShow, Tiers
  <2>7. CASE calls[i].path = q
    <3>1. done + 1 <= i
      BY <1>1, <2>2, <2>7 DEF IsLast, q
    <3>2. ASSUME NEW l \in OpsAt(calls), l <= done + 1
          PROVE  calls[l].path # calls[j].path
      BY <2>2, <2>5, <3>1, <3>2, <1>0, OpIsOp DEF IsFirst
    <3>3. NotReached(calls[j].path) /\ calls[j].path # q
      BY <1>1, <2>2, <3>2 DEF NotReached, q
    <3> QED
      BY <1>0, <1>1, <2>1, <2>2, <3>3 DEF CutsShow, Untouched
  <2>8. CASE calls[i].path # q /\ calls[j].path # q
    BY <2>1, <2>2, <2>6, <2>8 DEF Whole
  <2>9. CASE calls[i].path # q /\ calls[j].path = q
    <3>1. j <= done + 1
      BY <1>1, <2>2, <2>9 DEF IsFirst, q
    <3>2. i <= done /\ i <= m /\ m <= done /\ m \in DOMAIN calls
      <4>1. m \in DOMAIN calls
        BY <1>0, <2>2, <2>3 DEF BatchTyped, OpsAt
      <4> QED
        BY <2>2, <2>3, <2>5, <3>1, <4>1
    <3>3. Firm(disk, calls[i])
      BY <1>0, <1>1, <2>2, <2>3, <3>2 DEF Progress, InTier
    <3>4. CASE Found(t, q) = Found(s, q)
      BY <2>1, <2>2, <2>6, <2>9, <3>4 DEF Whole
    <3>5. CASE Whole(s, calls[i])
      BY <2>1, <2>2, <2>9, <3>5 DEF Whole
    <3> QED
      BY <2>1, <2>2, <3>3, <3>4, <3>5
  <2> QED
    BY <2>7, <2>8, <2>9
<1>6. Ahead'
  <2> SUFFICES ASSUME NEW c \in certified, Kept(c), NEW t \in Cuts', NEW op \in OpsOf(calls)
               PROVE  \/ c[1] \in OpsOf(calls)
                      \/ <<op.path, Found(t, op.path)>> \in before
                      \/ Whole(t, c[1])
    BY DEF Ahead
  <2>1. PICK s \in Cuts :
          /\ \A p \in Files : p # q => Found(t, p) = Found(s, p)
          /\ Found(t, q) = Found(s, q) \/ \A x \in BatchOp : Firm(disk, x) => Whole(s, x)
    BY <1>3
  <2>2. op.path \in Files /\ c[1].path \in Files /\ c[1].path # q /\ c[1] \in BatchOp
    BY <1>0, <1>1, OpIsOp, OpFacts DEF Apart, q, BatchTyped
  <2>3. \/ c[1] \in OpsOf(calls)
        \/ <<op.path, Found(s, op.path)>> \in before
        \/ Whole(s, c[1])
    BY <1>0, <2>1 DEF CutsShow, Ahead
  <2>4. Whole(s, c[1]) => Whole(t, c[1])
    BY <2>1, <2>2 DEF Whole
  <2>5. CASE Found(t, op.path) = Found(s, op.path)
    BY <2>3, <2>4, <2>5
  <2>6. CASE Whole(s, c[1])
    BY <2>4, <2>6
  <2>7. Firm(disk, c[1])
    BY <1>0 DEF CertifiedIsFirm
  <2> QED
    BY <2>1, <2>2, <2>5, <2>6, <2>7
<1>7. NothingTorn'
  <2> SUFFICES ASSUME atomic, NEW t \in Cuts', NEW p \in Files, OnlyWritten(p)
               PROVE  Found(t, p) # Torn
    BY DEF NothingTorn, OnlyWritten
  <2>1. PICK s \in Cuts :
          /\ p # q => Found(t, p) = Found(s, p)
          /\ Op.act = "Write" /\ atomic => Found(t, q) \in {Found(s, q), Op.bytes, Gone}
    BY <1>3
  <2>2. Found(s, p) # Torn
    BY <1>0 DEF CutsShow, NothingTorn
  <2>3. Op.bytes # Torn
    BY <1>1, OpFacts
  <2>4. p = q => Op.act = "Write"
    BY <1>1 DEF OnlyWritten, q
  <2> QED
    BY <2>1, <2>2, <2>3, <2>4, BatchAssumption
<1> QED
  BY <1>4, <1>5, <1>6, <1>7 DEF CutsShow

-----------------------------------------------------------------------------
(* The steps.                                                                *)

LEMMA InitInv ==
  Init => BatchInv
<1> SUFFICES ASSUME Init PROVE BatchInv
  OBVIOUS
<1>1. \E ordered, grade : disk = Clean(Empty, ordered, grade)
  BY DEF Init
<1>2. /\ disk.store = Empty /\ DOMAIN disk.log = {}
      /\ \A l : WritersOf(disk, l) = {} /\ Values(disk, l) = {Empty[l]}
  BY <1>1, CleanIs
<1>3. Sound(disk)
  BY <1>1, EveryDiskIsSound
<1>4. /\ DOMAIN Empty = Files \cup Folders \cup Parts
      /\ \A l \in Files \cup Folders : Empty[l] = Gone
  BY DEF Empty
<1>5. BatchTyped
  <2>1. calls = <<>> /\ done = 0 /\ finality = "Pushed" /\ certified = {}
    BY DEF Init
  <2>2. calls \in Seq(BatchOp \cup {Barrier})
    BY <2>1
  <2> QED
    BY <1>3, <2>1, <2>2 DEF BatchTyped
<1>6. DiskInv(disk)
  <2>1. Typed(disk)
    BY <1>2, <1>3, <1>4 DEF Typed
  <2>2. Nested(disk)
    BY <1>2, <1>4 DEF Nested
  <2>3. Unshared(disk)
    BY <1>2, <1>4, KindsDiffer DEF Unshared
  <2> QED
    BY <2>1, <2>2, <2>3 DEF DiskInv
<1>7. ~Running /\ certified = {} /\ calls = <<>>
  BY DEF Init, Running
<1>8. CutsShow
  <2>1. Untouched /\ Ahead /\ Tiers
    BY <1>7 DEF Untouched, Ahead, Tiers
  <2>2. ASSUME NEW s \in Cuts, NEW p \in Files
        PROVE  Found(s, p) # Torn
    <3>1. PICK S, T : Possible(disk, S, T) /\ s = Outcome(disk, S, T)
      BY SurvivorsAre DEF Cuts
    <3>2. s[p] = Gone
      BY <1>2, <1>4, <1>6, <3>1, OutcomeValue DEF DiskInv
    <3> QED
      BY <3>2, KindsDiffer, BatchAssumption DEF Found
  <2> QED
    BY <2>1, <2>2 DEF CutsShow, NothingTorn
<1> QED
  BY <1>5, <1>6, <1>7, <1>8 DEF BatchInv, Apart, FoldersOwed, Progress, CertifiedIsFirm

\* What a step keeps of every op it does not come to.
Keeps(h, k, op) ==
  (Firm(k, op) => Firm(h, op)) /\ (Fixed(k, op) => Fixed(h, op))

LEMMA ApplyKeeps ==
  ASSUME BatchInv, Apply
  PROVE  BatchInv'
<1>1. /\ ~Running /\ done' = 0 /\ debts' = {} /\ disk' = disk /\ atomic' = atomic
      /\ settled' = NoDirectoryOwed
      /\ before' = {<<p, Found(s, p)>> : p \in Files, s \in Cuts}
      /\ certified' = {c \in certified : \A op \in OpsOf(calls') : op.path # c[1].path}
  BY DEF Apply
<1>2. BatchTyped'
  <2>1. calls' \in Seq(BatchOp \cup {Barrier}) /\ finality' \in {"Pushed", "Ordered", "Durable"}
    BY BatchAssumption DEF Apply
  <2> QED
    BY <1>1, <2>1 DEF BatchInv, BatchTyped
<1>3. Apart'
  BY <1>1 DEF Apart
<1> SUFFICES ASSUME Orders(disk)
             PROVE  (DiskInv(disk) /\ FoldersOwed /\ Progress /\ CertifiedIsFirm /\ CutsShow)'
  BY <1>1, <1>2, <1>3 DEF BatchInv
<1>4. DiskInv(disk')
  BY <1>1 DEF BatchInv
<1>5. FoldersOwed'
  BY <1>1 DEF FoldersOwed, FoldersOwe, NoDirectoryOwed
<1>6. Progress'
  <2>1. \A n \in OpsAt(calls') : n \in Nat /\ n # 0
    BY <1>2 DEF BatchTyped, OpsAt
  <2> QED
    BY <1>1, <2>1 DEF Progress
<1>7. CertifiedIsFirm'
  BY <1>1 DEF BatchInv, CertifiedIsFirm
<1>8. CutsShow'
  <2>1. Cuts' = Cuts
    BY <1>1 DEF Cuts
  <2>2. \A s \in Cuts : \A p \in Files : <<p, Found(s, p)>> \in before'
    BY <1>1
  <2>3. \A op \in OpsOf(calls') : op.path \in Files
    BY <1>2, OpFacts DEF BatchTyped, OpsOf, OpsAt
  <2>4. \A i, j : Parted(calls', i, j) => calls'[j].path \in Files
    BY <2>3 DEF Parted, OpsOf
  <2>5. Untouched'
    BY <2>1, <2>2 DEF Untouched
  <2>6. Tiers'
    BY <2>1, <2>2, <2>4 DEF Tiers
  <2>7. Ahead'
    BY <2>1, <2>2, <2>3 DEF Ahead
  <2>8. NothingTorn'
    BY <2>1, <2>2 DEF NothingTorn, OnlyWritten
  <2> QED
    BY <2>5, <2>6, <2>7, <2>8 DEF CutsShow
<1> QED
  BY <1>4, <1>5, <1>6, <1>7, <1>8

\* An op of the batch that has landed is whole, whichever way it is kept.
LEMMA LandedIsThere ==
  ASSUME NEW n, Firm(disk, calls[n]) \/ InTier(n)
  PROVE  Whole(Seen(disk), calls[n])
BY DEF Firm, InTier, Landing

LEMMA MakeDirKeeps ==
  ASSUME BatchInv, MakeDir
  PROVE  BatchInv'
<1>1. /\ AtOp
      /\ UNCHANGED <<atomic, calls, finality, done, answer, settled, before, certified>>
  BY DEF MakeDir
<1>2. PICK c \in Missing(disk, DirOf(Op.path)) :
        disk' = Enter(disk, At(c, Subdir)) /\ debts' = debts \cup Traced(c)
  BY DEF MakeDir
<1>3. BatchTyped /\ Apart
  BY DEF BatchInv
<1>4. Op.path \in Files /\ Running
  BY <1>1, <1>3, AtOpFacts
<1>5. c \in Folders /\ Seen(disk)[c] = Gone
  BY <1>4, ChainIsFolders DEF Missing, Exists
<1>6. Follows(disk', disk)
  BY <1>2, <1>3, GradeStays, EveryDiskIsSound DEF Follows, Enter, BatchTyped
<1>7. BatchTyped' /\ Apart'
  BY <1>1, <1>3, <1>6 DEF BatchTyped, Apart, Follows, Running
<1> SUFFICES ASSUME Orders(disk)
             PROVE  (DiskInv(disk) /\ FoldersOwed /\ Progress /\ CertifiedIsFirm /\ CutsShow)'
  BY <1>6, <1>7 DEF BatchInv, Orders, Follows
<1>8. DiskInv(disk) /\ FoldersOwed /\ Progress /\ CertifiedIsFirm /\ CutsShow
  BY DEF BatchInv
<1>9. Made(disk', disk, c)
  BY <1>2, <1>5, <1>8, MadeInv
<1>10. ASSUME NEW op \in BatchOp, Whole(Seen(disk), op)
       PROVE  /\ Keeps(disk', disk, op)
              /\ Landing(disk, op, debts) => Landing(disk', op, debts')
  BY <1>2, <1>5, <1>8, <1>9, <1>10, MadeSame, SameKeeps DEF Keeps
<1>11. DiskInv(disk')
  BY <1>9 DEF Made
<1>12. FoldersOwed'
  <2> SUFFICES ASSUME settled PROVE FoldersOwe(disk', debts')
    BY <1>1 DEF FoldersOwed
  <2>1. FoldersOwe(disk, debts)
    BY <1>4, <1>8 DEF FoldersOwed
  <2>2. Grown(disk', disk, {c})
    BY <1>9 DEF Made
  <2>3. \A n \in DOMAIN disk'.log \ DOMAIN disk.log : disk'.log[n].owed \subseteq debts'
    BY <1>2, <1>9 DEF Made, Traced
  <2>4. debts \subseteq debts'
    BY <1>2
  <2> QED
    BY <2>1, <2>2, <2>3, <2>4, GrownOwes
<1>13. Progress'
  <2> SUFFICES ASSUME settled, NEW n \in OpsAt(calls), n <= done, IsLast(calls, n)
               PROVE  Firm(disk', calls[n]) \/ InTier(n)'
    BY <1>1 DEF Progress
  <2>1. Firm(disk, calls[n]) \/ InTier(n)
    BY <1>4, <1>8 DEF Progress
  <2>2. calls[n] \in BatchOp /\ Whole(Seen(disk), calls[n])
    BY <1>3, <2>1, OpIsOp, LandedIsThere
  <2> QED
    BY <1>1, <1>10, <2>1, <2>2 DEF Keeps, InTier
<1>14. CertifiedIsFirm'
  <2> SUFFICES ASSUME NEW d \in certified, Kept(d)
               PROVE  /\ Firm(disk', d[1])
                      /\ (d[2] = "Durable" /\ disk'.grade = "Durable") => Fixed(disk', d[1])
    BY <1>1 DEF CertifiedIsFirm
  <2>1. d[1] \in BatchOp /\ Whole(Seen(disk), d[1])
    BY <1>3, <1>8 DEF BatchTyped, CertifiedIsFirm, Firm
  <2> QED
    BY <1>6, <1>8, <1>10, <2>1 DEF CertifiedIsFirm, Keeps, Follows
<1>15. CutsShow'
  <2>1. Narrow(disk', disk)
    BY <1>5, <1>8, <1>9, DirectoryStep DEF Narrow
  <2> QED
    BY <1>1, <1>3, <1>7, <1>8, <2>1, NarrowShows DEF BatchTyped, Running
<1> QED
  BY <1>11, <1>12, <1>13, <1>14, <1>15

LEMMA StaysFirm ==
  ASSUME CertifiedIsFirm, disk'.grade = disk.grade, certified' \subseteq certified,
         \A c \in certified : Kept(c) => Keeps(disk', disk, c[1])
  PROVE  CertifiedIsFirm'
BY DEF CertifiedIsFirm, Keeps

\* What a write of the op's file leaves of the ops that are certified, and of
\* those staged elsewhere.
LEMMA WroteKeeps ==
  ASSUME BatchInv, Orders(disk), AtOp, Wrote(disk', disk, Op)
  PROVE  /\ DiskInv(disk') /\ disk'.grade = disk.grade
         /\ \A op \in BatchOp : (op.path # Op.path /\ Whole(Seen(disk), op)) =>
              /\ Keeps(disk', disk, op)
              /\ \A few, all : (few \subseteq all /\ Landing(disk, op, few)) =>
                   Landing(disk', op, all)
         /\ \A few, all : (few \subseteq all /\ FoldersOwe(disk, few)) => FoldersOwe(disk', all)
         /\ \A c \in certified : Kept(c) => Keeps(disk', disk, c[1])
<1> DEFINE q == Op.path
<1>1. PICK n, b : WroteFile(disk', disk, q, n, b)
  BY DEF Wrote
<1>2. BatchTyped /\ Apart /\ DiskInv(disk) /\ CertifiedIsFirm
  BY DEF BatchInv
<1>3. q \in Files /\ Op \in OpsOf(calls) /\ Running
  BY <1>2, AtOpFacts
<1> HIDE DEF q
<1>4. DiskInv(disk') /\ disk'.grade = disk.grade
  BY <1>1 DEF WroteFile, Grown
<1>5. ASSUME NEW op \in BatchOp, op.path # q, Whole(Seen(disk), op)
      PROVE  /\ Keeps(disk', disk, op)
             /\ \A few, all : (few \subseteq all /\ Landing(disk, op, few)) => Landing(disk', op, all)
  BY <1>1, <1>2, <1>3, <1>5, WroteSame, SameKeeps DEF Keeps
<1>6. \A few, all : (few \subseteq all /\ FoldersOwe(disk, few)) => FoldersOwe(disk', all)
  BY <1>1, <1>3, WroteOwes
<1>7. ASSUME NEW c \in certified, Kept(c)
      PROVE  Keeps(disk', disk, c[1])
  BY <1>2, <1>3, <1>5, <1>7 DEF CertifiedIsFirm, Firm, BatchTyped, Apart, q
<1> QED
  BY <1>4, <1>5, <1>6, <1>7 DEF q

LEMMA LandOpKeeps ==
  ASSUME BatchInv, LandOp
  PROVE  BatchInv'
<1>1. /\ AtOp /\ Missing(disk, DirOf(Op.path)) = {} /\ HasRoom
      /\ disk' = FileLanded(disk, Op, Op.bytes)
      /\ debts' = debts \cup OpDebts(Op) /\ done' = done + 1
      /\ UNCHANGED <<atomic, calls, finality, answer, settled, before, certified>>
  BY DEF LandOp
<1>2. BatchTyped /\ Apart
  BY DEF BatchInv
<1>3. /\ Running /\ done + 1 \in OpsAt(calls) /\ Op = calls[done + 1] /\ Op \in BatchOp
  BY <1>1, <1>2, AtOpFacts
<1>4. Follows(disk', disk)
  BY <1>1, <1>2, FileFollows DEF BatchTyped
<1>5. BatchTyped' /\ Apart'
  BY <1>1, <1>2, <1>4 DEF BatchTyped, Apart, Follows, Running
<1> SUFFICES ASSUME Orders(disk)
             PROVE  (DiskInv(disk) /\ FoldersOwed /\ Progress /\ CertifiedIsFirm /\ CutsShow)'
  BY <1>4, <1>5 DEF BatchInv, Orders, Follows
<1>6. DiskInv(disk) /\ FoldersOwed /\ Progress /\ CertifiedIsFirm /\ CutsShow
  BY DEF BatchInv
<1>7. PICK n : /\ WroteFile(disk', disk, Op.path, n, Op.bytes)
               /\ Op.act = "Write" /\ atomic => WroteWhole(disk', disk, Op.path, n)
  BY <1>1, <1>3, <1>6, FileIsWrote
<1>8. Wrote(disk', disk, Op)
  BY <1>3, <1>7, OpFacts DEF Wrote
<1>9. /\ DiskInv(disk')
      /\ \A op \in BatchOp : (op.path # Op.path /\ Whole(Seen(disk), op)) =>
           /\ Keeps(disk', disk, op)
           /\ Landing(disk, op, debts) => Landing(disk', op, debts')
      /\ FoldersOwe(disk, debts) => FoldersOwe(disk', debts')
      /\ \A c \in certified : Kept(c) => Keeps(disk', disk, c[1])
  <2>1. debts \subseteq debts'
    BY <1>1
  <2> QED
    BY <1>1, <1>8, <2>1, WroteKeeps
<1>10. FoldersOwed'
  BY <1>1, <1>3, <1>6, <1>9 DEF FoldersOwed
<1>11. Progress'
  <2> SUFFICES ASSUME settled, NEW m \in OpsAt(calls), m <= done + 1, IsLast(calls, m)
               PROVE  Firm(disk', calls[m]) \/ InTier(m)'
    BY <1>1 DEF Progress
  <2>0. m \in Nat /\ done \in Nat /\ calls[m] \in BatchOp
    BY <1>2, OpIsOp
  <2>1. CASE m = done + 1
    <3>1. Landing(disk', Op, debts')
      BY <1>1, <1>3, <1>6, <1>7, LandedLands
    <3>2. \A l \in DOMAIN calls : m <= l /\ l <= done + 1 => calls[l] # Barrier
      BY <1>2, <1>3, <2>0, <2>1, OpIsOp DEF OpsAt
    <3> QED
      BY <1>1, <1>3, <2>1, <3>1, <3>2 DEF InTier
  <2>2. CASE m <= done
    <3>1. Firm(disk, calls[m]) \/ InTier(m)
      BY <1>3, <1>6, <2>2 DEF Progress
    <3>2. Whole(Seen(disk), calls[m])
      BY <3>1, LandedIsThere
    <3>3. calls[m].path # Op.path
      BY <1>3, <2>0, <2>2 DEF IsLast
    <3>4. CASE Firm(disk, calls[m])
      BY <1>9, <2>0, <3>2, <3>3, <3>4 DEF Keeps
    <3>5. CASE InTier(m)
      <4>1. Landing(disk', calls[m], debts')
        BY <1>9, <2>0, <3>2, <3>3, <3>5 DEF InTier
      <4>2. \A l \in DOMAIN calls : m <= l /\ l <= done + 1 => calls[l] # Barrier
        BY <1>2, <1>3, <2>0, <3>5, OpIsOp DEF OpsAt, InTier
      <4> QED
        BY <1>1, <4>1, <4>2 DEF InTier
    <3> QED
      BY <3>1, <3>4, <3>5
  <2> QED
    BY <2>0, <2>1, <2>2
<1>12. CertifiedIsFirm'
  BY <1>1, <1>4, <1>6, <1>9, StaysFirm DEF Follows
<1>13. CutsShow'
  BY <1>1, <1>8, WroteShows
<1> QED
  BY <1>9, <1>10, <1>11, <1>12, <1>13

LEMMA OccupiedKeeps ==
  ASSUME BatchInv, Occupied
  PROVE  BatchInv'
<1>1. /\ ~Running' /\ UNCHANGED <<disk, atomic, calls, finality, done, settled, before, certified>>
  BY DEF Occupied, Return, Running
<1>2. BatchTyped'
  BY <1>1 DEF BatchInv, BatchTyped
<1>3. Orders(disk) => CertifiedIsFirm' /\ CutsShow'
  BY <1>1 DEF BatchInv, CertifiedIsFirm, CutsShow, Untouched, Tiers, Ahead, NothingTorn,
     OnlyWritten, Cuts
<1> QED
  BY <1>1, <1>2, <1>3 DEF BatchInv, Apart, FoldersOwed, Progress

LEMMA SkipBarrierKeeps ==
  ASSUME BatchInv, SkipBarrier
  PROVE  BatchInv'
<1>1. /\ Running /\ ~AtOp /\ debts = {} /\ done' = done + 1
      /\ UNCHANGED <<disk, atomic, calls, finality, debts, answer, settled, before, certified>>
  BY DEF SkipBarrier
<1>2. BatchTyped /\ BatchTyped' /\ Apart'
  BY <1>1 DEF BatchInv, BatchTyped, Apart, Running
<1>3. done + 1 \notin OpsAt(calls)
  BY <1>1 DEF AtOp
<1> SUFFICES ASSUME Orders(disk)
             PROVE  (DiskInv(disk) /\ FoldersOwed /\ Progress /\ CertifiedIsFirm /\ CutsShow)'
  BY <1>1, <1>2 DEF BatchInv
<1>4. DiskInv(disk') /\ FoldersOwed' /\ CertifiedIsFirm'
  BY <1>1 DEF BatchInv, FoldersOwed, CertifiedIsFirm, Running
<1>5. Progress'
  <2> SUFFICES ASSUME settled, NEW m \in OpsAt(calls), m <= done + 1, IsLast(calls, m)
               PROVE  Firm(disk, calls[m])
    BY <1>1 DEF Progress
  <2>1. m \in Nat /\ done \in Nat
    BY <1>2, OpIsOp
  <2>2. m <= done
    BY <1>3, <2>1
  <2>3. Firm(disk, calls[m]) \/ InTier(m)
    BY <1>1, <2>2 DEF BatchInv, Progress
  <2>4. ~InTier(m)
    BY <1>1 DEF InTier, Landing
  <2> QED
    BY <2>3, <2>4
<1>6. CutsShow'
  <2>1. Narrow(disk', disk)
    BY <1>1 DEF Narrow
  <2>2. \A c \in certified' : c[1] \in BatchOp
    BY <1>2 DEF BatchTyped
  <2>3. CutsShow
    BY DEF BatchInv
  <2> QED
    BY <1>1, <1>2, <2>1, <2>2, <2>3, NarrowShows DEF Running
<1> QED
  BY <1>4, <1>5, <1>6

\* Handing over takes nothing from what is firm, and shows nothing new.
LEMMA HandedKeeps ==
  ASSUME NEW k, DiskInv(k), NEW os
  PROVE  /\ DiskInv(Handed(k, os)) /\ Narrow(Handed(k, os), k)
         /\ Handed(k, os).grade = k.grade
         /\ \A op \in BatchOp : Whole(Seen(k), op) => Keeps(Handed(k, os), k, op)
<1> DEFINE h == Handed(k, os)
<1>1. DiskInv(h) /\ Rewritten(h, k) /\ Grown(h, k, {})
  BY HandedInv
<1> HIDE DEF h
<1>2. Seen(h) = Seen(k) /\ h.grade = k.grade
  BY <1>1, RewrittenValues DEF DiskInv, Rewritten
<1>3. Narrow(h, k)
  BY <1>1, QuietStep DEF Narrow
<1>4. ASSUME NEW op \in BatchOp, Whole(Seen(k), op)
      PROVE  Keeps(h, k, op)
  BY <1>1, <1>2, <1>4, QuietSame, SameKeeps DEF Keeps
<1> QED
  BY <1>1, <1>2, <1>3, <1>4 DEF h

LEMMA StopsKeeps ==
  ASSUME BatchInv, Stops
  PROVE  BatchInv'
<1>1. /\ ~Running' /\ Running /\ (AtOp => HasRoom)
      /\ UNCHANGED <<atomic, calls, finality, done, settled, before, certified>>
  BY DEF Stops, Return, Running
<1>2. BatchTyped
  BY DEF BatchInv
<1>3. \/ disk' = disk
      \/ /\ AtOp /\ Missing(disk, DirOf(Op.path)) = {}
         /\ \E b \in {Op.bytes, Torn} :
              (Op.act = "Write" /\ atomic => b = Op.bytes) /\ disk' = FileLanded(disk, Op, b)
      \/ \E some : disk' = Handed(disk, Objects(disk, some))
  <2>1. CASE AtOp
    <3>1. disk' \in OpLeft(disk, Op)
      BY <2>1 DEF Stops
    <3> QED
      BY <2>1, <3>1 DEF OpLeft
  <2>2. CASE ~AtOp
    BY <2>2 DEF Stops
  <2> QED
    BY <2>1, <2>2
<1>4. Follows(disk', disk)
  BY <1>2, <1>3, FileFollows, GradeStays DEF Follows, BatchTyped
<1>5. BatchTyped' /\ Apart'
  BY <1>1, <1>2, <1>4 DEF BatchTyped, Apart, Follows
<1> SUFFICES ASSUME Orders(disk)
             PROVE  (DiskInv(disk) /\ FoldersOwed /\ Progress /\ CertifiedIsFirm /\ CutsShow)'
  BY <1>4, <1>5 DEF BatchInv, Orders, Follows
<1>6. FoldersOwed' /\ Progress'
  BY <1>1 DEF FoldersOwed, Progress
<1>7. DiskInv(disk) /\ CertifiedIsFirm /\ CutsShow /\ \A c \in certified' : c[1] \in BatchOp
  BY <1>5 DEF BatchInv, BatchTyped
<1>8. CASE disk' = disk
  BY <1>1, <1>6, <1>7, <1>8 DEF CertifiedIsFirm, CutsShow, Untouched, Tiers, Ahead, NothingTorn,
     OnlyWritten, Cuts
<1>9. CASE /\ AtOp /\ Missing(disk, DirOf(Op.path)) = {}
           /\ \E b \in {Op.bytes, Torn} :
                (Op.act = "Write" /\ atomic => b = Op.bytes) /\ disk' = FileLanded(disk, Op, b)
  <2>1. PICK b \in {Op.bytes, Torn} :
          (Op.act = "Write" /\ atomic => b = Op.bytes) /\ disk' = FileLanded(disk, Op, b)
    BY <1>9
  <2>2. Op \in BatchOp
    BY <1>2, <1>9, AtOpFacts
  <2>3. Wrote(disk', disk, Op)
    <3>1. PICK n : /\ WroteFile(disk', disk, Op.path, n, b)
                   /\ Op.act = "Write" /\ atomic => WroteWhole(disk', disk, Op.path, n)
      BY <1>1, <1>7, <1>9, <2>1, <2>2, FileIsWrote
    <3> QED
      BY <2>1, <2>2, <3>1, OpFacts DEF Wrote
  <2>4. DiskInv(disk') /\ \A c \in certified : Kept(c) => Keeps(disk', disk, c[1])
    BY <1>9, <2>3, WroteKeeps
  <2>5. CertifiedIsFirm'
    BY <1>1, <1>4, <1>7, <2>4, StaysFirm DEF Follows
  <2>6. CutsShow'
    BY <1>1, <1>9, <2>3, WroteShows
  <2> QED
    BY <1>6, <2>4, <2>5, <2>6
<1>10. CASE \E some : disk' = Handed(disk, Objects(disk, some))
  <2>1. /\ DiskInv(disk') /\ Narrow(disk', disk)
        /\ \A op \in BatchOp : Whole(Seen(disk), op) => Keeps(disk', disk, op)
    BY <1>7, <1>10, HandedKeeps
  <2>2. \A c \in certified : Kept(c) => Keeps(disk', disk, c[1])
    BY <1>2, <1>7, <2>1 DEF CertifiedIsFirm, Firm, BatchTyped
  <2>3. CertifiedIsFirm'
    BY <1>1, <1>4, <1>7, <2>2, StaysFirm DEF Follows
  <2>4. CutsShow'
    BY <1>1, <1>2, <1>7, <2>1, NarrowShows
  <2> QED
    BY <1>6, <2>1, <2>3, <2>4
<1> QED
  BY <1>3, <1>8, <1>9, <1>10

\* At the end of a tier, and so of a batch, what has landed is firm or covered.
LEMMA FlushTierKeeps ==
  ASSUME BatchInv, FlushTier
  PROVE  BatchInv'
<1> DEFINE need == IF OpsLeft = {} THEN finality ELSE "Ordered"
<1>1. /\ Running /\ ~AtOp /\ debts # {}
      /\ disk' = FlushAll(disk, Objects(disk, debts), Root, need)
      /\ UNCHANGED <<atomic, calls, finality, settled, before>>
  BY DEF FlushTier
<1>2. \/ /\ OpsLeft = {} /\ ~Running' /\ done' = done
         /\ certified' = certified \cup (Lasting(calls) \X {finality} \X {settled})
      \/ /\ OpsLeft # {} /\ done' = done + 1 /\ debts' = {}
         /\ Running' /\ certified' = certified
  BY <1>1 DEF FlushTier, Return, Running
<1>3. BatchTyped
  BY DEF BatchInv
<1>4. ASSUME NEW c \in certified'
      PROVE  \/ c \in certified
             \/ /\ OpsLeft = {} /\ c[2] = finality /\ c[3] = settled
                /\ \E n \in OpsAt(calls) : IsLast(calls, n) /\ c[1] = calls[n]
  BY <1>2, <1>4 DEF Lasting
<1>5. \A c \in certified' : c[1] \in BatchOp /\ (c \in certified \/ c[1] \in OpsOf(calls))
  BY <1>3, <1>4, OpIsOp DEF BatchTyped, OpsOf
<1>6. need \in {"Pushed", "Ordered", "Durable"} /\ done' \in {done, done + 1} /\ done' \in Nat
  BY <1>2, <1>3 DEF BatchTyped
<1>7. Follows(disk', disk)
  <2>1. Sound(disk)
    BY <1>3 DEF BatchTyped
  <2>2. \A os, o, w : FlushAll(disk, os, o, w).grade = disk.grade
    <3> SUFFICES ASSUME NEW os, NEW o, NEW w
                 PROVE  FlushAll(disk, os, o, w).grade = disk.grade
      OBVIOUS
    <3> DEFINE g == Handed(disk, os \ {o})
    <3>1. Handed(disk, os).grade = disk.grade /\ Sound(g) /\ g.grade = disk.grade
      BY <2>1, GradeStays
    <3> HIDE DEF g
    <3>2. Sync(g, o, w).grade = disk.grade
      BY <3>1, GradeStays
    <3> QED
      BY <3>1, <3>2 DEF FlushAll, g
  <2> HIDE DEF need
  <2> QED
    BY <1>1, <2>1, <2>2, EveryDiskIsSound DEF Follows
<1> HIDE DEF need
<1>8. BatchTyped'
  BY <1>1, <1>3, <1>5, <1>6, <1>7 DEF BatchTyped, Follows
<1>9. Apart'
  BY <1>1, <1>2 DEF BatchInv, Apart
<1> SUFFICES ASSUME Orders(disk)
             PROVE  (DiskInv(disk) /\ FoldersOwed /\ Progress /\ CertifiedIsFirm /\ CutsShow)'
  BY <1>7, <1>8, <1>9 DEF BatchInv, Orders, Follows
<1>10. DiskInv(disk) /\ FoldersOwed /\ Progress /\ CertifiedIsFirm /\ CutsShow
  BY DEF BatchInv
\* What the tier has landed, of a batch that found its directories flushed.
<1>11. ASSUME settled, NEW n \in OpsAt(calls), n <= done, IsLast(calls, n)
       PROVE  /\ calls[n] \in BatchOp /\ FoldersOwe(disk, debts)
              /\ Firm(disk, calls[n]) \/ Landing(disk, calls[n], debts)
  BY <1>1, <1>3, <1>10, <1>11, OpIsOp DEF Progress, InTier, FoldersOwed
\* The flush is handed over, or capped.
<1>12. CASE need = "Pushed"
  <2>0. OpsLeft = {} /\ finality = "Pushed"
    BY <1>12 DEF need
  <2>1. disk' = Handed(disk, Objects(disk, debts))
    BY <1>1, <1>12 DEF FlushAll
  <2>2. /\ DiskInv(disk') /\ Narrow(disk', disk)
        /\ \A op \in BatchOp : Whole(Seen(disk), op) => Keeps(disk', disk, op)
    BY <1>10, <2>1, HandedKeeps
  <2>3. CutsShow'
    BY <1>1, <1>2, <1>3, <1>5, <1>6, <1>10, <2>2, NarrowShows
  <2>4. CertifiedIsFirm'
    <3> SUFFICES ASSUME NEW c \in certified', Kept(c)
                 PROVE  /\ Firm(disk', c[1])
                        /\ (c[2] = "Durable" /\ disk'.grade = "Durable") => Fixed(disk', c[1])
      BY DEF CertifiedIsFirm
    <3>1. c \in certified
      BY <1>4, <2>0 DEF Kept
    <3>2. Keeps(disk', disk, c[1]) /\ Firm(disk, c[1])
      BY <1>3, <1>10, <2>2, <3>1 DEF CertifiedIsFirm, Firm, BatchTyped
    <3> QED
      BY <1>7, <1>10, <3>1, <3>2 DEF Keeps, CertifiedIsFirm, Follows
  <2> QED
    BY <1>2, <2>0, <2>2, <2>3, <2>4 DEF FoldersOwed, Progress
<1>13. CASE need # "Pushed"
  <2>1. Capped(disk', disk, debts, need)
    BY <1>1, <1>6, <1>10, <1>13, FlushCaps DEF Orders
  <2>2. DiskInv(disk') /\ Narrow(disk', disk)
    BY <2>1 DEF Capped, Narrow
  <2>3. CutsShow'
    BY <1>1, <1>2, <1>3, <1>5, <1>6, <1>10, <2>2, NarrowShows
  <2>4. CertifiedIsFirm'
    <3> SUFFICES ASSUME NEW c \in certified', Kept(c)
                 PROVE  /\ Firm(disk', c[1])
                        /\ (c[2] = "Durable" /\ disk'.grade = "Durable") => Fixed(disk', c[1])
      BY DEF CertifiedIsFirm
    <3>1. CASE c \in certified
      BY <1>3, <1>7, <1>10, <2>1, <3>1 DEF CertifiedIsFirm, Capped, Follows, BatchTyped
    <3>2. CASE c \notin certified
      <4>1. /\ OpsLeft = {} /\ c[2] = finality /\ c[3] = settled
            /\ \E n \in OpsAt(calls) : IsLast(calls, n) /\ c[1] = calls[n]
        BY <1>4, <3>2
      <4>2. PICK n \in OpsAt(calls) : IsLast(calls, n) /\ c[1] = calls[n]
        BY <4>1
      <4>3. n <= done
        BY <1>3, <4>1, OpIsOp DEF OpsLeft
      <4>4. settled /\ c[2] = need
        BY <4>1 DEF Kept, need
      <4> QED
        BY <1>7, <1>11, <2>1, <4>2, <4>3, <4>4 DEF Capped, Follows
    <3> QED
      BY <3>1, <3>2
  <2>5. FoldersOwed'
    <3> SUFFICES ASSUME Running', settled PROVE FoldersOwe(disk', debts')
      BY <1>1 DEF FoldersOwed
    <3>1. FoldersOwe(disk, debts)
      BY <1>1, <1>10 DEF FoldersOwed
    <3> QED
      BY <1>2, <2>1, <3>1 DEF Capped
  <2>6. Progress'
    <3> SUFFICES ASSUME Running', settled, NEW n \in OpsAt(calls), n <= done', IsLast(calls, n)
                 PROVE  Firm(disk', calls[n])
      BY <1>1 DEF Progress
    <3>1. n \in Nat /\ done \in Nat /\ n # done + 1
      BY <1>1, <1>3, OpIsOp DEF AtOp
    <3>2. n <= done
      BY <1>6, <3>1
    <3> QED
      BY <1>11, <2>1, <3>2 DEF Capped
  <2> QED
    BY <2>2, <2>3, <2>4, <2>5, <2>6
<1> QED
  BY <1>12, <1>13

LEMMA PowerCutKeeps ==
  ASSUME BatchInv, PowerCut
  PROVE  BatchInv'
<1>1. PICK s \in Survivors(disk) : disk' = Clean(Reachable(s), disk.ordered, disk.grade)
  BY DEF PowerCut
<1>2. /\ ~Running' /\ UNCHANGED <<atomic, calls, finality, done, settled, before>>
      /\ certified' = {c \in certified : c[2] = "Durable" /\ disk.grade = "Durable"}
  BY DEF PowerCut, Return, Running
<1>3. BatchTyped
  BY DEF BatchInv
<1>4. Follows(disk', disk)
  BY <1>1, CleanIs, EveryDiskIsSound DEF Follows
<1>5. BatchTyped' /\ Apart'
  BY <1>2, <1>3, <1>4 DEF BatchTyped, Apart, Follows
<1> SUFFICES ASSUME Orders(disk)
             PROVE  (DiskInv(disk) /\ FoldersOwed /\ Progress /\ CertifiedIsFirm /\ CutsShow)'
  BY <1>4, <1>5 DEF BatchInv, Orders, Follows
<1>6. DiskInv(disk) /\ CertifiedIsFirm /\ CutsShow
  BY DEF BatchInv
<1>7. /\ DiskInv(disk') /\ DOMAIN disk'.log = {}
      /\ \A p \in Files : Found(Seen(disk'), p) = Found(s, p)
      /\ \A t \in Survivors(disk') : \A p \in Files : Found(t, p) = Found(s, p)
  BY <1>1, <1>6, CutStep
<1>8. Narrow(disk', disk)
  BY <1>7 DEF Narrow
<1>9. CertifiedIsFirm'
  <2> SUFFICES ASSUME NEW c \in certified', Kept(c)
               PROVE  Firm(disk', c[1]) /\ Fixed(disk', c[1])
    BY DEF CertifiedIsFirm
  <2>1. c[1] \in BatchOp /\ Fixed(disk, c[1])
    BY <1>2, <1>3, <1>6 DEF CertifiedIsFirm, BatchTyped
  <2>2. Whole(s, c[1])
    BY <1>6, <2>1, FixedIsWhole
  <2>3. Whole(Seen(disk'), c[1])
    BY <1>7, <2>1, <2>2, OpFacts DEF Whole
  <2>4. \A l : WritersOf(disk', l) = {}
    BY <1>7 DEF WritersOf, Writers
  <2> QED
    BY <2>3, <2>4 DEF Firm, Fixed
<1>10. CutsShow'
  BY <1>2, <1>3, <1>5, <1>6, <1>8, NarrowShows DEF BatchTyped
<1> QED
  BY <1>2, <1>7, <1>9, <1>10 DEF FoldersOwed, Progress

-----------------------------------------------------------------------------
(* The theorems.                                                             *)

LEMMA NextInv ==
  BatchInv /\ [Next]_vars => BatchInv'
<1> SUFFICES ASSUME BatchInv, [Next]_vars PROVE BatchInv'
  OBVIOUS
<1>1. CASE Apply
  BY <1>1, ApplyKeeps
<1>2. CASE MakeDir
  BY <1>2, MakeDirKeeps
<1>3. CASE LandOp
  BY <1>3, LandOpKeeps
<1>4. CASE Occupied
  BY <1>4, OccupiedKeeps
<1>5. CASE SkipBarrier
  BY <1>5, SkipBarrierKeeps
<1>6. CASE FlushTier
  BY <1>6, FlushTierKeeps
<1>7. CASE Stops
  BY <1>7, StopsKeeps
<1>8. CASE PowerCut
  BY <1>8, PowerCutKeeps
<1>9. CASE UNCHANGED vars
  <2>1. UNCHANGED <<disk, atomic, calls, finality, done, debts, answer, settled, before, certified>>
    BY <1>9 DEF vars
  <2>2. BatchTyped' /\ Apart'
    BY <2>1 DEF BatchInv, BatchTyped, Apart, Running
  <2>3. Orders(disk) => FoldersOwed' /\ Progress' /\ CertifiedIsFirm'
    BY <2>1 DEF BatchInv, FoldersOwed, Progress, InTier, CertifiedIsFirm, Running
  <2>4. Orders(disk) => CutsShow'
    BY <2>1 DEF BatchInv, CutsShow, Untouched, NotReached, Tiers, Ahead, NothingTorn,
       OnlyWritten, Cuts, Running
  <2> QED
    BY <2>1, <2>2, <2>3, <2>4 DEF BatchInv
<1> QED
  BY <1>1, <1>2, <1>3, <1>4, <1>5, <1>6, <1>7, <1>8, <1>9 DEF Next

\* In every behaviour of OrderedBatch::apply, whatever calls fail and wherever
\* the power is cut, what has landed is firm or owed by the tier being built,
\* and no cut shows an op of a later tier without what was staged ahead of it.
THEOREM BatchIsInv ==
  Spec => []BatchInv
<1>1. Init => BatchInv
  BY InitInv
<1>2. BatchInv /\ [Next]_vars => BatchInv'
  BY NextInv
<1> QED
  BY <1>1, <1>2, PTL DEF Spec

\* One barrier at the end of a tier is enough, under OrderedBatch::apply, for no
\* cut to leave anything staged after it unless all that was staged before it
\* is there whole: of every batch that finds its directories flushed, on every
\* backend that orders.
THEOREM TiersAreInOrder ==
  Spec => []TiersInOrder
<1>1. BatchInv => TiersInOrder
  BY DEF BatchInv, Orders, CutsShow, Tiers, TiersInOrder, Shows
<1> QED
  BY <1>1, BatchIsInv, PTL

\* What OrderedBatch::apply returned Ok for, asked to be durable by a backend
\* that drains, is there whole after every cut that follows, until a later
\* batch writes the same file: if the directories it found were flushed.
THEOREM SettledBatchIsKept ==
  Spec => []SettledBatchSurvives
<1>1. BatchInv => SettledBatchSurvives
  <2> SUFFICES ASSUME BatchInv, disk.grade = "Durable",
                      NEW s \in Cuts, NEW c \in certified, c[2] = "Durable", c[3]
               PROVE  Whole(s, c[1])
    BY DEF SettledBatchSurvives
  <2>1. Orders(disk) /\ Kept(c)
    BY DEF Orders, Satisfies, Kept
  <2>2. Fixed(disk, c[1]) /\ c[1] \in BatchOp /\ DiskInv(disk)
    BY <2>1 DEF BatchInv, BatchTyped, CertifiedIsFirm
  <2> QED
    BY <2>2, FixedIsWhole DEF Cuts
<1> QED
  BY <1>1, BatchIsInv, PTL

\* What one call of OrderedBatch::apply returned Ok for, asked for a barrier,
\* is ahead of whatever the next writes: no cut shows the next without it.
THEOREM OkIsAheadOfNext ==
  Spec => []OrderedAheadOfNext
<1>1. BatchInv => OrderedAheadOfNext
  BY DEF BatchInv, Orders, Kept, CutsShow, Ahead, OrderedAheadOfNext, Shows
<1> QED
  BY <1>1, BatchIsInv, PTL

\* A staged write is never seen in part, in a tier that was cut short as in any
\* other, where Storage::replace is atomic.
THEOREM WritesAreWhole ==
  Spec => []WritesWhole
<1>1. BatchInv => WritesWhole
  BY DEF BatchInv, Orders, CutsShow, NothingTorn, OnlyWritten, WritesWhole
<1> QED
  BY <1>1, BatchIsInv, PTL

=============================================================================
