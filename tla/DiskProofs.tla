----------------------------- MODULE DiskProofs -----------------------------
(***************************************************************************)
(* What a flush buys, on every disk: the push-and-cap pairing that         *)
(* flush_all, apply, recover and the batch rest on.  One drain carries     *)
(* every debt handed over before it through any power cut, one barrier     *)
(* lands them ahead of whatever is written next, and no flush changes      *)
(* what a process reads.                                                   *)
(***************************************************************************)
EXTENDS Disk, TLAPS

\* A write of the log, as a record.
IsWrite(w) ==
  w = [puts |-> w.puts, device |-> w.device, owed |-> w.owed,
       bound |-> w.bound, after |-> w.after]

Shares(k, m, n) == DOMAIN k.log[m].puts \cap DOMAIN k.log[n].puts # {}

Form(k) ==
  /\ k = [store |-> k.store, log |-> k.log, ordered |-> k.ordered, grade |-> k.grade]
  /\ k.log = [n \in DOMAIN k.log |-> k.log[n]]
  /\ DOMAIN k.log \subseteq Nat \ {0}
  /\ \A n \in DOMAIN k.log : IsWrite(k.log[n])

\* Any writes of the log have a last one: it is finite.
HasLast(k) ==
  \A T \in SUBSET DOMAIN k.log : T # {} => \E n \in T : \A m \in T : m <= n

\* What a write lands after is earlier, closed, and includes every earlier
\* write of a location of its own.
InOrder(k) ==
  /\ \A n \in DOMAIN k.log : \A m \in k.log[n].after :
       /\ m \in DOMAIN k.log
       /\ m < n
       /\ k.log[m].after \subseteq k.log[n].after
  /\ \A m, n \in DOMAIN k.log : (m < n /\ Shares(k, m, n)) => m \in k.log[n].after

\* The disks there are: Clean ones, and what writes and flushes make of them.
Sound(k) == Form(k) /\ HasLast(k) /\ InOrder(k)

-----------------------------------------------------------------------------
(* The last of some writes.                                                  *)

LEMMA MaxIs ==
  ASSUME NEW S \in SUBSET Nat, NEW m \in S, \A n \in S : n <= m
  PROVE  Fin!Max(S) = m
<1>1. \A y \in S : m >= y
  OBVIOUS
<1>2. \A x \in S : (\A y \in S : x >= y) => x = m
  OBVIOUS
<1> QED
  BY <1>1, <1>2 DEF Fin!Max

\* The writes of S that put something at l.
Writers(k, S, l) == {n \in S : l \in DOMAIN k.log[n].puts}

LEMMA LastIs ==
  ASSUME NEW k, Sound(k), NEW S \in SUBSET DOMAIN k.log, NEW l, NEW n \in Writers(k, S, l),
         \A m \in Writers(k, S, l) : m <= n
  PROVE  l \in DOMAIN Landed(k, S) /\ Landed(k, S)[l] = k.log[n].puts[l]
<1> DEFINE changed == UNION {DOMAIN k.log[m].puts : m \in S}
<1>1. Writers(k, S, l) \in SUBSET Nat
  BY DEF Sound, Form, Writers
<1>2. Fin!Max(Writers(k, S, l)) = n
  BY <1>1, MaxIs
<1>3. l \in changed
  BY DEF Writers
<1>4. Fin!Max({m \in S : l \in DOMAIN k.log[m].puts}) = n
  BY <1>2 DEF Writers
<1> QED
  BY <1>3, <1>4 DEF Landed

LEMMA UnwrittenIs ==
  ASSUME NEW k, NEW S, NEW l, Writers(k, S, l) = {}
  PROVE  /\ l \in DOMAIN Landed(k, S) <=> l \in DOMAIN k.store
         /\ l \in DOMAIN k.store => Landed(k, S)[l] = k.store[l]
<1> DEFINE changed == UNION {DOMAIN k.log[m].puts : m \in S}
<1>1. l \notin changed
  BY DEF Writers
<1> QED
  BY <1>1 DEF Landed

LEMMA LandedIsFunction ==
  ASSUME NEW k, NEW S
  PROVE  Landed(k, S) = [l \in DOMAIN Landed(k, S) |-> Landed(k, S)[l]]
  BY DEF Landed

LEMMA LastExists ==
  ASSUME NEW k, Sound(k), NEW S \in SUBSET DOMAIN k.log, NEW l, Writers(k, S, l) # {}
  PROVE  \E n \in Writers(k, S, l) : \A m \in Writers(k, S, l) : m <= n
  BY DEF Sound, HasLast, Writers

\* What a process reads at l: the last write of the log there, or the store.
LEMMA SeenIs ==
  ASSUME NEW k, Sound(k), NEW l
  PROVE  /\ \A n \in DOMAIN k.log :
              (l \in DOMAIN k.log[n].puts
                 /\ \A m \in DOMAIN k.log : l \in DOMAIN k.log[m].puts => m <= n)
              => l \in DOMAIN Seen(k) /\ Seen(k)[l] = k.log[n].puts[l]
         /\ (\A n \in DOMAIN k.log : l \notin DOMAIN k.log[n].puts)
              => /\ l \in DOMAIN Seen(k) <=> l \in DOMAIN k.store
                 /\ l \in DOMAIN k.store => Seen(k)[l] = k.store[l]
<1>1. ASSUME NEW n \in DOMAIN k.log, l \in DOMAIN k.log[n].puts,
             \A m \in DOMAIN k.log : l \in DOMAIN k.log[m].puts => m <= n
      PROVE  l \in DOMAIN Seen(k) /\ Seen(k)[l] = k.log[n].puts[l]
  <2>1. n \in Writers(k, DOMAIN k.log, l)
    BY <1>1 DEF Writers
  <2>2. \A m \in Writers(k, DOMAIN k.log, l) : m <= n
    BY <1>1 DEF Writers
  <2> QED
    BY <2>1, <2>2, LastIs DEF Seen
<1>2. ASSUME \A n \in DOMAIN k.log : l \notin DOMAIN k.log[n].puts
      PROVE  /\ l \in DOMAIN Seen(k) <=> l \in DOMAIN k.store
             /\ l \in DOMAIN k.store => Seen(k)[l] = k.store[l]
  <2>1. Writers(k, DOMAIN k.log, l) = {}
    BY <1>2 DEF Writers
  <2> QED
    BY <2>1, UnwrittenIs DEF Seen
<1> QED
  BY <1>1, <1>2

-----------------------------------------------------------------------------
(* Handing over and binding leave the writes as they are.                    *)

\* h has the writes of k, whatever they owe and whatever binds them.
Rewritten(h, k) ==
  /\ h.store = k.store
  /\ h.grade = k.grade
  /\ DOMAIN h.log = DOMAIN k.log
  /\ \A n \in DOMAIN k.log :
       /\ h.log[n].puts = k.log[n].puts
       /\ h.log[n].device = k.log[n].device
       /\ h.log[n].after = k.log[n].after

LEMMA RewrittenIsSound ==
  ASSUME NEW k, NEW h, Sound(k), Form(h), Rewritten(h, k)
  PROVE  Sound(h)
<1>1. HasLast(h)
  BY DEF Sound, HasLast, Rewritten
<1>2. InOrder(h)
  BY DEF Sound, InOrder, Rewritten, Shares
<1> QED
  BY <1>1, <1>2 DEF Sound

LEMMA RewrittenLands ==
  ASSUME NEW k, NEW h, Sound(k), Rewritten(h, k), NEW S \in SUBSET DOMAIN k.log
  PROVE  Landed(h, S) = Landed(k, S)
<1>1. \A n \in S : h.log[n].puts = k.log[n].puts
  BY DEF Rewritten
<1> DEFINE changed(d) == UNION {DOMAIN d.log[m].puts : m \in S}
           wrote(d, l) == {m \in S : l \in DOMAIN d.log[m].puts}
<1>2. changed(h) = changed(k)
  BY <1>1
<1>3. \A l : wrote(h, l) = wrote(k, l)
  BY <1>1
<1>4. ASSUME NEW l \in changed(k)
      PROVE  h.log[Fin!Max(wrote(h, l))].puts[l] = k.log[Fin!Max(wrote(k, l))].puts[l]
  <2>1. Writers(k, S, l) # {}
    BY <1>4 DEF Writers
  <2>2. PICK n \in Writers(k, S, l) : \A m \in Writers(k, S, l) : m <= n
    BY <2>1, LastExists
  <2>3. Writers(k, S, l) \in SUBSET Nat
    BY DEF Writers, Sound, Form
  <2>4. Fin!Max(Writers(k, S, l)) = n
    BY <2>2, <2>3, MaxIs
  <2>5. Fin!Max(wrote(k, l)) = n /\ Fin!Max(wrote(h, l)) = n /\ n \in S
    BY <2>4, <1>3 DEF Writers
  <2> QED
    BY <2>5, <1>1
<1> HIDE DEF changed, wrote
<1>5. Landed(h, S) = [l \in changed(h) \cup DOMAIN h.store |->
         IF l \in changed(h) THEN h.log[Fin!Max(wrote(h, l))].puts[l] ELSE h.store[l]]
  BY DEF Landed, changed, wrote
<1>6. Landed(k, S) = [l \in changed(k) \cup DOMAIN k.store |->
         IF l \in changed(k) THEN k.log[Fin!Max(wrote(k, l))].puts[l] ELSE k.store[l]]
  BY DEF Landed, changed, wrote
<1>7. h.store = k.store
  BY DEF Rewritten
<1> QED
  BY <1>2, <1>4, <1>5, <1>6, <1>7

LEMMA RewrittenIsUnseen ==
  ASSUME NEW k, NEW h, Sound(k), Rewritten(h, k)
  PROVE  Seen(h) = Seen(k)
<1>1. DOMAIN h.log = DOMAIN k.log
  BY DEF Rewritten
<1>2. Landed(h, DOMAIN k.log) = Landed(k, DOMAIN k.log)
  BY RewrittenLands
<1> QED
  BY <1>1, <1>2 DEF Seen

LEMMA HandedFacts ==
  ASSUME NEW k, NEW os, Sound(k)
  PROVE  /\ Sound(Handed(k, os))
         /\ Rewritten(Handed(k, os), k)
         /\ \A n \in DOMAIN k.log :
              /\ Handed(k, os).log[n].bound = k.log[n].bound
              /\ k.grade # "None" => Handed(k, os).log[n].owed = k.log[n].owed \ os
<1> DEFINE h == Handed(k, os)
<1>1. CASE k.grade = "None"
  <2>1. h = k
    BY <1>1 DEF Handed
  <2> QED
    BY <1>1, <2>1 DEF Rewritten
<1>2. CASE k.grade # "None"
  <2>1. h = [store |-> k.store, ordered |-> k.ordered, grade |-> k.grade,
             log |-> [n \in DOMAIN k.log |->
                       [puts |-> k.log[n].puts, device |-> k.log[n].device,
                        owed |-> k.log[n].owed \ os, bound |-> k.log[n].bound,
                        after |-> k.log[n].after]]]
    <3>1. \A n \in DOMAIN k.log :
             [k.log[n] EXCEPT !.owed = k.log[n].owed \ os]
               = [puts |-> k.log[n].puts, device |-> k.log[n].device,
                  owed |-> k.log[n].owed \ os, bound |-> k.log[n].bound,
                  after |-> k.log[n].after]
      BY DEF Sound, Form, IsWrite
    <3>2. k = [store |-> k.store, log |-> k.log, ordered |-> k.ordered, grade |-> k.grade]
      BY DEF Sound, Form
    <3>3. h = [k EXCEPT !.log = [n \in DOMAIN k.log |->
                                  [k.log[n] EXCEPT !.owed = k.log[n].owed \ os]]]
      BY <1>2 DEF Handed
    <3> HIDE DEF h
    <3> QED
      BY <3>1, <3>2, <3>3
  <2> HIDE DEF h
  <2>2. Rewritten(h, k)
    BY <2>1 DEF Rewritten
  <2>3. Form(h)
    BY <2>1 DEF Sound, Form, IsWrite
  <2>4. Sound(h)
    BY <2>2, <2>3, RewrittenIsSound
  <2> QED
    BY <2>1, <2>2, <2>4 DEF h
<1> QED
  BY <1>1, <1>2

LEMMA BarrieredFacts ==
  ASSUME NEW k, NEW d, Sound(k)
  PROVE  /\ Sound(Barriered(k, d))
         /\ Rewritten(Barriered(k, d), k)
         /\ \A n \in DOMAIN k.log :
              /\ Barriered(k, d).log[n].owed = k.log[n].owed
              /\ k.log[n].bound \/ n \in OnDevice(k, d) => Barriered(k, d).log[n].bound
<1> DEFINE h == Barriered(k, d)
           bound(n) == k.log[n].bound \/ n \in OnDevice(k, d)
<1>1. h = [store |-> k.store, ordered |-> k.ordered, grade |-> k.grade,
           log |-> [n \in DOMAIN k.log |->
                     [puts |-> k.log[n].puts, device |-> k.log[n].device,
                      owed |-> k.log[n].owed, bound |-> bound(n),
                      after |-> k.log[n].after]]]
  <2>1. \A n \in DOMAIN k.log :
           [k.log[n] EXCEPT !.bound = bound(n)]
             = [puts |-> k.log[n].puts, device |-> k.log[n].device,
                owed |-> k.log[n].owed, bound |-> bound(n), after |-> k.log[n].after]
    <3> HIDE DEF bound
    <3> QED
      BY DEF Sound, Form, IsWrite
  <2>2. k = [store |-> k.store, log |-> k.log, ordered |-> k.ordered, grade |-> k.grade]
    BY DEF Sound, Form
  <2>3. h = [k EXCEPT !.log = [n \in DOMAIN k.log |-> [k.log[n] EXCEPT !.bound = bound(n)]]]
    BY DEF Barriered
  <2> HIDE DEF bound, h
  <2> QED
    BY <2>1, <2>2, <2>3
<1>2. \A n \in DOMAIN k.log : bound(n) => h.log[n].bound
  <2>1. \A n \in DOMAIN k.log : h.log[n].bound = bound(n)
    <3> HIDE DEF bound, h
    <3> QED
      BY <1>1
  <2> QED
    BY <2>1
<1> HIDE DEF h, bound
<1>3. Rewritten(h, k)
  BY <1>1 DEF Rewritten
<1>4. Form(h)
  BY <1>1 DEF Sound, Form, IsWrite
<1>5. Sound(h)
  BY <1>3, <1>4, RewrittenIsSound
<1>6. \A n \in DOMAIN k.log : h.log[n].owed = k.log[n].owed
  BY <1>1
<1> QED
  BY <1>2, <1>3, <1>5, <1>6 DEF h, bound

-----------------------------------------------------------------------------
(* A drain.                                                                  *)

\* What a drain of device d lands.
Done(k, d) == OnDevice(k, d) \cup UNION {k.log[n].after : n \in OnDevice(k, d)}

LEMMA DoneIsClosed ==
  ASSUME NEW k, NEW d, Sound(k)
  PROVE  /\ Done(k, d) \subseteq DOMAIN k.log
         /\ \A n \in Done(k, d) : k.log[n].after \subseteq Done(k, d)
<1>1. Done(k, d) \subseteq DOMAIN k.log
  BY DEF Done, OnDevice, Sound, InOrder
<1>2. ASSUME NEW n \in Done(k, d)
      PROVE  k.log[n].after \subseteq Done(k, d)
  <2>1. CASE n \in OnDevice(k, d)
    BY <2>1 DEF Done
  <2>2. CASE n \notin OnDevice(k, d)
    <3>1. PICK q \in OnDevice(k, d) : n \in k.log[q].after
      BY <2>2 DEF Done
    <3>2. k.log[n].after \subseteq k.log[q].after
      BY <3>1 DEF Sound, InOrder, OnDevice
    <3> QED
      BY <3>1, <3>2 DEF Done
  <2> QED
    BY <2>1, <2>2
<1> QED
  BY <1>1, <1>2

LEMMA DrainedIs ==
  ASSUME NEW k, NEW d, Sound(k)
  PROVE  Drained(k, d) =
           [store |-> Landed(k, Done(k, d)), ordered |-> k.ordered, grade |-> k.grade,
            log |-> [n \in DOMAIN k.log \ Done(k, d) |->
                      [puts |-> k.log[n].puts, device |-> k.log[n].device,
                       owed |-> k.log[n].owed, bound |-> k.log[n].bound,
                       after |-> k.log[n].after \ Done(k, d)]]]
<1> DEFINE done == Done(k, d)
           h == Drained(k, d)
<1>1. \A n \in DOMAIN k.log :
         [k.log[n] EXCEPT !.after = k.log[n].after \ done]
           = [puts |-> k.log[n].puts, device |-> k.log[n].device,
              owed |-> k.log[n].owed, bound |-> k.log[n].bound,
              after |-> k.log[n].after \ done]
  <2> HIDE DEF done
  <2> QED
    BY DEF Sound, Form, IsWrite
<1>2. k = [store |-> k.store, log |-> k.log, ordered |-> k.ordered, grade |-> k.grade]
  BY DEF Sound, Form
<1>3. h = [k EXCEPT !.store = Landed(k, done),
                    !.log = [n \in DOMAIN k.log \ done |->
                              [k.log[n] EXCEPT !.after = k.log[n].after \ done]]]
  BY DEF Drained, Done
<1> HIDE DEF done, h
<1>4. h = [store |-> Landed(k, done), ordered |-> k.ordered, grade |-> k.grade,
           log |-> [n \in DOMAIN k.log \ done |->
                     [puts |-> k.log[n].puts, device |-> k.log[n].device,
                      owed |-> k.log[n].owed, bound |-> k.log[n].bound,
                      after |-> k.log[n].after \ done]]]
  BY <1>1, <1>2, <1>3
<1> QED
  BY <1>4 DEF done, h

LEMMA DrainedIsSound ==
  ASSUME NEW k, NEW d, Sound(k)
  PROVE  Sound(Drained(k, d))
<1> DEFINE h == Drained(k, d)
           done == Done(k, d)
<1>1. h = [store |-> Landed(k, done), ordered |-> k.ordered, grade |-> k.grade,
           log |-> [n \in DOMAIN k.log \ done |->
                     [puts |-> k.log[n].puts, device |-> k.log[n].device,
                      owed |-> k.log[n].owed, bound |-> k.log[n].bound,
                      after |-> k.log[n].after \ done]]]
  BY DrainedIs
<1> HIDE DEF h, done
<1>2. /\ DOMAIN h.log = DOMAIN k.log \ done
      /\ \A n \in DOMAIN h.log : /\ h.log[n].puts = k.log[n].puts
                                 /\ h.log[n].after = k.log[n].after \ done
  BY <1>1
<1>3. Form(h)
  BY <1>1 DEF Sound, Form, IsWrite
<1>4. HasLast(h)
  BY <1>2 DEF Sound, HasLast
<1>5. InOrder(h)
  <2>1. \A n \in DOMAIN h.log : \A m \in h.log[n].after :
           m \in DOMAIN h.log /\ m < n /\ h.log[m].after \subseteq h.log[n].after
    BY <1>2 DEF Sound, InOrder
  <2>2. \A m, n \in DOMAIN h.log : (m < n /\ Shares(h, m, n)) => m \in h.log[n].after
    BY <1>2 DEF Sound, InOrder, Shares
  <2> QED
    BY <2>1, <2>2 DEF InOrder
<1> QED
  BY <1>3, <1>4, <1>5 DEF Sound, h

\* Of two writes of a location, the later is not landed by a drain that leaves
\* the earlier.
LEMMA DoneLandsEarlier ==
  ASSUME NEW k, NEW d, Sound(k), NEW l,
         NEW n \in Writers(k, Done(k, d), l),
         NEW m \in Writers(k, DOMAIN k.log \ Done(k, d), l)
  PROVE  n < m
<1>1. n \in DOMAIN k.log /\ m \in DOMAIN k.log /\ n # m
  BY DoneIsClosed DEF Writers
<1>2. ~(m < n)
  <2>1. Shares(k, m, n)
    BY DEF Shares, Writers
  <2>2. m < n => m \in k.log[n].after
    BY <1>1, <2>1 DEF Sound, InOrder
  <2> QED
    BY <2>2, DoneIsClosed DEF Writers
<1>3. n \in Nat /\ m \in Nat
  BY <1>1 DEF Sound, Form
<1> QED
  BY <1>1, <1>2, <1>3

LEMMA SameLanding ==
  ASSUME NEW k, NEW h, NEW S, NEW Q,
         \A l : /\ l \in DOMAIN Landed(h, S) <=> l \in DOMAIN Landed(k, Q)
                /\ l \in DOMAIN Landed(k, Q) => Landed(h, S)[l] = Landed(k, Q)[l]
  PROVE  Landed(h, S) = Landed(k, Q)
<1> DEFINE f == Landed(h, S)
           g == Landed(k, Q)
<1>1. f = [l \in DOMAIN f |-> f[l]] /\ g = [l \in DOMAIN g |-> g[l]]
  BY LandedIsFunction
<1>2. \A l : (l \in DOMAIN f <=> l \in DOMAIN g) /\ (l \in DOMAIN g => f[l] = g[l])
  OBVIOUS
<1> HIDE DEF f, g
<1>3. DOMAIN f = DOMAIN g
  BY <1>2
<1>4. [l \in DOMAIN f |-> f[l]] = [l \in DOMAIN g |-> g[l]]
  BY <1>2, <1>3
<1>5. f = g
  BY <1>1, <1>4
<1> QED BY <1>5 DEF f, g

\* What has landed of a drained disk is what has landed of the disk when what
\* was drained has too.
LEMMA DrainedLands ==
  ASSUME NEW k, NEW d, Sound(k), NEW S \in SUBSET (DOMAIN k.log \ Done(k, d))
  PROVE  Landed(Drained(k, d), S) = Landed(k, S \cup Done(k, d))
<1> DEFINE h == Drained(k, d)
           done == Done(k, d)
           all == S \cup done
<1>1. /\ h.store = Landed(k, done)
      /\ DOMAIN h.log = DOMAIN k.log \ done
      /\ \A n \in DOMAIN k.log \ done : h.log[n].puts = k.log[n].puts
  <2>1. h = [store |-> Landed(k, done), ordered |-> k.ordered, grade |-> k.grade,
             log |-> [n \in DOMAIN k.log \ done |->
                       [puts |-> k.log[n].puts, device |-> k.log[n].device,
                        owed |-> k.log[n].owed, bound |-> k.log[n].bound,
                        after |-> k.log[n].after \ done]]]
    BY DrainedIs
  <2> HIDE DEF h, done
  <2> QED
    BY <2>1
<1>2. Sound(h)
  BY DrainedIsSound
<1>3. done \subseteq DOMAIN k.log /\ all \in SUBSET DOMAIN k.log /\ S \in SUBSET DOMAIN h.log
  BY <1>1, DoneIsClosed
<1>4. S \cap done = {}
  OBVIOUS
<1>0. all = S \cup done
  OBVIOUS
<1> HIDE DEF h, done, all
<1>5. ASSUME NEW l
      PROVE  /\ l \in DOMAIN Landed(h, S) <=> l \in DOMAIN Landed(k, all)
             /\ l \in DOMAIN Landed(k, all) => Landed(h, S)[l] = Landed(k, all)[l]
  <2>1. CASE Writers(k, S, l) # {}
    <3>1. PICK n \in Writers(k, S, l) : \A m \in Writers(k, S, l) : m <= n
      BY <1>3, <2>1, LastExists
    <3>2. n \in S /\ n \in DOMAIN k.log \ done /\ l \in DOMAIN k.log[n].puts
      BY <1>3, <1>4 DEF Writers
    <3>3. ASSUME NEW m \in Writers(k, done, l) PROVE m <= n
      <4>1. m < n
        BY <3>2, <3>3, DoneLandsEarlier DEF done, Writers
      <4>2. m \in Nat /\ n \in Nat
        BY <1>3, <3>2, <3>3 DEF Writers, Sound, Form
      <4> QED BY <4>1, <4>2
    <3>4. n \in Writers(k, all, l) /\ \A m \in Writers(k, all, l) : m <= n
      BY <1>0, <3>1, <3>2, <3>3 DEF Writers
    <3>5. n \in Writers(h, S, l) /\ \A m \in Writers(h, S, l) : m <= n
      BY <1>1, <1>3, <1>4, <3>1 DEF Writers
    <3>6. h.log[n].puts[l] = k.log[n].puts[l]
      BY <1>1, <3>2
    <3>7. l \in DOMAIN Landed(k, all) /\ Landed(k, all)[l] = k.log[n].puts[l]
      BY <1>3, <3>4, LastIs
    <3>8. l \in DOMAIN Landed(h, S) /\ Landed(h, S)[l] = h.log[n].puts[l]
      BY <1>2, <1>3, <3>5, LastIs
    <3> QED BY <3>6, <3>7, <3>8
  <2>2. CASE Writers(k, S, l) = {}
    <3>1. Writers(h, S, l) = {} /\ Writers(k, all, l) = Writers(k, done, l)
      BY <1>0, <1>1, <1>3, <1>4, <2>2 DEF Writers
    <3>2. /\ l \in DOMAIN Landed(h, S) <=> l \in DOMAIN Landed(k, done)
          /\ l \in DOMAIN Landed(k, done) => Landed(h, S)[l] = Landed(k, done)[l]
      BY <1>1, <3>1, UnwrittenIs
    <3>3. CASE Writers(k, done, l) # {}
      <4>1. PICK n \in Writers(k, done, l) : \A m \in Writers(k, done, l) : m <= n
        BY <1>3, <3>3, LastExists
      <4>2. l \in DOMAIN Landed(k, done) /\ Landed(k, done)[l] = k.log[n].puts[l]
        BY <1>3, <4>1, LastIs
      <4>3. l \in DOMAIN Landed(k, all) /\ Landed(k, all)[l] = k.log[n].puts[l]
        BY <1>3, <3>1, <4>1, LastIs
      <4> QED BY <3>2, <4>2, <4>3
    <3>4. CASE Writers(k, done, l) = {}
      <4>1. /\ l \in DOMAIN Landed(k, done) <=> l \in DOMAIN k.store
            /\ l \in DOMAIN k.store => Landed(k, done)[l] = k.store[l]
        BY <3>4, UnwrittenIs
      <4>2. /\ l \in DOMAIN Landed(k, all) <=> l \in DOMAIN k.store
            /\ l \in DOMAIN k.store => Landed(k, all)[l] = k.store[l]
        BY <3>1, <3>4, UnwrittenIs
      <4> QED BY <3>2, <4>1, <4>2
    <3> QED BY <3>3, <3>4
  <2> QED BY <2>1, <2>2
<1>6. Landed(h, S) = Landed(k, all)
  BY <1>5, SameLanding
<1> QED
  BY <1>6 DEF h, done, all

LEMMA DrainedIsUnseen ==
  ASSUME NEW k, NEW d, Sound(k)
  PROVE  Seen(Drained(k, d)) = Seen(k)
<1> DEFINE h == Drained(k, d)
           done == Done(k, d)
           rest == DOMAIN k.log \ done
<1>1. h.log = [n \in rest |->
                [puts |-> k.log[n].puts, device |-> k.log[n].device,
                 owed |-> k.log[n].owed, bound |-> k.log[n].bound,
                 after |-> k.log[n].after \ done]]
  <2>1. h = [store |-> Landed(k, done), ordered |-> k.ordered, grade |-> k.grade,
             log |-> [n \in rest |->
                       [puts |-> k.log[n].puts, device |-> k.log[n].device,
                        owed |-> k.log[n].owed, bound |-> k.log[n].bound,
                        after |-> k.log[n].after \ done]]]
    BY DrainedIs
  <2> HIDE DEF h, done, rest
  <2> QED
    BY <2>1
<1>2. done \subseteq DOMAIN k.log
  BY DoneIsClosed
<1>3. Landed(h, rest) = Landed(k, rest \cup done)
  BY DrainedLands
<1> HIDE DEF h, done, rest
<1>4. DOMAIN h.log = rest /\ rest \cup done = DOMAIN k.log
  BY <1>1, <1>2 DEF rest
<1>5. Seen(h) = Seen(k)
  BY <1>3, <1>4 DEF Seen
<1> QED BY <1>5 DEF h

-----------------------------------------------------------------------------
(* A flush.                                                                  *)

LEMMA SyncKeeps ==
  ASSUME NEW k, NEW o, NEW need, Sound(k)
  PROVE  Sound(Sync(k, o, need)) /\ Seen(Sync(k, o, need)) = Seen(k)
<1> DEFINE h == Handed(k, {o})
           given == IF Satisfies(k.grade, need) THEN need ELSE k.grade
<1>1. Sound(h) /\ Rewritten(h, k)
  BY HandedFacts
<1> HIDE DEF h
<1>2. Seen(h) = Seen(k)
  BY <1>1, RewrittenIsUnseen
<1>3. Sync(k, o, need) = IF given = "Durable" THEN Drained(h, Device(o))
                         ELSE IF given = "Ordered" THEN Barriered(h, Device(o))
                         ELSE h
  BY DEF Sync, h
<1> HIDE DEF given
<1>4. CASE given = "Durable"
  <2>1. Sound(Drained(h, Device(o)))
    BY <1>1, DrainedIsSound
  <2>2. Seen(Drained(h, Device(o))) = Seen(h)
    BY <1>1, DrainedIsUnseen
  <2> QED
    BY <1>2, <1>3, <1>4, <2>1, <2>2
<1>5. CASE given = "Ordered"
  <2>1. /\ Sound(Barriered(h, Device(o)))
        /\ Rewritten(Barriered(h, Device(o)), h)
    BY <1>1, BarrieredFacts
  <2>2. Seen(Barriered(h, Device(o))) = Seen(h)
    BY <1>1, <2>1, RewrittenIsUnseen
  <2> QED
    BY <1>2, <1>3, <1>5, <2>1, <2>2
<1>6. CASE given # "Durable" /\ given # "Ordered"
  BY <1>1, <1>2, <1>3, <1>6
<1> QED
  BY <1>4, <1>5, <1>6

(***************************************************************************)
(* No flush changes what a process reads, whatever is flushed, at which    *)
(* anchor and on which backend: flush_all may be put anywhere in an        *)
(* operation without changing what the operation does to a running         *)
(* program.                                                                *)
(***************************************************************************)
THEOREM FlushesAreUnseen ==
  ASSUME NEW k, NEW debts, NEW anchor, NEW need, Sound(k)
  PROVE  /\ Sound(FlushAll(k, debts, anchor, need))
         /\ Seen(FlushAll(k, debts, anchor, need)) = Seen(k)
<1>1. ASSUME NEW os
      PROVE  Sound(Handed(k, os)) /\ Seen(Handed(k, os)) = Seen(k)
  <2>1. Sound(Handed(k, os)) /\ Rewritten(Handed(k, os), k)
    BY HandedFacts
  <2> QED
    BY <2>1, RewrittenIsUnseen
<1>2. CASE need = "Pushed"
  BY <1>1, <1>2 DEF FlushAll
<1>3. CASE need # "Pushed" /\ debts = {}
  BY <1>3 DEF FlushAll
<1>4. CASE need # "Pushed" /\ debts # {}
  <2> DEFINE h == Handed(k, debts \ {anchor})
  <2>1. FlushAll(k, debts, anchor, need) = Sync(h, anchor, need)
    BY <1>4 DEF FlushAll
  <2>2. Sound(h) /\ Seen(h) = Seen(k)
    BY <1>1
  <2> HIDE DEF h
  <2> QED
    BY <2>1, <2>2, SyncKeeps
<1> QED
  BY <1>2, <1>3, <1>4

\* What is known of write n when the cap of a flush is reached: every object it
\* is of has been handed over.
LEMMA CapFindsPushed ==
  ASSUME NEW k, Sound(k), NEW debts, NEW anchor, k.grade # "None",
         NEW n \in DOMAIN k.log,
         k.log[n].owed \subseteq debts \cup {anchor},
         k.log[n].device = Device(anchor),
         NEW h, h = Handed(Handed(k, debts \ {anchor}), {anchor})
  PROVE  /\ Sound(h) /\ Rewritten(h, k)
         /\ n \in OnDevice(h, Device(anchor))
<1> DEFINE g == Handed(k, debts \ {anchor})
<1>1. /\ Sound(g) /\ Rewritten(g, k)
      /\ g.log[n].owed = k.log[n].owed \ (debts \ {anchor})
  BY HandedFacts
<1> HIDE DEF g
<1>2. n \in DOMAIN g.log /\ g.grade # "None"
  BY <1>1 DEF Rewritten
<1>3. /\ Sound(h) /\ Rewritten(h, g)
      /\ h.log[n].owed = g.log[n].owed \ {anchor}
  <2>1. h = Handed(g, {anchor})
    BY DEF g
  <2>2. \A m \in DOMAIN g.log :
           Handed(g, {anchor}).log[m].owed = g.log[m].owed \ {anchor}
    BY <1>1, <1>2, HandedFacts
  <2>3. Sound(Handed(g, {anchor})) /\ Rewritten(Handed(g, {anchor}), g)
    BY <1>1, HandedFacts
  <2> QED
    BY <1>2, <2>1, <2>2, <2>3
<1>4. Rewritten(h, k)
  BY <1>1, <1>3 DEF Rewritten
<1>5. h.log[n].owed = {}
  BY <1>1, <1>3
<1>6. n \in DOMAIN h.log /\ h.log[n].device = Device(anchor)
  BY <1>4 DEF Rewritten
<1> QED
  BY <1>3, <1>4, <1>5, <1>6 DEF OnDevice

(***************************************************************************)
(* One drain carries every debt: once flush_all has pushed what a write    *)
(* owes and drained at an anchor of its device, that write is in every     *)
(* state a power cut may leave, whole, unless it was already overwritten.  *)
(* It is why apply and recover may defer their flushes to one cap a        *)
(* device, and may remove the journal after it.                            *)
(***************************************************************************)
THEOREM OneDrainCarriesAll ==
  ASSUME NEW k, Sound(k), k.grade = "Durable",
         NEW debts, debts # {}, NEW anchor,
         NEW n \in DOMAIN k.log,
         k.log[n].owed \subseteq debts \cup {anchor},
         k.log[n].device = Device(anchor),
         NEW l \in DOMAIN k.log[n].puts,
         \A m \in DOMAIN k.log : l \in DOMAIN k.log[m].puts => m <= n
  PROVE  \A s \in Survivors(FlushAll(k, debts, anchor, "Durable")) :
           l \in DOMAIN s /\ s[l] = k.log[n].puts[l] /\ s[l] = Seen(k)[l]
<1> DEFINE h == Handed(Handed(k, debts \ {anchor}), {anchor})
           d == Device(anchor)
           done == Done(h, d)
           f == Drained(h, d)
<1>1. Sound(h) /\ Rewritten(h, k) /\ n \in OnDevice(h, d)
  BY CapFindsPushed
<1>2. Handed(k, debts \ {anchor}).grade = "Durable"
  BY HandedFacts DEF Rewritten
<1>3. FlushAll(k, debts, anchor, "Durable") = f
  BY <1>2 DEF FlushAll, Sync, Satisfies
<1> HIDE DEF h, f, d
<1>4. n \in done /\ done \subseteq DOMAIN h.log
  BY <1>1, DoneIsClosed DEF Done
<1>5. /\ f.store = Landed(h, done)
      /\ DOMAIN f.log = DOMAIN h.log \ done
      /\ \A m \in DOMAIN f.log : f.log[m].puts = h.log[m].puts
  <2>1. f = [store |-> Landed(h, done), ordered |-> h.ordered, grade |-> h.grade,
             log |-> [m \in DOMAIN h.log \ done |->
                       [puts |-> h.log[m].puts, device |-> h.log[m].device,
                        owed |-> h.log[m].owed, bound |-> h.log[m].bound,
                        after |-> h.log[m].after \ done]]]
    BY <1>1, DrainedIs DEF f
  <2> HIDE DEF done
  <2> QED
    BY <2>1
<1> HIDE DEF done
<1>6. /\ l \in DOMAIN h.log[n].puts
      /\ h.log[n].puts[l] = k.log[n].puts[l]
      /\ \A m \in DOMAIN h.log : l \in DOMAIN h.log[m].puts => m <= n
  BY <1>1 DEF Rewritten
<1>7. l \in DOMAIN f.store /\ f.store[l] = k.log[n].puts[l]
  <2>1. n \in Writers(h, done, l) /\ \A m \in Writers(h, done, l) : m <= n
    BY <1>4, <1>6 DEF Writers
  <2> QED
    BY <1>1, <1>4, <1>5, <1>6, <2>1, LastIs
<1>8. \A m \in DOMAIN f.log : l \notin DOMAIN f.log[m].puts
  <2> SUFFICES ASSUME NEW m \in DOMAIN f.log, l \in DOMAIN f.log[m].puts
               PROVE  FALSE
    OBVIOUS
  <2>1. m \in Writers(h, DOMAIN h.log \ done, l) /\ n \in Writers(h, done, l)
    BY <1>4, <1>5, <1>6 DEF Writers
  <2>2. n < m
    BY <1>1, <2>1, DoneLandsEarlier DEF done
  <2>3. m \in Nat /\ n \in Nat /\ m <= n
    BY <1>1, <1>4, <1>6, <2>1 DEF Writers, Sound, Form
  <2> QED
    BY <2>2, <2>3
<1>9. l \in DOMAIN Seen(k) /\ Seen(k)[l] = k.log[n].puts[l]
  BY SeenIs
<1>10. ASSUME NEW S \in Closures(f), NEW T \in SUBSET Interrupted(f, S)
       PROVE  /\ l \in DOMAIN Landed(f, S)
              /\ Landed(f, S)[l] = f.store[l]
              /\ ~(\E m \in T : l \in DOMAIN f.log[m].puts)
  <2>1. Writers(f, S, l) = {}
    BY <1>8 DEF Writers, Closures
  <2>2. T \subseteq DOMAIN f.log
    BY DEF Interrupted
  <2> QED
    BY <1>7, <1>8, <2>1, <2>2, UnwrittenIs
<1>11. ASSUME NEW s \in Survivors(f)
       PROVE  l \in DOMAIN s /\ s[l] = f.store[l]
  <2>1. PICK S \in Closures(f) :
          s \in {[q \in DOMAIN Landed(f, S) |->
                    IF \E m \in T : q \in DOMAIN f.log[m].puts THEN Torn
                    ELSE Landed(f, S)[q]] : T \in SUBSET Interrupted(f, S)}
    BY <1>11 DEF Survivors
  <2>2. PICK T \in SUBSET Interrupted(f, S) :
          s = [q \in DOMAIN Landed(f, S) |->
                IF \E m \in T : q \in DOMAIN f.log[m].puts THEN Torn
                ELSE Landed(f, S)[q]]
    BY <2>1
  <2> QED
    BY <1>10, <2>2
<1> QED
  BY <1>3, <1>7, <1>9, <1>11

-----------------------------------------------------------------------------
(* A write.                                                                  *)

LEMMA NextIsLast ==
  ASSUME NEW k, Sound(k)
  PROVE  /\ NextWrite(k) \in Nat \ {0}
         /\ \A n \in DOMAIN k.log : n < NextWrite(k)
<1> DEFINE all == {0} \cup DOMAIN k.log
<1>1. all \in SUBSET Nat
  BY DEF Sound, Form
<1>2. PICK top \in all : \A n \in all : n <= top
  <2>1. CASE DOMAIN k.log = {}
    BY <2>1
  <2>2. CASE DOMAIN k.log # {}
    <3>1. PICK n \in DOMAIN k.log : \A m \in DOMAIN k.log : m <= n
      BY <2>2 DEF Sound, HasLast
    <3>2. n \in Nat /\ 0 <= n
      BY <1>1
    <3> QED
      BY <3>1, <3>2
  <2> QED
    BY <2>1, <2>2
<1>3. Fin!Max(all) = top
  BY <1>1, <1>2, MaxIs
<1>4. NextWrite(k) = top + 1
  BY <1>3 DEF NextWrite
<1>5. top \in Nat
  BY <1>1
<1>6. ASSUME NEW n \in DOMAIN k.log
      PROVE  n < NextWrite(k)
  <2>1. n \in Nat /\ n <= top
    BY <1>1, <1>2
  <2> QED
    BY <1>4, <1>5, <2>1
<1>7. NextWrite(k) \in Nat \ {0}
  BY <1>4, <1>5
<1> QED
  BY <1>6, <1>7

\* The device of a write of os.
HomeOf(os) == Device(CHOOSE o \in os : TRUE)

\* What write puts, once issued by os, is made to land after.
Earlier(k, os, puts) ==
  {n \in DOMAIN k.log :
     \/ DOMAIN k.log[n].puts \cap DOMAIN puts # {}
     \/ /\ k.log[n].device = HomeOf(os)
        /\ \/ k.log[n].bound
           \/ k.ordered /\ Metadata(puts) /\ Metadata(k.log[n].puts)}

Preceding(k, os, puts) ==
  Earlier(k, os, puts) \cup UNION {k.log[n].after : n \in Earlier(k, os, puts)}

LEMMA IssuedIs ==
  ASSUME NEW k, NEW os, NEW puts, Sound(k)
  PROVE  IssueBy(k, os, puts) =
           [store |-> k.store, ordered |-> k.ordered, grade |-> k.grade,
            log |-> [n \in DOMAIN k.log \cup {NextWrite(k)} |->
                      IF n = NextWrite(k)
                      THEN [puts |-> puts, device |-> HomeOf(os),
                            owed |-> os, bound |-> FALSE, after |-> Preceding(k, os, puts)]
                      ELSE k.log[n]]]
<1> DEFINE write == [puts |-> puts, device |-> HomeOf(os),
                     owed |-> os, bound |-> FALSE, after |-> Preceding(k, os, puts)]
           i == IssueBy(k, os, puts)
           next == NextWrite(k)
<1>1. k = [store |-> k.store, log |-> k.log, ordered |-> k.ordered, grade |-> k.grade]
  BY DEF Sound, Form
<1>2. i = [k EXCEPT !.log = [n \in DOMAIN k.log \cup {next} |->
                              IF n = next THEN write ELSE k.log[n]]]
  BY DEF IssueBy, Preceding, Earlier, HomeOf
<1> HIDE DEF write, i, next
<1>3. i = [store |-> k.store, ordered |-> k.ordered, grade |-> k.grade,
           log |-> [n \in DOMAIN k.log \cup {next} |->
                     IF n = next THEN write ELSE k.log[n]]]
  BY <1>1, <1>2
<1> QED
  BY <1>3 DEF write, i, next

LEMMA IssuedFacts ==
  ASSUME NEW k, NEW os, NEW puts, Sound(k), NEW i, i = IssueBy(k, os, puts)
  PROVE  /\ NextWrite(k) \notin DOMAIN k.log
         /\ DOMAIN i.log = DOMAIN k.log \cup {NextWrite(k)}
         /\ i.log[NextWrite(k)].puts = puts
         /\ i.log[NextWrite(k)].after = Preceding(k, os, puts)
         /\ \A n \in DOMAIN k.log : i.log[n] = k.log[n]
<1> DEFINE next == NextWrite(k)
           write == [puts |-> puts, device |-> HomeOf(os), owed |-> os, bound |-> FALSE,
                     after |-> Preceding(k, os, puts)]
<1>1. next \notin DOMAIN k.log
  <2>1. next \in Nat /\ \A n \in DOMAIN k.log : n < next
    BY NextIsLast
  <2> QED
    BY <2>1
<1>2. i.log = [n \in DOMAIN k.log \cup {next} |-> IF n = next THEN write ELSE k.log[n]]
  <2>1. IssueBy(k, os, puts) =
          [store |-> k.store, ordered |-> k.ordered, grade |-> k.grade,
           log |-> [n \in DOMAIN k.log \cup {next} |-> IF n = next THEN write ELSE k.log[n]]]
    BY IssuedIs
  <2> HIDE DEF next, write
  <2> QED
    BY <2>1
<1>3. write.puts = puts /\ write.after = Preceding(k, os, puts)
  OBVIOUS
<1> HIDE DEF next, write
<1>4. /\ DOMAIN i.log = DOMAIN k.log \cup {next}
      /\ i.log[next] = write
      /\ \A n \in DOMAIN k.log : i.log[n] = k.log[n]
  BY <1>1, <1>2
<1> QED
  BY <1>1, <1>3, <1>4 DEF next

LEMMA IssuedIsSound ==
  ASSUME NEW k, NEW os, NEW puts, Sound(k)
  PROVE  Sound(IssueBy(k, os, puts))
<1> DEFINE write == [puts |-> puts, device |-> HomeOf(os),
                     owed |-> os, bound |-> FALSE, after |-> Preceding(k, os, puts)]
           i == IssueBy(k, os, puts)
           next == NextWrite(k)
           earlier == Earlier(k, os, puts)
<1>1. i = [store |-> k.store, ordered |-> k.ordered, grade |-> k.grade,
           log |-> [n \in DOMAIN k.log \cup {next} |->
                     IF n = next THEN write ELSE k.log[n]]]
  BY IssuedIs
<1>2. next \in Nat \ {0} /\ \A n \in DOMAIN k.log : n < next
  BY NextIsLast
<1>3. next \notin DOMAIN k.log /\ DOMAIN k.log \subseteq Nat \ {0}
  BY <1>2 DEF Sound, Form
<1>4. write.after = earlier \cup UNION {k.log[n].after : n \in earlier}
  BY DEF Preceding
<1>5. earlier \subseteq DOMAIN k.log
  BY DEF Earlier
<1>6. \A m \in DOMAIN k.log : DOMAIN k.log[m].puts \cap DOMAIN write.puts # {} => m \in earlier
  BY DEF Earlier
<1>7. IsWrite(write)
  BY DEF IsWrite
<1> HIDE DEF write, i, next, earlier
<1>8. /\ DOMAIN i.log = DOMAIN k.log \cup {next}
      /\ i.log[next] = write
      /\ \A n \in DOMAIN k.log : i.log[n] = k.log[n]
  BY <1>1, <1>3
<1>9. Form(i)
  BY <1>1, <1>2, <1>3, <1>7, <1>8 DEF Sound, Form
<1>10. HasLast(i)
  <2> SUFFICES ASSUME NEW T \in SUBSET DOMAIN i.log, T # {}
               PROVE  \E n \in T : \A m \in T : m <= n
    BY DEF HasLast
  <2>1. CASE next \in T
    BY <1>2, <1>3, <1>8, <2>1
  <2>2. CASE next \notin T
    BY <1>8, <2>2 DEF Sound, HasLast
  <2> QED
    BY <2>1, <2>2
<1>11. InOrder(i)
  <2>1. ASSUME NEW n \in DOMAIN i.log, NEW m \in i.log[n].after
        PROVE  m \in DOMAIN i.log /\ m < n /\ i.log[m].after \subseteq i.log[n].after
    <3>1. CASE n # next
      BY <1>8, <2>1, <3>1 DEF Sound, InOrder
    <3>2. CASE n = next
      <4>1. CASE m \in earlier
        BY <1>2, <1>4, <1>5, <1>8, <3>2, <4>1
      <4>2. CASE m \notin earlier
        <5>1. PICK q \in earlier : m \in k.log[q].after
          BY <1>4, <1>8, <2>1, <3>2, <4>2
        <5>2. m \in DOMAIN k.log /\ k.log[m].after \subseteq k.log[q].after
          BY <1>5, <5>1 DEF Sound, InOrder
        <5> QED
          BY <1>2, <1>4, <1>8, <3>2, <5>1, <5>2
      <4> QED
        BY <4>1, <4>2
    <3> QED
      BY <3>1, <3>2
  <2>2. ASSUME NEW m \in DOMAIN i.log, NEW n \in DOMAIN i.log, m < n, Shares(i, m, n)
        PROVE  m \in i.log[n].after
    <3>1. m # next
      BY <1>2, <1>3, <1>8, <2>2
    <3>2. CASE n # next
      BY <1>8, <2>2, <3>1, <3>2 DEF Sound, InOrder, Shares
    <3>3. CASE n = next
      BY <1>4, <1>6, <1>8, <2>2, <3>1, <3>3 DEF Shares
    <3> QED
      BY <3>2, <3>3
  <2> QED
    BY <2>1, <2>2 DEF InOrder
<1> QED
  BY <1>9, <1>10, <1>11 DEF Sound, i

LEMMA MintedIsSound ==
  ASSUME NEW k, NEW n, Sound(k)
  PROVE  Sound(Minted(k, n))
<1> DEFINE h == Minted(k, n)
           store == [k.store EXCEPT ![BytesOf(n)] = Torn, ![ModeOf(n)] = FALSE]
<1>1. h = [k EXCEPT !.store = store]
  BY DEF Minted
<1> HIDE DEF h, store
<1>2. h = [store |-> store, log |-> k.log, ordered |-> k.ordered, grade |-> k.grade]
  BY <1>1 DEF Sound, Form
<1>3. h.log = k.log
  BY <1>2
<1> QED
  BY <1>2, <1>3 DEF h, Sound, Form, HasLast, InOrder, Shares

(***************************************************************************)
(* A disk with nothing pending is sound, and every write, new inode, sync  *)
(* and flush leaves a sound disk sound: what the theorems here ask of a    *)
(* disk holds of every disk an operation can reach.                        *)
(***************************************************************************)
THEOREM EveryDiskIsSound ==
  /\ \A s, ordered, grade : Sound(Clean(s, ordered, grade))
  /\ \A k : Sound(k) =>
       /\ \A os, puts : Sound(IssueBy(k, os, puts))
       /\ \A n : Sound(Minted(k, n))
       /\ \A o, need : Sound(Sync(k, o, need))
       /\ \A debts, anchor, need : Sound(FlushAll(k, debts, anchor, need))
<1>1. \A s, ordered, grade : Sound(Clean(s, ordered, grade))
  BY DEF Sound, Form, HasLast, InOrder, Clean
<1>2. ASSUME NEW k, Sound(k)
      PROVE  /\ \A os, puts : Sound(IssueBy(k, os, puts))
             /\ \A n : Sound(Minted(k, n))
             /\ \A o, need : Sound(Sync(k, o, need))
             /\ \A debts, anchor, need : Sound(FlushAll(k, debts, anchor, need))
  BY <1>2, IssuedIsSound, MintedIsSound, SyncKeeps, FlushesAreUnseen
<1> QED
  BY <1>1, <1>2

(***************************************************************************)
(* One barrier orders every debt: once flush_all has pushed what a write   *)
(* owes and capped it with a barrier at an anchor of its device, whatever  *)
(* is written there next lands only where that write has landed, even if   *)
(* it lands in part.  It is why a batch may write its next tier with no    *)
(* drain after the one before.                                             *)
(***************************************************************************)
THEOREM OneBarrierOrdersAll ==
  ASSUME NEW k, Sound(k), Satisfies(k.grade, "Ordered"),
         NEW debts, debts # {}, NEW anchor,
         NEW n \in DOMAIN k.log,
         k.log[n].owed \subseteq debts \cup {anchor},
         k.log[n].device = Device(anchor),
         NEW os, os # {}, \A o \in os : Device(o) = Device(anchor),
         NEW puts,
         NEW f, f = FlushAll(k, debts, anchor, "Ordered"),
         NEW i, i = IssueBy(f, os, puts)
  PROVE  /\ NextWrite(f) \in DOMAIN i.log
         /\ i.log[NextWrite(f)].puts = puts
         /\ n \in DOMAIN i.log /\ i.log[n].puts = k.log[n].puts
         /\ i.log[n].bound
         /\ \A S \in Closures(i) : NextWrite(f) \in S \cup Interrupted(i, S) => n \in S
<1> DEFINE h == Handed(Handed(k, debts \ {anchor}), {anchor})
           d == Device(anchor)
<1>1. k.grade # "None"
  BY DEF Satisfies
<1>2. Sound(h) /\ Rewritten(h, k) /\ n \in OnDevice(h, d)
  BY <1>1, CapFindsPushed
<1>3. Handed(k, debts \ {anchor}).grade = k.grade
  BY HandedFacts DEF Rewritten
<1>4. f = Barriered(h, d)
  BY <1>3 DEF FlushAll, Sync
<1> HIDE DEF h, d
<1>5. Sound(f) /\ Rewritten(f, h)
  BY <1>2, <1>4, BarrieredFacts
<1>6. n \in DOMAIN h.log
  BY <1>2 DEF OnDevice
<1>7. f.log[n].bound
  BY <1>2, <1>4, <1>6, BarrieredFacts
<1>8. n \in DOMAIN f.log /\ f.log[n].device = d /\ f.log[n].puts = k.log[n].puts
  BY <1>2, <1>5 DEF Rewritten, d
<1>9. HomeOf(os) = d
  BY DEF d, HomeOf
<1>10. n \in Preceding(f, os, puts)
  BY <1>7, <1>8, <1>9 DEF Preceding, Earlier
<1>11. /\ n # NextWrite(f)
       /\ NextWrite(f) \in DOMAIN i.log /\ i.log[NextWrite(f)].puts = puts
       /\ i.log[NextWrite(f)].after = Preceding(f, os, puts)
       /\ n \in DOMAIN i.log /\ i.log[n] = f.log[n]
  BY <1>5, <1>8, IssuedFacts
<1>12. ASSUME NEW S \in Closures(i), NextWrite(f) \in S \cup Interrupted(i, S)
       PROVE  n \in S
  BY <1>10, <1>11, <1>12 DEF Closures, Interrupted
<1> QED
  BY <1>7, <1>8, <1>11, <1>12

-----------------------------------------------------------------------------
(* What a power cut leaves.                                                  *)

\* The store when the writes of S have landed, and those of T in part.
Outcome(k, S, T) ==
  [l \in DOMAIN Landed(k, S) |->
     IF \E n \in T : l \in DOMAIN k.log[n].puts THEN Torn ELSE Landed(k, S)[l]]

Possible(k, S, T) == S \in Closures(k) /\ T \in SUBSET Interrupted(k, S)

LEMMA SurvivorsAre ==
  ASSUME NEW k
  PROVE  /\ \A s \in Survivors(k) : \E S, T : Possible(k, S, T) /\ s = Outcome(k, S, T)
         /\ \A S, T : Possible(k, S, T) => Outcome(k, S, T) \in Survivors(k)
<1>1. ASSUME NEW s \in Survivors(k)
      PROVE  \E S, T : Possible(k, S, T) /\ s = Outcome(k, S, T)
  <2>1. PICK S \in Closures(k) :
          s \in {[l \in DOMAIN Landed(k, S) |->
                    IF \E n \in T : l \in DOMAIN k.log[n].puts THEN Torn
                    ELSE Landed(k, S)[l]] : T \in SUBSET Interrupted(k, S)}
    BY DEF Survivors
  <2>2. PICK T \in SUBSET Interrupted(k, S) :
          s = [l \in DOMAIN Landed(k, S) |->
                 IF \E n \in T : l \in DOMAIN k.log[n].puts THEN Torn
                 ELSE Landed(k, S)[l]]
    BY <2>1
  <2>3. Possible(k, S, T) /\ s = Outcome(k, S, T)
    BY <2>2 DEF Possible, Outcome
  <2> QED
    BY <2>3
<1>2. ASSUME NEW S, NEW T, Possible(k, S, T)
      PROVE  Outcome(k, S, T) \in Survivors(k)
  BY <1>2 DEF Possible, Outcome, Survivors
<1> QED
  BY <1>1, <1>2

LEMMA OutcomeAt ==
  ASSUME NEW k, NEW S, NEW T, NEW l \in DOMAIN Landed(k, S)
  PROVE  /\ l \in DOMAIN Outcome(k, S, T)
         /\ Outcome(k, S, T)[l] =
              IF \E n \in T : l \in DOMAIN k.log[n].puts THEN Torn ELSE Landed(k, S)[l]
  BY DEF Outcome

LEMMA PossibleFacts ==
  ASSUME NEW k, NEW S, NEW T, Possible(k, S, T)
  PROVE  /\ S \in SUBSET DOMAIN k.log /\ T \in SUBSET DOMAIN k.log
         /\ S \cap T = {}
         /\ \A n \in S \cup T : k.log[n].after \subseteq S
         /\ \A n \in T : \E i \in Inodes : BytesOf(i) \in DOMAIN k.log[n].puts
  BY DEF Possible, Closures, Interrupted

\* h is k with writes of the locations W since, each after all that is bound;
\* some of what was owed may have been handed over, and some writes bound.
Grown(h, k, W) ==
  /\ Sound(h)
  /\ h.grade = k.grade
  /\ DOMAIN h.store = DOMAIN k.store
  /\ \A l \in DOMAIN k.store \ W : h.store[l] = k.store[l]
  /\ DOMAIN k.log \subseteq DOMAIN h.log
  /\ \A n \in DOMAIN k.log :
       /\ h.log[n].puts = k.log[n].puts
       /\ h.log[n].after = k.log[n].after
       /\ h.log[n].device = k.log[n].device
       /\ h.log[n].owed \subseteq k.log[n].owed
       /\ k.log[n].bound => h.log[n].bound
  /\ \A n \in DOMAIN h.log \ DOMAIN k.log :
       /\ DOMAIN h.log[n].puts \subseteq W
       /\ \A m \in DOMAIN k.log : m < n /\ (k.log[m].bound => m \in h.log[n].after)

LEMMA GrownTwice ==
  ASSUME NEW k, NEW h, NEW g, NEW V, NEW W, Grown(h, k, V), Grown(g, h, W)
  PROVE  Grown(g, k, V \cup W)
<1>1. ASSUME NEW n \in DOMAIN g.log \ DOMAIN k.log
      PROVE  /\ DOMAIN g.log[n].puts \subseteq V \cup W
             /\ \A m \in DOMAIN k.log : m < n /\ (k.log[m].bound => m \in g.log[n].after)
  <2>1. CASE n \in DOMAIN h.log
    BY <1>1, <2>1 DEF Grown
  <2>2. CASE n \notin DOMAIN h.log
    BY <1>1, <2>2 DEF Grown
  <2> QED
    BY <2>1, <2>2
<1>2. \A l \in DOMAIN k.store \ (V \cup W) : g.store[l] = k.store[l]
  BY DEF Grown
<1>3. \A n \in DOMAIN k.log :
       /\ g.log[n].puts = k.log[n].puts
       /\ g.log[n].after = k.log[n].after
       /\ g.log[n].device = k.log[n].device
       /\ g.log[n].owed \subseteq k.log[n].owed
       /\ k.log[n].bound => g.log[n].bound
  BY DEF Grown
<1> QED
  BY <1>1, <1>2, <1>3 DEF Grown

LEMMA RewrittenGrows ==
  ASSUME NEW k, NEW h, Sound(h), Rewritten(h, k),
         \A n \in DOMAIN k.log : /\ h.log[n].owed \subseteq k.log[n].owed
                                 /\ k.log[n].bound => h.log[n].bound
  PROVE  \A W : Grown(h, k, W)
  BY DEF Rewritten, Grown

LEMMA MintedGrows ==
  ASSUME NEW k, Sound(k), NEW n, {BytesOf(n), ModeOf(n)} \subseteq DOMAIN k.store
  PROVE  Grown(Minted(k, n), k, {BytesOf(n), ModeOf(n)})
<1> DEFINE h == Minted(k, n)
           store == [k.store EXCEPT ![BytesOf(n)] = Torn, ![ModeOf(n)] = FALSE]
<1>1. /\ DOMAIN store = DOMAIN k.store
      /\ \A l \in DOMAIN k.store \ {BytesOf(n), ModeOf(n)} : store[l] = k.store[l]
  OBVIOUS
<1>2. h = [k EXCEPT !.store = store]
  BY DEF Minted
<1>3. Sound(h)
  BY MintedIsSound
<1> HIDE DEF h, store
<1>4. h = [store |-> store, log |-> k.log, ordered |-> k.ordered, grade |-> k.grade]
  BY <1>2 DEF Sound, Form
<1>5. Grown(h, k, {BytesOf(n), ModeOf(n)})
  BY <1>1, <1>3, <1>4 DEF Grown
<1> QED
  BY <1>5 DEF h

LEMMA IssuedGrows ==
  ASSUME NEW k, Sound(k), NEW os, NEW puts,
         \A n \in DOMAIN k.log : k.log[n].device = HomeOf(os)
  PROVE  Grown(IssueBy(k, os, puts), k, DOMAIN puts)
<1> DEFINE i == IssueBy(k, os, puts)
           next == NextWrite(k)
<1>1. Sound(i)
  BY IssuedIsSound
<1>2. /\ next \notin DOMAIN k.log
      /\ DOMAIN i.log = DOMAIN k.log \cup {next}
      /\ i.log[next].puts = puts
      /\ i.log[next].after = Preceding(k, os, puts)
      /\ \A n \in DOMAIN k.log : i.log[n] = k.log[n]
  BY IssuedFacts
<1>3. i.store = k.store /\ i.grade = k.grade
  <2> DEFINE log == [n \in DOMAIN k.log \cup {next} |->
                      IF n = next
                      THEN [puts |-> puts, device |-> HomeOf(os),
                            owed |-> os, bound |-> FALSE, after |-> Preceding(k, os, puts)]
                      ELSE k.log[n]]
  <2>1. i = [store |-> k.store, ordered |-> k.ordered, grade |-> k.grade, log |-> log]
    BY IssuedIs
  <2> HIDE DEF i, next, log
  <2> QED
    BY <2>1
<1>4. \A n \in DOMAIN k.log : n < next /\ (k.log[n].bound => n \in Preceding(k, os, puts))
  BY NextIsLast DEF Preceding, Earlier
<1> HIDE DEF i, next
<1>5. Grown(i, k, DOMAIN puts)
  BY <1>1, <1>2, <1>3, <1>4 DEF Grown
<1> QED
  BY <1>5 DEF i

\* What a cut leaves of the writes there were is what it could leave before, and
\* it leaves a later one only with all that was bound.
Narrows(h, k, S, T, R, U) ==
  /\ Possible(k, R, U)
  /\ (S \cup T) \ DOMAIN k.log # {} => \A m \in DOMAIN k.log : k.log[m].bound => m \in R
  /\ \A l \in DOMAIN k.store :
       (/\ h.store[l] = k.store[l]
        /\ \A n \in (S \cup T) \ DOMAIN k.log : l \notin DOMAIN h.log[n].puts) =>
       /\ l \in DOMAIN Outcome(h, S, T) /\ l \in DOMAIN Outcome(k, R, U)
       /\ Outcome(h, S, T)[l] = Outcome(k, R, U)[l]

LEMMA GrownOutcome ==
  ASSUME NEW k, NEW h, NEW W, Sound(k), Grown(h, k, W), NEW S, NEW T, Possible(h, S, T)
  PROVE  Narrows(h, k, S, T, S \cap DOMAIN k.log, T \cap DOMAIN k.log)
<1> DEFINE R == S \cap DOMAIN k.log
           U == T \cap DOMAIN k.log
<1>1. /\ S \in SUBSET DOMAIN h.log /\ T \in SUBSET DOMAIN h.log
      /\ \A n \in S \cup T : h.log[n].after \subseteq S
      /\ S \cap T = {}
      /\ \A n \in T : \E i \in Inodes : BytesOf(i) \in DOMAIN h.log[n].puts
  BY PossibleFacts
<1>2. \A n \in DOMAIN k.log : /\ h.log[n].puts = k.log[n].puts
                              /\ h.log[n].after = k.log[n].after
                              /\ k.log[n].after \subseteq DOMAIN k.log
  BY DEF Grown, Sound, InOrder
<1>3. Possible(k, R, U)
  <2>1. R \in Closures(k)
    BY <1>1, <1>2 DEF Closures
  <2>2. U \in SUBSET Interrupted(k, R)
    BY <1>1, <1>2 DEF Interrupted
  <2> QED
    BY <2>1, <2>2 DEF Possible
<1>4. (S \cup T) \ DOMAIN k.log # {} =>
         \A m \in DOMAIN k.log : k.log[m].bound => m \in R
  BY <1>1 DEF Grown
<1>5. ASSUME NEW l \in DOMAIN k.store, h.store[l] = k.store[l],
             \A n \in (S \cup T) \ DOMAIN k.log : l \notin DOMAIN h.log[n].puts
      PROVE  /\ l \in DOMAIN Outcome(h, S, T) /\ l \in DOMAIN Outcome(k, R, U)
             /\ Outcome(h, S, T)[l] = Outcome(k, R, U)[l]
  <2>1. (\E n \in T : l \in DOMAIN h.log[n].puts) <=> (\E n \in U : l \in DOMAIN k.log[n].puts)
    BY <1>1, <1>2, <1>5
  <2>2. Writers(h, S, l) = Writers(k, R, l)
    BY <1>1, <1>2, <1>5 DEF Writers
  <2>3. /\ l \in DOMAIN Landed(h, S) /\ l \in DOMAIN Landed(k, R)
        /\ Landed(h, S)[l] = Landed(k, R)[l]
    <3>1. CASE Writers(h, S, l) = {}
      <4>1. Writers(k, R, l) = {}
        BY <2>2, <3>1
      <4>2. l \in DOMAIN Landed(k, R) /\ Landed(k, R)[l] = k.store[l]
        BY <4>1, UnwrittenIs
      <4>3. l \in DOMAIN h.store
        BY DEF Grown
      <4>4. l \in DOMAIN Landed(h, S) /\ Landed(h, S)[l] = h.store[l]
        BY <3>1, <4>3, UnwrittenIs
      <4> QED
        BY <1>5, <4>2, <4>4
    <3>2. CASE Writers(h, S, l) # {}
      <4>1. R \in SUBSET DOMAIN k.log /\ Sound(h)
        BY DEF Grown
      <4>2. PICK n \in Writers(k, R, l) : \A m \in Writers(k, R, l) : m <= n
        BY <2>2, <3>2, <4>1, LastExists
      <4>5. \A Q \in SUBSET DOMAIN k.log : \A q \in Writers(k, Q, l) :
              (\A m \in Writers(k, Q, l) : m <= q) =>
              l \in DOMAIN Landed(k, Q) /\ Landed(k, Q)[l] = k.log[q].puts[l]
        BY LastIs
      <4>3. l \in DOMAIN Landed(k, R) /\ Landed(k, R)[l] = k.log[n].puts[l]
        BY <4>1, <4>2, <4>5
      <4>6. n \in Writers(h, S, l) /\ \A m \in Writers(h, S, l) : m <= n
        BY <2>2, <4>2
      <4>4. l \in DOMAIN Landed(h, S) /\ Landed(h, S)[l] = h.log[n].puts[l]
        BY <1>1, <4>1, <4>6, LastIs
      <4>7. h.log[n].puts = k.log[n].puts
        BY <1>2, <4>1, <4>2 DEF Writers
      <4> QED
        BY <4>3, <4>4, <4>7
    <3> QED
      BY <3>1, <3>2
  <2> QED
    BY <2>1, <2>3, OutcomeAt
<1> QED
  BY <1>3, <1>4, <1>5 DEF Narrows

\* A location is left as it is seen where all its writes have landed.
LEMMA AllLanded ==
  ASSUME NEW k, Sound(k), NEW S, NEW T, Possible(k, S, T), NEW l \in DOMAIN k.store,
         Writers(k, DOMAIN k.log, l) \subseteq S
  PROVE  l \in DOMAIN Outcome(k, S, T) /\ Outcome(k, S, T)[l] = Seen(k)[l]
<1>1. S \in SUBSET DOMAIN k.log /\ T \in SUBSET DOMAIN k.log /\ S \cap T = {}
  BY PossibleFacts
<1>2. ~\E n \in T : l \in DOMAIN k.log[n].puts
  BY <1>1 DEF Writers
<1>3. Writers(k, S, l) = Writers(k, DOMAIN k.log, l)
  BY <1>1 DEF Writers
<1>4. l \in DOMAIN Landed(k, S) /\ Landed(k, S)[l] = Seen(k)[l]
  <2>1. CASE Writers(k, S, l) = {}
    BY <1>3, <2>1, UnwrittenIs DEF Seen
  <2>2. CASE Writers(k, S, l) # {}
    <3>1. PICK n \in Writers(k, S, l) : \A m \in Writers(k, S, l) : m <= n
      BY <1>1, <2>2, LastExists
    <3>2. Landed(k, S)[l] = k.log[n].puts[l] /\ l \in DOMAIN Landed(k, S)
      BY <1>1, <3>1, LastIs
    <3>3. Seen(k)[l] = k.log[n].puts[l]
      BY <1>3, <3>1, LastIs DEF Seen
    <3> QED
      BY <3>2, <3>3
  <2> QED
    BY <2>1, <2>2
<1> QED
  BY <1>2, <1>4, OutcomeAt

\* What a drained disk may lose, the disk could.
LEMMA DrainedOutcome ==
  ASSUME NEW k, NEW d, Sound(k), NEW S, NEW T, Possible(Drained(k, d), S, T)
  PROVE  /\ Possible(k, S \cup Done(k, d), T)
         /\ Outcome(Drained(k, d), S, T) = Outcome(k, S \cup Done(k, d), T)
<1> DEFINE h == Drained(k, d)
           done == Done(k, d)
<1>1. /\ DOMAIN h.log = DOMAIN k.log \ done
      /\ \A n \in DOMAIN h.log : /\ h.log[n].puts = k.log[n].puts
                                 /\ h.log[n].after = k.log[n].after \ done
  <2>1. h = [store |-> Landed(k, done), ordered |-> k.ordered, grade |-> k.grade,
             log |-> [n \in DOMAIN k.log \ done |->
                       [puts |-> k.log[n].puts, device |-> k.log[n].device,
                        owed |-> k.log[n].owed, bound |-> k.log[n].bound,
                        after |-> k.log[n].after \ done]]]
    BY DrainedIs
  <2> HIDE DEF h, done
  <2> QED
    BY <2>1
<1>2. /\ S \in SUBSET DOMAIN h.log /\ T \in SUBSET DOMAIN h.log /\ S \cap T = {}
      /\ \A n \in S \cup T : h.log[n].after \subseteq S
      /\ \A n \in T : \E i \in Inodes : BytesOf(i) \in DOMAIN h.log[n].puts
  BY PossibleFacts
<1>3. done \subseteq DOMAIN k.log /\ \A n \in done : k.log[n].after \subseteq done
  BY DoneIsClosed
<1>4. S \in SUBSET (DOMAIN k.log \ done)
  BY <1>1, <1>2
<1>5. Landed(h, S) = Landed(k, S \cup done)
  BY <1>4, DrainedLands
<1> HIDE DEF h, done
<1>6. Possible(k, S \cup done, T)
  <2>1. S \cup done \in Closures(k)
    BY <1>1, <1>2, <1>3 DEF Closures
  <2>2. T \in SUBSET Interrupted(k, S \cup done)
    BY <1>1, <1>2, <1>3 DEF Interrupted
  <2> QED
    BY <2>1, <2>2 DEF Possible
<1>7. \A l : (\E n \in T : l \in DOMAIN h.log[n].puts) <=> (\E n \in T : l \in DOMAIN k.log[n].puts)
  BY <1>1, <1>2
<1>8. Outcome(h, S, T) = Outcome(k, S \cup done, T)
  BY <1>5, <1>7 DEF Outcome
<1> QED
  BY <1>6, <1>8 DEF h, done

-----------------------------------------------------------------------------
(* What a location has had since the store was what it is.                   *)

WritersOf(k, l) == Writers(k, DOMAIN k.log, l)

Values(k, l) == {k.store[l]} \cup {k.log[n].puts[l] : n \in WritersOf(k, l)}

LEMMA OnePut ==
  ASSUME NEW l, NEW v
  PROVE  DOMAIN At(l, v) = {l} /\ At(l, v)[l] = v
  BY DEF At

LEMMA LandedIsValue ==
  ASSUME NEW k, Sound(k), NEW S \in SUBSET DOMAIN k.log, NEW l \in DOMAIN k.store
  PROVE  /\ l \in DOMAIN Landed(k, S) /\ Landed(k, S)[l] \in Values(k, l)
         /\ WritersOf(k, l) \subseteq S => Landed(k, S)[l] = Seen(k)[l]
<1>1. CASE Writers(k, S, l) = {}
  <2>1. l \in DOMAIN Landed(k, S) /\ Landed(k, S)[l] = k.store[l]
    BY <1>1, UnwrittenIs
  <2>2. WritersOf(k, l) \subseteq S => WritersOf(k, l) = {}
    BY <1>1 DEF Writers, WritersOf
  <2>3. WritersOf(k, l) = {} => Seen(k)[l] = k.store[l]
    BY UnwrittenIs DEF WritersOf, Seen
  <2> QED
    BY <2>1, <2>2, <2>3 DEF Values
<1>2. CASE Writers(k, S, l) # {}
  <2>1. PICK n \in Writers(k, S, l) : \A m \in Writers(k, S, l) : m <= n
    BY <1>2, LastExists
  <2>2. l \in DOMAIN Landed(k, S) /\ Landed(k, S)[l] = k.log[n].puts[l]
    BY <2>1, LastIs
  <2>3. n \in WritersOf(k, l)
    BY <2>1 DEF Writers, WritersOf
  <2>4. ASSUME WritersOf(k, l) \subseteq S PROVE Seen(k)[l] = k.log[n].puts[l]
    <3>1. \A m \in Writers(k, DOMAIN k.log, l) : m <= n
      BY <2>1, <2>4 DEF Writers, WritersOf
    <3> QED
      BY <2>3, <3>1, LastIs DEF Seen, WritersOf
  <2> QED
    BY <2>2, <2>3, <2>4 DEF Values
<1> QED
  BY <1>1, <1>2

LEMMA SeenIsValue ==
  ASSUME NEW k, Sound(k), NEW l \in DOMAIN k.store
  PROVE  l \in DOMAIN Seen(k) /\ Seen(k)[l] \in Values(k, l)
  BY LandedIsValue DEF Seen

\* h is k and one write more, of puts.
Added(h, k, puts) ==
  /\ Sound(h)
  /\ h.store = k.store /\ h.ordered = k.ordered /\ h.grade = k.grade
  /\ NextWrite(k) \in Nat /\ \A n \in DOMAIN k.log : n < NextWrite(k)
  /\ NextWrite(k) \notin DOMAIN k.log
  /\ DOMAIN h.log = DOMAIN k.log \cup {NextWrite(k)}
  /\ h.log[NextWrite(k)].puts = puts
  /\ \A n \in DOMAIN k.log : h.log[n] = k.log[n]

LEMMA IssuedAdds ==
  ASSUME NEW k, Sound(k), NEW os, NEW puts
  PROVE  /\ Added(IssueBy(k, os, puts), k, puts)
         /\ IssueBy(k, os, puts).log[NextWrite(k)].owed = os
         /\ IssueBy(k, os, puts).log[NextWrite(k)].device = HomeOf(os)
         /\ IssueBy(k, os, puts).log[NextWrite(k)].after = Preceding(k, os, puts)
<1> DEFINE h == IssueBy(k, os, puts)
           next == NextWrite(k)
           write == [puts |-> puts, device |-> HomeOf(os), owed |-> os, bound |-> FALSE,
                     after |-> Preceding(k, os, puts)]
           writes == [n \in DOMAIN k.log \cup {next} |-> IF n = next THEN write ELSE k.log[n]]
<1>1. next \in Nat /\ (\A n \in DOMAIN k.log : n < next) /\ next \notin DOMAIN k.log
  <2>1. next \in Nat \ {0} /\ \A n \in DOMAIN k.log : n < next
    BY NextIsLast
  <2> QED
    BY <2>1
<1>2. h = [store |-> k.store, ordered |-> k.ordered, grade |-> k.grade, log |-> writes]
  BY IssuedIs
<1>3. Sound(h)
  BY IssuedIsSound
<1>4. /\ write.puts = puts /\ write.owed = os /\ write.device = HomeOf(os)
      /\ write.bound = FALSE /\ write.after = Preceding(k, os, puts)
  OBVIOUS
<1> HIDE DEF h, next, write, writes
<1>5. h.store = k.store /\ h.ordered = k.ordered /\ h.grade = k.grade /\ h.log = writes
  BY <1>2
<1>6. /\ DOMAIN h.log = DOMAIN k.log \cup {next} /\ h.log[next] = write
      /\ \A n \in DOMAIN k.log : h.log[n] = k.log[n]
  BY <1>1, <1>5 DEF writes
<1>7. Added(h, k, puts)
  BY <1>1, <1>3, <1>4, <1>5, <1>6 DEF Added, next
<1> QED
  BY <1>4, <1>6, <1>7 DEF h, next

LEMMA AddedValues ==
  ASSUME NEW k, NEW h, NEW puts, Added(h, k, puts)
  PROVE  \A l : IF l \in DOMAIN puts
                THEN /\ WritersOf(h, l) = WritersOf(k, l) \cup {NextWrite(k)}
                     /\ Values(h, l) = Values(k, l) \cup {puts[l]}
                ELSE /\ WritersOf(h, l) = WritersOf(k, l)
                     /\ Values(h, l) = Values(k, l)
<1> SUFFICES ASSUME NEW l
             PROVE  IF l \in DOMAIN puts
                    THEN /\ WritersOf(h, l) = WritersOf(k, l) \cup {NextWrite(k)}
                         /\ Values(h, l) = Values(k, l) \cup {puts[l]}
                    ELSE /\ WritersOf(h, l) = WritersOf(k, l)
                         /\ Values(h, l) = Values(k, l)
  OBVIOUS
<1>1. IF l \in DOMAIN puts THEN WritersOf(h, l) = WritersOf(k, l) \cup {NextWrite(k)}
      ELSE WritersOf(h, l) = WritersOf(k, l)
  BY DEF Added, WritersOf, Writers
<1>2. \A n \in WritersOf(k, l) : n \in DOMAIN k.log /\ h.log[n].puts[l] = k.log[n].puts[l]
  BY DEF Added, WritersOf, Writers
<1>3. h.log[NextWrite(k)].puts[l] = puts[l] /\ h.store = k.store
  BY DEF Added
<1> QED
  BY <1>1, <1>2, <1>3 DEF Values

LEMMA AddedLands ==
  ASSUME NEW k, Sound(k), NEW h, NEW puts, Added(h, k, puts), NEW S \in SUBSET DOMAIN h.log
  PROVE  \A l : IF NextWrite(k) \in S /\ l \in DOMAIN puts
                THEN l \in DOMAIN Landed(h, S) /\ Landed(h, S)[l] = puts[l]
                ELSE LET old == Landed(k, S \ {NextWrite(k)}) IN
                     /\ l \in DOMAIN Landed(h, S) <=> l \in DOMAIN old
                     /\ l \in DOMAIN old => Landed(h, S)[l] = old[l]
<1> DEFINE next == NextWrite(k)
           R == S \ {next}
<1>0. /\ Sound(h) /\ h.store = k.store /\ next \in Nat
      /\ \A n \in DOMAIN k.log : n < next /\ h.log[n] = k.log[n] /\ n \in Nat
      /\ R \in SUBSET DOMAIN k.log /\ h.log[next].puts = puts
  BY DEF Added, Sound, Form
<1> SUFFICES ASSUME NEW l
             PROVE  IF next \in S /\ l \in DOMAIN puts
                    THEN l \in DOMAIN Landed(h, S) /\ Landed(h, S)[l] = puts[l]
                    ELSE /\ l \in DOMAIN Landed(h, S) <=> l \in DOMAIN Landed(k, R)
                         /\ l \in DOMAIN Landed(k, R) => Landed(h, S)[l] = Landed(k, R)[l]
  OBVIOUS
<1>1. CASE next \in S /\ l \in DOMAIN puts
  <2>1. next \in Writers(h, S, l)
    BY <1>0, <1>1 DEF Writers
  <2>2. \A m \in Writers(h, S, l) : m = next \/ m \in DOMAIN k.log
    BY <1>0 DEF Writers
  <2>3. \A m \in Writers(h, S, l) : m <= next
    BY <1>0, <2>2
  <2> QED
    BY <1>0, <1>1, <2>1, <2>3, LastIs
<1>2. CASE ~(next \in S /\ l \in DOMAIN puts)
  <2>1. Writers(h, S, l) = Writers(k, R, l)
    BY <1>0, <1>2 DEF Writers
  <2>2. CASE Writers(k, R, l) = {}
    <3>1. /\ l \in DOMAIN Landed(k, R) <=> l \in DOMAIN k.store
          /\ l \in DOMAIN k.store => Landed(k, R)[l] = k.store[l]
      BY <2>2, UnwrittenIs
    <3>2. /\ l \in DOMAIN Landed(h, S) <=> l \in DOMAIN h.store
          /\ l \in DOMAIN h.store => Landed(h, S)[l] = h.store[l]
      BY <2>1, <2>2, UnwrittenIs
    <3> QED
      BY <1>0, <1>2, <3>1, <3>2
  <2>3. CASE Writers(k, R, l) # {}
    <3>1. PICK n \in Writers(k, R, l) : \A m \in Writers(k, R, l) : m <= n
      BY <1>0, <2>3, LastExists
    <3>2. l \in DOMAIN Landed(k, R) /\ Landed(k, R)[l] = k.log[n].puts[l]
      BY <1>0, <3>1, LastIs
    <3>3. n \in Writers(h, S, l) /\ \A m \in Writers(h, S, l) : m <= n
      BY <2>1, <3>1
    <3>4. l \in DOMAIN Landed(h, S) /\ Landed(h, S)[l] = h.log[n].puts[l]
      BY <1>0, <3>3, LastIs
    <3>5. h.log[n] = k.log[n]
      BY <1>0, <3>1 DEF Writers
    <3> QED
      BY <1>2, <3>2, <3>4, <3>5
  <2> QED
    BY <2>2, <2>3
<1> QED
  BY <1>1, <1>2

LEMMA AddedSees ==
  ASSUME NEW k, Sound(k), NEW h, NEW puts, Added(h, k, puts)
  PROVE  \A l : IF l \in DOMAIN puts
                THEN l \in DOMAIN Seen(h) /\ Seen(h)[l] = puts[l]
                ELSE /\ l \in DOMAIN Seen(h) <=> l \in DOMAIN Seen(k)
                     /\ l \in DOMAIN Seen(k) => Seen(h)[l] = Seen(k)[l]
<1>1. /\ NextWrite(k) \in DOMAIN h.log
      /\ DOMAIN h.log \ {NextWrite(k)} = DOMAIN k.log
  BY DEF Added
<1>2. \A S \in SUBSET DOMAIN h.log : \A l :
        IF NextWrite(k) \in S /\ l \in DOMAIN puts
        THEN l \in DOMAIN Landed(h, S) /\ Landed(h, S)[l] = puts[l]
        ELSE LET old == Landed(k, S \ {NextWrite(k)}) IN
             /\ l \in DOMAIN Landed(h, S) <=> l \in DOMAIN old
             /\ l \in DOMAIN old => Landed(h, S)[l] = old[l]
  BY AddedLands
<1>3. Seen(h) = Landed(h, DOMAIN h.log)
  BY DEF Seen
<1>4. Seen(k) = Landed(k, DOMAIN h.log \ {NextWrite(k)})
  BY <1>1 DEF Seen
<1> HIDE DEF Seen
<1>5. DOMAIN h.log \in SUBSET DOMAIN h.log
  OBVIOUS
<1> QED
  BY <1>1, <1>2, <1>3, <1>4, <1>5

\* What lands of it is what could have landed before, and the new write only
\* after every other of its locations.
LEMMA AddedClosures ==
  ASSUME NEW k, Sound(k), NEW h, NEW puts, Added(h, k, puts), NEW S \in Closures(h)
  PROVE  /\ S \in SUBSET DOMAIN h.log
         /\ S \ {NextWrite(k)} \in Closures(k)
         /\ NextWrite(k) \in S => \A l \in DOMAIN puts : WritersOf(k, l) \subseteq S
<1> DEFINE next == NextWrite(k)
<1>1. /\ S \in SUBSET DOMAIN h.log /\ \A n \in S : h.log[n].after \subseteq S
      /\ S \ {next} \in SUBSET DOMAIN k.log
  BY DEF Closures, Added
<1>2. ASSUME NEW n \in S \ {next} PROVE k.log[n].after \subseteq S \ {next}
  <2>1. h.log[n] = k.log[n] /\ n \in DOMAIN k.log
    BY <1>1 DEF Added
  <2>2. k.log[n].after \subseteq DOMAIN k.log /\ next \notin DOMAIN k.log
    BY <2>1 DEF Sound, InOrder, Added
  <2> QED
    BY <1>1, <2>1, <2>2
<1>3. ASSUME next \in S, NEW l \in DOMAIN puts, NEW m \in WritersOf(k, l)
      PROVE  m \in S
  <2>1. m \in DOMAIN k.log /\ l \in DOMAIN k.log[m].puts /\ h.log[m] = k.log[m]
    BY <1>3 DEF WritersOf, Writers, Added
  <2>2. /\ m \in DOMAIN h.log /\ next \in DOMAIN h.log /\ m < next
        /\ Shares(h, m, next)
    BY <1>3, <2>1 DEF Added, Shares
  <2>3. m \in h.log[next].after
    BY <2>2 DEF Added, Sound, InOrder
  <2> QED
    BY <1>1, <1>3, <2>3
<1> QED
  BY <1>1, <1>2, <1>3 DEF Closures

LEMMA DrainedValues ==
  ASSUME NEW k, Sound(k), NEW d, NEW l \in DOMAIN k.store
  PROVE  /\ l \in DOMAIN Drained(k, d).store
         /\ Values(Drained(k, d), l) \subseteq Values(k, l)
<1> DEFINE h == Drained(k, d)
           done == Done(k, d)
<1>1. h = [store |-> Landed(k, done), ordered |-> k.ordered, grade |-> k.grade,
           log |-> [n \in DOMAIN k.log \ done |->
                     [puts |-> k.log[n].puts, device |-> k.log[n].device,
                      owed |-> k.log[n].owed, bound |-> k.log[n].bound,
                      after |-> k.log[n].after \ done]]]
  BY DrainedIs
<1>2. done \in SUBSET DOMAIN k.log
  BY DoneIsClosed
<1> HIDE DEF h, done
<1>3. /\ h.store = Landed(k, done) /\ DOMAIN h.log = DOMAIN k.log \ done
      /\ \A n \in DOMAIN h.log : h.log[n].puts = k.log[n].puts
  BY <1>1
<1>4. l \in DOMAIN h.store /\ h.store[l] \in Values(k, l)
  BY <1>2, <1>3, LandedIsValue
<1>5. \A n \in WritersOf(h, l) : n \in WritersOf(k, l) /\ h.log[n].puts = k.log[n].puts
  BY <1>3 DEF WritersOf, Writers
<1>6. Values(h, l) \subseteq Values(k, l)
  BY <1>4, <1>5 DEF Values
<1> QED
  BY <1>4, <1>6 DEF h

-----------------------------------------------------------------------------
(* What a location may come to have.                                         *)

\* At l, h may have what k may have, and owes what k owes.
Eases(h, k, l) ==
  /\ Values(h, l) \subseteq Values(k, l)
  /\ \A q \in WritersOf(h, l) :
       /\ q \in WritersOf(k, l)
       /\ h.log[q].device = k.log[q].device
       /\ h.log[q].owed \subseteq k.log[q].owed

\* Whatever h may come out as, k might have at every location of L.
Alike(h, k, L) ==
  /\ h.grade = k.grade /\ h.ordered = k.ordered
  /\ \A l \in L : Eases(h, k, l)
  /\ \A S \in Closures(h) : \E R \in Closures(k) : \A l \in L : Landed(h, S)[l] = Landed(k, R)[l]

\* l has v and keeps it, whatever is lost.
Rests(k, l, v) == WritersOf(k, l) = {} /\ Values(k, l) = {v}

LEMMA AlikeSame ==
  ASSUME NEW k, NEW L
  PROVE  Alike(k, k, L)
  BY DEF Alike, Eases

LEMMA AlikeTwice ==
  ASSUME NEW k, NEW h, NEW g, NEW L, Alike(h, k, L), Alike(g, h, L)
  PROVE  Alike(g, k, L)
<1>1. \A l \in L : Eases(g, k, l)
  BY DEF Alike, Eases
<1>2. ASSUME NEW S \in Closures(g)
      PROVE  \E R \in Closures(k) : \A l \in L : Landed(g, S)[l] = Landed(k, R)[l]
  <2>1. PICK Q \in Closures(h) : \A l \in L : Landed(g, S)[l] = Landed(h, Q)[l]
    BY DEF Alike
  <2>2. PICK R \in Closures(k) : \A l \in L : Landed(h, Q)[l] = Landed(k, R)[l]
    BY DEF Alike
  <2> QED
    BY <2>1, <2>2
<1> QED
  BY <1>1, <1>2 DEF Alike

LEMMA AlikeFewer ==
  ASSUME NEW k, NEW h, NEW L, NEW M, Alike(h, k, L), M \subseteq L
  PROVE  Alike(h, k, M)
<1>1. ASSUME NEW S \in Closures(h)
      PROVE  \E R \in Closures(k) : \A l \in M : Landed(h, S)[l] = Landed(k, R)[l]
  BY DEF Alike
<1> QED
  BY <1>1 DEF Alike

LEMMA EasesTwice ==
  ASSUME NEW k, NEW h, NEW g, NEW l, Eases(h, k, l), Eases(g, h, l)
  PROVE  Eases(g, k, l)
  BY DEF Eases

LEMMA RestStays ==
  ASSUME NEW k, NEW h, NEW l, NEW v, Eases(h, k, l), Rests(k, l, v)
  PROVE  Rests(h, l, v)
  BY DEF Eases, Rests, Values

\* A location nothing is pending at has one value in all that may land.
LEMMA RestLands ==
  ASSUME NEW k, Sound(k), NEW l \in DOMAIN k.store, NEW v, Values(k, l) = {v}
  PROVE  /\ \A S \in SUBSET DOMAIN k.log : Landed(k, S)[l] = v
         /\ Seen(k)[l] = v
<1>1. \A S \in SUBSET DOMAIN k.log : Landed(k, S)[l] \in Values(k, l)
  BY LandedIsValue
<1>2. Seen(k)[l] \in Values(k, l)
  BY SeenIsValue
<1> QED
  BY <1>1, <1>2

LEMMA SettledIs ==
  ASSUME NEW k, Sound(k), NEW l \in DOMAIN k.store, WritersOf(k, l) = {}
  PROVE  Rests(k, l, Seen(k)[l])
<1>1. Values(k, l) = {k.store[l]}
  BY DEF Values
<1>2. Seen(k)[l] = k.store[l]
  BY <1>1, SeenIsValue
<1> QED
  BY <1>1, <1>2 DEF Rests

LEMMA RewrittenAlike ==
  ASSUME NEW k, Sound(k), NEW h, Rewritten(h, k), h.ordered = k.ordered,
         \A n \in DOMAIN k.log : h.log[n].owed \subseteq k.log[n].owed
  PROVE  /\ \A l : Eases(h, k, l)
         /\ \A L : Alike(h, k, L)
<1>1. ASSUME NEW l PROVE Eases(h, k, l)
  <2>1. WritersOf(h, l) = WritersOf(k, l)
    BY DEF Rewritten, WritersOf, Writers
  <2>2. Values(h, l) = Values(k, l)
    BY <2>1 DEF Rewritten, Values, WritersOf, Writers
  <2>3. \A q \in WritersOf(k, l) : q \in DOMAIN k.log
    BY DEF WritersOf, Writers
  <2> QED
    BY <2>1, <2>2, <2>3 DEF Rewritten, Eases
<1>2. Closures(h) = Closures(k)
  BY DEF Closures, Rewritten
<1>3. \A S \in Closures(h) : Landed(h, S) = Landed(k, S)
  BY <1>2, RewrittenLands DEF Closures
<1>4. ASSUME NEW L PROVE Alike(h, k, L)
  <2>1. \A S \in Closures(h) : \E R \in Closures(k) : \A l \in L : Landed(h, S)[l] = Landed(k, R)[l]
    BY <1>2, <1>3
  <2> QED
    BY <1>1, <2>1 DEF Alike, Rewritten
<1> QED
  BY <1>1, <1>4

LEMMA HandedAlike ==
  ASSUME NEW k, Sound(k), NEW os
  PROVE  /\ \A l : Eases(Handed(k, os), k, l)
         /\ \A L : Alike(Handed(k, os), k, L)
<1>1. Handed(k, os).ordered = k.ordered
  BY DEF Handed, Sound, Form
<1>2. CASE k.grade = "None"
  BY <1>2, AlikeSame DEF Handed, Eases
<1>3. CASE k.grade # "None"
  <2>1. /\ Rewritten(Handed(k, os), k)
        /\ \A n \in DOMAIN k.log : Handed(k, os).log[n].owed = k.log[n].owed \ os
    BY <1>3, HandedFacts
  <2> QED
    BY <1>1, <2>1, RewrittenAlike
<1> QED
  BY <1>2, <1>3

LEMMA BarrieredAlike ==
  ASSUME NEW k, Sound(k), NEW d
  PROVE  /\ \A l : Eases(Barriered(k, d), k, l)
         /\ \A L : Alike(Barriered(k, d), k, L)
<1>1. Barriered(k, d).ordered = k.ordered
  BY DEF Barriered, Sound, Form
<1>2. /\ Rewritten(Barriered(k, d), k)
      /\ \A n \in DOMAIN k.log : Barriered(k, d).log[n].owed = k.log[n].owed
  BY BarrieredFacts
<1> QED
  BY <1>1, <1>2, RewrittenAlike

LEMMA DrainedAlike ==
  ASSUME NEW k, Sound(k), NEW d
  PROVE  /\ \A l \in DOMAIN k.store : Eases(Drained(k, d), k, l)
         /\ \A L \in SUBSET DOMAIN k.store : Alike(Drained(k, d), k, L)
<1> DEFINE h == Drained(k, d)
           done == Done(k, d)
<1>1. h = [store |-> Landed(k, done), ordered |-> k.ordered, grade |-> k.grade,
           log |-> [n \in DOMAIN k.log \ done |->
                     [puts |-> k.log[n].puts, device |-> k.log[n].device,
                      owed |-> k.log[n].owed, bound |-> k.log[n].bound,
                      after |-> k.log[n].after \ done]]]
  BY DrainedIs
<1>2. done \subseteq DOMAIN k.log /\ \A n \in done : k.log[n].after \subseteq done
  BY DoneIsClosed
<1>3. \A S \in SUBSET (DOMAIN k.log \ done) : Landed(h, S) = Landed(k, S \cup done)
  BY DrainedLands
<1>4. \A l \in DOMAIN k.store : Values(h, l) \subseteq Values(k, l)
  BY DrainedValues
<1> HIDE DEF h, done
<1>5. /\ h.ordered = k.ordered /\ h.grade = k.grade /\ DOMAIN h.log = DOMAIN k.log \ done
      /\ \A n \in DOMAIN h.log :
           /\ h.log[n].puts = k.log[n].puts /\ h.log[n].device = k.log[n].device
           /\ h.log[n].owed = k.log[n].owed /\ h.log[n].after = k.log[n].after \ done
  BY <1>1
<1>6. ASSUME NEW l \in DOMAIN k.store PROVE Eases(h, k, l)
  <2>1. \A q \in WritersOf(h, l) : q \in DOMAIN h.log /\ q \in WritersOf(k, l)
    BY <1>5 DEF WritersOf, Writers
  <2> QED
    BY <1>4, <1>5, <2>1 DEF Eases
<1>7. ASSUME NEW S \in Closures(h)
      PROVE  S \cup done \in Closures(k) /\ Landed(h, S) = Landed(k, S \cup done)
  <2>1. S \in SUBSET (DOMAIN k.log \ done) /\ \A n \in S : h.log[n].after \subseteq S
    BY <1>5 DEF Closures
  <2>2. \A n \in S : k.log[n].after \subseteq S \cup done
    BY <1>5, <2>1
  <2> QED
    BY <1>2, <1>3, <2>1, <2>2 DEF Closures
<1>8. ASSUME NEW L \in SUBSET DOMAIN k.store PROVE Alike(h, k, L)
  <2>1. \A S \in Closures(h) : \E R \in Closures(k) : \A l \in L : Landed(h, S)[l] = Landed(k, R)[l]
    BY <1>7
  <2> QED
    BY <1>5, <1>6, <2>1 DEF Alike
<1> QED
  BY <1>6, <1>8 DEF h

LEMMA SyncAlike ==
  ASSUME NEW k, Sound(k), NEW o, NEW need
  PROVE  /\ DOMAIN k.store \subseteq DOMAIN Sync(k, o, need).store
         /\ \A l \in DOMAIN k.store : Eases(Sync(k, o, need), k, l)
         /\ \A L \in SUBSET DOMAIN k.store : Alike(Sync(k, o, need), k, L)
<1> DEFINE g == Handed(k, {o})
           dry == Drained(g, Device(o))
           bar == Barriered(g, Device(o))
<1>1. Sound(g) /\ g.store = k.store
  BY HandedFacts DEF Rewritten
<1>2. (\A l : Eases(g, k, l)) /\ \A L : Alike(g, k, L)
  BY HandedAlike
<1>3. /\ \A l \in DOMAIN k.store : Eases(dry, g, l)
      /\ \A L \in SUBSET DOMAIN k.store : Alike(dry, g, L)
  BY <1>1, DrainedAlike
<1>4. (\A l : Eases(bar, g, l)) /\ \A L : Alike(bar, g, L)
  BY <1>1, BarrieredAlike
<1>5. DOMAIN k.store \subseteq DOMAIN dry.store
  BY <1>1, DrainedValues
<1>6. bar.store = k.store
  BY <1>1, BarrieredFacts DEF Rewritten
<1>7. Sync(k, o, need) \in {g, dry, bar}
  BY DEF Sync
<1> HIDE DEF g, dry, bar
<1>8. /\ \A l \in DOMAIN k.store : Eases(dry, k, l) /\ Eases(bar, k, l) /\ Eases(g, k, l)
      /\ \A L \in SUBSET DOMAIN k.store : Alike(dry, k, L) /\ Alike(bar, k, L) /\ Alike(g, k, L)
  BY <1>2, <1>3, <1>4, EasesTwice, AlikeTwice
<1> QED
  BY <1>1, <1>5, <1>6, <1>7, <1>8

LEMMA FlushAlike ==
  ASSUME NEW k, Sound(k), NEW debts, NEW anchor, NEW need
  PROVE  /\ DOMAIN k.store \subseteq DOMAIN FlushAll(k, debts, anchor, need).store
         /\ \A l \in DOMAIN k.store : Eases(FlushAll(k, debts, anchor, need), k, l)
         /\ \A L \in SUBSET DOMAIN k.store : Alike(FlushAll(k, debts, anchor, need), k, L)
<1> DEFINE h == Handed(k, debts)
           g == Handed(k, debts \ {anchor})
           f == Sync(g, anchor, need)
<1>1. Sound(g) /\ g.store = k.store /\ h.store = k.store
  BY HandedFacts DEF Rewritten
<1>2. /\ \A l : Eases(g, k, l) /\ Eases(h, k, l)
      /\ \A L : Alike(g, k, L) /\ Alike(h, k, L)
  BY HandedAlike
<1>3. /\ DOMAIN k.store \subseteq DOMAIN f.store
      /\ \A l \in DOMAIN k.store : Eases(f, g, l)
      /\ \A L \in SUBSET DOMAIN k.store : Alike(f, g, L)
  BY <1>1, SyncAlike
<1>4. FlushAll(k, debts, anchor, need) \in {h, k, f}
  BY DEF FlushAll
<1>5. (\A l : Eases(k, k, l)) /\ \A L : Alike(k, k, L)
  BY AlikeSame DEF Eases
<1> HIDE DEF h, g, f
<1>6. /\ \A l \in DOMAIN k.store : Eases(f, k, l)
      /\ \A L \in SUBSET DOMAIN k.store : Alike(f, k, L)
  BY <1>2, <1>3, EasesTwice, AlikeTwice
<1> QED
  BY <1>1, <1>2, <1>3, <1>4, <1>5, <1>6

\* A write elsewhere.
LEMMA AddedAlike ==
  ASSUME NEW k, Sound(k), NEW h, NEW puts, Added(h, k, puts)
  PROVE  /\ \A l : l \notin DOMAIN puts => Eases(h, k, l)
         /\ \A L \in SUBSET DOMAIN k.store : L \cap DOMAIN puts = {} => Alike(h, k, L)
<1> DEFINE next == NextWrite(k)
<1>1. ASSUME NEW l, l \notin DOMAIN puts PROVE Eases(h, k, l)
  <2>1. WritersOf(h, l) = WritersOf(k, l) /\ Values(h, l) = Values(k, l)
    BY <1>1, AddedValues
  <2>2. \A q \in WritersOf(k, l) : h.log[q] = k.log[q]
    BY DEF WritersOf, Writers, Added
  <2> QED
    BY <2>1, <2>2 DEF Eases
<1>2. ASSUME NEW L \in SUBSET DOMAIN k.store, L \cap DOMAIN puts = {} PROVE Alike(h, k, L)
  <2>1. ASSUME NEW S \in Closures(h), NEW l \in L PROVE Landed(h, S)[l] = Landed(k, S \ {next})[l]
    <3>1. S \in SUBSET DOMAIN h.log
      BY DEF Closures
    <3>2. S \ {next} \in SUBSET DOMAIN k.log
      BY <3>1 DEF Added
    <3>3. l \in DOMAIN Landed(k, S \ {next})
      BY <3>2, LandedIsValue
    <3> HIDE DEF next
    <3> QED
      BY <1>2, <3>1, <3>3, AddedLands DEF next
  <2>2. \A S \in Closures(h) : S \ {next} \in Closures(k)
    BY AddedClosures
  <2>3. \A S \in Closures(h) : \E R \in Closures(k) : \A l \in L : Landed(h, S)[l] = Landed(k, R)[l]
    BY <2>1, <2>2
  <2> QED
    BY <1>1, <1>2, <2>3 DEF Alike, Added
<1> QED
  BY <1>1, <1>2

LEMMA MintedAlike ==
  ASSUME NEW k, Sound(k), NEW n
  PROVE  /\ DOMAIN Minted(k, n).store = DOMAIN k.store
         /\ \A l \in DOMAIN k.store \ {BytesOf(n), ModeOf(n)} : Eases(Minted(k, n), k, l)
         /\ \A L \in SUBSET (DOMAIN k.store \ {BytesOf(n), ModeOf(n)}) : Alike(Minted(k, n), k, L)
<1> DEFINE h == Minted(k, n)
<1>1. /\ h.log = k.log /\ h.grade = k.grade /\ h.ordered = k.ordered
      /\ DOMAIN h.store = DOMAIN k.store
      /\ \A l \in DOMAIN k.store \ {BytesOf(n), ModeOf(n)} : h.store[l] = k.store[l]
  BY DEF Minted, Sound, Form
<1>2. Sound(h)
  BY MintedIsSound
<1> HIDE DEF h
<1>3. ASSUME NEW l \in DOMAIN k.store \ {BytesOf(n), ModeOf(n)} PROVE Eases(h, k, l)
  BY <1>1 DEF Eases, Values, WritersOf, Writers
<1>4. ASSUME NEW S \in Closures(h), NEW l \in DOMAIN k.store \ {BytesOf(n), ModeOf(n)}
      PROVE  Landed(h, S)[l] = Landed(k, S)[l]
  <2>1. S \in SUBSET DOMAIN k.log /\ Writers(h, S, l) = Writers(k, S, l)
    BY <1>1 DEF Closures, Writers
  <2>2. CASE Writers(k, S, l) = {}
    BY <1>1, <1>4, <2>1, <2>2, UnwrittenIs
  <2>3. CASE Writers(k, S, l) # {}
    <3>1. PICK m \in Writers(k, S, l) : \A q \in Writers(k, S, l) : q <= m
      BY <2>1, <2>3, LastExists
    <3>2. Landed(k, S)[l] = k.log[m].puts[l]
      BY <2>1, <3>1, LastIs
    <3>3. Landed(h, S)[l] = h.log[m].puts[l]
      <4>1. S \in SUBSET DOMAIN h.log /\ m \in Writers(h, S, l)
            /\ \A q \in Writers(h, S, l) : q <= m
        BY <1>1, <2>1, <3>1
      <4> QED
        BY <1>2, <4>1, LastIs
    <3> QED
      BY <1>1, <3>2, <3>3
  <2> QED
    BY <2>2, <2>3
<1>5. Closures(h) = Closures(k)
  BY <1>1 DEF Closures
<1>6. ASSUME NEW L \in SUBSET (DOMAIN k.store \ {BytesOf(n), ModeOf(n)}) PROVE Alike(h, k, L)
  <2>1. \A S \in Closures(h) : \E R \in Closures(k) : \A l \in L : Landed(h, S)[l] = Landed(k, R)[l]
    BY <1>4, <1>5
  <2> QED
    BY <1>1, <1>3, <2>1 DEF Alike
<1> QED
  BY <1>1, <1>3, <1>6 DEF h

\* A drain settles what has been handed over.
\* Once all that was written of l has landed, it is as it is seen.
LEMMA DoneSettles ==
  ASSUME NEW k, Sound(k), NEW d, NEW l \in DOMAIN k.store, WritersOf(k, l) \subseteq Done(k, d)
  PROVE  Rests(Drained(k, d), l, Seen(k)[l])
<1> DEFINE h == Drained(k, d)
<1>2. DOMAIN h.log = DOMAIN k.log \ Done(k, d) /\ \A n \in DOMAIN h.log : h.log[n].puts = k.log[n].puts
  <2>1. h = [store |-> Landed(k, Done(k, d)), ordered |-> k.ordered, grade |-> k.grade,
             log |-> [n \in DOMAIN k.log \ Done(k, d) |->
                       [puts |-> k.log[n].puts, device |-> k.log[n].device,
                        owed |-> k.log[n].owed, bound |-> k.log[n].bound,
                        after |-> k.log[n].after \ Done(k, d)]]]
    BY DrainedIs
  <2> HIDE DEF h
  <2> QED
    BY <2>1
<1>3. Sound(h) /\ Seen(h) = Seen(k) /\ l \in DOMAIN h.store
  BY DrainedIsSound, DrainedIsUnseen, DrainedValues
<1> HIDE DEF h
<1>4. WritersOf(h, l) = {}
  BY <1>2 DEF WritersOf, Writers
<1> QED
  BY <1>3, <1>4, SettledIs DEF h

LEMMA DrainSettles ==
  ASSUME NEW k, Sound(k), NEW d, NEW l \in DOMAIN k.store,
         \A q \in WritersOf(k, l) : k.log[q].owed = {} /\ k.log[q].device = d
  PROVE  Rests(Drained(k, d), l, Seen(k)[l])
<1>1. WritersOf(k, l) \subseteq Done(k, d)
  BY DEF WritersOf, Writers, OnDevice, Done
<1> QED
  BY <1>1, DoneSettles

LEMMA SyncSettles ==
  ASSUME NEW k, Sound(k), k.grade = "Durable", NEW o, NEW l \in DOMAIN k.store,
         \A q \in WritersOf(k, l) : k.log[q].owed \subseteq {o} /\ k.log[q].device = Device(o)
  PROVE  Rests(Sync(k, o, "Durable"), l, Seen(k)[l])
<1> DEFINE g == Handed(k, {o})
<1>1. /\ Sound(g) /\ Rewritten(g, k)
      /\ \A n \in DOMAIN k.log : g.log[n].owed = k.log[n].owed \ {o}
  BY HandedFacts
<1>2. Sync(k, o, "Durable") = Drained(g, Device(o))
  BY DEF Sync, Satisfies
<1>3. Seen(g) = Seen(k) /\ l \in DOMAIN g.store
  BY <1>1, RewrittenIsUnseen DEF Rewritten
<1> HIDE DEF g
<1>4. \A q \in WritersOf(g, l) : g.log[q].owed = {} /\ g.log[q].device = Device(o)
  BY <1>1 DEF Rewritten, WritersOf, Writers
<1> QED
  BY <1>1, <1>2, <1>3, <1>4, DrainSettles

LEMMA FlushSettles ==
  ASSUME NEW k, Sound(k), k.grade = "Durable", NEW debts, debts # {}, NEW anchor,
         NEW l \in DOMAIN k.store,
         \A q \in WritersOf(k, l) :
           k.log[q].owed \subseteq debts \cup {anchor} /\ k.log[q].device = Device(anchor)
  PROVE  Rests(FlushAll(k, debts, anchor, "Durable"), l, Seen(k)[l])
<1> DEFINE g == Handed(k, debts \ {anchor})
<1>1. /\ Sound(g) /\ Rewritten(g, k)
      /\ \A n \in DOMAIN k.log : g.log[n].owed = k.log[n].owed \ (debts \ {anchor})
  BY HandedFacts
<1>2. FlushAll(k, debts, anchor, "Durable") = Sync(g, anchor, "Durable")
  BY DEF FlushAll
<1>3. Seen(g) = Seen(k) /\ l \in DOMAIN g.store /\ g.grade = "Durable"
  BY <1>1, RewrittenIsUnseen DEF Rewritten
<1> HIDE DEF g
<1>4. \A q \in WritersOf(g, l) : g.log[q].owed \subseteq {anchor} /\ g.log[q].device = Device(anchor)
  BY <1>1 DEF Rewritten, WritersOf, Writers
<1> QED
  BY <1>1, <1>2, <1>3, <1>4, SyncSettles

\* What was written of l lands no later than something written of m.
Leads(k, l, m) ==
  WritersOf(k, l) = {} \/ \E q \in WritersOf(k, m) : WritersOf(k, l) \subseteq k.log[q].after

LEMMA SyncLeads ==
  ASSUME NEW k, Sound(k), k.grade = "Durable", NEW o, NEW l \in DOMAIN k.store, NEW m,
         Leads(k, l, m)
  PROVE  Leads(Sync(k, o, "Durable"), l, m)
<1> DEFINE g == Handed(k, {o})
           d == Device(o)
           h == Drained(g, d)
<1>1. Sound(g) /\ Rewritten(g, k)
  BY HandedFacts
<1>2. Sync(k, o, "Durable") = h
  BY DEF Sync, Satisfies
<1> HIDE DEF g, d
<1>3. Leads(g, l, m)
  BY <1>1 DEF Leads, Rewritten, WritersOf, Writers
<1>4. h = [store |-> Landed(g, Done(g, d)), ordered |-> g.ordered, grade |-> g.grade,
           log |-> [n \in DOMAIN g.log \ Done(g, d) |->
                     [puts |-> g.log[n].puts, device |-> g.log[n].device,
                      owed |-> g.log[n].owed, bound |-> g.log[n].bound,
                      after |-> g.log[n].after \ Done(g, d)]]]
  BY <1>1, DrainedIs
<1> HIDE DEF h
<1>5. /\ DOMAIN h.log = DOMAIN g.log \ Done(g, d)
      /\ \A n \in DOMAIN h.log : /\ h.log[n].puts = g.log[n].puts
                                 /\ h.log[n].after = g.log[n].after \ Done(g, d)
  BY <1>4
<1>6. \A x : WritersOf(h, x) = WritersOf(g, x) \ Done(g, d)
  BY <1>5 DEF WritersOf, Writers
<1>7. CASE WritersOf(g, l) = {}
  BY <1>2, <1>6, <1>7 DEF Leads
<1>8. ASSUME NEW q \in WritersOf(g, m), WritersOf(g, l) \subseteq g.log[q].after
      PROVE  Leads(h, l, m)
  <2>1. CASE q \in Done(g, d)
    <3>1. q \in DOMAIN g.log /\ g.log[q].after \subseteq Done(g, d)
      BY <1>1, <2>1, DoneIsClosed DEF WritersOf, Writers
    <3> QED
      BY <1>6, <1>8, <3>1 DEF Leads
  <2>2. CASE q \notin Done(g, d)
    <3>1. q \in WritersOf(h, m) /\ q \in DOMAIN h.log
      BY <1>5, <1>6, <1>8, <2>2 DEF WritersOf, Writers
    <3>2. WritersOf(h, l) \subseteq h.log[q].after
      BY <1>5, <1>6, <1>8, <3>1
    <3> QED
      BY <3>1, <3>2 DEF Leads
  <2> QED
    BY <2>1, <2>2
<1> QED
  BY <1>2, <1>3, <1>7, <1>8 DEF Leads

LEMMA AddedLeads ==
  ASSUME NEW k, Sound(k), NEW h, NEW puts, Added(h, k, puts), NEW l, NEW m,
         l \notin DOMAIN puts, m \notin DOMAIN puts, Leads(k, l, m)
  PROVE  Leads(h, l, m)
<1>1. WritersOf(h, l) = WritersOf(k, l) /\ WritersOf(h, m) = WritersOf(k, m)
  BY AddedValues
<1>2. \A q \in WritersOf(k, m) : h.log[q] = k.log[q]
  BY DEF Added, WritersOf, Writers
<1> QED
  BY <1>1, <1>2 DEF Leads

\* The sync that lands the one lands the other.
LEMMA LeadSettles ==
  ASSUME NEW k, Sound(k), k.grade = "Durable", NEW o, NEW l \in DOMAIN k.store, NEW m,
         Leads(k, l, m),
         \A q \in WritersOf(k, m) : k.log[q].owed \subseteq {o} /\ k.log[q].device = Device(o)
  PROVE  Rests(Sync(k, o, "Durable"), l, Seen(k)[l])
<1> DEFINE g == Handed(k, {o})
           d == Device(o)
<1>1. /\ Sound(g) /\ Rewritten(g, k)
      /\ \A n \in DOMAIN k.log : g.log[n].owed = k.log[n].owed \ {o}
  BY HandedFacts
<1>2. Sync(k, o, "Durable") = Drained(g, d)
  BY DEF Sync, Satisfies
<1>3. Seen(g) = Seen(k) /\ l \in DOMAIN g.store
  BY <1>1, RewrittenIsUnseen DEF Rewritten
<1> HIDE DEF g
<1>4. /\ Leads(g, l, m)
      /\ \A q \in WritersOf(g, m) : g.log[q].owed = {} /\ g.log[q].device = d
  BY <1>1 DEF Leads, Rewritten, WritersOf, Writers
<1> HIDE DEF d
<1>5. WritersOf(g, l) \subseteq Done(g, d)
  BY <1>4 DEF Leads, Done, OnDevice, WritersOf, Writers
<1> QED
  BY <1>1, <1>2, <1>3, <1>5, DoneSettles

=============================================================================
