-------------------------------- MODULE Disk --------------------------------
(***************************************************************************)
(* What a power cut may take back: the contract of Storage::sync.  A disk  *)
(* is what has landed for good (store) and the writes that have not (log). *)
(*                                                                         *)
(* A write is one indivisible change of a few locations: the bytes or the  *)
(* mode of an inode, or names of directories, a rename being a single      *)
(* write of two names.  It belongs to the inode or the directories it      *)
(* changes, and has reached the device once each of them has been synced   *)
(* since.  Nothing orders two writes but a location they share, or a       *)
(* barrier that found the first on the device before the second was made.  *)
(*                                                                         *)
(* This is the least the port promises: a backend may do better, and every *)
(* outcome of a better one is an outcome here.                             *)
(***************************************************************************)
EXTENDS Naturals, FiniteSets, TornBytes
Fin == INSTANCE FiniteSetsExt

CONSTANTS
  Inodes,        \* of every device
  DirOf(_),      \* the directory a name is an entry of
  Device(_)      \* the device an inode or a directory is on

Gone == [kind |-> "absent"]
Subdir == [kind |-> "dir"]
Inode(n) == [kind |-> "file", inode |-> n]
Symlink(to) == [kind |-> "link", target |-> to]

\* The locations of an inode; every other location is a name.
BytesOf(n) == <<n, "bytes">>
ModeOf(n) == <<n, "exec">>
Parts == {BytesOf(n) : n \in Inodes} \cup {ModeOf(n) : n \in Inodes}

\* A disk with nothing pending.  On an ordered disk, entries and modes land in
\* the order they were written, which the port does not promise and a file
\* system that journals its metadata does.  grade is the backend's guarantee.
Clean(s, ordered, grade) ==
  [store |-> s, log |-> <<>>, ordered |-> ordered, grade |-> grade]

-----------------------------------------------------------------------------
(* Reading.                                                                  *)

\* The store when, of the log, the writes of S have landed.
Landed(k, S) ==
  LET changed == UNION {DOMAIN k.log[n].puts : n \in S}
      last(l) == Fin!Max({n \in S : l \in DOMAIN k.log[n].puts})
  IN  [l \in changed \cup DOMAIN k.store |->
        IF l \in changed THEN k.log[last(l)].puts[l] ELSE k.store[l]]

\* What a process reads.
Seen(k) == Landed(k, DOMAIN k.log)

\* The writes that have reached device d.
OnDevice(k, d) == {n \in DOMAIN k.log : k.log[n].device = d /\ k.log[n].owed = {}}

-----------------------------------------------------------------------------
(* Writing.                                                                  *)

\* The puts of a write of one location.
At(l, v) == [one \in {l} |-> v]

Metadata(puts) == \A n \in Inodes : BytesOf(n) \notin DOMAIN puts

NextWrite(k) == Fin!Max({0} \cup DOMAIN k.log) + 1

\* One write, by objects os, of the locations of puts.
IssueBy(k, os, puts) ==
  LET device == Device(CHOOSE o \in os : TRUE)
      earlier ==
        {n \in DOMAIN k.log :
           \/ DOMAIN k.log[n].puts \cap DOMAIN puts # {}
           \/ /\ k.log[n].device = device
              /\ \/ k.log[n].bound
                 \/ k.ordered /\ Metadata(puts) /\ Metadata(k.log[n].puts)}
      write ==
        [puts |-> puts, device |-> device, owed |-> os, bound |-> FALSE,
         after |-> earlier \cup UNION {k.log[n].after : n \in earlier}]
      next == NextWrite(k)
  IN  [k EXCEPT !.log =
         [n \in DOMAIN k.log \cup {next} |-> IF n = next THEN write ELSE k.log[n]]]

\* An entry of a directory, or of two.
Enter(k, puts) == IssueBy(k, {DirOf(p) : p \in DOMAIN puts}, puts)

SetBytes(k, n, b) == IssueBy(k, {n}, At(BytesOf(n), b))

SetMode(k, n, x) == IssueBy(k, {n}, At(ModeOf(n), x))

\* The inodes of the pool that no name and no write knows.
Unknown(k, pool) ==
  LET named == {e \in {k.store[l] : l \in DOMAIN k.store \ Parts} : e.kind = "file"}
      Knows(w, n) ==
        \E l \in DOMAIN w.puts :
          l \in {BytesOf(n), ModeOf(n)} \/ (l \notin Parts /\ w.puts[l] = Inode(n))
  IN  {n \in pool : Inode(n) \notin named /\ \A q \in DOMAIN k.log : ~Knows(k.log[q], n)}

Fresh(k, pool) == Fin!Min(Unknown(k, pool))

\* A new inode, of whose bytes the disk has nothing yet.
Minted(k, n) ==
  [k EXCEPT !.store = [k.store EXCEPT ![BytesOf(n)] = Torn, ![ModeOf(n)] = FALSE]]

\* Mutant of Renamed: the name it leaves is kept.
RenamedKeeping(k, p, q) == Enter(k, At(q, Seen(k)[p]))

Renamed(k, p, q) ==
  IF p = q THEN k ELSE Enter(k, [l \in {p, q} |-> IF l = p THEN Gone ELSE Seen(k)[p]])

Unlinked(k, p) == Enter(k, At(p, Gone))

Symlinked(k, p, to) == Enter(k, At(p, Symlink(to)))

\* Storage::write: into the inode the name has, or a new one.
Overwritten(k, p, b, pool) ==
  IF Seen(k)[p].kind = "file" THEN SetBytes(k, Seen(k)[p].inode, b)
  ELSE LET n == Fresh(k, pool) IN
       SetBytes(Enter(Minted(k, n), At(p, Inode(n))), n, b)

-----------------------------------------------------------------------------
(* Storage::sync, by what it is asked for.                                   *)

\* SyncGuarantee::satisfies.
Satisfies(grade, need) ==
  \/ grade = "Durable"
  \/ grade = "Ordered" /\ need # "Durable"
  \/ grade = "Pushed" /\ need = "Pushed"

\* Pushed: what the objects of os owe is handed to the device.
Handed(k, os) ==
  IF k.grade = "None" THEN k
  ELSE [k EXCEPT !.log =
         [n \in DOMAIN k.log |-> [k.log[n] EXCEPT !.owed = k.log[n].owed \ os]]]

\* Ordered: what has reached device d lands before anything written from now.
Barriered(k, d) ==
  [k EXCEPT !.log =
     [n \in DOMAIN k.log |->
       [k.log[n] EXCEPT !.bound = k.log[n].bound \/ n \in OnDevice(k, d)]]]

\* Durable: what has reached device d has landed, and whatever comes before it.
Drained(k, d) ==
  LET done == OnDevice(k, d) \cup UNION {k.log[n].after : n \in OnDevice(k, d)}
  IN  [k EXCEPT
         !.store = Landed(k, done),
         !.log = [n \in DOMAIN k.log \ done |->
                   [k.log[n] EXCEPT !.after = k.log[n].after \ done]]]

\* A backend asked for more than it can give gives what it can.
Sync(k, o, need) ==
  LET handed == Handed(k, {o})
      given == IF Satisfies(k.grade, need) THEN need ELSE k.grade
  IN  IF given = "Durable" THEN Drained(handed, Device(o))
      ELSE IF given = "Ordered" THEN Barriered(handed, Device(o))
      ELSE handed

\* A sync by name flushes the inode the name has, and a name that is gone is
\* no error and flushes nothing.
SyncFile(k, p, need) ==
  IF Seen(k)[p].kind = "file" THEN Sync(k, Seen(k)[p].inode, need) ELSE k

\* Mutant of FlushAll: the debts are handed over and nothing caps them.
FlushAllUncapped(k, debts, anchor, need) == Handed(k, debts)

\* flush_all: a push for each debt, then one cap at the anchor for the lot.
FlushAll(k, debts, anchor, need) ==
  IF need = "Pushed" THEN Handed(k, debts)
  ELSE IF debts = {} THEN k
  ELSE Sync(Handed(k, debts \ {anchor}), anchor, need)

\* Mutant of Replace: the staged bytes are renamed into place with no barrier.
ReplaceUnordered(k, p, b, x, pool) ==
  LET n == Fresh(k, pool)
      written == SetBytes(Minted(k, n), n, b)
  IN  Enter(IF x THEN SetMode(written, n, x) ELSE written, At(p, Inode(n)))

\* Storage::replace: the bytes staged and barriered, the mode x carried, the
\* name published.  The name they are staged under is left out.
Replace(k, p, b, x, pool) ==
  LET n == Fresh(k, pool)
      staged == Sync(SetBytes(Minted(k, n), n, b), n, "Ordered")
  IN  Enter(IF x THEN SetMode(staged, n, x) ELSE staged, At(p, Inode(n)))

-----------------------------------------------------------------------------
(* The power cut.                                                            *)

\* The sets of writes that may be all that landed.
Closures(k) == {S \in SUBSET DOMAIN k.log : \A n \in S : k.log[n].after \subseteq S}

\* The writes that may have landed in part when those of S have: of bytes, with
\* all that comes before them in S.
Interrupted(k, S) ==
  {n \in DOMAIN k.log \ S :
     k.log[n].after \subseteq S /\ \E i \in Inodes : BytesOf(i) \in DOMAIN k.log[n].puts}

\* Every store a power cut may leave.
Survivors(k) ==
  UNION {LET s == Landed(k, S) IN
         {[l \in DOMAIN s |->
             IF \E n \in T : l \in DOMAIN k.log[n].puts THEN Torn ELSE s[l]] :
            T \in SUBSET Interrupted(k, S)} :
         S \in Closures(k)}

=============================================================================
