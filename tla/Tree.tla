------------------------------- MODULE Tree -------------------------------
(***************************************************************************)
(* What a Storage backend holds, and what each call of the port does to    *)
(* it.  One flat namespace: a path is a model value, and the only other    *)
(* names are the hidden siblings op k of a set moves an entry to (an       *)
(* "aside").  Directories the crate would create under a path are left     *)
(* out; a directory that stands at a path is an entry, because several ops *)
(* refuse one.                                                             *)
(*                                                                         *)
(* A file is its bytes and its execute bit.  A link is its target: a path  *)
(* of the tree, or Nowhere for one that leads outside it and dangles.      *)
(***************************************************************************)
EXTENDS Naturals, Sequences, FiniteSets, TornBytes

CONSTANTS
  Path,           \* the root-relative paths a set may name
  Bytes,          \* the contents a file may be given
  Nowhere,        \* a link target that names no path of the tree
  MaxOps,         \* the length of the longest set
  AtomicReplace   \* Capabilities::atomic_replace of the backend

Aside == Path \X (1 .. MaxOps)

Slot == Path \cup Aside

ASSUME PathAssumption ==
  /\ IsFiniteSet(Path)
  /\ Path \cap Aside = {}

ASSUME ValueAssumption ==
  /\ Nowhere \notin Path
  /\ Torn \notin Bytes
  /\ MaxOps \in Nat
  /\ AtomicReplace \in BOOLEAN

Target == Path \cup {Nowhere}

Absent == [kind |-> "absent"]
Directory == [kind |-> "dir"]
File(b, x) == [kind |-> "file", bytes |-> b, exec |-> x]
Link(to) == [kind |-> "link", target |-> to]

Entry ==
  {Absent, Directory}
    \cup {File(b, x) : b \in Bytes \cup {Torn}, x \in BOOLEAN}
    \cup {Link(to) : to \in Target}

IsFile(e) == e.kind = "file"
IsLink(e) == e.kind = "link"
IsDir(e) == e.kind = "dir"

AsideOf(p, k) == <<p, k>>

-----------------------------------------------------------------------------
(* Reading: a link is followed by every call but read_link, rename,          *)
(* remove_file and set_link.                                                 *)

\* The slots an open of s goes through, following one link after the other.
Hops(t, s) ==
  LET hop[n \in 0 .. Cardinality(Path)] ==
        IF n = 0 THEN s
        ELSE LET here == hop[n - 1] IN
             IF IsLink(t[here]) /\ t[here].target \in Path
             THEN t[here].target
             ELSE here
  IN  hop

\* The slot an open of s reaches: s itself, unless it holds a link whose chain
\* ends somewhere in the tree.  A chain that leaves the tree, or that never
\* ends, reaches no entry but the link.
Referent(t, s) ==
  LET end == Hops(t, s)[Cardinality(Path)] IN
  IF IsLink(t[s]) /\ end \in Path THEN end ELSE s

\* The other slots whose entry an open of s looks at.
Through(t, s) == {Hops(t, s)[n] : n \in 0 .. Cardinality(Path)} \ {s}

\* port::exists, that is try_exists: a dangling link is not there.
Exists(t, s) == t[Referent(t, s)].kind \in {"file", "dir"}

\* A read succeeds on a file, or on a link that leads to one.
Readable(t, s) == IsFile(t[Referent(t, s)])

BytesAt(t, s) == t[Referent(t, s)].bytes

-----------------------------------------------------------------------------
(* Writing: what one successful call leaves, and when it can succeed.        *)

CanRemove(t, s) == t[s].kind \in {"file", "link"}

Removed(t, s) == [t EXCEPT ![s] = Absent]

\* Nothing is renamed onto a directory, and a directory onto nothing that is
\* there (the rule of POSIX, and the stricter one InMemoryFs keeps).
CanMove(t, from, to) ==
  /\ t[from] # Absent
  /\ ~IsDir(t[to])
  /\ IsDir(t[from]) => t[to] = Absent

Moved(t, from, to) ==
  IF from = to THEN t ELSE [t EXCEPT ![to] = t[from], ![from] = Absent]

CanLink(t, s) == ~IsDir(t[s])

Linked(t, s, to) == [t EXCEPT ![s] = Link(to)]

\* set_executable writes through a link, as chmod does.  The bit of a
\* directory is not recorded here, so flipping one changes nothing.
Flipped(t, s, x) ==
  LET r == Referent(t, s) IN
  IF IsFile(t[r]) THEN [t EXCEPT ![r] = File(t[r].bytes, x)] ELSE t

\* Storage::write: into the file there, or through the link there, keeping the
\* mode of a file that exists.  What it does beyond the tree is not recorded.
Written(t, s, b) ==
  LET r == Referent(t, s) IN
  IF IsLink(t[r]) THEN t
  ELSE [t EXCEPT ![r] = File(b, IsFile(t[r]) /\ t[r].exec)]

\* The mode copy_permissions carries onto the staged sibling: that of whatever
\* the path leads to, a directory's counting as executable.
CarriedExec(t, s) ==
  LET e == t[Referent(t, s)] IN IsDir(e) \/ (IsFile(e) /\ e.exec)

\* Storage::replace: a sibling renamed over the entry, or on a backend without
\* atomic replacement a plain write.
CanReplace(t, s) ==
  IF AtomicReplace THEN ~IsDir(t[s]) ELSE ~IsDir(t[Referent(t, s)])

Replaced(t, s, b) ==
  IF AtomicReplace
  THEN [t EXCEPT ![s] = File(b, CarriedExec(t, s))]
  ELSE Written(t, s, b)

=============================================================================
