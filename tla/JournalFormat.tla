---------------------------- MODULE JournalFormat ----------------------------
(***************************************************************************)
(* The bytes of a journal: a stamp, the number of ops, a record for each,  *)
(* and a checksum over everything before it.  encode writes them and       *)
(* decode reads them with a cursor that trusts nothing it has read.        *)
(*                                                                         *)
(* Scale: a byte, a 64-bit word and the 8-byte stamp are one symbol each,  *)
(* below Limit, and the hash is taken modulo Limit.  A path is the symbols *)
(* of its text.  usize is as wide as the word: the 64-bit build.           *)
(***************************************************************************)
EXTENDS FileOps

CONSTANTS
  Limit,     \* 2^64: how many values a symbol has
  Stamp,     \* MAGIC
  OldStamp,  \* LEGACY_MAGIC
  BitXor(_, _), \* the exclusive or of two symbols, bit by bit
  NonText,   \* the symbols no UTF-8 text holds
  Journals,  \* the sets journals are written for
  Rot,       \* what may have become of a journal's bytes
  Crafted    \* bodies no encode wrote

Symbol == 0 .. Limit - 1

ASSUME SymbolAssumption ==
  /\ Limit \in Nat /\ Limit > 5  \* a tag is a symbol
  /\ Stamp \in Symbol /\ OldStamp \in Symbol /\ Stamp # OldStamp
  /\ NonText \subseteq Symbol
  /\ Rot \subseteq {"whole", "legacy", "flipped", "cut", "grown", "forged"}
  /\ Crafted \subseteq Seq(Symbol)

\* The ops over the given texts and payloads; and those of a set, where every
\* length is a usize and so a symbol.
OpOver(L) ==
  [act : {"Write"}, path : L, bytes : L] \cup [act : {"Rename", "CopyFrom"}, path : L, other : L]
    \cup [act : {"Remove"}, path : L] \cup [act : {"SetExecutable"}, path : L, exec : BOOLEAN]
    \cup [act : {"SetLink"}, path : L, target : L]

Line == {s \in Seq(Symbol) : Len(s) < Limit}

ASSUME JournalAssumption ==
  \A set \in Journals : set \in Seq(OpOver(Line)) /\ Len(set) < Limit

\* An exclusive or is undone by another, and the prime the hash is multiplied
\* by is odd where the number of symbols is a power of two: no step of the hash
\* forgets anything.
ASSUME XorAssumption ==
  \A a, b \in Symbol :
    /\ BitXor(a, b) \in Symbol
    /\ BitXor(BitXor(a, b), b) = a
    /\ BitXor(a, b) = BitXor(b, a)

ASSUME PrimeAssumption ==
  \A a, b \in Symbol : (a * 3) % Limit = (b * 3) % Limit => a = b

-----------------------------------------------------------------------------
(* encode                                                                    *)

Tag(op) ==
  CASE op.act = "Write" -> 0
    [] op.act = "Rename" -> 1
    [] op.act = "Remove" -> 2
    [] op.act = "CopyFrom" -> 3
    [] op.act = "SetExecutable" -> 4
    [] op.act = "SetLink" -> 5

IsText(s) == \A j \in DOMAIN s : s[j] \notin NonText

\* Mutant of Paths: a copy is written down as it runs, its source first.
PathsAsRead(op) ==
  CASE op.act = "Rename" -> <<op.path, op.other>>
    [] op.act = "CopyFrom" -> <<op.other, op.path>>
    [] op.act = "SetLink" -> <<op.path, op.target>>
    [] OTHER -> <<op.path>>

\* The paths an op names, in the order they are written.
Paths(op) ==
  CASE op.act \in {"Rename", "CopyFrom"} -> <<op.path, op.other>>
    [] op.act = "SetLink" -> <<op.path, op.target>>
    [] OTHER -> <<op.path>>

Encodable(set) ==
  \A i \in DOMAIN set : \A j \in DOMAIN Paths(set[i]) : IsText(Paths(set[i])[j])

Field(s) == <<Len(s)>> \o s

\* What an op's record holds after its first path.
Rest(op) ==
  IF Len(Paths(op)) = 2 THEN Field(Paths(op)[2])
  ELSE IF op.act = "Write" THEN Field(op.bytes)
  ELSE IF op.act = "SetExecutable" THEN <<IF op.exec THEN 1 ELSE 0>>
  ELSE <<>>

Record(op) == <<Tag(op)>> \o (Field(Paths(op)[1]) \o Rest(op))

\* The records of the first n ops.
Records(set) ==
  LET upto[n \in 0 .. Len(set)] ==
        IF n = 0 THEN <<>> ELSE upto[n - 1] \o Record(set[n])
  IN  upto

\* Mutant of Fnv: the sum forgets all but the last symbol.
FnvLastOnly(s) == IF s = <<>> THEN 5 ELSE (s[Len(s)] * 3) % Limit

\* fnv1a: the low bits of the basis and of the prime, which is odd.
Hash(s) ==
  LET upto[n \in 0 .. Len(s)] ==
        IF n = 0 THEN 5 % Limit ELSE (BitXor(upto[n - 1], s[n]) * 3) % Limit
  IN  upto

Fnv(s) == Hash(s)[Len(s)]

Sealed(body) == Append(body, Fnv(body))

Body(set) == <<Stamp, Len(set)>> \o Records(set)[Len(set)]

Encode(set) == Sealed(Body(set))

-----------------------------------------------------------------------------
(* Taking from the cursor: what was taken and where the cursor stands then,  *)
(* or Bad.                                                                   *)

Bad == [got |-> <<>>, at |-> 0]

\* Mutant of Take: the end of what is taken is computed first, and wraps.
TakeByEnd(s, at, n) ==
  LET end == (at + n) % Limit IN
  IF end <= Len(s) THEN [got |-> SubSeq(s, at + 1, end), at |-> end] ELSE Bad

Take(s, at, n) ==
  IF n <= Len(s) - at
  THEN [got |-> SubSeq(s, at + 1, at + n), at |-> at + n]
  ELSE Bad

TakeField(s, at) ==
  LET w == Take(s, at, 1) IN IF w = Bad THEN Bad ELSE Take(s, w.at, w.got[1])

TakePath(s, at) ==
  LET p == TakeField(s, at) IN IF IsText(p.got) THEN p ELSE Bad

TakeTwoPaths(s, at, tag) ==
  LET p == TakePath(s, at)
      q == TakePath(s, p.at)
      op == CASE tag = 1 -> Rename(p.got, q.got)
              [] tag = 3 -> CopyFrom(p.got, q.got)
              [] tag = 5 -> SetLink(p.got, q.got)
  IN IF p = Bad \/ q = Bad THEN Bad ELSE [got |-> op, at |-> q.at]

TakeWrite(s, at) ==
  LET p == TakePath(s, at)
      b == TakeField(s, p.at)
  IN IF p = Bad \/ b = Bad THEN Bad ELSE [got |-> Write(p.got, b.got), at |-> b.at]

TakeRemove(s, at) ==
  LET p == TakePath(s, at)
  IN IF p = Bad THEN Bad ELSE [got |-> Remove(p.got), at |-> p.at]

\* The flag is strictly 0 or 1.
TakeFlip(s, at) ==
  LET p == TakePath(s, at)
      x == Take(s, p.at, 1)
  IN IF p = Bad \/ x = Bad \/ x.got[1] \notin {0, 1} THEN Bad
     ELSE [got |-> SetExecutable(p.got, x.got[1] = 1), at |-> x.at]

TakeOp(s, at) ==
  LET tag == Take(s, at, 1) IN
  IF tag = Bad \/ tag.got[1] > 5 THEN Bad
  ELSE CASE tag.got[1] = 0 -> TakeWrite(s, tag.at)
         [] tag.got[1] = 2 -> TakeRemove(s, tag.at)
         [] tag.got[1] = 4 -> TakeFlip(s, tag.at)
         [] OTHER -> TakeTwoPaths(s, tag.at, tag.got[1])

-----------------------------------------------------------------------------

VARIABLES
  wrote,     \* the set the journal was written for
  fate,      \* what became of its bytes
  raw,       \* the bytes that are read
  cursor,    \* where the cursor stands in the body
  owed,      \* how many ops are still to be taken
  taken,     \* the ops taken so far
  verdict    \* "header", "reading", "accepted" or "refused"

formatVars == <<wrote, fate, raw, cursor, owed, taken, verdict>>

\* The bytes of a whole journal, and what each fate makes of them: another
\* stamp, one symbol of the file altered, the tail lost, bytes after the end;
\* and any of these, or bytes of another's making, with the sum made to fit:
\* it is no proof of who wrote them.
Altered(s) == {[s EXCEPT ![j] = v] : j \in DOMAIN s, v \in Symbol} \ {s}

Tails(s) == {SubSeq(s, 1, n) : n \in 0 .. Len(s) - 1}

Grown(s) == {Append(s, v) : v \in Symbol}

Fates(set, f) ==
  LET body == Body(set) IN
  CASE f = "whole" -> {Sealed(body)}
    [] f = "legacy" -> {Sealed([body EXCEPT ![1] = OldStamp])}
    [] f = "flipped" -> Altered(Sealed(body))
    [] f = "cut" -> Tails(Sealed(body))
    [] f = "grown" -> Grown(Sealed(body))
    [] f = "forged" ->
         {Sealed(s) : s \in Altered(body) \cup Tails(body) \cup Grown(body)
                              \cup (IF set = <<>> THEN Crafted ELSE {})}

FormatInit ==
  /\ wrote \in {set \in Journals : Encodable(set)}
  /\ fate \in Rot
  /\ raw \in Fates(wrote, fate)
  /\ cursor = 0
  /\ owed = 0
  /\ taken = <<>>
  /\ verdict = "header"

BodyOf(s) == SubSeq(s, 1, Len(s) - 1)

Stamped(s) == Len(s) >= 3 /\ s[1] \in {Stamp, OldStamp}

\* The header, the sum, and a count the rest of the body could hold: each op
\* costs at least its tag, and the count sizes an allocation.
HeaderHolds ==
  /\ Stamped(raw)
  /\ Fnv(BodyOf(raw)) = raw[Len(raw)]
  /\ raw[2] <= Len(raw) - 3

ReadHeader ==
  /\ verdict = "header"
  /\ HeaderHolds
  /\ cursor' = 2
  /\ owed' = raw[2]
  /\ verdict' = "reading"
  /\ UNCHANGED <<wrote, fate, raw, taken>>

RefuseHeader ==
  /\ verdict = "header"
  /\ ~HeaderHolds
  /\ verdict' = "refused"
  /\ UNCHANGED <<wrote, fate, raw, cursor, owed, taken>>

ReadOp ==
  /\ verdict = "reading"
  /\ owed > 0
  /\ LET op == TakeOp(BodyOf(raw), cursor) IN
       /\ op # Bad
       /\ cursor' = op.at
       /\ taken' = Append(taken, op.got)
  /\ owed' = owed - 1
  /\ UNCHANGED <<wrote, fate, raw, verdict>>

RefuseOp ==
  /\ verdict = "reading"
  /\ owed > 0
  /\ TakeOp(BodyOf(raw), cursor) = Bad
  /\ verdict' = "refused"
  /\ UNCHANGED <<wrote, fate, raw, cursor, owed, taken>>

Ends == cursor = Len(BodyOf(raw))

Finish ==
  /\ verdict = "reading"
  /\ owed = 0
  /\ verdict' = IF Ends THEN "accepted" ELSE "refused"
  /\ UNCHANGED <<wrote, fate, raw, cursor, owed, taken>>

FormatNext == ReadHeader \/ RefuseHeader \/ ReadOp \/ RefuseOp \/ Finish

FormatSpec == FormatInit /\ [][FormatNext]_formatVars

-----------------------------------------------------------------------------

\* A journal that is still what encode wrote, under either stamp, is read back
\* as the set it was written for.
RoundTrip ==
  fate \in {"whole", "legacy"} =>
    /\ verdict # "refused"
    /\ verdict = "accepted" => taken = wrote

\* Bytes that are accepted are the bytes encode writes for the ops they are
\* read as: no length past the end, no other reading of the same set, nothing
\* left over, whoever wrote the bytes and made the sum fit.
OneReading ==
  verdict = "accepted" =>
    /\ Encodable(taken)
    /\ raw = Sealed([Body(taken) EXCEPT ![1] = raw[1]])

\* One altered symbol, wherever in the file it is, is always found out.
RotIsFound == fate = "flipped" => verdict # "accepted"

=============================================================================
