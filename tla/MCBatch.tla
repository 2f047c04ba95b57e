------------------------------- MODULE MCBatch -------------------------------
(***************************************************************************)
(* A store of payloads two directories down, a record in a directory and a *)
(* head in the root.                                                       *)
(***************************************************************************)
EXTENDS OrderedBatch, TLC

CONSTANTS outer, inner, blob, record, head, c1, c2, c3

MCFiles == {blob, record, head}
MCFolders == {outer, inner}
MCDirs == (blob :> inner) @@ (record :> outer) @@ (head :> Root)
          @@ (inner :> outer) @@ (outer :> Root)
MCChain == (Root :> {}) @@ (outer :> {outer}) @@ (inner :> {outer, inner})

\* A payload created ahead of the head; the same written, with barriers at the
\* ends and twice over; a record and the head in one tier.
Create == <<CreateNew(blob, c1), Barrier, Write(head, c1)>>
Rewrite == <<Barrier, Write(blob, c2), Barrier, Barrier, Write(head, c2), Barrier>>
Advance == <<Write(record, c3), Write(head, c3)>>

MCBatches == {Create, Rewrite, Advance}
MCPayloads == {c1, c2, c3}
MCPool == 1 .. 6
MCDirOf(p) == MCDirs[p]
MCDevice(o) == "tree"

=============================================================================
