--------------------------- MODULE FragmentStore ---------------------------
(***************************************************************************)
(* What class FragmentStorage does with one file and with the table        *)
(* Fragments beside it (fragment_storage.cpp): f is the file, a sequence   *)
(* of whatever unit the user of this module counts in, and r the table, a  *)
(* function from the column pos to the columns storedPos and size.         *)
(***************************************************************************)
EXTENDS Integers, Sequences, FiniteSetsExt, SequencesExt, TLC

Zeros(n) == [i \in 1 .. n |-> 0]

\* The file up to pos; resize_file fills a gap before pos.
UpTo(f, pos) == IF pos > Len(f) THEN f \o Zeros(pos - Len(f)) ELSE SubSeq(f, 1, pos)

\* What lies behind pos moves behind the data.
Write(f, pos, data) == UpTo(f, pos) \o data \o SubSeq(f, pos + 1, Len(f))

RemoveBytes(f, pos, size) == UpTo(f, pos) \o SubSeq(f, pos + size + 1, Len(f))

\* Mutant: a segment behind all others goes to the front.
PosToWriteFront(f, r, pos) ==
  LET after == {q \in DOMAIN r : q > pos}
  IN IF after = {} THEN 0 ELSE r[Min(after)].storedPos

PosToWrite(f, r, pos) ==
  LET before == {q \in DOMAIN r : q < pos}
      after == {q \in DOMAIN r : q > pos}
  IN CASE before = {} -> 0
       [] before # {} /\ after = {} -> Len(f)
       [] OTHER -> r[Min(after)].storedPos

\* Each row behind pos is put behind its predecessor as that was before: the
\* recursion goes on with the row it read, and always with the new size.
MoveRows(r, pos, storedPos, size) ==
  [q \in DOMAIN r |->
     IF q <= pos THEN r[q]
     ELSE LET prev == Max({p \in DOMAIN r : p < q})
          IN [r[q] EXCEPT !.storedPos =
                (IF prev <= pos THEN storedPos ELSE r[prev].storedPos) + size]]

\* INSERT OR IGNORE, which leaves a row at pos alone, and the rows behind.
InsertRow(r, pos, storedPos, size) ==
  LET row == [storedPos |-> storedPos, size |-> size]
      inserted == [q \in DOMAIN r \cup {pos} |-> IF q \in DOMAIN r THEN r[q] ELSE row]
  IN MoveRows(inserted, pos, storedPos, size)

\* A set of numbers, the least first.
Ascending(S) ==
  [i \in 1 .. Cardinality(S) |->
     CHOOSE q \in S : Cardinality({p \in S : p < q}) = i - 1]

-----------------------------------------------------------------------------
(* editFragment with ActionType replace *)

\* Rows that data at pos overlaps, in the order of the select.
Overlapped(r, pos, data) ==
  Ascending({q \in DOMAIN r : q + r[q].size > pos /\ q < pos + Len(data)})

\* Mutant: the first row is overwritten from its beginning.
PatchFromRow(r, q, pos, data) ==
  LET end == pos + Len(data)
      qend == q + r[q].size
  IN [at |-> r[q].storedPos,
      data |-> SubSeq(data, Max({q - pos, 0}) + 1, Min({Len(data), qend - pos}))]

\* What goes where for the row at q: the place in the file and the part of data.
Patch(r, q, pos, data) ==
  LET end == pos + Len(data)
      qend == q + r[q].size
  IN CASE q > pos /\ qend < end -> [at |-> r[q].storedPos, data |-> SubSeq(data, q - pos + 1, qend - pos)]
       [] q > pos /\ qend > end -> [at |-> r[q].storedPos, data |-> SubSeq(data, q - pos + 1, Len(data))]
       [] OTHER -> [at |-> pos - (q - r[q].storedPos),
                    data |-> SubSeq(data, 1, Min({Len(data), qend - pos}))]

\* applyChanges: ok is FALSE when a place is below zero.  Unsigned, it is then
\* far behind any file, resize_file throws, and nobody catches.
ApplyChanges(f, r, pos, data) ==
  LET over == Overlapped(r, pos, data)
      done[i \in 0 .. Len(over)] ==
        IF i = 0 THEN [file |-> f, ok |-> TRUE]
        ELSE LET p == Patch(r, over[i], pos, data)
             IN CASE ~ done[i - 1].ok -> done[i - 1]
                  [] done[i - 1].ok /\ p.at < 0 -> [done[i - 1] EXCEPT !.ok = FALSE]
                  [] OTHER -> [done[i - 1] EXCEPT !.file =
                                 Write(RemoveBytes(@, p.at, Len(p.data)), p.at, p.data)]
  IN done[Len(over)]

-----------------------------------------------------------------------------
(* Reading *)

Extract(f, pos, size) == SubSeq(f, pos + 1, pos + size)

\* getFragment reads at pos, not at storedPos.
GetFragment(f, r, pos) == Extract(f, pos, r[pos].size)
=============================================================================
