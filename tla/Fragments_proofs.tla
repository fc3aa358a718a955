-------------------------- MODULE Fragments_proofs --------------------------
(***************************************************************************)
(* What the node reports of a download is right, for any peers, any sizes  *)
(* and any number of repeats, losses and restarts.  The argument only      *)
(* needs the order of three things: the size is looked at before a write,  *)
(* the hash after it, and signals are handled once and in order.           *)
(*                                                                         *)
(* A download from one peer that nothing disturbs goes from the beginning  *)
(* of the file to its end.  That depends on where segments are put, hence  *)
(* on their offsets and on the rows of those before.                       *)
(*                                                                         *)
(* What edits make of the file, the table and the chain are again a file,  *)
(* a table and a chain that is numbered; of any file its sections are the  *)
(* file; and a table in order is a list of places e[0] < ... < e[n], from  *)
(* which follow what reading, replacing and appending do.  What exports    *)
(* keep is kept by each copy that is added.                                *)
(***************************************************************************)
EXTENDS Fragments, Storage, FiniteSetTheorems, SequenceTheorems, WellFoundedInduction, TLAPS

Pending(s, signal) == \E i \in DOMAIN s : s[i] = signal

\* A second request would remove a file nobody has judged.
OneRequest ==
  \A i, j \in DOMAIN signals :
    signals[i] = "requestFile" /\ signals[j] = "requestFile" => i = j

\* The inductive invariant.
ReportInv ==
  /\ signals \in Seq(Signals)
  /\ ReportedIsRight
  /\ RequestStillDue
  /\ OneRequest

-----------------------------------------------------------------------------
(* Lemmas *)

\* The right file is full.
LEMMA ContentFull == Full(Content)
<1>1. Content \in Seq(Nat)
  BY FragmentAssumption DEF Content
<1>2. Len(Content) = FileSections
  BY FragmentAssumption DEF Content
<1> QED
  BY <1>1, <1>2, FragmentAssumption DEF Full

\* The verdict on a file is one signal at most, and the right one.
LEMMA VerdictRight ==
  ASSUME NEW f
  PROVE  \/ Verdict(f) = <<>>
         \/ Verdict(f) = <<"downloaded">> /\ f = Content
         \/ Verdict(f) = <<"requestFile">> /\ Full(f) /\ f # Content
  BY DEF Verdict

\* What is pending after a signal is appended, or the first one is taken.
LEMMA PendingAppend ==
  ASSUME NEW s \in Seq(Signals), NEW new \in Signals, NEW signal
  PROVE  /\ s \o <<new>> \in Seq(Signals)
         /\ Append(s, new) = s \o <<new>>
         /\ Pending(s \o <<new>>, signal) => Pending(s, signal) \/ signal = new
  BY DEF Pending

LEMMA PendingTail ==
  ASSUME NEW s \in Seq(Signals), s # <<>>, NEW signal
  PROVE  /\ Tail(s) \in Seq(Signals)
         /\ Head(s) \in Signals
         /\ Pending(s, Head(s))
         /\ Pending(Tail(s), signal) => Pending(s, signal)
         /\ \A i \in DOMAIN Tail(s) : i + 1 \in DOMAIN s /\ Tail(s)[i] = s[i + 1]
         /\ 1 \in DOMAIN s /\ Head(s) = s[1]
  BY DEF Pending

-----------------------------------------------------------------------------
(* The steps *)

\* A segment keeps the invariant: nothing is pending against a file that is
\* still being written, and a full one is left alone.
LEMMA SegmentKeeps ==
  ASSUME ReportInv, NEW msg, AddSegment(msg), announced' = announced
  PROVE  ReportInv'
<1> USE DEF Pending
<1>1. CASE file = NoFile \/ completed
  BY <1>1 DEF AddSegment, disk, ReportInv, ReportedIsRight, RequestStillDue, OneRequest, Full
<1>2. CASE ~(file = NoFile \/ completed) /\ Full(file)
  <2>1. signals' = signals \o <<"compliteFile">> /\ file' = file
    BY <1>2, PendingAppend DEF AddSegment, disk, ReportInv, Signals
  <2>2. signals' \in Seq(Signals)
    BY <2>1, PendingAppend DEF ReportInv, Signals
  <2>3. \A i \in DOMAIN signals' :
          signals'[i] # "compliteFile" => i \in DOMAIN signals /\ signals[i] = signals'[i]
    BY <2>1 DEF ReportInv
  <2> QED
    BY <1>2, <2>1, <2>2, <2>3
    DEF AddSegment, ReportInv, ReportedIsRight, RequestStillDue, OneRequest, Full
<1>3. CASE ~(file = NoFile \/ completed) /\ ~Full(file)
  <2>1. file # Content
    BY <1>3, ContentFull
  <2>2. ~announced /\ \A i \in DOMAIN signals : signals[i] \notin {"downloaded", "requestFile"}
    BY <1>3, <2>1 DEF ReportInv, ReportedIsRight, RequestStillDue
  <2>3. signals' = signals \o Verdict(file')
    BY <1>3 DEF AddSegment, Insert
  <2>4. CASE Verdict(file') = <<>>
    <3>1. signals' = signals
      BY <2>3, <2>4 DEF ReportInv
    <3> QED
      BY <2>2, <3>1 DEF ReportInv, ReportedIsRight, RequestStillDue, OneRequest
  <2>5. CASE Verdict(file') # <<>>
    <3>1. PICK new \in Signals : /\ Verdict(file') = <<new>>
                                 /\ \/ new = "downloaded" /\ file' = Content
                                    \/ new = "requestFile" /\ Full(file') /\ file' # Content
      BY <2>5, VerdictRight DEF Signals
    <3>2. signals' \in Seq(Signals)
      BY <2>3, <3>1, PendingAppend DEF ReportInv
    <3>3. \A i \in DOMAIN signals' :
            signals'[i] \in {"downloaded", "requestFile"} =>
              i = Len(signals) + 1 /\ signals'[i] = new
      BY <2>2, <2>3, <3>1 DEF ReportInv
    <3> QED
      BY <2>2, <3>1, <3>2, <3>3
      DEF ReportInv, ReportedIsRight, RequestStillDue, OneRequest, Full, AddSegment
  <2> QED
    BY <2>4, <2>5
<1> QED
  BY <1>1, <1>2, <1>3

\* A handled signal keeps the invariant: a request is the only one of its kind
\* and removes a file that was reported nowhere.
LEMMA SignalKeeps ==
  ASSUME ReportInv, HandleSignal
  PROVE  ReportInv'
<1>1. /\ signals \in Seq(Signals) /\ signals # <<>> /\ signals' = Tail(signals)
      /\ signals' \in Seq(Signals)
      /\ 1 \in DOMAIN signals /\ Head(signals) = signals[1]
      /\ \A i \in DOMAIN signals' : i + 1 \in DOMAIN signals /\ signals'[i] = signals[i + 1]
      /\ \A i \in DOMAIN signals' : i \in Nat \ {0}
  BY PendingTail DEF HandleSignal, ReportInv
<1>2. OneRequest'
  BY <1>1 DEF ReportInv, OneRequest
<1>3. CASE Head(signals) = "requestFile"
  <2>1. file # Content
    BY <1>1, <1>3 DEF ReportInv, RequestStillDue
  <2>2. ~announced' /\ \A i \in DOMAIN signals' : signals'[i] # "downloaded"
    BY <1>1, <1>3, <2>1 DEF ReportInv, ReportedIsRight, HandleSignal, RequestFile
  <2>3. \A i \in DOMAIN signals' : signals'[i] # "requestFile"
    BY <1>1, <1>3 DEF ReportInv, OneRequest
  <2> QED
    BY <1>1, <1>2, <2>2, <2>3 DEF ReportInv, ReportedIsRight, RequestStillDue
<1>4. CASE Head(signals) # "requestFile"
  <2>1. file' = file
    BY <1>4 DEF HandleSignal, Downloaded, CompliteFile
  <2>2. announced' => announced \/ Head(signals) = "downloaded"
    BY <1>4 DEF HandleSignal, Downloaded, CompliteFile
  <2>3. ReportedIsRight'
    BY <1>1, <2>1, <2>2 DEF ReportInv, ReportedIsRight, Content
  <2>4. RequestStillDue'
    BY <1>1, <2>1 DEF ReportInv, RequestStillDue, Full, Content
  <2> QED
    BY <1>1, <1>2, <2>3, <2>4 DEF ReportInv
<1> QED
  BY <1>3, <1>4

\* A kill while a segment is written happens to a file that is not full, so
\* nothing was reported; and what was pending goes with the process.
LEMMA KillKeeps ==
  ASSUME ReportInv, NEW h \in Holders, KillInInsert(h)
  PROVE  ReportInv'
<1>1. ~announced
  BY ContentFull DEF KillInInsert, ReportInv, ReportedIsRight
<1>2. signals' = <<>> /\ announced' = announced
  BY DEF KillInInsert, MemoryLost
<1> QED
  BY <1>1, <1>2 DEF ReportInv, ReportedIsRight, RequestStillDue, OneRequest

\* A step that leaves the file, the signals and the report alone.
LEMMA UnchangedKeeps ==
  ASSUME ReportInv, UNCHANGED <<file, signals, announced>>
  PROVE  ReportInv'
  BY DEF ReportInv, ReportedIsRight, RequestStillDue, OneRequest, Full, Content

\* Nothing is reported at first.
LEMMA InitReport == Init => ReportInv
  BY DEF Init, ReportInv, ReportedIsRight, RequestStillDue, OneRequest

\* Every step keeps the invariant.
LEMMA NextReport == ReportInv /\ [Next]_vars => ReportInv'
<1> SUFFICES ASSUME ReportInv, [Next]_vars
             PROVE  ReportInv'
  OBVIOUS
<1>1. ASSUME NEW h \in Holders, Deliver(h)
      PROVE  ReportInv'
  <2>1. CASE Head(inbox[h]).type = "addFile"
    <3>1. CASE file = NoFile
      <4>1. file # Content /\ ~Full(file)
        BY <3>1, ContentFull DEF Full
      <4>2. signals' = signals /\ announced' = announced
        BY <1>1, <2>1, <3>1 DEF Deliver, AddFile, memory
      <4> QED
        BY <4>1, <4>2 DEF ReportInv, ReportedIsRight, RequestStillDue, OneRequest
    <3>2. CASE file # NoFile
      BY <1>1, <2>1, <3>2, UnchangedKeeps DEF Deliver, AddFile, memory, disk
    <3> QED
      BY <3>1, <3>2
  <2>2. CASE Head(inbox[h]).type # "addFile"
    BY <1>1, <2>2, SegmentKeeps DEF Deliver
  <2> QED
    BY <2>1, <2>2
<1>2. ASSUME NEW h \in Holders, Serve(h) \/ ServeOther(h) \/ Lose(h)
      PROVE  ReportInv'
  BY <1>2, UnchangedKeeps DEF Serve, ServeOther, Lose, disk, memory
<1>3. CASE HandleSignal
  BY <1>3, SignalKeeps
<1>4. ASSUME NEW h \in Holders, KillInInsert(h)
      PROVE  ReportInv'
  BY <1>4, KillKeeps
<1>5. CASE Restart
  BY <1>5
  DEF Restart, MemoryLost, disk, ReportInv, ReportedIsRight, RequestStillDue, OneRequest, Content
<1>6. CASE UNCHANGED vars
  BY <1>6, UnchangedKeeps DEF vars, disk, memory
<1> QED
  BY <1>1, <1>2, <1>3, <1>4, <1>5, <1>6 DEF Next

\* The inductive invariant of the download.
THEOREM ReportInvariant == Spec => []ReportInv
  BY InitReport, NextReport, PTL DEF Spec

\* A file reported as downloaded is on the disk and right from then on
\* (FragmentWriter::run), for all sizes, peers, repeats, losses and restarts.
THEOREM ReportsAreRight == Spec => []ReportedIsRight
<1>1. ReportInv => ReportedIsRight
  BY DEF ReportInv
<1> QED
  BY <1>1, ReportInvariant, PTL

\* requestFile removes the file its signal was sent for, never a later one.
THEOREM RequestsAreDue == Spec => []RequestStillDue
<1>1. ReportInv => RequestStillDue
  BY DEF ReportInv
<1> QED
  BY <1>1, ReportInvariant, PTL

\* A full file is never written to, and a right one never removed.
THEOREM FullFileStays == Spec => FullFileKept
<1> DEFINE Kept == Full(file) => file' = file \/ (file # Content /\ file' = NoFile)
<1>1. ReportInv /\ [Next]_vars => [Kept]_file
  <2> SUFFICES ASSUME ReportInv, [Next]_vars, Full(file)
               PROVE  file' = file \/ (file # Content /\ file' = NoFile)
    OBVIOUS
  <2>1. ASSUME NEW h \in Holders, Deliver(h)
        PROVE  file' = file
    BY <2>1 DEF Deliver, AddFile, AddSegment, disk, Full
  <2>2. ASSUME NEW h \in Holders, Serve(h) \/ ServeOther(h) \/ Lose(h)
        PROVE  file' = file
    BY <2>2 DEF Serve, ServeOther, Lose, disk
  <2>3. CASE HandleSignal
    <3>1. CASE Head(signals) = "requestFile"
      <4>1. 1 \in DOMAIN signals /\ signals[1] = "requestFile"
        BY <2>3, <3>1, PendingTail DEF HandleSignal, ReportInv
      <4> QED
        BY <2>3, <3>1, <4>1 DEF HandleSignal, RequestFile, ReportInv, RequestStillDue
    <3>2. CASE Head(signals) # "requestFile"
      BY <2>3, <3>2 DEF HandleSignal, Downloaded, CompliteFile
    <3> QED
      BY <3>1, <3>2
  <2>4. ASSUME NEW h \in Holders
        PROVE  ~KillInInsert(h)
    BY DEF KillInInsert
  <2>5. CASE Restart
    BY <2>5 DEF Restart, disk
  <2>6. CASE UNCHANGED vars
    BY <2>6 DEF vars, disk
  <2> QED
    BY <2>1, <2>2, <2>3, <2>4, <2>5, <2>6 DEF Next
<1> QED
  BY <1>1, ReportInvariant, PTL DEF Spec, FullFileKept

-----------------------------------------------------------------------------
(* An undisturbed download *)

\* The file is not one section longer than a segment.  If it is, its two segments
\* have one offset, and the second is written in front of the first.
NoneInFront == FileSections # ChunkSections + 1

SegmentCount == (FileSections + ChunkSections - 1) \div ChunkSections

\* How long the file is after k segments.
LengthAfter(k) == IF k < SegmentCount THEN k * ChunkSections ELSE FileSections

Beginning(len) == [i \in 1 .. len |-> i]

\* Where the row before ends.
BehindRowBefore(r, pos) ==
  LET before == {q \in DOMAIN r : q < pos}
  IN IF before = {} THEN 0 ELSE r[Max(before)].storedPos + r[Max(before)].size

\* Every row names bytes of a file of this length that follow the row before.
RowsFollow(r, len) ==
  /\ DOMAIN r \subseteq 0 .. FileSections
  /\ \A pos \in DOMAIN r :
       /\ r[pos].storedPos \in Nat /\ r[pos].size \in Nat
       /\ r[pos].storedPos + r[pos].size <= len
       /\ r[pos].storedPos = BehindRowBefore(r, pos)

IsRowMap(r) == r = [q \in DOMAIN r |-> r[q]]

\* As long as segments are missing the offset of the last one that came is where
\* the file ends.
RowsEnd(r, k) ==
  LET len == k * ChunkSections
  IN /\ DOMAIN r \subseteq 0 .. len
     /\ k = 0 => DOMAIN r = {}
     /\ k > 0 => /\ ChunkSections \in DOMAIN r /\ len \in DOMAIN r
                 /\ r[len].storedPos + r[len].size = len

\* Before the file is heard of, before it is asked for, and after k segments of it.
Announced(h) == file = NoFile /\ rows = <<>> /\ inbox[h] = <<AddFileMessage>> /\ asked[h] = <<>>

Wanted(h) == file = <<>> /\ rows = <<>> /\ inbox[h] = <<>> /\ asked[h] = <<"segments">>

Arriving(h, k) ==
  /\ file = Beginning(LengthAfter(k))
  /\ RowsFollow(rows, LengthAfter(k))
  /\ k < SegmentCount => RowsEnd(rows, k)
  /\ IsRowMap(rows)
  /\ inbox[h] = SubSeq(Segments(FileSections), k + 1, SegmentCount)
  /\ asked[h] = <<>>

OnlyFrom(h) ==
  /\ held[h] = FileSections
  /\ ~completed /\ signals \in Seq({"downloaded"})
  /\ \A g \in Holders \ {h} :
       held[g] = 0 /\ inbox[g] = <<>> /\ asked[g] \in Seq({"segments"})
  /\ Announced(h) \/ Wanted(h) \/ \E k \in 0 .. SegmentCount : Arriving(h, k)

Functions ==
  /\ inbox = [h \in Holders |-> inbox[h]] /\ asked = [h \in Holders |-> asked[h]]
  /\ {extra, losses, restarts} \subseteq Nat

OrderInv == Functions /\ (Undisturbed => \E h \in Holders : OnlyFrom(h))

-----------------------------------------------------------------------------
(* Segments *)

\* How many segments the file has.
LEMMA CountFacts ==
  /\ SegmentCount \in Nat \ {0}
  /\ (SegmentCount - 1) * ChunkSections < FileSections
  /\ FileSections <= SegmentCount * ChunkSections
  /\ \A k \in Nat : k * ChunkSections \in Nat /\ (k + 1) * ChunkSections = k * ChunkSections + ChunkSections
  /\ \A k \in Nat : k < SegmentCount => k * ChunkSections < FileSections
<1> DEFINE C == ChunkSections
           F == FileSections
<1>1. C \in Nat \ {0} /\ F \in Nat \ {0}
  BY FragmentAssumption
<1>2. SegmentCount = (F + C - 1) \div C
  BY DEF SegmentCount
<1>3. \A k \in Nat : k * C \in Nat /\ (k + 1) * C = k * C + C
  BY <1>1
<1>4. ASSUME NEW a \in Nat
      PROVE  /\ a \div C \in Nat
             /\ (a \div C) * C <= a /\ a < (a \div C) * C + C
  BY <1>1
<1>5. SegmentCount \in Nat /\ SegmentCount * C <= F + C - 1 /\ F + C - 1 < SegmentCount * C + C
  <2>1. F + C - 1 \in Nat
    BY <1>1
  <2> HIDE DEF C, F
  <2> QED
    BY <1>2, <1>4, <2>1
<1>6. SegmentCount # 0
  <2>1. SegmentCount = 0 => SegmentCount * C = 0
    BY <1>1
  <2> QED
    BY <1>1, <1>5, <2>1
<1>7. (SegmentCount - 1) * C = SegmentCount * C - C /\ SegmentCount * C \in Nat
  <2>1. SegmentCount - 1 \in Nat /\ (SegmentCount - 1) + 1 = SegmentCount
    BY <1>5, <1>6
  <2>2. ((SegmentCount - 1) + 1) * C = (SegmentCount - 1) * C + C
    BY <1>3, <2>1
  <2>3. (SegmentCount - 1) * C \in Nat
    BY <1>3, <2>1
  <2> QED
    BY <1>1, <2>1, <2>2, <2>3
<1>8. (SegmentCount - 1) * C < F /\ F <= SegmentCount * C
  <2> HIDE DEF C, F
  <2> QED
    BY <1>1, <1>5, <1>7
<1>9. ASSUME NEW k \in Nat, k < SegmentCount
      PROVE  k * C < F
  <2>1. k <= SegmentCount - 1 /\ SegmentCount - 1 \in Nat
    BY <1>5, <1>6, <1>9
  <2>2. k * C <= (SegmentCount - 1) * C
    BY <1>1, <2>1
  <2> QED
    BY <1>1, <1>3, <1>8, <2>1, <2>2
<1> QED
  BY <1>3, <1>5, <1>6, <1>8, <1>9

\* The segment that continues a file of k segments.
LEMMA NextSegment ==
  ASSUME NoneInFront, NEW k \in Nat, k < SegmentCount
  PROVE  LET msg == Segment(FileSections, k + 1)
             len == k * ChunkSections
             more == LengthAfter(k + 1)
         IN /\ msg.type = "segment"
            /\ len \in Nat /\ more \in Nat /\ len < more /\ more <= FileSections
            /\ msg.data = [i \in 1 .. more - len |-> len + i]
            /\ k + 1 < SegmentCount => msg.pos = more /\ more = len + ChunkSections
            /\ k + 1 = SegmentCount => msg.pos = FileSections - 1 /\ more = FileSections
            /\ msg.pos \in Nat /\ len <= msg.pos /\ msg.pos <= FileSections
            /\ k > 0 /\ msg.pos = len => k > 1
<1> DEFINE C == ChunkSections
           F == FileSections
           len == k * C
           msg == Segment(F, k + 1)
           more == LengthAfter(k + 1)
<1>1. /\ C \in Nat \ {0} /\ F \in Nat \ {0} /\ len \in Nat /\ len < F
      /\ (k + 1) * C = len + C /\ SegmentCount \in Nat \ {0} /\ F <= SegmentCount * C
  BY FragmentAssumption, CountFacts
<1>2. (k + 1) - 1 = k
  OBVIOUS
<1>3. msg = IF len + C < F
              THEN [type |-> "segment", pos |-> len + C, data |-> [i \in 1 .. C |-> len + i]]
              ELSE [type |-> "segment", pos |-> F - 1, data |-> [i \in 1 .. (F - len) |-> len + i]]
  BY <1>2 DEF Segment
<1>4. CASE k + 1 < SegmentCount
  <2>1. len + C < F /\ more = len + C
    BY <1>1, <1>4, CountFacts DEF LengthAfter
  <2>2. msg = [type |-> "segment", pos |-> len + C, data |-> [i \in 1 .. C |-> len + i]] /\ C = more - len
    BY <1>1, <1>3, <2>1
  <2> HIDE DEF C, F, len, msg, more
  <2>3. msg.type = "segment" /\ msg.pos = more /\ msg.data = [i \in 1 .. more - len |-> len + i]
    BY <2>1, <2>2
  <2> QED
    <3>1. len \in Nat /\ more \in Nat /\ len < more /\ more < F /\ len <= more /\ F \in Nat
      BY <1>1, <2>1
    <3>2. k > 0 /\ more = len => k > 1
      BY <1>1, <2>1
    <3> QED
      BY <1>4, <2>1, <2>3, <3>1, <3>2 DEF C, F, len, msg, more
<1>5. CASE k + 1 = SegmentCount
  <2>1. ~(len + C < F) /\ more = F
    BY <1>1, <1>5 DEF LengthAfter
  <2>2. msg = [type |-> "segment", pos |-> F - 1, data |-> [i \in 1 .. (F - len) |-> len + i]]
    BY <1>3, <2>1
  <2>3. k = 1 /\ F - 1 = len => FALSE
    <3>1. k = 1 => len = C
      BY <1>1
    <3> QED
      BY <1>1, <3>1 DEF NoneInFront
  <2> HIDE DEF C, F, len, msg, more
  <2>4. msg.type = "segment" /\ msg.pos = F - 1 /\ msg.data = [i \in 1 .. more - len |-> len + i]
    BY <2>1, <2>2
  <2> QED
    BY <1>1, <1>5, <2>1, <2>3, <2>4 DEF C, F, len, msg, more
<1> QED
  BY <1>1, <1>4, <1>5

\* The first sections of the file.
LEMMA BeginningFacts ==
  ASSUME NEW len \in Nat
  PROVE  /\ Beginning(len) \in Seq(Nat) /\ Len(Beginning(len)) = len /\ Beginning(len) # NoFile
         /\ \A i \in 1 .. len : Beginning(len)[i] = i
  BY FragmentAssumption DEF Beginning

\* Two sequences, one behind the other.
LEMMA ConcatFacts ==
  ASSUME NEW f \in Seq(Nat), NEW d \in Seq(Nat)
  PROVE  /\ f \o d \in Seq(Nat) /\ Len(f \o d) = Len(f) + Len(d)
         /\ \A i \in 1 .. Len(f) + Len(d) :
              (f \o d)[i] = IF i <= Len(f) THEN f[i] ELSE d[i - Len(f)]
  OBVIOUS

\* Sequences are the same when their members are.
LEMMA SameSequence ==
  ASSUME NEW M, NEW f \in Seq(M), NEW g \in Seq(M), Len(f) = Len(g),
         \A i \in 1 .. Len(f) : f[i] = g[i]
  PROVE  f = g
  OBVIOUS

\* Data put behind a beginning of the file makes a longer one.
LEMMA Joined ==
  ASSUME NEW len \in Nat, NEW more \in Nat, len < more, NEW data \in Seq(Nat),
         Len(data) = more - len, \A i \in 1 .. more - len : data[i] = len + i
  PROVE  Write(Beginning(len), len, data) = Beginning(more)
<1> DEFINE f == Beginning(len)
<1>1. f \in Seq(Nat) /\ Len(f) = len /\ \A i \in 1 .. len : f[i] = i
  BY BeginningFacts
<1> HIDE DEF f
<1>2. UpTo(f, len) = f
  <2>1. ~(len > Len(f)) /\ SubSeq(f, 1, len) = f
    BY <1>1
  <2> QED
    BY <2>1 DEF UpTo
<1>3. SubSeq(f, len + 1, Len(f)) = <<>>
  BY <1>1
<1>5. f \o data \in Seq(Nat) /\ Len(f \o data) = more
  <2>1. f \in Seq(Nat)
    BY <1>1
  <2>2. f \o data \in Seq(Nat) /\ Len(f \o data) = Len(f) + Len(data)
    BY <2>1, ConcatFacts
  <2> QED
    BY <1>1, <2>2
<1>6. ASSUME NEW i \in 1 .. more
      PROVE  (f \o data)[i] = i
  <2>1. i \in 1 .. Len(f) + Len(data)
    BY <1>1
  <2>2. (f \o data)[i] = IF i <= len THEN f[i] ELSE data[i - len]
    <3>1. \A j \in 1 .. Len(f) + Len(data) :
            (f \o data)[j] = IF j <= Len(f) THEN f[j] ELSE data[j - Len(f)]
      BY <1>1, ConcatFacts
    <3> QED
      BY <1>1, <2>1, <3>1
  <2>3. CASE i <= len
    BY <1>1, <2>2, <2>3
  <2>4. CASE ~(i <= len)
    <3>1. i - len \in 1 .. more - len /\ len + (i - len) = i
      BY <2>4
    <3>2. data[i - len] = len + (i - len)
      BY <3>1
    <3> QED
      BY <2>2, <2>4, <3>1, <3>2
  <2> QED
    BY <2>3, <2>4
<1>7. f \o data = Beginning(more)
  <2>1. Beginning(more) \in Seq(Nat) /\ Len(Beginning(more)) = more /\ \A i \in 1 .. more : Beginning(more)[i] = i
    BY BeginningFacts
  <2>2. \A i \in 1 .. Len(f \o data) : (f \o data)[i] = Beginning(more)[i]
    BY <1>5, <1>6, <2>1
  <2>3. Len(f \o data) = Len(Beginning(more))
    BY <1>5, <2>1
  <2> QED
    BY <1>5, <2>1, <2>2, <2>3, SameSequence
<1>8. Write(f, len, data) = f \o data
  <2>1. Write(f, len, data) = (f \o data) \o <<>>
    BY <1>2, <1>3 DEF Write
  <2>2. \A s \in Seq(Nat) : s \o <<>> = s
    OBVIOUS
  <2> QED
    BY <1>5, <2>1, <2>2
<1> QED
  BY <1>7, <1>8 DEF f

-----------------------------------------------------------------------------
(* Rows *)

\* The greatest member of a set.
LEMMA MaxIs ==
  ASSUME NEW S \in SUBSET Nat, NEW m \in S, \A x \in S : x <= m
  PROVE  Max(S) = m
<1>1. \A x \in S : x >= m => x = m
  OBVIOUS
<1>2. \A x \in S : m >= x
  OBVIOUS
<1>3. Max(S) \in S /\ \A y \in S : Max(S) >= y
  BY <1>2 DEF Max
<1> QED
  BY <1>1, <1>3

\* A set of naturals has a smallest member.
LEMMA SmallestNat ==
  ASSUME NEW S \in SUBSET Nat, S # {}
  PROVE  \E d \in S : \A e \in S : d <= e
<1> DEFINE R == {ss \in Nat \X Nat : ss[1] < ss[2]}
<1>1. IsWellFoundedOn(R, Nat)
  BY NatLessThanWellFounded, Zenon DEF OpToRel
<1>2. PICK m \in S : \A x \in S : ~(<<x, m>> \in R)
  <2> HIDE DEF R
  <2> QED
    BY <1>1, WFMin
<1>3. ASSUME NEW x \in S
      PROVE  m <= x
  <2>1. x < m => <<x, m>> \in R
    OBVIOUS
  <2> QED
    BY <1>2, <2>1
<1> QED
  BY <1>3

\* A bounded set of naturals has a greatest member.
LEMMA MaxIn ==
  ASSUME NEW S \in SUBSET Nat, S # {}, NEW b \in Nat, \A x \in S : x <= b
  PROVE  Max(S) \in S
<1> DEFINE T == {d \in Nat : b - d \in S}
<1>1. PICK x \in S : TRUE
  OBVIOUS
<1>2. b - x \in T
  BY <1>1
<1>3. PICK d \in T : \A e \in T : d <= e
  BY <1>2, SmallestNat
<1>4. b - d \in S /\ \A y \in S : y <= b - d
  <2>1. ASSUME NEW y \in S
        PROVE  y <= b - d
    <3>1. b - y \in T /\ y \in Nat
      OBVIOUS
    <3> HIDE DEF T
    <3>2. d <= b - y
      BY <1>3, <3>1
    <3>3. d \in Nat
      BY <1>3 DEF T
    <3> QED
      BY <3>1, <3>2, <3>3
  <2> QED
    BY <1>3, <2>1
<1> QED
  BY <1>4, MaxIs

\* The greatest offset.
LEMMA EndFacts ==
  ASSUME NEW k \in Nat, NEW r, RowsEnd(r, k), k > 0
  PROVE  Max(DOMAIN r) = k * ChunkSections
<1>1. k * ChunkSections \in Nat
  BY CountFacts
<1>2. DOMAIN r \in SUBSET Nat /\ k * ChunkSections \in DOMAIN r /\ \A x \in DOMAIN r : x <= k * ChunkSections
  BY <1>1 DEF RowsEnd
<1> QED
  BY <1>2, MaxIs

\* The next segment goes to the end of the file.
LEMMA GoesToEnd ==
  ASSUME NoneInFront, NEW k \in Nat, k < SegmentCount, NEW r, RowsEnd(r, k)
  PROVE  PosToWrite(Beginning(k * ChunkSections), r, Segment(FileSections, k + 1).pos) = k * ChunkSections
<1> DEFINE C == ChunkSections
           len == k * C
           p == Segment(FileSections, k + 1).pos
           before == {q \in DOMAIN r : q < p}
           after == {q \in DOMAIN r : q > p}
<1>1. len \in Nat /\ p \in Nat /\ len <= p /\ (k > 0 /\ p = len => k > 1)
  BY NextSegment
<1>2. C \in Nat \ {0}
  BY FragmentAssumption
<1>3. DOMAIN r \subseteq 0 .. len /\ (k = 0 => DOMAIN r = {}) /\ (k > 0 => C \in DOMAIN r)
  BY DEF RowsEnd
<1>4. k = 0 => len = 0
  BY <1>2
<1>5. k > 1 => C < len
  <2>1. ASSUME k > 1
        PROVE  C < len
    <3>1. k - 1 \in Nat /\ k - 2 \in Nat /\ (k - 1) + 1 = k /\ (k - 2) + 1 = k - 1
      BY <2>1
    <3>2. k * C = (k - 1) * C + C /\ (k - 1) * C = (k - 2) * C + C /\ (k - 2) * C \in Nat
      BY <3>1, CountFacts
    <3> HIDE DEF C
    <3> QED
      BY <1>2, <3>2
  <2> QED
    BY <2>1
<1>6. Len(Beginning(len)) = len
  BY <1>1, BeginningFacts
<1> HIDE DEF C, len, p
<1>7. after = {}
  BY <1>1, <1>3
<1>8. CASE k = 0
  <2>1. before = {}
    BY <1>3, <1>8
  <2> QED
    BY <1>4, <1>8, <2>1 DEF PosToWrite, p, len, C
<1>9. CASE k > 0
  <2>1. C < p
    BY <1>1, <1>2, <1>3, <1>5, <1>9
  <2>2. before # {}
    BY <1>3, <1>9, <2>1
  <2> QED
    BY <1>6, <1>7, <2>2 DEF PosToWrite, p, len, C
<1> QED
  BY <1>8, <1>9

\* Its row is new, or has the offset of the row before and is ignored.
WithRow(t, r, p, row) ==
  /\ p \in DOMAIN r => t = r
  /\ DOMAIN t = DOMAIN r \cup {p}
  /\ \A q \in DOMAIN r : t[q] = r[q]
  /\ p \notin DOMAIN r => t[p] = row
  /\ IsRowMap(t)

\* insertFragment at or behind all offsets moves no row.
LEMMA RowInserted ==
  ASSUME NEW r, NEW p \in Nat, DOMAIN r \subseteq 0 .. p, NEW at, NEW size, IsRowMap(r)
  PROVE  WithRow(InsertRow(r, p, at, size), r, p, [storedPos |-> at, size |-> size])
<1> DEFINE row == [storedPos |-> at, size |-> size]
           both == [q \in DOMAIN r \cup {p} |-> IF q \in DOMAIN r THEN r[q] ELSE row]
           t == InsertRow(r, p, at, size)
<1>1. /\ both = [q \in DOMAIN r \cup {p} |-> IF q \in DOMAIN r THEN r[q] ELSE row]
      /\ DOMAIN both = DOMAIN r \cup {p}
  OBVIOUS
<1>2. \A q \in DOMAIN both : q <= p
  BY <1>1
<1> HIDE DEF both
<1>3. t = [q \in DOMAIN both |-> both[q]]
  BY <1>2 DEF InsertRow, MoveRows, both
<1> HIDE DEF t, row
<1>4. DOMAIN t = DOMAIN r \cup {p} /\ (\A q \in DOMAIN r : t[q] = r[q]) /\ (p \notin DOMAIN r => t[p] = row)
  BY <1>1, <1>2, <1>3
<1>5. t = [q \in DOMAIN t |-> t[q]]
  BY <1>3
<1>6. p \in DOMAIN r => t = r
  BY <1>4, <1>5 DEF IsRowMap
<1> QED
  BY <1>4, <1>5, <1>6 DEF t, row, WithRow, IsRowMap

\* The rows that were there stand where they stood.
LEMMA StillBehind ==
  ASSUME NEW r, NEW p \in Nat, DOMAIN r \subseteq 0 .. p, NEW t, NEW row, WithRow(t, r, p, row),
         NEW pos \in DOMAIN r
  PROVE  BehindRowBefore(t, pos) = BehindRowBefore(r, pos)
<1> DEFINE before == {q \in DOMAIN r : q < pos}
<1>1. pos \in Nat /\ pos <= p /\ \A q \in DOMAIN r : q \in Nat /\ q <= p
  OBVIOUS
<1>2. DOMAIN t = DOMAIN r \cup {p} /\ \A q \in DOMAIN r : t[q] = r[q]
  BY DEF WithRow
<1>3. {q \in DOMAIN t : q < pos} = before
  BY <1>1, <1>2
<1>4. CASE before = {}
  BY <1>3, <1>4 DEF BehindRowBefore
<1>5. CASE before # {}
  <2>1. before \in SUBSET Nat /\ \A x \in before : x <= p
    BY <1>1
  <2>2. Max(before) \in before
    BY <1>5, <2>1, MaxIn
  <2>3. t[Max(before)] = r[Max(before)]
    BY <1>2, <2>2
  <2> QED
    BY <1>3, <1>5, <2>3 DEF BehindRowBefore
<1> QED
  BY <1>4, <1>5

\* The row of the next segment keeps the table in order.
LEMMA RowsGrow ==
  ASSUME NoneInFront, NEW k \in Nat, k < SegmentCount, NEW r, IsRowMap(r),
         RowsFollow(r, k * ChunkSections), RowsEnd(r, k)
  PROVE  LET len == k * ChunkSections
             more == LengthAfter(k + 1)
             t == InsertRow(r, Segment(FileSections, k + 1).pos, len, more - len)
         IN /\ RowsFollow(t, more)
            /\ k + 1 < SegmentCount => RowsEnd(t, k + 1)
            /\ IsRowMap(t)
<1> DEFINE C == ChunkSections
           len == k * C
           p == Segment(FileSections, k + 1).pos
           more == LengthAfter(k + 1)
           t == InsertRow(r, p, len, more - len)
           row == [storedPos |-> len, size |-> more - len]
<1>1. /\ len \in Nat /\ p \in Nat /\ len <= p /\ p <= FileSections
      /\ more \in Nat /\ len < more
      /\ (k + 1 < SegmentCount => p = more /\ more = len + C)
  BY NextSegment
<1>2. C \in Nat \ {0} /\ (k + 1) * C = len + C
  BY FragmentAssumption, CountFacts
<1>3. /\ DOMAIN r \subseteq 0 .. len /\ (k = 0 => DOMAIN r = {})
      /\ (k > 0 => C \in DOMAIN r /\ len \in DOMAIN r /\ r[len].storedPos + r[len].size = len)
  BY DEF RowsEnd
<1>4. k > 0 => Max(DOMAIN r) = len
  BY EndFacts
<1>5. k = 0 => len = 0
  BY <1>2
<1>6. /\ DOMAIN r \subseteq 0 .. FileSections
      /\ \A pos \in DOMAIN r :
           /\ r[pos].storedPos \in Nat /\ r[pos].size \in Nat
           /\ r[pos].storedPos + r[pos].size <= len
           /\ r[pos].storedPos = BehindRowBefore(r, pos)
  BY DEF RowsFollow
<1> HIDE DEF C, len, p, more
<1>7. DOMAIN r \subseteq 0 .. p
  BY <1>1, <1>3
<1>8. WithRow(t, r, p, row)
  BY <1>1, <1>7, RowInserted
<1>9. row.storedPos = len /\ row.size = more - len
  OBVIOUS
<1> HIDE DEF t, row
<1>10. /\ DOMAIN t = DOMAIN r \cup {p} /\ (\A q \in DOMAIN r : t[q] = r[q])
       /\ (p \notin DOMAIN r => t[p] = row) /\ IsRowMap(t)
  BY <1>8 DEF WithRow
<1>11. \A q \in DOMAIN r : q \in Nat /\ q <= p /\ (p \notin DOMAIN r => q < p)
  BY <1>1, <1>3
<1>12. DOMAIN t \subseteq 0 .. FileSections
  BY <1>1, <1>6, <1>10, FragmentAssumption
<1>13. ASSUME NEW pos \in DOMAIN r
       PROVE  /\ t[pos].storedPos \in Nat /\ t[pos].size \in Nat
              /\ t[pos].storedPos + t[pos].size <= more
              /\ t[pos].storedPos = BehindRowBefore(t, pos)
  <2>1. BehindRowBefore(t, pos) = BehindRowBefore(r, pos)
    BY <1>1, <1>7, <1>8, StillBehind
  <2>2. t[pos] = r[pos]
    BY <1>10
  <2> QED
    BY <1>1, <1>6, <2>1, <2>2
<1>14. ASSUME p \notin DOMAIN r
       PROVE  /\ t[p].storedPos \in Nat /\ t[p].size \in Nat
              /\ t[p].storedPos + t[p].size <= more
              /\ t[p].storedPos = BehindRowBefore(t, p)
  <2>1. t[p].storedPos = len /\ t[p].size = more - len
    BY <1>9, <1>10, <1>14
  <2>2. {q \in DOMAIN t : q < p} = DOMAIN r
    <3>1. ~(p < p)
      BY <1>1
    <3> QED
      BY <1>10, <1>11, <1>14, <3>1
  <2>3. BehindRowBefore(t, p) = len
    <3>1. CASE k = 0
      BY <1>3, <1>5, <2>2, <3>1 DEF BehindRowBefore
    <3>2. CASE k > 0
      <4>1. DOMAIN r # {} /\ t[Max(DOMAIN r)].storedPos + t[Max(DOMAIN r)].size = len
        BY <1>3, <1>4, <1>10, <3>2
      <4> QED
        BY <2>2, <4>1 DEF BehindRowBefore
    <3> QED
      BY <3>1, <3>2
  <2> QED
    BY <1>1, <2>1, <2>3
<1>15. RowsFollow(t, more)
  <2>1. ASSUME NEW pos \in DOMAIN t
        PROVE  /\ t[pos].storedPos \in Nat /\ t[pos].size \in Nat
               /\ t[pos].storedPos + t[pos].size <= more
               /\ t[pos].storedPos = BehindRowBefore(t, pos)
    <3>1. CASE pos \in DOMAIN r
      BY <1>13, <3>1
    <3>2. CASE pos \notin DOMAIN r
      <4>1. pos = p
        BY <1>10, <3>2
      <4> QED
        BY <1>14, <3>2, <4>1
    <3> QED
      BY <3>1, <3>2
  <2> QED
    BY <1>12, <2>1 DEF RowsFollow
<1>16. k + 1 < SegmentCount => RowsEnd(t, k + 1)
  <2>1. ASSUME k + 1 < SegmentCount
        PROVE  RowsEnd(t, k + 1)
    <3>1. p = more /\ more = len + C
      BY <1>1, <2>1
    <3>2. p \notin DOMAIN r /\ (k + 1) * C = more
      BY <1>1, <1>2, <1>3, <3>1
    <3>3. more \in DOMAIN t
      BY <1>10, <3>1
    <3>4. DOMAIN t \subseteq 0 .. more
      <4>1. 0 .. len \subseteq 0 .. more /\ more \in 0 .. more
        BY <1>1
      <4> QED
        BY <1>3, <1>10, <3>1, <4>1
    <3>5. C \in DOMAIN t
      <4>1. CASE k = 0
        BY <1>2, <1>5, <3>1, <3>3, <4>1
      <4>2. CASE k > 0
        BY <1>3, <1>10, <4>2
      <4> QED
        BY <4>1, <4>2
    <3>6. t[more].storedPos + t[more].size = more
      BY <1>1, <1>9, <1>10, <3>1, <3>2
    <3>7. t[more].storedPos + t[more].size = more /\ DOMAIN t \subseteq 0 .. (k + 1) * ChunkSections
          /\ ChunkSections \in DOMAIN t /\ (k + 1) * ChunkSections \in DOMAIN t /\ (k + 1) * ChunkSections = more
          /\ k + 1 > 0
      BY <3>2, <3>3, <3>4, <3>5, <3>6 DEF C
    <3> QED
      BY <3>7 DEF RowsEnd
  <2> QED
    BY <2>1
<1>17. IsRowMap(t)
  BY <1>10
<1> QED
  BY <1>15, <1>16, <1>17 DEF t, more, p, len, C
-----------------------------------------------------------------------------
(* The steps of an undisturbed download *)

\* What is left of a sequence when its first k members are taken.
LEMMA Remainder ==
  ASSUME NEW M, NEW s \in Seq(M), NEW k \in Nat, k < Len(s)
  PROVE  /\ SubSeq(s, k + 1, Len(s)) # <<>>
         /\ Head(SubSeq(s, k + 1, Len(s))) = s[k + 1]
         /\ Tail(SubSeq(s, k + 1, Len(s))) = SubSeq(s, k + 1 + 1, Len(s))
<1> DEFINE rest == SubSeq(s, k + 1, Len(s))
           after == SubSeq(s, k + 1 + 1, Len(s))
<1>1. rest \in Seq(M) /\ Len(rest) = Len(s) - k /\ \A i \in 1 .. Len(s) - k : rest[i] = s[k + i]
  OBVIOUS
<1>2. after \in Seq(M) /\ Len(after) = Len(s) - k - 1 /\ \A i \in 1 .. Len(s) - k - 1 : after[i] = s[k + 1 + i]
  OBVIOUS
<1> HIDE DEF rest, after
<1>3. rest # <<>> /\ Head(rest) = s[k + 1]
  BY <1>1
<1>4. Tail(rest) \in Seq(M) /\ Len(Tail(rest)) = Len(s) - k - 1
  BY <1>1, <1>3
<1>5. \A i \in 1 .. Len(s) - k - 1 : Tail(rest)[i] = after[i]
  <2>1. ASSUME NEW i \in 1 .. Len(s) - k - 1
        PROVE  Tail(rest)[i] = after[i]
    <3>1. Tail(rest)[i] = rest[i + 1]
      BY <1>1, <1>3
    <3>2. i + 1 \in 1 .. Len(s) - k /\ k + (i + 1) = k + 1 + i
      OBVIOUS
    <3> QED
      BY <1>1, <1>2, <3>1, <3>2
  <2> QED
    BY <2>1
<1>6. Tail(rest) = after
  <2>1. Len(Tail(rest)) = Len(after) /\ \A i \in 1 .. Len(Tail(rest)) : Tail(rest)[i] = after[i]
    BY <1>2, <1>4, <1>5
  <2> QED
    BY <1>2, <1>4, <2>1, SameSequence
<1> QED
  BY <1>3, <1>6 DEF rest, after

\* The segments in the order in which they are sent and taken.
LEMMA SegmentsFacts ==
  /\ Segments(0) = <<>>
  /\ Segments(FileSections) = SubSeq(Segments(FileSections), 1, SegmentCount)
  /\ SubSeq(Segments(FileSections), SegmentCount + 1, SegmentCount) = <<>>
  /\ \A k \in Nat : k < SegmentCount =>
       LET rest == SubSeq(Segments(FileSections), k + 1, SegmentCount)
       IN /\ rest # <<>> /\ Head(rest) = Segment(FileSections, k + 1)
          /\ Tail(rest) = SubSeq(Segments(FileSections), k + 1 + 1, SegmentCount)
<1> DEFINE M == {Segment(FileSections, k) : k \in 1 .. SegmentCount}
           s == Segments(FileSections)
<1>1. SegmentCount \in Nat
  BY CountFacts
<1>2. s = [k \in 1 .. SegmentCount |-> Segment(FileSections, k)]
  BY DEF Segments, SegmentCount
<1>3. s \in Seq(M) /\ Len(s) = SegmentCount /\ \A k \in 1 .. SegmentCount : s[k] = Segment(FileSections, k)
  <2>1. s \in [1 .. SegmentCount -> M]
    BY <1>2
  <2>2. \A N, f : f \in [1 .. SegmentCount -> N] => f \in Seq(N) /\ Len(f) = SegmentCount
    BY <1>1
  <2> HIDE DEF s, M
  <2> QED
    BY <1>2, <2>1, <2>2
<1>4. Segments(0) = <<>>
  <2>1. (0 + ChunkSections - 1) \div ChunkSections = 0
    BY FragmentAssumption
  <2>2. Segments(0) = [k \in 1 .. 0 |-> Segment(0, k)]
    BY <2>1 DEF Segments
  <2> QED
    BY <2>2
<1> HIDE DEF s, M
<1>5. s = SubSeq(s, 1, SegmentCount) /\ SubSeq(s, SegmentCount + 1, SegmentCount) = <<>>
  BY <1>1, <1>3
<1>6. ASSUME NEW k \in Nat, k < SegmentCount
      PROVE  LET rest == SubSeq(s, k + 1, SegmentCount)
             IN /\ rest # <<>> /\ Head(rest) = Segment(FileSections, k + 1)
                /\ Tail(rest) = SubSeq(s, k + 1 + 1, SegmentCount)
  <2>1. k + 1 \in 1 .. SegmentCount
    BY <1>1, <1>6
  <2>2. k < Len(s)
    BY <1>3, <1>6
  <2>3. /\ SubSeq(s, k + 1, Len(s)) # <<>> /\ Head(SubSeq(s, k + 1, Len(s))) = s[k + 1]
        /\ Tail(SubSeq(s, k + 1, Len(s))) = SubSeq(s, k + 1 + 1, Len(s))
    BY <1>3, <2>2, Remainder
  <2> QED
    BY <1>3, <2>1, <2>3
<1> QED
  BY <1>4, <1>5, <1>6 DEF s

\* The peer's first message makes the node ask.
LEMMA FileHeard ==
  ASSUME Functions, NEW h \in Holders, OnlyFrom(h), Announced(h), Deliver(h)
  PROVE  OnlyFrom(h)'
<1>1. Head(inbox[h]) = AddFileMessage /\ Tail(inbox[h]) = <<>>
  BY DEF Announced
<1>2. AddFile /\ inbox' = [inbox EXCEPT ![h] = Tail(@)]
  BY <1>1 DEF Deliver, AddFileMessage
<1>3. file = NoFile /\ rows = <<>>
  BY DEF Announced
<1>4. file' = <<>> /\ rows' = <<>> /\ UNCHANGED <<completed, signals>>
  BY <1>2, <1>3 DEF AddFile, memory
<1>5. asked' = [g \in Holders |-> Append(asked[g], "segments")]
  BY <1>2, <1>3 DEF AddFile, Broadcast
<1>6. asked'[h] = <<"segments">>
  <2>1. asked'[h] = Append(<<>>, "segments")
    BY <1>5 DEF Announced
  <2>2. Append(<<>>, "segments") = <<"segments">>
    OBVIOUS
  <2> QED
    BY <2>1, <2>2
<1>7. inbox'[h] = <<>> /\ \A g \in Holders \ {h} : inbox'[g] = inbox[g]
  BY <1>1, <1>2 DEF Functions
<1>8. Wanted(h)'
  BY <1>4, <1>6, <1>7 DEF Wanted
<1>9. ASSUME NEW g \in Holders \ {h}
      PROVE  asked'[g] \in Seq({"segments"})
  <2>1. asked[g] \in Seq({"segments"}) /\ asked'[g] = Append(asked[g], "segments")
    BY <1>5 DEF OnlyFrom
  <2> QED
    BY <2>1
<1>10. held' = held
  BY DEF Deliver
<1> QED
  BY <1>4, <1>7, <1>8, <1>9, <1>10 DEF OnlyFrom

\* A segment is put behind the ones before, and only the last one completes the
\* file, which then is right.
LEMMA SegmentComes ==
  ASSUME NoneInFront, Functions, NEW h \in Holders, OnlyFrom(h), Deliver(h),
         NEW k \in Nat, k < SegmentCount, Arriving(h, k)
  PROVE  OnlyFrom(h)'
<1> DEFINE len == k * ChunkSections
           more == LengthAfter(k + 1)
           msg == Segment(FileSections, k + 1)
<1>1. /\ msg.type = "segment" /\ len \in Nat /\ more \in Nat /\ len < more /\ more <= FileSections
      /\ msg.data = [i \in 1 .. more - len |-> len + i]
  BY NextSegment
<1>2. len < FileSections /\ LengthAfter(k) = len
  BY CountFacts DEF LengthAfter
<1>3. msg.data \in Seq(Nat) /\ Len(msg.data) = more - len /\ \A i \in 1 .. more - len : msg.data[i] = len + i
  <2>1. ASSUME NEW d, d = [i \in 1 .. more - len |-> len + i]
        PROVE  d \in Seq(Nat) /\ Len(d) = more - len /\ \A i \in 1 .. more - len : d[i] = len + i
    <3> HIDE DEF len, more
    <3>1. more - len \in Nat /\ \A i \in 1 .. more - len : len + i \in Nat
      BY <1>1
    <3> QED
      BY <2>1, <3>1
  <2> QED
    BY <1>1, <2>1
<1>4. file = Beginning(len) /\ RowsFollow(rows, len) /\ RowsEnd(rows, k) /\ IsRowMap(rows)
  BY <1>2 DEF Arriving
<1>5. Head(inbox[h]) = msg /\ Tail(inbox[h]) = SubSeq(Segments(FileSections), k + 1 + 1, SegmentCount)
  BY SegmentsFacts DEF Arriving
<1> HIDE DEF len, more, msg
<1>6. AddSegment(msg) /\ inbox' = [inbox EXCEPT ![h] = Tail(@)]
  BY <1>1, <1>5 DEF Deliver
<1>7. file # NoFile /\ ~completed /\ ~Full(file)
  BY <1>1, <1>2, <1>4, BeginningFacts DEF OnlyFrom, Full
<1>8. Insert(msg) /\ UNCHANGED <<completed, asked>>
  BY <1>6, <1>7 DEF AddSegment
<1>9. PosToWrite(file, rows, msg.pos) = len
  BY <1>4, GoesToEnd DEF len, msg
<1>10. file' = Beginning(more)
  <2>1. file' = Write(Beginning(len), len, msg.data)
    BY <1>4, <1>8, <1>9 DEF Insert
  <2> QED
    BY <1>1, <1>3, <2>1, Joined
<1>11. rows' = InsertRow(rows, msg.pos, len, more - len)
  BY <1>3, <1>8, <1>9 DEF Insert
<1>12. RowsFollow(rows', more) /\ IsRowMap(rows') /\ (k + 1 < SegmentCount => RowsEnd(rows', k + 1))
  BY <1>4, <1>11, RowsGrow DEF len, more, msg
<1>13. signals' \in Seq({"downloaded"})
  <2>1. signals' = signals \o Verdict(file') /\ signals \in Seq({"downloaded"})
    BY <1>8 DEF Insert, OnlyFrom
  <2>2. Full(file') => file' = Content
    <3>1. Len(file') = more
      BY <1>1, <1>10, BeginningFacts
    <3> QED
      BY <1>10, <3>1 DEF Full, Beginning, Content
  <2>3. Verdict(file') = <<>> \/ Verdict(file') = <<"downloaded">>
    BY <2>2, VerdictRight
  <2>4. <<>> \in Seq({"downloaded"}) /\ <<"downloaded">> \in Seq({"downloaded"})
    OBVIOUS
  <2>5. \A s, t : s \in Seq({"downloaded"}) /\ t \in Seq({"downloaded"}) => s \o t \in Seq({"downloaded"})
    OBVIOUS
  <2> QED
    BY <2>1, <2>3, <2>4, <2>5
<1>14. /\ inbox'[h] = SubSeq(Segments(FileSections), k + 1 + 1, SegmentCount)
       /\ \A g \in Holders \ {h} : inbox'[g] = inbox[g]
  BY <1>5, <1>6 DEF Functions
<1>15. k + 1 \in 0 .. SegmentCount
  BY CountFacts
<1>16. asked' = asked /\ completed' = completed /\ held' = held
  BY <1>8 DEF Deliver
<1>17. Arriving(h, k + 1)'
  BY <1>10, <1>12, <1>14, <1>16 DEF Arriving, more
<1> QED
  BY <1>13, <1>14, <1>15, <1>16, <1>17 DEF OnlyFrom

\* Whatever arrives is the announcement or the next segment.
LEMMA DeliverInOrder ==
  ASSUME NoneInFront, Functions, NEW h \in Holders, OnlyFrom(h), NEW g \in Holders, Deliver(g)
  PROVE  OnlyFrom(h)'
<1>1. inbox[g] # <<>>
  BY DEF Deliver
<1>2. g = h
  BY <1>1 DEF OnlyFrom
<1>3. CASE Announced(h)
  BY <1>2, <1>3, FileHeard
<1>4. CASE Wanted(h)
  BY <1>1, <1>2, <1>4 DEF Wanted
<1>5. ASSUME NEW k \in 0 .. SegmentCount, Arriving(h, k)
      PROVE  OnlyFrom(h)'
  <2>1. k \in Nat /\ k <= SegmentCount /\ SegmentCount \in Nat
    BY CountFacts
  <2>2. k # SegmentCount
    BY <1>1, <1>2, <1>5, SegmentsFacts DEF Arriving
  <2>3. k < SegmentCount
    BY <2>1, <2>2
  <2> QED
    BY <1>2, <1>5, <2>1, <2>3, SegmentComes
<1> QED
  BY <1>3, <1>4, <1>5 DEF OnlyFrom

\* The peer answers with the whole file, in order; one that has nothing sends
\* nothing.
LEMMA ServeInOrder ==
  ASSUME NoneInFront, Functions, NEW h \in Holders, OnlyFrom(h), NEW g \in Holders, Serve(g)
  PROVE  OnlyFrom(h)'
<1>1. /\ asked[g] # <<>> /\ asked' = [asked EXCEPT ![g] = Tail(@)]
      /\ UNCHANGED <<held, file, rows, completed, signals>>
  BY DEF Serve, disk, memory
<1>2. Head(asked[g]) = "segments" => inbox' = [inbox EXCEPT ![g] = @ \o Segments(held[g])]
  BY DEF Serve, Answer
<1>3. CASE g # h
  <2>1. asked[g] \in Seq({"segments"}) /\ inbox[g] = <<>> /\ held[g] = 0
    BY <1>3 DEF OnlyFrom
  <2>2. Head(asked[g]) = "segments" /\ Tail(asked[g]) \in Seq({"segments"})
    BY <1>1, <2>1
  <2>3. inbox[g] \o Segments(held[g]) = <<>>
    BY <2>1, SegmentsFacts
  <2>4. inbox' = [inbox EXCEPT ![g] = <<>>]
    BY <1>2, <2>2, <2>3
  <2>5. inbox' = inbox
    BY <2>1, <2>4 DEF Functions
  <2>6. asked'[h] = asked[h]
    BY <1>1, <1>3 DEF Functions
  <2>7. \A x \in Holders \ {h} : asked'[x] \in Seq({"segments"})
    BY <1>1, <2>2 DEF Functions, OnlyFrom
  <2>8. Announced(h) => Announced(h)'
    BY <1>1, <2>5, <2>6 DEF Announced
  <2>9. Wanted(h) => Wanted(h)'
    BY <1>1, <2>5, <2>6 DEF Wanted
  <2>10. \A k \in 0 .. SegmentCount : Arriving(h, k) => Arriving(h, k)'
    BY <1>1, <2>5, <2>6 DEF Arriving
  <2> QED
    BY <1>1, <2>5, <2>7, <2>8, <2>9, <2>10 DEF OnlyFrom
<1>4. CASE g = h
  <2>1. Wanted(h)
    BY <1>1, <1>4 DEF OnlyFrom, Announced, Arriving
  <2>2. Head(asked[h]) = "segments" /\ Tail(asked[h]) = <<>> /\ inbox[h] = <<>> /\ held[h] = FileSections
    BY <2>1 DEF Wanted, OnlyFrom
  <2>3. inbox[h] \o Segments(held[h]) = SubSeq(Segments(FileSections), 1, SegmentCount)
    BY <2>2, SegmentsFacts
  <2>4. inbox' = [inbox EXCEPT ![h] = SubSeq(Segments(FileSections), 1, SegmentCount)]
    BY <1>2, <1>4, <2>2, <2>3
  <2>5. /\ inbox'[h] = SubSeq(Segments(FileSections), 1, SegmentCount) /\ asked'[h] = <<>>
        /\ \A x \in Holders \ {h} : inbox'[x] = inbox[x] /\ asked'[x] = asked[x]
    BY <1>1, <1>4, <2>2, <2>4 DEF Functions
  <2>6. SegmentCount \in Nat \ {0} /\ LengthAfter(0) = 0 /\ 0 + 1 = 1
    BY CountFacts, FragmentAssumption DEF LengthAfter
  <2>7. file' = Beginning(0) /\ rows' = <<>>
    BY <1>1, <2>1 DEF Wanted, Beginning
  <2>8. DOMAIN <<>> = {}
    OBVIOUS
  <2>9. RowsFollow(rows', 0) /\ RowsEnd(rows', 0) /\ IsRowMap(rows')
    BY <2>7, <2>8 DEF RowsFollow, RowsEnd, IsRowMap
  <2>10. Arriving(h, 0)'
    BY <2>5, <2>6, <2>7, <2>9 DEF Arriving
  <2>11. 0 \in 0 .. SegmentCount
    BY <2>6
  <2> QED
    BY <1>1, <2>5, <2>10, <2>11 DEF OnlyFrom
<1> QED
  BY <1>3, <1>4

\* Nothing but the report of the download is ever queued.
LEMMA SignalInOrder ==
  ASSUME NEW h \in Holders, OnlyFrom(h), HandleSignal
  PROVE  OnlyFrom(h)'
<1>1. signals \in Seq({"downloaded"}) /\ signals # <<>> /\ signals' = Tail(signals)
  BY DEF HandleSignal, OnlyFrom
<1>2. Head(signals) = "downloaded" /\ signals' \in Seq({"downloaded"})
  BY <1>1
<1>3. UNCHANGED <<held, file, rows, completed, inbox, asked>>
  BY <1>2 DEF HandleSignal, Downloaded
<1>4. Announced(h) => Announced(h)'
  BY <1>3 DEF Announced
<1>5. Wanted(h) => Wanted(h)'
  BY <1>3 DEF Wanted
<1>6. \A k \in 0 .. SegmentCount : Arriving(h, k) => Arriving(h, k)'
  BY <1>3 DEF Arriving
<1> QED
  BY <1>2, <1>3, <1>4, <1>5, <1>6 DEF OnlyFrom

\* A stutter.
LEMMA UnchangedInOrder ==
  ASSUME NEW h \in Holders, OnlyFrom(h), UNCHANGED vars
  PROVE  OnlyFrom(h)'
<1>1. UNCHANGED <<held, file, rows, completed, signals, inbox, asked>>
  BY DEF vars, disk, memory, channels
<1>2. Announced(h) => Announced(h)'
  BY <1>1 DEF Announced
<1>3. Wanted(h) => Wanted(h)'
  BY <1>1 DEF Wanted
<1>4. \A k \in 0 .. SegmentCount : Arriving(h, k) => Arriving(h, k)'
  BY <1>1 DEF Arriving
<1> QED
  BY <1>1, <1>2, <1>3, <1>4 DEF OnlyFrom

\* The invariant holds at first.
LEMMA InitOrder == Init => OrderInv
<1> SUFFICES ASSUME Init
             PROVE  OrderInv
  OBVIOUS
<1>1. PICK h \in Holders :
        /\ held[h] = FileSections
        /\ inbox = [g \in Holders |-> IF g = h THEN <<AddFileMessage>> ELSE <<>>]
  BY DEF Init
<1>2. /\ held \in [Holders -> HeldChoices] /\ file = NoFile /\ rows = <<>> /\ completed = FALSE /\ signals = <<>>
      /\ asked = [g \in Holders |-> <<>>] /\ extra = 0 /\ losses = 0 /\ restarts = 0
  BY DEF Init
<1>3. Functions
  BY <1>1, <1>2 DEF Functions
<1>4. ASSUME Undisturbed
      PROVE  OnlyFrom(h)
  <2>1. \A g \in Holders : held[g] \in Nat
    <3>1. HeldChoices \subseteq Nat
      BY FragmentAssumption
    <3> QED
      BY <1>2, <3>1
  <2>2. ASSUME NEW g \in Holders \ {h}
        PROVE  held[g] = 0 /\ inbox[g] = <<>> /\ asked[g] \in Seq({"segments"})
    <3>1. held[g] > 0 /\ held[h] > 0 => g = h
      BY <1>4 DEF Undisturbed
    <3>2. held[g] = 0
      BY <1>1, <2>1, <3>1, FragmentAssumption
    <3> QED
      BY <1>1, <1>2, <3>2
  <2>3. Announced(h)
    BY <1>1, <1>2 DEF Announced
  <2>4. signals \in Seq({"downloaded"})
    BY <1>2
  <2> QED
    BY <1>1, <1>2, <2>2, <2>3, <2>4 DEF OnlyFrom
<1> QED
  BY <1>3, <1>4 DEF OrderInv

\* A step keeps the invariant; extra traffic, losses and restarts end the
\* undisturbed download.
LEMMA NextOrder ==
  ASSUME NoneInFront, OrderInv, [Next]_vars
  PROVE  OrderInv'
<1>1. Functions
  BY DEF OrderInv
<1>2. ASSUME NEW g \in Holders, Deliver(g) \/ Serve(g)
      PROVE  OrderInv'
  <2>1. Functions'
    BY <1>1, <1>2 DEF Functions, Deliver, Serve, Answer, AddFile, Broadcast, AddSegment, counts
  <2>2. ASSUME Undisturbed'
        PROVE  \E h \in Holders : OnlyFrom(h)'
    <3>1. Undisturbed
      BY <1>2, <2>2 DEF Undisturbed, Deliver, Serve, counts
    <3>2. PICK h \in Holders : OnlyFrom(h)
      BY <3>1 DEF OrderInv
    <3> QED
      BY <1>1, <1>2, <3>2, DeliverInOrder, ServeInOrder
  <2> QED
    BY <2>1, <2>2 DEF OrderInv
<1>3. CASE HandleSignal
  <2>1. Functions'
    BY <1>1, <1>3 DEF Functions, HandleSignal, RequestFile, Downloaded, CompliteFile, Broadcast
  <2>2. ASSUME Undisturbed'
        PROVE  \E h \in Holders : OnlyFrom(h)'
    <3>1. Undisturbed
      BY <1>3, <2>2 DEF Undisturbed, HandleSignal
    <3>2. PICK h \in Holders : OnlyFrom(h)
      BY <3>1 DEF OrderInv
    <3> QED
      BY <1>3, <3>2, SignalInOrder
  <2> QED
    BY <2>1, <2>2 DEF OrderInv
<1>4. ASSUME NEW g \in Holders, ServeOther(g)
      PROVE  OrderInv'
  <2>1. Functions'
    <3>1. extra \in Nat /\ extra' = extra + 1 /\ UNCHANGED <<asked, losses, restarts>>
      BY <1>1, <1>4 DEF Functions, ServeOther
    <3>2. inbox' = [x \in Holders |-> inbox'[x]]
      BY <1>1, <1>4 DEF Functions, ServeOther, Answer
    <3>3. {extra', losses', restarts'} \subseteq Nat
      BY <1>1, <3>1 DEF Functions
    <3> QED
      BY <1>1, <3>1, <3>2, <3>3 DEF Functions
  <2>2. ~Undisturbed'
    BY <1>1, <1>4 DEF Functions, ServeOther, Undisturbed
  <2> QED
    BY <2>1, <2>2 DEF OrderInv
<1>5. ASSUME NEW g \in Holders, Lose(g)
      PROVE  OrderInv'
  <2>1. Functions'
    <3>1. losses \in Nat /\ losses' = losses + 1 /\ UNCHANGED <<extra, restarts>>
      BY <1>1, <1>5 DEF Functions, Lose
    <3>2. inbox' = [x \in Holders |-> inbox'[x]] /\ asked' = [x \in Holders |-> asked'[x]]
      BY <1>1, <1>5 DEF Functions, Lose
    <3>3. {extra', losses', restarts'} \subseteq Nat
      BY <1>1, <3>1 DEF Functions
    <3> QED
      BY <3>2, <3>3 DEF Functions
  <2>2. ~Undisturbed'
    BY <1>1, <1>5 DEF Functions, Lose, Undisturbed
  <2> QED
    BY <2>1, <2>2 DEF OrderInv
<1>6. CASE MemoryLost
  <2>1. Functions'
    BY <1>1, <1>6 DEF Functions, MemoryLost
  <2>2. ~Undisturbed'
    BY <1>1, <1>6 DEF Functions, MemoryLost, Undisturbed
  <2> QED
    BY <2>1, <2>2 DEF OrderInv
<1>7. CASE UNCHANGED vars
  <2>1. Functions' /\ (Undisturbed' => Undisturbed)
    BY <1>1, <1>7 DEF Functions, Undisturbed, vars, channels, counts
  <2>2. ASSUME Undisturbed'
        PROVE  \E h \in Holders : OnlyFrom(h)'
    <3>1. PICK h \in Holders : OnlyFrom(h)
      BY <2>1, <2>2 DEF OrderInv
    <3> QED
      BY <1>7, <3>1, UnchangedInOrder
  <2> QED
    BY <2>1, <2>2 DEF OrderInv
<1> QED
  BY <1>2, <1>3, <1>4, <1>5, <1>6, <1>7 DEF Next, Restart, KillInInsert

\* In every state of such a download the file is a beginning of the right one and
\* the rows tile it.
LEMMA InOrderHere ==
  ASSUME OrderInv
  PROVE  InOrder
<1> SUFFICES ASSUME Undisturbed, file # NoFile
             PROVE  /\ file = SubSeq(Content, 1, Len(file))
                    /\ \A pos \in DOMAIN rows :
                         /\ rows[pos].storedPos + rows[pos].size <= Len(file)
                         /\ rows[pos].storedPos = BehindRowBefore(rows, pos)
  BY DEF InOrder, BehindRowBefore
<1>1. PICK h \in Holders : OnlyFrom(h)
  BY DEF OrderInv
<1>2. CASE Wanted(h)
  <2>1. file = <<>> /\ rows = <<>> /\ DOMAIN rows = {} /\ Len(file) = 0
    BY <1>2 DEF Wanted
  <2>2. Content \in Seq(Nat)
    BY FragmentAssumption DEF Content
  <2>3. \A s \in Seq(Nat) : SubSeq(s, 1, 0) = <<>>
    OBVIOUS
  <2> QED
    BY <2>1, <2>2, <2>3
<1>3. ASSUME NEW k \in 0 .. SegmentCount, Arriving(h, k)
      PROVE  /\ file = SubSeq(Content, 1, Len(file))
             /\ \A pos \in DOMAIN rows :
                  /\ rows[pos].storedPos + rows[pos].size <= Len(file)
                  /\ rows[pos].storedPos = BehindRowBefore(rows, pos)
  <2> DEFINE len == LengthAfter(k)
  <2>1. file = Beginning(len) /\ RowsFollow(rows, len)
    BY <1>3 DEF Arriving
  <2>2. len \in Nat /\ len <= FileSections
    BY CountFacts, FragmentAssumption DEF LengthAfter
  <2> HIDE DEF len
  <2>3. file \in Seq(Nat) /\ Len(file) = len /\ \A i \in 1 .. len : file[i] = i
    BY <2>1, <2>2, BeginningFacts
  <2>4. Content \in Seq(Nat) /\ Len(Content) = FileSections /\ \A i \in 1 .. FileSections : Content[i] = i
    BY FragmentAssumption DEF Content
  <2>5. file = SubSeq(Content, 1, len)
    <3>1. \A s \in Seq(Nat) : len <= Len(s) =>
            /\ SubSeq(s, 1, len) \in Seq(Nat) /\ Len(SubSeq(s, 1, len)) = len
            /\ \A i \in 1 .. len : SubSeq(s, 1, len)[i] = s[i]
      BY <2>2
    <3>2. /\ SubSeq(Content, 1, len) \in Seq(Nat) /\ Len(SubSeq(Content, 1, len)) = len
          /\ \A i \in 1 .. len : SubSeq(Content, 1, len)[i] = Content[i]
      BY <2>2, <2>4, <3>1
    <3>3. \A i \in 1 .. len : file[i] = SubSeq(Content, 1, len)[i]
      BY <2>2, <2>3, <2>4, <3>2, FragmentAssumption
    <3> QED
      BY <2>3, <3>2, <3>3, SameSequence
  <2> QED
    BY <2>1, <2>3, <2>5 DEF RowsFollow
<1> QED
  BY <1>1, <1>2, <1>3 DEF OnlyFrom, Announced

\* A download from one peer, with nothing lost and no other traffic, writes every
\* segment behind the one before (fetchFragments, FragmentStorage::posToWrite and
\* insertFragment): for every length of a segment and of the file but the one for
\* which the first two segments carry the same offset.
THEOREM DownloadInOrder == ASSUME NoneInFront PROVE Spec => []InOrder
<1>1. OrderInv /\ [Next]_vars => OrderInv'
  BY NextOrder
<1>2. OrderInv => InOrder
  BY InOrderHere
<1> QED
  BY <1>1, <1>2, InitOrder, PTL DEF Spec

-----------------------------------------------------------------------------
(* Counting up, order and parts *)

\* What begins at 0 and goes on up to n holds up to n.
LEMMA Reaches ==
  ASSUME NEW n \in Nat, NEW G, 0 \in G, \A k \in 1 .. n : k - 1 \in G => k \in G
  PROVE  \A k \in 0 .. n : k \in G
<1> DEFINE off == {k \in Nat : k <= n /\ k \notin G}
<1> SUFFICES ASSUME off # {} PROVE FALSE
  OBVIOUS
<1>1. off \in SUBSET Nat
  OBVIOUS
<1>2. PICK m \in off : \A k \in off : m <= k
  <2> HIDE DEF off
  <2> QED
    BY <1>1, SmallestNat
<1>3. m \in 1 .. n /\ m - 1 \in Nat /\ m - 1 <= n /\ ~ (m <= m - 1)
  BY <1>2
<1>4. m - 1 \notin off
  <2> HIDE DEF off
  <2> QED
    BY <1>2, <1>3
<1> QED
  BY <1>3, <1>4

\* c begins as the loop g does, and each step leads from one value of c to the
\* next.
Follows(n, g, c) ==
  g[0] = c[0] /\ \A k \in 1 .. n : g[k - 1] = c[k - 1] => g[k] = c[k]

\* What a loop computes in n steps is what follows it.
LEMMA LoopIs ==
  ASSUME NEW n \in Nat, NEW g, NEW c, Follows(n, g, c)
  PROVE  \A k \in 0 .. n : g[k] = c[k]
<1> DEFINE G == {k \in 0 .. n : g[k] = c[k]}
<1>1. 0 \in G /\ \A k \in 1 .. n : k - 1 \in G => k \in G
  BY DEF Follows
<1>2. \A k \in 0 .. n : k \in G
  <2> HIDE DEF G
  <2> QED
    BY <1>1, Reaches
<1> QED
  BY <1>2

\* Smaller members of S.
Rank(S, q) == Cardinality({p \in S : p < q})

\* The rank of a member of a finite set of naturals is below its size, and
\* greater members have a greater one.
LEMMA RankFacts ==
  ASSUME NEW S \in SUBSET Nat, IsFiniteSet(S)
  PROVE  /\ \A q \in S : Rank(S, q) \in 0 .. Cardinality(S) - 1
         /\ \A p, q \in S : p < q => Rank(S, p) < Rank(S, q)
<1>1. Cardinality(S) \in Nat
  BY FS_CardinalityType
<1>2. ASSUME NEW q \in S
      PROVE  Rank(S, q) \in 0 .. Cardinality(S) - 1
  <2> DEFINE T == {p \in S : p < q}
  <2>1. T \in SUBSET S /\ T # S
    <3>1. ~ (q < q)
      OBVIOUS
    <3> QED
      BY <3>1
  <2>2. IsFiniteSet(T) /\ Cardinality(T) <= Cardinality(S) /\ Cardinality(T) # Cardinality(S)
    <3> HIDE DEF T
    <3> QED
      BY <2>1, FS_Subset
  <2>3. Cardinality(T) \in Nat
    <3> HIDE DEF T
    <3> QED
      BY <2>2, FS_CardinalityType
  <2> QED
    BY <1>1, <2>2, <2>3 DEF Rank
<1>3. ASSUME NEW p \in S, NEW q \in S, p < q
      PROVE  Rank(S, p) < Rank(S, q)
  <2> DEFINE T == {x \in S : x < p}
             U == {x \in S : x < q}
  <2>1. T \in SUBSET U /\ T # U
    <3>1. \A x \in S : x < p => x < q
      BY <1>3
    <3>2. p \in U /\ p \notin T
      BY <1>3
    <3> QED
      BY <3>1, <3>2
  <2>2. U \in SUBSET S
    OBVIOUS
  <2>3. IsFiniteSet(U)
    <3> HIDE DEF U
    <3> QED
      BY <2>2, FS_Subset
  <2>4. IsFiniteSet(T) /\ Cardinality(T) <= Cardinality(U) /\ Cardinality(T) # Cardinality(U)
    <3> HIDE DEF T, U
    <3> QED
      BY <2>1, <2>3, FS_Subset
  <2>5. Cardinality(T) \in Nat /\ Cardinality(U) \in Nat
    <3> HIDE DEF T, U
    <3> QED
      BY <2>3, <2>4, FS_CardinalityType
  <2> QED
    BY <2>4, <2>5 DEF Rank
<1> QED
  BY <1>2, <1>3

\* Every rank below the size is that of a member.
LEMMA RankTaken ==
  ASSUME NEW S \in SUBSET Nat, IsFiniteSet(S), NEW i \in 0 .. Cardinality(S) - 1
  PROVE  \E q \in S : Rank(S, q) = i
<1> DEFINE n == Cardinality(S)
           f == [q \in S |-> Rank(S, q)]
<1>1. n \in Nat
  BY FS_CardinalityType
<1>2. f \in Injection(S, 0 .. n - 1)
  <2>1. f \in [S -> 0 .. n - 1]
    BY RankFacts
  <2>2. \A a, b \in S : f[a] = f[b] => a = b
    <3> SUFFICES ASSUME NEW a \in S, NEW b \in S, Rank(S, a) = Rank(S, b), a # b PROVE FALSE
      OBVIOUS
    <3>1. a < b \/ b < a
      OBVIOUS
    <3>2. Rank(S, a) \in 0 .. n - 1 /\ Rank(S, b) \in 0 .. n - 1
      BY RankFacts
    <3>3. Rank(S, a) < Rank(S, b) \/ Rank(S, b) < Rank(S, a)
      BY <3>1, RankFacts
    <3> HIDE DEF n
    <3> QED
      BY <1>1, <3>2, <3>3
  <2> QED
    BY <2>1, <2>2 DEF Injection, IsInjective
<1>3. IsFiniteSet(0 .. n - 1) /\ Cardinality(0 .. n - 1) = n
  <2>1. IsFiniteSet(0 .. n - 1) /\ Cardinality(0 .. n - 1) = IF 0 > n - 1 THEN 0 ELSE n - 1 - 0 + 1
    <3>1. 0 \in Int /\ n - 1 \in Int
      BY <1>1
    <3> HIDE DEF n
    <3> QED
      BY <3>1, FS_Interval
  <2> HIDE DEF n
  <2> QED
    BY <1>1, <2>1
<1>4. f \in Surjection(S, 0 .. n - 1)
  <2> HIDE DEF f
  <2> QED
    BY <1>2, <1>3, FS_Injection
<1> QED
  BY <1>4 DEF Surjection

\* A finite set of naturals in ascending order.
LEMMA AscendingIs ==
  ASSUME NEW S \in SUBSET Nat, IsFiniteSet(S)
  PROVE  LET o == Ascending(S)
             n == Cardinality(S)
         IN /\ n \in Nat /\ o \in Seq(S) /\ Len(o) = n /\ o = [i \in 1 .. n |-> o[i]]
            /\ \A i \in 1 .. n : o[i] \in S /\ o[i] \in Nat
            /\ \A i, j \in 1 .. n : i < j => o[i] < o[j]
            /\ \A q \in S : \E i \in 1 .. n : o[i] = q
<1> DEFINE o == Ascending(S)
           n == Cardinality(S)
<1>1. n \in Nat
  BY FS_CardinalityType
<1>2. o = [i \in 1 .. n |-> CHOOSE q \in S : Rank(S, q) = i - 1]
  BY DEF Ascending, Rank
<1>3. ASSUME NEW i \in 1 .. n
      PROVE  o[i] \in S /\ Rank(S, o[i]) = i - 1
  <2>1. i - 1 \in 0 .. n - 1
    BY <1>1
  <2>2. \E q \in S : Rank(S, q) = i - 1
    BY <2>1, RankTaken
  <2>3. o[i] = CHOOSE q \in S : Rank(S, q) = i - 1
    BY <1>2
  <2> QED
    BY <2>2, <2>3
<1> HIDE DEF o
<1>4. o \in Seq(S) /\ Len(o) = n /\ o = [i \in 1 .. n |-> o[i]]
  <2>1. o \in [1 .. n -> S]
    BY <1>2, <1>3
  <2> HIDE DEF n
  <2> QED
    BY <1>1, <2>1
<1>5. ASSUME NEW i \in 1 .. n, NEW j \in 1 .. n, i < j
      PROVE  o[i] < o[j]
  <2>1. o[i] \in Nat /\ o[j] \in Nat
    BY <1>3
  <2>2. o[i] # o[j] /\ ~ (o[j] < o[i])
    <3>1. Rank(S, o[i]) = i - 1 /\ Rank(S, o[j]) = j - 1 /\ i - 1 < j - 1 /\ ~ (j - 1 < i - 1) /\ i - 1 # j - 1
      BY <1>3, <1>5
    <3>2. o[j] < o[i] => Rank(S, o[j]) < Rank(S, o[i])
      BY <1>3, RankFacts
    <3> QED
      BY <3>1, <3>2
  <2> QED
    BY <2>1, <2>2
<1>6. ASSUME NEW q \in S
      PROVE  \E i \in 1 .. n : o[i] = q
  <2>1. PICK i \in 1 .. n : Rank(S, q) = i - 1
    <3>1. Rank(S, q) \in 0 .. n - 1
      BY RankFacts
    <3> HIDE DEF n
    <3>2. Rank(S, q) + 1 \in 1 .. n /\ Rank(S, q) = (Rank(S, q) + 1) - 1
      BY <1>1, <3>1
    <3> QED
      BY <3>2
  <2>2. Rank(S, o[i]) = Rank(S, q) /\ o[i] \in S
    BY <1>3, <2>1
  <2>3. o[i] = q
    <3>1. o[i] \in Nat /\ q \in Nat /\ Rank(S, q) \in Nat
      <4>1. i - 1 \in Nat
        <5> HIDE DEF n
        <5> QED
          BY <1>1
      <4> QED
        BY <2>1, <2>2, <4>1
    <3>2. (o[i] < q => Rank(S, o[i]) < Rank(S, q)) /\ (q < o[i] => Rank(S, q) < Rank(S, o[i]))
      BY <2>2, RankFacts
    <3> QED
      BY <2>2, <3>1, <3>2
  <2> QED
    BY <2>1, <2>3
<1> QED
  BY <1>1, <1>3, <1>4, <1>5, <1>6 DEF o

\* A file read in parts, each from where the last one ended.
LEMMA PartsRead ==
  ASSUME NEW S, NEW f \in Seq(S), NEW n \in Nat, NEW e \in [0 .. n -> Nat], NEW parts,
         e[0] = 0, e[n] = Len(f), \A i \in 1 .. n : e[i - 1] <= e[i] /\ e[i] <= Len(f),
         parts = [i \in 1 .. n |-> SubSeq(f, e[i - 1] + 1, e[i])]
  PROVE  FlattenSeq(parts) = f
<1>1. Len(parts) = n
  OBVIOUS
<1>2. CASE n = 0
  <2>1. parts = <<>> /\ Len(f) = 0
    BY <1>2
  <2>2. f = <<>>
    BY <2>1, EmptySeq
  <2> QED
    BY <1>1, <1>2, <2>1, <2>2 DEF FlattenSeq
<1>3. CASE n # 0
  <2> DEFINE Loop(g) == g = [i \in 1 .. Len(parts) |-> IF i = 1 THEN parts[i] ELSE g[i - 1] \o parts[i]]
             whole == CHOOSE g : Loop(g)
             c == [i \in 1 .. n |-> SubSeq(f, 1, e[i])]
  <2>1. FlattenSeq(parts) = whole[n]
    BY <1>1, <1>3, Zenon DEF FlattenSeq
  <2>2. \A i \in 1 .. n : i # 1 => i - 1 \in 1 .. n
    OBVIOUS
  <2>3. ASSUME NEW i \in 1 .. n
        PROVE  c[i] = IF i = 1 THEN parts[i] ELSE c[i - 1] \o parts[i]
    <3>1. parts[i] = SubSeq(f, e[i - 1] + 1, e[i]) /\ c[i] = SubSeq(f, 1, e[i])
      OBVIOUS
    <3>2. CASE i = 1
      <4>1. e[i - 1] + 1 = 1
        BY <3>2
      <4> QED
        BY <3>1, <3>2, <4>1
    <3>3. CASE i # 1
      <4>1. i - 1 \in 1 .. n /\ i - 1 \in 0 .. n /\ i \in 0 .. n
        BY <3>3
      <4>2. e[i - 1] \in Nat /\ e[i] \in Nat /\ e[i - 1] <= e[i] /\ e[i] <= Len(f)
        BY <4>1
      <4>3. 1 \in 1 .. Len(f) + 1 /\ e[i - 1] \in 1 - 1 .. Len(f) /\ e[i] \in e[i - 1] .. Len(f)
        BY <4>2
      <4>4. SubSeq(f, 1, e[i - 1]) \o SubSeq(f, e[i - 1] + 1, e[i]) = SubSeq(f, 1, e[i])
        BY <4>3, ConcatAdjacentSubSeq
      <4>5. c[i - 1] = SubSeq(f, 1, e[i - 1])
        BY <4>1
      <4> QED
        BY <3>1, <3>3, <4>4, <4>5
    <3> QED
      BY <3>2, <3>3
  <2>4. Loop(c)
    <3>1. c = [i \in 1 .. n |-> c[i]]
      OBVIOUS
    <3> HIDE DEF c
    <3>2. [i \in 1 .. n |-> c[i]] = [i \in 1 .. n |-> IF i = 1 THEN parts[i] ELSE c[i - 1] \o parts[i]]
      BY <2>3
    <3> QED
      BY <1>1, <3>1, <3>2
  <2>5. Loop(whole)
    <3> HIDE DEF Loop, c
    <3> QED
      BY <2>4
  <2>6. \A i \in 1 .. n : whole[i] = IF i = 1 THEN parts[i] ELSE whole[i - 1] \o parts[i]
    <3> HIDE DEF whole
    <3> QED
      BY <1>1, <2>5
  <2> HIDE DEF whole, c
  <2>7. \A i \in 1 .. n : whole[i] = c[i]
    <3> DEFINE G == {i \in 0 .. n : i > 0 => whole[i] = c[i]}
    <3>1. 0 \in G
      OBVIOUS
    <3>2. ASSUME NEW i \in 1 .. n, i - 1 \in G PROVE i \in G
      <4>1. CASE i = 1
        BY <2>3, <2>6, <4>1
      <4>2. CASE i # 1
        <5>1. i - 1 > 0 /\ i - 1 \in 1 .. n
          BY <4>2
        <5>2. whole[i - 1] = c[i - 1]
          BY <3>2, <5>1
        <5> QED
          BY <2>3, <2>6, <4>2, <5>2
      <4> QED
        BY <4>1, <4>2
    <3>3. \A i \in 0 .. n : i \in G
      <4> HIDE DEF G
      <4> QED
        BY <3>1, <3>2, Reaches
    <3>4. \A i \in 1 .. n : i \in 0 .. n /\ i > 0
      OBVIOUS
    <3> QED
      BY <3>3, <3>4
  <2>9. n \in 1 .. n
    BY <1>3
  <2>8. c[n] = SubSeq(f, 1, Len(f))
    <3>1. c[n] = SubSeq(f, 1, e[n])
      BY <2>9 DEF c
    <3> QED
      BY <3>1
  <2> QED
    BY <2>1, <2>7, <2>8, <2>9, SubSeqFull
<1> QED
  BY <1>2, <1>3

-----------------------------------------------------------------------------
(* A table that is in order *)

\* The e[i] are where the rows of r, in order, end in f.
TableEnds(f, r, e) ==
  LET o == Ascending(DOMAIN r)
      n == Cardinality(DOMAIN r)
  IN /\ e \in [0 .. n -> Nat] /\ e[0] = 0 /\ e[n] = Len(f)
     /\ \A i \in 1 .. n :
          /\ o[i] = e[i - 1] /\ r[o[i]].storedPos = e[i - 1]
          /\ e[i] = e[i - 1] + r[o[i]].size
          /\ e[i - 1] < e[i] /\ e[i] <= Len(f)

\* What the type invariant says of a table.
IsTable(r) ==
  /\ DOMAIN r \in SUBSET Nat /\ IsFiniteSet(DOMAIN r)
  /\ \A q \in DOMAIN r : r[q] \in Row

\* In a table in order each row ends where the next one begins, and the last
\* one at the end of the file.
LEMMA TiledEnds ==
  ASSUME NEW S, NEW f \in Seq(S), NEW r, IsTable(r), Tiled(f, r)
  PROVE  \E e : TableEnds(f, r, e)
<1> DEFINE o == Ascending(DOMAIN r)
           n == Cardinality(DOMAIN r)
           len == Len(f)
           End(q) == q + r[q].size
<1>1. /\ n \in Nat /\ \A i \in 1 .. n : o[i] \in DOMAIN r /\ o[i] \in Nat
      /\ \A i, j \in 1 .. n : i < j => o[i] < o[j]
      /\ \A q \in DOMAIN r : \E i \in 1 .. n : o[i] = q
  BY AscendingIs DEF IsTable
<1>2. len \in Nat
  OBVIOUS
<1>3. \A q \in DOMAIN r : /\ q \in Nat /\ r[q].size \in Nat /\ r[q].size > 0 /\ r[q].storedPos = q
                          /\ End(q) \in Nat /\ End(q) > q
                          /\ End(q) \in DOMAIN r \/ End(q) = len
                          /\ \A p \in DOMAIN r : p <= q \/ p >= End(q)
  <2> SUFFICES ASSUME NEW q \in DOMAIN r
               PROVE  /\ q \in Nat /\ r[q].size \in Nat /\ r[q].size > 0 /\ r[q].storedPos = q
                      /\ End(q) \in Nat /\ End(q) > q
                      /\ End(q) \in DOMAIN r \/ End(q) = len
                      /\ \A p \in DOMAIN r : p <= q \/ p >= End(q)
    OBVIOUS
  <2>1. q \in Nat /\ r[q].size \in Nat
    BY DEF IsTable, Row
  <2>2. /\ r[q].storedPos = q /\ r[q].size > 0 /\ (End(q) \in DOMAIN r \/ End(q) = len)
        /\ \A p \in DOMAIN r : p <= q \/ p >= End(q)
    BY DEF Tiled
  <2>3. End(q) \in Nat /\ End(q) > q
    BY <2>1, <2>2
  <2> QED
    BY <2>1, <2>2, <2>3
<1> HIDE DEF End, o, n, len
<1>4. CASE n = 0
  <2>1. DOMAIN r = {}
    <3>1. 1 .. n = {}
      BY <1>4
    <3> QED
      BY <1>1, <3>1
  <2>2. f = <<>>
    BY <2>1 DEF Tiled
  <2>3. len = 0
    BY <2>2 DEF len
  <2> DEFINE e == [i \in 0 .. 0 |-> 0]
  <2>4. e \in [0 .. n -> Nat] /\ e[0] = 0 /\ e[n] = len
    BY <1>4, <2>3
  <2>5. 1 .. n = {}
    BY <1>4
  <2> HIDE DEF e
  <2>6. TableEnds(f, r, e)
    BY <2>4, <2>5 DEF TableEnds, n, len
  <2> QED
    BY <2>6
<1>5. CASE n # 0
  <2>1. n \in 1 .. n /\ 1 \in 1 .. n
    BY <1>1, <1>5
  <2>2. \A q \in DOMAIN r : q <= o[n]
    <3> SUFFICES ASSUME NEW q \in DOMAIN r PROVE q <= o[n]
      OBVIOUS
    <3>1. PICK i \in 1 .. n : o[i] = q
      BY <1>1
    <3>2. i < n \/ i = n
      BY <1>1
    <3>3. i < n => o[i] < o[n]
      BY <1>1, <2>1
    <3>4. o[i] \in Nat /\ o[n] \in Nat
      BY <1>1, <2>1
    <3> QED
      BY <3>1, <3>2, <3>3, <3>4
  <2>3. End(o[n]) = len /\ o[n] < len
    <3>1. o[n] \in DOMAIN r /\ o[n] \in Nat
      BY <1>1, <2>1
    <3>2. End(o[n]) \in Nat /\ End(o[n]) > o[n] /\ (End(o[n]) \in DOMAIN r \/ End(o[n]) = len)
      BY <1>3, <3>1
    <3>3. End(o[n]) \notin DOMAIN r
      BY <2>2, <3>1, <3>2
    <3> QED
      BY <1>2, <3>1, <3>2, <3>3
  <2>4. o[1] = 0
    <3>1. f # <<>>
      BY <1>1, <1>2, <2>1, <2>3 DEF len
    <3>2. 0 \in DOMAIN r
      BY <3>1 DEF Tiled
    <3>3. PICK i \in 1 .. n : o[i] = 0
      BY <1>1, <3>2
    <3>4. i = 1 \/ 1 < i
      BY <1>1
    <3>5. 1 < i => o[1] < o[i]
      BY <1>1, <2>1
    <3>6. o[1] \in Nat
      BY <1>1, <2>1
    <3> QED
      BY <3>3, <3>4, <3>5, <3>6
  <2>5. ASSUME NEW i \in 1 .. n, i # n
        PROVE  i + 1 \in 1 .. n /\ End(o[i]) = o[i + 1] /\ o[i + 1] < len
    <3>1. i + 1 \in 1 .. n /\ i < i + 1
      BY <1>1, <2>5
    <3>2. /\ o[i] \in Nat /\ o[i + 1] \in Nat /\ o[i] \in DOMAIN r /\ o[i + 1] \in DOMAIN r
          /\ o[n] \in Nat /\ o[i] < o[i + 1]
      BY <1>1, <2>1, <3>1
    <3>3. o[i + 1] <= o[n]
      BY <2>2, <3>2
    <3>4. o[i + 1] < len
      BY <1>2, <2>3, <3>2, <3>3
    <3>5. o[i + 1] >= End(o[i]) /\ End(o[i]) \in Nat /\ End(o[i]) > o[i]
          /\ (End(o[i]) \in DOMAIN r \/ End(o[i]) = len)
      <4>1. o[i + 1] <= o[i] \/ o[i + 1] >= End(o[i])
        BY <1>3, <3>2
      <4>2. ~ (o[i + 1] <= o[i])
        BY <3>2
      <4> QED
        BY <1>3, <3>2, <4>1, <4>2
    <3>6. End(o[i]) \in DOMAIN r
      BY <1>2, <3>2, <3>4, <3>5
    <3>7. PICK j \in 1 .. n : o[j] = End(o[i])
      BY <1>1, <3>6
    <3>8. j < i + 1 \/ j = i + 1 \/ i + 1 < j
      BY <1>1, <3>1
    <3>9. i + 1 < j => FALSE
      <4>1. i + 1 < j => o[i + 1] < o[j]
        BY <1>1, <3>1
      <4> QED
        BY <3>2, <3>5, <3>7, <4>1
    <3>10. j < i + 1 => FALSE
      <4>1. j < i + 1 => j = i \/ j < i
        BY <1>1
      <4>2. j < i => o[j] < o[i]
        BY <1>1
      <4>3. o[j] \in Nat
        BY <1>1
      <4> QED
        BY <3>2, <3>5, <3>7, <4>1, <4>2, <4>3
    <3> QED
      BY <3>1, <3>4, <3>7, <3>8, <3>9, <3>10
  <2> DEFINE e == [i \in 0 .. n |-> IF i = n THEN len ELSE o[i + 1]]
  <2>6. e \in [0 .. n -> Nat]
    <3> SUFFICES ASSUME NEW i \in 0 .. n PROVE (IF i = n THEN len ELSE o[i + 1]) \in Nat
      OBVIOUS
    <3>1. i # n => i + 1 \in 1 .. n
      BY <1>1
    <3> QED
      BY <1>1, <1>2, <3>1
  <2>7. e[0] = 0 /\ e[n] = len
    BY <1>1, <1>5, <2>4
  <2>8. ASSUME NEW i \in 1 .. n
        PROVE  /\ o[i] = e[i - 1] /\ r[o[i]].storedPos = e[i - 1]
               /\ e[i] = e[i - 1] + r[o[i]].size
               /\ e[i - 1] < e[i] /\ e[i] <= len
    <3>1. i - 1 \in 0 .. n /\ i \in 0 .. n /\ i - 1 # n /\ i - 1 + 1 = i
      BY <1>1
    <3>2. e[i - 1] = o[i] /\ e[i] = IF i = n THEN len ELSE o[i + 1]
      BY <3>1
    <3>3. o[i] \in DOMAIN r /\ o[i] \in Nat
      BY <1>1
    <3>4. e[i] = End(o[i])
      BY <2>3, <2>5, <3>2
    <3>5. End(o[i]) <= len
      <4>1. i = n => End(o[i]) = len
        BY <2>3
      <4>2. i # n => End(o[i]) = o[i + 1] /\ o[i + 1] < len /\ i + 1 \in 1 .. n /\ o[i + 1] \in Nat
        BY <1>1, <2>5
      <4> QED
        BY <1>2, <4>1, <4>2
    <3>6. r[o[i]].storedPos = o[i] /\ End(o[i]) > o[i] /\ End(o[i]) \in Nat
      BY <1>3, <3>3
    <3>7. End(o[i]) = o[i] + r[o[i]].size
      BY DEF End
    <3> HIDE DEF e
    <3> QED
      BY <3>2, <3>3, <3>4, <3>5, <3>6, <3>7
  <2> HIDE DEF e
  <2>9. TableEnds(f, r, e)
    BY <2>6, <2>7, <2>8 DEF TableEnds, n, len, o
  <2> QED
    BY <2>9
<1> QED
  BY <1>4, <1>5

\* Reading a table in order row by row gives the file, and its length.
LEMMA TiledRead ==
  ASSUME NEW S, NEW f \in Seq(S), NEW r, IsTable(r), Tiled(f, r)
  PROVE  /\ LET order == Ascending(DOMAIN r)
            IN FlattenSeq([i \in DOMAIN order |-> GetFragment(f, r, order[i])]) = f
         /\ DataAmountStored(r) = Len(f)
<1> DEFINE o == Ascending(DOMAIN r)
           n == Cardinality(DOMAIN r)
           parts == [i \in DOMAIN o |-> GetFragment(f, r, o[i])]
<1>1. /\ n \in Nat /\ Len(o) = n /\ DOMAIN o = 1 .. n
      /\ \A i \in 1 .. n : o[i] \in DOMAIN r
  <2>1. n \in Nat /\ Len(o) = n /\ o = [i \in 1 .. n |-> o[i]] /\ \A i \in 1 .. n : o[i] \in DOMAIN r
    BY AscendingIs DEF IsTable
  <2> HIDE DEF o
  <2> QED
    BY <2>1
<1>2. PICK e : TableEnds(f, r, e)
  BY TiledEnds
<1>3. /\ e \in [0 .. n -> Nat] /\ e[0] = 0 /\ e[n] = Len(f)
      /\ \A i \in 1 .. n : /\ o[i] = e[i - 1] /\ e[i] = e[i - 1] + r[o[i]].size
                           /\ e[i - 1] <= e[i] /\ e[i] <= Len(f)
  <2>1. /\ e \in [0 .. n -> Nat] /\ e[0] = 0 /\ e[n] = Len(f)
        /\ \A i \in 1 .. n : /\ o[i] = e[i - 1] /\ e[i] = e[i - 1] + r[o[i]].size
                             /\ e[i - 1] < e[i] /\ e[i] <= Len(f)
    BY <1>2 DEF TableEnds
  <2>2. \A i \in 1 .. n : e[i - 1] \in Nat /\ e[i] \in Nat
    <3> HIDE DEF n
    <3>1. \A i \in 1 .. n : i - 1 \in 0 .. n /\ i \in 0 .. n
      BY <1>1
    <3> QED
      BY <2>1, <3>1
  <2> HIDE DEF n, o
  <2> QED
    BY <2>1, <2>2
<1> HIDE DEF o, n
<1>4. FlattenSeq(parts) = f
  <2>1. parts = [i \in 1 .. n |-> SubSeq(f, e[i - 1] + 1, e[i])]
    BY <1>1, <1>3 DEF GetFragment, Extract
  <2> HIDE DEF parts
  <2> QED
    BY <1>1, <1>3, <2>1, PartsRead
<1>5. DataAmountStored(r) = Len(f)
  <2> DEFINE Loop(g) == g = [i \in 0 .. Len(o) |-> IF i = 0 THEN 0 ELSE g[i - 1] + r[o[i]].size]
             sum == CHOOSE g : Loop(g)
  <2>1. DataAmountStored(r) = sum[n]
    BY <1>1, Zenon DEF DataAmountStored, o
  <2>2. e = [i \in 0 .. n |-> e[i]] /\ \A i \in 0 .. n : e[i] = IF i = 0 THEN 0 ELSE e[i - 1] + r[o[i]].size
    <3>1. \A i \in 0 .. n : i = 0 \/ i \in 1 .. n
      BY <1>1
    <3> QED
      BY <1>3, <3>1
  <2>3. Loop(e)
    <3>1. [i \in 0 .. n |-> e[i]] = [i \in 0 .. n |-> IF i = 0 THEN 0 ELSE e[i - 1] + r[o[i]].size]
      BY <2>2
    <3> QED
      BY <1>1, <2>2, <3>1
  <2>4. Loop(sum)
    <3> HIDE DEF Loop
    <3> QED
      BY <2>3
  <2>5. \A i \in 0 .. n : sum[i] = IF i = 0 THEN 0 ELSE sum[i - 1] + r[o[i]].size
    <3> HIDE DEF sum
    <3> QED
      BY <1>1, <2>4
  <2> HIDE DEF sum
  <2>6. Follows(n, sum, e)
    <3>1. 0 \in 0 .. n /\ \A i \in 1 .. n : i \in 0 .. n /\ i # 0
      BY <1>1
    <3>2. sum[0] = e[0] /\ \A i \in 1 .. n : sum[i - 1] = e[i - 1] => sum[i] = e[i]
      BY <1>3, <2>5, <3>1
    <3> QED
      BY <3>2 DEF Follows
  <2>7. sum[n] = e[n]
    <3>1. \A i \in 0 .. n : sum[i] = e[i]
      BY <1>1, <2>6, LoopIs
    <3>2. n \in 0 .. n
      BY <1>1
    <3> QED
      BY <3>1, <3>2
  <2> QED
    BY <1>3, <2>1, <2>7
<1> QED
  BY <1>4, <1>5 DEF o

-----------------------------------------------------------------------------
(* Files in sections *)

\* Parts of d bytes that a file of n bytes has.
LEMMA CeilFacts ==
  ASSUME NEW n \in Nat, NEW d \in Nat \ {0}
  PROVE  LET parts == CeilDiv(n, d)
         IN /\ parts \in Nat /\ (parts = 0 <=> n = 0) /\ n <= parts * d
            /\ \A k \in 0 .. parts : k * d \in Nat
            /\ \A k \in 1 .. parts :
                 /\ (k - 1) * d \in Nat /\ k * d = (k - 1) * d + d
                 /\ (k - 1) * d < n
                 /\ k # parts => k * d < n
<1> DEFINE m == (n + d - 1) \div d
<1>1. \A k \in Nat : k * d \in Nat /\ (k + 1) * d = k * d + d
  OBVIOUS
<1>2. m \in Nat /\ m * d <= n + d - 1 /\ n + d - 1 < m * d + d
  <2>1. \A a \in Nat : a \div d \in Nat /\ (a \div d) * d <= a /\ a < (a \div d) * d + d
    OBVIOUS
  <2>2. n + d - 1 \in Nat
    OBVIOUS
  <2> QED
    BY <2>1, <2>2
<1> HIDE DEF m
<1>3. \A j, k \in Nat : j <= k => j * d <= k * d
  OBVIOUS
<1>4. m * d \in Nat /\ n <= m * d
  BY <1>1, <1>2
<1>5. m = 0 <=> n = 0
  <2>1. m = 0 => m * d = 0
    OBVIOUS
  <2>2. ~ (m = 0) => 1 * d <= m * d /\ 1 * d = d
    BY <1>2, <1>3
  <2> QED
    BY <1>2, <1>4, <2>1, <2>2
<1>6. ASSUME NEW k \in 1 .. m
      PROVE  /\ (k - 1) * d \in Nat /\ k * d = (k - 1) * d + d
             /\ (k - 1) * d < n
             /\ k # m => k * d < n
  <2>1. k - 1 \in Nat /\ k \in Nat /\ (k - 1) + 1 = k /\ k <= m
    BY <1>2
  <2>2. (k - 1) * d \in Nat /\ k * d = (k - 1) * d + d /\ k * d \in Nat
    BY <1>1, <2>1
  <2>3. k * d <= m * d
    BY <1>2, <1>3, <2>1
  <2>4. k # m => k + 1 \in Nat /\ k + 1 <= m
    BY <1>2, <2>1
  <2>5. k # m => (k + 1) * d <= m * d /\ (k + 1) * d = k * d + d
    BY <1>1, <1>2, <1>3, <2>1, <2>4
  <2> QED
    BY <1>2, <1>4, <2>2, <2>3, <2>5
<1>7. \A k \in 0 .. m : k * d \in Nat
  BY <1>1, <1>2
<1> QED
  BY <1>2, <1>4, <1>5, <1>6, <1>7 DEF CeilDiv, m

\* The lesser of two numbers.
LEMMA MinOfTwo ==
  ASSUME NEW a \in Int, NEW b \in Int
  PROVE  Min({a, b}) = IF a <= b THEN a ELSE b
<1> DEFINE m == IF a <= b THEN a ELSE b
<1>1. m \in {a, b} /\ \A y \in {a, b} : m <= y
  OBVIOUS
<1>2. \A x \in {a, b} : (\A y \in {a, b} : x <= y) => x = m
  OBVIOUS
<1> HIDE DEF m
<1>3. Min({a, b}) = m
  BY <1>1, <1>2 DEF Min
<1> QED
  BY <1>3 DEF m

\* The greater one.
LEMMA MaxOfTwo ==
  ASSUME NEW a \in Int, NEW b \in Int
  PROVE  Max({a, b}) = IF a >= b THEN a ELSE b
<1> DEFINE m == IF a >= b THEN a ELSE b
<1>1. m \in {a, b} /\ \A y \in {a, b} : m >= y
  OBVIOUS
<1>2. \A x \in {a, b} : (\A y \in {a, b} : x >= y) => x = m
  OBVIOUS
<1> HIDE DEF m
<1>3. Max({a, b}) = m
  BY <1>1, <1>2 DEF Max
<1> QED
  BY <1>3 DEF m

\* The sections of any file make up the file, and the last one is known by its
\* offset.
LEMMA SectionsServed ==
  ASSUME NEW S, NEW f \in Seq(S)
  PROVE  LET parts == CeilDiv(Len(f), SectionSize)
             Offset(k) == (k - 1) * SectionSize
         IN /\ FlattenSeq([k \in 1 .. parts |-> SendFragment(f, Offset(k))]) = f
            /\ \A k \in 1 .. parts : Uploaded(f, Offset(k)) <=> k = parts
<1> DEFINE d == SectionSize
           len == Len(f)
           parts == CeilDiv(len, d)
           sent == [k \in 1 .. parts |-> SendFragment(f, (k - 1) * d)]
           e == [k \in 0 .. parts |-> IF k * d <= len THEN k * d ELSE len]
<1>1. d \in Nat \ {0} /\ len \in Nat
  BY EditsAssumption
<1>2. /\ parts \in Nat /\ (parts = 0 <=> len = 0) /\ len <= parts * d
      /\ \A k \in 0 .. parts : k * d \in Nat
      /\ \A k \in 1 .. parts :
           /\ (k - 1) * d \in Nat /\ k * d = (k - 1) * d + d
           /\ (k - 1) * d < len
           /\ k # parts => k * d < len
  <2> HIDE DEF d, len
  <2> QED
    BY <1>1, CeilFacts
<1>3. \A k \in 1 .. parts : Uploaded(f, (k - 1) * d) <=> k = parts
  <2> SUFFICES ASSUME NEW k \in 1 .. parts PROVE Uploaded(f, (k - 1) * d) <=> k = parts
    OBVIOUS
  <2>1. Uploaded(f, (k - 1) * d) <=> (k - 1) * d + d >= len
    BY DEF Uploaded
  <2> HIDE DEF d, len, parts
  <2>2. k \in 0 .. parts
    BY <1>2
  <2> QED
    BY <1>1, <1>2, <2>1, <2>2
<1> HIDE DEF d, parts
<1>4. e \in [0 .. parts -> Nat] /\ e[0] = 0 /\ e[parts] = len
  <2>1. 0 * d = 0 /\ parts * d \in Nat /\ 0 \in 0 .. parts /\ parts \in 0 .. parts
    BY <1>1, <1>2
  <2>2. \A k \in 0 .. parts : (IF k * d <= len THEN k * d ELSE len) \in Nat
    BY <1>1, <1>2
  <2>3. e \in [0 .. parts -> Nat]
    BY <2>2
  <2> QED
    BY <1>1, <1>2, <2>1, <2>3
<1>5. ASSUME NEW k \in 1 .. parts
      PROVE  /\ e[k - 1] <= e[k] /\ e[k] <= len
             /\ SendFragment(f, (k - 1) * d) = SubSeq(f, e[k - 1] + 1, e[k])
  <2>1. k \in 0 .. parts /\ k - 1 \in 0 .. parts
    BY <1>2
  <2>2. e[k - 1] = (k - 1) * d
    BY <1>1, <1>2, <2>1
  <2>3. e[k] = IF k * d <= len THEN k * d ELSE len
    BY <2>1
  <2>4. e[k] = IF len - (k - 1) * d > d THEN (k - 1) * d + d ELSE len
    BY <1>1, <1>2, <2>1, <2>3
  <2>5. SendFragment(f, (k - 1) * d) = SubSeq(f, e[k - 1] + 1, e[k])
    BY <2>2, <2>4 DEF SendFragment, d
  <2> HIDE DEF e, len
  <2> QED
    BY <1>1, <1>2, <2>1, <2>2, <2>3, <2>5
<1>6. sent = [k \in 1 .. parts |-> SubSeq(f, e[k - 1] + 1, e[k])]
  BY <1>5
<1>7. FlattenSeq(sent) = f
  <2> HIDE DEF e, sent
  <2> QED
    BY <1>2, <1>4, <1>5, <1>6, PartsRead DEF len
<1> QED
  BY <1>3, <1>7 DEF d, parts

-----------------------------------------------------------------------------
(* What edits make of a file, a table and a chain *)

\* g is the loop of n steps from base.
Steps(n, g, T, base, step) ==
  /\ g \in [0 .. n -> T]
  /\ g[0] = base /\ \A k \in 1 .. n : g[k] = step[k][g[k - 1]]

\* There is a loop for steps that stay in T.
LEMMA LoopExists ==
  ASSUME NEW n \in Nat, NEW T, NEW base \in T, NEW step \in [1 .. n -> [T -> T]]
  PROVE  \E g : Steps(n, g, T, base, step)
<1> DEFINE Does(g, m) == g[0] = base /\ \A k \in 1 .. m : g[k] = step[k][g[k - 1]]
           G == {m \in 0 .. n : \E g \in [0 .. m -> T] : Does(g, m)}
<1>1. 0 \in G
  <2> DEFINE g == [k \in 0 .. 0 |-> base]
  <2>1. g \in [0 .. 0 -> T] /\ g[0] = base /\ 1 .. 0 = {}
    OBVIOUS
  <2> HIDE DEF g
  <2>2. Does(g, 0)
    BY <2>1
  <2> QED
    BY <2>1, <2>2
<1>2. ASSUME NEW m \in 1 .. n, m - 1 \in G
      PROVE  m \in G
  <2>1. PICK h \in [0 .. m - 1 -> T] : Does(h, m - 1)
    BY <1>2
  <2>2. step[m] \in [T -> T] /\ h[m - 1] \in T
    BY <2>1
  <2> DEFINE g == [k \in 0 .. m |-> IF k = m THEN step[m][h[m - 1]] ELSE h[k]]
  <2>3. g \in [0 .. m -> T]
    <3>1. \A k \in 0 .. m : k # m => k \in 0 .. m - 1
      OBVIOUS
    <3>2. \A k \in 0 .. m : (IF k = m THEN step[m][h[m - 1]] ELSE h[k]) \in T
      BY <2>1, <2>2, <3>1
    <3> QED
      BY <3>2
  <2>4. g[0] = base
    <3>1. 0 \in 0 .. m /\ 0 # m
      OBVIOUS
    <3> QED
      BY <2>1, <3>1
  <2>5. ASSUME NEW k \in 1 .. m PROVE g[k] = step[k][g[k - 1]]
    <3>1. k \in 0 .. m /\ k - 1 \in 0 .. m /\ k - 1 # m
      OBVIOUS
    <3>2. g[k - 1] = h[k - 1]
      BY <3>1
    <3>3. CASE k = m
      BY <3>1, <3>2, <3>3
    <3>4. CASE k # m
      <4>1. k \in 1 .. m - 1
        BY <3>4
      <4>2. g[k] = h[k]
        BY <3>1, <3>4
      <4> QED
        BY <2>1, <3>2, <4>1, <4>2
    <3> QED
      BY <3>3, <3>4
  <2> HIDE DEF g
  <2>6. Does(g, m)
    BY <2>4, <2>5
  <2>7. m \in 0 .. n
    OBVIOUS
  <2> QED
    BY <2>3, <2>6, <2>7
<1>3. \A k \in 0 .. n : k \in G
  <2> HIDE DEF G
  <2> QED
    BY <1>1, <1>2, Reaches
<1>4. n \in G
  <2> HIDE DEF G
  <2> QED
    BY <1>3
<1> QED
  BY <1>4 DEF Steps

\* Part of a sequence.
LEMMA SubSeqIs ==
  ASSUME NEW S, NEW s \in Seq(S), NEW m \in Nat \ {0}, NEW n \in Int, n <= Len(s)
  PROVE  /\ SubSeq(s, m, n) \in Seq(S)
         /\ Len(SubSeq(s, m, n)) = IF m <= n THEN n - m + 1 ELSE 0
         /\ \A i \in 1 .. n - m + 1 : SubSeq(s, m, n)[i] = s[m + i - 1]
<1>1. \A i \in m .. n : s[i] \in S
  <2>1. \A i \in m .. n : i \in 1 .. Len(s)
    OBVIOUS
  <2> QED
    BY <2>1, ElementOfSeq
<1> QED
  BY <1>1, SubSeqProperties

\* Two sequences, one behind the other.
LEMMA Behind ==
  ASSUME NEW S, NEW f \in Seq(S), NEW d \in Seq(S)
  PROVE  /\ f \o d \in Seq(S) /\ Len(f \o d) = Len(f) + Len(d)
         /\ \A i \in 1 .. Len(f) + Len(d) :
              (f \o d)[i] = IF i <= Len(f) THEN f[i] ELSE d[i - Len(f)]
  BY ConcatProperties

\* The file up to pos, and zeros if it is shorter.
LEMMA UpToIs ==
  ASSUME NEW S, 0 \in S, NEW f \in Seq(S), NEW pos \in Nat
  PROVE  /\ UpTo(f, pos) \in Seq(S) /\ Len(UpTo(f, pos)) = pos
         /\ \A i \in 1 .. pos : i <= Len(f) => UpTo(f, pos)[i] = f[i]
<1>1. CASE pos > Len(f)
  <2> DEFINE z == Zeros(pos - Len(f))
  <2>1. z \in Seq(S) /\ Len(z) = pos - Len(f)
    BY <1>1 DEF Zeros
  <2> HIDE DEF z
  <2>2. UpTo(f, pos) = f \o z
    BY <1>1 DEF UpTo, z
  <2>3. /\ f \o z \in Seq(S) /\ Len(f \o z) = Len(f) + Len(z)
        /\ \A i \in 1 .. Len(f) + Len(z) : (f \o z)[i] = IF i <= Len(f) THEN f[i] ELSE z[i - Len(f)]
    BY <2>1, Behind
  <2> QED
    BY <1>1, <2>1, <2>2, <2>3
<1>2. CASE ~ (pos > Len(f))
  <2>1. UpTo(f, pos) = SubSeq(f, 1, pos)
    BY <1>2 DEF UpTo
  <2>2. /\ SubSeq(f, 1, pos) \in Seq(S) /\ Len(SubSeq(f, 1, pos)) = IF 1 <= pos THEN pos - 1 + 1 ELSE 0
        /\ \A i \in 1 .. pos - 1 + 1 : SubSeq(f, 1, pos)[i] = f[1 + i - 1]
    BY <1>2, SubSeqIs
  <2> QED
    BY <2>1, <2>2
<1> QED
  BY <1>1, <1>2

\* What is behind pos.
LEMMA RestIs ==
  ASSUME NEW S, NEW f \in Seq(S), NEW pos \in Nat
  PROVE  LET rest == SubSeq(f, pos + 1, Len(f))
         IN /\ rest \in Seq(S) /\ Len(rest) = IF pos <= Len(f) THEN Len(f) - pos ELSE 0
            /\ \A i \in 1 .. Len(f) - pos : rest[i] = f[pos + i]
<1>1. pos + 1 \in Nat \ {0} /\ Len(f) \in Nat
  OBVIOUS
<1>2. /\ SubSeq(f, pos + 1, Len(f)) \in Seq(S)
      /\ Len(SubSeq(f, pos + 1, Len(f))) = IF pos + 1 <= Len(f) THEN Len(f) - (pos + 1) + 1 ELSE 0
      /\ \A i \in 1 .. Len(f) - (pos + 1) + 1 : SubSeq(f, pos + 1, Len(f))[i] = f[(pos + 1) + i - 1]
  BY <1>1, SubSeqIs
<1> QED
  BY <1>1, <1>2

\* w is f with data in it, at pos, and what was there behind it.
WithData(f, pos, data, w) ==
  /\ Len(w) = pos + Len(data) + IF pos <= Len(f) THEN Len(f) - pos ELSE 0
  /\ \A i \in 1 .. pos : i <= Len(f) => w[i] = f[i]
  /\ \A i \in 1 .. Len(data) : w[pos + i] = data[i]
  /\ \A i \in 1 .. Len(f) - pos : w[pos + Len(data) + i] = f[pos + i]

\* That is what write makes of f.
LEMMA WriteIs ==
  ASSUME NEW S, 0 \in S, NEW f \in Seq(S), NEW pos \in Nat, NEW data \in Seq(S)
  PROVE  Write(f, pos, data) \in Seq(S) /\ WithData(f, pos, data, Write(f, pos, data))
<1> DEFINE u == UpTo(f, pos)
           rest == SubSeq(f, pos + 1, Len(f))
           ud == u \o data
           w == ud \o rest
<1>1. /\ u \in Seq(S) /\ Len(u) = pos
      /\ \A i \in 1 .. pos : i <= Len(f) => u[i] = f[i]
  BY UpToIs
<1>2. /\ rest \in Seq(S) /\ Len(rest) = IF pos <= Len(f) THEN Len(f) - pos ELSE 0
      /\ \A i \in 1 .. Len(f) - pos : rest[i] = f[pos + i]
  BY RestIs
<1>3. Write(f, pos, data) = w
  BY DEF Write
<1> HIDE DEF u, rest
<1>4. /\ ud \in Seq(S) /\ Len(ud) = pos + Len(data)
      /\ \A i \in 1 .. pos + Len(data) : ud[i] = IF i <= pos THEN u[i] ELSE data[i - pos]
  BY <1>1, Behind
<1> HIDE DEF ud
<1>5. /\ w \in Seq(S) /\ Len(w) = Len(ud) + Len(rest)
      /\ \A i \in 1 .. Len(ud) + Len(rest) : w[i] = IF i <= Len(ud) THEN ud[i] ELSE rest[i - Len(ud)]
  BY <1>2, <1>4, Behind
<1> HIDE DEF w
<1>6. Len(data) \in Nat /\ Len(f) \in Nat
  OBVIOUS
<1>7. Len(w) = pos + Len(data) + IF pos <= Len(f) THEN Len(f) - pos ELSE 0
  BY <1>2, <1>4, <1>5
<1>8. ASSUME NEW i \in 1 .. pos, i <= Len(f) PROVE w[i] = f[i]
  <2>1. i \in 1 .. pos + Len(data) /\ i \in 1 .. Len(ud) + Len(rest) /\ i <= Len(ud)
    BY <1>2, <1>4, <1>6
  <2> QED
    BY <1>1, <1>4, <1>5, <1>8, <2>1
<1>9. ASSUME NEW i \in 1 .. Len(data) PROVE w[pos + i] = data[i]
  <2>1. pos + i \in 1 .. pos + Len(data) /\ ~ (pos + i <= pos) /\ pos + i - pos = i
    BY <1>6
  <2>2. pos + i \in 1 .. Len(ud) + Len(rest) /\ pos + i <= Len(ud)
    <3>1. Len(rest) \in Nat
      BY <1>2
    <3> QED
      BY <1>4, <1>6, <2>1, <3>1
  <2> QED
    BY <1>4, <1>5, <2>1, <2>2
<1>10. ASSUME NEW i \in 1 .. Len(f) - pos PROVE w[pos + Len(data) + i] = f[pos + i]
  <2> DEFINE at == pos + Len(data) + i
  <2>1. /\ at \in 1 .. Len(ud) + Len(rest) /\ ~ (at <= Len(ud)) /\ at - Len(ud) = i
    BY <1>2, <1>4, <1>6
  <2> QED
    BY <1>2, <1>5, <2>1
<1> QED
  BY <1>3, <1>5, <1>7, <1>8, <1>9, <1>10 DEF WithData

\* remove takes size bytes out at pos.
LEMMA RemoveIs ==
  ASSUME NEW S, 0 \in S, NEW f \in Seq(S), NEW pos \in Nat, NEW size \in Nat
  PROVE  LET w == RemoveBytes(f, pos, size)
         IN /\ w \in Seq(S)
            /\ Len(w) = pos + IF pos + size <= Len(f) THEN Len(f) - (pos + size) ELSE 0
            /\ \A i \in 1 .. pos : i <= Len(f) => w[i] = f[i]
            /\ \A i \in 1 .. Len(f) - (pos + size) : w[pos + i] = f[pos + size + i]
<1> DEFINE u == UpTo(f, pos)
           rest == SubSeq(f, pos + size + 1, Len(f))
           w == u \o rest
<1>1. /\ u \in Seq(S) /\ Len(u) = pos
      /\ \A i \in 1 .. pos : i <= Len(f) => u[i] = f[i]
  BY UpToIs
<1>2. /\ rest \in Seq(S) /\ Len(rest) = IF pos + size <= Len(f) THEN Len(f) - (pos + size) ELSE 0
      /\ \A i \in 1 .. Len(f) - (pos + size) : rest[i] = f[pos + size + i]
  <2>1. pos + size \in Nat
    OBVIOUS
  <2> QED
    BY <2>1, RestIs
<1>3. RemoveBytes(f, pos, size) = w
  BY DEF RemoveBytes
<1> HIDE DEF u, rest
<1>4. /\ w \in Seq(S) /\ Len(w) = Len(u) + Len(rest)
      /\ \A i \in 1 .. Len(u) + Len(rest) : w[i] = IF i <= Len(u) THEN u[i] ELSE rest[i - Len(u)]
  BY <1>1, <1>2, Behind
<1> HIDE DEF w
<1>5. Len(f) \in Nat
  OBVIOUS
<1>6. ASSUME NEW i \in 1 .. pos, i <= Len(f) PROVE w[i] = f[i]
  <2>1. i \in 1 .. Len(u) + Len(rest) /\ i <= Len(u)
    BY <1>1, <1>2, <1>5
  <2> QED
    BY <1>1, <1>4, <1>6, <2>1
<1>7. ASSUME NEW i \in 1 .. Len(f) - (pos + size) PROVE w[pos + i] = f[pos + size + i]
  <2>1. pos + i \in 1 .. Len(u) + Len(rest) /\ ~ (pos + i <= Len(u)) /\ pos + i - Len(u) = i
    BY <1>1, <1>2, <1>5
  <2>2. w[pos + i] = rest[i]
    BY <1>4, <2>1
  <2>3. rest[i] = f[pos + size + i]
    BY <1>2
  <2> QED
    BY <2>2, <2>3
<1> QED
  BY <1>1, <1>2, <1>3, <1>4, <1>6, <1>7

\* The least member of a set.
LEMMA MinIn ==
  ASSUME NEW S \in SUBSET Nat, S # {}
  PROVE  Min(S) \in S /\ \A x \in S : Min(S) <= x
<1>1. PICK m \in S : \A x \in S : m <= x
  BY SmallestNat
<1> QED
  BY <1>1 DEF Min

\* A table of the file.
IsTableOf(r) == DOMAIN r \subseteq Positions /\ \A q \in DOMAIN r : r[q] \in Row

\* It has finitely many rows.
LEMMA TableFinite ==
  ASSUME NEW r, IsTableOf(r)
  PROVE  IsTable(r)
<1>1. MaxLength \in Nat /\ Positions = 0 .. MaxLength
  BY EditsAssumption DEF Positions
<1>2. IsFiniteSet(Positions)
  BY <1>1, FS_Interval
<1>3. IsFiniteSet(DOMAIN r)
  BY <1>2, FS_Subset DEF IsTableOf
<1>4. Positions \subseteq Nat
  BY <1>1
<1> QED
  BY <1>3, <1>4 DEF IsTable, IsTableOf

\* Where a fragment goes is a place in the file.
LEMMA PlaceIs ==
  ASSUME NEW S, NEW f \in Seq(S), NEW r, IsTableOf(r), NEW pos \in Nat
  PROVE  PosToWrite(f, r, pos) \in Nat
<1> DEFINE before == {q \in DOMAIN r : q < pos}
           after == {q \in DOMAIN r : q > pos}
<1>1. after \in SUBSET Nat
  BY TableFinite DEF IsTable
<1>2. after # {} => Min(after) \in DOMAIN r
  <2>1. after # {} => Min(after) \in after
    <3> HIDE DEF after
    <3> QED
      BY <1>1, MinIn
  <2> QED
    BY <2>1
<1>3. after # {} => r[Min(after)].storedPos \in Nat
  <2>1. \A q \in DOMAIN r : r[q].storedPos \in Nat
    BY DEF IsTableOf, Row
  <2> QED
    BY <1>2, <2>1
<1>4. PosToWrite(f, r, pos) = CASE before = {} -> 0
                                [] before # {} /\ after = {} -> Len(f)
                                [] OTHER -> r[Min(after)].storedPos
  BY DEF PosToWrite
<1> HIDE DEF before, after
<1>5. Len(f) \in Nat
  OBVIOUS
<1> QED
  BY <1>3, <1>4, <1>5

\* A row more in the table.
LEMMA InsertRowIs ==
  ASSUME NEW r, IsTableOf(r), NEW pos \in Positions, NEW at \in Nat, NEW size \in Nat
  PROVE  IsTableOf(InsertRow(r, pos, at, size))
<1> DEFINE row == [storedPos |-> at, size |-> size]
           ins == [q \in DOMAIN r \cup {pos} |-> IF q \in DOMAIN r THEN r[q] ELSE row]
           m == MoveRows(ins, pos, at, size)
<1>1. DOMAIN ins = DOMAIN r \cup {pos} /\ \A q \in DOMAIN ins : ins[q] \in Row
  <2>1. row \in Row
    BY DEF Row
  <2> QED
    BY <2>1 DEF IsTableOf
<1>2. Positions \in SUBSET Nat /\ DOMAIN ins \in SUBSET Positions
  BY <1>1, EditsAssumption DEF Positions, IsTableOf
<1>3. pos \in DOMAIN ins
  OBVIOUS
<1>4. InsertRow(r, pos, at, size) = m
  BY DEF InsertRow
<1> HIDE DEF ins
<1>5. ASSUME NEW q \in DOMAIN ins, ~ (q <= pos)
      PROVE  ins[Max({p \in DOMAIN ins : p < q})].storedPos \in Nat
  <2> DEFINE T == {p \in DOMAIN ins : p < q}
  <2>1. T \in SUBSET Nat /\ pos \in T /\ q \in Nat /\ \A x \in T : x <= q
    BY <1>2, <1>3, <1>5
  <2>2. Max(T) \in T
    <3> HIDE DEF T
    <3> QED
      BY <2>1, MaxIn
  <2>3. Max(T) \in DOMAIN ins
    BY <2>2
  <2> QED
    BY <1>1, <2>3 DEF Row
<1>6. DOMAIN m = DOMAIN ins
  BY DEF MoveRows
<1>7. ASSUME NEW q \in DOMAIN ins
      PROVE  m[q] \in Row
  <2>1. CASE q <= pos
    BY <1>1, <2>1 DEF MoveRows
  <2>2. CASE ~ (q <= pos)
    <3> DEFINE prev == Max({p \in DOMAIN ins : p < q})
               to == (IF prev <= pos THEN at ELSE ins[prev].storedPos) + size
    <3>1. m[q] = [ins[q] EXCEPT !.storedPos = to]
      BY <2>2 DEF MoveRows
    <3>2. to \in Nat
      <4>1. ins[prev].storedPos \in Nat
        BY <1>5, <2>2
      <4> HIDE DEF prev
      <4> QED
        BY <4>1
    <3> HIDE DEF to
    <3> QED
      BY <1>1, <3>1, <3>2 DEF Row
  <2> QED
    BY <2>1, <2>2
<1> HIDE DEF m
<1> QED
  BY <1>2, <1>4, <1>6, <1>7 DEF IsTableOf

\* A row less.
LEMMA WithoutIs ==
  ASSUME IsTableOf(fragments), NEW pos
  PROVE  IsTableOf(Without(pos))
  BY DEF IsTableOf, Without

\* The table after a download.
LEMMA DownloadedIs ==
  ASSUME NEW n \in 1 .. MaxLength
  PROVE  IsTableOf(DownloadedRows(n))
<1> DEFINE c == ChunkSize
           d == SectionSize
           Offset(k) == IF k * c < n THEN k * c ELSE d * ((n - 1) \div d)
           chunks == 1 .. CeilDiv(n, c)
           K(pos) == Min({j \in chunks : Offset(j) = pos})
           w == [pos \in {Offset(k) : k \in chunks} |->
                   [storedPos |-> (K(pos) - 1) * c, size |-> Min({c, n - (K(pos) - 1) * c})]]
<1>1. c \in Nat \ {0} /\ d \in Nat \ {0} /\ MaxLength \in Nat /\ n \in Nat /\ n >= 1 /\ n <= MaxLength
  BY EditsAssumption
<1>2. DownloadedRows(n) = w
  BY DEF DownloadedRows
<1>3. d * ((n - 1) \div d) \in 0 .. MaxLength
  <2>1. \A a \in Nat : a \div d \in Nat /\ d * (a \div d) <= a /\ d * (a \div d) \in Nat
    BY <1>1
  <2>2. n - 1 \in Nat /\ n - 1 <= MaxLength
    BY <1>1
  <2> HIDE DEF d
  <2>3. d * ((n - 1) \div d) <= n - 1 /\ d * ((n - 1) \div d) \in Nat
    BY <2>1, <2>2
  <2> QED
    BY <1>1, <2>2, <2>3
<1>4. /\ CeilDiv(n, c) \in Nat /\ \A k \in 0 .. CeilDiv(n, c) : k * c \in Nat
      /\ \A k \in chunks : (k - 1) * c \in Nat /\ (k - 1) * c < n
  <2> HIDE DEF c
  <2> QED
    BY <1>1, CeilFacts
<1>5. ASSUME NEW k \in chunks
      PROVE  Offset(k) \in 0 .. MaxLength
  <2>1. k * c \in Nat
    BY <1>4
  <2> HIDE DEF c, d
  <2> QED
    BY <1>1, <1>3, <2>1
<1>6. \A k \in chunks : Offset(k) \in Positions
  BY <1>5 DEF Positions
<1> HIDE DEF Offset
<1>7. ASSUME NEW pos \in {Offset(k) : k \in chunks}
      PROVE  K(pos) \in chunks
  <2> DEFINE T == {j \in chunks : Offset(j) = pos}
  <2>1. T # {}
    BY <1>7
  <2>2. T \in SUBSET Nat
    BY <1>4
  <2>3. Min(T) \in T
    <3> HIDE DEF T
    <3> QED
      BY <2>1, <2>2, MinIn
  <2> QED
    BY <2>3
<1> HIDE DEF K
<1>8. ASSUME NEW pos \in {Offset(k) : k \in chunks}
      PROVE  [storedPos |-> (K(pos) - 1) * c, size |-> Min({c, n - (K(pos) - 1) * c})] \in Row
  <2> DEFINE at == (K(pos) - 1) * c
  <2>1. at \in Nat /\ at < n
    BY <1>4, <1>7
  <2> HIDE DEF at, c
  <2>2. Min({c, n - at}) = IF c <= n - at THEN c ELSE n - at
    BY <1>1, <2>1, MinOfTwo
  <2>3. Min({c, n - at}) \in Nat
    BY <1>1, <2>1, <2>2
  <2> QED
    BY <2>1, <2>3 DEF Row, at
<1> HIDE DEF c, d, chunks
<1>9. DOMAIN w = {Offset(k) : k \in chunks} /\ \A pos \in {Offset(k) : k \in chunks} : w[pos] \in Row
  BY <1>8
<1> HIDE DEF w
<1> QED
  BY <1>2, <1>6, <1>9 DEF IsTableOf

\* A byte of a file.
Cells == Bytes \cup {0}

\* Rows of the chain.
Changes ==
  [num : Nat, prevNum : Nat, type : {"insert", "replace", "remove"}, pos : Positions,
   data : Seq(Cells)]

\* A chain as it should be.
Numbered(c) ==
  /\ c \in Seq(Changes)
  /\ \A i \in 1 .. Len(c) : c[i].num = i - 1 /\ c[i].prevNum = IF i = 1 THEN 0 ELSE i - 2

\* One row more in it, with the next number.
LEMMA ApplyKeeps ==
  ASSUME NEW c, Numbered(c), NEW type \in {"insert", "replace", "remove"},
         NEW pos \in Positions, NEW data \in Seq(Cells)
  PROVE  Numbered(Apply(c, type, pos, data))
<1> DEFINE prev == IF c = <<>> THEN 0 ELSE c[Len(c)].num
           row == [num |-> IF c = <<>> THEN 0 ELSE prev + 1, prevNum |-> prev,
                   type |-> type, pos |-> pos, data |-> data]
           more == Append(c, row)
<1>1. c \in Seq(Changes) /\ Len(c) \in Nat /\ (c = <<>> <=> Len(c) = 0)
  BY EmptySeq DEF Numbered
<1>2. c # <<>> => Len(c) \in 1 .. Len(c) /\ prev = Len(c) - 1
  BY <1>1 DEF Numbered
<1>3. row.num = Len(c) /\ row.prevNum = IF Len(c) = 0 THEN 0 ELSE Len(c) - 1
  BY <1>1, <1>2
<1>4. row \in Changes
  <2>1. row.num \in Nat /\ row.prevNum \in Nat
    BY <1>1, <1>3
  <2>2. prev \in Nat /\ (IF c = <<>> THEN 0 ELSE prev + 1) \in Nat
    BY <2>1
  <2> HIDE DEF prev
  <2> QED
    BY <2>2 DEF Changes
<1>5. Apply(c, type, pos, data) = more
  BY DEF Apply
<1> HIDE DEF row
<1>6. /\ more \in Seq(Changes) /\ Len(more) = Len(c) + 1
      /\ \A i \in 1 .. Len(c) : more[i] = c[i]
      /\ more[Len(c) + 1] = row
  BY <1>1, <1>4, AppendProperties
<1> HIDE DEF more
<1>7. ASSUME NEW i \in 1 .. Len(more)
      PROVE  more[i].num = i - 1 /\ more[i].prevNum = IF i = 1 THEN 0 ELSE i - 2
  <2>1. CASE i = Len(c) + 1
    BY <1>1, <1>3, <1>6, <2>1
  <2>2. CASE i # Len(c) + 1
    <3>1. i \in 1 .. Len(c)
      BY <1>1, <1>6, <2>2
    <3> QED
      BY <1>6, <3>1 DEF Numbered
  <2> QED
    BY <2>1, <2>2
<1> QED
  BY <1>5, <1>6, <1>7 DEF Numbered

\* The chain a file begins with.
LEMMA InitLocalIs ==
  ASSUME NEW f \in Seq(Cells)
  PROVE  Numbered(InitLocal(f))
<1> DEFINE h == HistorySize
           n == Len(f) \div h
           T == {c \in Seq(Changes) : Numbered(c)}
           base == Apply(<<>>, "insert", 0, Zeros(h))
           step == [k \in 1 .. n |-> [c \in T |-> Apply(c, "insert", 0, Part(f, h, k))]]
           Loop(g) == g = [k \in 0 .. n |-> IF k = 0 THEN Apply(<<>>, "insert", 0, Zeros(h))
                                            ELSE Apply(g[k - 1], "insert", 0, Part(f, h, k))]
           chains == CHOOSE g : Loop(g)
<1>1. h \in Nat \ {0} /\ n \in Nat /\ 0 \in Positions
  <2>1. h \in Nat \ {0} /\ Len(f) \in Nat /\ 0 \in Positions
    BY EditsAssumption DEF Positions
  <2>2. \A a \in Nat : a \div h \in Nat
    BY <2>1
  <2> QED
    BY <2>1, <2>2
<1>2. InitLocal(f) = chains[n]
  BY Zenon DEF InitLocal
<1>3. base \in T
  <2>1. Zeros(h) \in Seq(Cells)
    BY <1>1 DEF Zeros, Cells
  <2>2. Numbered(<<>>)
    BY DEF Numbered
  <2>3. Numbered(base)
    BY <1>1, <2>1, <2>2, ApplyKeeps
  <2> QED
    BY <2>3 DEF Numbered
<1>4. ASSUME NEW k \in 1 .. n
      PROVE  Part(f, h, k) \in Seq(Cells)
  <2>1. (k - 1) * h \in Nat /\ k * h \in Nat
    <3>1. k - 1 \in Nat /\ k \in Nat
      BY <1>1
    <3> HIDE DEF h, n
    <3> QED
      BY <1>1, <3>1
  <2> HIDE DEF h, n
  <2>2. Min({k * h, Len(f)}) = IF k * h <= Len(f) THEN k * h ELSE Len(f)
    BY <2>1, MinOfTwo
  <2>3. Min({k * h, Len(f)}) \in Int /\ Min({k * h, Len(f)}) <= Len(f) /\ (k - 1) * h + 1 \in Nat \ {0}
    BY <2>1, <2>2
  <2> QED
    BY <2>3, SubSeqIs DEF Part
<1>5. step \in [1 .. n -> [T -> T]]
  <2>1. ASSUME NEW k \in 1 .. n, NEW c \in T PROVE Apply(c, "insert", 0, Part(f, h, k)) \in T
    <3>1. Numbered(Apply(c, "insert", 0, Part(f, h, k)))
      BY <1>1, <1>4, ApplyKeeps
    <3> QED
      BY <3>1 DEF Numbered
  <2> HIDE DEF T
  <2> QED
    BY <2>1
<1> HIDE DEF h, n
<1>6. PICK g : g \in [0 .. n -> T] /\ g[0] = base /\ \A k \in 1 .. n : g[k] = step[k][g[k - 1]]
  <2>1. n \in Nat
    BY <1>1
  <2>2. \E g : Steps(n, g, T, base, step)
    <3> HIDE DEF base, step, T
    <3> QED
      BY <1>3, <1>5, <2>1, LoopExists
  <2> HIDE DEF base, step, T
  <2> QED
    BY <2>2 DEF Steps
<1>7. ASSUME NEW k \in 1 .. n PROVE g[k] = Apply(g[k - 1], "insert", 0, Part(f, h, k))
  <2>1. g[k - 1] \in T
    <3>1. k - 1 \in 0 .. n
      BY <1>1
    <3> HIDE DEF T
    <3> QED
      BY <1>6, <3>1
  <2> HIDE DEF T
  <2> QED
    BY <1>6, <2>1
<1>8. Loop(g)
  <2> HIDE DEF T
  <2>1. g = [k \in 0 .. n |-> g[k]]
    BY <1>6
  <2>2. \A k \in 0 .. n : k = 0 \/ k \in 1 .. n
    BY <1>1
  <2>3. \A k \in 0 .. n : g[k] = IF k = 0 THEN base ELSE Apply(g[k - 1], "insert", 0, Part(f, h, k))
    BY <1>6, <1>7, <2>2
  <2>4. [k \in 0 .. n |-> g[k]] = [k \in 0 .. n |-> IF k = 0 THEN base ELSE Apply(g[k - 1], "insert", 0, Part(f, h, k))]
    BY <2>3
  <2> QED
    BY <2>1, <2>4
<1>9. Loop(chains)
  <2> HIDE DEF Loop
  <2> QED
    BY <1>8
<1>10. \A k \in 0 .. n : chains[k] = IF k = 0 THEN base ELSE Apply(chains[k - 1], "insert", 0, Part(f, h, k))
  <2> HIDE DEF chains
  <2> QED
    BY <1>9
<1> HIDE DEF chains
<1>11. Follows(n, chains, g)
  <2>1. 0 \in 0 .. n /\ \A k \in 1 .. n : k \in 0 .. n /\ k # 0
    BY <1>1
  <2>2. chains[0] = g[0] /\ \A k \in 1 .. n : chains[k - 1] = g[k - 1] => chains[k] = g[k]
    BY <1>6, <1>7, <1>10, <2>1
  <2> QED
    BY <2>2 DEF Follows
<1>12. n \in 0 .. n
  BY <1>1
<1>13. \A k \in 0 .. n : chains[k] = g[k]
  <2> HIDE DEF T, base, step
  <2>1. n \in Nat
    BY <1>1
  <2> QED
    BY <1>11, <2>1, LoopIs
<1>14. chains[n] \in T
  <2> HIDE DEF T
  <2> QED
    BY <1>6, <1>12, <1>13
<1> QED
  BY <1>2, <1>14

-----------------------------------------------------------------------------
(* Replacing *)

\* What applyChanges does for one row.
Changed(s, p) ==
  CASE ~ s.ok -> s
    [] s.ok /\ p.at < 0 -> [s EXCEPT !.ok = FALSE]
    [] OTHER -> [s EXCEPT !.file = Write(RemoveBytes(@, p.at, Len(p.data)), p.at, p.data)]

\* g is what the loop of applyChanges goes through.
ChangesRun(f, r, pos, data, g) ==
  LET over == Overlapped(r, pos, data)
  IN /\ Len(over) \in Nat
     /\ g = [i \in 0 .. Len(over) |-> g[i]]
     /\ g[0] = [file |-> f, ok |-> TRUE]
     /\ \A i \in 1 .. Len(over) : g[i] = Changed(g[i - 1], Patch(r, over[i], pos, data))

\* applyChanges ends where its loop does.
LEMMA ChangesAre ==
  ASSUME NEW f, NEW r, NEW pos, NEW data, NEW g, ChangesRun(f, r, pos, data, g)
  PROVE  ApplyChanges(f, r, pos, data) = g[Len(Overlapped(r, pos, data))]
<1> DEFINE over == Overlapped(r, pos, data)
           n == Len(over)
           base == [file |-> f, ok |-> TRUE]
           P(i) == Patch(r, over[i], pos, data)
           Loop(h) == h = [i \in 0 .. n |-> IF i = 0 THEN base ELSE Changed(h[i - 1], P(i))]
           done == CHOOSE h : Loop(h)
<1>1. ApplyChanges(f, r, pos, data) = done[n]
  BY Zenon DEF ApplyChanges, Changed
<1>2. /\ n \in Nat /\ g = [i \in 0 .. n |-> g[i]] /\ g[0] = base
      /\ \A i \in 1 .. n : g[i] = Changed(g[i - 1], P(i))
  BY DEF ChangesRun
<1> HIDE DEF P, base, n
<1>3. Loop(g)
  <2>1. \A i \in 0 .. n : i = 0 \/ i \in 1 .. n
    BY <1>2
  <2>2. \A i \in 0 .. n : g[i] = IF i = 0 THEN base ELSE Changed(g[i - 1], P(i))
    BY <1>2, <2>1
  <2>3. [i \in 0 .. n |-> g[i]] = [i \in 0 .. n |-> IF i = 0 THEN base ELSE Changed(g[i - 1], P(i))]
    BY <2>2
  <2> QED
    BY <1>2, <2>3
<1>4. Loop(done)
  <2> HIDE DEF Loop
  <2> QED
    BY <1>3
<1>5. \A i \in 0 .. n : done[i] = IF i = 0 THEN base ELSE Changed(done[i - 1], P(i))
  <2> HIDE DEF done
  <2> QED
    BY <1>4
<1> HIDE DEF done
<1>6. Follows(n, done, g)
  <2>1. 0 \in 0 .. n /\ \A i \in 1 .. n : i \in 0 .. n /\ i # 0
    BY <1>2
  <2>2. done[0] = g[0] /\ \A i \in 1 .. n : done[i - 1] = g[i - 1] => done[i] = g[i]
    BY <1>2, <1>5, <2>1
  <2> QED
    BY <2>2 DEF Follows
<1>7. n \in 0 .. n
  BY <1>2
<1>8. done[n] = g[n]
  BY <1>2, <1>6, <1>7, LoopIs
<1> QED
  BY <1>1, <1>8 DEF n

\* The rows an edit overlaps.
LEMMA OverlappedIs ==
  ASSUME NEW r, IsTable(r), NEW pos \in Nat, NEW data
  PROVE  LET over == Overlapped(r, pos, data)
         IN /\ Len(over) \in Nat
            /\ \A i \in 1 .. Len(over) : over[i] \in DOMAIN r /\ over[i] \in Nat
<1> DEFINE Q == {q \in DOMAIN r : q + r[q].size > pos /\ q < pos + Len(data)}
<1>1. Q \in SUBSET Nat /\ IsFiniteSet(Q)
  BY FS_Subset DEF IsTable
<1>2. \A q \in Q : q \in DOMAIN r
  OBVIOUS
<1>3. Overlapped(r, pos, data) = Ascending(Q)
  BY DEF Overlapped
<1> HIDE DEF Q
<1>4. /\ Cardinality(Q) \in Nat /\ Len(Ascending(Q)) = Cardinality(Q)
      /\ \A i \in 1 .. Cardinality(Q) : Ascending(Q)[i] \in Q /\ Ascending(Q)[i] \in Nat
  BY <1>1, AscendingIs
<1> QED
  BY <1>2, <1>3, <1>4

\* What goes where for a row: a place and a part of the data.
LEMMA PatchIs ==
  ASSUME NEW S, NEW r, IsTable(r), NEW q \in DOMAIN r, NEW pos \in Nat, NEW data \in Seq(S)
  PROVE  Patch(r, q, pos, data).at \in Int /\ Patch(r, q, pos, data).data \in Seq(S)
<1> DEFINE end == pos + Len(data)
           qend == q + r[q].size
           p == Patch(r, q, pos, data)
<1>1. q \in Nat /\ r[q].size \in Nat /\ r[q].storedPos \in Nat /\ Len(data) \in Nat
  BY DEF IsTable, Row
<1>2. CASE q > pos /\ qend < end
  <2> DEFINE a == q - pos + 1
             b == qend - pos
  <2>0. q > pos /\ qend < end /\ ~ (qend > end)
    BY <1>1, <1>2
  <2>1. p.at = r[q].storedPos /\ p.data = SubSeq(data, a, b)
    BY <2>0 DEF Patch
  <2>2. a \in Nat \ {0} /\ b \in Int /\ b <= Len(data)
    BY <1>1, <1>2
  <2> HIDE DEF p, qend, end, a, b
  <2>3. SubSeq(data, a, b) \in Seq(S)
    BY <2>2, SubSeqIs
  <2> QED
    BY <1>1, <2>1, <2>3 DEF p
<1>3. CASE q > pos /\ qend > end
  <2> DEFINE a == q - pos + 1
             b == Len(data)
  <2>0. q > pos /\ qend > end /\ ~ (qend < end)
    BY <1>1, <1>3
  <2>1. p.at = r[q].storedPos /\ p.data = SubSeq(data, a, b)
    BY <2>0 DEF Patch
  <2>2. a \in Nat \ {0} /\ b \in Int /\ b <= Len(data)
    BY <1>1, <1>3
  <2> HIDE DEF p, qend, end, a, b
  <2>3. SubSeq(data, a, b) \in Seq(S)
    BY <2>2, SubSeqIs
  <2> QED
    BY <1>1, <2>1, <2>3 DEF p
<1>4. CASE ~ (q > pos /\ qend < end) /\ ~ (q > pos /\ qend > end)
  <2> DEFINE m == Min({Len(data), qend - pos})
  <2>1. p.at = pos - (q - r[q].storedPos) /\ p.data = SubSeq(data, 1, m)
    BY <1>4 DEF Patch
  <2>2. m = IF Len(data) <= qend - pos THEN Len(data) ELSE qend - pos
    <3>1. qend - pos \in Int
      BY <1>1
    <3> HIDE DEF qend
    <3> QED
      BY <1>1, <3>1, MinOfTwo
  <2>3. m \in Int /\ m <= Len(data) /\ 1 \in Nat \ {0}
    <3>1. qend - pos \in Int
      BY <1>1
    <3> HIDE DEF qend, m
    <3> QED
      BY <1>1, <2>2, <3>1
  <2> HIDE DEF p, qend, end, m
  <2>4. SubSeq(data, 1, m) \in Seq(S)
    BY <2>3, SubSeqIs
  <2> QED
    BY <1>1, <2>1, <2>4 DEF p
<1> HIDE DEF p, qend, end
<1> QED
  BY <1>2, <1>3, <1>4 DEF p

\* One row's change of a file is one.
LEMMA ChangedIs ==
  ASSUME NEW S, 0 \in S, NEW s \in [file : Seq(S), ok : BOOLEAN], NEW p,
         p.at \in Int, p.data \in Seq(S)
  PROVE  Changed(s, p) \in [file : Seq(S), ok : BOOLEAN]
<1>1. CASE ~ s.ok
  BY <1>1 DEF Changed
<1>2. CASE s.ok /\ p.at < 0
  BY <1>2 DEF Changed
<1>3. CASE s.ok /\ ~ (p.at < 0)
  <2>1. p.at \in Nat /\ Len(p.data) \in Nat /\ s.file \in Seq(S)
    BY <1>3
  <2> DEFINE cutOut == RemoveBytes(s.file, p.at, Len(p.data))
             written == Write(cutOut, p.at, p.data)
  <2>2. cutOut \in Seq(S)
    BY <2>1, RemoveIs
  <2>3. written \in Seq(S)
    <3> HIDE DEF cutOut
    <3> QED
      BY <2>1, <2>2, WriteIs
  <2>4. Changed(s, p) = [s EXCEPT !.file = written]
    BY <1>3 DEF Changed
  <2> HIDE DEF written
  <2> QED
    BY <2>3, <2>4
<1> QED
  BY <1>1, <1>2, <1>3

\* Replacing makes a file of a file.
LEMMA ApplyChangesIs ==
  ASSUME NEW S, 0 \in S, NEW f \in Seq(S), NEW r, IsTable(r), NEW pos \in Nat, NEW data \in Seq(S)
  PROVE  ApplyChanges(f, r, pos, data) \in [file : Seq(S), ok : BOOLEAN]
<1> DEFINE over == Overlapped(r, pos, data)
           n == Len(over)
           T == [file : Seq(S), ok : BOOLEAN]
           base == [file |-> f, ok |-> TRUE]
           P(i) == Patch(r, over[i], pos, data)
           step == [i \in 1 .. n |-> [s \in T |-> Changed(s, P(i))]]
<1>1. n \in Nat /\ \A i \in 1 .. n : over[i] \in DOMAIN r
  BY OverlappedIs
<1>2. base \in T
  OBVIOUS
<1>3. \A i \in 1 .. n : P(i).at \in Int /\ P(i).data \in Seq(S)
  BY <1>1, PatchIs
<1> HIDE DEF P, n
<1>4. \A i \in 1 .. n : \A s \in T : Changed(s, P(i)) \in T
  BY <1>3, ChangedIs
<1> HIDE DEF T, base
<1>5. step \in [1 .. n -> [T -> T]]
  BY <1>4
<1>6. \E g : Steps(n, g, T, base, step)
  <2> HIDE DEF step
  <2> QED
    BY <1>1, <1>2, <1>5, LoopExists
<1>7. PICK g : Steps(n, g, T, base, step)
  BY <1>6
<1>8. g \in [0 .. n -> T] /\ g[0] = base /\ \A i \in 1 .. n : g[i] = Changed(g[i - 1], P(i))
  <2>1. g \in [0 .. n -> T] /\ g[0] = base /\ \A i \in 1 .. n : g[i] = step[i][g[i - 1]]
    <3> HIDE DEF step
    <3> QED
      BY <1>7 DEF Steps
  <2>2. \A i \in 1 .. n : i - 1 \in 0 .. n
    BY <1>1
  <2> QED
    BY <2>1, <2>2
<1>9. ChangesRun(f, r, pos, data, g)
  BY <1>1, <1>8 DEF ChangesRun, n, base, P
<1>10. n \in 0 .. n
  BY <1>1
<1> QED
  BY <1>8, <1>9, <1>10, ChangesAre DEF n, T

-----------------------------------------------------------------------------
(* The stored file *)

\* What every edit keeps.
EditsIInv ==
  /\ content \in Seq(Cells)
  /\ IsTableOf(fragments)
  /\ Numbered(chain)
  /\ running \in BOOLEAN

\* A piece consists of bytes, and positions are numbers.
LEMMA PieceIs ==
  /\ \A data \in Pieces : data \in Seq(Cells)
  /\ MaxLength \in Nat /\ Positions = 0 .. MaxLength /\ \A pos \in Positions : pos \in Nat
  /\ 0 \in Cells
<1>1. Pieces \subseteq Seq(Bytes) /\ MaxLength \in Nat
  BY EditsAssumption
<1>2. \A data \in Seq(Bytes) : data \in Seq(Cells)
  BY DEF Cells
<1> QED
  BY <1>1, <1>2 DEF Positions, Cells

\* Whatever way the file came here.
LEMMA EditsBegin ==
  ASSUME EditsInit
  PROVE  EditsIInv
<1>1. PICK n \in 0 .. MaxLength : content \in [1 .. n -> Bytes]
  BY DEF EditsInit
<1>2. n \in Nat /\ n <= MaxLength
  BY <1>1, EditsAssumption
<1>3. content \in Seq(Cells) /\ Len(content) = n
  <2>1. content \in [1 .. n -> Cells]
    BY <1>1 DEF Cells
  <2> QED
    BY <1>2, <2>1
<1>4. content # <<>> => n \in 1 .. MaxLength
  BY <1>2, <1>3, EmptySeq
<1>5. IsTableOf(fragments)
  <2>1. IsTableOf(<<>>)
    BY DEF IsTableOf
  <2>2. CASE content # <<>> /\ fragments = DownloadedRows(Len(content))
    BY <1>3, <1>4, <2>2, DownloadedIs
  <2> QED
    BY <2>1, <2>2 DEF EditsInit, LocalRows
<1>6. Numbered(chain)
  <2>1. Numbered(<<>>)
    BY DEF Numbered
  <2> QED
    BY <1>3, <2>1, InitLocalIs DEF EditsInit
<1> QED
  BY <1>3, <1>5, <1>6 DEF EditsInit, EditsIInv

\* An edit of any kind, one that is killed, or a restart.
LEMMA EditsKeep ==
  ASSUME EditsIInv, [EditsNext]_editsVars
  PROVE  EditsIInv'
<1> USE DEF EditsIInv
<1>1. /\ content \in Seq(Cells) /\ IsTableOf(fragments) /\ IsTable(fragments)
      /\ Numbered(chain) /\ running \in BOOLEAN /\ {TRUE, FALSE} \subseteq BOOLEAN
  BY TableFinite
<1>2. ASSUME NEW pos \in Positions, NEW data \in Pieces, InsertFragment(pos, data)
      PROVE  EditsIInv'
  <2> DEFINE at == PosToWrite(content, fragments, pos)
  <2>1. data \in Seq(Cells) /\ Len(data) \in Nat /\ pos \in Nat /\ 0 \in Cells
    BY PieceIs
  <2>2. at \in Nat
    BY <1>1, <2>1, PlaceIs
  <2>3. /\ content' = Write(content, at, data) /\ fragments' = InsertRow(fragments, pos, at, Len(data))
        /\ chain' = chain /\ running' = running
    BY <1>2 DEF InsertFragment
  <2> HIDE DEF at
  <2>4. content' \in Seq(Cells)
    BY <1>1, <2>1, <2>2, <2>3, WriteIs
  <2>5. IsTableOf(fragments')
    BY <1>1, <2>1, <2>2, <2>3, InsertRowIs
  <2> QED
    BY <1>1, <2>3, <2>4, <2>5 DEF IsTableOf, Numbered
<1>3. ASSUME NEW pos \in Positions, NEW data \in Pieces,
             ReplaceFragment(pos, data) \/ KillInReplace(pos, data)
      PROVE  EditsIInv'
  <2>1. data \in Seq(Cells) /\ pos \in Nat /\ 0 \in Cells
    BY PieceIs
  <2> DEFINE done == ApplyChanges(content, fragments, pos, data)
  <2>2. done \in [file : Seq(Cells), ok : BOOLEAN]
    BY <1>1, <2>1, ApplyChangesIs
  <2>3. /\ chain' = Apply(chain, "replace", pos, data) /\ fragments' = fragments
        /\ running' \in {FALSE, done.ok} /\ content' \in {content, done.file}
    BY <1>3 DEF ReplaceFragment, KillInReplace
  <2> HIDE DEF done
  <2>4. Numbered(chain')
    BY <1>1, <2>1, <2>3, ApplyKeeps
  <2>5. content' \in Seq(Cells) /\ running' \in BOOLEAN
    BY <1>1, <2>2, <2>3
  <2> QED
    BY <1>1, <2>3, <2>4, <2>5 DEF IsTableOf, Numbered
<1>4. ASSUME NEW pos \in Positions, NEW data \in Pieces,
             EditSegment(pos, data) \/ KillInEditSegment(pos, data)
      PROVE  EditsIInv'
  <2>1. data \in Seq(Cells) /\ pos \in Nat /\ 0 \in Cells
    BY PieceIs
  <2> DEFINE w == Write(content, pos, data)
  <2>2. w \in Seq(Cells) /\ Len(w) \in Nat
    <3>1. w \in Seq(Cells)
      BY <1>1, <2>1, WriteIs
    <3> HIDE DEF w
    <3> QED
      BY <3>1
  <2>3. /\ fragments' = fragments /\ chain' = chain /\ running' \in {running, FALSE}
        /\ content' \in {w} \cup {SubSeq(w, 1, n) : n \in pos .. Len(w)}
    BY <1>4 DEF EditSegment, KillInEditSegment, InsertDataChunk
  <2> HIDE DEF w
  <2>4. content' \in Seq(Cells)
    <3>1. CASE content' = w
      BY <2>2, <3>1
    <3>2. ASSUME NEW n \in pos .. Len(w), content' = SubSeq(w, 1, n) PROVE content' \in Seq(Cells)
      <4>1. n \in Int /\ n <= Len(w) /\ 1 \in Nat \ {0}
        BY <2>1, <2>2
      <4> QED
        BY <2>2, <3>2, <4>1, SubSeqIs
    <3> QED
      BY <2>3, <3>1, <3>2
  <2> QED
    BY <1>1, <2>3, <2>4 DEF IsTableOf, Numbered
<1>5. ASSUME NEW pos \in Positions, RemoveFragment(pos) \/ KillInRemove(pos)
      PROVE  EditsIInv'
  <2>1. pos \in Nat /\ 0 \in Cells /\ <<>> \in Seq(Cells)
    BY PieceIs
  <2> DEFINE at == fragments[pos].storedPos
             size == fragments[pos].size
             w == RemoveBytes(content, at, size)
  <2>2. at \in Nat /\ size \in Nat
    BY <1>1, <1>5 DEF RemoveFragment, KillInRemove, IsTableOf, Row
  <2>3. /\ fragments' = Without(pos) /\ content' \in {content, w}
        /\ chain' \in {chain, Apply(chain, "remove", pos, <<>>)} /\ running' \in {running, FALSE}
    BY <1>5 DEF RemoveFragment, KillInRemove
  <2> HIDE DEF at, size
  <2>4. w \in Seq(Cells)
    BY <1>1, <2>1, <2>2, RemoveIs
  <2> HIDE DEF w
  <2>5. Numbered(chain')
    BY <1>1, <2>1, <2>3, ApplyKeeps
  <2>6. IsTableOf(fragments')
    BY <1>1, <2>3, WithoutIs
  <2>7. content' \in Seq(Cells) /\ running' \in BOOLEAN
    BY <1>1, <2>3, <2>4
  <2> QED
    BY <2>5, <2>6, <2>7 DEF IsTableOf, Numbered
<1>6. ASSUME NEW pos \in Positions, NEW size \in 1 .. MaxLength, DeleteSegment(pos, size)
      PROVE  EditsIInv'
  <2>1. pos \in Nat /\ 0 \in Cells /\ size \in Nat
    BY PieceIs
  <2>2. RemoveBytes(content, pos, size) \in Seq(Cells)
    BY <1>1, <2>1, RemoveIs
  <2>3. /\ fragments' = fragments /\ chain' = chain /\ running' = FALSE
        /\ content' \in {content, RemoveBytes(content, pos, size)}
    BY <1>6 DEF DeleteSegment, RemoveDataChunk
  <2>4. content' \in Seq(Cells)
    BY <1>1, <2>2, <2>3
  <2> QED
    BY <1>1, <2>3, <2>4 DEF IsTableOf, Numbered
<1>7. ASSUME EditRemove \/ RestartProcess \/ UNCHANGED editsVars
      PROVE  EditsIInv'
  <2>1. content' = content /\ fragments' = fragments /\ chain' = chain /\ running' \in {running, TRUE, FALSE}
    BY <1>7 DEF EditRemove, RestartProcess, editsVars
  <2> QED
    BY <1>1, <2>1 DEF IsTableOf, Numbered
<1> QED
  BY <1>2, <1>3, <1>4, <1>5, <1>6, <1>7 DEF EditsNext

\* What that means for who reads the file.
LEMMA EditsGood ==
  ASSUME EditsIInv
  PROVE  EditsInv
<1>1. content \in Seq(Cells) /\ IsTable(fragments) /\ IsTableOf(fragments) /\ Numbered(chain)
  BY TableFinite DEF EditsIInv
<1>2. EditsTypeOK
  BY DEF EditsIInv, EditsTypeOK, IsTableOf, Numbered, Changes, Cells
<1>3. ChainNumbered
  <2>1. DOMAIN chain = 1 .. Len(chain) /\ Len(chain) \in Nat
    BY <1>1 DEF Numbered
  <2>2. ASSUME NEW i \in 1 .. Len(chain)
        PROVE  chain[i].num = i - 1 /\ chain[i].prevNum = Max({0, i - 2})
    <3>1. 0 \in Int /\ i - 2 \in Int
      BY <2>1
    <3>2. Max({0, i - 2}) = IF 0 >= i - 2 THEN 0 ELSE i - 2
      BY <3>1, MaxOfTwo
    <3>3. chain[i].num = i - 1 /\ chain[i].prevNum = IF i = 1 THEN 0 ELSE i - 2
      BY <1>1 DEF Numbered
    <3> QED
      BY <2>1, <3>2, <3>3
  <2> QED
    BY <2>1, <2>2 DEF ChainNumbered
<1>4. ServedWhole
  BY <1>1, SectionsServed DEF ServedWhole
<1>5. FragmentsRead
  BY <1>1, TiledRead DEF FragmentsRead
<1> QED
  BY <1>2, <1>3, <1>4, <1>5 DEF EditsInv

\* Whatever edits, kills and restarts a file goes through, its chain of changes
\* stays numbered, who asks for it in sections gets it, and while its table is in
\* order its fragments are it.
THEOREM EditsSafe == EditsSpec => []EditsInv
<1>1. EditsInit => EditsIInv
  BY EditsBegin
<1>2. EditsIInv /\ [EditsNext]_editsVars => EditsIInv'
  BY EditsKeep
<1>3. EditsIInv => EditsInv
  BY EditsGood
<1> QED
  BY <1>1, <1>2, <1>3, PTL DEF EditsSpec

-----------------------------------------------------------------------------
(* Replacing in a table that is in order *)

\* Bytes taken out and as many put in at the same place.
LEMMA PutIs ==
  ASSUME NEW S, 0 \in S, NEW g \in Seq(S), NEW at \in Nat, NEW x \in Seq(S), at + Len(x) <= Len(g)
  PROVE  LET w == Write(RemoveBytes(g, at, Len(x)), at, x)
         IN /\ w \in Seq(S) /\ Len(w) = Len(g)
            /\ \A i \in 1 .. Len(g) : w[i] = IF at < i /\ i <= at + Len(x) THEN x[i - at] ELSE g[i]
<1> DEFINE c == RemoveBytes(g, at, Len(x))
           w == Write(c, at, x)
<1>1. Len(g) \in Nat /\ Len(x) \in Nat
  OBVIOUS
<1>2. /\ c \in Seq(S) /\ Len(c) = at + (Len(g) - (at + Len(x)))
      /\ \A i \in 1 .. at : c[i] = g[i]
      /\ \A i \in 1 .. Len(g) - (at + Len(x)) : c[at + i] = g[at + Len(x) + i]
  <2>1. /\ c \in Seq(S)
        /\ Len(c) = at + IF at + Len(x) <= Len(g) THEN Len(g) - (at + Len(x)) ELSE 0
        /\ \A i \in 1 .. at : i <= Len(g) => c[i] = g[i]
        /\ \A i \in 1 .. Len(g) - (at + Len(x)) : c[at + i] = g[at + Len(x) + i]
    BY <1>1, RemoveIs
  <2> HIDE DEF c
  <2> QED
    BY <1>1, <2>1
<1> HIDE DEF c
<1>3. /\ w \in Seq(S) /\ Len(w) = at + Len(x) + IF at <= Len(c) THEN Len(c) - at ELSE 0
      /\ \A i \in 1 .. at : i <= Len(c) => w[i] = c[i]
      /\ \A i \in 1 .. Len(x) : w[at + i] = x[i]
      /\ \A i \in 1 .. Len(c) - at : w[at + Len(x) + i] = c[at + i]
  <2>1. c \in Seq(S)
    BY <1>2
  <2>2. w \in Seq(S) /\ WithData(c, at, x, w)
    BY <2>1, WriteIs
  <2> HIDE DEF w
  <2> QED
    BY <2>2 DEF WithData
<1> HIDE DEF w
<1>4. Len(w) = Len(g)
  <2>1. Len(c) \in Nat /\ at <= Len(c)
    BY <1>1, <1>2
  <2>2. Len(w) = at + Len(x) + (Len(c) - at)
    BY <1>3, <2>1
  <2> QED
    BY <1>1, <1>2, <2>1, <2>2
<1>5. ASSUME NEW i \in 1 .. Len(g)
      PROVE  w[i] = IF at < i /\ i <= at + Len(x) THEN x[i - at] ELSE g[i]
  <2>1. CASE i <= at
    <3>1. i \in 1 .. at /\ i <= Len(c)
      BY <1>1, <1>2, <2>1
    <3> QED
      BY <1>2, <1>3, <2>1, <3>1
  <2>2. CASE at < i /\ i <= at + Len(x)
    <3>1. i - at \in 1 .. Len(x) /\ at + (i - at) = i
      BY <1>1, <2>2
    <3>2. w[at + (i - at)] = x[i - at]
      BY <1>3, <3>1
    <3> QED
      BY <2>2, <3>1, <3>2
  <2>3. CASE at + Len(x) < i
    <3> DEFINE k == i - (at + Len(x))
    <3>1. /\ k \in 1 .. Len(c) - at /\ k \in 1 .. Len(g) - (at + Len(x)) /\ at + Len(x) + k = i
          /\ ~ (i <= at + Len(x))
      BY <1>1, <1>2, <2>3
    <3> HIDE DEF k
    <3>2. w[at + Len(x) + k] = c[at + k] /\ c[at + k] = g[at + Len(x) + k]
      BY <1>2, <1>3, <3>1
    <3> QED
      BY <3>1, <3>2
  <2> QED
    BY <1>1, <2>1, <2>2, <2>3
<1> QED
  BY <1>3, <1>4, <1>5 DEF c, w

\* f with the first m of data over what it has behind pos.
Over(f, pos, data, m) ==
  [i \in 1 .. Len(f) |-> IF pos < i /\ i <= pos + m THEN data[i - pos] ELSE f[i]]

\* It is a file as long as f.
LEMMA OverIs ==
  ASSUME NEW S, NEW f \in Seq(S), NEW data \in Seq(S), NEW pos \in Nat, NEW m \in 0 .. Len(data)
  PROVE  /\ Over(f, pos, data, m) \in Seq(S) /\ Len(Over(f, pos, data, m)) = Len(f)
         /\ \A i \in 1 .. Len(f) :
              Over(f, pos, data, m)[i] = IF pos < i /\ i <= pos + m THEN data[i - pos] ELSE f[i]
<1>1. Len(f) \in Nat /\ Len(data) \in Nat
  OBVIOUS
<1>2. ASSUME NEW i \in 1 .. Len(f)
      PROVE  (IF pos < i /\ i <= pos + m THEN data[i - pos] ELSE f[i]) \in S
  <2>1. pos < i /\ i <= pos + m => i - pos \in 1 .. Len(data)
    BY <1>1
  <2> QED
    BY <2>1, ElementOfSeq
<1>3. Over(f, pos, data, m) \in [1 .. Len(f) -> S]
  BY <1>2 DEF Over
<1> QED
  BY <1>1, <1>3 DEF Over

\* data fits into f at pos.
FitsIn(S, f, data, pos) ==
  /\ 0 \in S /\ f \in Seq(S) /\ data \in Seq(S) /\ pos \in Nat
  /\ pos + Len(data) <= Len(f)

\* p puts the part of data from a to b where it belongs; the first m are there.
IsPart(data, pos, a, m, b, p) ==
  /\ a \in Nat /\ m \in Nat /\ b \in Nat /\ a <= m /\ m <= b /\ b <= Len(data)
  /\ p.at = pos + a /\ p.data = SubSeq(data, a + 1, b)

\* Such a part makes of the first m the first b.
LEMMA OverStep ==
  ASSUME NEW S, NEW f, NEW data, NEW pos, FitsIn(S, f, data, pos),
         NEW a, NEW m, NEW b, NEW p, IsPart(data, pos, a, m, b, p)
  PROVE  Changed([file |-> Over(f, pos, data, m), ok |-> TRUE], p) =
           [file |-> Over(f, pos, data, b), ok |-> TRUE]
<1> DEFINE g == Over(f, pos, data, m)
           x == p.data
           at == p.at
           w == Write(RemoveBytes(g, at, Len(x)), at, x)
           z == Over(f, pos, data, b)
<1>0. /\ 0 \in S /\ f \in Seq(S) /\ data \in Seq(S) /\ pos \in Nat /\ pos + Len(data) <= Len(f)
      /\ a \in Nat /\ m \in Nat /\ b \in Nat /\ a <= m /\ m <= b /\ b <= Len(data)
      /\ p.at = pos + a /\ p.data = SubSeq(data, a + 1, b)
  BY DEF FitsIn, IsPart
<1> USE <1>0
<1>1. /\ Len(f) \in Nat /\ Len(data) \in Nat /\ m \in 0 .. Len(data) /\ b \in 0 .. Len(data)
      /\ a + 1 \in Nat \ {0} /\ b \in Int /\ pos + a \in Nat
  OBVIOUS
<1>2. /\ g \in Seq(S) /\ Len(g) = Len(f)
      /\ \A i \in 1 .. Len(f) : g[i] = IF pos < i /\ i <= pos + m THEN data[i - pos] ELSE f[i]
  BY <1>1, OverIs
<1>3. /\ z \in Seq(S) /\ Len(z) = Len(f)
      /\ \A i \in 1 .. Len(f) : z[i] = IF pos < i /\ i <= pos + b THEN data[i - pos] ELSE f[i]
  BY <1>1, OverIs
<1>4. /\ x \in Seq(S) /\ Len(x) = b - a
      /\ \A i \in 1 .. b - a : x[i] = data[a + i]
  <2> DEFINE y == SubSeq(data, a + 1, b)
  <2>1. /\ y \in Seq(S) /\ Len(y) = IF a + 1 <= b THEN b - (a + 1) + 1 ELSE 0
        /\ \A i \in 1 .. b - (a + 1) + 1 : y[i] = data[(a + 1) + i - 1]
    <3> DEFINE aa == a + 1
    <3>1. aa \in Nat \ {0} /\ b \in Int /\ b <= Len(data)
      BY <1>1
    <3>2. /\ SubSeq(data, aa, b) \in Seq(S)
          /\ Len(SubSeq(data, aa, b)) = IF aa <= b THEN b - aa + 1 ELSE 0
          /\ \A i \in 1 .. b - aa + 1 : SubSeq(data, aa, b)[i] = data[aa + i - 1]
      <4> HIDE DEF aa
      <4> QED
        BY <3>1, SubSeqIs
    <3> QED
      BY <3>2
  <2> HIDE DEF y
  <2>2. Len(y) = b - a /\ b - (a + 1) + 1 = b - a
    BY <1>1, <2>1
  <2>3. \A i \in 1 .. b - a : (a + 1) + i - 1 = a + i
    BY <1>1
  <2>4. x = y
    BY DEF y
  <2> HIDE DEF x
  <2> QED
    BY <2>1, <2>2, <2>3, <2>4
<1> HIDE DEF g, x, z
<1>5. at = pos + a /\ at \in Nat /\ at + Len(x) <= Len(g)
  BY <1>1, <1>2, <1>4
<1> HIDE DEF at
<1>6. /\ w \in Seq(S) /\ Len(w) = Len(g)
      /\ \A i \in 1 .. Len(g) : w[i] = IF at < i /\ i <= at + Len(x) THEN x[i - at] ELSE g[i]
  <2>1. 0 \in S /\ g \in Seq(S) /\ at \in Nat /\ x \in Seq(S) /\ at + Len(x) <= Len(g)
    BY <1>2, <1>4, <1>5
  <2> QED
    BY ONLY <2>1, PutIs, SMTT(30)
<1>7. Changed([file |-> g, ok |-> TRUE], p) = [file |-> w, ok |-> TRUE]
  <2> DEFINE s == [file |-> g, ok |-> TRUE]
  <2>1. s.ok = TRUE /\ s.file = g /\ s = [file |-> g, ok |-> TRUE]
    OBVIOUS
  <2>2. ~ (p.at < 0)
    BY <1>5 DEF at
  <2> HIDE DEF s
  <2>3. Changed(s, p) = [s EXCEPT !.file = Write(RemoveBytes(s.file, p.at, Len(p.data)), p.at, p.data)]
    BY <2>1, <2>2 DEF Changed
  <2>4. Changed(s, p) = [s EXCEPT !.file = w]
    BY <2>1, <2>3 DEF x, at
  <2> HIDE DEF w
  <2> QED
    BY <2>1, <2>4
<1> HIDE DEF w
<1>8. ASSUME NEW i \in 1 .. Len(f)
      PROVE  w[i] = z[i]
  <2>1. w[i] = IF pos + a < i /\ i <= pos + b THEN x[i - (pos + a)] ELSE g[i]
    <3>1. at + Len(x) = pos + b
      BY <1>1, <1>4, <1>5
    <3>2. w[i] = IF at < i /\ i <= at + Len(x) THEN x[i - at] ELSE g[i]
      BY <1>2, <1>6
    <3> QED
      BY <1>5, <3>1, <3>2
  <2>2. CASE pos + a < i /\ i <= pos + b
    <3>1. i - (pos + a) \in 1 .. b - a /\ a + (i - (pos + a)) = i - pos /\ pos < i
      BY <1>1, <2>2
    <3>2. x[i - (pos + a)] = data[a + (i - (pos + a))]
      BY <1>4, <3>1
    <3> QED
      BY <1>3, <2>1, <2>2, <3>1, <3>2
  <2>3. CASE ~ (pos + a < i /\ i <= pos + b)
    <3>1. (pos < i /\ i <= pos + m) <=> (pos < i /\ i <= pos + b)
      BY <1>1, <2>3
    <3> QED
      BY <1>2, <1>3, <2>1, <2>3, <3>1
  <2> QED
    BY <2>2, <2>3
<1>9. w = z
  BY <1>2, <1>3, <1>6, <1>8, SeqEqual
<1> QED
  BY <1>7, <1>9 DEF g, z

\* All of data over f: only those bytes have changed.
LEMMA OverAll ==
  ASSUME NEW S, NEW f \in Seq(S), NEW data \in Seq(S), NEW pos \in Nat,
         pos + Len(data) <= Len(f)
  PROVE  Over(f, pos, data, Len(data)) =
           SubSeq(f, 1, pos) \o data \o SubSeq(f, pos + Len(data) + 1, Len(f))
<1> DEFINE n == Len(data)
           a == SubSeq(f, 1, pos)
           c == SubSeq(f, pos + n + 1, Len(f))
           ad == a \o data
           w == ad \o c
           z == Over(f, pos, data, n)
<1>1. Len(f) \in Nat /\ n \in Nat /\ n \in 0 .. Len(data)
  OBVIOUS
<1>2. /\ z \in Seq(S) /\ Len(z) = Len(f)
      /\ \A i \in 1 .. Len(f) : z[i] = IF pos < i /\ i <= pos + n THEN data[i - pos] ELSE f[i]
  BY <1>1, OverIs
<1>3. /\ a \in Seq(S) /\ Len(a) = pos /\ \A i \in 1 .. pos : a[i] = f[i]
  <2>1. 1 \in Nat \ {0} /\ pos \in Int /\ pos <= Len(f)
    BY <1>1
  <2>2. /\ a \in Seq(S) /\ Len(a) = IF 1 <= pos THEN pos - 1 + 1 ELSE 0
        /\ \A i \in 1 .. pos - 1 + 1 : a[i] = f[1 + i - 1]
    BY <2>1, SubSeqIs
  <2> HIDE DEF a
  <2> QED
    BY <1>1, <2>2
<1>4. /\ c \in Seq(S) /\ Len(c) = Len(f) - (pos + n)
      /\ \A i \in 1 .. Len(f) - (pos + n) : c[i] = f[pos + n + i]
  <2> DEFINE k == pos + n
  <2>1. k \in Nat
    BY <1>1
  <2>2. /\ SubSeq(f, k + 1, Len(f)) \in Seq(S)
        /\ Len(SubSeq(f, k + 1, Len(f))) = IF k <= Len(f) THEN Len(f) - k ELSE 0
        /\ \A i \in 1 .. Len(f) - k : SubSeq(f, k + 1, Len(f))[i] = f[k + i]
    <3> HIDE DEF k
    <3> QED
      BY <2>1, RestIs
  <2> QED
    BY <1>1, <2>2
<1> HIDE DEF a, c, n, z
<1>5. /\ ad \in Seq(S) /\ Len(ad) = pos + n
      /\ \A i \in 1 .. pos + n : ad[i] = IF i <= pos THEN a[i] ELSE data[i - pos]
  BY <1>3, Behind DEF n
<1> HIDE DEF ad
<1>6. /\ w \in Seq(S) /\ Len(w) = Len(f)
      /\ \A i \in 1 .. Len(f) : w[i] = IF i <= pos + n THEN ad[i] ELSE c[i - (pos + n)]
  <2>1. /\ w \in Seq(S) /\ Len(w) = Len(ad) + Len(c)
        /\ \A i \in 1 .. Len(ad) + Len(c) : w[i] = IF i <= Len(ad) THEN ad[i] ELSE c[i - Len(ad)]
    BY <1>4, <1>5, Behind
  <2>2. Len(ad) + Len(c) = Len(f) /\ Len(ad) = pos + n
    BY <1>1, <1>4, <1>5
  <2> HIDE DEF w
  <2> QED
    BY <2>1, <2>2
<1> HIDE DEF w
<1>7. ASSUME NEW i \in 1 .. Len(f)
      PROVE  z[i] = w[i]
  <2>1. CASE i <= pos
    BY <1>1, <1>2, <1>3, <1>5, <1>6, <2>1
  <2>2. CASE pos < i /\ i <= pos + n
    BY <1>1, <1>2, <1>5, <1>6, <2>2
  <2>3. CASE pos + n < i
    <3>1. i - (pos + n) \in 1 .. Len(f) - (pos + n) /\ pos + n + (i - (pos + n)) = i
      BY <1>1, <2>3
    <3>2. c[i - (pos + n)] = f[i]
      BY <1>4, <3>1
    <3> QED
      BY <1>1, <1>2, <1>6, <2>3, <3>2
  <2> QED
    BY <1>1, <2>1, <2>2, <2>3
<1> QED
  BY <1>2, <1>6, <1>7, SeqEqual DEF z, w, ad, a, c, n

\* Where a row of r ends.
EndOf(r, q) == q + r[q].size

\* The rows of a table in order lie in the file, each begins where it is stored,
\* and where one ends the next one begins or the file ends.
LEMMA TiledRows ==
  ASSUME NEW S, NEW f \in Seq(S), NEW r, IsTable(r), Tiled(f, r)
  PROVE  \A q \in DOMAIN r :
           /\ q \in Nat /\ EndOf(r, q) \in Nat /\ q < EndOf(r, q) /\ EndOf(r, q) <= Len(f)
           /\ r[q].storedPos = q
           /\ EndOf(r, q) < Len(f) => EndOf(r, q) \in DOMAIN r
           /\ \A p \in DOMAIN r : p > q => p >= EndOf(r, q)
<1> DEFINE o == Ascending(DOMAIN r)
           n == Cardinality(DOMAIN r)
<1> SUFFICES ASSUME NEW q \in DOMAIN r
             PROVE  /\ q \in Nat /\ EndOf(r, q) \in Nat /\ q < EndOf(r, q) /\ EndOf(r, q) <= Len(f)
                    /\ r[q].storedPos = q
                    /\ EndOf(r, q) < Len(f) => EndOf(r, q) \in DOMAIN r
                    /\ \A p \in DOMAIN r : p > q => p >= EndOf(r, q)
  OBVIOUS
<1>1. n \in Nat /\ \A x \in DOMAIN r : \E i \in 1 .. n : o[i] = x
  BY AscendingIs DEF IsTable
<1>2. PICK e : TableEnds(f, r, e)
  BY TiledEnds
<1>3. PICK i \in 1 .. n : o[i] = q
  <2> HIDE DEF o, n
  <2> QED
    BY <1>1
<1>4. /\ e \in [0 .. n -> Nat] /\ o[i] = e[i - 1]
      /\ e[i] = e[i - 1] + r[o[i]].size /\ e[i - 1] < e[i] /\ e[i] <= Len(f)
  BY <1>2, <1>3 DEF TableEnds
<1> HIDE DEF o, n
<1>5. EndOf(r, q) = e[i] /\ e[i] \in Nat /\ q = e[i - 1]
  <2>1. i \in 0 .. n
    BY <1>1, <1>3
  <2> QED
    BY <1>3, <1>4, <2>1 DEF EndOf
<1>6. q \in Nat /\ r[q].size \in Nat
  BY DEF IsTable, Row
<1>7. /\ r[q].storedPos = q /\ q + r[q].size \in DOMAIN r \cup {Len(f)}
      /\ \A p \in DOMAIN r : p <= q \/ p >= q + r[q].size
  BY DEF Tiled
<1>8. \A p \in DOMAIN r : p \in Nat
  BY DEF IsTable
<1>9. EndOf(r, q) < Len(f) => EndOf(r, q) \in DOMAIN r
  <2>1. EndOf(r, q) < Len(f) => EndOf(r, q) # Len(f)
    BY <1>5
  <2> QED
    BY <1>7, <2>1 DEF EndOf
<1>10. \A p \in DOMAIN r : p > q => p >= EndOf(r, q)
  BY <1>6, <1>7, <1>8 DEF EndOf
<1> QED
  BY <1>4, <1>5, <1>6, <1>7, <1>9, <1>10

\* The rows that n bytes at pos overlap, in a table in order: the first one holds
\* pos, each of the others begins where the one before ends, and the last one
\* ends at the end of the n bytes or behind it.
LEMMA OverlapIs ==
  ASSUME NEW S, NEW f \in Seq(S), NEW r, IsTable(r), Tiled(f, r),
         NEW pos \in Nat, NEW data, Len(data) \in Nat \ {0}, pos + Len(data) <= Len(f)
  PROVE  LET over == Overlapped(r, pos, data)
             n == Len(over)
             end == pos + Len(data)
         IN /\ n \in Nat \ {0}
            /\ \A i \in 1 .. n : /\ over[i] \in DOMAIN r
                                 /\ over[i] < end /\ pos < EndOf(r, over[i])
            /\ over[1] <= pos
            /\ \A i \in 2 .. n : over[i] = EndOf(r, over[i - 1])
            /\ end <= EndOf(r, over[n])
<1> DEFINE len == Len(data)
           end == pos + len
           Q == {q \in DOMAIN r : q + r[q].size > pos /\ q < pos + len}
           over == Ascending(Q)
           n == Cardinality(Q)
           E(q) == EndOf(r, q)
<1>1. Q \in SUBSET Nat /\ IsFiniteSet(Q)
  BY FS_Subset DEF IsTable
<1>2. Overlapped(r, pos, data) = over
  BY DEF Overlapped
<1>3. \A q : q \in Q <=> q \in DOMAIN r /\ E(q) > pos /\ q < end
  BY DEF EndOf
<1>4. len \in Nat /\ len > 0 /\ end \in Nat /\ Len(f) \in Nat /\ end <= Len(f)
  OBVIOUS
<1>5. \A q \in DOMAIN r :
        /\ q \in Nat /\ E(q) \in Nat /\ q < E(q) /\ E(q) <= Len(f)
        /\ E(q) < Len(f) => E(q) \in DOMAIN r
        /\ \A p \in DOMAIN r : p > q => p >= E(q)
  BY TiledRows
<1> HIDE DEF Q, E
<1>6. /\ n \in Nat /\ Len(over) = n
      /\ \A i \in 1 .. n : over[i] \in Q
      /\ \A i, j \in 1 .. n : i < j => over[i] < over[j]
      /\ \A q \in Q : \E i \in 1 .. n : over[i] = q
  BY <1>1, AscendingIs
<1> HIDE DEF over, n, len, end
<1>7. \E q \in Q : q <= pos
  <2> DEFINE T == {k \in Nat : k <= pos /\ pos - k \in DOMAIN r}
  <2>1. pos \in T
    <3>1. f # <<>>
      BY <1>4 DEF end
    <3>2. 0 \in DOMAIN r
      BY <3>1 DEF Tiled
    <3> QED
      BY <3>2
  <2>2. PICK k \in T : \A j \in T : k <= j
    <3>1. T \in SUBSET Nat /\ T # {}
      BY <2>1
    <3> HIDE DEF T
    <3> QED
      BY <3>1, SmallestNat
  <2>3. /\ k \in Nat /\ k <= pos /\ pos - k \in DOMAIN r /\ pos - k \in Nat /\ pos - k <= pos
        /\ pos < end
    BY <1>4, <2>2 DEF end
  <2>4. E(pos - k) > pos
    <3> SUFFICES ASSUME ~ (E(pos - k) > pos) PROVE FALSE
      OBVIOUS
    <3>1. E(pos - k) \in Nat /\ pos - k < E(pos - k) /\ E(pos - k) <= pos
      BY <1>5, <2>3
    <3>2. E(pos - k) \in DOMAIN r
      <4>1. E(pos - k) < Len(f)
        BY <1>4, <2>3, <3>1
      <4> QED
        BY <1>5, <2>3, <4>1
    <3> DEFINE j == pos - E(pos - k)
    <3>3. j \in Nat /\ j <= pos /\ pos - j = E(pos - k) /\ j < k
      BY <2>3, <3>1
    <3>4. j \in T
      BY <3>2, <3>3
    <3>5. k <= j
      BY <2>2, <3>4
    <3> QED
      BY <2>3, <3>3, <3>5
  <2>5. pos - k \in Q
    BY <1>3, <1>4, <2>3, <2>4
  <2> QED
    BY <2>3, <2>5
<1>8. n # 0 /\ 1 \in 1 .. n /\ n \in 1 .. n
  <2>1. 1 .. n # {}
    BY <1>6, <1>7
  <2> QED
    BY <1>6, <2>1
<1>9. over[1] <= pos
  <2>1. PICK q \in Q : q <= pos
    BY <1>7
  <2>2. PICK i \in 1 .. n : over[i] = q
    BY <1>6
  <2>3. i = 1 \/ 1 < i
    BY <1>6
  <2>4. 1 < i => over[1] < over[i]
    BY <1>6, <1>8
  <2>5. over[1] \in Nat /\ q \in Nat
    BY <1>1, <1>6, <1>8
  <2> QED
    BY <2>1, <2>2, <2>3, <2>4, <2>5
<1>10. ASSUME NEW i \in 1 .. n
       PROVE  /\ over[i] \in DOMAIN r /\ over[i] < end /\ pos < E(over[i])
              /\ over[i] \in Nat /\ E(over[i]) \in Nat /\ over[i] < E(over[i]) /\ E(over[i]) <= Len(f)
  <2>1. over[i] \in Q
    BY <1>6
  <2>2. over[i] \in DOMAIN r /\ over[i] < end /\ E(over[i]) > pos
    BY <1>3, <2>1
  <2> QED
    BY <1>5, <2>2
<1>11. ASSUME NEW i \in 1 .. n, E(over[i]) < end
       PROVE  \E j \in 1 .. n : over[j] = E(over[i])
  <2>1. E(over[i]) \in DOMAIN r
    <3>1. E(over[i]) < Len(f)
      BY <1>4, <1>10, <1>11
    <3> QED
      BY <1>5, <1>10, <3>1
  <2>2. E(E(over[i])) > E(over[i]) /\ E(E(over[i])) \in Nat
    BY <1>5, <2>1
  <2>3. E(E(over[i])) > pos
    BY <1>10, <2>2
  <2>4. E(over[i]) \in Q
    BY <1>3, <1>11, <2>1, <2>3
  <2> QED
    BY <1>6, <2>4
<1>12. ASSUME NEW i \in 2 .. n
       PROVE  over[i] = E(over[i - 1])
  <2>1. i \in 1 .. n /\ i - 1 \in 1 .. n /\ i - 1 < i
    BY <1>6
  <2>2. over[i - 1] < over[i]
    BY <1>6, <2>1
  <2>3. /\ over[i] \in Nat /\ over[i - 1] \in Nat /\ E(over[i - 1]) \in Nat
        /\ over[i - 1] < E(over[i - 1]) /\ over[i] < end
        /\ over[i - 1] \in DOMAIN r /\ over[i] \in DOMAIN r
    BY <1>10, <2>1
  <2>4. over[i] >= E(over[i - 1])
    BY <1>5, <2>2, <2>3
  <2>5. E(over[i - 1]) < end
    BY <1>4, <2>3, <2>4
  <2>6. PICK j \in 1 .. n : over[j] = E(over[i - 1])
    BY <1>11, <2>1, <2>5
  <2>7. ~ (j < i)
    <3> SUFFICES ASSUME j < i PROVE FALSE
      OBVIOUS
    <3>1. j = i - 1 \/ j < i - 1
      BY <1>6, <2>1
    <3>2. j < i - 1 => over[j] < over[i - 1]
      BY <1>6, <2>1
    <3> QED
      BY <2>3, <2>6, <3>1, <3>2
  <2>8. ~ (i < j)
    <3>1. i < j => over[i] < over[j]
      BY <1>6, <2>1
    <3> QED
      BY <2>3, <2>4, <2>6, <3>1
  <2>9. j = i
    BY <1>6, <2>1, <2>7, <2>8
  <2> QED
    BY <2>6, <2>9
<1>13. end <= E(over[n])
  <2> SUFFICES ASSUME E(over[n]) < end PROVE FALSE
    BY <1>4, <1>8, <1>10
  <2>1. PICK j \in 1 .. n : over[j] = E(over[n])
    BY <1>8, <1>11
  <2>2. j = n \/ j < n
    BY <1>6
  <2>3. j < n => over[j] < over[n]
    BY <1>6, <1>8
  <2>4. over[n] < E(over[n]) /\ over[n] \in Nat /\ E(over[n]) \in Nat
    BY <1>8, <1>10
  <2> QED
    BY <2>1, <2>2, <2>3, <2>4
<1> QED
  BY <1>2, <1>6, <1>8, <1>9, <1>10, <1>12, <1>13 DEF E, end, len

\* Nothing of the data over f is f.
LEMMA OverNone ==
  ASSUME NEW S, NEW f \in Seq(S), NEW data \in Seq(S), NEW pos \in Nat
  PROVE  Over(f, pos, data, 0) = f
<1>1. 0 \in 0 .. Len(data) /\ Len(f) \in Nat
  OBVIOUS
<1>2. /\ Over(f, pos, data, 0) \in Seq(S) /\ Len(Over(f, pos, data, 0)) = Len(f)
      /\ \A i \in 1 .. Len(f) :
           Over(f, pos, data, 0)[i] = IF pos < i /\ i <= pos + 0 THEN data[i - pos] ELSE f[i]
  BY <1>1, OverIs
<1>3. \A i \in 1 .. Len(f) : Over(f, pos, data, 0)[i] = f[i]
  <2>1. \A i \in 1 .. Len(f) : ~ (pos < i /\ i <= pos + 0)
    BY <1>1
  <2> QED
    BY <1>2, <2>1
<1> QED
  BY <1>2, <1>3, SeqEqual

\* f with data in place of as many bytes at pos.
Replaced(f, pos, data) ==
  SubSeq(f, 1, pos) \o data \o SubSeq(f, pos + Len(data) + 1, Len(f))

\* In a table in order, replacing writes all of the data where it belongs,
\* whatever fragments it begins and ends in, and nothing else.
LEMMA ReplaceIs ==
  ASSUME NEW S, NEW f, NEW r, IsTable(r), Tiled(f, r),
         NEW pos, NEW data, FitsIn(S, f, data, pos), Len(data) # 0
  PROVE  ApplyChanges(f, r, pos, data) = [file |-> Replaced(f, pos, data), ok |-> TRUE]
<1> DEFINE len == Len(data)
           end == pos + len
           over == Overlapped(r, pos, data)
           n == Len(over)
           E(q) == EndOf(r, q)
           M(i) == IF i = 0 THEN 0 ELSE IF E(over[i]) <= end THEN E(over[i]) - pos ELSE len
           g == [i \in 0 .. n |-> [file |-> Over(f, pos, data, M(i)), ok |-> TRUE]]
<1>0. 0 \in S /\ f \in Seq(S) /\ data \in Seq(S) /\ pos \in Nat /\ pos + Len(data) <= Len(f)
  BY DEF FitsIn
<1> USE <1>0
<1>1. len \in Nat \ {0} /\ Len(f) \in Nat /\ end \in Nat
  OBVIOUS
<1>2. /\ n \in Nat \ {0}
      /\ \A i \in 1 .. n : over[i] \in DOMAIN r /\ over[i] < end /\ pos < E(over[i])
      /\ over[1] <= pos
      /\ \A i \in 2 .. n : over[i] = E(over[i - 1])
      /\ end <= E(over[n])
  BY <1>1, OverlapIs
<1>3. \A q \in DOMAIN r : q \in Nat /\ E(q) \in Nat /\ q < E(q) /\ r[q].storedPos = q
  BY TiledRows
<1>4. \A q : E(q) = q + r[q].size
  BY DEF EndOf
<1> HIDE DEF E, over, n
<1>5. \A i \in 1 .. n : /\ over[i] \in Nat /\ E(over[i]) \in Nat /\ over[i] < E(over[i])
                        /\ over[i] < end /\ pos < E(over[i]) /\ r[over[i]].storedPos = over[i]
  BY <1>2, <1>3
<1>6. M(0) = 0
  OBVIOUS
<1>7. ASSUME NEW i \in 1 .. n
      PROVE  /\ M(i) \in 0 .. len
             /\ M(i - 1) \in 0 .. len /\ M(i - 1) <= M(i)
             /\ M(i) = IF len <= E(over[i]) - pos THEN len ELSE E(over[i]) - pos
             /\ over[i] > pos => M(i - 1) = over[i] - pos
  <2>1. i \in Nat /\ i # 0 /\ (i = 1 \/ i \in 2 .. n)
    BY <1>2
  <2>2. M(i) = IF len <= E(over[i]) - pos THEN len ELSE E(over[i]) - pos
    BY <1>1, <1>5, <2>1
  <2>3. CASE i = 1
    <3>1. M(i - 1) = 0 /\ ~ (over[i] > pos)
      BY <1>1, <1>2, <1>5, <2>3
    <3> QED
      BY <1>1, <1>5, <2>2, <3>1
  <2>4. CASE i \in 2 .. n
    <3>1. i - 1 \in 1 .. n /\ i - 1 # 0
      BY <1>2, <2>4
    <3>2. over[i] = E(over[i - 1])
      BY <1>2, <2>4
    <3>3. M(i - 1) = IF E(over[i - 1]) <= end THEN E(over[i - 1]) - pos ELSE len
      BY <3>1
    <3>4. over[i] \in Nat /\ over[i] < end /\ pos < over[i]
      BY <1>5, <3>1, <3>2
    <3>5. M(i - 1) = over[i] - pos
      BY <1>1, <3>2, <3>3, <3>4
    <3> HIDE DEF M
    <3> QED
      BY <1>1, <1>5, <2>2, <3>4, <3>5
  <2> QED
    BY <2>1, <2>3, <2>4
<1>8. M(n) = len
  <2>1. n \in 1 .. n
    BY <1>2
  <2>2. M(n) = IF len <= E(over[n]) - pos THEN len ELSE E(over[n]) - pos
    BY <1>7, <2>1
  <2> HIDE DEF M
  <2> QED
    BY <1>1, <1>2, <1>5, <2>1, <2>2
<1> HIDE DEF M
<1>9. ASSUME NEW i \in 1 .. n
      PROVE  g[i] = Changed(g[i - 1], Patch(r, over[i], pos, data))
  <2> DEFINE q == over[i]
             qend == q + r[q].size
             p == Patch(r, q, pos, data)
             a0 == M(i - 1)
             b == M(i)
  <2>1. i \in 0 .. n /\ i - 1 \in 0 .. n
    BY <1>2
  <2>2. g[i] = [file |-> Over(f, pos, data, b), ok |-> TRUE] /\ g[i - 1] = [file |-> Over(f, pos, data, a0), ok |-> TRUE]
    BY <2>1
  <2>3. /\ q \in Nat /\ qend \in Nat /\ q < qend /\ q < end /\ pos < qend /\ r[q].storedPos = q
        /\ a0 \in 0 .. len /\ b \in 0 .. len /\ a0 <= b
        /\ b = IF len <= qend - pos THEN len ELSE qend - pos
        /\ q > pos => a0 = q - pos
    BY <1>4, <1>5, <1>7
  <2>4. \E a \in Nat : a <= a0 /\ p.at = pos + a /\ p.data = SubSeq(data, a + 1, b)
    <3>1. CASE q > pos /\ qend < end
      <4>1. ~ (qend > end)
        BY <1>1, <2>3, <3>1
      <4>2. p.at = r[q].storedPos /\ p.data = SubSeq(data, q - pos + 1, qend - pos)
        BY <3>1, <4>1 DEF Patch
      <4> HIDE DEF p, q, qend, b, a0
      <4>3. qend - pos = b /\ a0 = q - pos /\ a0 \in Nat /\ a0 <= a0 /\ q = pos + a0
        BY <1>1, <2>3, <3>1
      <4> QED
        BY <2>3, <4>2, <4>3
    <3>2. CASE q > pos /\ qend > end
      <4>1. ~ (qend < end)
        BY <1>1, <2>3, <3>2
      <4>2. p.at = r[q].storedPos /\ p.data = SubSeq(data, q - pos + 1, Len(data))
        BY <3>2, <4>1 DEF Patch
      <4> HIDE DEF p, q, qend, b, a0
      <4>3. len = b /\ a0 = q - pos /\ a0 \in Nat /\ a0 <= a0 /\ q = pos + a0
        BY <1>1, <2>3, <3>2
      <4> QED
        BY <2>3, <4>2, <4>3
    <3>3. CASE ~ (q > pos /\ qend < end) /\ ~ (q > pos /\ qend > end)
      <4>1. p.at = pos - (q - r[q].storedPos) /\ p.data = SubSeq(data, 1, Min({Len(data), qend - pos}))
        BY <3>3 DEF Patch
      <4>2. Min({Len(data), qend - pos}) = b
        <5>1. qend - pos \in Int /\ Len(data) \in Int
          BY <1>1, <2>3
        <5>2. Min({Len(data), qend - pos}) = IF Len(data) <= qend - pos THEN Len(data) ELSE qend - pos
          <6> HIDE DEF qend
          <6> QED
            BY <5>1, MinOfTwo
        <5> HIDE DEF qend, b
        <5> QED
          BY <2>3, <5>2
      <4>3. pos - (q - r[q].storedPos) = pos + 0 /\ 0 \in Nat /\ 0 <= a0 /\ 0 + 1 = 1
        BY <2>3
      <4> HIDE DEF p, q, qend, b, a0
      <4> QED
        BY <4>1, <4>2, <4>3
    <3> QED
      BY <3>1, <3>2, <3>3
  <2>5. PICK a \in Nat : a <= a0 /\ p.at = pos + a /\ p.data = SubSeq(data, a + 1, b)
    BY <2>4
  <2>6. a0 \in Nat /\ b \in Nat /\ a0 <= b /\ b <= Len(data)
    BY <1>1, <2>3
  <2> HIDE DEF p, q, qend, a0, b, g
  <2>7. Changed([file |-> Over(f, pos, data, a0), ok |-> TRUE], p) = [file |-> Over(f, pos, data, b), ok |-> TRUE]
    <3>1. /\ 0 \in S /\ f \in Seq(S) /\ data \in Seq(S) /\ pos \in Nat /\ pos + Len(data) <= Len(f)
          /\ a \in Nat /\ a0 \in Nat /\ b \in Nat /\ a <= a0 /\ a0 <= b /\ b <= Len(data)
          /\ p.at = pos + a /\ p.data = SubSeq(data, a + 1, b)
      BY <2>5, <2>6
    <3>2. FitsIn(S, f, data, pos) /\ IsPart(data, pos, a, a0, b, p)
      BY <3>1 DEF FitsIn, IsPart
    <3> QED
      BY <3>2, OverStep
  <2> QED
    BY <2>2, <2>7 DEF p, q
<1>10. g[0] = [file |-> f, ok |-> TRUE]
  <2>1. 0 \in 0 .. n
    BY <1>2
  <2>2. g[0] = [file |-> Over(f, pos, data, M(0)), ok |-> TRUE]
    BY <2>1
  <2>3. g[0] = [file |-> Over(f, pos, data, 0), ok |-> TRUE]
    BY <1>6, <2>2
  <2> QED
    <3> HIDE DEF g
    <3> QED
      BY <2>3, OverNone
<1>11. n \in Nat /\ g = [i \in 0 .. n |-> g[i]] /\ n \in 0 .. n
  BY <1>2
<1>12. g[n] = [file |-> Over(f, pos, data, len), ok |-> TRUE]
  BY <1>8, <1>11
<1> HIDE DEF g
<1>13. ChangesRun(f, r, pos, data, g)
  BY <1>9, <1>10, <1>11 DEF ChangesRun, n, over
<1>14. ApplyChanges(f, r, pos, data) = g[n]
  BY <1>13, ChangesAre DEF n, over
<1>15. Over(f, pos, data, len) = Replaced(f, pos, data)
  BY OverAll DEF Replaced
<1> QED
  BY <1>12, <1>14, <1>15

\* A fragment appended to a file whose table is in order leaves it in order.
LEMMA AppendIs ==
  ASSUME NEW S, 0 \in S, NEW f \in Seq(S), NEW r, IsTable(r), Tiled(f, r),
         NEW data \in Seq(S), Len(data) # 0
  PROVE  LET at == PosToWrite(f, r, Len(f))
         IN Tiled(Write(f, at, data), InsertRow(r, Len(f), at, Len(data)))
<1> DEFINE len == Len(f)
           n == Len(data)
           at == PosToWrite(f, r, len)
           row == [storedPos |-> at, size |-> n]
           ins == [q \in DOMAIN r \cup {len} |-> IF q \in DOMAIN r THEN r[q] ELSE row]
           w == Write(f, at, data)
<1>1. len \in Nat /\ n \in Nat /\ n > 0
  OBVIOUS
<1>2. \A q \in DOMAIN r :
        /\ q \in Nat /\ EndOf(r, q) \in Nat /\ q < EndOf(r, q) /\ EndOf(r, q) <= len
        /\ r[q].storedPos = q
        /\ EndOf(r, q) < len => EndOf(r, q) \in DOMAIN r
        /\ \A p \in DOMAIN r : p > q => p >= EndOf(r, q)
  BY TiledRows
<1>3. \A q \in DOMAIN r : q < len /\ q # len /\ r[q].size > 0
  <2>1. \A q \in DOMAIN r : q < len
    <3> SUFFICES ASSUME NEW q \in DOMAIN r PROVE q < len
      OBVIOUS
    <3>1. q \in Nat /\ EndOf(r, q) \in Nat /\ q < EndOf(r, q) /\ EndOf(r, q) <= len
      BY <1>2
    <3> HIDE DEF len
    <3> QED
      BY <1>1, <3>1
  <2> QED
    BY <1>1, <1>2, <2>1 DEF Tiled
<1>4. at = len
  <2>1. {q \in DOMAIN r : q < len} = DOMAIN r /\ {q \in DOMAIN r : q > len} = {}
    <3>1. \A q \in DOMAIN r : q < len /\ ~ (q > len)
      <4> SUFFICES ASSUME NEW q \in DOMAIN r PROVE q < len /\ ~ (q > len)
        OBVIOUS
      <4>1. q \in Nat /\ q < len
        BY <1>2, <1>3
      <4> HIDE DEF len
      <4> QED
        BY <1>1, <4>1
    <3> HIDE DEF len
    <3> QED
      BY <3>1
  <2>2. CASE DOMAIN r = {}
    <3>1. f = <<>>
      BY <2>2 DEF Tiled
    <3> QED
      BY <2>1, <2>2, <3>1 DEF PosToWrite
  <2>3. CASE DOMAIN r # {}
    BY <2>1, <2>3 DEF PosToWrite
  <2> QED
    BY <2>2, <2>3
<1>5. Len(w) = len + n
  <2>1. w \in Seq(S) /\ WithData(f, at, data, w)
    BY <1>1, <1>4, WriteIs
  <2> HIDE DEF w, at
  <2> QED
    BY <1>1, <1>4, <2>1 DEF WithData
<1>6. InsertRow(r, len, at, n) = ins
  <2>1. InsertRow(r, len, at, n) = MoveRows(ins, len, at, n)
    BY DEF InsertRow
  <2> HIDE DEF at, row
  <2>2. DOMAIN ins = DOMAIN r \cup {len} /\ \A q \in DOMAIN ins : q <= len
    BY <1>1, <1>2, <1>3
  <2>3. ins = [q \in DOMAIN ins |-> ins[q]]
    OBVIOUS
  <2> HIDE DEF ins
  <2> QED
    BY <2>1, <2>2, <2>3 DEF MoveRows
<1>7. /\ DOMAIN ins = DOMAIN r \cup {len}
      /\ \A q \in DOMAIN r : ins[q] = r[q]
      /\ ins[len].storedPos = len /\ ins[len].size = n
  BY <1>3, <1>4
<1> HIDE DEF ins, w, at
<1>8. ASSUME NEW q \in DOMAIN ins
      PROVE  /\ ins[q].storedPos = q /\ ins[q].size > 0
             /\ q + ins[q].size \in DOMAIN ins \cup {Len(w)}
             /\ \A p \in DOMAIN ins : p <= q \/ p >= q + ins[q].size
  <2>1. CASE q \in DOMAIN r
    <3>1. ins[q].storedPos = q /\ ins[q].size > 0 /\ q + ins[q].size = EndOf(r, q)
      BY <1>2, <1>3, <1>7, <2>1 DEF EndOf
    <3>2. EndOf(r, q) \in DOMAIN r \cup {len}
      BY <1>1, <1>2, <2>1
    <3>3. ASSUME NEW p \in DOMAIN ins PROVE p <= q \/ p >= EndOf(r, q)
      <4>1. CASE p = len
        BY <1>1, <1>2, <2>1, <4>1
      <4>2. CASE p \in DOMAIN r
        BY <1>2, <2>1, <4>2
      <4> QED
        BY <1>7, <4>1, <4>2
    <3> QED
      BY <1>7, <3>1, <3>2, <3>3
  <2>2. CASE q = len
    <3>1. \A p \in DOMAIN ins : p <= len
      BY <1>1, <1>2, <1>3, <1>7
    <3> QED
      BY <1>1, <1>5, <1>7, <2>2, <3>1
  <2> QED
    BY <1>7, <2>1, <2>2
<1>9. 0 \in DOMAIN ins
  <2>1. f = <<>> => len = 0
    OBVIOUS
  <2>2. f # <<>> => 0 \in DOMAIN r
    BY DEF Tiled
  <2> QED
    BY <1>7, <2>1, <2>2
<1>10. Tiled(w, ins)
  BY <1>8, <1>9 DEF Tiled
<1> QED
  BY <1>6, <1>10 DEF w, at, len, n

\* While the table is in order, replacing changes just the bytes it is about, and
\* appending keeps the order, whatever edits, kills and restarts came before.
THEOREM ReplaceSafe == EditsSpec => []ReplaceExact
<1>1. ASSUME EditsIInv
      PROVE  ReplaceExact
  <2> SUFFICES ASSUME Tiled(content, fragments)
               PROVE  /\ \A pos \in 0 .. Len(content) : \A n \in 1 .. (Len(content) - pos) :
                           ApplyChanges(content, fragments, pos, Marked(n)) =
                             [file |-> SubSeq(content, 1, pos) \o Marked(n) \o SubSeq(content, pos + n + 1, Len(content)),
                              ok |-> TRUE]
                      /\ \A n \in 1 .. MaxLength :
                           LET at == PosToWrite(content, fragments, Len(content))
                           IN Tiled(Write(content, at, Marked(n)), InsertRow(fragments, Len(content), at, n))
    BY DEF ReplaceExact
  <2>0. Tiled(content, fragments)
    OBVIOUS
  <2>1. content \in Seq(Nat) /\ Len(content) \in Nat /\ 0 \in Nat
    <3>1. content \in Seq(Cells) /\ Cells \subseteq Nat
      BY <1>1, EditsAssumption DEF EditsIInv, Cells
    <3>2. content \in Seq(Nat)
      BY <3>1, SeqMonotonic
    <3> QED
      BY <3>2
  <2>2. IsTable(fragments)
    BY <1>1, TableFinite DEF EditsIInv
  <2>3. \A n \in Nat : Marked(n) \in Seq(Nat) /\ Len(Marked(n)) = n
    BY DEF Marked
  <2>4. ASSUME NEW pos \in 0 .. Len(content), NEW n \in 1 .. (Len(content) - pos)
        PROVE  ApplyChanges(content, fragments, pos, Marked(n)) =
                 [file |-> SubSeq(content, 1, pos) \o Marked(n) \o SubSeq(content, pos + n + 1, Len(content)),
                  ok |-> TRUE]
    <3> DEFINE data == Marked(n)
    <3>0. pos \in Nat /\ n \in Nat /\ n # 0 /\ pos + n <= Len(content)
      BY <2>1
    <3>1. data \in Seq(Nat) /\ Len(data) = n
      BY <2>3, <3>0
    <3> HIDE DEF data
    <3>2. Len(data) # 0 /\ pos + Len(data) <= Len(content)
      BY <3>0, <3>1
    <3>3. ApplyChanges(content, fragments, pos, data) = [file |-> Replaced(content, pos, data), ok |-> TRUE]
      <4>1. FitsIn(Nat, content, data, pos)
        BY <2>1, <3>0, <3>1, <3>2 DEF FitsIn
      <4> QED
        BY <2>0, <2>2, <3>2, <4>1, ReplaceIs
    <3>4. Replaced(content, pos, data) = SubSeq(content, 1, pos) \o data \o SubSeq(content, pos + n + 1, Len(content))
      BY <3>1 DEF Replaced
    <3> QED
      BY <3>3, <3>4 DEF data
  <2>5. ASSUME NEW n \in 1 .. MaxLength
        PROVE  LET at == PosToWrite(content, fragments, Len(content))
               IN Tiled(Write(content, at, Marked(n)), InsertRow(fragments, Len(content), at, n))
    <3> DEFINE data == Marked(n)
    <3>1. data \in Seq(Nat) /\ Len(data) = n /\ Len(data) # 0
      BY <2>3, PieceIs
    <3> HIDE DEF data
    <3>2. LET at == PosToWrite(content, fragments, Len(content))
          IN Tiled(Write(content, at, data), InsertRow(fragments, Len(content), at, Len(data)))
      BY <2>1, <2>2, <3>1, AppendIs
    <3> QED
      BY <3>1, <3>2 DEF data
  <2> QED
    BY <2>4, <2>5
<1>2. EditsInit => EditsIInv
  BY EditsBegin
<1>3. EditsIInv /\ [EditsNext]_editsVars => EditsIInv'
  BY EditsKeep
<1>4. EditsIInv => ReplaceExact
  BY <1>1
<1> QED
  BY <1>2, <1>3, <1>4, PTL DEF EditsSpec

-----------------------------------------------------------------------------
(* Exports *)

\* Names a copy can lie under, and what can lie in the target.
Names == StoredFiles \cup (Paths \X (1 .. LastNumber))
Targets == UNION {[D -> StoredFiles \cup {User}] : D \in SUBSET Names}

\* The copies of f.
Held(c, f) == {n \in DOMAIN c : c[n] = f}

\* Why a copy of f may lie under its stored name.
MayStay(c, x, f) == f \in Rowless \cup x \/ FilePath[f] \in Below \/ Free(c, f) = {}

\* A copy of f may have a name that is taken from its path.
NumberedName(c, n, f) == FilePath[f] = n[1] /\ \A k \in 1 .. n[2] : <<n[1], k>> \in DOMAIN c

\* ExportsKept, of a target, the numbers of copies and the files that were cut off.
KeptIn(c, t, x) ==
  /\ c \in Targets /\ t \in [StoredFiles -> Nat]
  /\ \A f \in StoredFiles : IsFiniteSet(Held(c, f)) /\ Cardinality(Held(c, f)) = t[f]
  /\ \A f \in StoredFiles \cap DOMAIN c : MayStay(c, x, f)
  /\ \A n \in DOMAIN c \ StoredFiles : c[n] = User \/ NumberedName(c, n, c[n])

\* A target with one copy more.
LEMMA WithIs ==
  ASSUME NEW c \in Targets, NEW name \in Names, NEW f \in StoredFiles
  PROVE  /\ With(c, name, f) \in Targets
         /\ DOMAIN With(c, name, f) = DOMAIN c \cup {name}
         /\ With(c, name, f)[name] = f
         /\ \A n \in DOMAIN c : n # name => With(c, name, f)[n] = c[n]
<1>1. PICK D \in SUBSET Names : c \in [D -> StoredFiles \cup {User}]
  BY DEF Targets
<1>2. With(c, name, f) \in [D \cup {name} -> StoredFiles \cup {User}]
  BY <1>1 DEF With
<1>3. D \cup {name} \in SUBSET Names
  BY <1>1
<1>4. With(c, name, f) \in Targets
  BY <1>2, <1>3 DEF Targets
<1> QED
  BY <1>1, <1>4 DEF With

\* A new name for one copy more loses none.
LEMMA WithKeeps ==
  ASSUME NEW c, NEW t, NEW x, KeptIn(c, t, x), NEW f \in StoredFiles, NEW name \in Names,
         name \notin DOMAIN c, NEW y, x \subseteq y,
         name \in StoredFiles => name = f /\ MayStay(c, y, f),
         name \notin StoredFiles => NumberedName(With(c, name, f), name, f)
  PROVE  KeptIn(With(c, name, f), [t EXCEPT ![f] = @ + 1], y)
<1> DEFINE w == With(c, name, f)
           u == [t EXCEPT ![f] = @ + 1]
<1>1. /\ c \in Targets /\ t \in [StoredFiles -> Nat]
      /\ \A g \in StoredFiles : IsFiniteSet(Held(c, g)) /\ Cardinality(Held(c, g)) = t[g]
      /\ \A g \in StoredFiles \cap DOMAIN c : MayStay(c, x, g)
      /\ \A n \in DOMAIN c \ StoredFiles : c[n] = User \/ NumberedName(c, n, c[n])
  BY DEF KeptIn
<1>2. /\ w \in Targets /\ DOMAIN w = DOMAIN c \cup {name} /\ w[name] = f
      /\ \A n \in DOMAIN c : w[n] = c[n]
  <2>1. /\ w \in Targets /\ DOMAIN w = DOMAIN c \cup {name} /\ w[name] = f
        /\ \A n \in DOMAIN c : n # name => w[n] = c[n]
    BY <1>1, WithIs
  <2>2. \A n \in DOMAIN c : n # name
    OBVIOUS
  <2> HIDE DEF w
  <2> QED
    BY <2>1, <2>2
<1>3. u \in [StoredFiles -> Nat] /\ u[f] = t[f] + 1 /\ \A g \in StoredFiles : g # f => u[g] = t[g]
  BY <1>1
<1>4. name \notin StoredFiles => NumberedName(w, name, f)
  OBVIOUS
<1> HIDE DEF w, u
<1>5. ASSUME NEW g \in StoredFiles
      PROVE  IsFiniteSet(Held(w, g)) /\ Cardinality(Held(w, g)) = u[g]
  <2>1. CASE g = f
    <3>1. Held(w, f) = Held(c, f) \cup {name} /\ name \notin Held(c, f)
      BY <1>2 DEF Held
    <3>2. IsFiniteSet(Held(c, f)) /\ Cardinality(Held(c, f)) = t[f]
      BY <1>1
    <3>3. IsFiniteSet(Held(w, f)) /\ Cardinality(Held(w, f)) = Cardinality(Held(c, f)) + 1
      BY <3>1, <3>2, FS_AddElement
    <3> QED
      BY <1>3, <2>1, <3>2, <3>3
  <2>2. CASE g # f
    <3>1. Held(w, g) = Held(c, g)
      BY <1>2, <2>2 DEF Held
    <3> QED
      BY <1>1, <1>3, <2>2, <3>1
  <2> QED
    BY <2>1, <2>2
<1>6. \A g : Free(w, g) \subseteq Free(c, g)
  BY <1>2 DEF Free
<1>7. ASSUME NEW g \in StoredFiles \cap DOMAIN w
      PROVE  MayStay(w, y, g)
  <2>1. CASE g = name
    <3>1. g = f /\ MayStay(c, y, f)
      BY <2>1
    <3> QED
      BY <1>6, <3>1 DEF MayStay
  <2>2. CASE g # name
    <3>1. MayStay(c, x, g)
      BY <1>1, <1>2, <2>2
    <3> QED
      BY <1>6, <3>1 DEF MayStay
  <2> QED
    BY <2>1, <2>2
<1>8. ASSUME NEW n \in DOMAIN w \ StoredFiles
      PROVE  w[n] = User \/ NumberedName(w, n, w[n])
  <2>1. CASE n = name
    BY <1>2, <1>4, <2>1
  <2>2. CASE n # name
    <3>1. n \in DOMAIN c /\ w[n] = c[n]
      BY <1>2, <2>2
    <3>2. c[n] = User \/ NumberedName(c, n, c[n])
      BY <1>1, <3>1
    <3> QED
      BY <1>2, <3>1, <3>2 DEF NumberedName
  <2> QED
    BY <2>1, <2>2
<1>9. KeptIn(w, u, y)
  BY <1>2, <1>3, <1>5, <1>7, <1>8 DEF KeptIn
<1> QED
  BY <1>9 DEF w, u

\* The name a copy ends under is new, and under its stored name it stays only if
\* there is none left or none to be had.
LEMMA NameIs ==
  ASSUME NEW c \in Targets, NEW x, NEW f \in StoredFiles, f \notin DOMAIN c, NEW name,
         \/ name = f /\ f \notin Rowless /\ FilePath[f] \in Below
         \/ name = FinalName(c, f)
  PROVE  /\ name \in Names /\ name \notin DOMAIN c
         /\ name \in StoredFiles => name = f /\ MayStay(c, x, f)
         /\ name \notin StoredFiles => NumberedName(With(c, name, f), name, f)
<1>1. CASE name = f /\ (f \in Rowless \/ FilePath[f] \in Below \/ Free(c, f) = {})
  BY <1>1 DEF Names, MayStay
<1>2. CASE name = <<FilePath[f], Min(Free(c, f))>> /\ f \notin Rowless /\ Free(c, f) # {}
  <2> DEFINE m == Min(Free(c, f))
  <2>1. LastNumber \in Nat /\ Free(c, f) \subseteq 1 .. LastNumber /\ Free(c, f) \in SUBSET Nat
    BY FolderAssumption DEF Free
  <2>2. m \in Free(c, f) /\ \A k \in Free(c, f) : m <= k
    BY <1>2, <2>1, MinIn
  <2> HIDE DEF m
  <2>3. m \in 1 .. LastNumber /\ <<FilePath[f], m>> \notin DOMAIN c
    BY <2>2 DEF Free
  <2>4. name = <<FilePath[f], m>> /\ name[1] = FilePath[f] /\ name[2] = m
    BY <1>2 DEF m
  <2>5. name \in Paths \X (1 .. LastNumber)
    BY <1>2, <2>3, <2>4 DEF Paths
  <2>6. name \in Names /\ name \notin StoredFiles /\ name \notin DOMAIN c
    BY <2>3, <2>4, <2>5, FolderAssumption DEF Names
  <2>7. DOMAIN With(c, name, f) = DOMAIN c \cup {name}
    BY <2>6, WithIs
  <2>8. ASSUME NEW k \in 1 .. m PROVE <<name[1], k>> \in DOMAIN c \cup {name}
    <3>1. CASE k = m
      BY <2>4, <3>1
    <3>2. CASE k # m
      <4>1. k \in 1 .. LastNumber /\ ~ (m <= k)
        BY <2>1, <2>3, <3>2
      <4>2. k \notin Free(c, f)
        BY <2>2, <4>1
      <4> QED
        BY <2>4, <4>1, <4>2 DEF Free
    <3> QED
      BY <3>1, <3>2
  <2>9. NumberedName(With(c, name, f), name, f)
    BY <2>4, <2>7, <2>8 DEF NumberedName
  <2> QED
    BY <2>6, <2>9
<1> QED
  BY <1>1, <1>2 DEF FinalName

\* What a call of exportFile may have come to.
Underway(x) ==
  {s \in [copies : Targets, times : [StoredFiles -> Nat], ended : BOOLEAN] :
     KeptIn(s.copies, s.times, x)}

\* One file more.
LEMMA ExportOneIs ==
  ASSUME NEW x, NEW s \in Underway(x), NEW f \in StoredFiles
  PROVE  ExportOne(s, f) \in Underway(x)
<1>1. /\ s \in [copies : Targets, times : [StoredFiles -> Nat], ended : BOOLEAN]
      /\ KeptIn(s.copies, s.times, x)
  BY DEF Underway
<1>2. CASE s.ended
  BY <1>2 DEF ExportOne
<1>3. CASE ~ s.ended /\ f \in DOMAIN s.copies
  <2>1. ExportOne(s, f) = [s EXCEPT !.ended = TRUE]
    BY <1>3 DEF ExportOne
  <2> QED
    BY <1>1, <2>1 DEF Underway
<1>4. CASE ~ s.ended /\ f \notin DOMAIN s.copies
  <2> DEFINE throws == f \notin Rowless /\ FilePath[f] \in Below
             name == IF throws THEN f ELSE FinalName(s.copies, f)
             w == With(s.copies, name, f)
             u == [s.times EXCEPT ![f] = @ + 1]
  <2>1. ExportOne(s, f) = [copies |-> w, times |-> u, ended |-> throws]
    BY <1>4 DEF ExportOne
  <2>2. \/ name = f /\ f \notin Rowless /\ FilePath[f] \in Below
        \/ name = FinalName(s.copies, f)
    OBVIOUS
  <2> HIDE DEF name
  <2>3. /\ name \in Names /\ name \notin DOMAIN s.copies
        /\ name \in StoredFiles => name = f /\ MayStay(s.copies, x, f)
        /\ name \notin StoredFiles => NumberedName(With(s.copies, name, f), name, f)
    BY <1>1, <1>4, <2>2, NameIs
  <2>4. KeptIn(w, u, x)
    BY <1>1, <2>3, WithKeeps
  <2>5. throws \in BOOLEAN
    OBVIOUS
  <2> HIDE DEF w, u, throws
  <2>6. w \in Targets /\ u \in [StoredFiles -> Nat]
    BY <2>4 DEF KeptIn
  <2> QED
    BY <2>1, <2>4, <2>5, <2>6 DEF Underway
<1> QED
  BY <1>2, <1>3, <1>4

\* What every call keeps.
FolderIInv ==
  /\ stored \subseteq StoredFiles /\ IsFiniteSet(stored)
  /\ KeptIn(copies, times, cut)

\* One call, for the files in the list.
LEMMA ExportFilesKeep ==
  ASSUME FolderIInv, NEW list, NEW n \in Nat, list \in [1 .. n -> StoredFiles], ExportFiles(list)
  PROVE  FolderIInv'
<1> DEFINE T == Underway(cut)
           base == [copies |-> copies, times |-> times, ended |-> FALSE]
           step == [i \in 1 .. n |-> [s \in T |-> ExportOne(s, list[i])]]
           Loop(h) == h = [i \in 0 .. Len(list) |-> IF i = 0 THEN base ELSE ExportOne(h[i - 1], list[i])]
           after == CHOOSE h : Loop(h)
<1>1. Len(list) = n /\ \A i \in 1 .. n : list[i] \in StoredFiles
  OBVIOUS
<1>2. base \in T
  BY DEF FolderIInv, KeptIn, Underway
<1>3. /\ copies' = after[Len(list)].copies /\ times' = after[Len(list)].times
      /\ stored' = stored /\ cut' = cut
  BY Zenon DEF ExportFiles
<1> HIDE DEF base
<1>4. step \in [1 .. n -> [T -> T]]
  <2>1. \A i \in 1 .. n : \A s \in T : ExportOne(s, list[i]) \in T
    BY <1>1, ExportOneIs
  <2> HIDE DEF T
  <2> QED
    BY <2>1
<1> HIDE DEF T
<1>5. \E g : Steps(n, g, T, base, step)
  <2> HIDE DEF step
  <2> QED
    BY <1>2, <1>4, LoopExists
<1>6. PICK g : Steps(n, g, T, base, step)
  BY <1>5
<1>7. g \in [0 .. n -> T] /\ g[0] = base /\ \A i \in 1 .. n : g[i] = ExportOne(g[i - 1], list[i])
  <2>1. g \in [0 .. n -> T] /\ g[0] = base /\ \A i \in 1 .. n : g[i] = step[i][g[i - 1]]
    <3> HIDE DEF step
    <3> QED
      BY <1>6 DEF Steps
  <2>2. \A i \in 1 .. n : i - 1 \in 0 .. n
    OBVIOUS
  <2> QED
    BY <2>1, <2>2
<1>8. Loop(g)
  <2>1. \A i \in 0 .. n : i = 0 \/ i \in 1 .. n
    OBVIOUS
  <2>2. \A i \in 0 .. n : g[i] = IF i = 0 THEN base ELSE ExportOne(g[i - 1], list[i])
    BY <1>7, <2>1
  <2>3. g = [i \in 0 .. n |-> g[i]]
    BY <1>7
  <2>4. [i \in 0 .. n |-> g[i]] = [i \in 0 .. n |-> IF i = 0 THEN base ELSE ExportOne(g[i - 1], list[i])]
    BY <2>2
  <2> QED
    BY <1>1, <2>3, <2>4
<1>9. Loop(after)
  <2> HIDE DEF Loop
  <2> QED
    BY <1>8
<1>10. \A i \in 0 .. n : after[i] = IF i = 0 THEN base ELSE ExportOne(after[i - 1], list[i])
  <2> HIDE DEF after
  <2> QED
    BY <1>1, <1>9
<1> HIDE DEF after
<1>11. Follows(n, after, g)
  <2>1. 0 \in 0 .. n /\ \A i \in 1 .. n : i \in 0 .. n /\ i # 0
    OBVIOUS
  <2>2. after[0] = g[0] /\ \A i \in 1 .. n : after[i - 1] = g[i - 1] => after[i] = g[i]
    BY <1>7, <1>10, <2>1
  <2> QED
    BY <2>2 DEF Follows
<1>12. n \in 0 .. n
  OBVIOUS
<1>13. after[n] \in T
  BY <1>7, <1>11, <1>12, LoopIs
<1>14. KeptIn(copies', times', cut')
  <2>1. KeptIn(after[n].copies, after[n].times, cut)
    BY <1>13 DEF T, Underway
  <2> QED
    BY <1>1, <1>3, <2>1
<1> QED
  BY <1>3, <1>14 DEF FolderIInv, KeptIn, Held, MayStay, NumberedName, Free

\* A directory the user has files of his own in.
LEMMA FolderBegin ==
  ASSUME FolderInit
  PROVE  FolderIInv
<1>1. PICK names \in SUBSET ((Paths \ Below) \X (1 .. LastNumber)) : copies = [n \in names |-> User]
  BY DEF FolderInit
<1>2. stored = {} /\ times = [f \in StoredFiles |-> 0] /\ IsFiniteSet({}) /\ Cardinality({}) = 0
  BY FS_EmptySet DEF FolderInit
<1>3. /\ names \in SUBSET Names /\ names \cap StoredFiles = {}
      /\ DOMAIN copies = names /\ \A n \in names : copies[n] = User
  <2>1. names \subseteq Paths \X (1 .. LastNumber)
    BY <1>1
  <2> QED
    BY <1>1, <2>1, FolderAssumption DEF Names
<1>4. copies \in Targets
  <2>1. copies \in [names -> StoredFiles \cup {User}]
    BY <1>1
  <2> QED
    BY <1>3, <2>1 DEF Targets
<1>5. ASSUME NEW f \in StoredFiles
      PROVE  IsFiniteSet(Held(copies, f)) /\ Cardinality(Held(copies, f)) = times[f]
  <2>1. Held(copies, f) = {}
    BY <1>3, FolderAssumption DEF Held
  <2> QED
    BY <1>2, <2>1
<1>6. KeptIn(copies, times, cut)
  BY <1>2, <1>3, <1>4, <1>5 DEF KeptIn
<1> QED
  BY <1>2, <1>6 DEF FolderIInv

\* An export of one file or of all, one that is killed, a file that comes, or a start.
LEMMA FolderKeep ==
  ASSUME FolderIInv, [FolderNext]_folderVars
  PROVE  FolderIInv'
<1>1. stored \subseteq StoredFiles /\ IsFiniteSet(stored) /\ KeptIn(copies, times, cut)
  BY DEF FolderIInv
<1>2. ASSUME NEW f \in StoredFiles, ExportFile(f)
      PROVE  FolderIInv'
  <2>1. CASE f \in stored
    <3> DEFINE list == <<f>>
    <3>1. list \in [1 .. 1 -> StoredFiles] /\ 1 \in Nat
      OBVIOUS
    <3>2. ExportFiles(list)
      BY <1>2, <2>1 DEF ExportFile
    <3> HIDE DEF list
    <3> QED
      BY <3>1, <3>2, ExportFilesKeep
  <2>2. CASE f \notin stored
    <3> DEFINE list == <<>>
    <3>1. list \in [1 .. 0 -> StoredFiles] /\ 0 \in Nat
      OBVIOUS
    <3>2. ExportFiles(list)
      BY <1>2, <2>2 DEF ExportFile
    <3> HIDE DEF list
    <3> QED
      BY <3>1, <3>2, ExportFilesKeep
  <2> QED
    BY <2>1, <2>2
<1>3. ASSUME ExportFolder
      PROVE  FolderIInv'
  <2>1. PICK order \in SetToSeqs(stored) : ExportFiles(order)
    BY <1>3 DEF ExportFolder
  <2>2. Cardinality(stored) \in Nat
    BY <1>1, FS_CardinalityType
  <2>3. order \in [1 .. Cardinality(stored) -> StoredFiles]
    <3>1. order \in [1 .. Cardinality(stored) -> stored]
      BY <2>1 DEF SetToSeqs
    <3> QED
      BY <1>1, <3>1
  <2> QED
    BY <2>1, <2>2, <2>3, ExportFilesKeep
<1>4. ASSUME NEW f \in StoredFiles, KillInExport(f)
      PROVE  FolderIInv'
  <2>1. /\ f \notin DOMAIN copies /\ stored' = stored /\ copies' = With(copies, f, f)
        /\ times' = [times EXCEPT ![f] = @ + 1] /\ cut' = cut \cup {f}
    BY <1>4 DEF KillInExport
  <2>2. f \in Names /\ cut \subseteq cut \cup {f} /\ MayStay(copies, cut \cup {f}, f)
    BY DEF Names, MayStay
  <2>3. KeptIn(With(copies, f, f), [times EXCEPT ![f] = @ + 1], cut \cup {f})
    <3> DEFINE y == cut \cup {f}
    <3>1. cut \subseteq y /\ MayStay(copies, y, f) /\ f \in Names
      BY <2>2
    <3> HIDE DEF y
    <3>2. KeptIn(With(copies, f, f), [times EXCEPT ![f] = @ + 1], y)
      BY <1>1, <2>1, <3>1, WithKeeps
    <3> QED
      BY <3>2 DEF y
  <2>4. KeptIn(copies', times', cut')
    BY <2>1, <2>3
  <2> QED
    BY <1>1, <2>1, <2>4 DEF FolderIInv, KeptIn, Held, MayStay, NumberedName, Free
<1>5. ASSUME NEW f \in StoredFiles, Store(f)
      PROVE  FolderIInv'
  <2>1. stored' = stored \cup {f} /\ copies' = copies /\ times' = times /\ cut' = cut
    BY <1>5 DEF Store
  <2>2. IsFiniteSet(stored') /\ stored' \subseteq StoredFiles
    BY <1>1, <2>1, FS_AddElement
  <2>3. KeptIn(copies', times', cut')
    BY <1>1, <2>1
  <2> QED
    BY <2>2, <2>3 DEF FolderIInv, KeptIn, Held, MayStay, NumberedName, Free
<1>6. ASSUME Start \/ UNCHANGED folderVars
      PROVE  FolderIInv'
  <2>1. stored' = stored /\ copies' = copies /\ times' = times /\ cut' = cut
    BY <1>6 DEF Start, folderVars
  <2>2. KeptIn(copies', times', cut') /\ IsFiniteSet(stored') /\ stored' \subseteq StoredFiles
    BY <1>1, <2>1
  <2> QED
    BY <2>2 DEF FolderIInv, KeptIn, Held, MayStay, NumberedName, Free
<1> QED
  BY <1>2, <1>3, <1>4, <1>5, <1>6 DEF FolderNext

\* That no copy is lost, and each has the name it should have.
LEMMA FolderGood ==
  ASSUME FolderIInv
  PROVE  ExportsKept
<1>1. KeptIn(copies, times, cut)
  BY DEF FolderIInv
<1>2. /\ \A f \in StoredFiles : Cardinality(Held(copies, f)) = times[f]
      /\ \A f \in StoredFiles \cap DOMAIN copies : MayStay(copies, cut, f)
      /\ \A n \in DOMAIN copies \ StoredFiles : copies[n] = User \/ NumberedName(copies, n, copies[n])
  BY <1>1 DEF KeptIn
<1> QED
  BY <1>2 DEF ExportsKept, Held, MayStay, NumberedName

\* Whatever is edited, exported and killed, the stored file and the exported
\* copies stay what they should be.
THEOREM StorageSafe == EditsSpec /\ FolderSpec => []StorageInv
<1>1. EditsSpec => []EditsInv
  BY EditsSafe
<1>2. FolderInit => FolderIInv
  BY FolderBegin
<1>3. FolderIInv /\ [FolderNext]_folderVars => FolderIInv'
  BY FolderKeep
<1>4. FolderIInv => ExportsKept
  BY FolderGood
<1>5. EditsInv /\ ExportsKept => StorageInv
  BY DEF StorageInv
<1> QED
  BY <1>1, <1>2, <1>3, <1>4, <1>5, PTL DEF FolderSpec
=============================================================================
