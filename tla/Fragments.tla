----------------------------- MODULE Fragments -----------------------------
(***************************************************************************)
(* The download of one file: a node hears of the file, creates it empty,   *)
(* asks every peer for its segments, and a FragmentWriter puts what        *)
(* arrives into the file and into the table Fragments beside it            *)
(* (fragment_storage.cpp; addFile, requestFile, fetchFragments and         *)
(* threadAddFragment of dfs_controller.cpp).                               *)
(*                                                                         *)
(* Lengths and offsets count sections (DFSB::sectionSize); a last, shorter *)
(* section counts as one.  The right file is <<1, .., FileSections>>, and  *)
(* 0 stands for bytes a resize filled in.                                  *)
(*                                                                         *)
(* FragmentWriter::run executes in a thread of its own, but                *)
(* threadAddFragment waits for it; its signals are queued for the node's   *)
(* event loop, where messages that arrived earlier may come first.         *)
(***************************************************************************)
EXTENDS FragmentStore

CONSTANTS
  NoFile,         \* no file on the disk
  Holders,        \* the node's peers
  HeldChoices,    \* how many sections of the file a peer may have
  ChunkSections,  \* sections per segment message: 401 in the code
  FileSections,   \* sections of the file
  MaxExtra,       \* bound: broadcasts meant for other nodes
  MaxLosses,      \* bound: dropped connections
  MaxRestarts,    \* bound: restarts of the node
  MaxRequests     \* bound: requests after a wrong hash

ASSUME FragmentAssumption ==
  /\ NoFile \notin Seq(Nat)
  /\ ChunkSections \in Nat \ {0}
  /\ FileSections \in Nat \ {0}
  /\ HeldChoices \subseteq 0 .. FileSections
  /\ {MaxExtra, MaxLosses, MaxRestarts, MaxRequests} \subseteq Nat

VARIABLES
  held,       \* sections each peer has: all, or what it has downloaded so far
  file,       \* the file on the disk: NoFile, or its sections
  rows,       \* the table Fragments: offset to [storedPos, size]
  completed,  \* the file is in m_compliteFiles
  signals,    \* queued signals of FragmentWriter
  inbox,      \* inbox[h]: messages from h on their way to the node
  asked,      \* asked[h]: the node's requests on their way to h
  announced,  \* the node has reported the file as downloaded
  extra, losses, restarts, requests   \* what the bounds count

disk == <<file, rows>>
memory == <<completed, signals>>
channels == <<inbox, asked>>
counts == <<extra, losses, restarts, requests>>
vars == <<held, disk, memory, channels, announced, counts>>

Content == [i \in 1 .. FileSections |-> i]
Full(f) == f # NoFile /\ Len(f) = FileSections

-----------------------------------------------------------------------------
(* Messages *)

AddFileMessage == [type |-> "addFile"]

\* The segments of a file of m sections.  The offset of a segment is taken
\* after its data is read: it is where the next segment begins, for the last
\* one where its last section begins.
Segment(m, k) ==
  LET start == (k - 1) * ChunkSections
      stop == start + ChunkSections
  IN IF stop < m
       THEN [type |-> "segment", pos |-> stop, data |-> [i \in 1 .. ChunkSections |-> start + i]]
       ELSE [type |-> "segment", pos |-> m - 1, data |-> [i \in 1 .. (m - start) |-> start + i]]

\* Mutant: the loop ends before the segment that is last.
SegmentsButLast(m) == [k \in 1 .. ((m - 1) \div ChunkSections) |-> Segment(m, k)]

Segments(m) == [k \in 1 .. ((m + ChunkSections - 1) \div ChunkSections) |-> Segment(m, k)]

-----------------------------------------------------------------------------
(* Handlers of the node *)

Broadcast(request) == asked' = [h \in Holders |-> Append(asked[h], request)]

\* addFile: an existing file is left alone, whatever it holds.
AddFile ==
  IF file = NoFile
    THEN /\ file' = <<>>
         /\ Broadcast("segments")
         /\ UNCHANGED <<rows, memory>>
    ELSE UNCHANGED <<disk, memory, asked>>

\* Mutant: the size is taken for the hash.
VerdictUnhashed(f) == IF Full(f) THEN <<"downloaded">> ELSE <<>>

\* What a FragmentWriter reports once the segment is in the file.
Verdict(f) ==
  CASE ~Full(f) -> <<>>
    [] Full(f) /\ f = Content -> <<"downloaded">>
    [] OTHER -> <<"requestFile">>

Insert(msg) ==
  LET pos == PosToWrite(file, rows, msg.pos)
  IN /\ file' = Write(file, pos, msg.data)
     /\ rows' = InsertRow(rows, msg.pos, pos, Len(msg.data))
     /\ signals' = signals \o Verdict(file')

\* Mutant: the size of the file is not looked at before the write.
AddSegmentToFull(msg) ==
  /\ UNCHANGED <<completed, asked>>
  /\ IF file = NoFile \/ completed THEN UNCHANGED <<disk, signals>> ELSE Insert(msg)

\* Mutant: a full file is judged again with every segment.
AddSegmentRechecking(msg) ==
  /\ UNCHANGED <<completed, asked>>
  /\ IF file = NoFile \/ completed THEN UNCHANGED <<disk, signals>>
     ELSE IF Full(file) THEN signals' = signals \o Verdict(file) /\ UNCHANGED disk
     ELSE Insert(msg)

AddSegment(msg) ==
  /\ UNCHANGED <<completed, asked>>
  /\ IF file = NoFile \/ completed
       THEN UNCHANGED <<disk, signals>>
     ELSE IF Full(file)
       THEN signals' = Append(signals, "compliteFile") /\ UNCHANGED disk
     ELSE Insert(msg)

Deliver(h) ==
  /\ inbox[h] # <<>>
  /\ inbox' = [inbox EXCEPT ![h] = Tail(@)]
  /\ LET msg == Head(inbox[h])
     IN IF msg.type = "addFile" THEN AddFile ELSE AddSegment(msg)
  /\ UNCHANGED <<held, announced, counts>>

\* requestFile removes the file, not the table, and asks for it again.
RequestFile ==
  /\ requests < MaxRequests
  /\ requests' = requests + 1
  /\ file' = NoFile
  /\ Broadcast("file")
  /\ UNCHANGED <<completed, announced>>

Downloaded == announced' = TRUE /\ UNCHANGED <<file, completed, asked, requests>>
CompliteFile == completed' = TRUE /\ UNCHANGED <<file, announced, asked, requests>>

HandleSignal ==
  /\ signals # <<>>
  /\ signals' = Tail(signals)
  /\ \/ Head(signals) = "requestFile" /\ RequestFile
     \/ Head(signals) = "downloaded" /\ Downloaded
     \/ Head(signals) = "compliteFile" /\ CompliteFile
  /\ UNCHANGED <<held, rows, inbox, extra, losses, restarts>>

-----------------------------------------------------------------------------
(* Peers *)

\* sendFile and fetchFragments of a peer.  Every message goes to all of its
\* connections: sendMessage does not look at the receiver.
Answer(h, request) ==
  inbox' = [inbox EXCEPT ![h] = @ \o
              CASE request = "file" -> <<AddFileMessage>>
                [] OTHER -> Segments(held[h])]

Serve(h) ==
  /\ asked[h] # <<>>
  /\ asked' = [asked EXCEPT ![h] = Tail(@)]
  /\ Answer(h, Head(asked[h]))
  /\ UNCHANGED <<held, disk, memory, announced, counts>>

\* The same for the request of another node.
ServeOther(h) ==
  /\ extra < MaxExtra
  /\ extra' = extra + 1
  /\ \E request \in {"file", "segments"} : Answer(h, request)
  /\ UNCHANGED <<held, disk, memory, asked, announced, losses, restarts, requests>>

\* A connection drops, with the messages on it.
Lose(h) ==
  /\ losses < MaxLosses
  /\ losses' = losses + 1
  /\ inbox' = [inbox EXCEPT ![h] = <<>>]
  /\ asked' = [asked EXCEPT ![h] = <<>>]
  /\ UNCHANGED <<held, disk, memory, announced, extra, restarts, requests>>

\* Memory and connections go; the file, whole or not, and the table stay.
MemoryLost ==
  /\ restarts < MaxRestarts
  /\ restarts' = restarts + 1
  /\ completed' = FALSE
  /\ signals' = <<>>
  /\ inbox' = [h \in Holders |-> <<>>]
  /\ asked' = [h \in Holders |-> <<>>]
  /\ UNCHANGED <<held, announced, extra, losses, requests>>

Restart == MemoryLost /\ UNCHANGED disk

\* The node is killed while it writes a segment or before it inserts the row.
\* At position 0 a file with content is removed and copied back, elsewhere it is
\* cut and appended to.
PartsOfWrite(f, pos, data) ==
  LET written == Write(f, pos, data)
  IN {SubSeq(written, 1, n) : n \in pos .. Len(written)}
       \cup (IF pos = 0 /\ f # <<>> THEN {NoFile} ELSE {})

KillInInsert(h) ==
  /\ inbox[h] # <<>>
  /\ Head(inbox[h]).type = "segment"
  /\ file # NoFile /\ ~completed /\ ~Full(file)
  /\ LET msg == Head(inbox[h])
     IN file' \in PartsOfWrite(file, PosToWrite(file, rows, msg.pos), msg.data)
  /\ MemoryLost
  /\ UNCHANGED rows

Init ==
  /\ held \in [Holders -> HeldChoices]
  /\ file = NoFile
  /\ rows = <<>>
  /\ completed = FALSE
  /\ signals = <<>>
  /\ \E h \in Holders :
       /\ held[h] = FileSections
       /\ inbox = [g \in Holders |-> IF g = h THEN <<AddFileMessage>> ELSE <<>>]
  /\ asked = [h \in Holders |-> <<>>]
  /\ announced = FALSE
  /\ extra = 0 /\ losses = 0 /\ restarts = 0 /\ requests = 0

Next ==
  \/ \E h \in Holders : Deliver(h) \/ Serve(h)
  \/ HandleSignal
  \/ \E h \in Holders : ServeOther(h) \/ Lose(h) \/ KillInInsert(h)
  \/ Restart

\* Peers answer, messages on a connection that stays arrive, and the event loop
\* delivers the signals queued in it.
Fairness ==
  /\ \A h \in Holders : WF_vars(Deliver(h)) /\ WF_vars(Serve(h))
  /\ WF_vars(HandleSignal)

Spec == Init /\ [][Next]_vars /\ Fairness

-----------------------------------------------------------------------------
(* Properties *)

Signals == {"requestFile", "downloaded", "compliteFile"}

\* The types of what the handlers keep.
TypeOK ==
  /\ file \in Seq(0 .. FileSections) \cup {NoFile}
  /\ DOMAIN rows \subseteq 0 .. FileSections
  /\ \A pos \in DOMAIN rows : rows[pos] \in [storedPos : Nat, size : 1 .. ChunkSections]
  /\ signals \in Seq(Signals)
  /\ completed \in BOOLEAN /\ announced \in BOOLEAN

\* A file the node has reported as downloaded, or is about to, is on the disk
\* and right, whatever repeats, arrives late or is interrupted afterwards.
ReportedIsRight ==
  announced \/ (\E i \in DOMAIN signals : signals[i] = "downloaded") => file = Content

\* requestFile runs some events after the FragmentWriter saw the wrong hash;
\* what it removes then is still that full and wrong file.
RequestStillDue ==
  (\E i \in DOMAIN signals : signals[i] = "requestFile") => Full(file) /\ file # Content

\* No segment gets into a file that is complete; and if the content is right,
\* nothing removes it.
FullFileKept == [][Full(file) => file' = file \/ (file # Content /\ file' = NoFile)]_file

\* One peer has something to send, and nothing else happens.
Undisturbed ==
  /\ extra = 0 /\ losses = 0 /\ restarts = 0
  /\ \A g, h \in Holders : held[g] > 0 /\ held[h] > 0 => g = h

\* In a download from one peer the file is always the beginning of the right
\* one, and every row of the table names bytes of it that follow the row before.
InOrder ==
  Undisturbed /\ file # NoFile =>
    /\ file = SubSeq(Content, 1, Len(file))
    /\ \A pos \in DOMAIN rows :
         /\ rows[pos].storedPos + rows[pos].size <= Len(file)
         /\ rows[pos].storedPos =
              LET before == {q \in DOMAIN rows : q < pos}
              IN IF before = {} THEN 0
                 ELSE rows[Max(before)].storedPos + rows[Max(before)].size

\* Such a download ends, and is reported.
DownloadEnds == <>(announced \/ ~Undisturbed)
=============================================================================
