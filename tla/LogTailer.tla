------------------------------ MODULE LogTailer ------------------------------
(***************************************************************************)
(* The dashboard's log tailer: every five seconds tailLog reads what nginx *)
(* has added to access.log since the last time, and the entries go to the  *)
(* log_entries table.  nginx writes, and logrotate renames or truncates,   *)
(* while the tailer reads; the dashboard may be restarted.                 *)
(*                                                                         *)
(* Offsets count lines; a line is a number in the order nginx writes them. *)
(***************************************************************************)
EXTENDS Naturals, Sequences, SequencesExt

CONSTANTS
  MaxLines,     \* bound: lines nginx writes
  MaxInodes,    \* bound: files access.log is, one after the other
  MaxRestarts,  \* bound: restarts of the dashboard
  MaxCopies,    \* bound: copies of a line in the table are counted up to here
  Truncating,   \* is the log rotated by truncating it (copytruncate)?
  Racing,       \* does nginx write between tailLog's Stat and its last read?
  InsertMayFail \* may the transaction that stores the entries fail?

ASSUME TailerAssumption ==
  /\ MaxLines \in Nat /\ MaxInodes \in Nat \ {0} /\ MaxRestarts \in Nat
  /\ MaxCopies \in Nat /\ MaxCopies > MaxRestarts + 1
  /\ {Truncating, Racing, InsertMayFail} \subseteq BOOLEAN

Lines == 1 .. MaxLines
Inodes == 1 .. MaxInodes

VARIABLES
  files,       \* files[i]: the lines in inode i
  access,      \* the inode called access.log now
  nginx,       \* the inode nginx has open
  written,     \* lines written so far
  lastOffset,  \* the tailer's position ...
  lastInode,   \* ... and the inode it belongs to, 0 before the first read
  reading,     \* the read going on: [inode, from, size], or None
  stored,      \* stored[n]: copies of line n in log_entries
  restarts,    \* restarts so far
  shrunk,      \* history: inodes that have been truncated ...
  late,        \* ... lines scanned by a read whose Stat came before them ...
  refused      \* ... and lines read whose insert failed

past == <<shrunk, late, refused>>
vars == <<files, access, nginx, written, lastOffset, lastInode, reading, stored, restarts,
          past>>

None == [inode |-> 0, from |-> 0, size |-> 0]
Reading == [inode : 0 .. MaxInodes, from : 0 .. MaxLines, size : 0 .. MaxLines]

Init ==
  /\ files = [i \in Inodes |-> <<>>]
  /\ access = 1
  /\ nginx = 1
  /\ written = 0
  /\ lastOffset = 0
  /\ lastInode = 0
  /\ reading = None
  /\ stored = [n \in Lines |-> 0]
  /\ restarts = 0
  /\ shrunk = {} /\ late = {} /\ refused = {}

-----------------------------------------------------------------------------
\* nginx and logrotate.
NginxLogs ==
  /\ written < MaxLines
  /\ Racing \/ reading = None
  /\ written' = written + 1
  /\ files' = [files EXCEPT ![nginx] = Append(@, written + 1)]
  /\ UNCHANGED <<access, nginx, lastOffset, lastInode, reading, stored, restarts, past>>

\* logrotate renames the file and creates a new one; nginx goes on writing to
\* the old one until it is told to reopen its logs.
RotateByRename ==
  /\ access < MaxInodes /\ nginx = access
  /\ access' = access + 1
  /\ UNCHANGED <<files, nginx, written, lastOffset, lastInode, reading, stored, restarts, past>>

NginxReopens ==
  /\ nginx # access
  /\ nginx' = access
  /\ UNCHANGED <<files, access, written, lastOffset, lastInode, reading, stored, restarts, past>>

RotateByTruncating ==
  /\ Truncating
  /\ Racing \/ reading = None
  /\ files[access] # <<>>
  /\ files' = [files EXCEPT ![access] = <<>>]
  /\ shrunk' = shrunk \union {access}
  /\ UNCHANGED <<access, nginx, written, lastOffset, lastInode, reading, stored, restarts,
                 late, refused>>

-----------------------------------------------------------------------------
\* Wrong: starts at the end of the file, like tail -f.
ReadFromEnd(inode, size) ==
  IF lastInode = 0 THEN size ELSE IF inode # lastInode \/ size < lastOffset THEN 0 ELSE lastOffset

\* Wrong: only the size is looked at, so that a new file that has grown past the
\* old position is read from there.
ReadFromBySize(inode, size) == IF size < lastOffset THEN 0 ELSE lastOffset

\* Where to read from: the beginning of a new or truncated file, or where the
\* last read ended.
ReadFrom(inode, size) ==
  IF (lastInode # 0 /\ inode # lastInode) \/ size < lastOffset THEN 0 ELSE lastOffset

\* Wrong: the new file is noticed only when it has outgrown the old one.
MovePositionForward(offset, inode) ==
  IF offset > lastOffset
  THEN lastOffset' = offset /\ lastInode' = inode
  ELSE UNCHANGED <<lastOffset, lastInode>>

\* The loop takes tailLog's answer unless it is the same inode further back.
MovePosition(offset, inode) ==
  IF offset > lastOffset \/ inode # lastInode
  THEN lastOffset' = offset /\ lastInode' = inode
  ELSE UNCHANGED <<lastOffset, lastInode>>

\* tailLog opens the file, stats it and finds nothing to read ...
TailNothing ==
  LET size == Len(files[access])
  IN  /\ reading = None
      /\ size = ReadFrom(access, size)
      /\ MovePosition(size, access)
      /\ UNCHANGED <<files, access, nginx, written, reading, stored, restarts, past>>

\* ... or something, which the open file handle still reads after a rename.
TailBegins ==
  LET size == Len(files[access])
      from == ReadFrom(access, size)
  IN  /\ reading = None
      /\ size # from
      /\ reading' = [inode |-> access, from |-> from, size |-> size]
      /\ UNCHANGED <<files, access, nginx, written, lastOffset, lastInode, stored, restarts,
                     past>>

\* Wrong: one past the end.
PositionPast == reading.size + 1

\* The position after a read is the size stat gave before it.
PositionAfter == reading.size

\* The scanner reads to the end of the file as it is by then; the position is
\* moved first, and a failed insert is only logged.
TailEnds ==
  LET rest(from) == ToSet(SubSeq(files[reading.inode], from + 1, Len(files[reading.inode])))
      entries == rest(reading.from)
  IN  /\ reading # None
      /\ MovePosition(PositionAfter, reading.inode)
      /\ \/ /\ stored' = [n \in Lines |-> IF n \in entries /\ stored[n] < MaxCopies
                                         THEN stored[n] + 1 ELSE stored[n]]
            /\ UNCHANGED refused
         \/ /\ InsertMayFail
            /\ refused' = refused \union entries
            /\ UNCHANGED stored
      /\ late' = late \union rest(reading.size)
      /\ reading' = None
      /\ UNCHANGED <<files, access, nginx, written, restarts, shrunk>>

\* The position lives in the goroutine only.
Restart ==
  /\ restarts < MaxRestarts
  /\ restarts' = restarts + 1
  /\ lastOffset' = 0
  /\ lastInode' = 0
  /\ reading' = None
  /\ UNCHANGED <<files, access, nginx, written, stored, past>>

Tail5s == TailNothing \/ TailBegins \/ TailEnds

Next == NginxLogs \/ NginxReopens \/ RotateByRename \/ RotateByTruncating \/ Tail5s \/ Restart

\* The ticker of a running dashboard keeps firing.
Spec == Init /\ [][Next]_vars /\ WF_vars(Tail5s)

-----------------------------------------------------------------------------
\* Every variable has its type, and the position is never past what was written.
TypeOK ==
  /\ files \in [Inodes -> Seq(Lines)]
  /\ access \in Inodes /\ nginx \in Inodes
  /\ written \in 0 .. MaxLines
  /\ lastOffset \in 0 .. written
  /\ lastInode \in 0 .. MaxInodes
  /\ reading \in Reading
  /\ stored \in [Lines -> 0 .. MaxCopies]
  /\ restarts \in 0 .. MaxRestarts
  /\ shrunk \subseteq Inodes /\ late \subseteq Lines /\ refused \subseteq Lines

\* The position is never ahead of the table: every line of the file before it
\* has been stored, or was refused by the database, so going on from it skips
\* nothing.  (A truncated file that has outgrown the position is another matter.)
NothingSkipped ==
  lastInode \notin {0} \union shrunk =>
    \A k \in DOMAIN files[lastInode] :
      LET line == files[lastInode][k]
      IN  k =< lastOffset => stored[line] > 0 \/ line \in refused

\* No line is stored twice, over any number of rotations and refused inserts; only
\* a restart, which forgets the position, makes one more copy.
AtMostOnce == \A n \in Lines : stored[n] =< 1 + restarts

\* As long as the log is rotated by renaming, over any number of rotations and
\* refused inserts, a line is stored once for every start of the dashboard, which
\* forgets its position; a line nginx wrote during a read may be read by the next too.
OneCopyPerStart ==
  shrunk = {} => \A n \in Lines \ late : stored[n] =< 1 + restarts

\* A line in access.log is in the table some day, whatever its writing races
\* with, unless the database refuses it or the log is rotated away or truncated
\* first.
EveryLineArrives ==
  \A n \in Lines, i \in Inodes :
    (access = i /\ Contains(files[i], n))
      ~> (stored[n] > 0 \/ n \in refused \/ access # i \/ i \in shrunk)

\* Lines are read again only by the first read after a restart, or if nginx wrote
\* them during a read, or in a file that is shorter than the position: after a
\* truncation, until nginx has written as much again.
RereadsOnlyShrunkFile ==
  [][\A n \in Lines : stored[n] > 0 /\ stored'[n] > stored[n] =>
       \/ lastInode = 0 \/ n \in late
       \/ reading.inode = lastInode /\ reading.size < lastOffset]_vars
=============================================================================
