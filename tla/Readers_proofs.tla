----------------------------- MODULE Readers_proofs -----------------------------
(***************************************************************************)
(* Two readers of something that changes under them: what the log tailer   *)
(* stores of the access log, and how often, for any number of lines,       *)
(* rotations and restarts; and what a listing of the channels overlooks or *)
(* reads twice, for any table, any pages and any changes made meanwhile.   *)
(***************************************************************************)
EXTENDS LogTailer, ChannelListing, SequenceTheorems, FiniteSetTheorems, TLAPS

-----------------------------------------------------------------------------
(* The log tailer.                                                         *)

Stored(i, k) == stored[files[i][k]] > 0

\* The files: lines are numbered as they are written, every line is in one place,
\* and a file that access.log has not been yet is empty.
FilesInv ==
  /\ \A i \in Inodes : Len(files[i]) =< written /\ (i > access => files[i] = <<>>)
  /\ \A i \in Inodes : \A k \in DOMAIN files[i] : files[i][k] =< written
  /\ \A i, j \in Inodes : \A k \in DOMAIN files[i], l \in DOMAIN files[j] :
        files[i][k] = files[j][l] => i = j /\ k = l
  /\ \A n \in Lines : stored[n] > 0 => n =< written
  /\ nginx =< access /\ lastInode =< access

\* The position is within its file, unless that was truncated.
PositionInv ==
  /\ lastInode = 0 => lastOffset = 0
  /\ lastInode \notin {0} \union shrunk => lastOffset =< Len(files[lastInode])

\* A read is of the position's file or of a later one, from the position on if
\* there is that much of it.
ReadInv ==
  reading # None =>
    /\ reading.inode \in Inodes /\ reading.inode =< access /\ lastInode =< reading.inode
    /\ reading.size =< written
    /\ reading.inode \notin shrunk => reading.size =< Len(files[reading.inode])
    /\ reading.inode \notin shrunk /\ reading.inode = lastInode => lastOffset =< reading.size
    /\ reading.from = IF reading.inode = lastInode /\ lastOffset =< reading.size
                      THEN lastOffset ELSE 0

\* What is stored has been read: it lies before the end of the read going on, and
\* before the position, unless nginx wrote it during a read.
StoredInv ==
  \A i \in Inodes : \A k \in DOMAIN files[i] : Stored(i, k) =>
    /\ reading # None => i < reading.inode \/ (i = reading.inode /\ k =< reading.size)
    /\ lastInode # 0 /\ files[i][k] \notin late =>
          i < lastInode \/ (i = lastInode /\ k =< lastOffset)

\* The position is past line k of inode i.
Passed(i, k) == lastInode # 0 /\ (i < lastInode \/ (i = lastInode /\ k =< lastOffset))

\* A line the position has not passed has not been stored since the last start.
CopiesInv ==
  shrunk = {} =>
    /\ \A n \in Lines \ late : stored[n] =< 1 + restarts
    /\ \A i \in Inodes : \A k \in DOMAIN files[i] :
          files[i][k] \notin late /\ ~Passed(i, k) => stored[files[i][k]] =< restarts

TailerInv ==
  TypeOK /\ FilesInv /\ PositionInv /\ ReadInv /\ StoredInv /\ CopiesInv /\ NothingSkipped

-----------------------------------------------------------------------------

LEMMA TailerInit == ASSUME TailerAssumption, Init PROVE TailerInv
<1> USE DEF Init
<1>1. TypeOK
  <2>1. files \in [Inodes -> Seq(Lines)]
    BY EmptySeq
  <2> QED BY <2>1, TailerAssumption
          DEF TypeOK, TailerAssumption, Inodes, Lines, Reading, None
<1>2. \A i \in Inodes : files[i] = <<>> /\ Len(files[i]) = 0 /\ DOMAIN files[i] = {}
  OBVIOUS
<1>3. FilesInv /\ StoredInv
  BY <1>2, TailerAssumption DEF FilesInv, StoredInv, Inodes, TailerAssumption
<1>4. PositionInv /\ ReadInv /\ NothingSkipped
  BY DEF PositionInv, ReadInv, NothingSkipped
<1>5. CopiesInv
  BY <1>2 DEF CopiesInv, Lines
<1> QED BY <1>1, <1>3, <1>4, <1>5 DEF TailerInv

\* Some facts that every step needs.
LEMMA Numbers ==
  ASSUME TailerAssumption, TypeOK
  PROVE /\ written \in Nat /\ lastOffset \in Nat /\ lastInode \in Nat /\ restarts \in Nat
        /\ MaxLines \in Nat /\ MaxInodes \in Nat /\ MaxCopies \in Nat
        /\ access \in Nat /\ nginx \in Nat /\ access \in Inodes /\ nginx \in Inodes
        /\ reading.inode \in Nat /\ reading.from \in Nat /\ reading.size \in Nat
        /\ \A n \in Lines : n \in Nat /\ stored[n] \in Nat
        /\ \A i \in Inodes : i \in Nat \ {0} /\ files[i] \in Seq(Lines) /\ Len(files[i]) \in Nat
        /\ \A i \in Inodes : DOMAIN files[i] = 1 .. Len(files[i])
        /\ \A i \in Inodes : \A k \in DOMAIN files[i] : k \in Nat /\ files[i][k] \in Lines
<1>1. /\ written \in Nat /\ lastOffset \in Nat /\ lastInode \in Nat /\ restarts \in Nat
      /\ MaxLines \in Nat /\ MaxInodes \in Nat /\ MaxCopies \in Nat
      /\ access \in Nat /\ nginx \in Nat /\ access \in Inodes /\ nginx \in Inodes
      /\ reading.inode \in Nat /\ reading.from \in Nat /\ reading.size \in Nat
  BY DEF TypeOK, TailerAssumption, Reading, Inodes
<1>2. \A n \in Lines : n \in Nat /\ stored[n] \in Nat
  BY DEF TypeOK, Lines, TailerAssumption
<1>3. \A i \in Inodes : i \in Nat \ {0} /\ files[i] \in Seq(Lines)
  BY DEF TypeOK, Inodes
<1>4. \A i \in Inodes : Len(files[i]) \in Nat /\ DOMAIN files[i] = 1 .. Len(files[i])
  BY <1>3, LenProperties
<1>5. \A i \in Inodes : \A k \in DOMAIN files[i] : k \in Nat /\ files[i][k] \in Lines
  BY <1>3, <1>4, ElementOfSeq
<1> QED BY <1>1, <1>2, <1>3, <1>4, <1>5

\* nginx adds a line that is nowhere else at the end of the file it has open.
LEMMA NewLine ==
  ASSUME TailerAssumption, TypeOK, NginxLogs
  PROVE /\ files' \in [Inodes -> Seq(Lines)] /\ written + 1 \in Lines
        /\ \A i \in Inodes : Len(files[i]) =< Len(files'[i]) /\ Len(files'[i]) =< Len(files[i]) + 1
        /\ \A i \in Inodes : i # nginx => files'[i] = files[i]
        /\ \A i \in Inodes : \A k \in DOMAIN files[i] :
              k \in DOMAIN files'[i] /\ files'[i][k] = files[i][k]
        /\ \A i \in Inodes : \A k \in DOMAIN files'[i] :
              \/ k \in DOMAIN files[i] /\ files'[i][k] = files[i][k]
              \/ i = nginx /\ k = Len(files[i]) + 1 /\ files'[i][k] = written + 1
<1>1. written + 1 \in Lines
  BY DEF NginxLogs, TypeOK, Lines, TailerAssumption
<1>2. /\ \A i \in Inodes : i # nginx => files'[i] = files[i]
      /\ files'[nginx] = Append(files[nginx], written + 1)
      /\ files[nginx] \in Seq(Lines) /\ nginx \in Inodes
  BY DEF NginxLogs, TypeOK
<1>3. /\ files'[nginx] \in Seq(Lines) /\ Len(files'[nginx]) = Len(files[nginx]) + 1
      /\ Len(files[nginx]) \in Nat
      /\ \A k \in 1 .. Len(files[nginx]) : files'[nginx][k] = files[nginx][k]
      /\ files'[nginx][Len(files[nginx]) + 1] = written + 1
  BY <1>1, <1>2, AppendProperties, LenProperties
<1>4. files' \in [Inodes -> Seq(Lines)]
  BY <1>1, <1>2, <1>3 DEF NginxLogs, TypeOK
<1>5. \A i \in Inodes : /\ Len(files[i]) \in Nat /\ DOMAIN files[i] = 1 .. Len(files[i])
                        /\ DOMAIN files'[i] = 1 .. Len(files'[i])
  BY <1>4, LenProperties DEF TypeOK
<1>6. \A i \in Inodes : Len(files[i]) =< Len(files'[i]) /\ Len(files'[i]) =< Len(files[i]) + 1
  <2>1. \A i \in Inodes : Len(files[i]) \in Nat
    BY <1>5
  <2>2. ASSUME NEW i \in Inodes
        PROVE  Len(files'[i]) = Len(files[i]) \/ Len(files'[i]) = Len(files[i]) + 1
    BY <1>2, <1>3, Zenon
  <2>3. ASSUME NEW i \in Inodes
        PROVE  Len(files[i]) =< Len(files'[i]) /\ Len(files'[i]) =< Len(files[i]) + 1
    <3>1. PICK n \in Nat : n = Len(files[i])
      BY <2>1
    <3>2. PICK n2 : n2 = Len(files'[i])
      OBVIOUS
    <3>3. n2 = n \/ n2 = n + 1
      BY <2>2, <3>1, <3>2, Zenon
    <3>4. n =< n2 /\ n2 =< n + 1
      BY <3>3
    <3> QED BY <3>1, <3>2, <3>4
  <2> QED BY <2>3
<1>7. \A i \in Inodes : \A k \in DOMAIN files[i] :
        k \in DOMAIN files'[i] /\ files'[i][k] = files[i][k]
  <2>1. 1 .. Len(files[nginx]) \subseteq 1 .. Len(files'[nginx])
    BY <1>3
  <2>2. ASSUME NEW i \in Inodes, NEW k \in DOMAIN files[i]
        PROVE  k \in DOMAIN files'[i] /\ files'[i][k] = files[i][k]
    <3>1. CASE i # nginx
      BY <1>2, <3>1
    <3>2. CASE i = nginx
      BY <1>3, <1>5, <2>1, <3>2, Zenon
    <3> QED BY <3>1, <3>2
  <2> QED BY <2>2
<1>8. ASSUME NEW i \in Inodes, NEW k \in DOMAIN files'[i]
      PROVE \/ k \in DOMAIN files[i] /\ files'[i][k] = files[i][k]
            \/ i = nginx /\ k = Len(files[i]) + 1 /\ files'[i][k] = written + 1
  <2>1. CASE i # nginx
    BY <1>2, <2>1
  <2>2. CASE i = nginx
    <3>1. k \in 1 .. Len(files[i]) \/ k = Len(files[i]) + 1
      BY <1>3, <1>5, <2>2
    <3> QED BY <1>3, <1>5, <2>2, <3>1
  <2> QED BY <2>1, <2>2
<1> QED BY <1>1, <1>2, <1>4, <1>6, <1>7, <1>8

LEMMA KeepsNginxLogs ==
  ASSUME TailerAssumption, TailerInv, NginxLogs PROVE TailerInv'
<1> DEFINE new == written + 1
<1>0. TypeOK /\ FilesInv /\ PositionInv /\ ReadInv /\ StoredInv /\ CopiesInv /\ NothingSkipped
  BY DEF TailerInv
<1>1. UNCHANGED <<access, nginx, lastOffset, lastInode, reading, stored, restarts,
                  shrunk, late, refused>> /\ written' = written + 1
  BY DEF NginxLogs, past
<1>2. /\ files' \in [Inodes -> Seq(Lines)] /\ new \in Lines
      /\ \A i \in Inodes : Len(files[i]) =< Len(files'[i]) /\ Len(files'[i]) =< Len(files[i]) + 1
      /\ \A i \in Inodes : i # nginx => files'[i] = files[i]
      /\ \A i \in Inodes : \A k \in DOMAIN files[i] :
            k \in DOMAIN files'[i] /\ files'[i][k] = files[i][k]
      /\ \A i \in Inodes : \A k \in DOMAIN files'[i] :
            \/ k \in DOMAIN files[i] /\ files'[i][k] = files[i][k]
            \/ i = nginx /\ k = Len(files[i]) + 1 /\ files'[i][k] = new
  BY <1>0, NewLine
<1>3. /\ written \in Nat /\ lastOffset \in Nat /\ lastInode \in Nat /\ restarts \in Nat
      /\ \A i \in Inodes : i \in Nat \ {0} /\ Len(files[i]) \in Nat
      /\ \A i \in Inodes : DOMAIN files[i] = 1 .. Len(files[i])
      /\ \A i \in Inodes : Len(files'[i]) \in Nat /\ DOMAIN files'[i] = 1 .. Len(files'[i])
  BY <1>0, <1>2, Numbers, LenProperties
<1>4. stored[new] = 0
  <2>1. stored[new] \in Nat /\ (stored[new] > 0 => new =< written)
    BY <1>0, <1>2, Numbers DEF FilesInv
  <2> QED BY <1>3, <2>1
<1>5. TypeOK'
  BY <1>0, <1>1, <1>2, <1>3 DEF TypeOK, Lines
<1>6. FilesInv'
  <2>1. \A i \in Inodes : Len(files'[i]) =< written' /\ (i > access => files'[i] = <<>>)
    <3>1. \A i \in Inodes : i > access => i # nginx
      BY <1>0, <1>3, Numbers DEF FilesInv
    <3> QED BY <1>0, <1>1, <1>2, <1>3, <3>1 DEF FilesInv
  <2>2. \A i \in Inodes : \A k \in DOMAIN files'[i] : files'[i][k] =< written'
    <3>1. \A i \in Inodes : \A k \in DOMAIN files[i] :
            files[i][k] \in Nat /\ files[i][k] =< written
      BY <1>0, Numbers DEF FilesInv
    <3> QED BY <1>1, <1>2, <1>3, <3>1
  <2>3. \A i \in Inodes : \A k \in DOMAIN files[i] : files[i][k] # new
    BY <1>0, <1>3, Numbers DEF FilesInv
  <2>4. \A i, j \in Inodes : \A k \in DOMAIN files'[i], l \in DOMAIN files'[j] :
          files'[i][k] = files'[j][l] => i = j /\ k = l
    BY <1>0, <1>2, <2>3 DEF FilesInv
  <2>5. \A n \in Lines : stored'[n] > 0 => n =< written'
    BY <1>0, <1>1, <1>3, Numbers DEF FilesInv
  <2> QED BY <1>0, <1>1, <2>1, <2>2, <2>4, <2>5 DEF FilesInv
<1>7. PositionInv'
  <2>1. lastInode # 0 => lastInode \in Inodes
    BY <1>0, Numbers DEF TypeOK, Inodes
  <2> QED BY <1>0, <1>1, <1>2, <1>3, <2>1 DEF PositionInv
<1>8. ReadInv'
  <2> SUFFICES ASSUME reading # None PROVE ReadInv'
    BY <1>1 DEF ReadInv
  <2>1. /\ reading.inode \in Inodes /\ reading.size \in Nat /\ reading.size =< written
        /\ reading.inode \notin shrunk => reading.size =< Len(files[reading.inode])
    BY <1>0, Numbers DEF ReadInv
  <2>2. /\ reading.size =< written'
        /\ reading.inode \notin shrunk => reading.size =< Len(files'[reading.inode])
    BY <1>1, <1>2, <1>3, <2>1
  <2> QED BY <1>0, <1>1, <2>2 DEF ReadInv
<1>9. StoredInv'
  BY <1>0, <1>1, <1>2, <1>4 DEF StoredInv, Stored
<1>10. CopiesInv'
  BY <1>0, <1>1, <1>2, <1>3, <1>4 DEF CopiesInv, Passed
<1>11. NothingSkipped'
  <2> SUFFICES ASSUME lastInode \notin {0} \union shrunk,
                      NEW k \in DOMAIN files'[lastInode], k =< lastOffset
               PROVE stored[files'[lastInode][k]] > 0 \/ files'[lastInode][k] \in refused
    BY <1>1 DEF NothingSkipped
  <2>1. lastInode \in Inodes /\ lastOffset =< Len(files[lastInode])
    BY <1>0, Numbers DEF TypeOK, Inodes, PositionInv
  <2>2. k \in DOMAIN files[lastInode] /\ files'[lastInode][k] = files[lastInode][k]
    BY <1>2, <1>3, <2>1
  <2> QED BY <1>0, <2>2 DEF NothingSkipped
<1> QED BY <1>5, <1>6, <1>7, <1>8, <1>9, <1>10, <1>11 DEF TailerInv

\* logrotate renames the file, or nginx opens the new one.
LEMMA KeepsRename ==
  ASSUME TailerAssumption, TailerInv, RotateByRename \/ NginxReopens PROVE TailerInv'
<1>0. TypeOK /\ FilesInv /\ PositionInv /\ ReadInv /\ StoredInv /\ CopiesInv /\ NothingSkipped
  BY DEF TailerInv
<1>1. /\ UNCHANGED <<files, written, lastOffset, lastInode, reading, stored, restarts,
                     shrunk, late, refused>>
      /\ access' \in Inodes /\ nginx' \in Inodes /\ access =< access' /\ nginx' =< access'
  BY <1>0, Numbers DEF RotateByRename, NginxReopens, past, FilesInv, Inodes
<1>2. TypeOK'
  BY <1>0, <1>1 DEF TypeOK
<1>3. FilesInv' /\ ReadInv'
  <2>1. /\ access \in Nat /\ access' \in Nat /\ lastInode \in Nat
        /\ reading.inode \in Nat /\ \A i \in Inodes : i \in Nat
    BY <1>0, <1>1, Numbers DEF Inodes
  <2>2. FilesInv'
    BY <1>0, <1>1, <2>1 DEF FilesInv
  <2>3. ReadInv'
    BY <1>0, <1>1, <2>1 DEF ReadInv
  <2> QED BY <2>2, <2>3
<1>4. PositionInv' /\ StoredInv' /\ NothingSkipped'
  BY <1>0, <1>1 DEF PositionInv, StoredInv, Stored, NothingSkipped
<1>5. CopiesInv'
  BY <1>0, <1>1 DEF CopiesInv, Passed
<1> QED BY <1>2, <1>3, <1>4, <1>5 DEF TailerInv

\* The file loses its lines: what is known of them goes with them.
LEMMA KeepsTruncating ==
  ASSUME TailerAssumption, TailerInv, RotateByTruncating PROVE TailerInv'
<1>0. TypeOK /\ FilesInv /\ PositionInv /\ ReadInv /\ StoredInv /\ CopiesInv /\ NothingSkipped
  BY DEF TailerInv
<1>1. /\ UNCHANGED <<access, nginx, written, lastOffset, lastInode, reading, stored, restarts,
                     late, refused>>
      /\ shrunk' = shrunk \union {access} /\ files' = [files EXCEPT ![access] = <<>>]
      /\ access \in Inodes
  BY <1>0 DEF RotateByTruncating, TypeOK
<1>2. /\ files'[access] = <<>> /\ Len(files'[access]) = 0 /\ DOMAIN files'[access] = {}
      /\ \A i \in Inodes : i # access => files'[i] = files[i]
  BY <1>0, <1>1 DEF TypeOK
<1>3. \A i \in Inodes : \A k \in DOMAIN files'[i] :
         k \in DOMAIN files[i] /\ files'[i][k] = files[i][k]
  BY <1>2
<1>4. TypeOK'
  <2>1. files' \in [Inodes -> Seq(Lines)]
    BY <1>0, <1>1, EmptySeq DEF TypeOK
  <2> QED BY <1>0, <1>1, <2>1 DEF TypeOK
<1>5. FilesInv'
  <2>1. \A i \in Inodes : Len(files'[i]) =< written' /\ (i > access' => files'[i] = <<>>)
    BY <1>0, <1>1, <1>2, Numbers DEF FilesInv
  <2> QED BY <1>0, <1>1, <1>3, <2>1 DEF FilesInv
<1>6. PositionInv'
  <2>1. lastInode # 0 => lastInode \in Inodes
    BY <1>0, Numbers DEF TypeOK, Inodes
  <2> QED BY <1>0, <1>1, <1>2, <2>1 DEF PositionInv
<1>7. ReadInv'
  BY <1>0, <1>1, <1>2 DEF ReadInv
<1>8. StoredInv'
  BY <1>0, <1>1, <1>3 DEF StoredInv, Stored
<1>9. CopiesInv'
  BY <1>1 DEF CopiesInv
<1>10. NothingSkipped'
  <2> SUFFICES ASSUME lastInode \notin {0} \union shrunk'
               PROVE files'[lastInode] = files[lastInode]
    BY <1>0, <1>1 DEF NothingSkipped
  <2>1. lastInode \in Inodes
    BY <1>0, Numbers DEF TypeOK, Inodes
  <2> QED BY <1>1, <1>2, <2>1
<1> QED BY <1>4, <1>5, <1>6, <1>7, <1>8, <1>9, <1>10 DEF TailerInv

\* The process forgets its position; every line may be copied once more.
LEMMA KeepsRestart ==
  ASSUME TailerAssumption, TailerInv, Restart PROVE TailerInv'
<1>0. TypeOK /\ FilesInv /\ CopiesInv
  BY DEF TailerInv
<1>1. /\ UNCHANGED <<files, access, nginx, written, stored, shrunk, late, refused>>
      /\ lastOffset' = 0 /\ lastInode' = 0 /\ reading' = None /\ restarts' = restarts + 1
  BY DEF Restart, past
<1>2. TypeOK'
  BY <1>0, <1>1, Numbers DEF TypeOK, Restart, None, Reading, TailerAssumption
<1>3. FilesInv'
  BY <1>0, <1>1, Numbers DEF FilesInv
<1>4. PositionInv' /\ ReadInv' /\ StoredInv' /\ NothingSkipped'
  BY <1>1 DEF PositionInv, ReadInv, StoredInv, NothingSkipped
<1>5. CopiesInv'
  <2>1. /\ \A n \in Lines : stored[n] \in Nat
        /\ \A i \in Inodes : \A k \in DOMAIN files[i] : files[i][k] \in Lines
        /\ restarts \in Nat
    BY <1>0, Numbers
  <2> QED BY <1>0, <1>1, <2>1 DEF CopiesInv
<1> QED BY <1>2, <1>3, <1>4, <1>5 DEF TailerInv

-----------------------------------------------------------------------------
\* Every line there is lies in access.log, up to its end, or in an older file.
LEMMA AllUpToTheEnd ==
  ASSUME TailerAssumption, TypeOK, FilesInv, NEW i \in Inodes, NEW k \in DOMAIN files[i]
  PROVE i < access \/ (i = access /\ k =< Len(files[access]))
<1>1. i \in Nat /\ access \in Nat /\ DOMAIN files[i] = 1 .. Len(files[i]) /\ k \in Nat
  BY Numbers
<1>2. ~(i > access)
  BY DEF FilesInv
<1> QED BY <1>1, <1>2

LEMMA KeepsTailNothing ==
  ASSUME TailerAssumption, TailerInv, TailNothing PROVE TailerInv'
<1> DEFINE size == Len(files[access])
<1>0. TypeOK /\ FilesInv /\ PositionInv /\ ReadInv /\ StoredInv /\ CopiesInv /\ NothingSkipped
  BY DEF TailerInv
<1>1. /\ UNCHANGED <<files, access, nginx, written, reading, stored, restarts,
                     shrunk, late, refused>>
      /\ reading = None /\ size = ReadFrom(access, size) /\ MovePosition(size, access)
  BY DEF TailNothing, past
<1>2. CASE UNCHANGED <<lastOffset, lastInode>>
  BY <1>0, <1>1, <1>2 DEF TailerInv, TypeOK, FilesInv, PositionInv, ReadInv, StoredInv, Stored,
                          CopiesInv, Passed, NothingSkipped
<1>3. CASE lastOffset' = size /\ lastInode' = access
  <2>1. /\ access \in Inodes /\ access \in Nat \ {0} /\ size \in Nat /\ size =< written
        /\ written \in Nat /\ lastOffset \in Nat
    BY <1>0, Numbers DEF FilesInv
  <2>2. TypeOK'
    BY <1>0, <1>1, <1>3, <2>1 DEF TypeOK, Inodes
  <2>3. FilesInv' /\ ReadInv'
    BY <1>0, <1>1, <1>3, <2>1 DEF FilesInv, ReadInv
  <2>4. PositionInv'
    BY <1>1, <1>3, <2>1 DEF PositionInv
  <2>5. \A i \in Inodes : \A k \in DOMAIN files[i] : Passed(i, k)'
    BY <1>0, <1>1, <1>3, <2>1, AllUpToTheEnd DEF Passed
  <2>6. StoredInv' /\ CopiesInv'
    BY <1>0, <1>1, <1>3, <2>5 DEF StoredInv, CopiesInv, Passed
  <2>7. NothingSkipped'
    <3> SUFFICES ASSUME access \notin shrunk, NEW k \in DOMAIN files[access]
                 PROVE stored[files[access][k]] > 0 \/ files[access][k] \in refused
      BY <1>1, <1>3, <2>1 DEF NothingSkipped
    <3>1. k \in 1 .. size
      BY <1>0, <2>1, Numbers
    <3>2. size = lastOffset /\ lastInode = access
      BY <1>0, <1>1, <2>1, <3>1 DEF ReadFrom, PositionInv
    <3> QED BY <1>0, <2>1, <3>1, <3>2 DEF NothingSkipped
  <2> QED BY <2>2, <2>3, <2>4, <2>6, <2>7 DEF TailerInv
<1> QED BY <1>1, <1>2, <1>3 DEF MovePosition

LEMMA KeepsTailBegins ==
  ASSUME TailerAssumption, TailerInv, TailBegins PROVE TailerInv'
<1> DEFINE size == Len(files[access])
           from == ReadFrom(access, size)
<1>0. TypeOK /\ FilesInv /\ PositionInv /\ ReadInv /\ StoredInv /\ CopiesInv /\ NothingSkipped
  BY DEF TailerInv
<1>1. /\ UNCHANGED <<files, access, nginx, written, lastOffset, lastInode, stored, restarts,
                     shrunk, late, refused>>
      /\ reading' = [inode |-> access, from |-> from, size |-> size]
  BY DEF TailBegins, past
<1>2. /\ access \in Inodes /\ access \in Nat \ {0} /\ size \in Nat /\ size =< written
      /\ written \in Nat /\ written =< MaxLines /\ lastOffset \in Nat /\ lastInode \in Nat
      /\ lastOffset =< written /\ lastInode =< access /\ MaxLines \in Nat
  BY <1>0, Numbers DEF FilesInv, TypeOK
<1>3. from = IF access = lastInode /\ lastOffset =< size THEN lastOffset ELSE 0
  BY <1>0, <1>2 DEF ReadFrom, PositionInv
<1>4. TypeOK'
  <2>1. reading' \in Reading
    BY <1>1, <1>2, <1>3 DEF Reading, Inodes
  <2> QED BY <1>0, <1>1, <2>1 DEF TypeOK
<1>5. FilesInv' /\ PositionInv' /\ NothingSkipped'
  BY <1>0, <1>1 DEF FilesInv, PositionInv, NothingSkipped
<1>6. ReadInv'
  <2>1. access \notin shrunk /\ access = lastInode => lastOffset =< size
    BY <1>0, <1>2 DEF PositionInv
  <2> QED BY <1>1, <1>2, <1>3, <2>1 DEF ReadInv
<1>7. StoredInv'
  <2>1. \A i \in Inodes : \A k \in DOMAIN files[i] :
           i < reading'.inode \/ (i = reading'.inode /\ k =< reading'.size)
    BY <1>0, <1>1, AllUpToTheEnd
  <2> QED BY <1>0, <1>1, <2>1 DEF StoredInv, Stored
<1>8. CopiesInv'
  BY <1>0, <1>1 DEF CopiesInv, Passed
<1> QED BY <1>4, <1>5, <1>6, <1>7, <1>8 DEF TailerInv

-----------------------------------------------------------------------------
\* The lines the scanner finds after line number `from` of file i.
Rest(i, from) == ToSet(SubSeq(files[i], from + 1, Len(files[i])))

LEMMA RestIs ==
  ASSUME TypeOK, NEW i \in Inodes, NEW from \in Nat
  PROVE Rest(i, from) = {files[i][k] : k \in {l \in DOMAIN files[i] : l > from}}
<1> DEFINE f == files[i]
           sub == SubSeq(f, from + 1, Len(f))
<1>1. f \in Seq(Lines) /\ Len(f) \in Nat /\ DOMAIN f = 1 .. Len(f)
  BY LenProperties DEF TypeOK
<1>2. CASE from + 1 > Len(f)
  <2>1. sub = <<>>
    BY <1>1, <1>2
  <2>2. ToSet(sub) = {}
    BY <2>1 DEF ToSet
  <2>3. {l \in DOMAIN f : l > from} = {}
    BY <1>1, <1>2
  <2> QED BY <2>2, <2>3 DEF Rest
<1>3. CASE from + 1 =< Len(f)
  <2>1. /\ Len(sub) = Len(f) - from /\ DOMAIN sub = 1 .. Len(f) - from
        /\ \A j \in 1 .. Len(f) - from : sub[j] = f[from + j]
    BY <1>1, <1>3
  <2>2. ASSUME NEW j \in DOMAIN sub
        PROVE from + j \in {l \in DOMAIN f : l > from} /\ sub[j] = f[from + j]
    BY <1>1, <2>1, <2>2
  <2>3. ASSUME NEW l \in DOMAIN f, l > from
        PROVE l - from \in DOMAIN sub /\ sub[l - from] = f[l]
    <3>1. l \in Nat /\ l =< Len(f)
      BY <1>1
    <3>2. l - from \in 1 .. Len(f) - from /\ from + (l - from) = l
      BY <1>1, <2>3, <3>1
    <3>3. sub[l - from] = f[from + (l - from)]
      BY <2>1, <3>2
    <3> QED BY <2>1, <3>2, <3>3
  <2>4. ToSet(sub) = {sub[j] : j \in DOMAIN sub}
    BY DEF ToSet
  <2>5. {sub[j] : j \in DOMAIN sub} \subseteq {f[k] : k \in {l \in DOMAIN f : l > from}}
    BY <2>2
  <2>6. {f[k] : k \in {l \in DOMAIN f : l > from}} \subseteq {sub[j] : j \in DOMAIN sub}
    <3> SUFFICES ASSUME NEW l \in DOMAIN f, l > from PROVE f[l] \in {sub[j] : j \in DOMAIN sub}
      OBVIOUS
    <3> QED BY <2>3
  <2> QED BY <2>4, <2>5, <2>6 DEF Rest
<1> QED BY <1>1, <1>2, <1>3

\* What a read does to the table: it stores what it found, or the insert fails.
LEMMA ReadStores ==
  ASSUME TailerAssumption, TailerInv, TailEnds
  PROVE /\ \A n \in Lines : /\ stored'[n] \in Nat /\ stored[n] \in Nat
                            /\ stored[n] =< stored'[n] /\ stored'[n] =< stored[n] + 1
                            /\ n \notin Rest(reading.inode, reading.from)
                                 => stored'[n] = stored[n]
                            /\ n \in Rest(reading.inode, reading.from)
                                 => stored'[n] > 0 \/ n \in refused'
        /\ refused \subseteq refused' /\ refused' \subseteq Lines
        /\ stored' \in [Lines -> 0 .. MaxCopies]
<1> DEFINE entries == Rest(reading.inode, reading.from)
<1>0. TypeOK /\ reading.inode \in Inodes /\ reading.from \in Nat
  BY Numbers DEF TailerInv, ReadInv, TailEnds
<1>1. MaxCopies \in Nat \ {0} /\ \A n \in Lines : stored[n] \in 0 .. MaxCopies
  BY <1>0 DEF TypeOK, TailerAssumption
<1>2. entries \subseteq Lines
  BY <1>0, RestIs, Numbers
<1>3. CASE /\ stored' = [n \in Lines |-> IF n \in entries /\ stored[n] < MaxCopies
                                         THEN stored[n] + 1 ELSE stored[n]]
           /\ UNCHANGED refused
  <2>1. \A n \in Lines : stored'[n] = IF n \in entries /\ stored[n] < MaxCopies
                                      THEN stored[n] + 1 ELSE stored[n]
    BY <1>3
  <2>2. stored' \in [Lines -> 0 .. MaxCopies]
    BY <1>1, <1>3
  <2> QED BY <1>0, <1>1, <1>3, <2>1, <2>2 DEF TypeOK
<1>4. CASE refused' = refused \union entries /\ UNCHANGED stored
  BY <1>0, <1>1, <1>2, <1>4 DEF TypeOK
<1> QED BY <1>3, <1>4 DEF TailEnds, Rest

\* Where the position is after a read, and which lines the read was about.
LEMMA ReadEnds ==
  ASSUME TailerAssumption, TailerInv, TailEnds
  PROVE /\ reading.inode \in Inodes /\ lastInode' = reading.inode
        /\ lastOffset' \in {reading.size, lastOffset} /\ reading.size =< lastOffset'
        /\ lastInode = reading.inode => lastOffset =< lastOffset'
        /\ lastOffset' # reading.size => lastInode = reading.inode
        /\ \A i \in Inodes : \A k \in DOMAIN files[i] :
             /\ files[i][k] \in Rest(reading.inode, reading.from)
                  <=> i = reading.inode /\ k > reading.from
             /\ files[i][k] \notin late'
                  <=> files[i][k] \notin late /\ ~(i = reading.inode /\ k > reading.size)
<1>0. TypeOK /\ FilesInv /\ ReadInv /\ reading # None
  BY DEF TailerInv, TailEnds
<1>1. /\ reading.inode \in Inodes /\ reading.from \in Nat /\ reading.size \in Nat
      /\ lastOffset \in Nat
  BY <1>0, Numbers DEF ReadInv
<1>2. /\ lastInode' = reading.inode /\ lastOffset' \in {reading.size, lastOffset}
      /\ reading.size =< lastOffset' /\ (lastInode = reading.inode => lastOffset =< lastOffset')
      /\ lastOffset' # reading.size => lastInode = reading.inode
  BY <1>1 DEF TailEnds, MovePosition, PositionAfter
<1>3. ASSUME NEW i \in Inodes, NEW k \in DOMAIN files[i], NEW from \in Nat
      PROVE files[i][k] \in Rest(reading.inode, from) <=> i = reading.inode /\ k > from
  <2>1. Rest(reading.inode, from)
          = {files[reading.inode][l] : l \in {m \in DOMAIN files[reading.inode] : m > from}}
    BY <1>0, <1>1, RestIs
  <2>2. \A l \in DOMAIN files[reading.inode] :
           files[reading.inode][l] = files[i][k] => i = reading.inode /\ k = l
    BY <1>0, <1>1 DEF FilesInv
  <2> QED BY <2>1, <2>2
<1>4. late' = late \union Rest(reading.inode, reading.size)
  BY DEF TailEnds, Rest
<1> QED BY <1>1, <1>2, <1>3, <1>4

LEMMA KeepsTailEnds ==
  ASSUME TailerAssumption, TailerInv, TailEnds PROVE TailerInv'
<1> DEFINE inode == reading.inode
           from == reading.from
           size == reading.size
           entries == Rest(inode, from)
<1>0. /\ TypeOK /\ FilesInv /\ PositionInv /\ ReadInv /\ StoredInv /\ CopiesInv /\ NothingSkipped
      /\ reading # None
  BY DEF TailerInv, TailEnds
<1>1. UNCHANGED <<files, access, nginx, written, restarts, shrunk>> /\ reading' = None
  BY DEF TailEnds
<1>2. /\ inode \in Inodes /\ lastInode' = inode
      /\ lastOffset' \in {size, lastOffset} /\ size =< lastOffset'
      /\ lastInode = inode => lastOffset =< lastOffset'
      /\ lastOffset' # size => lastInode = inode
  BY ReadEnds
<1>3. /\ \A i \in Inodes : \A k \in DOMAIN files[i] :
           /\ files[i][k] \in entries <=> i = inode /\ k > from
           /\ files[i][k] \notin late' <=> files[i][k] \notin late /\ ~(i = inode /\ k > size)
  BY ReadEnds
<1>4. /\ \A n \in Lines : /\ stored'[n] \in Nat /\ stored[n] \in Nat
                          /\ stored[n] =< stored'[n] /\ stored'[n] =< stored[n] + 1
                          /\ n \notin entries => stored'[n] = stored[n]
                          /\ n \in entries => stored'[n] > 0 \/ n \in refused'
      /\ refused \subseteq refused' /\ refused' \subseteq Lines
      /\ stored' \in [Lines -> 0 .. MaxCopies]
  BY ReadStores
<1>5. /\ inode \in Nat \ {0} /\ from \in Nat /\ size \in Nat /\ size =< written
      /\ lastInode \in Nat /\ lastOffset \in Nat /\ restarts \in Nat /\ written \in Nat
      /\ lastInode =< inode /\ inode =< access /\ access \in Nat
      /\ from = IF inode = lastInode /\ lastOffset =< size THEN lastOffset ELSE 0
      /\ inode \notin shrunk => size =< Len(files[inode])
      /\ inode \notin shrunk /\ inode = lastInode => lastOffset =< size
      /\ lastOffset' \in Nat
  BY <1>0, <1>2, Numbers DEF ReadInv
<1>6. \A i \in Inodes : /\ i \in Nat
                        /\ \A k \in DOMAIN files[i] : k \in Nat /\ files[i][k] \in Lines
  BY <1>0, Numbers
<1>7. TypeOK'
  <2>1. late' \subseteq Lines
    <3>1. late' = late \union Rest(inode, size)
      BY DEF TailEnds, Rest
    <3>2. Rest(inode, size) \subseteq Lines
      BY <1>0, <1>2, <1>5, <1>6, RestIs
    <3> QED BY <1>0, <3>1, <3>2 DEF TypeOK
  <2>2. reading' \in Reading
    BY <1>1 DEF None, Reading, TailerAssumption
  <2>3. lastOffset' \in 0 .. written'
    BY <1>0, <1>1, <1>2, <1>5 DEF TypeOK
  <2> QED BY <1>0, <1>1, <1>2, <1>4, <2>1, <2>2, <2>3 DEF TypeOK, Inodes
<1>8. FilesInv'
  <2>1. \A n \in Lines : stored'[n] > 0 => n =< written
    <3> SUFFICES ASSUME NEW n \in Lines, stored'[n] > 0 PROVE n =< written
      OBVIOUS
    <3>1. CASE n \in entries
      <4>1. PICK k \in DOMAIN files[inode] : n = files[inode][k]
        BY <1>0, <1>2, <1>5, <3>1, RestIs
      <4> QED BY <1>0, <1>2, <4>1 DEF FilesInv
    <3>2. CASE n \notin entries
      BY <1>0, <1>4, <3>2 DEF FilesInv
    <3> QED BY <3>1, <3>2
  <2> QED BY <1>0, <1>1, <1>2, <1>5, <2>1 DEF FilesInv
<1>9. PositionInv'
  BY <1>0, <1>1, <1>2, <1>5 DEF PositionInv
<1>10. ReadInv'
  BY <1>1 DEF ReadInv
<1>11. StoredInv'
  <2> SUFFICES ASSUME NEW i \in Inodes, NEW k \in DOMAIN files[i],
                      stored'[files[i][k]] > 0, files[i][k] \notin late'
               PROVE i < inode \/ (i = inode /\ k =< lastOffset')
    BY <1>1, <1>2 DEF StoredInv, Stored
  <2>1. CASE stored[files[i][k]] > 0
    <3>1. i < inode \/ (i = inode /\ k =< size)
      BY <1>0, <2>1 DEF StoredInv, Stored
    <3> QED BY <1>2, <1>5, <1>6, <3>1
  <2>2. CASE ~(stored[files[i][k]] > 0)
    <3>1. files[i][k] \in entries
      BY <1>4, <1>6, <2>2
    <3> QED BY <1>2, <1>3, <1>5, <1>6, <3>1
  <2> QED BY <2>1, <2>2
<1>12. CopiesInv'
  <2> SUFFICES ASSUME shrunk = {} PROVE CopiesInv'
    BY <1>1 DEF CopiesInv
  <2>1. ASSUME NEW k \in DOMAIN files[inode], k > from PROVE ~Passed(inode, k)
    BY <1>5, <1>6, <1>2, <2>1 DEF Passed
  <2>2. ASSUME NEW i \in Inodes, NEW k \in DOMAIN files[i], Passed(i, k) PROVE Passed(i, k)'
    BY <1>2, <1>5, <1>6, <2>2 DEF Passed
  <2>3. ASSUME NEW n \in Lines \ late' PROVE stored'[n] =< 1 + restarts
    <3>1. n \notin late
      BY DEF TailEnds
    <3>2. CASE n \notin entries
      BY <1>0, <1>4, <3>1, <3>2 DEF CopiesInv
    <3>3. CASE n \in entries
      <4>1. PICK k \in DOMAIN files[inode] : n = files[inode][k] /\ k > from
        BY <1>0, <1>2, <1>5, <3>3, RestIs
      <4>2. stored[n] =< restarts
        BY <1>0, <1>2, <2>1, <3>1, <4>1 DEF CopiesInv
      <4> QED BY <1>4, <1>5, <4>2
    <3> QED BY <3>2, <3>3
  <2>4. ASSUME NEW i \in Inodes, NEW k \in DOMAIN files[i], files[i][k] \notin late',
               ~Passed(i, k)'
        PROVE stored'[files[i][k]] =< restarts
    <3>1. files[i][k] \notin late /\ ~Passed(i, k)
      BY <1>3, <2>2, <2>4
    <3>2. files[i][k] \notin entries
      BY <1>2, <1>3, <1>5, <1>6, <2>4 DEF Passed
    <3>3. stored'[files[i][k]] = stored[files[i][k]]
      BY <1>4, <1>6, <3>2
    <3> QED BY <1>0, <3>1, <3>3 DEF CopiesInv
  <2> QED BY <1>1, <2>3, <2>4 DEF CopiesInv
<1>13. NothingSkipped'
  <2> SUFFICES ASSUME inode \notin shrunk, NEW k \in DOMAIN files[inode], k =< lastOffset'
               PROVE stored'[files[inode][k]] > 0 \/ files[inode][k] \in refused'
    BY <1>1, <1>2 DEF NothingSkipped
  <2>1. CASE k > from
    BY <1>2, <1>3, <1>4, <1>6, <2>1
  <2>2. CASE ~(k > from)
    <3>1. k \in 1 .. Len(files[inode])
      BY <1>0, <1>2, Numbers
    <3>2. k =< lastOffset /\ lastInode = inode
      BY <1>5, <2>2, <3>1
    <3>3. stored[files[inode][k]] > 0 \/ files[inode][k] \in refused
      BY <1>0, <1>5, <3>2 DEF NothingSkipped
    <3> QED BY <1>2, <1>4, <1>6, <3>3
  <2> QED BY <2>1, <2>2
<1> QED BY <1>7, <1>8, <1>9, <1>10, <1>11, <1>12, <1>13 DEF TailerInv

-----------------------------------------------------------------------------

LEMMA TailerStep ==
  ASSUME TailerAssumption, TailerInv, [Next]_vars PROVE TailerInv'
<1>1. CASE UNCHANGED vars
  BY <1>1 DEF vars, past, TailerInv, TypeOK, FilesInv, PositionInv, ReadInv, StoredInv, Stored,
              CopiesInv, Passed, NothingSkipped
<1> QED BY <1>1, KeepsNginxLogs, KeepsRename, KeepsTruncating, KeepsRestart, KeepsTailNothing,
        KeepsTailBegins, KeepsTailEnds DEF Next, Tail5s

\* The invariant holds in every reachable state.
THEOREM TailerInvariant == Spec => []TailerInv
<1>1. Init => TailerInv
  BY TailerInit, TailerAssumption
<1>2. TailerInv /\ [Next]_vars => TailerInv'
  BY TailerStep, TailerAssumption
<1> QED BY <1>1, <1>2, PTL DEF Spec

\* Every variable has its type, and the position is never past what was written.
THEOREM TailerTypeCorrect == Spec => []TypeOK
<1>1. TailerInv => TypeOK
  BY DEF TailerInv
<1> QED BY <1>1, TailerInvariant, PTL

\* However the log is rotated and whenever the tailer reads it, every line before
\* the position has been stored or refused, so going on from there skips none.
THEOREM TailerSkipsNothing == Spec => []NothingSkipped
<1>1. TailerInv => NothingSkipped
  BY DEF TailerInv
<1> QED BY <1>1, TailerInvariant, PTL

\* Rotation by renaming never makes the tailer store a line again: a start of the
\* dashboard stores it once, and a line written during a read is the only exception.
THEOREM RenamingCostsNoCopies == Spec => []OneCopyPerStart
<1>1. TailerInv => OneCopyPerStart
  BY DEF TailerInv, CopiesInv, OneCopyPerStart
<1> QED BY <1>1, TailerInvariant, PTL

\* A line is stored once more only by the first read after a start, if it was
\* written during a read, or in a file that is shorter than the position.
THEOREM RereadsOnlyWhenShrunk == Spec => RereadsOnlyShrunkFile
<1> DEFINE Excused(n) == \/ lastInode = 0 \/ n \in late
                         \/ reading.inode = lastInode /\ reading.size < lastOffset
           Excuse == \A n \in Lines : stored[n] > 0 /\ stored'[n] > stored[n] => Excused(n)
<1>1. TailerInv /\ [Next]_vars => [Excuse]_vars
  <2> SUFFICES ASSUME TailerInv, Next, NEW n \in Lines,
                      stored[n] > 0, stored'[n] > stored[n], ~Excused(n)
               PROVE FALSE
    BY DEF vars
  <2>0. TypeOK /\ StoredInv /\ ReadInv /\ stored[n] \in Nat
    BY TailerAssumption, Numbers DEF TailerInv
  <2>1. stored' # stored
    BY <2>0
  <2>2. TailEnds
    BY <2>1 DEF Next, Tail5s, NginxLogs, NginxReopens, RotateByRename, RotateByTruncating,
                TailNothing, TailBegins, Restart
  <2>3. n \in Rest(reading.inode, reading.from)
    BY <2>0, <2>2, ReadStores, TailerAssumption
  <2>4. /\ reading.inode \in Inodes /\ reading.inode \in Nat /\ reading.from \in Nat
        /\ reading.size \in Nat /\ lastInode \in Nat /\ lastOffset \in Nat
        /\ lastInode =< reading.inode
        /\ reading.from = IF reading.inode = lastInode /\ lastOffset =< reading.size
                          THEN lastOffset ELSE 0
    BY <2>0, <2>2, Numbers, TailerAssumption DEF ReadInv, TailEnds
  <2>5. PICK k \in DOMAIN files[reading.inode] :
           n = files[reading.inode][k] /\ k > reading.from
    BY <2>0, <2>3, <2>4, RestIs
  <2>6. k \in Nat
    BY <2>0, <2>4, <2>5, Numbers, TailerAssumption
  <2>7. reading.inode < lastInode \/ (reading.inode = lastInode /\ k =< lastOffset)
    BY <2>0, <2>4, <2>5 DEF StoredInv, Stored
  <2> QED BY <2>4, <2>5, <2>6, <2>7
<1>2. Spec => [][Excuse]_vars
  BY <1>1, TailerInvariant, PTL DEF Spec
<1> QED BY <1>2 DEF RereadsOnlyShrunkFile

-----------------------------------------------------------------------------
(* The channel listing.                                                    *)

\* The channels at the first n places of New-API's list, and those behind.
Before(t, n) == {t[p] : p \in {q \in DOMAIN t : q =< n}}
After(t, n) == {t[p] : p \in {q \in DOMAIN t : q > n}}

\* Channels that were there all the time, were in the pages read, and are not
\* among the channels read.
Overlooked == (kept \cap Before(table, Len(all))) \ ToSet(all)

\* Channels read that the pages to come have once more.
ToComeAgain == After(table, Len(all)) \cap ToSet(all)

\* While the loop goes on, every channel that was overlooked takes a removal, and
\* every one read twice, or about to be, an insertion.
LoopBound ==
  at \in Asking =>
    /\ Cardinality(Overlooked) =< removed
    /\ Len(all) - Cardinality(ToSet(all)) + Cardinality(ToComeAgain) =< added

\* Inductive invariant of the listing.
ListingInv ==
  /\ table \in Seq(1 .. ids)
  /\ ListingTypeOK
  /\ LoopBound
  /\ ListingIsOffByTheChanges

-----------------------------------------------------------------------------
\* new is the list s with e put in at place i, and the list s without place i.
Inserted(s, i, e, new) ==
  /\ Len(s) \in Nat /\ DOMAIN s = 1 .. Len(s) /\ DOMAIN new = 1 .. (Len(s) + 1)
  /\ new[i] = e
  /\ \A p \in 1 .. Len(s) : IF p < i THEN new[p] = s[p] ELSE new[p + 1] = s[p]
  /\ \A p \in 1 .. (Len(s) + 1) :
       new[p] = IF p < i THEN s[p] ELSE IF p = i THEN e ELSE s[p - 1]

Removed(s, i, new) ==
  /\ Len(s) \in Nat /\ DOMAIN s = 1 .. Len(s) /\ DOMAIN new = 1 .. (Len(s) - 1)
  /\ \A p \in 1 .. (Len(s) - 1) : new[p] = IF p < i THEN s[p] ELSE s[p + 1]

LEMMA InsertFacts ==
  ASSUME NEW S, NEW s \in Seq(S), NEW i \in 1 .. (Len(s) + 1), NEW e \in S
  PROVE  InsertAt(s, i, e) \in Seq(S) /\ Inserted(s, i, e, InsertAt(s, i, e))
<1> DEFINE a == SubSeq(s, 1, i - 1)
           b == SubSeq(s, i, Len(s))
           ae == a \o <<e>>
           t == ae \o b
<1>1. Len(s) \in Nat /\ DOMAIN s = 1 .. Len(s)
  BY LenProperties
<1>2. /\ a \in Seq(S) /\ Len(a) = i - 1
      /\ \A p \in 1 .. (i - 1) : a[p] = s[p]
  BY <1>1
<1>3. /\ b \in Seq(S) /\ Len(b) = Len(s) - i + 1
      /\ \A p \in 1 .. (Len(s) - i + 1) : b[p] = s[p + i - 1]
  BY <1>1
<1> HIDE DEF a, b
<1>4. /\ ae \in Seq(S) /\ Len(ae) = i
      /\ \A p \in 1 .. i : ae[p] = IF p < i THEN s[p] ELSE e
  <2>1. <<e>> \in Seq(S) /\ Len(<<e>>) = 1 /\ <<e>>[1] = e
    OBVIOUS
  <2>2. PICK u : u = <<e>>
    OBVIOUS
  <2>3. /\ a \o u \in Seq(S) /\ Len(a \o u) = Len(a) + Len(u)
        /\ \A p \in 1 .. (Len(a) + Len(u)) : (a \o u)[p] = IF p =< Len(a) THEN a[p] ELSE u[p - Len(a)]
    BY <1>2, <2>1, <2>2, ConcatProperties
  <2>4. Len(a) = i - 1 /\ Len(u) = 1 /\ u[1] = e /\ Len(s) \in Nat
    BY <1>1, <1>2, <2>1, <2>2
  <2>5. a \o u \in Seq(S) /\ Len(a \o u) = i
    BY <2>3, <2>4
  <2>6. ASSUME NEW p \in 1 .. i
        PROVE  (a \o u)[p] = IF p < i THEN s[p] ELSE e
    <3>1. p \in 1 .. (Len(a) + Len(u)) /\ (p < i => p \in 1 .. (i - 1)) /\ p \in Int /\ i \in Int
      BY <2>4
    <3>2. (a \o u)[p] = IF p =< Len(a) THEN a[p] ELSE u[p - Len(a)]
      BY <2>3, <3>1
    <3>3. CASE p < i
      BY <1>2, <2>4, <3>1, <3>2, <3>3
    <3>4. CASE ~(p < i)
      <4>1. p - Len(a) = 1 /\ ~(p =< Len(a))
        BY <2>4, <3>1, <3>4
      <4> QED BY <2>4, <3>2, <3>4, <4>1
    <3> QED BY <3>3, <3>4
  <2> QED BY <2>2, <2>5, <2>6 DEF ae
<1> HIDE DEF ae
<1>5. /\ t \in Seq(S) /\ Len(t) = Len(s) + 1
      /\ \A p \in 1 .. (Len(s) + 1) : t[p] = IF p =< i THEN ae[p] ELSE b[p - i]
  <2>1. /\ t \in Seq(S) /\ Len(t) = Len(ae) + Len(b)
        /\ \A p \in 1 .. (Len(ae) + Len(b)) : t[p] = IF p =< Len(ae) THEN ae[p] ELSE b[p - Len(ae)]
    BY <1>3, <1>4, ConcatProperties
  <2>2. QED
    BY <1>1, <1>3, <1>4, <2>1
<1>6. DOMAIN t = 1 .. (Len(s) + 1)
  BY <1>5, LenProperties
<1>7. \A p \in 1 .. (Len(s) + 1) : t[p] = IF p < i THEN s[p] ELSE IF p = i THEN e ELSE s[p - 1]
  BY <1>1, <1>3, <1>4, <1>5
<1>8. InsertAt(s, i, e) = t
  BY DEF InsertAt, a, b, ae
<1> HIDE DEF t
<1>9. t[i] = e /\ \A p \in 1 .. Len(s) : IF p < i THEN t[p] = s[p] ELSE t[p + 1] = s[p]
  BY <1>1, <1>7
<1>10. QED
  BY <1>1, <1>5, <1>6, <1>7, <1>8, <1>9 DEF Inserted

LEMMA RemoveFacts ==
  ASSUME NEW S, NEW s \in Seq(S), NEW i \in 1 .. Len(s)
  PROVE  /\ RemoveAt(s, i) \in Seq(S) /\ Len(RemoveAt(s, i)) = Len(s) - 1
         /\ Removed(s, i, RemoveAt(s, i))
<1> DEFINE a == SubSeq(s, 1, i - 1)
           b == SubSeq(s, i + 1, Len(s))
           t == a \o b
<1>1. Len(s) \in Nat /\ DOMAIN s = 1 .. Len(s)
  BY LenProperties
<1>2. /\ a \in Seq(S) /\ Len(a) = i - 1
      /\ \A p \in 1 .. (i - 1) : a[p] = s[p]
  BY <1>1
<1>3. /\ b \in Seq(S) /\ Len(b) = Len(s) - i
      /\ \A p \in 1 .. (Len(s) - i) : b[p] = s[p + i]
  <2>1. /\ b \in Seq(S) /\ Len(b) = Len(s) - (i + 1) + 1
        /\ \A p \in 1 .. (Len(s) - (i + 1) + 1) : b[p] = s[(i + 1) + p - 1]
    <3>1. PICK m \in Int, n \in Int : m = i + 1 /\ n = Len(s)
      <4>1. i + 1 \in Int /\ Len(s) \in Int
        BY <1>1
      <4> QED BY <4>1, Zenon
    <3>2. m =< n + 1 /\ m >= 1 /\ \A p \in m .. n : s[p] \in S
      <4>1. m =< n + 1 /\ m >= 1 /\ \A p \in m .. n : p \in 1 .. Len(s)
        BY <1>1, <3>1
      <4>2. \A p \in 1 .. Len(s) : s[p] \in S
        BY ElementOfSeq
      <4> QED BY <4>1, <4>2, Zenon
    <3>3. PICK w : w = SubSeq(s, m, n)
      OBVIOUS
    <3>4. w \in Seq(S) /\ Len(w) = n - m + 1 /\ \A p \in 1 .. (n - m + 1) : w[p] = s[m + p - 1]
      BY <3>2, <3>3, SubSeqProperties
    <3>5. Len(b) = Len(w) /\ b \in Seq(S) /\ \A p \in Int : b[p] = w[p]
      BY <3>1, <3>3, <3>4 DEF b
    <3> HIDE DEF b
    <3>6. Len(b) = Len(s) - (i + 1) + 1
      BY <3>1, <3>4, <3>5
    <3>7. ASSUME NEW p \in 1 .. (Len(s) - (i + 1) + 1)
          PROVE  b[p] = s[(i + 1) + p - 1]
      BY <1>1, <3>1, <3>4, <3>5
    <3> QED BY <3>5, <3>6, <3>7
  <2> HIDE DEF b
  <2>2. QED
    BY <1>1, <2>1
<1> HIDE DEF a, b
<1>4. /\ t \in Seq(S) /\ Len(t) = Len(s) - 1
      /\ \A p \in 1 .. (Len(s) - 1) : t[p] = IF p =< i - 1 THEN a[p] ELSE b[p - (i - 1)]
  <2>1. /\ t \in Seq(S) /\ Len(t) = Len(a) + Len(b)
        /\ \A p \in 1 .. (Len(a) + Len(b)) : t[p] = IF p =< Len(a) THEN a[p] ELSE b[p - Len(a)]
    BY <1>2, <1>3, ConcatProperties
  <2>2. QED
    BY <1>1, <1>2, <1>3, <2>1
<1>5. RemoveAt(s, i) = t
  BY DEF RemoveAt, a, b
<1> HIDE DEF t
<1>6. \A p \in 1 .. (Len(s) - 1) : t[p] = IF p < i THEN s[p] ELSE s[p + 1]
  BY <1>1, <1>2, <1>3, <1>4
<1>7. DOMAIN t = 1 .. (Len(s) - 1)
  BY <1>4, <1>6, LenProperties
<1>8. QED
  BY <1>1, <1>4, <1>5, <1>6, <1>7 DEF Removed

\* An insertion brings at most the new element to the first n places, and pushes
\* at most one from there to the places behind.
InsertMoves(s, e, t, n) ==
  /\ ToSet(t) = ToSet(s) \cup {e}
  /\ Before(t, n) \subseteq Before(s, n) \cup {e}
  /\ \E x : After(t, n) \subseteq After(s, n) \cup {x}
  /\ IsInjective(s) /\ e \notin ToSet(s) => IsInjective(t)

LEMMA InsertShifts ==
  ASSUME NEW S, NEW s \in Seq(S), NEW i \in 1 .. (Len(s) + 1), NEW e \in S, NEW n \in Nat,
         NEW t, t = InsertAt(s, i, e)
  PROVE  t \in Seq(S) /\ InsertMoves(s, e, t, n)
<1>1. /\ t \in Seq(S) /\ Len(s) \in Nat /\ DOMAIN s = 1 .. Len(s)
      /\ DOMAIN t = 1 .. (Len(s) + 1) /\ t[i] = e
      /\ \A p \in 1 .. Len(s) : IF p < i THEN t[p] = s[p] ELSE t[p + 1] = s[p]
      /\ \A p \in 1 .. (Len(s) + 1) :
           t[p] = IF p < i THEN s[p] ELSE IF p = i THEN e ELSE s[p - 1]
  <2>1. t \in Seq(S) /\ Inserted(s, i, e, t)
    BY InsertFacts
  <2>2. QED
    BY <2>1 DEF Inserted
<1>2. Before(t, n) \subseteq Before(s, n) \cup {e}
  <2> SUFFICES ASSUME NEW p \in DOMAIN t, p =< n
               PROVE  t[p] \in Before(s, n) \cup {e}
    BY DEF Before
  <2>1. CASE p < i
    BY <1>1, <2>1 DEF Before
  <2>2. CASE p = i
    BY <1>1, <2>2
  <2>3. CASE p > i
    <3>1. p - 1 \in DOMAIN s /\ p - 1 =< n /\ t[p] = s[p - 1]
      BY <1>1, <2>3
    <3>2. QED
      BY <3>1 DEF Before
  <2>4. QED
    BY <1>1, <2>1, <2>2, <2>3
<1>3. \E x : After(t, n) \subseteq After(s, n) \cup {x}
  <2> DEFINE x == IF n \in 1 .. Len(s) /\ n >= i THEN s[n] ELSE e
  <2>2. ASSUME NEW p \in DOMAIN t, p > n
        PROVE  t[p] \in After(s, n) \cup {x}
    <3>1. CASE p < i
      BY <1>1, <2>2, <3>1 DEF After
    <3>2. CASE p = i
      BY <1>1, <2>2, <3>2
    <3>3. CASE p > i
      <4>1. p - 1 \in DOMAIN s /\ p - 1 >= n /\ t[p] = s[p - 1]
        BY <1>1, <2>2, <3>3
      <4>2. CASE p - 1 > n
        BY <4>1, <4>2 DEF After
      <4>3. CASE p - 1 = n
        BY <1>1, <3>3, <4>1, <4>3
      <4>4. QED
        BY <1>1, <4>1, <4>2, <4>3
    <3>4. QED
      BY <1>1, <3>1, <3>2, <3>3
  <2> HIDE DEF x
  <2>3. After(t, n) \subseteq After(s, n) \cup {x}
    BY <2>2 DEF After
  <2>4. QED
    BY <2>3
<1>4. ToSet(t) = ToSet(s) \cup {e}
  <2>1. ToSet(t) \subseteq ToSet(s) \cup {e}
    <3> SUFFICES ASSUME NEW p \in DOMAIN t PROVE t[p] \in ToSet(s) \cup {e}
      BY DEF ToSet
    <3>1. p < i => p \in DOMAIN s /\ t[p] = s[p]
      BY <1>1
    <3>2. p > i => p - 1 \in DOMAIN s /\ t[p] = s[p - 1]
      BY <1>1
    <3>3. QED
      BY <1>1, <3>1, <3>2 DEF ToSet
  <2>2. ASSUME NEW p \in DOMAIN s PROVE s[p] \in ToSet(t)
    <3>1. p \in DOMAIN t /\ p + 1 \in DOMAIN t /\ s[p] \in {t[p], t[p + 1]}
      BY <1>1
    <3>2. QED
      BY <3>1 DEF ToSet
  <2>3. e \in ToSet(t)
    BY <1>1 DEF ToSet
  <2>4. QED
    BY <2>1, <2>2, <2>3 DEF ToSet
<1>5. ASSUME IsInjective(s), e \notin ToSet(s)
      PROVE  IsInjective(t)
  <2>1. \A p \in DOMAIN s : s[p] # e
    BY <1>5 DEF ToSet
  <2>2. \A p, q \in DOMAIN s : s[p] = s[q] => p = q
    BY <1>5 DEF IsInjective
  <2>3. ASSUME NEW p \in DOMAIN t, NEW q \in DOMAIN t, t[p] = t[q]
        PROVE  p = q
    <3> DEFINE from(k) == IF k < i THEN k ELSE k - 1
    <3>1. ASSUME NEW k \in DOMAIN t, k # i
          PROVE  from(k) \in DOMAIN s /\ t[k] = s[from(k)] /\ t[k] # e
      <4>1. from(k) \in DOMAIN s /\ t[k] = s[from(k)]
        BY <1>1, <3>1
      <4>2. QED
        BY <2>1, <4>1
    <3>2. CASE p = i \/ q = i
      BY <1>1, <2>3, <3>1, <3>2
    <3>3. CASE p # i /\ q # i
      <4>1. from(p) = from(q)
        BY <2>2, <2>3, <3>1, <3>3
      <4>2. QED
        BY <1>1, <3>3, <4>1
    <3>4. QED
      BY <3>2, <3>3
  <2>4. QED
    BY <2>3 DEF IsInjective
<1>6. QED
  BY <1>1, <1>2, <1>3, <1>4, <1>5 DEF InsertMoves

\* A removal brings at most one element from behind to the first n places, and
\* none if it takes one from behind.
RemoveMoves(s, i, t, n) ==
  /\ ToSet(s) \subseteq ToSet(t) \cup {s[i]}
  /\ After(t, n) \subseteq After(s, n)
  /\ \E x : Before(t, n) \subseteq Before(s, n) \cup {x}
  /\ i > n => Before(t, n) \subseteq Before(s, n)
  /\ i =< n => s[i] \in Before(s, n)
  /\ IsInjective(s) => IsInjective(t) /\ s[i] \notin ToSet(t)

LEMMA RemoveShifts ==
  ASSUME NEW S, NEW s \in Seq(S), NEW i \in 1 .. Len(s), NEW n \in Nat,
         NEW t, t = RemoveAt(s, i)
  PROVE  t \in Seq(S) /\ Len(t) = Len(s) - 1 /\ s[i] \in S /\ RemoveMoves(s, i, t, n)
<1>1. /\ t \in Seq(S) /\ Len(s) \in Nat /\ Len(t) = Len(s) - 1 /\ DOMAIN s = 1 .. Len(s)
      /\ DOMAIN t = 1 .. (Len(s) - 1)
      /\ \A p \in 1 .. (Len(s) - 1) : t[p] = IF p < i THEN s[p] ELSE s[p + 1]
  BY RemoveFacts DEF Removed
<1>2. s[i] \in S
  BY <1>1
<1>3. After(t, n) \subseteq After(s, n)
  <2> SUFFICES ASSUME NEW p \in DOMAIN t, p > n PROVE t[p] \in After(s, n)
    BY DEF After
  <2>1. CASE p < i
    BY <1>1, <2>1 DEF After
  <2>2. CASE ~(p < i)
    <3>1. p + 1 \in DOMAIN s /\ p + 1 > n /\ t[p] = s[p + 1]
      BY <1>1, <2>2
    <3>2. QED
      BY <3>1 DEF After
  <2>3. QED
    BY <2>1, <2>2
<1>4. \E x : Before(t, n) \subseteq Before(s, n) \cup {x}
  <2> DEFINE x == IF n + 1 \in 1 .. Len(s) THEN s[n + 1] ELSE s[i]
  <2>2. ASSUME NEW p \in DOMAIN t, p =< n
        PROVE  t[p] \in Before(s, n) \cup {x}
    <3>1. CASE p < i
      BY <1>1, <2>2, <3>1 DEF Before
    <3>2. CASE ~(p < i)
      <4>1. p + 1 \in DOMAIN s /\ t[p] = s[p + 1]
        BY <1>1, <3>2
      <4>2. CASE p + 1 =< n
        BY <4>1, <4>2 DEF Before
      <4>3. CASE p = n
        BY <1>1, <4>1, <4>3
      <4>4. QED
        BY <1>1, <2>2, <4>2, <4>3
    <3>3. QED
      BY <3>1, <3>2
  <2> HIDE DEF x
  <2>3. Before(t, n) \subseteq Before(s, n) \cup {x}
    BY <2>2 DEF Before
  <2>4. QED
    BY <2>3
<1>5. ASSUME i > n
      PROVE  Before(t, n) \subseteq Before(s, n)
  <2> SUFFICES ASSUME NEW p \in DOMAIN t, p =< n PROVE t[p] \in Before(s, n)
    BY DEF Before
  <2>1. p < i /\ p \in DOMAIN s /\ t[p] = s[p]
    BY <1>1, <1>5
  <2>2. QED
    BY <2>1 DEF Before
<1>6. i =< n => s[i] \in Before(s, n)
  BY <1>1 DEF Before
<1>7. ToSet(s) \subseteq ToSet(t) \cup {s[i]}
  <2> SUFFICES ASSUME NEW p \in DOMAIN s PROVE s[p] \in ToSet(t) \cup {s[i]}
    BY DEF ToSet
  <2>1. p < i => p \in DOMAIN t /\ t[p] = s[p]
    BY <1>1
  <2>2. p > i => p - 1 \in DOMAIN t /\ t[p - 1] = s[p]
    BY <1>1
  <2>3. QED
    BY <1>1, <2>1, <2>2 DEF ToSet
<1>8. ASSUME IsInjective(s)
      PROVE  IsInjective(t) /\ s[i] \notin ToSet(t)
  <2>1. \A p, q \in DOMAIN s : s[p] = s[q] => p = q
    BY <1>8 DEF IsInjective
  <2> DEFINE from(k) == IF k < i THEN k ELSE k + 1
  <2>0. \A k \in DOMAIN t : from(k) \in DOMAIN s /\ from(k) # i /\ t[k] = s[from(k)]
    BY <1>1
  <2>2. ASSUME NEW p \in DOMAIN t, NEW q \in DOMAIN t, t[p] = t[q]
        PROVE  p = q
    <3>1. from(p) = from(q)
      BY <2>0, <2>1, <2>2
    <3>2. QED
      BY <1>1, <3>1
  <2>3. \A p \in DOMAIN t : t[p] # s[i]
    BY <1>1, <2>0, <2>1
  <2>4. QED
    BY <2>2, <2>3 DEF IsInjective, ToSet
<1>9. QED
  BY <1>1, <1>2, <1>3, <1>4, <1>5, <1>6, <1>7, <1>8 DEF RemoveMoves

-----------------------------------------------------------------------------
\* A list without repetitions has as many elements as places.
LEMMA DistinctElements ==
  ASSUME NEW S, NEW s \in Seq(S), IsInjective(s)
  PROVE  IsFiniteSet(ToSet(s)) /\ Cardinality(ToSet(s)) = Len(s)
<1>1. Len(s) \in Nat /\ DOMAIN s = 1 .. Len(s) /\ s \in [1 .. Len(s) -> S]
  BY LenProperties
<1>2. IsFiniteSet(1 .. Len(s)) /\ Cardinality(1 .. Len(s)) = Len(s)
  BY <1>1, FS_Interval
<1>3. s \in [1 .. Len(s) -> ToSet(s)]
  BY <1>1 DEF ToSet
<1>4. s \in Surjection(1 .. Len(s), ToSet(s))
  BY <1>1, <1>3 DEF Surjection, ToSet
<1>5. s \in Injection(1 .. Len(s), ToSet(s))
  BY <1>1, <1>3 DEF Injection, IsInjective
<1>6. QED
  BY <1>2, <1>4, <1>5, FS_Surjection

\* s is the places lo + 1 .. hi of a list t, of which the first lo have been read.
Slice(t, lo, hi, s) ==
  /\ Len(s) = (IF lo =< hi THEN hi - lo ELSE 0)
  /\ IsFiniteSet(ToSet(s)) /\ Cardinality(ToSet(s)) = Len(s)
  /\ After(t, lo) = ToSet(s) \cup After(t, lo + Len(s))
  /\ ToSet(s) \cap After(t, lo + Len(s)) = {}
  /\ Before(t, lo + Len(s)) \subseteq Before(t, lo) \cup ToSet(s)

LEMMA SliceFacts ==
  ASSUME NEW S, NEW t \in Seq(S), IsInjective(t), NEW lo \in Nat, NEW hi \in Nat,
         hi =< Len(t), lo =< hi \/ hi = Len(t), NEW s, s = SubSeq(t, lo + 1, hi)
  PROVE  s \in Seq(S) /\ Slice(t, lo, hi, s)
<1> PICK n : n = Len(t)
  OBVIOUS
<1>1. /\ n \in Nat /\ DOMAIN t = 1 .. n /\ hi =< n /\ (lo =< hi \/ hi = n)
      /\ \A p \in 1 .. n : t[p] \in S
  BY LenProperties
<1>1a. \A p, q \in 1 .. n : t[p] = t[q] => p = q
  BY <1>1 DEF IsInjective
<1>2. PICK k : k = IF lo =< hi THEN hi - lo ELSE 0
  OBVIOUS
<1>3. k \in Nat /\ hi \in Int /\ lo + 1 \in Int /\ \A p \in (lo + 1) .. hi : t[p] \in S
  <2>1. k \in Nat
    BY <1>2
  <2>2. \A p \in (lo + 1) .. hi : p \in 1 .. n
    BY <1>1
  <2>3. QED
    BY <1>1, <2>1, <2>2
<1>4. /\ s \in Seq(S) /\ Len(s) = k /\ DOMAIN s = 1 .. k
      /\ \A p \in 1 .. k : s[p] = t[lo + p] /\ lo + p \in 1 .. n
  <2>1. PICK m : m = lo + 1
    OBVIOUS
  <2>2. /\ SubSeq(t, m, hi) \in Seq(S)
        /\ Len(SubSeq(t, m, hi)) = IF m <= hi THEN hi - m + 1 ELSE 0
        /\ \A i \in 1 .. hi - m + 1 : SubSeq(t, m, hi)[i] = t[m + i - 1]
    BY <1>3, <2>1, SubSeqProperties
  <2>3. /\ s \in Seq(S) /\ Len(s) = k /\ \A i \in 1 .. k : s[i] = t[m + i - 1]
    BY <1>2, <1>3, <2>1, <2>2
  <2>4. DOMAIN s = 1 .. k
    BY <2>3, LenProperties
  <2>5. ASSUME NEW p \in 1 .. k PROVE s[p] = t[lo + p] /\ lo + p \in 1 .. n
    <3>1. m + p - 1 = lo + p /\ lo + p \in 1 .. n
      BY <1>1, <1>2, <1>3, <2>1
    <3>2. QED
      BY <2>3, <3>1
  <2>6. QED
    BY <2>3, <2>4, <2>5
<1>5. IsInjective(s)
  <2>1. ASSUME NEW p \in 1 .. k, NEW q \in 1 .. k, s[p] = s[q] PROVE p = q
    <3>1. lo + p = lo + q
      BY <1>1a, <1>4, <2>1
    <3>2. QED
      BY <1>3, <3>1
  <2>2. QED
    BY <1>4, <2>1 DEF IsInjective
<1>6. IsFiniteSet(ToSet(s)) /\ Cardinality(ToSet(s)) = Len(s)
  BY <1>4, <1>5, DistinctElements
<1>7. ToSet(s) = {t[p] : p \in {q \in DOMAIN t : q > lo /\ q =< lo + k}}
  <2>1. ASSUME NEW p \in 1 .. k PROVE s[p] \in {t[j] : j \in {q \in DOMAIN t : q > lo /\ q =< lo + k}}
    <3>1. lo + p \in DOMAIN t /\ lo + p > lo /\ lo + p =< lo + k /\ s[p] = t[lo + p]
      BY <1>1, <1>3, <1>4
    <3>2. QED
      BY <3>1
  <2>2. ASSUME NEW q \in DOMAIN t, q > lo, q =< lo + k PROVE t[q] \in ToSet(s)
    <3>1. q - lo \in 1 .. k /\ lo + (q - lo) = q
      BY <1>1, <1>3, <2>2
    <3>2. s[q - lo] = t[q]
      BY <1>4, <3>1
    <3>3. QED
      BY <1>4, <3>1, <3>2 DEF ToSet
  <2>3. ToSet(s) = {s[p] : p \in 1 .. k}
    BY <1>4 DEF ToSet
  <2>4. QED
    BY <2>1, <2>2, <2>3
<1>8. After(t, lo) \subseteq ToSet(s) \cup After(t, lo + k)
  <2> SUFFICES ASSUME NEW p \in DOMAIN t, p > lo PROVE t[p] \in ToSet(s) \cup After(t, lo + k)
    BY DEF After
  <2>1. p > lo + k \/ p =< lo + k
    BY <1>1, <1>3
  <2>2. QED
    BY <1>7, <2>1 DEF After
<1>9. After(t, lo + k) \subseteq After(t, lo) /\ ToSet(s) \subseteq After(t, lo)
  <2>1. ASSUME NEW p \in DOMAIN t, p > lo + k PROVE t[p] \in After(t, lo)
    <3>1. p > lo
      BY <1>1, <1>3, <2>1
    <3>2. QED
      BY <3>1 DEF After
  <2>2. ASSUME NEW p \in DOMAIN t, p > lo, p =< lo + k PROVE t[p] \in After(t, lo)
    BY <2>2 DEF After
  <2>3. QED
    BY <1>7, <2>1, <2>2 DEF After
<1>10. ToSet(s) \cap After(t, lo + k) = {}
  <2> SUFFICES ASSUME NEW p \in DOMAIN t, p > lo, p =< lo + k,
                      NEW q \in DOMAIN t, q > lo + k, t[p] = t[q]
               PROVE  FALSE
    BY <1>7 DEF After
  <2>1. p = q
    BY <1>1a, <1>1
  <2>2. QED
    BY <1>1, <1>3, <2>1
<1>11. Before(t, lo + k) \subseteq Before(t, lo) \cup ToSet(s)
  <2> SUFFICES ASSUME NEW p \in DOMAIN t, p =< lo + k PROVE t[p] \in Before(t, lo) \cup ToSet(s)
    BY DEF Before
  <2>1. p > lo \/ p =< lo
    BY <1>1
  <2>2. QED
    BY <1>7, <2>1 DEF Before
<1>12. Len(s) = (IF lo =< hi THEN hi - lo ELSE 0)
  BY <1>2, <1>4
<1>13. QED
  BY <1>4, <1>6, <1>8, <1>9, <1>10, <1>11, <1>12 DEF Slice

LEMMA PageNumbers ==
  ASSUME ListingAssumption, NEW n \in Nat
  PROVE  n * PageSize \in Nat /\ (n + 1) * PageSize = n * PageSize + PageSize
BY DEF ListingAssumption

\* The sets of channels are finite.
LEMMA ListingSets ==
  ASSUME ListingInv
  PROVE  /\ ids \in Nat /\ IsFiniteSet(1 .. ids) /\ ToSet(all) \subseteq 1 .. ids
         /\ Before(table, Len(all)) \subseteq 1 .. ids /\ After(table, Len(all)) \subseteq 1 .. ids
         /\ kept \subseteq 1 .. ids /\ kept \subseteq ToSet(table)
         /\ \A A : A \subseteq 1 .. ids => IsFiniteSet(A) /\ Cardinality(A) \in Nat
         /\ Len(all) \in Nat /\ Len(table) \in Nat /\ DOMAIN table = 1 .. Len(table)
         /\ DOMAIN all = 1 .. Len(all)
<1>1. /\ ids \in Nat /\ all \in Seq(1 .. ids) /\ table \in Seq(1 .. ids)
      /\ kept \subseteq ToSet(table) /\ ToSet(table) \subseteq 1 .. ids
  BY DEF ListingInv, ListingTypeOK
<1>2. /\ Len(all) \in Nat /\ Len(table) \in Nat /\ DOMAIN table = 1 .. Len(table)
      /\ DOMAIN all = 1 .. Len(all)
  BY <1>1, LenProperties
<1>3. IsFiniteSet(1 .. ids)
  BY <1>1, FS_Interval
<1>4. \A A : A \subseteq 1 .. ids => IsFiniteSet(A) /\ Cardinality(A) \in Nat
  BY <1>3, FS_Subset, FS_CardinalityType
<1>5. ToSet(all) \subseteq 1 .. ids
  BY <1>1, <1>2 DEF ToSet
<1>6. Before(table, Len(all)) \subseteq ToSet(table) /\ After(table, Len(all)) \subseteq ToSet(table)
  BY DEF Before, After, ToSet
<1>7. QED
  BY <1>1, <1>2, <1>3, <1>4, <1>5, <1>6

LEMMA ListingInitInv == ASSUME ListingAssumption, ListingInit PROVE ListingInv
<1>1. ids \in Nat /\ ids \in 0 .. MaxId
  BY DEF ListingInit, ListingAssumption
<1>2. /\ table \in Seq(1 .. ids) /\ DOMAIN table = 1 .. ids
      /\ \A i \in 1 .. ids : table[i] = i
  BY <1>1, IsASeq DEF ListingInit
<1>3. <<>> \in Seq(1 .. ids)
  OBVIOUS
<1>4. ListingTypeOK
  BY <1>1, <1>2, <1>3 DEF ListingInit, ListingAssumption, ListingTypeOK, Asking, IsInjective, ToSet
<1>5. QED
  BY <1>2, <1>4 DEF ListingInit, ListingInv, LoopBound, ListingIsOffByTheChanges, Asking

LEMMA KeepsBegin == ASSUME ListingAssumption, ListingInv, Begin PROVE ListingInv'
<1>1. /\ table' = table /\ ids' = ids /\ at' = "get" /\ page' = 0 /\ all' = <<>>
      /\ kept' = ToSet(table) /\ added' = 0 /\ removed' = 0 /\ moves' = 0
  BY DEF Begin, ListingInv, ListingTypeOK
<1>2. /\ <<>> \in Seq(1 .. ids) /\ Len(<<>>) = 0 /\ ToSet(<<>>) = {}
      /\ 0 * PageSize = 0 /\ 0 \in 0 .. MaxMoves
  BY DEF ListingAssumption, ToSet
<1>3. ListingTypeOK'
  BY <1>1, <1>2 DEF ListingInv, ListingTypeOK, Asking
<1>4. Before(table, 0) = {}
  <2>1. \A p \in DOMAIN table : ~(p =< 0)
    BY LenProperties DEF ListingInv
  <2>2. QED
    BY <2>1 DEF Before
<1>5. LoopBound'
  <2>1. Overlooked' = {} /\ ToComeAgain' = {}
    BY <1>1, <1>2, <1>4 DEF Overlooked, ToComeAgain
  <2>2. Cardinality({}) = 0
    BY FS_EmptySet
  <2>3. Len(all') = 0 /\ ToSet(all') = {}
    BY <1>1, <1>2
  <2>4. Cardinality(Overlooked') = 0 /\ Cardinality(ToComeAgain') = 0 /\ Cardinality(ToSet(all')) = 0
    BY <2>1, <2>2, <2>3
  <2>5. /\ Cardinality(Overlooked') =< removed'
        /\ Len(all') - Cardinality(ToSet(all')) + Cardinality(ToComeAgain') =< added'
    BY <1>1, <2>3, <2>4
  <2>6. QED
    BY <2>5 DEF LoopBound
<1>6. ListingIsOffByTheChanges'
  BY <1>1 DEF ListingIsOffByTheChanges
<1>7. QED
  BY <1>1, <1>3, <1>5, <1>6 DEF ListingInv

LEMMA KeepsGetFails == ASSUME ListingAssumption, ListingInv, GetFails5xx \/ GetFails PROVE ListingInv'
<1>1. /\ table' = table /\ ids' = ids /\ page' = page /\ moves' = moves
      /\ kept' = kept /\ added' = added /\ removed' = removed /\ at \in Asking
      /\ at' \in {"get-again", "failed"}
      /\ all' = IF at' = "failed" THEN <<>> ELSE all
  BY DEF GetFails5xx, GetFails, Retry, Forget, history
<1>2. all' \in Seq(1 .. ids) /\ (at' \in Asking => all' = all)
  <2>1. <<>> \in Seq(1 .. ids) /\ all \in Seq(1 .. ids)
    BY DEF ListingInv, ListingTypeOK
  <2>2. all' \in {<<>>, all} /\ (at' # "failed" => all' = all)
    BY <1>1
  <2>3. QED
    BY <2>1, <2>2 DEF Asking
<1>3. ListingTypeOK'
  BY <1>1, <1>2 DEF ListingInv, ListingTypeOK, Asking
<1>4. LoopBound'
  BY <1>1, <1>2 DEF ListingInv, LoopBound, Overlooked, ToComeAgain
<1>5. ListingIsOffByTheChanges'
  BY <1>1 DEF ListingIsOffByTheChanges
<1>6. QED
  BY <1>1, <1>3, <1>4, <1>5 DEF ListingInv

\* A page: what it has in common with the channels read is what the pages to come
\* had in common with them and the later pages have not.
LEMMA KeepsGetPage == ASSUME ListingAssumption, ListingInv, GetPage PROVE ListingInv'
<1>1. /\ at \in Asking /\ table' = table /\ ids' = ids
      /\ kept' = kept /\ added' = added /\ removed' = removed /\ moves' = moves
      /\ all' = all \o Items
      /\ IF Complete(all') THEN at' = "listed" /\ page' = page
                           ELSE at' = "get" /\ page' = page + 1
  BY DEF GetPage, history
<1>2. PICK lo : lo = Len(all)
  OBVIOUS
<1>3. PICK n : n = Len(table)
  OBVIOUS
<1>4. PICK hi : hi = Least((page + 1) * PageSize, n)
  OBVIOUS
<1>5. PICK it : it = Items
  OBVIOUS
<1>6. /\ lo \in Nat /\ n \in Nat /\ lo = page * PageSize /\ page \in Nat /\ PageSize \in Nat \ {0}
      /\ (page + 1) * PageSize = lo + PageSize
      /\ table \in Seq(1 .. ids) /\ all \in Seq(1 .. ids) /\ IsInjective(table)
  BY <1>1, <1>2, <1>3, ListingSets, PageNumbers DEF ListingInv, ListingTypeOK, ListingAssumption
<1>7. hi \in Nat /\ hi = IF lo + PageSize < n THEN lo + PageSize ELSE n
  BY <1>4, <1>6 DEF Least
<1>8. it = SubSeq(table, lo + 1, hi)
  BY <1>3, <1>4, <1>5, <1>6 DEF Items
<1>9. hi =< n /\ (lo =< hi \/ hi = n)
  BY <1>6, <1>7
<1>10. PICK k : k = Len(it)
  OBVIOUS
<1>11. /\ it \in Seq(1 .. ids) /\ k = (IF lo =< hi THEN hi - lo ELSE 0)
       /\ IsFiniteSet(ToSet(it)) /\ Cardinality(ToSet(it)) = k
       /\ After(table, lo) = ToSet(it) \cup After(table, lo + k)
       /\ ToSet(it) \cap After(table, lo + k) = {}
       /\ Before(table, lo + k) \subseteq Before(table, lo) \cup ToSet(it)
  <2>1. hi =< Len(table) /\ (lo =< hi \/ hi = Len(table))
    BY <1>3, <1>9
  <2>2. it \in Seq(1 .. ids) /\ Slice(table, lo, hi, it)
    BY <1>6, <1>7, <1>8, <2>1, SliceFacts
  <2>3. QED
    BY <1>10, <2>2 DEF Slice
<1>12. k \in Nat /\ (lo + k >= n \/ k = PageSize)
  BY <1>6, <1>7, <1>11
<1>13. all' \in Seq(1 .. ids) /\ Len(all') = lo + k /\ ToSet(all') = ToSet(all) \cup ToSet(it)
  <2>1. /\ all \o it \in Seq(1 .. ids) /\ Len(all \o it) = Len(all) + Len(it)
        /\ \A p \in 1 .. (Len(all) + Len(it)) :
             (all \o it)[p] = IF p =< Len(all) THEN all[p] ELSE it[p - Len(all)]
    BY <1>6, <1>11, ConcatProperties
  <2>2. /\ all' \in Seq(1 .. ids) /\ Len(all') = lo + k
        /\ \A p \in 1 .. (lo + k) : all'[p] = IF p =< lo THEN all[p] ELSE it[p - lo]
    BY <1>1, <1>2, <1>5, <1>10, <2>1
  <2>3. DOMAIN all' = 1 .. (lo + k) /\ DOMAIN all = 1 .. lo /\ DOMAIN it = 1 .. k
    BY <1>2, <1>6, <1>10, <1>11, <2>2, LenProperties
  <2>4. ASSUME NEW p \in 1 .. (lo + k) PROVE all'[p] \in ToSet(all) \cup ToSet(it)
    <3>1. CASE p =< lo
      BY <1>6, <2>2, <2>3, <3>1 DEF ToSet
    <3>2. CASE ~(p =< lo)
      <4>1. p - lo \in 1 .. k
        BY <1>6, <1>12, <3>2
      <4>2. QED
        BY <2>2, <2>3, <3>2, <4>1 DEF ToSet
    <3>3. QED
      BY <3>1, <3>2
  <2>5. ASSUME NEW p \in 1 .. lo PROVE all[p] \in ToSet(all')
    <3>1. p \in 1 .. (lo + k) /\ p =< lo
      BY <1>6, <1>12
    <3>2. QED
      BY <2>2, <2>3, <3>1 DEF ToSet
  <2>6. ASSUME NEW p \in 1 .. k PROVE it[p] \in ToSet(all')
    <3>1. lo + p \in 1 .. (lo + k) /\ ~(lo + p =< lo) /\ (lo + p) - lo = p
      BY <1>6, <1>12
    <3>2. all'[lo + p] = it[p]
      BY <2>2, <3>1
    <3>3. QED
      BY <2>3, <3>1, <3>2 DEF ToSet
  <2>7. ToSet(all') \subseteq ToSet(all) \cup ToSet(it)
    BY <2>3, <2>4 DEF ToSet
  <2>8. ToSet(all) \subseteq ToSet(all') /\ ToSet(it) \subseteq ToSet(all')
    BY <2>3, <2>5, <2>6 DEF ToSet
  <2>9. QED
    BY <2>2, <2>7, <2>8
<1>14. Complete(all') <=> lo + k >= n
  BY <1>3, <1>13 DEF Complete
<1>15. ListingTypeOK'
  <2>1. at' \in Asking => Len(all') = page' * PageSize
    BY <1>1, <1>6, <1>12, <1>13, <1>14 DEF Asking
  <2>2. page' \in Nat /\ at' \in Asking \cup {"idle", "listed", "failed"}
    BY <1>1, <1>6 DEF Asking
  <2>3. QED
    BY <1>1, <1>13, <2>1, <2>2 DEF ListingInv, ListingTypeOK
<1> DEFINE A == ToSet(all)
           I == ToSet(it)
           Later == After(table, lo + k)
<1>16. /\ A \subseteq 1 .. ids /\ I \subseteq 1 .. ids /\ kept \subseteq ToSet(table)
       /\ \A S : S \subseteq 1 .. ids => IsFiniteSet(S) /\ Cardinality(S) \in Nat
  <2>1. DOMAIN it = 1 .. k /\ \A p \in 1 .. k : it[p] \in 1 .. ids
    BY <1>10, <1>11, LenProperties
  <2>2. I \subseteq 1 .. ids
    BY <2>1 DEF ToSet
  <2>3. QED
    BY <2>2, ListingSets
<1>17. /\ Cardinality((kept \cap Before(table, lo)) \ A) =< removed
       /\ lo - Cardinality(A) + Cardinality(After(table, lo) \cap A) =< added
       /\ removed \in Nat /\ added \in Nat
  BY <1>1, <1>2 DEF ListingInv, ListingTypeOK, LoopBound, Overlooked, ToComeAgain
<1> HIDE DEF A, I, Later
<1>18. /\ After(table, lo) = I \cup Later /\ I \cap Later = {} /\ ToSet(all') = A \cup I
       /\ Cardinality(I) = k
       /\ Before(table, lo + k) \subseteq Before(table, lo) \cup I
  BY <1>11, <1>13 DEF A, I, Later
<1>19. Cardinality((kept \cap Before(table, lo + k)) \ (A \cup I)) =< removed
  <2>1. /\ (kept \cap Before(table, lo)) \ A \subseteq 1 .. ids
        /\ (kept \cap Before(table, lo + k)) \ (A \cup I) \in SUBSET ((kept \cap Before(table, lo)) \ A)
    BY <1>18, ListingSets
  <2>2. PICK S : S = (kept \cap Before(table, lo)) \ A
    OBVIOUS
  <2>3. PICK T : T = (kept \cap Before(table, lo + k)) \ (A \cup I)
    OBVIOUS
  <2>4. IsFiniteSet(S) /\ T \in SUBSET S /\ T \subseteq 1 .. ids
    BY <1>16, <2>1, <2>2, <2>3
  <2>5. Cardinality(T) =< Cardinality(S) /\ Cardinality(S) =< removed
        /\ Cardinality(T) \in Nat /\ Cardinality(S) \in Nat
    BY <1>16, <1>17, <2>1, <2>2, <2>4, FS_Subset
  <2>6. QED
    BY <1>17, <2>3, <2>5
<1>20. (lo + k) - Cardinality(A \cup I) + Cardinality(Later \cap (A \cup I)) =< added
  <2>1. /\ IsFiniteSet(A) /\ IsFiniteSet(I) /\ IsFiniteSet(A \cap I) /\ IsFiniteSet(Later \cap A)
        /\ Cardinality(A) \in Nat /\ Cardinality(A \cap I) \in Nat /\ Cardinality(Later \cap A) \in Nat
    <3>1. A \cap I \subseteq 1 .. ids /\ Later \cap A \subseteq 1 .. ids
      BY <1>16
    <3>2. QED
      BY <1>16, <3>1
  <2>2. Cardinality(A \cup I) = Cardinality(A) + k - Cardinality(A \cap I)
    BY <1>18, <2>1, FS_Union
  <2>3. Later \cap (A \cup I) = Later \cap A
    BY <1>18
  <2>4. After(table, lo) \cap A = (A \cap I) \cup (Later \cap A) /\ (A \cap I) \cap (Later \cap A) = {}
    BY <1>18
  <2>5. Cardinality((A \cap I) \cup (Later \cap A)) = Cardinality(A \cap I) + Cardinality(Later \cap A)
    <3>1. Cardinality((A \cap I) \cup (Later \cap A))
            = Cardinality(A \cap I) + Cardinality(Later \cap A) - Cardinality({})
      BY <2>1, <2>4, FS_Union
    <3>2. QED
      BY <2>1, <3>1, FS_EmptySet
  <2>6. PICK a : a = Cardinality(A)
    OBVIOUS
  <2>7. PICK b : b = Cardinality(A \cap I)
    OBVIOUS
  <2>8. PICK c : c = Cardinality(Later \cap A)
    OBVIOUS
  <2>9. lo - a + (b + c) =< added /\ a \in Nat /\ b \in Nat /\ c \in Nat
    BY <1>17, <2>1, <2>4, <2>5, <2>6, <2>7, <2>8
  <2>10. (lo + k) - (a + k - b) + c =< added
    BY <1>6, <1>12, <1>17, <2>9
  <2>11. QED
    BY <2>2, <2>3, <2>6, <2>7, <2>8, <2>10
<1>21. LoopBound'
  <2>1. Overlooked' = (kept \cap Before(table, lo + k)) \ (A \cup I)
    BY <1>1, <1>13, <1>18 DEF Overlooked
  <2>2. ToComeAgain' = Later \cap (A \cup I)
    BY <1>1, <1>13, <1>18 DEF ToComeAgain, Later
  <2>3. QED
    BY <1>1, <1>13, <1>18, <1>19, <1>20, <2>1, <2>2 DEF LoopBound
<1>22. ListingIsOffByTheChanges'
  <2> SUFFICES ASSUME at' = "listed"
               PROVE  /\ Cardinality(kept \ (A \cup I)) =< removed
                      /\ (lo + k) - Cardinality(A \cup I) =< added
    BY <1>1, <1>13, <1>18 DEF ListingIsOffByTheChanges
  <2>1. lo + k >= n
    BY <1>1, <1>14
  <2>2. ToSet(table) = Before(table, lo + k)
    <3>1. DOMAIN table = 1 .. n
      BY <1>3, <1>6, LenProperties
    <3>2. \A p \in DOMAIN table : p =< lo + k
      BY <1>6, <1>12, <2>1, <3>1
    <3>3. QED
      BY <3>2 DEF ToSet, Before
  <2>3. kept \ (A \cup I) = (kept \cap Before(table, lo + k)) \ (A \cup I)
    BY <1>16, <2>2
  <2>4. (lo + k) - Cardinality(A \cup I) =< added
    <3>1. A \cup I \subseteq 1 .. ids /\ Later \cap (A \cup I) \subseteq 1 .. ids
      BY <1>16
    <3>2. Cardinality(A \cup I) \in Nat /\ Cardinality(Later \cap (A \cup I)) \in Nat
      BY <1>16, <3>1
    <3>3. QED
      BY <1>6, <1>12, <1>17, <1>20, <3>2
  <2>5. QED
    BY <1>19, <2>3, <2>4
<1>23. QED
  BY <1>1, <1>15, <1>21, <1>22 DEF ListingInv

LEMMA OneMore ==
  ASSUME NEW S, IsFiniteSet(S), NEW T, NEW x, T \subseteq S \cup {x}
  PROVE  IsFiniteSet(T) /\ Cardinality(T) \in Nat /\ Cardinality(T) =< Cardinality(S) + 1
<1>1. IsFiniteSet(S \cup {x}) /\ Cardinality(S \cup {x}) =< Cardinality(S) + 1 /\ Cardinality(S) \in Nat
  BY FS_AddElement, FS_CardinalityType
<1>2. T \in SUBSET (S \cup {x})
  OBVIOUS
<1>3. IsFiniteSet(T) /\ Cardinality(T) =< Cardinality(S \cup {x})
  BY <1>1, <1>2, FS_Subset
<1>4. Cardinality(T) \in Nat /\ Cardinality(S \cup {x}) \in Nat
  BY <1>1, <1>3, FS_CardinalityType
<1>5. QED
  BY <1>1, <1>3, <1>4

\* A change of the table: a removal lets at most one more channel be overlooked,
\* an insertion at most one more come again.
LEMMA KeepsChange ==
  ASSUME ListingAssumption, ListingInv, at \in Asking, UNCHANGED listing,
         ids' \in ids .. MaxId, moves' \in 0 .. MaxMoves,
         table' \in Seq(1 .. ids'), IsInjective(table'), kept' \subseteq ToSet(table'),
         NEW x, \/ removed' = removed /\ Overlooked' \subseteq Overlooked
                \/ removed' = removed + 1 /\ Overlooked' \subseteq Overlooked \cup {x},
         NEW y, \/ added' = added /\ ToComeAgain' \subseteq ToComeAgain
                \/ added' = added + 1 /\ ToComeAgain' \subseteq ToComeAgain \cup {y}
  PROVE  ListingInv'
<1>1. /\ at' = at /\ page' = page /\ all' = all /\ at # "listed"
  BY DEF listing, Asking
<1>2. /\ ids \in Nat /\ ids' \in Nat /\ 1 .. ids \subseteq 1 .. ids' /\ ids' \in 0 .. MaxId
      /\ removed \in Nat /\ added \in Nat /\ all \in Seq(1 .. ids)
      /\ page \in Nat /\ Len(all) = page * PageSize
  BY DEF ListingInv, ListingTypeOK, ListingAssumption
<1>3. all' \in Seq(1 .. ids')
  BY <1>1, <1>2, SeqMonotonic
<1>4. ToSet(table') \subseteq 1 .. ids'
  <2>1. \A p \in DOMAIN table' : table'[p] \in 1 .. ids'
    BY LenProperties
  <2>2. QED
    BY <2>1 DEF ToSet
<1>5. ListingTypeOK'
  <2>1. removed' \in Nat /\ added' \in Nat
    BY <1>2
  <2>2. QED
    BY <1>1, <1>2, <1>3, <1>4, <2>1 DEF ListingTypeOK, Asking
<1>6. /\ Overlooked \subseteq 1 .. ids /\ ToComeAgain \subseteq 1 .. ids
      /\ Cardinality(Overlooked) =< removed /\ Cardinality(Overlooked) \in Nat
      /\ Len(all) - Cardinality(ToSet(all)) + Cardinality(ToComeAgain) =< added
      /\ Cardinality(ToComeAgain) \in Nat /\ IsFiniteSet(Overlooked) /\ IsFiniteSet(ToComeAgain)
      /\ Cardinality(ToSet(all)) \in Nat /\ Len(all) \in Nat
  <2>1. Overlooked \subseteq 1 .. ids /\ ToComeAgain \subseteq 1 .. ids /\ ToSet(all) \subseteq 1 .. ids
    BY ListingSets DEF Overlooked, ToComeAgain
  <2>2. QED
    BY <2>1, ListingSets DEF ListingInv, LoopBound
<1>7. Cardinality(Overlooked') =< removed'
  <2>1. PICK S : S = Overlooked
    OBVIOUS
  <2>2. PICK T : T = Overlooked'
    OBVIOUS
  <2>3. CASE removed' = removed /\ T \subseteq S
    <3>1. T \in SUBSET S /\ IsFiniteSet(S)
      BY <1>6, <2>1, <2>3
    <3>2. Cardinality(T) =< Cardinality(S) /\ Cardinality(T) \in Nat
      BY <3>1, FS_Subset, FS_CardinalityType
    <3>3. QED
      BY <1>2, <1>6, <2>1, <2>2, <2>3, <3>2
  <2>4. CASE removed' = removed + 1 /\ T \subseteq S \cup {x}
    <3>1. Cardinality(T) =< Cardinality(S) + 1 /\ Cardinality(T) \in Nat
      BY <1>6, <2>1, <2>4, OneMore
    <3>2. QED
      BY <1>2, <1>6, <2>1, <2>2, <2>4, <3>1
  <2>5. QED
    BY <2>1, <2>2, <2>3, <2>4
<1>8. Len(all) - Cardinality(ToSet(all)) + Cardinality(ToComeAgain') =< added'
  <2>1. PICK S : S = ToComeAgain
    OBVIOUS
  <2>2. PICK T : T = ToComeAgain'
    OBVIOUS
  <2>3. CASE added' = added /\ T \subseteq S
    <3>1. T \in SUBSET S /\ IsFiniteSet(S)
      BY <1>6, <2>1, <2>3
    <3>2. Cardinality(T) =< Cardinality(S) /\ Cardinality(T) \in Nat
      BY <3>1, FS_Subset, FS_CardinalityType
    <3>3. QED
      BY <1>2, <1>6, <2>1, <2>2, <2>3, <3>2
  <2>4. CASE added' = added + 1 /\ T \subseteq S \cup {y}
    <3>1. Cardinality(T) =< Cardinality(S) + 1 /\ Cardinality(T) \in Nat
      BY <1>6, <2>1, <2>4, OneMore
    <3>2. QED
      BY <1>2, <1>6, <2>1, <2>2, <2>4, <3>1
  <2>5. QED
    BY <2>1, <2>2, <2>3, <2>4
<1>9. LoopBound'
  BY <1>1, <1>7, <1>8 DEF LoopBound
<1>10. ListingIsOffByTheChanges'
  BY <1>1 DEF ListingIsOffByTheChanges
<1>11. QED
  BY <1>5, <1>9, <1>10 DEF ListingInv

LEMMA KeepsAdd == ASSUME ListingAssumption, ListingInv, NEW i, Add(i) PROVE ListingInv'
<1>1. /\ at \in Asking /\ UNCHANGED listing /\ i \in 1 .. (Len(table) + 1)
      /\ kept' = kept /\ removed' = removed /\ moves' = moves
      /\ ids' = ids + 1 /\ ids < MaxId /\ table' = InsertAt(table, i, ids + 1) /\ added' = added + 1
  BY DEF Add
<1>2. PICK e : e = ids + 1
  OBVIOUS
<1>3. PICK t : t = table'
  OBVIOUS
<1>4. /\ ids \in Nat /\ e \in 1 .. e /\ ids' = e /\ e \notin 1 .. ids /\ 1 .. ids \subseteq 1 .. e
      /\ e \in ids .. MaxId /\ moves \in 0 .. MaxMoves /\ table \in Seq(1 .. e)
      /\ IsInjective(table) /\ kept \subseteq ToSet(table) /\ ToSet(table) \subseteq 1 .. ids
  <2>1. ids \in Nat /\ table \in Seq(1 .. ids) /\ e \in ids .. MaxId
    BY <1>1, <1>2 DEF ListingInv, ListingTypeOK, ListingAssumption
  <2>2. 1 .. ids \subseteq 1 .. e /\ e \in 1 .. e /\ e \notin 1 .. ids
    BY <1>2, <2>1
  <2>3. table \in Seq(1 .. e)
    BY <2>1, <2>2, SeqMonotonic
  <2>4. QED
    BY <1>1, <1>2, <2>1, <2>2, <2>3 DEF ListingInv, ListingTypeOK
<1>5. PICK n \in Nat : n = Len(all)
  BY ListingSets
<1>6. /\ t \in Seq(1 .. e) /\ ToSet(t) = ToSet(table) \cup {e}
      /\ Before(t, n) \subseteq Before(table, n) \cup {e}
      /\ \E x : After(t, n) \subseteq After(table, n) \cup {x}
      /\ IsInjective(t)
  <2>1. t = InsertAt(table, i, e) /\ e \notin ToSet(table) /\ n \in Nat
    BY <1>1, <1>2, <1>3, <1>4, <1>5
  <2>2. t \in Seq(1 .. e) /\ InsertMoves(table, e, t, n)
    BY <1>1, <1>4, <2>1, InsertShifts
  <2>3. QED
    BY <1>4, <2>1, <2>2 DEF InsertMoves
<1>7. PICK y : After(t, n) \subseteq After(table, n) \cup {y}
  BY <1>6
<1>8. all' = all
  BY <1>1 DEF listing
<1>9. Overlooked' \subseteq Overlooked
  <2>1. kept \cap Before(t, n) \subseteq kept \cap Before(table, n)
    BY <1>4, <1>6
  <2>2. QED
    BY <1>1, <1>3, <1>5, <1>8, <2>1 DEF Overlooked
<1>10. ToComeAgain' \subseteq ToComeAgain \cup {y}
  BY <1>3, <1>5, <1>7, <1>8 DEF ToComeAgain
<1>11. table' \in Seq(1 .. ids') /\ IsInjective(table') /\ kept' \subseteq ToSet(table')
  BY <1>1, <1>3, <1>4, <1>6
<1>12. ids' \in ids .. MaxId /\ moves' \in 0 .. MaxMoves
  BY <1>1, <1>4
<1>13. QED
  BY <1>1, <1>9, <1>10, <1>11, <1>12, KeepsChange

LEMMA KeepsDelete == ASSUME ListingAssumption, ListingInv, NEW i, Delete(i) PROVE ListingInv'
<1>1. /\ at \in Asking /\ UNCHANGED listing /\ i \in DOMAIN table
      /\ kept' = kept \ {table[i]} /\ removed' = removed + 1 /\ moves' = moves
      /\ ids' = ids /\ table' = RemoveAt(table, i) /\ added' = added
  BY DEF Delete
<1>2. PICK t : t = table'
  OBVIOUS
<1>3. /\ ids \in ids .. MaxId /\ moves \in 0 .. MaxMoves /\ table \in Seq(1 .. ids)
      /\ IsInjective(table) /\ kept \subseteq ToSet(table) /\ i \in 1 .. Len(table)
  BY <1>1, ListingSets DEF ListingInv, ListingTypeOK
<1>4. PICK n \in Nat : n = Len(all)
  BY ListingSets
<1>5. /\ t \in Seq(1 .. ids) /\ ToSet(table) \subseteq ToSet(t) \cup {table[i]}
      /\ After(t, n) \subseteq After(table, n)
      /\ \E x : Before(t, n) \subseteq Before(table, n) \cup {x}
      /\ IsInjective(t)
  <2>1. t = RemoveAt(table, i) /\ n \in Nat
    BY <1>1, <1>2, <1>4
  <2>2. t \in Seq(1 .. ids) /\ RemoveMoves(table, i, t, n)
    BY <1>3, <2>1, RemoveShifts
  <2>3. QED
    BY <1>3, <2>2 DEF RemoveMoves
<1>6. PICK x : Before(t, n) \subseteq Before(table, n) \cup {x}
  BY <1>5
<1>7. all' = all
  BY <1>1 DEF listing
<1>8. Overlooked' \subseteq Overlooked \cup {x}
  BY <1>1, <1>2, <1>4, <1>6, <1>7 DEF Overlooked
<1>9. ToComeAgain' \subseteq ToComeAgain
  BY <1>2, <1>4, <1>5, <1>7 DEF ToComeAgain
<1>10. table' \in Seq(1 .. ids') /\ IsInjective(table') /\ kept' \subseteq ToSet(table')
  BY <1>1, <1>2, <1>3, <1>5
<1>11. ids' \in ids .. MaxId /\ moves' \in 0 .. MaxMoves
  BY <1>1, <1>3
<1>12. QED
  BY <1>1, <1>8, <1>9, <1>10, <1>11, KeepsChange

\* A move takes one channel out and puts it in again: it is the only one that can
\* come to the places read, or another one takes its place there.
LEMMA KeepsMove == ASSUME ListingAssumption, ListingInv, NEW i, NEW j, Move(i, j) PROVE ListingInv'
<1>1. /\ at \in Asking /\ UNCHANGED listing /\ i \in DOMAIN table /\ j \in DOMAIN table
      /\ kept' = kept /\ removed' = removed + 1 /\ moves' = moves + 1 /\ moves < MaxMoves
      /\ ids' = ids /\ table' = InsertAt(RemoveAt(table, i), j, table[i]) /\ added' = added + 1
  BY DEF Move
<1>2. PICK t : t = table'
  OBVIOUS
<1>3. PICK u : u = RemoveAt(table, i)
  OBVIOUS
<1>4. PICK e : e = table[i]
  OBVIOUS
<1>5. /\ ids \in ids .. MaxId /\ moves' \in 0 .. MaxMoves /\ table \in Seq(1 .. ids)
      /\ IsInjective(table) /\ kept \subseteq ToSet(table)
      /\ i \in 1 .. Len(table) /\ j \in 1 .. Len(table) /\ Len(table) \in Nat
  BY <1>1, ListingSets DEF ListingInv, ListingTypeOK, ListingAssumption
<1>6. PICK n \in Nat : n = Len(all)
  BY ListingSets
<1>7. /\ u \in Seq(1 .. ids) /\ Len(u) = Len(table) - 1 /\ e \in 1 .. ids
      /\ ToSet(table) \subseteq ToSet(u) \cup {e} /\ After(u, n) \subseteq After(table, n)
      /\ \E x : Before(u, n) \subseteq Before(table, n) \cup {x}
      /\ i > n => Before(u, n) \subseteq Before(table, n)
      /\ i =< n => e \in Before(table, n)
      /\ IsInjective(u) /\ e \notin ToSet(u)
  <2>1. /\ u \in Seq(1 .. ids) /\ Len(u) = Len(table) - 1 /\ table[i] \in 1 .. ids
        /\ RemoveMoves(table, i, u, n)
    BY <1>3, <1>5, <1>6, RemoveShifts
  <2>2. QED
    BY <1>4, <1>5, <2>1 DEF RemoveMoves
<1>8. /\ t \in Seq(1 .. ids) /\ ToSet(t) = ToSet(u) \cup {e}
      /\ Before(t, n) \subseteq Before(u, n) \cup {e}
      /\ \E y : After(t, n) \subseteq After(u, n) \cup {y}
      /\ IsInjective(t)
  <2>1. t = InsertAt(u, j, e) /\ j \in 1 .. (Len(u) + 1) /\ n \in Nat
    BY <1>1, <1>2, <1>3, <1>4, <1>5, <1>6, <1>7
  <2>2. t \in Seq(1 .. ids) /\ InsertMoves(u, e, t, n)
    BY <1>7, <2>1, InsertShifts
  <2>3. QED
    BY <1>7, <2>2 DEF InsertMoves
<1>9. PICK y : After(t, n) \subseteq After(table, n) \cup {y}
  BY <1>7, <1>8
<1>10. PICK x : Before(t, n) \subseteq Before(table, n) \cup {x}
  <2>1. CASE i > n
    BY <1>7, <1>8, <2>1
  <2>2. CASE i =< n
    BY <1>7, <1>8, <2>2
  <2>3. i > n \/ i =< n
    BY <1>5, <1>6
  <2>4. QED
    BY <2>1, <2>2, <2>3
<1>11. all' = all
  BY <1>1 DEF listing
<1>12. Overlooked' \subseteq Overlooked \cup {x}
  BY <1>1, <1>2, <1>6, <1>10, <1>11 DEF Overlooked
<1>13. ToComeAgain' \subseteq ToComeAgain \cup {y}
  BY <1>2, <1>6, <1>9, <1>11 DEF ToComeAgain
<1>14. table' \in Seq(1 .. ids') /\ IsInjective(table') /\ kept' \subseteq ToSet(table')
  BY <1>1, <1>2, <1>5, <1>7, <1>8
<1>15. ids' \in ids .. MaxId /\ moves' \in 0 .. MaxMoves
  BY <1>1, <1>5
<1>16. QED
  BY <1>1, <1>12, <1>13, <1>14, <1>15, KeepsChange

\* Between a deletion here and an insertion there, what the listing overlooks and
\* what it reads twice never gets ahead of what was done to the table.
THEOREM ListingInvariant == ListingSpec => []ListingInv
<1>1. ListingInit => ListingInv
  BY ListingAssumption, ListingInitInv
<1>2. ListingInv /\ [ListingNext]_listingVars => ListingInv'
  <2> SUFFICES ASSUME ListingInv, [ListingNext]_listingVars PROVE ListingInv'
    OBVIOUS
  <2>1. CASE Begin
    BY <2>1, ListingAssumption, KeepsBegin
  <2>2. CASE List
    BY <2>2, ListingAssumption, KeepsGetPage, KeepsGetFails DEF List
  <2>3. ASSUME NEW i, Add(i) PROVE ListingInv'
    BY <2>3, ListingAssumption, KeepsAdd
  <2>4. ASSUME NEW i, Delete(i) PROVE ListingInv'
    BY <2>4, ListingAssumption, KeepsDelete
  <2>5. ASSUME NEW i, NEW j, Move(i, j) PROVE ListingInv'
    BY <2>5, ListingAssumption, KeepsMove
  <2>6. CASE UNCHANGED listingVars
    BY <2>6 DEF listingVars, listing, history, ListingInv, ListingTypeOK, LoopBound,
                ListingIsOffByTheChanges, Overlooked, ToComeAgain
  <2>7. QED
    BY <2>1, <2>2, <2>3, <2>4, <2>5, <2>6 DEF ListingNext
<1>3. QED
  BY <1>1, <1>2, PTL DEF ListingSpec

\* The listing's variables have their types, and as long as it asks for pages it
\* has read nothing but full ones.
THEOREM ListingTypeCorrect == ListingSpec => []ListingTypeOK
<1>1. ListingInv => ListingTypeOK
  BY DEF ListingInv
<1>2. QED
  BY <1>1, ListingInvariant, PTL

\* However long the table, however many channels are added, deleted and moved
\* while it is read: a listing that succeeds overlooks at most one channel that was
\* there all the time for each removal, and reads at most one twice for each
\* insertion.
THEOREM ListingOffByTheChanges == ListingSpec => []ListingIsOffByTheChanges
<1>1. ListingInv => ListingIsOffByTheChanges
  BY DEF ListingInv
<1>2. QED
  BY <1>1, ListingInvariant, PTL
=============================================================================
