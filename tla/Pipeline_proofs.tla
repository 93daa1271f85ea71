-------------------------- MODULE Pipeline_proofs --------------------------
(***************************************************************************)
(* Proofs about Pipeline, for every set of arguments and every bound: the  *)
(* results file of a run is sound whatever the commands before it did, and *)
(* implements CellLog, and its meta is true; a teardown that reports       *)
(* success has left no function behind; and a cell is measured on its own  *)
(* function with its own code, fresh unless the build or the deploy is     *)
(* skipped.                                                                *)
(***************************************************************************)
EXTENDS Pipeline, SequenceTheorems, FiniteSetTheorems, FunctionTheorems,
        WellFoundedInduction, TLAPS

-----------------------------------------------------------------------------
(* The results file, for every set of cells and every number of rows.        *)

\* What the writer has been given, in the order in which it reaches the file.
Stream(d, p) == d \o p

\* While cell c is written, the rows given to the encoder follow those counted, and
\* the last of them is the one before the next to be given.
WritingInv(c, n) ==
  /\ lines = File!RowsOf(c)
  /\ n = counted + appended
  /\ appended > 0 => Stream(disk, pipe)[n] = <<c, appended>>

\* The inductive invariant: order holds of the buffered rows, too, and the counted
\* ones end with the last row of a cell.
FileInv ==
  /\ File!TypeOK
  /\ File!InOrder(Stream(disk, pipe))
  /\ File!CountedIsOnDisk
  /\ writer \in {"none", "open", "closed"} => pipe = <<>>
  /\ writer = "open" => counted = Len(disk)
  /\ writer = "writing" => \E c \in MeasuredCells : WritingInv(c, Len(disk) + Len(pipe))

-----------------------------------------------------------------------------

\* A row is a pair of a cell and one of its row numbers.
LEMMA RowType ==
  ASSUME File!RowsAssumption, NEW r \in File!AllRows
  PROVE /\ r[1] \in MeasuredCells /\ r[2] \in 1 .. Rows[r[1]] /\ Rows[r[1]] \in Nat \ {0}
        /\ r = <<r[1], r[2]>>
  BY DEF File!RowsAssumption, File!AllRows

\* The rows of a cell are rows, numbered from one.
LEMMA RowsOfType ==
  ASSUME File!RowsAssumption, NEW c \in MeasuredCells
  PROVE /\ File!RowsOf(c) \in Seq(File!AllRows) /\ Len(File!RowsOf(c)) = Rows[c]
        /\ Rows[c] \in Nat \ {0}
        /\ \A i \in 1 .. Rows[c] : File!RowsOf(c)[i] = <<c, i>>
<1>1. Rows[c] \in Nat \ {0}
  BY DEF File!RowsAssumption
<1>2. \A i \in 1 .. Rows[c] : <<c, i>> \in File!AllRows
  BY <1>1 DEF File!AllRows
<1>3. QED
  BY <1>1, <1>2 DEF File!RowsOf

\* A first part of rows in order is in order.
LEMMA PrefixInOrder ==
  ASSUME NEW s \in Seq(File!AllRows), NEW t \in Seq(File!AllRows),
         File!InOrder(s), Len(t) <= Len(s), \A i \in 1 .. Len(t) : t[i] = s[i]
  PROVE File!InOrder(t)
  BY DEF File!InOrder

\* One more row keeps the order if it follows the last one.
LEMMA AppendInOrder ==
  ASSUME NEW s \in Seq(File!AllRows), NEW t \in Seq(File!AllRows), NEW r \in File!AllRows,
         File!InOrder(s), Len(t) = Len(s) + 1,
         \A i \in 1 .. Len(s) : t[i] = s[i], t[Len(t)] = r,
         IF r[2] = 1 THEN Len(s) > 0 => s[Len(s)][2] = Rows[s[Len(s)][1]]
                     ELSE Len(s) > 0 /\ s[Len(s)] = <<r[1], r[2] - 1>>
  PROVE File!InOrder(t)
  BY DEF File!InOrder

-----------------------------------------------------------------------------

\* The buffered rows and the file's are together rows in order.
LEMMA StreamType ==
  ASSUME FileInv
  PROVE /\ disk \in Seq(File!AllRows) /\ pipe \in Seq(File!AllRows) /\ counted \in Nat
        /\ Stream(disk, pipe) \in Seq(File!AllRows)
        /\ Len(Stream(disk, pipe)) = Len(disk) + Len(pipe)
        /\ \A i \in 1 .. Len(disk) : Stream(disk, pipe)[i] = disk[i]
        /\ \A i \in 1 .. Len(pipe) : Stream(disk, pipe)[Len(disk) + i] = pipe[i]
  BY DEF FileInv, File!TypeOK, Stream

\* Where a stream of old rows ends in the same place, its rows are the old ones.
LEMMA Moved ==
  ASSUME NEW d \in Seq(File!AllRows), NEW p \in Seq(File!AllRows), NEW n \in 1 .. Len(p)
  PROVE /\ d \o SubSeq(p, 1, n) \in Seq(File!AllRows)
        /\ SubSeq(p, n + 1, Len(p)) \in Seq(File!AllRows)
        /\ Len(d \o SubSeq(p, 1, n)) = Len(d) + n
        /\ Len(SubSeq(p, n + 1, Len(p))) = Len(p) - n
        /\ Stream(d \o SubSeq(p, 1, n), SubSeq(p, n + 1, Len(p))) = Stream(d, p)
<1> DEFINE a == SubSeq(p, 1, n)
           b == SubSeq(p, n + 1, Len(p))
<1>1. /\ a \in Seq(File!AllRows) /\ Len(a) = n /\ \A i \in 1 .. n : a[i] = p[i]
  OBVIOUS
<1>2. /\ b \in Seq(File!AllRows) /\ Len(b) = Len(p) - n
      /\ \A i \in 1 .. Len(p) - n : b[i] = p[n + i]
  OBVIOUS
<1> HIDE DEF a, b
<1>3. /\ d \o a \in Seq(File!AllRows) /\ Len(d \o a) = Len(d) + n
      /\ \A i \in 1 .. Len(d) : (d \o a)[i] = d[i]
      /\ \A i \in 1 .. n : (d \o a)[Len(d) + i] = p[i]
  BY <1>1
<1>4. /\ Stream(d \o a, b) \in Seq(File!AllRows) /\ Stream(d, p) \in Seq(File!AllRows)
      /\ Len(Stream(d \o a, b)) = Len(d) + Len(p)
      /\ Len(Stream(d, p)) = Len(d) + Len(p)
  <2>1. Stream(d \o a, b) \in Seq(File!AllRows) /\ Stream(d, p) \in Seq(File!AllRows)
    BY <1>2, <1>3, ConcatProperties DEF Stream
  <2>2. Len(Stream(d \o a, b)) = Len(d \o a) + Len(b)
    BY <1>2, <1>3, ConcatProperties DEF Stream
  <2>3. Len(d) \in Nat /\ Len(p) \in Nat /\ n \in Nat
    OBVIOUS
  <2>4. Len(Stream(d \o a, b)) = Len(d) + Len(p)
    BY <2>2, <2>3, <1>2, <1>3
  <2>5. Len(Stream(d, p)) = Len(d) + Len(p)
    BY ConcatProperties DEF Stream
  <2>6. QED
    BY <2>1, <2>4, <2>5
<1>5. ASSUME NEW i \in 1 .. Len(d) + Len(p)
      PROVE Stream(d \o a, b)[i] = Stream(d, p)[i]
  <2>1. CASE i \in 1 .. Len(d)
    BY <1>2, <1>3, <2>1 DEF Stream
  <2>2. CASE i \in Len(d) + 1 .. Len(d) + n
    <3>1. i - Len(d) \in 1 .. n
      BY <2>2
    <3>2. (d \o a)[Len(d) + (i - Len(d))] = p[i - Len(d)]
      BY <1>3, <3>1
    <3>3. Len(d) + (i - Len(d)) = i
      BY <2>2
    <3>4. (d \o a)[i] = p[i - Len(d)]
      BY <3>2, <3>3
    <3>5. QED
      BY <1>2, <1>3, <2>2, <3>4 DEF Stream
  <2>3. CASE i \in Len(d) + n + 1 .. Len(d) + Len(p)
    <3>1. i - Len(d) - n \in 1 .. Len(p) - n
      BY <2>3
    <3>2. b[i - Len(d) - n] = p[n + (i - Len(d) - n)]
      BY <1>2, <3>1
    <3>3. b[i - Len(d) - n] = p[i - Len(d)]
      BY <3>2, <2>3
    <3>4. Stream(d \o a, b)[i] = b[i - (Len(d) + n)]
      BY <1>2, <1>3, <2>3 DEF Stream
    <3>5. Stream(d, p)[i] = p[i - Len(d)]
      BY <2>3 DEF Stream
    <3>6. QED
      BY <3>3, <3>4, <3>5
  <2>4. QED
    BY <1>5, <2>1, <2>2, <2>3
<1>6. Stream(d \o a, b) = Stream(d, p)
  BY <1>4, <1>5, SeqEqual
<1>7. QED
  BY <1>2, <1>3, <1>6 DEF a, b

\* An empty file is in order, and nothing of it is counted.
LEMMA InitFileInv == File!Init => FileInv
  BY DEF File!Init, FileInv, File!TypeOK, Stream, File!InOrder, File!CountedIsOnDisk

\* create truncates what an earlier run left.
LEMMA CreateFileInv ==
  ASSUME FileInv, File!Create
  PROVE FileInv'
  BY DEF File!Create, File!Truncated, FileInv, File!TypeOK, Stream, File!InOrder, File!CountedIsOnDisk

\* A cell is begun when everything before it is counted.
LEMMA BeginFileInv ==
  ASSUME File!RowsAssumption, FileInv, NEW c \in MeasuredCells, File!Begin(c)
  PROVE FileInv'
<1>1. /\ lines' = File!RowsOf(c) /\ appended' = 0 /\ writer' = "writing"
      /\ disk' = disk /\ pipe' = pipe /\ counted' = counted
      /\ pipe = <<>> /\ counted = Len(disk)
  BY DEF File!Begin, FileInv
<1>2. File!TypeOK'
  BY <1>1, RowsOfType DEF FileInv, File!TypeOK
<1>3. File!InOrder(Stream(disk, pipe))' /\ File!CountedIsOnDisk'
  BY <1>1 DEF FileInv, File!InOrder, File!CountedIsOnDisk, Stream
<1>4. WritingInv(c, Len(disk) + Len(pipe))'
  BY <1>1, StreamType DEF WritingInv
<1>5. QED
  BY <1>1, <1>2, <1>3, <1>4 DEF FileInv

\* The next row follows the last one given, which may still be buffered.
LEMMA AppendRowFileInv ==
  ASSUME File!RowsAssumption, FileInv, File!AppendRow
  PROVE FileInv'
<1>1. PICK c \in MeasuredCells : WritingInv(c, Len(disk) + Len(pipe))
  BY DEF File!AppendRow, FileInv
<1> DEFINE r == <<c, appended + 1>>
           s == Stream(disk, pipe)
           t == Stream(disk, Append(pipe, r))
<1>2. /\ lines = File!RowsOf(c) /\ Len(lines) = Rows[c] /\ Rows[c] \in Nat \ {0}
      /\ appended \in Nat /\ appended < Rows[c] /\ lines[appended + 1] = r
      /\ r \in File!AllRows
  <2>1. lines = File!RowsOf(c) /\ Len(lines) = Rows[c] /\ Rows[c] \in Nat \ {0}
    BY <1>1, RowsOfType DEF WritingInv
  <2>2. appended \in Nat /\ appended < Rows[c]
    BY <2>1 DEF File!AppendRow, FileInv, File!TypeOK
  <2>3. appended + 1 \in 1 .. Rows[c]
    BY <2>1, <2>2
  <2>4. lines[appended + 1] = r
    BY <2>1, <2>3, RowsOfType
  <2>5. r \in File!AllRows
    BY <2>3 DEF File!AllRows
  <2>6. QED
    BY <2>1, <2>2, <2>4, <2>5
<1>3. /\ pipe' = Append(pipe, r) /\ appended' = appended + 1
      /\ writer' = "writing" /\ lines' = lines /\ disk' = disk /\ counted' = counted
  BY <1>2 DEF File!AppendRow
<1>4. File!TypeOK'
  BY <1>2, <1>3 DEF FileInv, File!TypeOK
<1>5. /\ s \in Seq(File!AllRows) /\ Len(s) = Len(disk) + Len(pipe) /\ Len(s) = counted + appended
      /\ counted \in Nat /\ Len(s) \in Nat
      /\ \A i \in 1 .. Len(disk) : s[i] = disk[i]
  BY <1>1, StreamType DEF WritingInv
<1>6. /\ t \in Seq(File!AllRows) /\ Len(t) = Len(s) + 1
      /\ \A i \in 1 .. Len(s) : t[i] = s[i]
      /\ t[Len(t)] = r
  BY <1>2, StreamType DEF Stream
<1>7. IF r[2] = 1 THEN Len(s) > 0 => s[Len(s)][2] = Rows[s[Len(s)][1]]
                  ELSE Len(s) > 0 /\ s[Len(s)] = <<r[1], r[2] - 1>>
  <2>1. CASE appended = 0
    <3>1. Len(s) = counted /\ counted <= Len(disk)
      BY <1>5, <2>1 DEF FileInv, File!CountedIsOnDisk
    <3>2. Len(s) > 0 => s[Len(s)] = disk[counted]
      BY <1>5, <3>1
    <3>3. Len(s) > 0 => s[Len(s)][2] = Rows[s[Len(s)][1]]
      BY <3>1, <3>2, <1>5 DEF FileInv, File!CountedIsOnDisk
    <3>4. QED
      BY <2>1, <3>3
  <2>2. CASE appended > 0
    <3>1. Len(s) > 0 /\ s[Len(s)] = <<c, appended>>
      BY <1>1, <1>2, <1>5, <2>2 DEF WritingInv
    <3>2. r[1] = c /\ r[2] # 1 /\ r[2] - 1 = appended
      BY <1>2, <2>2
    <3>3. QED
      BY <3>1, <3>2
  <2>3. QED
    BY <1>2, <2>1, <2>2
<1>8. File!InOrder(t)
  <2>1. File!InOrder(s)
    BY DEF FileInv
  <2> HIDE DEF r, s, t
  <2>2. r \in File!AllRows
    BY <1>2
  <2>3. QED
    BY <1>5, <1>6, <1>7, <2>1, <2>2, AppendInOrder
<1>9. File!InOrder(Stream(disk, pipe))' /\ File!CountedIsOnDisk'
  BY <1>3, <1>8 DEF FileInv, File!CountedIsOnDisk, File!InOrder, Stream
<1>10. WritingInv(c, Len(disk) + Len(pipe))'
  <2>1. Len(pipe') = Len(pipe) + 1 /\ Len(disk) \in Nat /\ Len(pipe) \in Nat
    BY <1>3, StreamType
  <2>2. Len(disk) + Len(pipe') = Len(t)
    BY <1>5, <1>6, <2>1
  <2>3. Stream(disk, pipe)' = t
    BY <1>3 DEF Stream
  <2>4. t[Len(t)] = <<c, appended'>>
    BY <1>3, <1>6
  <2>5. Len(t) = counted' + appended' /\ lines' = File!RowsOf(c)
    BY <1>2, <1>3, <1>5, <1>6
  <2> HIDE DEF t
  <2>6. QED
    BY <1>3, <2>2, <2>3, <2>4, <2>5 DEF WritingInv
<1>11. QED
  BY <1>3, <1>4, <1>9, <1>10 DEF FileInv

\* Spilling rows moves them without changing their order.
LEMMA SpillFileInv ==
  ASSUME FileInv, File!Spill
  PROVE FileInv'
<1>1. PICK n \in 1 .. Len(pipe) :
        /\ disk' = disk \o SubSeq(pipe, 1, n)
        /\ pipe' = SubSeq(pipe, n + 1, Len(pipe))
  BY DEF File!Spill
<1>2. /\ writer = "writing" /\ writer' = writer /\ lines' = lines /\ appended' = appended
      /\ counted' = counted
  BY DEF File!Spill
<1>3. /\ disk' \in Seq(File!AllRows) /\ pipe' \in Seq(File!AllRows)
      /\ Len(disk') = Len(disk) + n /\ Len(pipe') = Len(pipe) - n
      /\ Stream(disk', pipe') = Stream(disk, pipe)
  BY <1>1, StreamType, Moved
<1>4. File!TypeOK'
  BY <1>2, <1>3 DEF FileInv, File!TypeOK
<1>5. File!InOrder(Stream(disk, pipe))'
  BY <1>3 DEF FileInv, File!InOrder
<1>6. /\ n \in Nat /\ n > 0 /\ n <= Len(pipe) /\ Len(disk) \in Nat /\ Len(pipe) \in Nat /\ counted \in Nat
      /\ counted <= Len(disk)
  BY StreamType DEF FileInv, File!CountedIsOnDisk
<1>7. \A i \in 1 .. Len(disk) : disk'[i] = disk[i]
  BY <1>1, StreamType
<1>8. File!CountedIsOnDisk'
  BY <1>2, <1>3, <1>6, <1>7 DEF FileInv, File!CountedIsOnDisk
<1>9. Len(disk') + Len(pipe') = Len(disk) + Len(pipe)
  BY <1>3, <1>6
<1>10. PICK c \in MeasuredCells : WritingInv(c, Len(disk) + Len(pipe))
  BY <1>2 DEF FileInv
<1>11. WritingInv(c, Len(disk) + Len(pipe))'
  BY <1>2, <1>3, <1>9, <1>10 DEF WritingInv
<1>12. QED
  BY <1>2, <1>4, <1>5, <1>8, <1>11 DEF FileInv

\* Once nothing is left to append or spill, the rows on disk end with the cell.
LEMMA CountFileInv ==
  ASSUME File!RowsAssumption, FileInv, File!Count
  PROVE FileInv'
<1>1. PICK c \in MeasuredCells : WritingInv(c, Len(disk) + Len(pipe))
  BY DEF File!Count, FileInv
<1>2. /\ pipe = <<>> /\ appended = Len(lines) /\ counted' = counted + Len(lines) /\ writer' = "open"
      /\ lines' = lines /\ appended' = appended /\ pipe' = pipe /\ disk' = disk
  BY DEF File!Count, File!Flushed
<1>3. Len(lines) = Rows[c] /\ Rows[c] \in Nat \ {0}
  BY <1>1, RowsOfType DEF WritingInv
<1>4. counted \in Nat /\ Len(disk) \in Nat /\ Len(pipe) = 0
  BY <1>2, StreamType
<1>5. counted' = Len(disk) /\ counted' > 0
  BY <1>1, <1>2, <1>3, <1>4 DEF WritingInv
<1>6. Stream(disk, pipe)[Len(disk)] = <<c, Rows[c]>>
  BY <1>1, <1>2, <1>3, <1>4 DEF WritingInv
<1>7. disk[counted'] = <<c, Rows[c]>>
  BY <1>4, <1>5, <1>6, StreamType
<1>8. File!CountedIsOnDisk'
  BY <1>2, <1>4, <1>5, <1>7 DEF File!CountedIsOnDisk
<1>9. File!TypeOK'
  BY <1>2, <1>4, <1>5 DEF FileInv, File!TypeOK
<1>10. File!InOrder(Stream(disk, pipe))'
  BY <1>2 DEF FileInv, File!InOrder, Stream
<1>11. QED
  BY <1>2, <1>5, <1>8, <1>9, <1>10 DEF FileInv

\* A write that fails leaves what is there.
LEMMA WriteFailsFileInv ==
  ASSUME FileInv, File!WriteFails
  PROVE FileInv'
<1>1. UNCHANGED <<lines, appended, pipe, disk, counted>> /\ writer' = "failed"
  BY DEF File!WriteFails
<1>2. File!TypeOK' /\ File!InOrder(Stream(disk, pipe))' /\ File!CountedIsOnDisk'
  BY <1>1 DEF FileInv, File!TypeOK, File!InOrder, Stream, File!CountedIsOnDisk
<1>3. QED
  BY <1>1, <1>2 DEF FileInv

\* Where a first part d of the stream is all that is left, the invariant holds.
LEMMA CutShort ==
  ASSUME FileInv, writer' = "closed", pipe' = <<>>, disk' \in Seq(File!AllRows),
         UNCHANGED <<lines, appended, counted>>,
         Len(disk) <= Len(disk'), Len(disk') <= Len(disk) + Len(pipe),
         \A i \in 1 .. Len(disk') : disk'[i] = Stream(disk, pipe)[i]
  PROVE FileInv'
<1>1. File!TypeOK'
  BY DEF FileInv, File!TypeOK
<1>2. /\ Stream(disk, pipe)' \in Seq(File!AllRows)
      /\ Len(Stream(disk, pipe)') = Len(disk')
      /\ \A i \in 1 .. Len(disk') : Stream(disk, pipe)'[i] = disk'[i]
  BY DEF Stream
<1>3. File!InOrder(Stream(disk, pipe))'
  <2> DEFINE s == Stream(disk, pipe)
             t == Stream(disk', pipe')
  <2>1. s \in Seq(File!AllRows) /\ File!InOrder(s) /\ Len(s) = Len(disk) + Len(pipe)
    BY StreamType DEF FileInv
  <2>2. t \in Seq(File!AllRows) /\ Len(t) <= Len(s) /\ \A i \in 1 .. Len(t) : t[i] = s[i]
    BY <1>2, <2>1
  <2> HIDE DEF s, t
  <2>3. File!InOrder(t)
    BY <2>1, <2>2, PrefixInOrder
  <2>4. QED
    BY <2>3 DEF t, File!InOrder
<1>4. File!CountedIsOnDisk'
  BY StreamType DEF FileInv, File!CountedIsOnDisk
<1>5. QED
  BY <1>1, <1>3, <1>4 DEF FileInv

\* The writer is dropped: some of the buffered rows follow.
LEMMA CloseFileInv ==
  ASSUME FileInv, File!Close
  PROVE FileInv'
<1>1. PICK n \in 0 .. Len(pipe) : disk' = disk \o SubSeq(pipe, 1, n)
  BY DEF File!Close
<1>2. /\ disk' \in Seq(File!AllRows) /\ Len(disk') = Len(disk) + n
      /\ \A i \in 1 .. Len(disk') : disk'[i] = Stream(disk, pipe)[i]
  BY <1>1, StreamType DEF Stream
<1>3. Len(disk) <= Len(disk') /\ Len(disk') <= Len(disk) + Len(pipe)
  BY <1>2, StreamType
<1>4. QED
  BY <1>2, <1>3, CutShort DEF File!Close

\* The process is killed: none of the buffered rows follow.
LEMMA KilledFileInv ==
  ASSUME FileInv, File!Killed
  PROVE FileInv'
<1>1. disk' = disk /\ disk' \in Seq(File!AllRows)
  BY StreamType DEF File!Killed
<1>2. \A i \in 1 .. Len(disk') : disk'[i] = Stream(disk, pipe)[i]
  BY <1>1, StreamType
<1>3. Len(disk) <= Len(disk') /\ Len(disk') <= Len(disk) + Len(pipe)
  BY <1>1, StreamType
<1>4. QED
  BY <1>1, <1>2, <1>3, CutShort DEF File!Killed

\* Every step of the writer keeps the invariant.
LEMMA StepFileInv ==
  ASSUME File!RowsAssumption, FileInv, [File!Next]_fileVars
  PROVE FileInv'
<1>1. CASE File!Create
  BY <1>1, CreateFileInv
<1>2. ASSUME NEW c \in MeasuredCells, File!Begin(c)
      PROVE FileInv'
  BY <1>2, BeginFileInv
<1>3. CASE File!AppendRow
  BY <1>3, AppendRowFileInv
<1>4. CASE File!Spill
  BY <1>4, SpillFileInv
<1>5. CASE File!Count
  BY <1>5, CountFileInv
<1>6. CASE File!WriteFails
  BY <1>6, WriteFailsFileInv
<1>7. CASE File!Close
  BY <1>7, CloseFileInv
<1>8. CASE File!Killed
  BY <1>8, KilledFileInv
<1>9. CASE UNCHANGED fileVars
  BY <1>9 DEF fileVars, FileInv, File!TypeOK, Stream, File!InOrder, File!CountedIsOnDisk, WritingInv
<1>10. QED
  BY <1>1, <1>2, <1>3, <1>4, <1>5, <1>6, <1>7, <1>8, <1>9 DEF File!Next

\* What the invariant says of the file itself.
LEMMA FileInvGives ==
  ASSUME FileInv
  PROVE File!WholeCellsThenOnePart /\ File!CountedIsOnDisk
<1>1. File!InOrder(disk)
  BY StreamType, PrefixInOrder DEF FileInv
<1>2. QED
  BY <1>1 DEF FileInv, File!WholeCellsThenOnePart

-----------------------------------------------------------------------------
(* The file under the commands.                                              *)

\* The rows of a cell are the same number for each.
LEMMA RowsKnown == File!RowsAssumption
  BY BoundsAssumption DEF File!RowsAssumption, Rows

\* A new command forgets the file of the run before it.
LEMMA ForgetFileInv ==
  ASSUME Forget
  PROVE FileInv'
<1>1. File!Init'
  BY DEF Forget, File!Init
<1>2. (File!Init => FileInv)'
  BY InitFileInv, PTL
<1>3. QED
  BY <1>1, <1>2

\* A step of the file as Pipeline takes it.
LEMMA FileStep ==
  ASSUME FileInv, File!Next \/ UNCHANGED fileVars
  PROVE FileInv'
  BY RowsKnown, StepFileInv

-----------------------------------------------------------------------------

\* The cells of a run that has begun to build or to load are among those measured, and
\* a command that runs has no outcome yet.
CommandInv ==
  /\ step # "idle" => last = "none"
  /\ step \in {"open", "measure", "done", "failing"} => command.kind = "run"
  /\ step # "idle" /\ command.kind = "run" =>
       \E r \in FirstRuns \cup LaterRuns : r.cells = command.cells
  /\ step \notin {"idle", "selected"} /\ command.kind = "run" => SmallEnough(command.cells)

\* The cells of a run that writes are those that the results file may hold.
LEMMA CellsMeasured ==
  ASSUME CommandInv, step = "measure"
  PROVE command.cells \subseteq MeasuredCells
<1>1. PICK r \in FirstRuns \cup LaterRuns : r.cells = command.cells
  BY DEF CommandInv
<1>2. SmallEnough(r.cells)
  BY <1>1 DEF CommandInv
<1>3. QED
  BY <1>1, <1>2 DEF MeasuredCells

\* Whatever a command does to the results file is a step of the file, or makes it new.
LEMMA EveryStep ==
  ASSUME CommandInv, [Next]_vars
  PROVE File!Next \/ Forget \/ UNCHANGED fileVars
<1>1. CASE StartBuild \/ StartRun \/ StartProbe \/ Teardown \/ ScalingKilled
  BY <1>1 DEF StartBuild, StartRun, StartProbe, Start, Teardown, ScalingKilled
<1>2. CASE WriteCell
  <2>1. step = "measure" /\ \E c \in command.cells : File!Begin(c)
    BY <1>2 DEF WriteCell
  <2>2. QED
    BY <2>1, CellsMeasured DEF File!Next
<1>3. CASE OpenResults \/ WriteStep \/ WriteErrs \/ EndRun \/ Kill
  BY <1>3 DEF OpenResults, WriteStep, WriteErrs, EndRun, Kill, File!Next
<1>4. CASE BeginBuild \/ TaskSucceeds \/ TaskFails \/ BuildEnds \/ Load \/ Deploy \/ CheckMissing
  BY <1>4 DEF BeginBuild, TaskSucceeds, TaskFails, BuildEnds, Load, Deploy, CheckMissing
<1>5. CASE BeginRun \/ CellFails \/ RunDone \/ ProbeEnds \/ Edit \/ UNCHANGED vars
  BY <1>5 DEF BeginRun, CellFails, RunDone, ProbeEnds, Edit, vars
<1>6. QED
  BY <1>1, <1>2, <1>3, <1>4, <1>5 DEF Next

\* No step breaks what is known of the running command.
LEMMA StepCommandInv ==
  ASSUME CommandInv, [Next]_vars
  PROVE CommandInv'
<1>1. CASE StartRun
  <2>1. PICK r \in FirstRuns \cup LaterRuns : Start("run", r.cells, r.args)
    BY <1>1 DEF StartRun
  <2>2. QED
    BY <2>1 DEF Start, CommandInv
<1>2. CASE StartBuild \/ StartProbe
  BY <1>2 DEF StartBuild, StartProbe, Start, CommandInv
<1>3. CASE BeginBuild \/ Load \/ BuildEnds
  BY <1>3 DEF BeginBuild, Load, BuildEnds, End, GoTo, NoCommand, CommandInv, SmallEnough
<1>4. CASE TaskSucceeds \/ TaskFails \/ Deploy \/ CheckMissing
  BY <1>4 DEF TaskSucceeds, TaskFails, Deploy, CheckMissing, End, GoTo, NoCommand, CommandInv,
     SmallEnough
<1>5. CASE BeginRun \/ OpenResults \/ WriteCell \/ WriteStep \/ WriteErrs \/ CellFails \/ RunDone
  BY <1>5 DEF BeginRun, OpenResults, WriteCell, WriteStep, WriteErrs, CellFails, RunDone, End, GoTo,
     NoCommand, CommandInv, SmallEnough, control
<1>6. CASE EndRun \/ ProbeEnds \/ Teardown \/ ScalingKilled \/ Edit \/ Kill \/ UNCHANGED vars
  BY <1>6 DEF EndRun, ProbeEnds, Teardown, ScalingKilled, Edit, Kill, End, NoCommand, CommandInv,
     SmallEnough, control, vars
<1>7. QED
  BY <1>1, <1>2, <1>3, <1>4, <1>5, <1>6 DEF Next

\* Every step keeps the file's invariant.
LEMMA StepFile ==
  ASSUME CommandInv, FileInv, [Next]_vars
  PROVE FileInv'
  BY EveryStep, FileStep, ForgetFileInv

-----------------------------------------------------------------------------

\* No selection has a cell that the matrix does not have.
LEMMA SelectedInMatrix ==
  /\ \A r \in FirstRuns \cup LaterRuns : r.cells \subseteq all_cells
  /\ \A p \in Probes : p.cells \subseteq all_cells
  /\ \A langs : cells_for_langs(langs) \subseteq all_cells
<1>1. \A langs : cells_for_langs(langs) \subseteq all_cells
  BY DEF cells_for_langs
<1>2. \A args : select_cells(args) \subseteq all_cells
  BY <1>1 DEF select_cells
<1>3. \A args : resolve_targets(args) \subseteq all_cells
  BY DEF resolve_targets, Matching
<1>4. ASSUME NEW args, NEW valid, NEW cells, NEW r \in Selected(args, valid, cells)
      PROVE r.cells = cells
  BY <1>4 DEF Selected
<1>5. \A r \in FirstRuns \cup LaterRuns : r.cells \subseteq all_cells
  BY <1>2, <1>4 DEF FirstRuns, LaterRuns, Runs
<1>6. \A p \in Probes : p.cells \subseteq all_cells
  BY <1>3, <1>4 DEF Probes
<1>7. QED
  BY <1>1, <1>5, <1>6

\* The names of functions: those deployed are those of the matrix and of the probe.
NamesInv ==
  /\ DOMAIN functions \subseteq all_managed_function_names
  /\ command.cells \subseteq all_cells
  /\ TeardownComplete

\* A teardown that keeps nothing leaves nothing.
LEMMA TeardownNames ==
  ASSUME NamesInv, Teardown
  PROVE NamesInv'
<1>1. Managed = DOMAIN functions
  BY DEF NamesInv, Managed
<1>2. PICK kept \in SUBSET Managed :
        /\ functions' = [n \in kept |-> functions[n]]
        /\ \/ kept = {} /\ last' = "tornDown"
           \/ last' = "failed"
  BY <1>1 DEF Teardown
<1>3. last' = "tornDown" => functions' = <<>>
  BY <1>2
<1>4. QED
  BY <1>1, <1>2, <1>3 DEF NamesInv, TeardownComplete, Teardown

\* A probe that was killed leaves a function of a name that teardown enumerates.
LEMMA KilledNames ==
  ASSUME NamesInv, ScalingKilled
  PROVE NamesInv'
<1>1. PICK f \in Leftover : functions' = Put(functions, synth_function_name(f[1], f[2]), Synthetic)
  BY DEF ScalingKilled
<1>2. synth_function_name(f[1], f[2]) \in all_managed_function_names
  <2>1. f \in SYNTH_FAMILIES \X SYNTH_DEFAULT_SIZES_MB
    BY BoundsAssumption
  <2>2. f[1] \in SYNTH_FAMILIES /\ f[2] \in SYNTH_DEFAULT_SIZES_MB
    BY <2>1
  <2>3. QED
    BY <2>2 DEF all_managed_function_names
<1>3. DOMAIN functions' \subseteq DOMAIN functions \cup {synth_function_name(f[1], f[2])}
  BY <1>1 DEF Put
<1>4. command' = command /\ last' = "killed"
  BY DEF ScalingKilled
<1>5. QED
  BY <1>2, <1>3, <1>4 DEF NamesInv, TeardownComplete

\* Only functions of the command's own cells are deployed.
LEMMA DeployNames ==
  ASSUME CommandInv, NamesInv, Deploy
  PROVE NamesInv'
<1>1. PICK done \in SUBSET command.cells :
        DOMAIN functions' = DOMAIN functions \cup {function_name(c) : c \in done}
  BY DEF Deploy
<1>2. \A c \in done : function_name(c) \in all_managed_function_names
  BY DEF NamesInv, all_managed_function_names
<1>3. command'.cells \subseteq all_cells /\ last' # "tornDown"
  BY DEF Deploy, NamesInv, CommandInv, End, GoTo, NoCommand
<1>4. QED
  BY <1>1, <1>2, <1>3 DEF NamesInv, TeardownComplete

\* Every step keeps the names.
LEMMA StepNames ==
  ASSUME CommandInv, NamesInv, [Next]_vars
  PROVE NamesInv'
<1>1. CASE StartRun
  <2>1. PICK r \in FirstRuns \cup LaterRuns : Start("run", r.cells, r.args)
    BY <1>1 DEF StartRun
  <2>2. QED
    BY <2>1, SelectedInMatrix DEF Start, NamesInv, TeardownComplete
<1>2. CASE StartBuild
  BY <1>2, SelectedInMatrix DEF StartBuild, Start, NamesInv, TeardownComplete
<1>3. CASE StartProbe
  BY <1>3, SelectedInMatrix DEF StartProbe, Start, NamesInv, TeardownComplete
<1>4. CASE BeginBuild \/ TaskSucceeds \/ TaskFails \/ BuildEnds \/ Load \/ CheckMissing
  BY <1>4 DEF BeginBuild, TaskSucceeds, TaskFails, BuildEnds, Load, CheckMissing, End, GoTo,
     NoCommand, NamesInv, TeardownComplete
<1>5. CASE Deploy
  BY <1>5, DeployNames
<1>6. CASE BeginRun \/ OpenResults \/ WriteCell \/ WriteStep \/ WriteErrs \/ CellFails \/ RunDone
  BY <1>6 DEF BeginRun, OpenResults, WriteCell, WriteStep, WriteErrs, CellFails, RunDone, End, GoTo,
     NoCommand, NamesInv, TeardownComplete, control
<1>7. CASE EndRun \/ ProbeEnds \/ Edit \/ Kill \/ UNCHANGED vars
  BY <1>7 DEF EndRun, ProbeEnds, Edit, Kill, End, NoCommand, Outcome, NamesInv, TeardownComplete,
     control, vars
<1>8. CASE Teardown
  BY <1>8, TeardownNames
<1>9. CASE ScalingKilled
  BY <1>9, KilledNames
<1>10. QED
  BY <1>1, <1>2, <1>3, <1>4, <1>5, <1>6, <1>7, <1>8, <1>9 DEF Next

-----------------------------------------------------------------------------

(* Names tell cells apart, and labels artifacts.                            *)

\* Concatenated parts, index by index.
LEMMA Joined ==
  ASSUME NEW T, NEW s \in Seq(T), NEW t \in Seq(T)
  PROVE  /\ s \o t \in Seq(T) /\ Len(s \o t) = Len(s) + Len(t)
         /\ Len(s) \in Nat /\ Len(t) \in Nat
         /\ \A i \in 1 .. Len(s) : (s \o t)[i] = s[i]
         /\ \A i \in 1 .. Len(t) : (s \o t)[Len(s) + i] = t[i]
  OBVIOUS

Bit(p) == IF p THEN 1 ELSE 0

\* A part that may be absent.
LEMMA OnePart ==
  ASSUME NEW T, NEW p \in BOOLEAN, NEW x \in T
  PROVE  /\ Segment(p, x) \in Seq(T) /\ Len(Segment(p, x)) = Bit(p)
         /\ p => Segment(p, x)[1] = x
  BY EmptySeq DEF Segment, Bit

\* The variants that each language's cells have.
LEMMA CellFacts ==
  ASSUME NEW c \in all_cells
  PROVE  /\ c \in Cell
         /\ c = [lang |-> c.lang, scenario |-> c.scenario, arch |-> c.arch,
                 memory_mb |-> c.memory_mb, opt |-> c.opt, snapstart |-> c.snapstart,
                 jitter |-> c.jitter]
         /\ c.snapstart \in BOOLEAN
         /\ c.lang = "rust" => c.opt # "none" /\ ~c.snapstart /\ c.jitter \in {"on", "off"}
         /\ c.lang # "rust" => c.opt = "none" /\ c.jitter = "none"
         /\ c.lang # "java" => ~c.snapstart
<1>1. c \in Cell
      /\ [opt |-> c.opt, snapstart |-> c.snapstart, jitter |-> c.jitter]
           \in Variants(c.lang, c.scenario)
  BY DEF all_cells
<1>2. /\ c = [lang |-> c.lang, scenario |-> c.scenario, arch |-> c.arch,
              memory_mb |-> c.memory_mb, opt |-> c.opt, snapstart |-> c.snapstart,
              jitter |-> c.jitter]
      /\ c.snapstart \in BOOLEAN
  BY <1>1 DEF Cell
<1>3. CASE c.lang = "rust"
  BY <1>1, <1>2, <1>3 DEF Variants, Plain, Opts
<1>4. CASE c.lang = "java"
  BY <1>1, <1>2, <1>4 DEF Variants, Plain
<1>5. CASE c.lang \notin {"rust", "java"}
  BY <1>1, <1>2, <1>5 DEF Variants, Plain
<1> QED
  BY <1>1, <1>2, <1>3, <1>4, <1>5

\* A function's name, part by part.
LEMMA NameParts ==
  ASSUME NEW c \in all_cells
  PROVE  /\ Len(function_name(c)) = 5 + Bit(c.opt # "none") + Bit(c.snapstart)
                                      + Bit(c.jitter = "on")
         /\ function_name(c)[2] = c.lang /\ function_name(c)[3] = c.scenario
         /\ function_name(c)[4] = c.arch
         /\ c.opt # "none" => function_name(c)[5] = c.opt
         /\ function_name(c)[Len(function_name(c))] = ToString(c.memory_mb)
<1> DEFINE T == {"lambdabench", c.lang, c.scenario, c.arch, c.opt, "snap", "jitter",
                 ToString(c.memory_mb)}
<1>1. PICK p \in Seq(T) :
        /\ p = <<"lambdabench", c.lang, c.scenario, c.arch>>
        /\ Len(p) = 4 /\ p[2] = c.lang /\ p[3] = c.scenario /\ p[4] = c.arch
  <2>1. <<"lambdabench", c.lang, c.scenario, c.arch>> \in Seq(T)
    OBVIOUS
  <2> QED
    BY <2>1
<1>2. PICK o \in Seq(T) :
        /\ o = Segment(c.opt # "none", c.opt) /\ Len(o) = Bit(c.opt # "none")
        /\ c.opt # "none" => o[1] = c.opt
  BY OnePart, c.opt \in T, (c.opt # "none") \in BOOLEAN
<1>3. PICK s \in Seq(T) : s = Segment(c.snapstart, "snap") /\ Len(s) = Bit(c.snapstart)
  BY CellFacts, OnePart, "snap" \in T
<1>4. PICK j \in Seq(T) :
        j = Segment(c.jitter = "on", "jitter") /\ Len(j) = Bit(c.jitter = "on")
  BY OnePart, "jitter" \in T, (c.jitter = "on") \in BOOLEAN
<1>5. PICK l \in Seq(T) : l = <<ToString(c.memory_mb)>> /\ Len(l) = 1 /\ l[1] = ToString(c.memory_mb)
  <2>1. <<ToString(c.memory_mb)>> \in Seq(T)
    OBVIOUS
  <2>2. QED
    BY <2>1
<1> HIDE DEF T
<1>6. PICK po \in Seq(T) : po = p \o o
  BY Joined
<1>7. PICK ps \in Seq(T) : ps = po \o s
  BY Joined
<1>8. PICK pj \in Seq(T) : pj = ps \o j
  BY Joined
<1>9. PICK n : n = pj \o l
  OBVIOUS
<1>10. n = function_name(c)
  BY <1>1, <1>2, <1>3, <1>4, <1>5, <1>6, <1>7, <1>8, <1>9 DEF function_name
<1>11. /\ Len(p) = 4 /\ Len(po) = 4 + Len(o) /\ Len(ps) = Len(po) + Len(s)
       /\ Len(pj) = Len(ps) + Len(j) /\ Len(n) = Len(pj) + 1
       /\ Len(o) \in Nat /\ Len(s) \in Nat /\ Len(j) \in Nat
  <2>1. Len(po) = Len(p) + Len(o)
    BY <1>6, Joined
  <2>2. Len(ps) = Len(po) + Len(s)
    BY <1>7, Joined
  <2>3. Len(pj) = Len(ps) + Len(j)
    BY <1>8, Joined
  <2>4. Len(pj \o l) = Len(pj) + Len(l)
    BY Joined
  <2>5. Len(n) = Len(pj) + 1
    BY <1>5, <1>9, <2>4
  <2>6. Len(o) \in Nat /\ Len(s) \in Nat /\ Len(j) \in Nat
    BY LenProperties
  <2>7. QED
    BY <1>1, <2>1, <2>2, <2>3, <2>5, <2>6
<1>12. \A i \in 1 .. Len(po) : n[i] = po[i]
  <2>1. \A i \in 1 .. Len(po) : ps[i] = po[i]
    BY <1>7, Joined
  <2>2. \A i \in 1 .. Len(ps) : pj[i] = ps[i]
    BY <1>8, Joined
  <2>3. \A i \in 1 .. Len(pj) : n[i] = pj[i]
    BY <1>9, Joined
  <2>4. QED
    BY <1>11, <2>1, <2>2, <2>3
<1>13. n[Len(n)] = ToString(c.memory_mb)
  <2>1. n[Len(pj) + 1] = l[1]
    BY <1>5, <1>9, Joined
  <2>2. QED
    BY <1>5, <1>11, <2>1
<1>14. n[2] = c.lang /\ n[3] = c.scenario /\ n[4] = c.arch
  <2>1. \A i \in 1 .. Len(p) : po[i] = p[i]
    BY <1>6, Joined
  <2>2. \A i \in 1 .. Len(p) : n[i] = p[i]
    BY <1>11, <1>12, <2>1
  <2>3. QED
    BY <1>1, <2>2
<1>15. c.opt # "none" => n[5] = c.opt
  <2>1. HAVE c.opt # "none"
  <2>2. Len(o) = 1 /\ o[1] = c.opt /\ 1 \in 1 .. Len(o)
    BY <1>2, <2>1 DEF Bit
  <2>3. \A i \in 1 .. Len(o) : po[Len(p) + i] = o[i]
    BY <1>6, Joined
  <2>4. Len(p) + 1 = 5 /\ 5 \in 1 .. Len(po)
    BY <1>11, <2>2
  <2>5. po[5] = o[1]
    BY <2>2, <2>3, <2>4
  <2>6. QED
    BY <1>12, <2>2, <2>4, <2>5
<1>16. Len(n) = 5 + Bit(c.opt # "none") + Bit(c.snapstart) + Bit(c.jitter = "on")
  <2>1. /\ Bit(c.opt # "none") \in Nat /\ Bit(c.snapstart) \in Nat /\ Bit(c.jitter = "on") \in Nat
    BY DEF Bit
  <2>2. Len(n) = 5 + Len(o) + Len(s) + Len(j)
    BY <1>11
  <2>3. Len(o) = Bit(c.opt # "none") /\ Len(s) = Bit(c.snapstart) /\ Len(j) = Bit(c.jitter = "on")
    BY <1>2, <1>3, <1>4
  <2>4. QED
    BY <2>1, <2>2, <2>3
<1>17. QED
  BY <1>10, <1>13, <1>14, <1>15, <1>16

\* Names tell cells apart.
LEMMA NamesDiffer ==
  ASSUME NEW c \in all_cells, NEW d \in all_cells, function_name(c) = function_name(d)
  PROVE  c = d
<1>1. c.lang = d.lang /\ c.scenario = d.scenario /\ c.arch = d.arch
  BY NameParts
<1>2. ToString(c.memory_mb) = ToString(d.memory_mb)
  BY NameParts
<1>3. c.memory_mb = d.memory_mb
  BY <1>2, CellFacts, WrittenAssumption DEF Cell
<1>4. c.opt = d.opt
  <2>1. CASE c.lang = "rust"
    BY <1>1, <2>1, CellFacts, NameParts
  <2>2. CASE c.lang # "rust"
    BY <1>1, <2>2, CellFacts
  <2> QED
    BY <2>1, <2>2
<1>5. Bit(c.snapstart) + Bit(c.jitter = "on") = Bit(d.snapstart) + Bit(d.jitter = "on")
  <2> DEFINE o == Bit(c.opt # "none")
             cs == Bit(c.snapstart)
             cj == Bit(c.jitter = "on")
             ds == Bit(d.snapstart)
             dj == Bit(d.jitter = "on")
  <2>1. o = Bit(d.opt # "none")
    BY <1>4
  <2>2. o \in Nat /\ cs \in Nat /\ cj \in Nat /\ ds \in Nat /\ dj \in Nat
    BY DEF Bit
  <2>3. Len(function_name(c)) = 5 + o + cs + cj
    BY NameParts
  <2>4. Len(function_name(d)) = 5 + o + ds + dj
    BY <2>1, NameParts
  <2>5. Len(function_name(c)) = Len(function_name(d))
    OBVIOUS
  <2> HIDE DEF o, cs, cj, ds, dj
  <2>6. cs + cj = ds + dj
    BY <2>2, <2>3, <2>4, <2>5
  <2>7. QED
    BY <2>6 DEF cs, cj, ds, dj
<1>6. c.snapstart = d.snapstart /\ c.jitter = d.jitter
  <2>1. CASE c.lang = "rust"
    <3>1. Bit(c.snapstart) = 0 /\ Bit(d.snapstart) = 0
      BY <1>1, <2>1, CellFacts DEF Bit
    <3>2. c.jitter = "on" <=> d.jitter = "on"
      BY <1>5, <3>1 DEF Bit
    <3> QED
      BY <1>1, <2>1, <3>2, CellFacts
  <2>2. CASE c.lang # "rust"
    <3>1. Bit(c.jitter = "on") = 0 /\ Bit(d.jitter = "on") = 0
      BY <1>1, <2>2, CellFacts DEF Bit
    <3>2. c.snapstart <=> d.snapstart
      BY <1>5, <3>1 DEF Bit
    <3> QED
      BY <1>1, <2>2, <3>2, CellFacts
  <2> QED
    BY <2>1, <2>2
<1> QED
  BY <1>1, <1>3, <1>4, <1>6, CellFacts
\* An artifact's label, part by part.
LEMMA LabelParts ==
  ASSUME NEW c \in all_cells
  PROVE  LET sig == arch_significant(c.lang, c.scenario)
             l == LabelOf(c)
         IN /\ Len(l) = 2 + Bit(sig) + Bit(c.lang = "rust") + Bit(c.jitter = "on")
            /\ l[1] = c.lang /\ l[2] = c.scenario
            /\ sig => l[3] = c.arch
            /\ c.lang = "rust" => l[4] = c.opt
<1> DEFINE T == {c.lang, c.scenario, c.arch, c.opt, "jitter"}
           sig == arch_significant(c.lang, c.scenario)
           key == artifact_key(c)
<1>1. /\ key.lang = c.lang /\ key.scenario = c.scenario /\ key.opt = c.opt /\ key.jitter = c.jitter
      /\ sig => key.arch = c.arch
  BY DEF artifact_key
<1>2. PICK p \in Seq(T) :
        p = <<c.lang, c.scenario>> /\ Len(p) = 2 /\ p[1] = c.lang /\ p[2] = c.scenario
  <2>1. <<c.lang, c.scenario>> \in Seq(T)
    OBVIOUS
  <2>2. QED
    BY <2>1
<1>3. PICK a \in Seq(T) :
        a = Segment(sig, c.arch) /\ Len(a) = Bit(sig) /\ (sig => a[1] = c.arch)
  <2>1. sig \in BOOLEAN /\ c.arch \in T
    BY DEF arch_significant
  <2>2. QED
    BY <2>1, OnePart
<1>4. PICK o \in Seq(T) :
        /\ o = Segment(c.lang = "rust", c.opt) /\ Len(o) = Bit(c.lang = "rust")
        /\ c.lang = "rust" => o[1] = c.opt
  BY OnePart, c.opt \in T, (c.lang = "rust") \in BOOLEAN
<1>5. PICK j \in Seq(T) :
        j = Segment(c.jitter = "on", "jitter") /\ Len(j) = Bit(c.jitter = "on")
  BY OnePart, "jitter" \in T, (c.jitter = "on") \in BOOLEAN
<1> HIDE DEF T
<1>6. PICK pa \in Seq(T) : pa = p \o a
  BY Joined
<1>7. PICK po \in Seq(T) : po = pa \o o
  BY Joined
<1>8. PICK l : l = po \o j
  OBVIOUS
<1>9. l = LabelOf(c)
  <2>1. Segment(sig, key.arch) = Segment(sig, c.arch)
    BY <1>1 DEF Segment
  <2>2. label(key) = <<c.lang, c.scenario>> \o Segment(sig, c.arch)
                       \o Segment(c.lang = "rust", c.opt) \o Segment(c.jitter = "on", "jitter")
    BY <1>1, <2>1 DEF label
  <2>3. QED
    BY <1>2, <1>3, <1>4, <1>5, <1>6, <1>7, <1>8, <2>2 DEF LabelOf
<1> HIDE DEF key
<1>10. /\ Len(p) = 2 /\ Len(pa) = 2 + Len(a) /\ Len(po) = Len(pa) + Len(o)
       /\ Len(l) = Len(po) + Len(j)
       /\ Len(a) \in Nat /\ Len(o) \in Nat /\ Len(j) \in Nat
  <2>1. Len(pa) = Len(p) + Len(a)
    BY <1>6, Joined
  <2>2. Len(po) = Len(pa) + Len(o)
    BY <1>7, Joined
  <2>3. Len(l) = Len(po) + Len(j)
    BY <1>8, Joined
  <2>4. Len(a) \in Nat /\ Len(o) \in Nat /\ Len(j) \in Nat
    BY LenProperties
  <2>5. QED
    BY <1>2, <2>1, <2>2, <2>3, <2>4
<1>11. \A i \in 1 .. Len(po) : l[i] = po[i]
  BY <1>8, Joined
<1>12. \A i \in 1 .. Len(pa) : l[i] = pa[i]
  <2>1. \A i \in 1 .. Len(pa) : po[i] = pa[i]
    BY <1>7, Joined
  <2>2. QED
    BY <1>10, <1>11, <2>1
<1>13. l[1] = c.lang /\ l[2] = c.scenario
  <2>1. \A i \in 1 .. Len(p) : pa[i] = p[i]
    BY <1>6, Joined
  <2>2. QED
    BY <1>2, <1>10, <1>12, <2>1
<1>14. sig => l[3] = c.arch
  <2>1. HAVE sig
  <2>2. Len(a) = 1 /\ a[1] = c.arch /\ 1 \in 1 .. Len(a)
    <3>1. Bit(sig) = 1
      BY <2>1 DEF Bit
    <3>2. Len(a) = 1 /\ a[1] = c.arch
      BY <1>3, <2>1, <3>1
    <3>3. QED
      BY <3>2
  <2>3. \A i \in 1 .. Len(a) : pa[Len(p) + i] = a[i]
    BY <1>6, Joined
  <2>4. Len(p) + 1 = 3 /\ 3 \in 1 .. Len(pa)
    BY <1>10, <2>2
  <2>5. pa[3] = a[1]
    BY <2>2, <2>3, <2>4
  <2>6. QED
    BY <1>12, <2>2, <2>4, <2>5
<1>15. c.lang = "rust" => l[4] = c.opt
  <2>1. HAVE c.lang = "rust"
  <2>2. sig
    BY <2>1 DEF arch_significant
  <2>3. Len(a) = 1
    BY <1>3, <2>2 DEF Bit
  <2>4. Len(o) = 1 /\ o[1] = c.opt /\ 1 \in 1 .. Len(o)
    BY <1>4, <2>1 DEF Bit
  <2>5. \A i \in 1 .. Len(o) : po[Len(pa) + i] = o[i]
    BY <1>7, Joined
  <2>6. Len(pa) + 1 = 4 /\ 4 \in 1 .. Len(po)
    BY <1>10, <2>3, <2>4
  <2>7. po[4] = o[1]
    BY <2>4, <2>5, <2>6
  <2>8. QED
    BY <1>11, <2>4, <2>6, <2>7
<1>16. Len(l) = 2 + Bit(sig) + Bit(c.lang = "rust") + Bit(c.jitter = "on")
  <2>1. /\ Bit(sig) \in Nat /\ Bit(c.lang = "rust") \in Nat /\ Bit(c.jitter = "on") \in Nat
    BY DEF Bit
  <2>2. Len(l) = 2 + Len(a) + Len(o) + Len(j)
    BY <1>10
  <2>3. Len(a) = Bit(sig) /\ Len(o) = Bit(c.lang = "rust") /\ Len(j) = Bit(c.jitter = "on")
    BY <1>3, <1>4, <1>5
  <2>4. QED
    BY <2>1, <2>2, <2>3
<1>17. QED
  BY <1>9, <1>13, <1>14, <1>15, <1>16

\* Labels tell artifacts apart.
LEMMA LabelsDiffer ==
  ASSUME NEW c \in all_cells, NEW d \in all_cells, LabelOf(c) = LabelOf(d)
  PROVE  artifact_key(c) = artifact_key(d)
<1> DEFINE sigc == arch_significant(c.lang, c.scenario)
           sigd == arch_significant(d.lang, d.scenario)
<1>1. c.lang = d.lang /\ c.scenario = d.scenario
  BY LabelParts
<1>2. sigc = sigd
  BY <1>1
<1>3. sigc => c.arch = d.arch
  BY <1>2, LabelParts
<1>4. c.opt = d.opt
  <2>1. CASE c.lang = "rust"
    BY <1>1, <2>1, LabelParts
  <2>2. CASE c.lang # "rust"
    BY <1>1, <2>2, CellFacts
  <2>3. QED
    BY <2>1, <2>2
<1>5. c.jitter = d.jitter
  <2>1. CASE c.lang = "rust"
    <3>1. Bit(c.jitter = "on") = Bit(d.jitter = "on")
      <4>1. /\ Bit(sigc) \in Nat /\ Bit(c.lang = "rust") \in Nat
            /\ Bit(c.jitter = "on") \in Nat /\ Bit(d.jitter = "on") \in Nat
        BY DEF Bit
      <4>2. Bit(sigc) + Bit(c.lang = "rust") + Bit(c.jitter = "on")
              = Bit(sigc) + Bit(c.lang = "rust") + Bit(d.jitter = "on")
        <5>1. 2 + Bit(sigc) + Bit(c.lang = "rust") + Bit(c.jitter = "on")
                = 2 + Bit(sigc) + Bit(c.lang = "rust") + Bit(d.jitter = "on")
          BY <1>1, <1>2, LabelParts
        <5>2. QED
          BY <4>1, <5>1
      <4>3. QED
        BY <4>1, <4>2
    <3>2. c.jitter = "on" <=> d.jitter = "on"
      BY <3>1 DEF Bit
    <3>3. QED
      BY <1>1, <2>1, <3>2, CellFacts
  <2>2. CASE c.lang # "rust"
    BY <1>1, <2>2, CellFacts
  <2>3. QED
    BY <2>1, <2>2
<1>6. QED
  BY <1>1, <1>2, <1>3, <1>4, <1>5 DEF artifact_key

-----------------------------------------------------------------------------

Steps == {"idle", "selected", "build", "loaded", "preflight", "open", "measure", "done", "failing"}
Outcomes == {"none", "built", "ran", "probed", "tornDown", "failed", "killed"}
States == {"whole", "partial", "broken"}
Statuses == {"none", "running", "ok", "failed", "unreadable"}

\* The types of what is neither a name nor the file.
RestInv ==
  /\ source \in 1 .. MaxEdits + 1
  /\ \A l \in DOMAIN dist : dist[l].src \in 1 .. source /\ dist[l].state \in States
  /\ step \in Steps /\ last \in Outcomes
  /\ commands \in 0 .. MaxCommands
  /\ "status" \in DOMAIN meta /\ meta.status \in Statuses

\* What a build stores is of the present source.
LEMMA StoredRest ==
  ASSUME RestInv, NEW key, NEW state \in States
  PROVE \A l \in DOMAIN Stored(key, state) :
          /\ Stored(key, state)[l].src \in 1 .. source
          /\ Stored(key, state)[l].state \in States
<1>1. source \in 1 .. source
  BY BoundsAssumption DEF RestInv
<1>2. Packed(key, state).src = source /\ Packed(key, state).state = state
  BY DEF Packed
<1>3. QED
  BY <1>1, <1>2 DEF RestInv, Stored, Put

\* Every step keeps these types.
LEMMA StepRest ==
  ASSUME RestInv, [Next]_vars
  PROVE RestInv'
<1>1. ASSUME NEW kind, NEW cells, NEW args, Start(kind, cells, args)
      PROVE RestInv'
  BY <1>1, BoundsAssumption DEF Start, Forget, NoMeta, RestInv, Steps, Outcomes, Statuses
<1>2. CASE StartBuild \/ StartRun \/ StartProbe
  BY <1>2, <1>1 DEF StartBuild, StartRun, StartProbe
<1>3. CASE TaskSucceeds
  <2>1. \A l \in DOMAIN dist' : dist'[l].src \in 1 .. source /\ dist'[l].state \in States
    <3>1. CASE dist' = dist
      BY <3>1 DEF RestInv
    <3>2. CASE dist' = Stored(NextKey, "whole")
      BY <3>2, StoredRest DEF States
    <3>3. QED
      BY <1>3, <3>1, <3>2 DEF TaskSucceeds, Zipped
  <2>2. QED
    BY <1>3, <2>1 DEF TaskSucceeds, RestInv
<1>4. CASE TaskFails
  <2>1. \A l \in DOMAIN dist' : dist'[l].src \in 1 .. source /\ dist'[l].state \in States
    <3>1. CASE dist' = dist
      BY <3>1 DEF RestInv
    <3>2. ASSUME NEW state \in {"broken", "partial"}, dist' = Stored(NextKey, state)
          PROVE \A l \in DOMAIN dist' : dist'[l].src \in 1 .. source /\ dist'[l].state \in States
      BY <3>2, StoredRest DEF States
    <3>3. QED
      BY <1>4, <3>1, <3>2 DEF TaskFails
  <2>2. QED
    BY <1>4, <2>1 DEF TaskFails, End, RestInv, Steps, Outcomes
<1>5. CASE BeginBuild \/ BuildEnds \/ Load \/ Deploy \/ CheckMissing \/ WriteCell \/ WriteStep
  BY <1>5 DEF BeginBuild, BuildEnds, Load, Deploy, CheckMissing, WriteCell, WriteStep, End, GoTo,
     control, RestInv, Steps, Outcomes
<1>6. CASE BeginRun
  <2>1. "status" \in DOMAIN meta' /\ meta'.status \in Statuses
    <3>1. \/ meta' = [NoMeta EXCEPT !.status = "running", !.planned = RowsPerCell * Cardinality(command.cells)]
          \/ meta' = NoMeta
          \/ meta' = Unreadable
      BY <1>6 DEF BeginRun
    <3>2. CASE meta' = [NoMeta EXCEPT !.status = "running", !.planned = RowsPerCell * Cardinality(command.cells)]
      <4>1. "status" \in DOMAIN meta' /\ meta'.status = "running"
        BY <3>2 DEF NoMeta
      <4>2. QED
        BY <4>1 DEF Statuses
    <3>3. CASE meta' = NoMeta \/ meta' = Unreadable
      BY <3>3 DEF NoMeta, Unreadable, Statuses
    <3>4. QED
      BY <3>1, <3>2, <3>3
  <2>2. QED
    BY <1>6, <2>1 DEF BeginRun, End, GoTo, RestInv, Steps, Outcomes
<1>7. CASE OpenResults \/ WriteErrs \/ CellFails \/ RunDone \/ ProbeEnds \/ Kill
  BY <1>7 DEF OpenResults, WriteErrs, CellFails, RunDone, ProbeEnds, Kill, End, GoTo, RestInv, Steps,
     Outcomes
<1>8. CASE EndRun
  <2>1. "status" \in DOMAIN meta' /\ meta'.status \in Statuses
    <3>1. CASE meta' = Stamped(Status)
      BY <3>1 DEF Stamped, Status, RestInv, Statuses
    <3>2. CASE meta' \in {meta, Unreadable}
      BY <3>2 DEF Unreadable, NoMeta, RestInv, Statuses
    <3>3. QED
      BY <1>8, <3>1, <3>2 DEF EndRun
  <2>2. QED
    BY <1>8, <2>1 DEF EndRun, End, Outcome, RestInv, Steps, Outcomes
<1>9. CASE Teardown \/ ScalingKilled
  <2>1. /\ commands \in Nat /\ commands < MaxCommands /\ commands' = commands + 1
        /\ meta' = NoMeta /\ last' \in Outcomes
        /\ UNCHANGED <<source, dist, step>>
    <3>1. /\ commands < MaxCommands /\ commands' = commands + 1 /\ Forget
          /\ UNCHANGED <<source, dist, step>>
      BY <1>9 DEF Teardown, ScalingKilled
    <3>2. last' \in {"tornDown", "failed", "killed"}
      BY <1>9 DEF Teardown, ScalingKilled
    <3>3. QED
      BY <3>1, <3>2, BoundsAssumption DEF Forget, RestInv, Outcomes
  <2>2. commands' \in 0 .. MaxCommands
    BY <2>1, BoundsAssumption
  <2>3. QED
    BY <2>1, <2>2 DEF NoMeta, RestInv, Statuses
<1>10. CASE Edit
  <2>1. source' \in 1 .. MaxEdits + 1 /\ 1 .. source \subseteq 1 .. source'
    BY <1>10, BoundsAssumption DEF Edit, RestInv
  <2>2. QED
    BY <1>10, <2>1 DEF Edit, control, RestInv
<1>11. CASE UNCHANGED vars
  BY <1>11 DEF vars, control, RestInv
<1>12. QED
  BY <1>2, <1>3, <1>4, <1>5, <1>6, <1>7, <1>8, <1>9, <1>10, <1>11 DEF Next

-----------------------------------------------------------------------------
(* The code that is measured.                                              *)

\* A zip of the cell's own artifact, whole and of the present source.
Fresh(c) == LabelOf(c) \in DOMAIN dist /\ dist[LabelOf(c)] = Packed(artifact_key(c), "whole")

StagesOf(cells) == [shared : BOOLEAN, keys : (SUBSET unique_artifacts(cells)) \ {{}}]
PendingIn(stages, key) == \E i \in 1 .. Len(stages) : key \in stages[i].keys

\* The steps after everything was found to be deployed.
Ready == {"preflight", "open", "measure", "done", "failing"}

\* What a label says of a zip is so.
DistInv ==
  \A c \in all_cells : LabelOf(c) \in DOMAIN dist => dist[LabelOf(c)].key = artifact_key(c)

\* What a name says of a function is so.
FunctionsInv ==
  \A c \in all_cells : function_name(c) \in DOMAIN functions =>
    /\ FunctionOf(c).cell = c
    /\ FunctionOf(c).code.key = artifact_key(c) /\ FunctionOf(c).code.state # "broken"

\* A cell's artifact is built, or is still to be.
BuildInv ==
  step = "build" =>
    /\ ~command.skip_build /\ todo \in Seq(StagesOf(command.cells))
    /\ \A c \in command.cells : PendingIn(todo, artifact_key(c)) \/ Fresh(c)

\* After the build, or after dist/ was read instead.
LoadedInv ==
  step \in Ready \cup {"loaded"} => \A c \in command.cells :
    Loadable(LabelOf(c)) /\ (~command.skip_build => Fresh(c))

\* After the deploy, or after every function was found.
ReadyInv ==
  step \in Ready => \A c \in command.cells :
    /\ function_name(c) \in DOMAIN functions
    /\ ~command.skip_deploy => FunctionOf(c).code = dist[LabelOf(c)]

CodeInv == DistInv /\ FunctionsInv /\ BuildInv /\ LoadedInv /\ ReadyInv

-----------------------------------------------------------------------------

\* What a stage holds is in the plan that it is part of.
LEMMA PendingConcat ==
  ASSUME NEW T, NEW s \in Seq(T), NEW t \in Seq(T), NEW key,
         PendingIn(s, key) \/ PendingIn(t, key)
  PROVE  PendingIn(s \o t, key)
<1>1. /\ Len(s \o t) = Len(s) + Len(t) /\ Len(s) \in Nat /\ Len(t) \in Nat
      /\ \A i \in 1 .. Len(s) : (s \o t)[i] = s[i]
      /\ \A i \in 1 .. Len(t) : (s \o t)[Len(s) + i] = t[i]
  BY Joined
<1>2. CASE PendingIn(s, key)
  <2>1. PICK i \in 1 .. Len(s) : key \in s[i].keys
    BY <1>2 DEF PendingIn
  <2>2. i \in 1 .. Len(s \o t) /\ (s \o t)[i] = s[i]
    BY <1>1
  <2>3. QED
    BY <2>1, <2>2 DEF PendingIn
<1>3. CASE PendingIn(t, key)
  <2>1. PICK i \in 1 .. Len(t) : key \in t[i].keys
    BY <1>3 DEF PendingIn
  <2>2. Len(s) + i \in 1 .. Len(s \o t) /\ (s \o t)[Len(s) + i] = t[i]
    BY <1>1
  <2>3. QED
    BY <2>1, <2>2 DEF PendingIn
<1>4. QED
  BY <1>2, <1>3

\* A language's stage has that language's artifacts.
LEMMA StageFacts ==
  ASSUME NEW cells, NEW lang
  PROVE  /\ Stage(lang, unique_artifacts(cells)) \in Seq(StagesOf(cells))
         /\ \A key \in unique_artifacts(cells) :
              key.lang = lang => PendingIn(Stage(lang, unique_artifacts(cells)), key)
<1> DEFINE keys == unique_artifacts(cells)
           ks == {k \in keys : k.lang = lang}
           st == [shared |-> lang \in {"node", "java"}, keys |-> ks]
<1>1. Stage(lang, keys) = Segment(ks # {}, st)
  BY DEF Stage
<1>2. CASE ks = {}
  <2>1. Stage(lang, keys) = <<>>
    BY <1>1, <1>2 DEF Segment
  <2>2. <<>> \in Seq(StagesOf(cells))
    BY EmptySeq
  <2>3. \A key \in keys : key.lang # lang
    BY <1>2
  <2>4. QED
    BY <2>1, <2>2, <2>3
<1>3. CASE ks # {}
  <2>1. Stage(lang, keys) = <<st>>
    BY <1>1, <1>3 DEF Segment
  <2>2. st \in StagesOf(cells)
    <3>1. ks \in (SUBSET keys) \ {{}}
      BY <1>3
    <3>2. (lang \in {"node", "java"}) \in BOOLEAN
      OBVIOUS
    <3>3. QED
      BY <3>1, <3>2 DEF StagesOf
  <2>3. st.keys = ks
    OBVIOUS
  <2> HIDE DEF st, ks
  <2>4. <<st>> \in Seq(StagesOf(cells)) /\ Len(<<st>>) = 1 /\ <<st>>[1] = st
    BY <2>2
  <2>5. \A key \in ks : PendingIn(<<st>>, key)
    BY <2>3, <2>4 DEF PendingIn
  <2>6. \A key \in keys : key.lang = lang => key \in ks
    BY DEF ks
  <2>7. QED
    BY <2>1, <2>4, <2>5, <2>6
<1>4. QED
  BY <1>2, <1>3

\* The plan has every artifact of the command's cells, and no other.
LEMMA PlanFacts ==
  ASSUME NEW cells \in SUBSET all_cells
  PROVE  /\ BuildPlan(unique_artifacts(cells)) \in Seq(StagesOf(cells))
         /\ \A c \in cells : PendingIn(BuildPlan(unique_artifacts(cells)), artifact_key(c))
<1> DEFINE keys == unique_artifacts(cells)
           T == StagesOf(cells)
<1>1. PICK r \in Seq(T) : r = Stage("rust", keys)
  BY StageFacts
<1>2. PICK n \in Seq(T) : n = Stage("node", keys)
  BY StageFacts
<1>3. PICK j \in Seq(T) : j = Stage("java", keys)
  BY StageFacts
<1>4. PICK p \in Seq(T) : p = Stage("python", keys)
  BY StageFacts
<1>5. PICK g \in Seq(T) : g = Stage("go", keys)
  BY StageFacts
<1>6. \A key \in keys :
        /\ key.lang = "rust" => PendingIn(r, key)
        /\ key.lang = "node" => PendingIn(n, key)
        /\ key.lang = "java" => PendingIn(j, key)
        /\ key.lang = "python" => PendingIn(p, key)
        /\ key.lang = "go" => PendingIn(g, key)
  BY <1>1, <1>2, <1>3, <1>4, <1>5, StageFacts
<1>7. \A c \in cells : artifact_key(c) \in keys /\ artifact_key(c).lang \in Langs
  <2>1. ASSUME NEW c \in cells PROVE artifact_key(c) \in keys /\ artifact_key(c).lang \in Langs
    <3>1. c.lang \in Langs
      BY CellFacts DEF Cell
    <3>2. QED
      BY <3>1 DEF artifact_key, unique_artifacts
  <2>2. QED
    BY <2>1
<1> HIDE DEF T
<1>8. PICK rn \in Seq(T) : rn = r \o n
  BY Joined
<1>9. PICK rj \in Seq(T) : rj = rn \o j
  BY Joined
<1>10. PICK rp \in Seq(T) : rp = rj \o p
  BY Joined
<1>11. PICK rg \in Seq(T) : rg = rp \o g
  BY Joined
<1>12. rg = BuildPlan(keys)
  BY <1>1, <1>2, <1>3, <1>4, <1>5, <1>8, <1>9, <1>10, <1>11 DEF BuildPlan
<1> HIDE DEF keys
<1>13. ASSUME NEW key \in keys, key.lang \in Langs
       PROVE PendingIn(rg, key)
  <2>1. CASE key.lang = "rust" \/ key.lang = "node"
    BY <1>6, <1>8, <1>9, <1>10, <1>11, <2>1, PendingConcat
  <2>2. CASE key.lang = "java"
    BY <1>6, <1>9, <1>10, <1>11, <2>2, PendingConcat
  <2>3. CASE key.lang = "python"
    BY <1>6, <1>10, <1>11, <2>3, PendingConcat
  <2>4. CASE key.lang = "go"
    BY <1>6, <1>11, <2>4, PendingConcat
  <2>5. QED
    BY <1>13, <2>1, <2>2, <2>3, <2>4 DEF Langs
<1>14. QED
  BY <1>7, <1>12, <1>13 DEF T, keys

\* The next artifact is one of the command's cells'.
LEMMA NextKeyFacts ==
  ASSUME NEW cells, NEW stages \in Seq(StagesOf(cells)), todo = stages, todo # <<>>
  PROVE  /\ Head(todo).keys \subseteq unique_artifacts(cells)
         /\ NextKey \in Head(todo).keys /\ Head(todo) = todo[1] /\ 1 \in 1 .. Len(todo)
         /\ \E c \in cells : NextKey = artifact_key(c)
<1>1. Head(todo) = todo[1] /\ 1 \in 1 .. Len(todo) /\ todo[1] \in StagesOf(cells)
  OBVIOUS
<1>2. todo[1].keys \subseteq unique_artifacts(cells) /\ todo[1].keys # {}
  BY <1>1 DEF StagesOf
<1>3. NextKey \in Head(todo).keys
  BY <1>1, <1>2 DEF NextKey
<1>4. QED
  BY <1>1, <1>2, <1>3 DEF unique_artifacts

\* The stages that are left when the first one goes on with some of its artifacts.
LEMMA TodoWithFacts ==
  ASSUME NEW cells, NEW stages \in Seq(StagesOf(cells)), todo = stages, todo # <<>>,
         NEW keys \in SUBSET Head(todo).keys
  PROVE  /\ TodoWith(keys) \in Seq(StagesOf(cells))
         /\ \A key : PendingIn(todo, key) /\ (key \in Head(todo).keys => key \in keys)
                     => PendingIn(TodoWith(keys), key)
<1> DEFINE T == StagesOf(cells)
           rest == [shared |-> FALSE, keys |-> keys]
<1>1. /\ Tail(todo) \in Seq(T) /\ Len(Tail(todo)) = Len(todo) - 1 /\ Len(todo) \in Nat
      /\ \A i \in 1 .. Len(todo) - 1 : Tail(todo)[i] = todo[i + 1]
  OBVIOUS
<1>2. \A key : PendingIn(todo, key) => key \in Head(todo).keys \/ PendingIn(Tail(todo), key)
  <2>1. SUFFICES ASSUME NEW key, NEW i \in 1 .. Len(todo), key \in todo[i].keys, i # 1
                 PROVE PendingIn(Tail(todo), key)
    BY NextKeyFacts DEF PendingIn
  <2>2. i - 1 \in 1 .. Len(Tail(todo)) /\ Tail(todo)[i - 1] = todo[i]
    BY <1>1, <2>1
  <2>3. QED
    BY <2>1, <2>2 DEF PendingIn
<1>3. CASE keys = {}
  BY <1>1, <1>2, <1>3 DEF TodoWith
<1>4. CASE keys # {}
  <2>1. rest \in T
    <3>1. keys \in (SUBSET unique_artifacts(cells)) \ {{}}
      BY <1>4, NextKeyFacts
    <3>2. QED
      BY <3>1 DEF StagesOf
  <2>2. rest.keys = keys
    OBVIOUS
  <2> HIDE DEF rest, T
  <2>3. <<rest>> \in Seq(T) /\ Len(<<rest>>) = 1 /\ <<rest>>[1] = rest
    BY <2>1
  <2>4. PICK s \in Seq(T) : s = <<rest>>
    BY <2>3
  <2>5. \A key \in keys : PendingIn(s, key)
    BY <2>2, <2>3, <2>4 DEF PendingIn
  <2>6. PICK t \in Seq(T) : t = Tail(todo)
    BY <1>1
  <2>7. PICK st \in Seq(T) : st = s \o t
    BY Joined
  <2>8. st = TodoWith(keys)
    BY <1>4, <2>4, <2>6, <2>7 DEF TodoWith, rest
  <2>9. \A key : PendingIn(s, key) \/ PendingIn(t, key) => PendingIn(st, key)
    BY <2>7, PendingConcat
  <2>10. QED
    BY <1>2, <2>5, <2>6, <2>8, <2>9 DEF T
<1>5. QED
  BY <1>3, <1>4

-----------------------------------------------------------------------------

\* A zip that is stored is at its own label, and the others are as they were.
LEMMA StoredFacts ==
  ASSUME NEW key, NEW state
  PROVE  /\ DOMAIN Stored(key, state) = DOMAIN dist \cup {label(key)}
         /\ Stored(key, state)[label(key)] = Packed(key, state)
         /\ \A l \in DOMAIN dist : l # label(key) => Stored(key, state)[l] = dist[l]
  BY DEF Stored, Put

\* Storing the zip of a cell's artifact under its label keeps what labels say.
LEMMA StoredDist ==
  ASSUME DistInv, NEW d \in all_cells, NEW state, dist' = Stored(artifact_key(d), state)
  PROVE  DistInv'
<1>1. SUFFICES ASSUME NEW c \in all_cells, LabelOf(c) \in DOMAIN dist'
               PROVE dist'[LabelOf(c)].key = artifact_key(c)
  BY DEF DistInv
<1>2. CASE LabelOf(c) = LabelOf(d)
  <2>1. artifact_key(c) = artifact_key(d)
    BY <1>2, LabelsDiffer
  <2>2. dist'[LabelOf(c)] = Packed(artifact_key(c), state)
    BY <2>1, StoredFacts DEF LabelOf
  <2>3. QED
    BY <2>2 DEF Packed
<1>3. CASE LabelOf(c) # LabelOf(d)
  <2>1. LabelOf(c) \in DOMAIN dist /\ dist'[LabelOf(c)] = dist[LabelOf(c)]
    <3>1. LabelOf(d) = label(artifact_key(d))
      BY DEF LabelOf
    <3>2. /\ DOMAIN dist' = DOMAIN dist \cup {LabelOf(d)}
          /\ \A l \in DOMAIN dist : l # LabelOf(d) => dist'[l] = dist[l]
      BY <3>1, StoredFacts
    <3>3. QED
      BY <1>1, <1>3, <3>2
  <2>2. dist[LabelOf(c)].key = artifact_key(c)
    BY <2>1 DEF DistInv
  <2>3. QED
    BY <2>1, <2>2
<1>4. QED
  BY <1>2, <1>3

\* An artifact that is built is fresh, and so are those that were.
LEMMA StoredFresh ==
  ASSUME NEW d \in all_cells, dist' = Stored(artifact_key(d), "whole"), source' = source,
         NEW c \in all_cells, Fresh(c) \/ artifact_key(c) = artifact_key(d)
  PROVE  Fresh(c)'
<1>1. CASE LabelOf(c) = LabelOf(d)
  <2>1. artifact_key(c) = artifact_key(d)
    BY <1>1, LabelsDiffer
  <2>2. LabelOf(c) \in DOMAIN dist' /\ dist'[LabelOf(c)] = Packed(artifact_key(c), "whole")
    BY <2>1, StoredFacts DEF LabelOf
  <2>3. QED
    BY <2>2 DEF Fresh, Packed
<1>2. CASE LabelOf(c) # LabelOf(d)
  <2>1. Fresh(c)
    BY <1>2 DEF LabelOf
  <2>2. LabelOf(c) \in DOMAIN dist' /\ dist'[LabelOf(c)] = dist[LabelOf(c)]
    BY <1>2, <2>1, StoredFacts DEF LabelOf, Fresh
  <2>3. QED
    BY <2>1, <2>2 DEF Fresh, Packed
<1>3. QED
  BY <1>1, <1>2

\* A build task that succeeds.
LEMMA TaskSucceedsCode ==
  ASSUME CodeInv, NamesInv, TaskSucceeds
  PROVE  CodeInv'
<1>1. /\ step = "build" /\ todo # <<>> /\ step' = step /\ command' = command
      /\ functions' = functions /\ source' = source
  BY DEF TaskSucceeds
<1>2. /\ DistInv /\ FunctionsInv /\ ~command.skip_build
      /\ todo \in Seq(StagesOf(command.cells)) /\ command.cells \in SUBSET all_cells
      /\ \A c \in command.cells : PendingIn(todo, artifact_key(c)) \/ Fresh(c)
  BY <1>1 DEF CodeInv, BuildInv, NamesInv
<1>3. FunctionsInv' /\ LoadedInv' /\ ReadyInv'
  BY <1>1, <1>2 DEF FunctionsInv, FunctionOf, LoadedInv, ReadyInv, Ready
<1>4. CASE Head(todo).shared
  <2>1. todo' = TodoWith(Head(todo).keys) /\ dist' = dist
    BY <1>4 DEF TaskSucceeds
  <2>2. /\ todo' \in Seq(StagesOf(command.cells))
        /\ \A key : PendingIn(todo, key) => PendingIn(todo', key)
    BY <1>1, <1>2, <2>1, TodoWithFacts
  <2>4. \A c : Fresh(c) => Fresh(c)'
    BY <1>1, <2>1 DEF Fresh, Packed
  <2>5. BuildInv'
    BY <1>1, <1>2, <2>2, <2>4 DEF BuildInv
  <2>6. DistInv'
    BY <1>2, <2>1 DEF DistInv
  <2>7. QED
    BY <1>3, <2>5, <2>6 DEF CodeInv
<1>5. CASE ~Head(todo).shared
  <2>1. todo' = TodoWith(Head(todo).keys \ {NextKey}) /\ dist' = Stored(NextKey, "whole")
    BY <1>5 DEF TaskSucceeds, Zipped
  <2>2. PICK d \in command.cells : NextKey = artifact_key(d)
    BY <1>1, <1>2, NextKeyFacts
  <2>3. d \in all_cells
    BY <1>2
  <2>4. DistInv'
    BY <1>2, <2>1, <2>2, <2>3, StoredDist
  <2>5. /\ todo' \in Seq(StagesOf(command.cells))
        /\ \A key : PendingIn(todo, key) /\ key # NextKey => PendingIn(todo', key)
    BY <1>1, <1>2, <2>1, TodoWithFacts
  <2>6. ASSUME NEW c \in command.cells PROVE PendingIn(todo', artifact_key(c)) \/ Fresh(c)'
    <3>1. c \in all_cells
      BY <1>2
    <3>2. Fresh(c) \/ artifact_key(c) = artifact_key(d) => Fresh(c)'
      BY <1>1, <2>1, <2>2, <2>3, <3>1, StoredFresh
    <3>3. QED
      BY <1>2, <2>2, <2>5, <3>2
  <2>7. BuildInv'
    BY <1>1, <1>2, <2>5, <2>6 DEF BuildInv
  <2>8. QED
    BY <1>3, <2>4, <2>7 DEF CodeInv
<1>6. QED
  BY <1>4, <1>5

\* A build task that fails, whatever zip it leaves.
LEMMA TaskFailsCode ==
  ASSUME CodeInv, NamesInv, TaskFails
  PROVE  CodeInv'
<1>1. /\ step = "build" /\ todo # <<>> /\ step' = "idle" /\ functions' = functions
  BY DEF TaskFails, End
<1>2. /\ DistInv /\ FunctionsInv
      /\ todo \in Seq(StagesOf(command.cells)) /\ command.cells \in SUBSET all_cells
  BY <1>1 DEF CodeInv, BuildInv, NamesInv
<1>3. DistInv'
  <2>1. PICK d \in command.cells : NextKey = artifact_key(d)
    BY <1>1, <1>2, NextKeyFacts
  <2>2. d \in all_cells
    BY <1>2
  <2>3. CASE dist' = dist
    BY <1>2, <2>3 DEF DistInv
  <2>4. ASSUME NEW state, dist' = Stored(NextKey, state)
        PROVE DistInv'
    BY <1>2, <2>1, <2>2, <2>4, StoredDist
  <2>5. QED
    BY <2>3, <2>4 DEF TaskFails
<1>4. QED
  BY <1>1, <1>2, <1>3 DEF CodeInv, FunctionsInv, FunctionOf, BuildInv, LoadedInv, ReadyInv, Ready

\* A plan is made, for the command's artifacts.
LEMMA BeginBuildCode ==
  ASSUME CodeInv, NamesInv, BeginBuild
  PROVE  CodeInv'
<1>1. /\ ~command.skip_build /\ step' = "build" /\ command' = command
      /\ dist' = dist /\ functions' = functions
      /\ todo' = BuildPlan(unique_artifacts(command.cells))
  BY DEF BeginBuild
<1>2. command.cells \in SUBSET all_cells
  BY DEF NamesInv
<1>3. /\ todo' \in Seq(StagesOf(command.cells))
      /\ \A c \in command.cells : PendingIn(todo', artifact_key(c))
  BY <1>1, <1>2, PlanFacts
<1>4. BuildInv'
  BY <1>1, <1>3 DEF BuildInv
<1>5. QED
  BY <1>1, <1>4 DEF CodeInv, DistInv, FunctionsInv, FunctionOf, LoadedInv, ReadyInv, Ready

\* A zip that is fresh can be read.
LEMMA FreshLoadable == \A c : Fresh(c) => Loadable(LabelOf(c))
  BY DEF Fresh, Loadable, Packed

\* The build is over: nothing is left to be built.
LEMMA BuildEndsCode ==
  ASSUME CodeInv, BuildEnds
  PROVE  CodeInv'
<1>1. /\ step = "build" /\ todo = <<>>
      /\ dist' = dist /\ functions' = functions /\ source' = source
      /\ step' = "idle" \/ (step' = "loaded" /\ command' = command)
  BY DEF BuildEnds, End, GoTo
<1>2. \A key : ~PendingIn(todo, key)
  BY <1>1 DEF PendingIn
<1>3. \A c \in command.cells : Fresh(c)
  BY <1>1, <1>2 DEF CodeInv, BuildInv
<1>4. \A c \in command.cells : Loadable(LabelOf(c))
  BY <1>3, FreshLoadable
<1>5. DistInv' /\ FunctionsInv' /\ BuildInv' /\ ReadyInv'
  BY <1>1 DEF CodeInv, DistInv, FunctionsInv, FunctionOf, BuildInv, ReadyInv, Ready
<1>6. LoadedInv'
  <2>1. CASE step' = "idle"
    BY <2>1 DEF LoadedInv, Ready
  <2>2. CASE step' = "loaded" /\ command' = command
    BY <1>1, <1>3, <1>4, <2>2 DEF LoadedInv, Fresh, Loadable, Packed
  <2>3. QED
    BY <1>1, <2>1, <2>2
<1>7. QED
  BY <1>5, <1>6 DEF CodeInv

\* dist/ is read instead.
LEMMA LoadCode ==
  ASSUME CodeInv, Load
  PROVE  CodeInv'
<1>1. /\ command.skip_build /\ dist' = dist /\ functions' = functions
      /\ \/ step' = "idle"
         \/ /\ step' = "loaded" /\ command' = command
            /\ \A c \in command.cells : Loadable(LabelOf(c))
  BY DEF Load, End, GoTo
<1>2. DistInv' /\ FunctionsInv' /\ BuildInv' /\ ReadyInv'
  BY <1>1 DEF CodeInv, DistInv, FunctionsInv, FunctionOf, BuildInv, ReadyInv, Ready
<1>3. LoadedInv'
  BY <1>1 DEF LoadedInv, Ready, Loadable
<1>4. QED
  BY <1>2, <1>3 DEF CodeInv

\* Each function deployed is the one of its name's only cell.
LEMMA DeployCode ==
  ASSUME CodeInv, NamesInv, Deploy
  PROVE  CodeInv'
<1>1. /\ step = "loaded" /\ dist' = dist /\ source' = source /\ command.cells \in SUBSET all_cells
      /\ DistInv /\ FunctionsInv
      /\ \A c \in command.cells : Loadable(LabelOf(c)) /\ (~command.skip_build => Fresh(c))
  BY DEF CodeInv, LoadedInv, NamesInv, Deploy
<1>2. PICK done \in SUBSET command.cells :
        /\ functions' = [n \in DOMAIN functions \cup {function_name(c) : c \in done} |->
             LET cs == {c \in done : function_name(c) = n}
             IN IF cs = {} THEN functions[n] ELSE NewFunction(CHOOSE c \in cs : TRUE)]
        /\ \/ Deployed(done) /\ GoTo("preflight")
           \/ End("failed")
  BY DEF Deploy
<1>3. ASSUME NEW c \in done
      PROVE /\ function_name(c) \in DOMAIN functions'
            /\ functions'[function_name(c)] = NewFunction(c)
  <2>1. {d \in done : function_name(d) = function_name(c)} = {c}
    BY <1>1, NamesDiffer
  <2>2. function_name(c) \in DOMAIN functions'
    BY <1>2
  <2>3. functions'[function_name(c)] = NewFunction(CHOOSE d \in {c} : TRUE)
    BY <1>2, <2>1, <2>2
  <2>4. QED
    BY <2>2, <2>3
<1>4. ASSUME NEW c \in all_cells, c \notin done, function_name(c) \in DOMAIN functions'
      PROVE /\ function_name(c) \in DOMAIN functions
            /\ functions'[function_name(c)] = functions[function_name(c)]
  <2>1. {d \in done : function_name(d) = function_name(c)} = {}
    BY <1>1, <1>4, NamesDiffer
  <2>2. QED
    BY <1>2, <1>4, <2>1
<1>5. FunctionsInv'
  <2>1. SUFFICES ASSUME NEW c \in all_cells, function_name(c) \in DOMAIN functions'
                 PROVE /\ functions'[function_name(c)].cell = c
                       /\ functions'[function_name(c)].code.key = artifact_key(c)
                       /\ functions'[function_name(c)].code.state # "broken"
    BY DEF FunctionsInv, FunctionOf
  <2>2. CASE c \in done
    <3>1. functions'[function_name(c)] = [cell |-> c, code |-> dist[LabelOf(c)]]
      BY <1>3, <2>2 DEF NewFunction
    <3>2. Loadable(LabelOf(c)) /\ dist[LabelOf(c)].key = artifact_key(c)
      BY <1>1, <2>2 DEF Loadable, DistInv
    <3>3. QED
      BY <3>1, <3>2 DEF Loadable
  <2>3. CASE c \notin done
    BY <1>1, <1>4, <2>1, <2>3 DEF FunctionsInv, FunctionOf
  <2>4. QED
    BY <2>2, <2>3
<1>6. DistInv' /\ BuildInv'
  BY <1>1, <1>2 DEF DistInv, BuildInv, End, GoTo
<1>7. CASE Deployed(done) /\ GoTo("preflight")
  <2>1. done = command.cells /\ step' = "preflight" /\ command' = command
    BY <1>7 DEF Deployed, GoTo
  <2>2. LoadedInv'
    BY <1>1, <2>1 DEF LoadedInv, Loadable, Fresh, Packed
  <2>3. \A c \in command.cells : functions'[function_name(c)].code = dist[LabelOf(c)]
    <3>1. SUFFICES ASSUME NEW c \in command.cells
                   PROVE functions'[function_name(c)].code = dist[LabelOf(c)]
      OBVIOUS
    <3>2. functions'[function_name(c)] = [cell |-> c, code |-> dist[LabelOf(c)]]
      BY <1>3, <2>1 DEF NewFunction
    <3>3. QED
      BY <3>2
  <2>4. ReadyInv'
    BY <1>1, <1>3, <2>1, <2>3 DEF ReadyInv, FunctionOf
  <2>5. QED
    BY <1>5, <1>6, <2>2, <2>4 DEF CodeInv
<1>8. CASE End("failed")
  BY <1>5, <1>6, <1>8 DEF CodeInv, End, LoadedInv, ReadyInv, Ready
<1>9. QED
  BY <1>2, <1>7, <1>8

\* Everything was found to be deployed.
LEMMA CheckMissingCode ==
  ASSUME CodeInv, CheckMissing
  PROVE  CodeInv'
<1>1. /\ step = "loaded" /\ command.skip_deploy
      /\ dist' = dist /\ functions' = functions /\ source' = source
      /\ step' = "idle" \/ (~Missing /\ step' = "preflight" /\ command' = command)
  BY DEF CheckMissing, End, GoTo
<1>2. DistInv' /\ FunctionsInv' /\ BuildInv'
  BY <1>1 DEF CodeInv, DistInv, FunctionsInv, FunctionOf, BuildInv
<1>3. CASE step' = "idle"
  BY <1>2, <1>3 DEF CodeInv, LoadedInv, ReadyInv, Ready
<1>4. CASE ~Missing /\ step' = "preflight" /\ command' = command
  <2>1. LoadedInv'
    BY <1>1, <1>4 DEF CodeInv, LoadedInv, Loadable, Fresh, Packed
  <2>2. ReadyInv'
    BY <1>1, <1>4 DEF ReadyInv, Missing
  <2>3. QED
    BY <1>2, <2>1, <2>2 DEF CodeInv
<1>5. QED
  BY <1>1, <1>3, <1>4

\* A teardown takes functions away, and changes none that it keeps.
LEMMA TeardownCode ==
  ASSUME CodeInv, Teardown
  PROVE  CodeInv'
<1>1. /\ step = "idle" /\ step' = step /\ dist' = dist
      /\ \E kept \in SUBSET Managed :
           functions' = [n \in (DOMAIN functions \ Managed) \cup kept |-> functions[n]]
  BY DEF Teardown
<1>2. \A n \in DOMAIN functions' : n \in DOMAIN functions /\ functions'[n] = functions[n]
  BY <1>1 DEF Managed
<1>3. FunctionsInv'
  BY <1>2 DEF CodeInv, FunctionsInv, FunctionOf
<1>4. QED
  BY <1>1, <1>3 DEF CodeInv, DistInv, BuildInv, LoadedInv, ReadyInv, Ready

\* A probe's function has the name of no cell.
LEMMA SyntheticName ==
  ASSUME NEW f \in SYNTH_FAMILIES, NEW mb \in SYNTH_DEFAULT_SIZES_MB, NEW c \in all_cells
  PROVE  synth_function_name(f, mb) # function_name(c)
<1>1. synth_function_name(f, mb)[2] = "synthdl"
  <2> DEFINE T == {"lambdabench", "synthdl", "python", "rust", "image", "untouched", "touched",
                   ToString(mb) \o "mb"}
  <2>1. f \in Seq(T)
    <3>1. <<"python">> \in Seq(T) /\ <<"rust">> \in Seq(T)
      OBVIOUS
    <3>2. <<"image", "untouched">> \in Seq(T) /\ <<"image", "touched">> \in Seq(T)
      OBVIOUS
    <3>3. \/ f = <<"python">> \/ f = <<"rust">>
          \/ f = <<"image", "untouched">> \/ f = <<"image", "touched">>
      BY Zenon DEF SYNTH_FAMILIES
    <3> HIDE DEF T
    <3>4. QED
      BY <3>1, <3>2, <3>3, Zenon
  <2>2. PICK p \in Seq(T) : p = <<"lambdabench", "synthdl">> /\ Len(p) = 2 /\ p[2] = "synthdl"
    <3>1. <<"lambdabench", "synthdl">> \in Seq(T)
      OBVIOUS
    <3>2. QED
      BY <3>1
  <2>3. PICK l \in Seq(T) : l = <<ToString(mb) \o "mb">>
    <3>1. <<ToString(mb) \o "mb">> \in Seq(T)
      OBVIOUS
    <3>2. QED
      BY <3>1
  <2> HIDE DEF T
  <2>4. PICK pf \in Seq(T) : pf = p \o f
    BY <2>1, Joined
  <2>5. pf \o l = synth_function_name(f, mb)
    BY <2>2, <2>3, <2>4 DEF synth_function_name
  <2>6. Len(pf) = 2 + Len(f) /\ Len(f) \in Nat /\ pf[2] = p[2]
    BY <2>1, <2>2, <2>4, Joined
  <2>7. (pf \o l)[2] = pf[2]
    BY <2>6, Joined
  <2>8. QED
    BY <2>2, <2>5, <2>6, <2>7
<1>2. function_name(c)[2] = c.lang /\ c.lang \in Langs
  BY NameParts, CellFacts DEF Cell
<1>3. QED
  BY <1>1, <1>2 DEF Langs

\* A probe was killed.
LEMMA KilledCode ==
  ASSUME CodeInv, ScalingKilled
  PROVE  CodeInv'
<1>1. /\ step = "idle" /\ step' = step /\ dist' = dist
  BY DEF ScalingKilled
<1>2. PICK f \in Leftover : functions' = Put(functions, synth_function_name(f[1], f[2]), Synthetic)
  BY DEF ScalingKilled
<1>3. f[1] \in SYNTH_FAMILIES /\ f[2] \in SYNTH_DEFAULT_SIZES_MB
  <2>1. f \in SYNTH_FAMILIES \X SYNTH_DEFAULT_SIZES_MB
    BY BoundsAssumption
  <2>2. QED
    BY <2>1
<1>4. \A c \in all_cells : function_name(c) \in DOMAIN functions' =>
        function_name(c) \in DOMAIN functions /\ functions'[function_name(c)] = functions[function_name(c)]
  BY <1>2, <1>3, SyntheticName DEF Put
<1>5. FunctionsInv'
  BY <1>4 DEF CodeInv, FunctionsInv, FunctionOf
<1>6. QED
  BY <1>1, <1>5 DEF CodeInv, DistInv, BuildInv, LoadedInv, ReadyInv, Ready

\* Steps that leave the zips, the functions and the source alone, and take a command no
\* further than it was found to be ready for.
LEMMA SameCode ==
  ASSUME CodeInv, dist' = dist, functions' = functions,
         \/ step' \in {"idle", "selected"}
         \/ step \in Ready /\ step' \in Ready /\ command' = command /\ source' = source
  PROVE  CodeInv'
<1>1. DistInv' /\ FunctionsInv' /\ BuildInv'
  BY DEF CodeInv, DistInv, FunctionsInv, FunctionOf, BuildInv, Ready
<1>2. CASE step' \in {"idle", "selected"}
  BY <1>1, <1>2 DEF CodeInv, LoadedInv, ReadyInv, Ready
<1>3. CASE step \in Ready /\ step' \in Ready /\ command' = command /\ source' = source
  BY <1>1, <1>3 DEF CodeInv, LoadedInv, ReadyInv, FunctionOf, Loadable, Fresh, Packed
<1>4. QED
  BY <1>2, <1>3

\* Every step keeps the code as it should be.
LEMMA StepCode ==
  ASSUME CodeInv, NamesInv, [Next]_vars
  PROVE  CodeInv'
<1>1. CASE StartBuild \/ StartRun \/ StartProbe
  BY <1>1, SameCode DEF StartBuild, StartRun, StartProbe, Start
<1>2. CASE BeginBuild \/ TaskSucceeds \/ TaskFails \/ BuildEnds \/ Load
  BY <1>2, BeginBuildCode, TaskSucceedsCode, TaskFailsCode, BuildEndsCode, LoadCode
<1>3. CASE Deploy \/ CheckMissing \/ Teardown \/ ScalingKilled
  BY <1>3, DeployCode, CheckMissingCode, TeardownCode, KilledCode
<1>4. CASE BeginRun \/ OpenResults \/ WriteErrs \/ CellFails \/ RunDone \/ ProbeEnds
  BY <1>4, SameCode DEF BeginRun, OpenResults, WriteErrs, CellFails, RunDone, ProbeEnds, End, GoTo,
     Ready
<1>5. CASE WriteCell \/ WriteStep
  BY <1>5, SameCode DEF WriteCell, WriteStep, control, Ready
<1>6. CASE EndRun \/ Kill
  BY <1>6, SameCode DEF EndRun, Kill, End
<1>7. CASE Edit
  BY <1>7, SameCode DEF Edit, control
<1>8. CASE UNCHANGED vars
  BY <1>8 DEF CodeInv, DistInv, FunctionsInv, FunctionOf, BuildInv, LoadedInv, ReadyInv, Loadable,
     Fresh, Packed, vars, control
<1>9. QED
  BY <1>1, <1>2, <1>3, <1>4, <1>5, <1>6, <1>7, <1>8 DEF Next

\* An artifact of a cell runs on the cell's function.
LEMMA OwnArtifactRuns ==
  ASSUME NEW c \in all_cells
  PROVE  RunsOn(artifact_key(c), c)
<1>1. c.lang \in Langs
  BY CellFacts DEF Cell
<1>2. QED
  BY <1>1 DEF RunsOn, artifact_key, arch_significant, Langs

\* The invariant is what the measurement relies on.
LEMMA CodeInvGives ==
  ASSUME CodeInv, NamesInv
  PROVE  MeasuredCode /\ FreshUnlessSkipped
<1>1. Measuring => step \in Ready
  BY DEF Measuring, Ready
<1>2. command.cells \subseteq all_cells
  BY DEF NamesInv
<1>3. MeasuredCode
  <2>1. SUFFICES ASSUME step \in Ready, NEW c \in command.cells
                 PROVE /\ function_name(c) \in DOMAIN functions
                       /\ FunctionOf(c).cell = c
                       /\ RunsOn(FunctionOf(c).code.key, c)
                       /\ FunctionOf(c).code.state # "broken" /\ Loadable(LabelOf(c))
    BY <1>1 DEF MeasuredCode
  <2>2. c \in all_cells /\ function_name(c) \in DOMAIN functions /\ Loadable(LabelOf(c))
    BY <1>2, <2>1 DEF CodeInv, ReadyInv, LoadedInv
  <2>3. /\ FunctionOf(c).cell = c /\ FunctionOf(c).code.key = artifact_key(c)
        /\ FunctionOf(c).code.state # "broken"
    BY <2>2 DEF CodeInv, FunctionsInv
  <2>4. QED
    BY <2>2, <2>3, OwnArtifactRuns
<1>4. FreshUnlessSkipped
  BY <1>1 DEF CodeInv, LoadedInv, ReadyInv, FreshUnlessSkipped, Fresh
<1>5. QED
  BY <1>3, <1>4

-----------------------------------------------------------------------------
(* What the meta says of the dataset.                                      *)

\* The cells whose rows are counted.
DoneCells == {disk[i][1] : i \in 1 .. counted}

Recording == {"measure", "done", "failing"}

\* What is counted is every row of those cells; the rows after them are those of the one
\* cell that is being written, from its first on; and a run is done when those are all its cells, not before.
TallyInv ==
  step \in Recording =>
    /\ DoneCells \subseteq command.cells
    /\ counted = RowsPerCell * Cardinality(DoneCells)
    /\ writer \in {"open", "writing", "failed"}
    /\ writer = "writing" => \E c \in command.cells \ DoneCells :
         /\ lines = File!RowsOf(c)
         /\ \A i \in counted + 1 .. Len(disk) + Len(pipe) : Stream(disk, pipe)[i] = <<c, i - counted>>
    /\ step = "measure" => writer # "failed"
    /\ step = "done" => writer = "open" /\ DoneCells = command.cells
    /\ step = "failing" => writer # "writing" /\ DoneCells # command.cells

\* A run's meta says that it is running until it ends.
MetaInv ==
  /\ step \in Recording \cup {"open"} =>
       /\ "recorded" \in DOMAIN meta /\ meta.status = "running"
       /\ meta.planned = RowsPerCell * Cardinality(command.cells)
  /\ step # "idle" => meta.status \notin {"ok", "failed"}
  /\ DatasetTruthful

-----------------------------------------------------------------------------

\* The elements of a sequence are finitely many.
LEMMA ElementsFinite ==
  ASSUME NEW T, NEW s \in Seq(T)
  PROVE  IsFiniteSet({s[i] : i \in 1 .. Len(s)})
<1> DEFINE f == [i \in 1 .. Len(s) |-> s[i]]
           S == {s[i] : i \in 1 .. Len(s)}
<1>1. IsFiniteSet(1 .. Len(s))
  BY FS_Interval
<1>2. f \in Surjection(1 .. Len(s), S)
  BY Fun_IsSurj
<1>3. QED
  BY <1>1, <1>2, FS_Surjection

\* The axes have finitely many values.
LEMMA AxesFinite == IsFiniteSet(Langs) /\ IsFiniteSet(Scenarios)
<1> DEFINE l == <<"rust", "node", "java", "python", "go">>
           s == <<"hello", "smithy", "oneclient", "threeclient", "smithyfull",
                  "lettercount", "authz", "batch", "cache">>
<1>1. l \in Seq(Langs) /\ Len(l) = 5 /\ Langs \subseteq {l[i] : i \in 1 .. 5}
  BY DEF Langs
<1>2. s \in Seq(Scenarios) /\ Len(s) = 9
  BY DEF Scenarios
<1>3. /\ s[1] = "hello" /\ s[2] = "smithy" /\ s[3] = "oneclient" /\ s[4] = "threeclient"
      /\ s[5] = "smithyfull" /\ s[6] = "lettercount" /\ s[7] = "authz" /\ s[8] = "batch"
      /\ s[9] = "cache"
  OBVIOUS
<1> HIDE DEF l, s
<1>4. Scenarios \subseteq {s[i] : i \in 1 .. 9}
  BY <1>3 DEF Scenarios
<1>5. IsFiniteSet({l[i] : i \in 1 .. 5}) /\ IsFiniteSet({s[i] : i \in 1 .. 9})
  <2>1. IsFiniteSet({l[i] : i \in 1 .. Len(l)})
    BY <1>1, ElementsFinite
  <2>2. IsFiniteSet({s[i] : i \in 1 .. Len(s)})
    BY <1>2, ElementsFinite
  <2>3. QED
    BY <1>1, <1>2, <2>1, <2>2
<1>6. QED
  BY <1>1, <1>4, <1>5, FS_Subset

\* There are finitely many cells.
LEMMA CellsFinite == IsFiniteSet(all_cells)
<1>1. IsFiniteSet(Langs) /\ IsFiniteSet(Scenarios)
  BY AxesFinite
<1>2. IsFiniteSet(Archs) /\ IsFiniteSet(Opts \cup {"none"}) /\ IsFiniteSet(BOOLEAN)
      /\ IsFiniteSet({"on", "off", "none"})
  <2>1. \A x, y : IsFiniteSet({x, y})
    <3>1. SUFFICES ASSUME NEW x, NEW y PROVE IsFiniteSet({x, y})
      OBVIOUS
    <3>2. IsFiniteSet({x} \cup {y})
      BY FS_Singleton, FS_AddElement
    <3>3. {x, y} = {x} \cup {y}
      OBVIOUS
    <3>4. QED
      BY <3>2, <3>3
  <2>2. /\ Archs = {"arm64", "x86_64"} /\ BOOLEAN = {TRUE, FALSE}
        /\ Opts \cup {"none"} = {"o3", "oz"} \cup {"none"}
        /\ {"on", "off", "none"} = {"on", "off"} \cup {"none"}
    BY DEF Archs, Opts
  <2>3. IsFiniteSet({"o3", "oz"} \cup {"none"}) /\ IsFiniteSet({"on", "off"} \cup {"none"})
    <3>1. IsFiniteSet({"o3", "oz"}) /\ IsFiniteSet({"on", "off"})
      BY <2>1
    <3>2. QED
      BY <3>1, FS_AddElement
  <2>4. IsFiniteSet(Archs) /\ IsFiniteSet(BOOLEAN)
    <3>1. IsFiniteSet({"arm64", "x86_64"}) /\ IsFiniteSet({TRUE, FALSE})
      BY <2>1
    <3>2. QED
      BY <2>2, <3>1
  <2>5. QED
    BY <2>2, <2>3, <2>4
<1>3. IsFiniteSet(MEMORY_MB)
  <2> DEFINE m == <<128, 256, 512, 1024, 2048, 3008>>
  <2>1. m \in Seq(MEMORY_MB) /\ Len(m) = 6 /\ MEMORY_MB \subseteq {m[i] : i \in 1 .. 6}
    BY DEF MEMORY_MB
  <2> HIDE DEF m
  <2>2. QED
    BY <2>1, ElementsFinite, FS_Subset
<1> DEFINE A == Langs \X Scenarios
           B == Archs \X MEMORY_MB
           C == (Opts \cup {"none"}) \X BOOLEAN
           D == {"on", "off", "none"}
           T == (A \X B) \X (C \X D)
           f == [c \in all_cells |-> <<<<<<c.lang, c.scenario>>, <<c.arch, c.memory_mb>>>>,
                                       <<<<c.opt, c.snapstart>>, c.jitter>>>>]
<1>4. IsFiniteSet(A) /\ IsFiniteSet(B) /\ IsFiniteSet(C) /\ IsFiniteSet(D)
  BY <1>1, <1>2, <1>3, FS_Product
<1>5. IsFiniteSet(T)
  <2>1. IsFiniteSet(A \X B) /\ IsFiniteSet(C \X D)
    BY <1>4, FS_Product
  <2>2. QED
    BY <2>1, FS_Product
<1>6. f \in Injection(all_cells, T)
  <2>1. ASSUME NEW c \in all_cells PROVE f[c] \in T
    BY CellFacts DEF Cell
  <2>2. ASSUME NEW c \in all_cells, NEW d \in all_cells, f[c] = f[d]
        PROVE c = d
    <3>1. /\ c.lang = d.lang /\ c.scenario = d.scenario /\ c.arch = d.arch
          /\ c.memory_mb = d.memory_mb /\ c.opt = d.opt /\ c.snapstart = d.snapstart
          /\ c.jitter = d.jitter
      BY <2>2
    <3>2. QED
      BY <3>1, CellFacts
  <2> HIDE DEF T
  <2>3. f \in [all_cells -> T]
    BY <2>1
  <2> HIDE DEF f
  <2>4. QED
    BY <2>2, <2>3, Fun_IsInj
<1>7. QED
  BY <1>5, <1>6, FS_Injection

\* A run of fewer cells has fewer rows.
LEMMA FewerRows ==
  ASSUME NEW S, IsFiniteSet(S), NEW R \in SUBSET S, R # S
  PROVE  RowsPerCell * Cardinality(R) < RowsPerCell * Cardinality(S)
<1>1. Cardinality(R) \in Nat /\ Cardinality(S) \in Nat /\ Cardinality(R) < Cardinality(S)
  <2>1. IsFiniteSet(R) /\ Cardinality(R) <= Cardinality(S) /\ Cardinality(R) # Cardinality(S)
    BY FS_Subset
  <2>2. Cardinality(R) \in Nat /\ Cardinality(S) \in Nat
    BY <2>1, FS_CardinalityType
  <2>3. QED
    BY <2>1, <2>2
<1>2. RowsPerCell \in Nat /\ RowsPerCell > 0
  BY BoundsAssumption
<1>3. \A a, b, r \in Nat : a < b /\ r > 0 => r * a < r * b
  OBVIOUS
<1>4. QED
  BY <1>1, <1>2, <1>3

\* The cells of a command are finitely many.
LEMMA CommandFinite ==
  ASSUME NamesInv
  PROVE  IsFiniteSet(command.cells)
  BY CellsFinite, FS_Subset DEF NamesInv

\* What a meta says when it says that its run is running, or has ended.
LEMMA MetaFields ==
  /\ NoMeta.status = "none" /\ NoMeta.recorded = 0 /\ NoMeta.planned = 0
  /\ "recorded" \in DOMAIN NoMeta /\ Unreadable.status = "unreadable"
  BY DEF NoMeta, Unreadable

-----------------------------------------------------------------------------

\* Where the file is as it was and the run goes on, so is the tally.
LEMMA SameTally ==
  ASSUME TallyInv, fileVars' = fileVars, step' \in Recording, step' = step, command' = command
  PROVE  TallyInv'
<1>1. /\ writer' = writer /\ lines' = lines /\ appended' = appended /\ pipe' = pipe
      /\ disk' = disk /\ counted' = counted
  BY DEF fileVars
<1>2. DoneCells' = DoneCells
  BY <1>1 DEF DoneCells
<1>3. Stream(disk, pipe)' = Stream(disk, pipe)
  BY <1>1 DEF Stream
<1>4. QED
  BY <1>1, <1>2, <1>3 DEF TallyInv

\* The file is opened, and nothing is in it.
LEMMA OpenTally ==
  ASSUME OpenResults
  PROVE  TallyInv'
<1>1. CASE step' = "idle"
  BY <1>1 DEF TallyInv, Recording
<1>2. CASE step' # "idle"
  <2>1. step' = "measure" /\ writer' = "open" /\ counted' = 0
    BY <1>2 DEF OpenResults, GoTo, End, File!Create
  <2>2. DoneCells' = {}
    BY <2>1 DEF DoneCells
  <2>3. Cardinality(DoneCells') = 0 /\ RowsPerCell * 0 = 0
    BY <2>2, FS_EmptySet, BoundsAssumption
  <2>4. QED
    BY <2>1, <2>2, <2>3 DEF TallyInv
<1>3. QED
  BY <1>1, <1>2

\* A cell that is begun is not among those that are counted.
LEMMA WriteCellTally ==
  ASSUME CommandInv, FileInv, TallyInv, WriteCell
  PROVE  TallyInv'
<1>1. PICK c \in command.cells : File!Begin(c)
  BY DEF WriteCell
<1>2. /\ step = "measure" /\ step' = step /\ command' = command
      /\ writer = "open" /\ writer' = "writing" /\ lines' = File!RowsOf(c)
      /\ disk' = disk /\ pipe' = pipe /\ counted' = counted /\ ~File!Written(c)
  BY <1>1 DEF WriteCell, control, File!Begin
<1>3. pipe = <<>> /\ counted = Len(disk) /\ disk \in Seq(File!AllRows)
  BY <1>2 DEF FileInv, File!TypeOK
<1>4. /\ DoneCells \subseteq command.cells /\ counted = RowsPerCell * Cardinality(DoneCells)
  BY <1>2 DEF TallyInv, Recording
<1>5. DoneCells' = DoneCells
  BY <1>2 DEF DoneCells
<1>6. c \notin DoneCells
  BY <1>2, <1>3 DEF DoneCells, File!Written
<1>7. \A i \in counted' + 1 .. Len(disk') + Len(pipe') : FALSE
  BY <1>2, <1>3
<1>8. c \in command'.cells \ DoneCells'
  BY <1>2, <1>5, <1>6
<1>9. QED
  BY <1>2, <1>4, <1>5, <1>7, <1>8 DEF TallyInv

\* A row that is given to the encoder is of the cell that is being written.
LEMMA AppendRowTally ==
  ASSUME FileInv, TallyInv, step = "measure", step' = step, command' = command, File!AppendRow
  PROVE  TallyInv'
<1>1. PICK c \in command.cells \ DoneCells :
        /\ lines = File!RowsOf(c)
        /\ \A i \in counted + 1 .. Len(disk) + Len(pipe) : Stream(disk, pipe)[i] = <<c, i - counted>>
  BY DEF TallyInv, Recording, File!AppendRow
<1>2. /\ DoneCells \subseteq command.cells /\ counted = RowsPerCell * Cardinality(DoneCells)
  BY DEF TallyInv, Recording
<1>3. /\ writer' = "writing" /\ lines' = lines /\ disk' = disk /\ counted' = counted
      /\ appended < Len(lines) /\ pipe' = Append(pipe, lines[appended + 1])
  BY DEF File!AppendRow
<1>4. PICK d \in MeasuredCells :
        lines = File!RowsOf(d) /\ Len(disk) + Len(pipe) = counted + appended
  BY DEF FileInv, File!AppendRow, WritingInv
<1>5. /\ Len(lines) = Rows[d] /\ Rows[d] \in Nat \ {0}
      /\ \A i \in 1 .. Rows[d] : lines[i] = <<d, i>>
  BY <1>4, RowsKnown, RowsOfType
<1>6. lines[1] = <<c, 1>>
  <2>1. File!RowsOf(c) = [i \in 1 .. Rows[c] |-> <<c, i>>]
    BY DEF File!RowsOf
  <2>2. DOMAIN lines = 1 .. Rows[c] /\ DOMAIN lines = 1 .. Rows[d]
    BY <1>1, <1>4 DEF File!RowsOf
  <2>3. 1 \in 1 .. Rows[d]
    BY <1>5
  <2>4. QED
    BY <1>1, <2>1, <2>2, <2>3
<1>7. c = d
  BY <1>5, <1>6
<1>8. appended \in Nat /\ appended + 1 \in 1 .. Rows[d]
  BY <1>3, <1>5 DEF FileInv, File!TypeOK
<1>9. lines[appended + 1] = <<c, appended + 1>>
  BY <1>5, <1>7, <1>8
<1> DEFINE r == <<c, appended + 1>>
           s == Stream(disk, pipe)
           t == Stream(disk, Append(pipe, r))
<1>10. r \in File!AllRows
  BY <1>7, <1>8 DEF File!AllRows
<1>11. /\ Len(Append(pipe, r)) = Len(pipe) + 1 /\ Len(disk) \in Nat /\ Len(pipe) \in Nat
       /\ \A i \in 1 .. Len(disk) + Len(pipe) : t[i] = s[i]
       /\ t[Len(disk) + Len(pipe) + 1] = r
  BY <1>10, StreamType DEF Stream
<1>12. counted \in Nat
  BY StreamType
<1>13. pipe' = Append(pipe, r) /\ Stream(disk, pipe)' = t
  BY <1>3, <1>9 DEF Stream
<1> HIDE DEF r, s, t
<1>14. \A i \in counted + 1 .. Len(disk) + Len(pipe) + 1 : t[i] = <<c, i - counted>>
  <2>1. SUFFICES ASSUME NEW i \in counted + 1 .. Len(disk) + Len(pipe) + 1
                 PROVE  t[i] = <<c, i - counted>>
    OBVIOUS
  <2>2. CASE i = Len(disk) + Len(pipe) + 1
    <3>1. Len(disk) + Len(pipe) = counted + appended
      BY <1>4
    <3>2. i - counted = appended + 1
      BY <1>8, <1>11, <1>12, <2>2, <3>1
    <3>3. QED
      BY <1>11, <2>2, <3>2 DEF r
  <2>3. CASE i # Len(disk) + Len(pipe) + 1
    <3>1. i \in counted + 1 .. Len(disk) + Len(pipe) /\ i \in 1 .. Len(disk) + Len(pipe)
      BY <1>11, <1>12, <2>1, <2>3
    <3>2. t[i] = s[i] /\ s[i] = <<c, i - counted>>
      BY <1>1, <1>11, <3>1 DEF s
    <3>3. QED
      BY <3>2
  <2>4. QED
    BY <2>2, <2>3
<1>15. DoneCells' = DoneCells
  BY <1>3 DEF DoneCells
<1>16. Len(disk') + Len(pipe') = Len(disk) + Len(pipe) + 1
  BY <1>3, <1>11, <1>13
<1>17. \A i \in counted' + 1 .. Len(disk') + Len(pipe') : Stream(disk, pipe)'[i] = <<c, i - counted'>>
  BY <1>3, <1>13, <1>14, <1>16
<1>18. /\ c \in (command.cells \ DoneCells)' /\ lines' = File!RowsOf(c)
       /\ (DoneCells \subseteq command.cells)' /\ (counted = RowsPerCell * Cardinality(DoneCells))'
  BY <1>1, <1>2, <1>3, <1>15
<1>19. step' = "measure" /\ writer' = "writing"
  BY <1>3
<1>20. QED
  BY <1>17, <1>18, <1>19 DEF TallyInv

\* Rows that are passed on are the same rows.
LEMMA SpillTally ==
  ASSUME FileInv, TallyInv, step = "measure", step' = step, command' = command, File!Spill
  PROVE  TallyInv'
<1>1. PICK c \in command.cells \ DoneCells :
        /\ lines = File!RowsOf(c)
        /\ \A i \in counted + 1 .. Len(disk) + Len(pipe) : Stream(disk, pipe)[i] = <<c, i - counted>>
  BY DEF TallyInv, Recording, File!Spill
<1>2. /\ DoneCells \subseteq command.cells /\ counted = RowsPerCell * Cardinality(DoneCells)
  BY DEF TallyInv, Recording
<1>3. PICK n \in 1 .. Len(pipe) :
        /\ disk' = disk \o SubSeq(pipe, 1, n)
        /\ pipe' = SubSeq(pipe, n + 1, Len(pipe))
  BY DEF File!Spill
<1>4. /\ writer = "writing" /\ writer' = writer /\ lines' = lines /\ counted' = counted
  BY DEF File!Spill
<1>5. /\ Len(disk') = Len(disk) + n /\ Len(pipe') = Len(pipe) - n
      /\ Stream(disk', pipe') = Stream(disk, pipe)
  BY <1>3, StreamType, Moved
<1>6. /\ Len(disk) \in Nat /\ Len(pipe) \in Nat /\ counted \in Nat /\ counted <= Len(disk)
  BY StreamType DEF FileInv, File!CountedIsOnDisk
<1>7. \A i \in 1 .. Len(disk) : disk'[i] = disk[i]
  BY <1>3, StreamType
<1>8. DoneCells' = DoneCells
  BY <1>4, <1>6, <1>7 DEF DoneCells
<1>9. Len(disk') + Len(pipe') = Len(disk) + Len(pipe)
  BY <1>5, <1>6
<1>10. \A i \in counted' + 1 .. Len(disk') + Len(pipe') : Stream(disk, pipe)'[i] = <<c, i - counted'>>
  BY <1>1, <1>4, <1>5, <1>9
<1>11. /\ c \in (command.cells \ DoneCells)' /\ lines' = File!RowsOf(c)
       /\ (DoneCells \subseteq command.cells)' /\ (counted = RowsPerCell * Cardinality(DoneCells))'
  BY <1>1, <1>2, <1>4, <1>8
<1>12. step' = "measure" /\ writer' = "writing"
  BY <1>4
<1>13. QED
  BY <1>10, <1>11, <1>12 DEF TallyInv

\* A cell that is counted is one more, with all its rows.
LEMMA CountTally ==
  ASSUME NamesInv, FileInv, TallyInv, step = "measure", step' = step, command' = command, File!Count
  PROVE  TallyInv'
<1>1. PICK c \in command.cells \ DoneCells :
        /\ lines = File!RowsOf(c)
        /\ \A i \in counted + 1 .. Len(disk) + Len(pipe) : Stream(disk, pipe)[i] = <<c, i - counted>>
  BY DEF TallyInv, Recording, File!Count
<1>2. /\ DoneCells \subseteq command.cells /\ counted = RowsPerCell * Cardinality(DoneCells)
  BY DEF TallyInv, Recording
<1>3. /\ pipe = <<>> /\ appended = Len(lines) /\ counted' = counted + Len(lines)
      /\ writer' = "open" /\ lines' = lines /\ pipe' = pipe /\ disk' = disk
  BY DEF File!Count, File!Flushed
<1>4. PICK d \in MeasuredCells : WritingInv(d, Len(disk) + Len(pipe))
  BY DEF FileInv, File!Count
<1>5. Len(lines) = RowsPerCell
  BY <1>4, RowsKnown, RowsOfType DEF WritingInv, Rows
<1>6. RowsPerCell \in Nat /\ RowsPerCell > 0 /\ counted \in Nat /\ Len(disk) \in Nat /\ Len(pipe) = 0
  BY <1>3, StreamType, BoundsAssumption
<1>7. counted' = Len(disk) /\ counted' = counted + RowsPerCell
  BY <1>3, <1>4, <1>5, <1>6 DEF WritingInv
<1>8. \A i \in counted + 1 .. counted' : disk[i][1] = c
  BY <1>1, <1>6, <1>7, StreamType
<1>9. DoneCells' = DoneCells \cup {c}
  <2>1. DoneCells' = {disk[i][1] : i \in 1 .. counted'}
    BY <1>3 DEF DoneCells
  <2>2. ASSUME NEW i \in 1 .. counted' PROVE disk[i][1] \in DoneCells \cup {c}
    <3>1. CASE i <= counted
      BY <1>6, <1>7, <3>1 DEF DoneCells
    <3>2. CASE i > counted
      BY <1>6, <1>7, <1>8, <3>2
    <3>3. QED
      BY <1>6, <1>7, <3>1, <3>2
  <2>3. ASSUME NEW x \in DoneCells \cup {c} PROVE \E i \in 1 .. counted' : disk[i][1] = x
    <3>1. CASE x \in DoneCells
      <4>1. PICK i \in 1 .. counted : x = disk[i][1]
        BY <3>1 DEF DoneCells
      <4>2. i \in 1 .. counted'
        BY <1>6, <1>7
      <4>3. QED
        BY <4>1, <4>2
    <3>2. CASE x = c
      <4>1. counted' \in 1 .. counted' /\ counted' \in counted + 1 .. counted'
        BY <1>6, <1>7
      <4>2. QED
        BY <1>8, <3>2, <4>1
    <3>3. QED
      BY <3>1, <3>2
  <2>4. QED
    BY <2>1, <2>2, <2>3
<1>10. IsFiniteSet(DoneCells) /\ Cardinality(DoneCells) \in Nat
  BY <1>2, CommandFinite, FS_Subset, FS_CardinalityType
<1>11. Cardinality(DoneCells \cup {c}) = Cardinality(DoneCells) + 1
  BY <1>1, <1>10, FS_AddElement
<1>12. \A k \in Nat : RowsPerCell * (k + 1) = RowsPerCell * k + RowsPerCell
  BY <1>6
<1>13. counted' = RowsPerCell * Cardinality(DoneCells')
  BY <1>2, <1>7, <1>9, <1>10, <1>11, <1>12
<1>14. DoneCells' \subseteq command.cells
  BY <1>1, <1>2, <1>9
<1>15. QED
  BY <1>3, <1>13, <1>14 DEF TallyInv

\* A write that fails leaves a cell out, and a run that fails leaves some cell out.
LEMMA FailingTally ==
  ASSUME FileInv, TallyInv, WriteErrs \/ CellFails
  PROVE  TallyInv'
<1>1. /\ step = "measure" /\ step' = "failing" /\ command' = command
      /\ disk' = disk /\ counted' = counted /\ writer' \in {"failed", "open"}
  BY DEF WriteErrs, CellFails, GoTo, File!WriteFails, fileVars
<1>2. /\ DoneCells \subseteq command.cells /\ counted = RowsPerCell * Cardinality(DoneCells)
  BY <1>1 DEF TallyInv, Recording
<1>3. DoneCells # command.cells
  <2>1. CASE WriteErrs
    BY <1>1, <2>1 DEF TallyInv, Recording, WriteErrs, File!WriteFails
  <2>2. CASE CellFails
    <3>1. PICK c \in command.cells : ~File!Written(c)
      BY <2>2 DEF CellFails
    <3>2. counted = Len(disk) /\ disk \in Seq(File!AllRows)
      BY <2>2 DEF CellFails, FileInv, File!TypeOK
    <3>3. c \notin DoneCells
      BY <3>1, <3>2 DEF DoneCells, File!Written
    <3>4. QED
      BY <3>3
  <2>3. QED
    BY <2>1, <2>2
<1>4. DoneCells' = DoneCells
  BY <1>1 DEF DoneCells
<1>5. QED
  BY <1>1, <1>2, <1>3, <1>4 DEF TallyInv

\* A run is done when all its cells are counted.
LEMMA DoneTally ==
  ASSUME FileInv, TallyInv, RunDone
  PROVE  TallyInv'
<1>1. /\ step = "measure" /\ step' = "done" /\ command' = command /\ AllWritten
      /\ disk' = disk /\ counted' = counted /\ writer' = writer /\ writer = "open"
  BY DEF RunDone, GoTo, fileVars, AllWritten
<1>2. /\ DoneCells \subseteq command.cells /\ counted = RowsPerCell * Cardinality(DoneCells)
  BY <1>1 DEF TallyInv, Recording
<1>3. counted = Len(disk) /\ disk \in Seq(File!AllRows)
  BY <1>1 DEF FileInv, File!TypeOK
<1>4. ASSUME NEW c \in command.cells PROVE c \in DoneCells
  <2>1. PICK i \in DOMAIN disk : disk[i][1] = c
    BY <1>1 DEF AllWritten, File!Written
  <2>2. i \in 1 .. counted
    BY <1>3
  <2>3. QED
    BY <2>1, <2>2 DEF DoneCells
<1>5. DoneCells' = DoneCells
  BY <1>1 DEF DoneCells
<1>6. QED
  BY <1>1, <1>2, <1>4, <1>5 DEF TallyInv

\* Every step keeps the tally.
LEMMA StepTally ==
  ASSUME CommandInv, NamesInv, FileInv, TallyInv, [Next]_vars
  PROVE  TallyInv'
<1>1. CASE step' \notin Recording
  BY <1>1 DEF TallyInv
<1>2. CASE OpenResults \/ WriteCell \/ WriteErrs \/ CellFails \/ RunDone
  BY <1>2, OpenTally, WriteCellTally, FailingTally, DoneTally
<1>3. CASE WriteStep
  <2>1. step = "measure" /\ step' = step /\ command' = command
    BY <1>3 DEF WriteStep, control
  <2>2. QED
    BY <1>3, <2>1, AppendRowTally, SpillTally, CountTally DEF WriteStep
<1>4. CASE \/ StartBuild \/ StartRun \/ StartProbe \/ BeginBuild \/ TaskSucceeds \/ TaskFails
           \/ BuildEnds \/ Load \/ Deploy \/ CheckMissing \/ BeginRun \/ EndRun \/ ProbeEnds
           \/ Teardown \/ ScalingKilled \/ Kill
  <2>1. step' \notin Recording
    BY <1>4 DEF StartBuild, StartRun, StartProbe, Start, BeginBuild, TaskSucceeds, TaskFails,
       BuildEnds, Load, Deploy, CheckMissing, BeginRun, EndRun, ProbeEnds, Teardown, ScalingKilled,
       Kill, End, GoTo, Recording
  <2>2. QED
    BY <1>1, <2>1
<1>5. CASE Edit \/ UNCHANGED vars
  BY <1>1, <1>5, SameTally DEF Edit, vars, control
<1>6. QED
  BY <1>2, <1>3, <1>4, <1>5 DEF Next

-----------------------------------------------------------------------------

\* A step that leaves the meta alone, and that does not say that the run completed.
LEMMA SameMeta ==
  ASSUME MetaInv, meta' = meta, step # "idle", step' = "idle" => last' # "ran",
         step' \in Recording \cup {"open"} => step \in Recording \cup {"open"} /\ command' = command
  PROVE  MetaInv'
<1>1. meta'.status \notin {"ok", "failed"}
  BY DEF MetaInv
<1>2. DatasetTruthful'
  BY <1>1 DEF DatasetTruthful
<1>3. QED
  BY <1>1, <1>2 DEF MetaInv, Recording

\* A meta that says nothing, or that cannot be read.
LEMMA EmptyMeta ==
  ASSUME meta' \in {NoMeta, Unreadable}, step' \notin Recording \cup {"open"},
         step' = "idle" => last' # "ran"
  PROVE  MetaInv'
<1>1. meta'.status \notin {"ok", "failed"}
  BY MetaFields
<1>2. DatasetTruthful'
  BY <1>1 DEF DatasetTruthful
<1>3. QED
  BY <1>1, <1>2 DEF MetaInv, Recording

\* The meta that is written first says that the run is running, and of how many rows.
LEMMA BeginRunMeta ==
  ASSUME MetaInv, BeginRun
  PROVE  MetaInv'
<1>1. CASE step' = "open"
  <2>1. /\ meta' = [NoMeta EXCEPT !.status = "running", !.planned = RowsPerCell * Cardinality(command.cells)]
        /\ command' = command
    BY <1>1 DEF BeginRun, GoTo, End
  <2> DEFINE p == RowsPerCell * Cardinality(command.cells)
  <2>2. "recorded" \in DOMAIN meta' /\ meta'.status = "running" /\ meta'.planned = p
    <3>1. meta' = [NoMeta EXCEPT !.status = "running", !.planned = p]
      BY <2>1
    <3> HIDE DEF p
    <3>2. QED
      BY <3>1 DEF NoMeta
  <2>3. DatasetTruthful'
    BY <1>1 DEF DatasetTruthful
  <2>4. QED
    BY <2>1, <2>2, <2>3 DEF MetaInv
<1>2. CASE step' # "open"
  <2>1. meta' \in {NoMeta, Unreadable} /\ step' = "idle" /\ last' = "failed"
    BY <1>2 DEF BeginRun, GoTo, End
  <2>2. QED
    BY <2>1, EmptyMeta DEF Recording
<1>3. QED
  BY <1>1, <1>2

\* The meta that is written last has the rows that are counted: all those planned if the
\* run is done, and they are then all that is in the file; fewer if it is not.
LEMMA StampedMeta ==
  ASSUME NamesInv, RestInv, FileInv, FileInv', TallyInv, MetaInv, EndRun,
         meta' = Stamped(Status), last' = Outcome, step' = "idle"
  PROVE  MetaInv'
<1>1. /\ step \in {"done", "failing"} /\ File!Close
      /\ meta' = [meta EXCEPT !.status = Status, !.recorded = counted]
  BY DEF EndRun, Stamped
<1>2. /\ "recorded" \in DOMAIN meta /\ meta.status = "running"
      /\ meta.planned = RowsPerCell * Cardinality(command.cells)
  BY <1>1 DEF MetaInv, Recording
<1>3. meta'.recorded = counted /\ meta'.planned = meta.planned /\ meta'.status = Status
  BY <1>1, <1>2 DEF RestInv
<1>4. /\ DoneCells \subseteq command.cells /\ counted = RowsPerCell * Cardinality(DoneCells)
  BY <1>1 DEF TallyInv, Recording
<1>5. counted' = counted
  BY <1>1 DEF File!Close
<1>6. CASE step = "done"
  <2>1. writer = "open" /\ DoneCells = command.cells
    BY <1>6 DEF TallyInv, Recording
  <2>2. pipe = <<>> /\ counted = Len(disk)
    BY <2>1 DEF FileInv
  <2>3. disk' = disk
    <3>1. PICK n \in 0 .. Len(pipe) : disk' = disk \o SubSeq(pipe, 1, n)
      BY <1>1 DEF File!Close
    <3>2. n = 0
      BY <2>2
    <3>3. disk \in Seq(File!AllRows)
      BY StreamType
    <3>4. QED
      BY <2>2, <3>1, <3>2, <3>3
  <2>4. meta'.recorded = meta'.planned /\ Len(disk') = meta'.planned
    BY <1>2, <1>3, <1>4, <2>1, <2>2, <2>3
  <2>5. meta'.status = "ok"
    BY <1>3, <1>6 DEF Status
  <2>6. QED
    BY <2>4, <2>5 DEF MetaInv, DatasetTruthful, Recording
<1>7. CASE step = "failing"
  <2>1. DoneCells # command.cells
    BY <1>7 DEF TallyInv, Recording
  <2>2. meta'.recorded < meta'.planned
    BY <1>2, <1>3, <1>4, <2>1, CommandFinite, FewerRows
  <2>3. meta'.recorded <= Len(disk')
    BY <1>3, <1>5 DEF FileInv, File!CountedIsOnDisk
  <2>4. meta'.status # "ok" /\ last' # "ran"
    BY <1>2, <1>3, <1>7 DEF Status, Outcome
  <2>5. QED
    BY <2>2, <2>3, <2>4, step' = "idle" DEF MetaInv, DatasetTruthful, Recording
<1>8. QED
  BY <1>1, <1>6, <1>7

\* Every step keeps the meta true.
LEMMA StepMeta ==
  ASSUME CommandInv, NamesInv, RestInv, FileInv, FileInv', TallyInv, MetaInv, [Next]_vars
  PROVE  MetaInv'
<1>1. CASE StartBuild \/ StartRun \/ StartProbe
  <2>1. meta' = NoMeta /\ step' = "selected"
    BY <1>1 DEF StartBuild, StartRun, StartProbe, Start, Forget
  <2>2. QED
    BY <2>1, EmptyMeta DEF Recording
<1>2. CASE Teardown \/ ScalingKilled
  <2>1. meta' = NoMeta /\ step' = "idle" /\ last' # "ran"
    BY <1>2 DEF Teardown, ScalingKilled, Forget
  <2>2. QED
    BY <2>1, EmptyMeta DEF Recording
<1>3. CASE BeginBuild \/ TaskSucceeds \/ TaskFails \/ BuildEnds \/ Load \/ Deploy \/ CheckMissing
           \/ ProbeEnds \/ Kill
  <2>1. meta' = meta /\ step # "idle" /\ (step' = "idle" => last' # "ran")
    BY <1>3 DEF BeginBuild, TaskSucceeds, TaskFails, BuildEnds, Load, Deploy, CheckMissing, ProbeEnds,
       Kill, End, GoTo, CommandInv
  <2>2. step' \notin Recording \cup {"open"}
    BY <1>3 DEF BeginBuild, TaskSucceeds, TaskFails, BuildEnds, Load, Deploy, CheckMissing, ProbeEnds,
       Kill, End, GoTo, Recording
  <2>3. QED
    BY <2>1, <2>2, SameMeta
<1>4. CASE OpenResults \/ WriteCell \/ WriteStep \/ WriteErrs \/ CellFails \/ RunDone
  <2>1. /\ meta' = meta /\ step \in Recording \cup {"open"}
        /\ \/ step' = "idle" /\ last' # "ran"
           \/ step' # "idle" /\ command' = command
    BY <1>4 DEF OpenResults, WriteCell, WriteStep, WriteErrs, CellFails, RunDone, End, GoTo, control,
       Recording
  <2>2. step # "idle"
    BY <2>1 DEF Recording
  <2>3. QED
    BY <2>1, <2>2, SameMeta DEF Recording
<1>5. CASE BeginRun
  BY <1>5, BeginRunMeta
<1>6. CASE EndRun
  <2>1. step \in {"done", "failing"} /\ step' = "idle"
    BY <1>6 DEF EndRun, End
  <2>2. CASE meta' = Stamped(Status) /\ last' = Outcome
    BY <1>6, <2>1, <2>2, StampedMeta
  <2>3. CASE meta' = meta /\ last' = "failed"
    BY <2>1, <2>3, SameMeta DEF Recording
  <2>4. CASE meta' = Unreadable /\ last' = "failed"
    BY <2>1, <2>4, EmptyMeta DEF Recording
  <2>5. QED
    BY <1>6, <2>2, <2>3, <2>4 DEF EndRun, End
<1>7. CASE Edit \/ UNCHANGED vars
  <2>1. /\ meta' = meta /\ step' = step /\ command' = command /\ last' = last /\ disk' = disk
    BY <1>7 DEF Edit, vars, control, fileVars
  <2>2. QED
    BY <2>1 DEF MetaInv, DatasetTruthful, Recording
<1>8. QED
  BY <1>1, <1>2, <1>3, <1>4, <1>5, <1>6, <1>7 DEF Next

-----------------------------------------------------------------------------
(* What the filters select.                                                *)

\* Every diagnostic has its baseline with it, and as many invocations.
JitterSafe(cells) ==
  \A c \in cells : c.jitter = "on" =>
    LET twin == [c EXCEPT !.jitter = "off"]
    IN /\ twin \in cells
       /\ \A profile \in {"full", "smoke"} : iterations(c, profile) = iterations(twin, profile)

\* A diagnostic's baseline is a cell, which every filter selects with it.
LEMMA TwinFacts ==
  ASSUME NEW c \in all_cells, c.jitter = "on", NEW twin, twin = [c EXCEPT !.jitter = "off"]
  PROVE  /\ twin \in all_cells
         /\ twin.lang = c.lang /\ twin.scenario = c.scenario /\ twin.memory_mb = c.memory_mb
         /\ twin.arch = c.arch
         /\ \A profile : iterations(c, profile) = iterations(twin, profile)
<1>1. /\ c \in Cell /\ supports(c.lang, c.scenario)
      /\ [opt |-> c.opt, snapstart |-> c.snapstart, jitter |-> c.jitter] \in Variants(c.lang, c.scenario)
      /\ c.memory_mb >= min_memory_mb(c.scenario, c.lang, c.snapstart)
  BY DEF all_cells
<1>2. /\ twin \in Cell /\ twin.jitter = "off"
      /\ twin.lang = c.lang /\ twin.scenario = c.scenario /\ twin.memory_mb = c.memory_mb
      /\ twin.arch = c.arch /\ twin.opt = c.opt /\ twin.snapstart = c.snapstart
  BY <1>1 DEF Cell
<1>3. c.lang = "rust" /\ c.opt = "o3" /\ c.snapstart = FALSE
  <2>1. c.lang = "rust"
    BY CellFacts
  <2>2. QED
    BY <1>1, <2>1 DEF Variants, Plain
<1>4. [opt |-> twin.opt, snapstart |-> twin.snapstart, jitter |-> twin.jitter]
        \in Variants(twin.lang, twin.scenario)
  <2>1. [opt |-> twin.opt, snapstart |-> twin.snapstart, jitter |-> twin.jitter]
          \in [opt : Opts, snapstart : {FALSE}, jitter : {"off"}]
    BY <1>2, <1>3 DEF Opts
  <2>2. [opt : Opts, snapstart : {FALSE}, jitter : {"off"}] \subseteq Variants("rust", twin.scenario)
    BY DEF Variants
  <2>3. QED
    BY <1>2, <1>3, <2>1, <2>2
<1>5. twin \in all_cells
  BY <1>1, <1>2, <1>4 DEF all_cells
<1>6. is_jitter_ab(c) <=> is_jitter_ab(twin)
  BY <1>2 DEF is_jitter_ab
<1>7. \A profile : iterations(c, profile) = iterations(twin, profile)
  BY <1>2, <1>6 DEF iterations
<1>8. QED
  BY <1>2, <1>5, <1>7

\* No filter separates the two.
LEMMA SelectionsJitterSafe ==
  /\ \A langs : JitterSafe(cells_for_langs(langs))
  /\ \A args : JitterSafe(select_cells(args))
<1>1. ASSUME NEW langs, NEW c \in cells_for_langs(langs), c.jitter = "on", NEW twin,
             twin = [c EXCEPT !.jitter = "off"]
      PROVE  /\ twin \in cells_for_langs(langs)
             /\ \A profile : iterations(c, profile) = iterations(twin, profile)
  BY <1>1, TwinFacts DEF cells_for_langs
<1>2. ASSUME NEW args, NEW c \in select_cells(args), c.jitter = "on", NEW twin,
             twin = [c EXCEPT !.jitter = "off"]
      PROVE  /\ twin \in select_cells(args)
             /\ \A profile : iterations(c, profile) = iterations(twin, profile)
  <2>1. c \in all_cells /\ c \in cells_for_langs(args.langs)
    BY DEF select_cells, cells_for_langs
  <2>2. twin \in cells_for_langs(args.langs)
    BY <1>1, <1>2, <2>1
  <2>3. QED
    BY <1>2, <2>1, <2>2, TwinFacts DEF select_cells
<1>3. QED
  BY <1>1, <1>2 DEF JitterSafe

\* A probe's targets are told apart by their language, scenario and memory tier.
TargetsApart(cells) ==
  /\ \A c \in cells : c.jitter # "on"
  /\ \A c, d \in cells :
       c # d => <<c.lang, c.scenario, c.memory_mb>> # <<d.lang, d.scenario, d.memory_mb>>

\* The plain cells of one arch are.
LEMMA ResolvedApart ==
  ASSUME NEW args
  PROVE  TargetsApart(resolve_targets(args))
<1>1. \A c \in resolve_targets(args) : c \in all_cells /\ c.arch = args.arch /\ Headline(c)
  BY DEF resolve_targets, Matching
<1>2. ASSUME NEW c \in resolve_targets(args), NEW d \in resolve_targets(args),
             c.lang = d.lang, c.scenario = d.scenario, c.memory_mb = d.memory_mb
      PROVE  c = d
  <2>1. /\ c \in all_cells /\ d \in all_cells /\ c.arch = d.arch
        /\ ~c.snapstart /\ c.jitter # "on" /\ (c.lang = "rust" => c.opt = "o3")
        /\ ~d.snapstart /\ d.jitter # "on" /\ (d.lang = "rust" => d.opt = "o3")
    BY <1>1 DEF Headline
  <2>2. c.snapstart = FALSE /\ d.snapstart = FALSE
    BY <2>1, CellFacts
  <2>3. c.opt = d.opt /\ c.jitter = d.jitter
    <3>1. CASE c.lang = "rust"
      BY <1>2, <2>1, <3>1, CellFacts
    <3>2. CASE c.lang # "rust"
      BY <1>2, <2>1, <3>2, CellFacts
    <3>3. QED
      BY <3>1, <3>2
  <2>4. QED
    BY <1>2, <2>1, <2>2, <2>3, CellFacts
<1>3. \A c \in resolve_targets(args) : c.jitter # "on"
  BY <1>1 DEF Headline
<1>4. QED
  BY <1>2, <1>3 DEF TargetsApart

\* The running command's cells are of a selection.
SelectedInv ==
  /\ command.kind # "probe" => JitterSafe(command.cells)
  /\ command.kind = "probe" => TargetsApart(command.cells)

\* Every step keeps that.
LEMMA StepSelected ==
  ASSUME SelectedInv, [Next]_vars
  PROVE  SelectedInv'
<1>1. CASE command' = command
  BY <1>1 DEF SelectedInv, JitterSafe, TargetsApart
<1>2. CASE command' = NoCommand
  BY <1>2 DEF NoCommand, SelectedInv, JitterSafe
<1>3. CASE StartRun
  <2>1. PICK r \in FirstRuns \cup LaterRuns : Start("run", r.cells, r.args)
    BY <1>3 DEF StartRun
  <2>2. \E args : r.cells = select_cells(args)
    BY DEF FirstRuns, LaterRuns, Runs, Selected
  <2>3. command'.kind = "run" /\ command'.cells = r.cells
    BY <2>1 DEF Start
  <2>4. JitterSafe(r.cells)
    BY <2>2, SelectionsJitterSafe
  <2>5. JitterSafe(command'.cells)
    BY <2>3, <2>4
  <2>6. QED
    BY <2>3, <2>5 DEF SelectedInv, JitterSafe
<1>4. CASE StartBuild
  <2>1. PICK langs \in BuildLangs :
          Start("build", cells_for_langs(langs), [skip_build |-> FALSE, skip_deploy |-> TRUE])
    BY <1>4 DEF StartBuild
  <2>2. command'.kind = "build" /\ command'.cells = cells_for_langs(langs)
    BY <2>1 DEF Start
  <2>3. JitterSafe(command'.cells)
    BY <2>2, SelectionsJitterSafe
  <2>4. QED
    BY <2>2, <2>3 DEF SelectedInv, JitterSafe
<1>5. CASE StartProbe
  <2>1. PICK p \in Probes : Start("probe", p.cells, [skip_build |-> TRUE, skip_deploy |-> TRUE])
    BY <1>5 DEF StartProbe
  <2>2. \E args : p.cells = resolve_targets(args)
    BY DEF Probes, Selected
  <2>3. command'.kind = "probe" /\ command'.cells = p.cells
    BY <2>1 DEF Start
  <2>4. TargetsApart(command'.cells)
    BY <2>2, <2>3, ResolvedApart
  <2>5. QED
    BY <2>3, <2>4 DEF SelectedInv, TargetsApart
<1>6. CASE ~(StartRun \/ StartBuild \/ StartProbe)
  <2>1. command' = command \/ command' = NoCommand
    BY <1>6 DEF Next, BeginBuild, TaskSucceeds, TaskFails, BuildEnds, Load, Deploy, CheckMissing,
       BeginRun, OpenResults, WriteCell, WriteStep, WriteErrs, CellFails, RunDone, EndRun, ProbeEnds,
       Teardown, ScalingKilled, Edit, Kill, End, GoTo, control, vars
  <2>2. QED
    BY <1>1, <1>2, <2>1
<1>7. QED
  BY <1>3, <1>4, <1>5, <1>6

\* And what runs with it is sound.
LEMMA SelectedInvGives ==
  ASSUME SelectedInv
  PROVE  JitterPairs /\ OneTargetPerRow
<1>1. CASE command.kind = "probe"
  BY <1>1 DEF SelectedInv, TargetsApart, JitterPairs, OneTargetPerRow
<1>2. CASE command.kind # "probe"
  BY <1>2 DEF SelectedInv, JitterSafe, JitterPairs, OneTargetPerRow
<1>3. QED
  BY <1>1, <1>2

-----------------------------------------------------------------------------
(* Sums.                                                                   *)

\* The summands are naturals; and the sum as the community modules' folds define it.
Natural(w, S) == \A x \in S : w[x] \in Nat
Pick(s) == CHOOSE x \in s : TRUE
Adds(w, S, g) ==
  g = [s \in SUBSET S |-> IF s = {} THEN 0 ELSE w[Pick(s)] + g[s \ {Pick(s)}]]
Adder(w, S, g) == g \in [SUBSET S -> Nat] /\ Adds(w, S, g)
Sum(w, S) == (CHOOSE g : Adds(w, S, g))[S]

\* A set of naturals has a smallest.
LEMMA Smallest ==
  ASSUME NEW T, T \subseteq Nat, T # {}
  PROVE \E x \in T : \A y \in T : x <= y
<1>1. PICK x \in T : \A y \in T : ~(<<y, x>> \in OpToRel(<, Nat))
  BY NatLessThanWellFounded, WFMin
<1>2. \A y \in T : ~(y < x)
  BY <1>1 DEF OpToRel
<1>3. QED
  BY <1>2

\* So a set that holds 0 and each next number holds them all,
LEMMA AllNaturals ==
  ASSUME NEW T, 0 \in T, \A n \in Nat : n \in T => n + 1 \in T
  PROVE \A n \in Nat : n \in T
<1>1. SUFFICES ASSUME NEW m \in Nat, m \notin T PROVE FALSE
  OBVIOUS
<1>2. PICK n \in Nat \ T : \A y \in Nat \ T : n <= y
  BY <1>1, Smallest
<1>3. n # 0 /\ n - 1 \in Nat
  BY <1>2
<1>4. n - 1 \in T
  BY <1>2, <1>3
<1>5. QED
  BY <1>2, <1>3, <1>4

\* Without one of its elements a finite set has one fewer.
LEMMA OneFewer ==
  ASSUME NEW s, IsFiniteSet(s), NEW y \in s, NEW n \in Nat, Cardinality(s) = n + 1
  PROVE  Cardinality(s \ {y}) = n
<1>1. Cardinality(s \ {y}) = Cardinality(s) - 1
  BY FS_RemoveElement
<1>2. QED
  BY <1>1

\* and a family that holds {} and grows by single elements holds every finite set.
LEMMA AllSubsets ==
  ASSUME NEW S, IsFiniteSet(S), NEW F, {} \in F,
         \A t \in SUBSET S : \A x \in S \ t : t \in F => t \cup {x} \in F
  PROVE S \in F
<1> DEFINE Sized == {n \in Nat : \A t \in SUBSET S : Cardinality(t) = n => t \in F}
<1>1. 0 \in Sized
  BY FS_Subset, FS_EmptySet
<1>2. ASSUME NEW n \in Nat, n \in Sized PROVE n + 1 \in Sized
  <2>1. SUFFICES ASSUME NEW t \in SUBSET S, Cardinality(t) = n + 1 PROVE t \in F
    OBVIOUS
  <2>2. IsFiniteSet(t)
    BY FS_Subset
  <2>3. PICK x \in t : TRUE
    BY <2>1, <2>2, FS_EmptySet
  <2>4. Cardinality(t \ {x}) = n
    BY <2>1, <2>2, <2>3, OneFewer
  <2>5. t \ {x} \in F
    BY <1>2, <2>4
  <2>6. (t \ {x}) \cup {x} \in F
    BY <2>3, <2>5
  <2>7. (t \ {x}) \cup {x} = t
    BY <2>3
  <2>8. QED
    BY <2>6, <2>7
<1>3. \A n \in Nat : n \in Sized
  <2> HIDE DEF Sized
  <2>1. QED
    BY <1>1, <1>2, AllNaturals
<1>4. Cardinality(S) \in Sized
  BY <1>3, FS_CardinalityType
<1>5. QED
  BY <1>4

\* The equation of a sum over the subsets of a finite set has a solution.
LEMMA AdderExists ==
  ASSUME NEW S, IsFiniteSet(S), NEW w, Natural(w, S)
  PROVE \E g : Adder(w, S, g)
<1> DEFINE Eqn(h, s) == h[s] = IF s = {} THEN 0 ELSE w[Pick(s)] + h[s \ {Pick(s)}]
           Upto == {n \in Nat : \E h \in [SUBSET S -> Nat] :
                       \A s \in SUBSET S : Cardinality(s) <= n => Eqn(h, s)}
<1>0. \A s \in SUBSET S : s # {} =>
         /\ Pick(s) \in s /\ w[Pick(s)] \in Nat /\ s \ {Pick(s)} \in SUBSET S
         /\ Cardinality(s) \in Nat \ {0} /\ Cardinality(s \ {Pick(s)}) = Cardinality(s) - 1
  <2>1. SUFFICES ASSUME NEW s \in SUBSET S, s # {}
                 PROVE  /\ Pick(s) \in s /\ w[Pick(s)] \in Nat /\ s \ {Pick(s)} \in SUBSET S
                        /\ Cardinality(s) \in Nat \ {0} /\ Cardinality(s \ {Pick(s)}) = Cardinality(s) - 1
    OBVIOUS
  <2>2. IsFiniteSet(s)
    BY FS_Subset
  <2>3. Pick(s) \in s
    BY <2>1 DEF Pick
  <2>4. Cardinality(s) \in Nat \ {0} 
    BY <2>1, <2>2, FS_CardinalityType, FS_EmptySet
  <2>5. Cardinality(s \ {Pick(s)}) = Cardinality(s) - 1
    BY <2>2, <2>3, FS_RemoveElement
  <2>6. QED
    BY <2>1, <2>3, <2>4, <2>5 DEF Natural
<1>1. 0 \in Upto
  <2>1. PICK h \in [SUBSET S -> Nat] : h = [s \in SUBSET S |-> 0]
    OBVIOUS
  <2>2. ASSUME NEW s \in SUBSET S, Cardinality(s) <= 0 PROVE s = {}
    <3>1. ~(Cardinality(s) \in Nat \ {0})
      BY <2>2
    <3>2. QED
      BY <1>0, <3>1
  <2>3. Eqn(h, {})
    BY <2>1
  <2>4. QED
    BY <2>1, <2>2, <2>3
<1>2. ASSUME NEW n \in Nat, n \in Upto PROVE n + 1 \in Upto
  <2>1. PICK h \in [SUBSET S -> Nat] : \A s \in SUBSET S : Cardinality(s) <= n => Eqn(h, s)
    BY <1>2
  <2>2. PICK k : k = [s \in SUBSET S |-> IF s = {} THEN 0 ELSE w[Pick(s)] + h[s \ {Pick(s)}]]
    OBVIOUS
  <2>3. k \in [SUBSET S -> Nat]
    <3>1. \A s \in SUBSET S : (IF s = {} THEN 0 ELSE w[Pick(s)] + h[s \ {Pick(s)}]) \in Nat
      <4>1. ASSUME NEW s \in SUBSET S, s # {}
            PROVE  w[Pick(s)] + h[s \ {Pick(s)}] \in Nat
        <5>1. w[Pick(s)] \in Nat /\ s \ {Pick(s)} \in SUBSET S
          BY <1>0, <4>1
        <5>2. h[s \ {Pick(s)}] \in Nat
          BY <2>1, <5>1
        <5>3. QED
          BY <5>1, <5>2
      <4>2. QED
        BY <4>1
    <3>2. QED
      BY <2>2, <3>1
  <2>4. ASSUME NEW s \in SUBSET S, Cardinality(s) <= n + 1, s # {} PROVE Eqn(k, s)
    <3>1. k[s] = w[Pick(s)] + h[s \ {Pick(s)}]
      BY <2>2, <2>4
    <3>2. Eqn(h, s \ {Pick(s)})
      <4>1. s \ {Pick(s)} \in SUBSET S /\ Cardinality(s \ {Pick(s)}) <= n
        BY <1>0, <2>4
      <4>2. QED
        BY <2>1, <4>1
    <3>3. k[s \ {Pick(s)}] = h[s \ {Pick(s)}]
      BY <1>0, <2>2, <2>4, <3>2
    <3>4. QED
      BY <2>4, <3>1, <3>3
  <2>5. Eqn(k, {})
    BY <2>2
  <2>6. \A s \in SUBSET S : Cardinality(s) <= n + 1 => Eqn(k, s)
    BY <2>4, <2>5
  <2>7. n + 1 \in Nat /\ \E h1 \in [SUBSET S -> Nat] :
            \A s \in SUBSET S : Cardinality(s) <= n + 1 => Eqn(h1, s)
    <3> HIDE DEF Eqn
    <3>1. QED
      BY <2>3, <2>6
  <2>8. QED
    BY <2>7
<1>3. Cardinality(S) \in Upto
  <2>1. Cardinality(S) \in Nat
    BY FS_CardinalityType
  <2> HIDE DEF Upto
  <2>2. QED
    BY <1>1, <1>2, <2>1, AllNaturals
<1>4. PICK g \in [SUBSET S -> Nat] : \A s \in SUBSET S : Cardinality(s) <= Cardinality(S) => Eqn(g, s)
  BY <1>3
<1>5. \A s \in SUBSET S : Eqn(g, s)
  BY <1>4, FS_Subset
<1>6. Adds(w, S, g)
  BY <1>4, <1>5 DEF Adds
<1>7. QED
  BY <1>4, <1>6 DEF Adder

\* Functions that add the same values agree.
LEMMA AddersAgree ==
  ASSUME NEW S, IsFiniteSet(S), NEW U, NEW V, S \subseteq U, S \subseteq V, NEW w, NEW v, \A x \in S : w[x] = v[x],
         NEW g, Adds(w, U, g), NEW h, Adds(v, V, h)
  PROVE \A s \in SUBSET S : g[s] = h[s]
<1> DEFINE Sized == {n \in Nat : \A s \in SUBSET S : Cardinality(s) = n => g[s] = h[s]}
<1>0. /\ \A s \in SUBSET S : g[s] = IF s = {} THEN 0 ELSE w[Pick(s)] + g[s \ {Pick(s)}]
      /\ \A s \in SUBSET S : h[s] = IF s = {} THEN 0 ELSE v[Pick(s)] + h[s \ {Pick(s)}]
  BY DEF Adds
<1>1. 0 \in Sized
  BY <1>0, FS_Subset, FS_EmptySet
<1>2. ASSUME NEW n \in Nat, n \in Sized PROVE n + 1 \in Sized
  <2>1. SUFFICES ASSUME NEW s \in SUBSET S, Cardinality(s) = n + 1 PROVE g[s] = h[s]
    OBVIOUS
  <2>2. IsFiniteSet(s)
    BY FS_Subset
  <2>3. Pick(s) \in s
    BY <2>1, <2>2, FS_EmptySet DEF Pick
  <2>4. Cardinality(s \ {Pick(s)}) = n
    BY <2>1, <2>2, <2>3, OneFewer
  <2>5. g[s \ {Pick(s)}] = h[s \ {Pick(s)}]
    BY <1>2, <2>4
  <2>6. w[Pick(s)] = v[Pick(s)]
    BY <2>3
  <2>7. QED
    BY <1>0, <2>3, <2>5, <2>6
<1>3. \A n \in Nat : n \in Sized
  <2> HIDE DEF Sized
  <2>1. QED
    BY <1>1, <1>2, AllNaturals
<1>4. ASSUME NEW s \in SUBSET S PROVE g[s] = h[s]
  <2>1. Cardinality(s) \in Sized
    BY <1>3, FS_Subset, FS_CardinalityType
  <2>2. QED
    BY <2>1
<1>5. QED
  BY <1>4

\* The sum does not depend on the order the fold takes the elements in.
LEMMA AdderAnyOrder ==
  ASSUME NEW S, IsFiniteSet(S), NEW w, Natural(w, S),
         NEW g, Adder(w, S, g), NEW r \in SUBSET S, NEW z \in r
  PROVE  g[r] = w[z] + g[r \ {z}]
<1> DEFINE Free(s) == \A y \in s : g[s] = w[y] + g[s \ {y}]
           Sized == {n \in Nat : \A s \in SUBSET S : Cardinality(s) = n => Free(s)}
<1>0. \A s \in SUBSET S : s # {} => g[s] = w[Pick(s)] + g[s \ {Pick(s)}]
  BY DEF Adder, Adds
<1>1. 0 \in Sized
  BY FS_Subset, FS_EmptySet
<1>2. ASSUME NEW n \in Nat, n \in Sized PROVE n + 1 \in Sized
  <2>1. SUFFICES ASSUME NEW s \in SUBSET S, Cardinality(s) = n + 1, NEW y \in s
                 PROVE g[s] = w[y] + g[s \ {y}]
    OBVIOUS
  <2>2. IsFiniteSet(s)
    BY FS_Subset
  <2>3. PICK p \in s : p = Pick(s)
    BY <2>1 DEF Pick
  <2>4. g[s] = w[p] + g[s \ {p}]
    BY <1>0, <2>1, <2>3
  <2>5. CASE y = p
    BY <2>4, <2>5
  <2>6. CASE y # p
    <3>1. Cardinality(s \ {p}) = n /\ Cardinality(s \ {y}) = n
      BY <2>1, <2>2, <2>3, OneFewer
    <3>2. Free(s \ {p}) /\ Free(s \ {y})
      BY <1>2, <3>1
    <3>3. g[s \ {p}] = w[y] + g[(s \ {p}) \ {y}]
      BY <2>1, <2>6, <3>2
    <3>4. g[s \ {y}] = w[p] + g[(s \ {y}) \ {p}]
      BY <2>3, <2>6, <3>2
    <3>5. (s \ {p}) \ {y} = (s \ {y}) \ {p}
      OBVIOUS
    <3>6. PICK a, b, c \in Nat : a = w[y] /\ b = w[p] /\ c = g[(s \ {y}) \ {p}]
      BY <2>1, <2>3 DEF Natural, Adder
    <3>7. g[s] = b + (a + c) /\ g[s \ {y}] = b + c
      BY <2>4, <3>3, <3>4, <3>5, <3>6
    <3>8. QED
      BY <3>6, <3>7
  <2>7. QED
    BY <2>5, <2>6
<1>3. \A n \in Nat : n \in Sized
  <2> HIDE DEF Sized
  <2>1. QED
    BY <1>1, <1>2, AllNaturals
<1>4. Cardinality(r) \in Sized
  BY <1>3, FS_Subset, FS_CardinalityType
<1>5. QED
  BY <1>4

\* One function gives the sums of all subsets.
LEMMA SumAdds ==
  ASSUME NEW S, IsFiniteSet(S), NEW w, Natural(w, S)
  PROVE \E g : Adder(w, S, g) /\ \A t \in SUBSET S : g[t] = Sum(w, t)
<1>1. PICK g : Adder(w, S, g)
  BY AdderExists
<1>2. ASSUME NEW t \in SUBSET S PROVE g[t] = Sum(w, t)
  <2>1. IsFiniteSet(t) /\ Natural(w, t)
    BY FS_Subset DEF Natural
  <2>2. \E h : Adds(w, t, h)
    BY <2>1, AdderExists DEF Adder
  <2>3. PICK h : h = (CHOOSE f : Adds(w, t, f))
    OBVIOUS
  <2>4. Adds(w, t, h)
    BY <2>2, <2>3
  <2>5. g[t] = h[t]
    BY <1>1, <2>1, <2>4, AddersAgree DEF Adder
  <2>6. QED
    BY <2>3, <2>5 DEF Sum
<1>3. QED
  BY <1>1, <1>2

\* A sum's empty case, and each of its elements taken out.
LEMMA SumLaws ==
  ASSUME NEW S, IsFiniteSet(S), NEW w, Natural(w, S)
  PROVE  /\ Sum(w, S) \in Nat
         /\ S = {} => Sum(w, S) = 0
         /\ \A y \in S : Sum(w, S) = w[y] + Sum(w, S \ {y})
<1>1. PICK g : Adder(w, S, g) /\ \A t \in SUBSET S : g[t] = Sum(w, t)
  BY SumAdds
<1>2. S = {} => g[S] = 0
  BY <1>1 DEF Adder, Adds
<1>3. \A y \in S : g[S] = w[y] + g[S \ {y}]
  <2>1. S \in SUBSET S
    OBVIOUS
  <2>2. QED
    BY <1>1, <2>1, AdderAnyOrder
<1>4. g[S] \in Nat
  BY <1>1 DEF Adder
<1>5. QED
  BY <1>1, <1>2, <1>3, <1>4

\* Equal summands, equal sums.
LEMMA SumSame ==
  ASSUME NEW S, IsFiniteSet(S), NEW w, NEW v, Natural(w, S), \A x \in S : w[x] = v[x]
  PROVE  Sum(w, S) = Sum(v, S)
<1>0. Natural(w, S) /\ Natural(v, S)
  BY DEF Natural
<1>1. PICK g : Adder(w, S, g) /\ \A t \in SUBSET S : g[t] = Sum(w, t)
  BY <1>0, SumAdds
<1>2. PICK h : Adder(v, S, h) /\ \A t \in SUBSET S : h[t] = Sum(v, t)
  BY <1>0, SumAdds
<1>3. g[S] = h[S]
  BY <1>1, <1>2, AddersAgree DEF Adder
<1>4. QED
  BY <1>1, <1>2, <1>3

\* One element more.
LEMMA SumMore ==
  ASSUME NEW S, IsFiniteSet(S), NEW w, NEW x, x \notin S, Natural(w, S \cup {x})
  PROVE  Sum(w, S \cup {x}) = w[x] + Sum(w, S)
<1>1. IsFiniteSet(S \cup {x})
  BY FS_AddElement
<1>2. Sum(w, S \cup {x}) = w[x] + Sum(w, (S \cup {x}) \ {x})
  BY <1>1, SumLaws
<1>3. (S \cup {x}) \ {x} = S
  OBVIOUS
<1>4. QED
  BY <1>2, <1>3

\* Equal parts.
LEMMA SumConstant ==
  ASSUME NEW S, IsFiniteSet(S), NEW w, NEW k \in Nat, \A x \in S : w[x] = k
  PROVE  Sum(w, S) = k * Cardinality(S)
<1> DEFINE F == {t \in SUBSET S : Sum(w, t) = k * Cardinality(t)}
<1>1. {} \in F
  <2>1. Sum(w, {}) = 0 /\ Cardinality({}) = 0
    BY SumLaws, FS_EmptySet DEF Natural
  <2>2. QED
    BY <2>1
<1>2. ASSUME NEW t \in SUBSET S, NEW x \in S \ t, t \in F PROVE t \cup {x} \in F
  <2>1. IsFiniteSet(t)
    BY FS_Subset
  <2>2. Sum(w, t \cup {x}) = w[x] + Sum(w, t)
    BY <2>1, SumMore DEF Natural
  <2>3. Cardinality(t \cup {x}) = Cardinality(t) + 1
    BY <2>1, FS_AddElement
  <2>4. PICK n \in Nat : n = Cardinality(t)
    BY <2>1, FS_CardinalityType
  <2>5. Sum(w, t \cup {x}) = k + k * n
    BY <1>2, <2>2, <2>4
  <2>6. k + k * n = k * (n + 1)
    OBVIOUS
  <2>7. QED
    BY <2>3, <2>4, <2>5, <2>6
<1>3. S \in F
  <2> HIDE DEF F
  <2>1. QED
    BY <1>1, <1>2, AllSubsets
<1>4. QED
  BY <1>3

\* One more at one place.
LEMMA SumBump ==
  ASSUME NEW K, IsFiniteSet(K), NEW v, NEW u, NEW a \in K, NEW d \in Nat,
         \A k \in K : v[k] \in Nat /\ u[k] = IF k = a THEN v[k] + d ELSE v[k]
  PROVE  Sum(u, K) = Sum(v, K) + d
<1>0. Natural(u, K) /\ Natural(v, K) /\ Natural(u, K \ {a}) /\ Natural(v, K \ {a})
  BY DEF Natural
<1>1. IsFiniteSet(K \ {a})
  BY FS_RemoveElement
<1>2. Sum(u, K) = u[a] + Sum(u, K \ {a}) /\ Sum(v, K) = v[a] + Sum(v, K \ {a})
  BY <1>0, SumLaws
<1>3. Sum(u, K \ {a}) = Sum(v, K \ {a}) /\ Sum(v, K \ {a}) \in Nat
  BY <1>0, <1>1, SumSame, SumLaws
<1>4. u[a] = v[a] + d /\ v[a] \in Nat
  OBVIOUS
<1>5. QED
  BY <1>2, <1>3, <1>4

\* The sum of the parts: f tells which part each element is in.
Part(S, f, k) == {x \in S : f[x] = k}
PartSums(w, S, f, K) == [k \in K |-> Sum(w, Part(S, f, k))]

LEMMA SumOfParts ==
  ASSUME NEW S, IsFiniteSet(S), NEW K, IsFiniteSet(K), NEW w, NEW f,
         Natural(w, S), \A x \in S : f[x] \in K
  PROVE  Sum(PartSums(w, S, f, K), K) = Sum(w, S)
<1> DEFINE F == {t \in SUBSET S : Sum(PartSums(w, t, f, K), K) = Sum(w, t)}
<1>0. ASSUME NEW t \in SUBSET S, NEW k \in K
      PROVE  IsFiniteSet(Part(t, f, k)) /\ PartSums(w, t, f, K)[k] = Sum(w, Part(t, f, k))
             /\ Sum(w, Part(t, f, k)) \in Nat
  <2>1. IsFiniteSet(t)
    BY FS_Subset
  <2>2. IsFiniteSet(Part(t, f, k)) /\ Part(t, f, k) \subseteq S
    BY <2>1, FS_Subset DEF Part
  <2>3. Sum(w, Part(t, f, k)) \in Nat
    <3>1. Natural(w, Part(t, f, k))
      BY <2>2 DEF Natural
    <3>2. QED
      BY <2>2, <3>1, SumLaws
  <2>4. QED
    BY <2>2, <2>3 DEF PartSums
<1>1. {} \in F
  <2>1. \A k \in K : PartSums(w, {}, f, K)[k] = 0
    <3>1. \A k \in K : Part({}, f, k) = {}
      BY DEF Part
    <3>2. Sum(w, {}) = 0
      BY SumLaws, FS_EmptySet DEF Natural
    <3>3. QED
      BY <3>1, <3>2 DEF PartSums
  <2>2. Sum(PartSums(w, {}, f, K), K) = 0 * Cardinality(K)
    BY <2>1, SumConstant
  <2>3. Cardinality(K) \in Nat
    BY FS_CardinalityType
  <2>4. Sum(w, {}) = 0
    BY SumLaws, FS_EmptySet DEF Natural
  <2>5. QED
    BY <2>2, <2>3, <2>4
<1>2. ASSUME NEW t \in SUBSET S, NEW x \in S \ t, t \in F PROVE t \cup {x} \in F
  <2>1. IsFiniteSet(t) /\ t \cup {x} \in SUBSET S
    BY FS_Subset
  <2>2. Sum(w, t \cup {x}) = w[x] + Sum(w, t)
    <3>1. Natural(w, t \cup {x})
      BY DEF Natural
    <3>2. QED
      BY <2>1, <3>1, SumMore
  <2>3. PICK v : v = PartSums(w, t, f, K)
    OBVIOUS
  <2>4. PICK u : u = PartSums(w, t \cup {x}, f, K)
    OBVIOUS
  <2>5. ASSUME NEW k \in K
        PROVE  v[k] \in Nat /\ u[k] = IF k = f[x] THEN v[k] + w[x] ELSE v[k]
    <3>1. v[k] = Sum(w, Part(t, f, k)) /\ u[k] = Sum(w, Part(t \cup {x}, f, k)) /\ v[k] \in Nat
      BY <1>0, <2>1, <2>3, <2>4
    <3>2. CASE k = f[x]
      <4>1. Part(t \cup {x}, f, k) = Part(t, f, k) \cup {x} /\ x \notin Part(t, f, k)
            /\ Part(t, f, k) \subseteq S
        BY <3>2 DEF Part
      <4>2. Sum(w, Part(t, f, k) \cup {x}) = w[x] + Sum(w, Part(t, f, k))
        <5>1. Natural(w, Part(t, f, k) \cup {x})
          BY <4>1 DEF Natural
        <5>2. QED
          BY <1>0, <4>1, <5>1, SumMore
      <4>3. w[x] \in Nat
        BY DEF Natural
      <4>4. PICK a, d \in Nat : a = v[k] /\ d = w[x] /\ u[k] = d + a
        BY <3>1, <4>1, <4>2, <4>3
      <4>5. QED
        BY <3>2, <4>4
    <3>3. CASE k # f[x]
      <4>1. Part(t \cup {x}, f, k) = Part(t, f, k)
        BY <3>3 DEF Part
      <4>2. QED
        BY <3>1, <3>3, <4>1
    <3>4. QED
      BY <3>2, <3>3
  <2>6. Sum(u, K) = Sum(v, K) + w[x]
    <3>1. PICK a \in K, d \in Nat : a = f[x] /\ d = w[x]
      BY DEF Natural
    <3>2. \A k \in K : v[k] \in Nat /\ u[k] = IF k = a THEN v[k] + d ELSE v[k]
      BY <2>5, <3>1
    <3>3. Sum(u, K) = Sum(v, K) + d
      BY <3>2, SumBump
    <3>4. QED
      BY <3>1, <3>3
  <2>7. Sum(v, K) = Sum(w, t)
    BY <1>2, <2>3
  <2>8. w[x] \in Nat /\ Sum(w, t) \in Nat
    <3>1. w[x] \in Nat /\ Natural(w, t)
      BY DEF Natural
    <3>2. QED
      BY <2>1, <3>1, SumLaws
  <2>9. Sum(u, K) = Sum(w, t \cup {x})
    BY <2>2, <2>6, <2>7, <2>8
  <2>10. QED
    BY <2>1, <2>4, <2>9
<1>3. S \in F
  <2> HIDE DEF F
  <2>1. QED
    BY <1>1, <1>2, AllSubsets
<1>4. QED
  BY <1>3

-----------------------------------------------------------------------------
(* The rows a run plans.                                                   *)

\* A completed cell records a natural number of rows.
LEMMA CellRowsNatural ==
  ASSUME NEW c \in all_cells, NEW profile
  PROVE  InvocationsOf(iterations(c, profile)) \in Nat
<1> DEFINE base == CASE profile = "smoke" -> SMOKE_COUNTS
                     [] profile = "full" /\ is_jitter_ab(c) -> FULL_LIGHT_COUNTS
                     [] OTHER -> full_base_counts(c.scenario, c.lang, c.memory_mb)
<1>1. full_base_counts(c.scenario, c.lang, c.memory_mb) \in [cold : Nat, warm : Nat]
  BY DEF full_base_counts, FULL_LIGHT_COUNTS
<1>2. base \in [cold : Nat, warm : Nat]
  BY <1>1 DEF SMOKE_COUNTS, FULL_LIGHT_COUNTS
<1>3. iterations(c, profile) \in [cold : Nat, warm : Nat]
  <2>1. iterations(c, profile) = [base EXCEPT !.cold =
             IF c.snapstart /\ @ > SNAPSTART_COLD_CYCLES THEN SNAPSTART_COLD_CYCLES ELSE @]
    BY Zenon DEF iterations
  <2> HIDE DEF base
  <2>2. QED
    BY <1>2, <2>1 DEF SNAPSTART_COLD_CYCLES
<1>4. PICK n \in [cold : Nat, warm : Nat] : n = iterations(c, profile)
  BY <1>3
<1>5. n.cold * (1 + n.warm) \in Nat
  OBVIOUS
<1>6. QED
  BY <1>4, <1>5 DEF InvocationsOf

\* How many rows each cell of the matrix records.
CellRows(profile) == [c \in all_cells |-> InvocationsOf(iterations(c, profile))]

\* Every subset of them can be summed.
LEMMA RowsNatural ==
  ASSUME NEW profile, NEW cells, cells \subseteq all_cells
  PROVE  Natural(CellRows(profile), cells)
  BY CellRowsNatural DEF Natural, CellRows

\* The model's three sums, by the names of their functions.
LEMMA PlannedIs ==
  ASSUME NEW cells, NEW profile
  PROVE  planned(cells, profile)
           = Sum([b \in iteration_buckets(cells, profile) |-> b.invocations],
                 iteration_buckets(cells, profile))
<1> DEFINE S == iteration_buckets(cells, profile)
           w == [b \in S |-> b.invocations]
           Fold(g) == [s \in SUBSET S |->
                          IF s = {} THEN 0 ELSE Pick(s).invocations + g[s \ {Pick(s)}]]
<1>1. planned(cells, profile) = (CHOOSE g : g = Fold(g))[S]
  BY Zenon DEF planned, MapThenSumSet, MapThenFoldSet, Pick
<1>2. ASSUME NEW g PROVE Adds(w, S, g) <=> g = Fold(g)
  <2>1. ASSUME NEW s \in SUBSET S, s # {} PROVE w[Pick(s)] = Pick(s).invocations
    <3>1. Pick(s) \in S
      BY <2>1 DEF Pick
    <3> HIDE DEF S
    <3>2. QED
      BY <3>1
  <2> HIDE DEF w, S
  <2>2. [s \in SUBSET S |-> IF s = {} THEN 0 ELSE w[Pick(s)] + g[s \ {Pick(s)}]] = Fold(g)
    BY <2>1, Zenon
  <2>3. QED
    BY <2>2, Zenon DEF Adds
<1> HIDE DEF w, S, Fold
<1>3. (CHOOSE g : Adds(w, S, g)) = (CHOOSE g : g = Fold(g))
  BY <1>2, Zenon
<1>4. QED
  BY <1>1, <1>3, Zenon DEF Sum, w, S

ScenarioCells(cells, s) == {c \in cells : c.scenario = s}
ScenarioRows(cells, profile, s) ==
  MapThenSumSet(LAMBDA c : InvocationsOf(iterations(c, profile)), ScenarioCells(cells, s))

LEMMA ScenarioRowsIs ==
  ASSUME NEW cells, cells \subseteq all_cells, NEW profile, NEW k
  PROVE  ScenarioRows(cells, profile, k) = Sum(CellRows(profile), ScenarioCells(cells, k))
<1> DEFINE S == ScenarioCells(cells, k)
           w == CellRows(profile)
           Fold(g) == [s \in SUBSET S |-> IF s = {} THEN 0
                          ELSE InvocationsOf(iterations(Pick(s), profile)) + g[s \ {Pick(s)}]]
<1>0. S \subseteq all_cells
  BY DEF ScenarioCells
<1>1. ScenarioRows(cells, profile, k) = (CHOOSE g : g = Fold(g))[S]
  BY Zenon DEF ScenarioRows, MapThenSumSet, MapThenFoldSet, Pick
<1>2. ASSUME NEW g PROVE Adds(w, S, g) <=> g = Fold(g)
  <2>1. ASSUME NEW s \in SUBSET S, s # {}
        PROVE  w[Pick(s)] = InvocationsOf(iterations(Pick(s), profile))
    <3>1. Pick(s) \in all_cells
      BY <1>0, <2>1 DEF Pick
    <3>2. QED
      BY <3>1 DEF CellRows
  <2> HIDE DEF w, S
  <2>2. [s \in SUBSET S |-> IF s = {} THEN 0 ELSE w[Pick(s)] + g[s \ {Pick(s)}]] = Fold(g)
    BY <2>1, Zenon
  <2>3. QED
    BY <2>2, Zenon DEF Adds
<1> HIDE DEF w, S, Fold
<1>3. (CHOOSE g : Adds(w, S, g)) = (CHOOSE g : g = Fold(g))
  BY <1>2, Zenon
<1>4. QED
  BY <1>1, <1>3, Zenon DEF Sum, w, S

AllScenarioRows(cells, profile) ==
  MapThenSumSet(LAMBDA s : ScenarioRows(cells, profile, s), Scenarios)

LEMMA AllScenarioRowsIs ==
  ASSUME NEW cells, cells \subseteq all_cells, NEW profile
  PROVE  AllScenarioRows(cells, profile)
           = Sum([s \in Scenarios |-> Sum(CellRows(profile), ScenarioCells(cells, s))], Scenarios)
<1> DEFINE S == Scenarios
           w == [s \in Scenarios |-> Sum(CellRows(profile), ScenarioCells(cells, s))]
           Fold(g) == [s \in SUBSET S |-> IF s = {} THEN 0
                          ELSE ScenarioRows(cells, profile, Pick(s)) + g[s \ {Pick(s)}]]
<1>1. AllScenarioRows(cells, profile) = (CHOOSE g : g = Fold(g))[S]
  BY Zenon DEF AllScenarioRows, MapThenSumSet, MapThenFoldSet, Pick
<1>2. ASSUME NEW g PROVE Adds(w, S, g) <=> g = Fold(g)
  <2>1. ASSUME NEW s \in SUBSET S, s # {}
        PROVE  w[Pick(s)] = ScenarioRows(cells, profile, Pick(s))
    <3>1. Pick(s) \in Scenarios
      BY <2>1 DEF Pick
    <3>2. ScenarioRows(cells, profile, Pick(s))
            = Sum(CellRows(profile), ScenarioCells(cells, Pick(s)))
      BY ScenarioRowsIs
    <3>3. QED
      BY <3>1, <3>2
  <2> HIDE DEF w, S
  <2>2. [s \in SUBSET S |-> IF s = {} THEN 0 ELSE w[Pick(s)] + g[s \ {Pick(s)}]] = Fold(g)
    BY <2>1, Zenon
  <2>3. QED
    BY <2>2, Zenon DEF Adds
<1> HIDE DEF w, S, Fold
<1>3. (CHOOSE g : Adds(w, S, g)) = (CHOOSE g : g = Fold(g))
  BY <1>2, Zenon
<1>4. QED
  BY <1>1, <1>3, Zenon DEF Sum, w, S

\* The scenarios' rows add up to the cells'.
LEMMA ScenariosAddUp ==
  ASSUME NEW cells, cells \subseteq all_cells, NEW profile
  PROVE  AllScenarioRows(cells, profile) = Sum(CellRows(profile), cells)
<1> DEFINE f == [c \in cells |-> c.scenario]
           w == CellRows(profile)
           v == [s \in Scenarios |-> Sum(w, ScenarioCells(cells, s))]
<1>1. IsFiniteSet(cells) /\ IsFiniteSet(Scenarios) /\ Natural(w, cells)
  BY CellsFinite, AxesFinite, RowsNatural, FS_Subset
<1>2. \A c \in cells : f[c] \in Scenarios
  BY CellFacts DEF Cell
<1>3. PartSums(w, cells, f, Scenarios) = v
  <2>1. \A s : Part(cells, f, s) = ScenarioCells(cells, s)
    BY DEF Part, ScenarioCells
  <2> HIDE DEF f, w
  <2>2. QED
    BY <2>1, Zenon DEF PartSums
<1>4. AllScenarioRows(cells, profile) = Sum(v, Scenarios)
  BY AllScenarioRowsIs
<1>5. Sum(PartSums(w, cells, f, Scenarios), Scenarios) = Sum(w, cells)
  <2> HIDE DEF f, w
  <2>1. QED
    BY <1>1, <1>2, SumOfParts
<1>6. QED
  BY <1>3, <1>4, <1>5

\* So do the buckets'.
LEMMA BucketsAddUp ==
  ASSUME NEW cells, cells \subseteq all_cells, NEW profile
  PROVE  planned(cells, profile) = Sum(CellRows(profile), cells)
<1> DEFINE Bucket(n) == [counts |-> n, invocations |-> BucketInvocations(cells, n, profile)]
           f == [c \in cells |-> Bucket(iterations(c, profile))]
           w == CellRows(profile)
           K == iteration_buckets(cells, profile)
           v == [b \in K |-> b.invocations]
<1>1. K = {f[c] : c \in cells}
  <2>1. K = {Bucket(n) : n \in {iterations(c, profile) : c \in cells}}
    BY Zenon DEF iteration_buckets
  <2> HIDE DEF Bucket, K
  <2>2. QED
    BY <2>1
<1>2. IsFiniteSet(cells) /\ Natural(w, cells)
  BY CellsFinite, RowsNatural, FS_Subset
<1>3. IsFiniteSet(K)
  <2>1. \A b \in K : \E c \in cells : f[c] = b
    BY <1>1
  <2>2. f \in [cells -> K]
    <3> HIDE DEF K, Bucket
    <3>1. QED
      BY <1>1
  <2> HIDE DEF f, K
  <2>3. f \in Surjection(cells, K)
    BY <2>1, <2>2, Fun_IsSurj
  <2>4. QED
    BY <1>2, <2>3, FS_Surjection
<1>4. ASSUME NEW b \in K PROVE PartSums(w, cells, f, K)[b] = v[b]
  <2>1. PICK c \in cells : b = f[c]
    BY <1>1
  <2>2. PICK n : n = iterations(c, profile)
    OBVIOUS
  <2>3. b = Bucket(n)
    BY <2>1, <2>2
  <2>4. Part(cells, f, b) = {d \in cells : iterations(d, profile) = n}
    <3>1. \A m : Bucket(m) = Bucket(n) => m = n
      BY SMT
    <3>2. \A d \in cells : f[d] = Bucket(iterations(d, profile))
      OBVIOUS
    <3> HIDE DEF Bucket, f
    <3>3. \A d \in cells : f[d] = b <=> iterations(d, profile) = n
      BY <2>3, <3>1, <3>2
    <3>4. QED
      BY <3>3 DEF Part
  <2>5. IsFiniteSet(Part(cells, f, b)) /\ Part(cells, f, b) \subseteq all_cells
    BY <1>2, FS_Subset DEF Part
  <2>6. \A d \in Part(cells, f, b) : w[d] = InvocationsOf(n)
    BY <2>4, <2>5 DEF CellRows
  <2>7. InvocationsOf(n) \in Nat
    BY <2>2, CellRowsNatural
  <2>8. Sum(w, Part(cells, f, b)) = InvocationsOf(n) * Cardinality(Part(cells, f, b))
    <3> HIDE DEF w, f
    <3>1. QED
      BY <2>5, <2>6, <2>7, SumConstant
  <2>9. b.invocations = InvocationsOf(n) * Cardinality(Part(cells, f, b))
    <3>1. b.invocations = BucketInvocations(cells, n, profile)
      BY <2>3
    <3>2. QED
      BY <2>4, <3>1, Zenon DEF BucketInvocations
  <2> HIDE DEF K, f, w
  <2>10. QED
    BY <2>8, <2>9 DEF PartSums
<1>5. PartSums(w, cells, f, K) = v
  <2> HIDE DEF K, f, w
  <2>1. QED
    BY <1>4 DEF PartSums
<1>6. Sum(PartSums(w, cells, f, K), K) = Sum(w, cells)
  <2>1. \A c \in cells : f[c] \in K
    BY <1>1
  <2> HIDE DEF K, f, w
  <2>2. QED
    BY <1>2, <1>3, <2>1, SumOfParts
<1>7. planned(cells, profile) = Sum(v, K)
  BY PlannedIs
<1>8. QED
  BY <1>5, <1>6, <1>7

\* Whatever a run selects, its planned rows are its scenarios'.
LEMMA PlannedAddUp ==
  ASSUME command.cells \subseteq all_cells
  PROVE  PlannedRows
<1> SUFFICES ASSUME NEW profile \in {"full", "smoke"}
             PROVE  LET rows(s) == MapThenSumSet(LAMBDA c : InvocationsOf(iterations(c, profile)),
                                                 {c \in command.cells : c.scenario = s})
                    IN planned(command.cells, profile) = MapThenSumSet(rows, Scenarios)
  BY Zenon DEF PlannedRows
<1>1. planned(command.cells, profile) = AllScenarioRows(command.cells, profile)
  BY BucketsAddUp, ScenariosAddUp
<1>2. QED
  BY <1>1, Zenon DEF AllScenarioRows, ScenarioRows, ScenarioCells

-----------------------------------------------------------------------------
(* What the file promises: the log of whole cells.                         *)

\* FiniteSets is the same where ResultsFile takes it.
LEMMA SameCardinality ==
  \A S : File!Cardinality(S) = Cardinality(S)
<1>1. \A S : File!IsFiniteSet(S) <=> IsFiniteSet(S)
  BY Zenon DEF File!IsFiniteSet, IsFiniteSet
<1>2. QED
  BY <1>1, Zenon DEF File!Cardinality, Cardinality

\* How many counted rows begin a cell.
Entries == Cardinality(File!Firsts)

\* There is a first row for each place in the log.
LogInv == \A n \in 1 .. Entries : \E i \in File!Firsts : File!Rank(i) = n

\* They are finitely many.
LEMMA FirstsFinite ==
  ASSUME counted \in Nat
  PROVE  /\ IsFiniteSet(File!Firsts) /\ Entries \in Nat
         /\ File!Firsts \subseteq 1 .. counted
<1>1. File!Firsts \subseteq 1 .. counted
  BY DEF File!Firsts
<1>2. IsFiniteSet(1 .. counted)
  BY FS_Interval
<1>3. IsFiniteSet(File!Firsts)
  BY <1>1, <1>2, FS_Subset
<1>4. QED
  BY <1>1, <1>3, FS_CardinalityType DEF Entries

\* The log is a sequence of cells that have a counted row.
LEMMA LogType ==
  ASSUME FileInv, LogInv
  PROVE  /\ File!Recorded \in Seq(DoneCells) /\ Len(File!Recorded) = Entries
         /\ Entries \in Nat
<1>1. counted \in Nat /\ Entries \in Nat /\ File!Firsts \subseteq 1 .. counted
  BY StreamType, FirstsFinite
<1>2. File!Recorded = [n \in 1 .. Entries |-> disk[File!First(n)][1]]
  BY SameCardinality DEF File!Recorded, Entries
<1>3. \A n \in 1 .. Entries : File!First(n) \in File!Firsts
  BY DEF LogInv, File!First
<1>4. \A n \in 1 .. Entries : disk[File!First(n)][1] \in DoneCells
  BY <1>1, <1>3 DEF DoneCells
<1>5. File!Recorded \in [1 .. Entries -> DoneCells]
  BY <1>2, <1>4
<1>6. QED
  BY <1>1, <1>5

\* Nothing is counted, and nothing is in the log.
LEMMA EmptyLog ==
  ASSUME counted = 0
  PROVE  File!Recorded = <<>> /\ LogInv
<1>1. File!Firsts = {}
  BY DEF File!Firsts
<1>2. Entries = 0
  BY <1>1, FS_EmptySet DEF Entries
<1>3. File!Recorded = <<>>
  <2>1. 1 .. File!Cardinality(File!Firsts) = {}
    BY <1>2, SameCardinality DEF Entries
  <2>2. QED
    BY <2>1 DEF File!Recorded
<1>4. QED
  BY <1>2, <1>3 DEF LogInv

\* Where what is counted stays, so does the log.
LEMMA SameLog ==
  ASSUME FileInv, LogInv, counted' = counted, \A i \in 1 .. counted : disk'[i] = disk[i]
  PROVE  File!Recorded' = File!Recorded /\ LogInv'
<1>1. counted \in Nat /\ Entries \in Nat /\ File!Firsts \subseteq 1 .. counted
  BY StreamType, FirstsFinite
<1>2. File!Firsts' = File!Firsts
  BY DEF File!Firsts
<1>3. Entries' = Entries
  BY <1>2 DEF Entries
<1>4. \A i : File!Rank(i)' = File!Rank(i)
  BY <1>2 DEF File!Rank
<1>5. LogInv'
  BY <1>2, <1>3, <1>4 DEF LogInv
<1>6. File!Recorded = [n \in 1 .. Entries |-> disk[File!First(n)][1]]
  BY SameCardinality DEF File!Recorded, Entries
<1>7. \A n : File!First(n)' = File!First(n)
  BY <1>2, <1>4 DEF File!First
<1>8. File!Recorded' = [n \in 1 .. Entries |-> disk'[File!First(n)][1]]
  BY <1>2, <1>7, SameCardinality DEF File!Recorded, Entries
<1>9. \A n \in 1 .. Entries : disk'[File!First(n)] = disk[File!First(n)]
  BY <1>1 DEF LogInv, File!First
<1>10. QED
  BY <1>5, <1>6, <1>8, <1>9

\* A row that is counted next, and is the only first one, is next in the log.
LEMMA NextFirst ==
  ASSUME FileInv, LogInv, counted' \in Nat, counted' > counted, NEW c,
         disk' = disk, disk[counted + 1] = <<c, 1>>,
         \A i \in counted + 2 .. counted' : disk[i][2] # 1
  PROVE  File!Recorded' = Append(File!Recorded, c) /\ LogInv'
<1> DEFINE F == File!Firsts
           m == counted + 1
           G == F \cup {m}
<1>1. counted \in Nat /\ Entries \in Nat /\ F \subseteq 1 .. counted /\ IsFiniteSet(F)
  BY StreamType, FirstsFinite
<1>2. File!Firsts' = G
  <2>1. disk[m][2] = 1
    OBVIOUS
  <2>2. ASSUME NEW i \in 1 .. counted', disk[i][2] = 1 PROVE i \in G
    <3>1. CASE i <= counted
      BY <1>1, <2>2, <3>1 DEF File!Firsts
    <3>2. CASE i > counted
      BY <1>1, <2>2, <3>2
    <3>3. QED
      BY <1>1, <3>1, <3>2
  <2>3. ASSUME NEW i \in G PROVE i \in 1 .. counted' /\ disk[i][2] = 1
    BY <1>1, <2>1 DEF File!Firsts
  <2>4. File!Firsts' = {i \in 1 .. counted' : disk[i][2] = 1}
    BY DEF File!Firsts
  <2> HIDE DEF G
  <2>5. QED
    BY <2>2, <2>3, <2>4
<1>3. m \notin F
  BY <1>1
<1>4. Entries' = Entries + 1
  <2>1. Cardinality(G) = Cardinality(F) + 1
    BY <1>1, <1>3, FS_AddElement
  <2>2. QED
    BY <1>2, <2>1 DEF Entries
<1> DEFINE Before(S, i) == Cardinality({j \in S : j <= i})
<1>5. \A i \in F : Before(G, i) = Before(F, i)
  <2>1. SUFFICES ASSUME NEW i \in F PROVE Before(G, i) = Before(F, i)
    OBVIOUS
  <2>2. {j \in G : j <= i} = {j \in F : j <= i}
    BY <1>1
  <2>3. QED
    BY <2>2
<1>6. Before(G, m) = Entries + 1
  <2>1. \A j \in G : j <= m
    BY <1>1
  <2>2. {j \in G : j <= m} = G
    BY <2>1
  <2>3. QED
    BY <1>2, <1>4, <2>2 DEF Entries
<1>7. \A i \in F : Before(F, i) <= Entries /\ Before(F, i) \in Nat
  <2>1. SUFFICES ASSUME NEW i \in F PROVE Before(F, i) <= Entries /\ Before(F, i) \in Nat
    OBVIOUS
  <2>2. {j \in F : j <= i} \subseteq F
    OBVIOUS
  <2>3. QED
    BY <1>1, <2>2, FS_Subset, FS_CardinalityType DEF Entries
<1>8. \A i : File!Rank(i) = Before(F, i) /\ File!Rank(i)' = Before(G, i)
  BY <1>2, SameCardinality DEF File!Rank
<1>9. \A n \in 1 .. Entries : \E i \in F : Before(F, i) = n
  BY <1>8 DEF LogInv
<1> HIDE DEF F, G, m, Before
<1>10. G = F \cup {m} /\ F = File!Firsts
  BY DEF F, G
<1>11. \A n \in 1 .. Entries : File!First(n)' = File!First(n)
  <2>1. SUFFICES ASSUME NEW n \in 1 .. Entries PROVE File!First(n)' = File!First(n)
    OBVIOUS
  <2>2. n # Entries + 1
    BY <1>1
  <2>3. \A i : (i \in G /\ Before(G, i) = n) <=> (i \in F /\ Before(F, i) = n)
    BY <1>5, <1>6, <1>10, <2>2
  <2>4. \A i : (i \in File!Firsts' /\ File!Rank(i)' = n) <=> (i \in File!Firsts /\ File!Rank(i) = n)
    BY <1>2, <1>8, <1>10, <2>3
  <2>5. QED
    BY <2>4, Zenon DEF File!First
<1>12. \A n : n = Entries + 1 => File!First(n)' = m
  <2>1. SUFFICES ASSUME NEW n, n = Entries + 1 PROVE File!First(n)' = m
    OBVIOUS
  <2>2. \A i \in G : Before(G, i) = n => i = m
    BY <1>1, <1>5, <1>7, <1>10, <2>1
  <2>3. \A i : (i \in File!Firsts' /\ File!Rank(i)' = n) <=> i = m
    BY <1>2, <1>6, <1>8, <1>10, <2>1, <2>2
  <2>4. QED
    BY <2>3 DEF File!First
<1>13. File!Recorded = [n \in 1 .. Entries |-> disk[File!First(n)][1]]
  BY SameCardinality DEF File!Recorded, Entries
<1>14. File!Recorded' = [n \in 1 .. Entries + 1 |-> disk[File!First(n)'][1]]
  BY <1>4, SameCardinality DEF File!Recorded, Entries
<1>15. \A n \in 1 .. Entries + 1 : n \in 1 .. Entries \/ n = Entries + 1
  BY <1>1
<1>16. File!Recorded' = [n \in 1 .. Entries + 1 |-> IF n = Entries + 1 THEN c ELSE File!Recorded[n]]
  <2>1. \A n \in 1 .. Entries + 1 : disk[File!First(n)'][1] = IF n = Entries + 1 THEN c ELSE File!Recorded[n]
    <3>1. SUFFICES ASSUME NEW n \in 1 .. Entries + 1
                   PROVE  disk[File!First(n)'][1] = IF n = Entries + 1 THEN c ELSE File!Recorded[n]
      OBVIOUS
    <3>2. CASE n = Entries + 1
      BY <1>12, <3>2 DEF m
    <3>3. CASE n # Entries + 1
      <4>1. n \in 1 .. Entries
        BY <1>15, <3>3
      <4>2. QED
        BY <1>11, <1>13, <3>3, <4>1
    <3>4. QED
      BY <3>2, <3>3
  <2>2. QED
    BY <1>14, <2>1
<1>17. File!Recorded' = Append(File!Recorded, c)
  <2> DEFINE R == File!Recorded
             A == Append(R, c)
  <2>1. R \in Seq(DoneCells \cup {c}) /\ Len(R) = Entries
    BY LogType
  <2>2. /\ A \in [1 .. Entries + 1 -> DoneCells \cup {c}]
        /\ \A n \in 1 .. Entries : A[n] = R[n]
        /\ A[Entries + 1] = c
    <3> HIDE DEF R
    <3>1. /\ A \in Seq(DoneCells \cup {c}) /\ Len(A) = Entries + 1
          /\ \A n \in 1 .. Len(R) : A[n] = R[n]
          /\ A[Len(R) + 1] = c
      BY <2>1
    <3> HIDE DEF A
    <3>2. Entries + 1 \in Nat /\ A \in [1 .. Len(A) -> DoneCells \cup {c}]
      BY <1>1, <3>1
    <3>3. QED
      BY <1>1, <2>1, <3>1, <3>2
  <2> HIDE DEF A
  <2>3. \A n \in 1 .. Entries + 1 : A[n] = IF n = Entries + 1 THEN c ELSE R[n]
    BY <1>15, <2>2
  <2>4. A = [n \in 1 .. Entries + 1 |-> IF n = Entries + 1 THEN c ELSE R[n]]
    BY <2>2, <2>3
  <2>5. QED
    BY <1>16, <2>4 DEF A
<1>18. LogInv'
  <2>1. ASSUME NEW n \in 1 .. Entries + 1 PROVE \E i \in G : Before(G, i) = n
    <3>1. CASE n = Entries + 1
      BY <1>6, <1>10, <3>1
    <3>2. CASE n # Entries + 1
      BY <1>5, <1>9, <1>10, <1>15, <3>2
    <3>3. QED
      BY <3>1, <3>2
  <2>2. QED
    BY <1>2, <1>4, <1>8, <2>1 DEF LogInv
<1>19. QED
  BY <1>17, <1>18

\* A cell that is counted is the next in the log, and was not in it.
LEMMA CountLog ==
  ASSUME CommandInv, NamesInv, FileInv, TallyInv, LogInv, step = "measure", File!Count
  PROVE  File!Promise!Next /\ LogInv'
<1>1. PICK c \in command.cells \ DoneCells :
        /\ lines = File!RowsOf(c)
        /\ \A i \in counted + 1 .. Len(disk) + Len(pipe) : Stream(disk, pipe)[i] = <<c, i - counted>>
  BY DEF TallyInv, Recording, File!Count
<1>2. /\ pipe = <<>> /\ counted' = counted + Len(lines) /\ disk' = disk /\ appended = Len(lines)
  BY DEF File!Count, File!Flushed
<1>3. PICK d \in MeasuredCells : WritingInv(d, Len(disk) + Len(pipe))
  BY DEF FileInv, File!Count
<1>4. Len(lines) \in Nat /\ Len(lines) > 0
  BY <1>3, RowsKnown, RowsOfType DEF WritingInv
<1>5. counted \in Nat /\ Len(disk) \in Nat /\ Len(pipe) = 0
  BY <1>2, StreamType
<1>6. counted' = Len(disk) /\ counted' \in Nat /\ counted' > counted
  BY <1>2, <1>3, <1>4, <1>5 DEF WritingInv
<1>7. \A i \in counted + 1 .. counted' : disk[i] = <<c, i - counted>>
  BY <1>1, <1>5, <1>6, StreamType
<1>8. disk[counted + 1] = <<c, 1>>
  <2>1. PICK k : k = counted + 1
    OBVIOUS
  <2>2. k \in counted + 1 .. counted' /\ k - counted = 1
    BY <1>5, <1>6, <2>1
  <2>3. disk[k] = <<c, 1>>
    BY <1>7, <2>2
  <2>4. QED
    BY <2>1, <2>3
<1>9. \A i \in counted + 2 .. counted' : disk[i][2] # 1
  <2>1. SUFFICES ASSUME NEW i \in counted + 2 .. counted' PROVE disk[i][2] # 1
    OBVIOUS
  <2>2. i \in counted + 1 .. counted' /\ i - counted # 1
    BY <1>5, <1>6
  <2>3. QED
    BY <1>7, <2>2
<1>10. File!Recorded' = Append(File!Recorded, c) /\ LogInv'
  BY <1>2, <1>6, <1>8, <1>9, NextFirst
<1>11. \A i \in DOMAIN File!Recorded : File!Recorded[i] # c
  <2>1. \A i \in DOMAIN File!Recorded : File!Recorded[i] \in DoneCells
    BY LogType
  <2>2. QED
    BY <1>1, <2>1
<1>12. c \in MeasuredCells
  BY CellsMeasured
<1>13. File!Promise!WriteCell(c)
  BY <1>10, <1>11 DEF File!Promise!WriteCell
<1>14. QED
  BY <1>10, <1>12, <1>13 DEF File!Promise!Next

\* What every other step does to what is counted: it stays, or a new file is begun.
LEMMA OtherSteps ==
  ASSUME CommandInv, FileInv, [Next]_vars
  PROVE  \/ step = "measure" /\ File!Count
         \/ counted' = 0
         \/ counted' = counted /\ \A i \in 1 .. counted : disk'[i] = disk[i]
<1>1. counted \in Nat /\ Len(disk) \in Nat /\ Len(pipe) \in Nat /\ counted <= Len(disk)
      /\ disk \in Seq(File!AllRows) /\ pipe \in Seq(File!AllRows)
  BY StreamType DEF FileInv, File!CountedIsOnDisk
<1>2. ASSUME NEW n \in 0 .. Len(pipe), disk' = disk \o SubSeq(pipe, 1, n)
      PROVE  \A i \in 1 .. counted : disk'[i] = disk[i]
  <2>1. SubSeq(pipe, 1, n) \in Seq(File!AllRows)
    BY <1>1
  <2> DEFINE q == SubSeq(pipe, 1, n)
  <2> HIDE DEF q
  <2>2. \A i \in 1 .. Len(disk) : (disk \o q)[i] = disk[i]
    BY <1>1, <2>1, Joined DEF q
  <2>3. QED
    BY <1>1, <1>2, <2>2 DEF q
<1>3. CASE File!Spill
  BY <1>1, <1>2, <1>3 DEF File!Spill
<1>4. CASE File!Close
  BY <1>1, <1>2, <1>4 DEF File!Close
<1>5. CASE File!Create \/ Forget
  BY <1>5 DEF File!Create, Forget
<1>6. CASE (\E c \in MeasuredCells : File!Begin(c)) \/ File!AppendRow \/ File!WriteFails \/ File!Killed
           \/ UNCHANGED fileVars
  BY <1>6 DEF File!Begin, File!AppendRow, File!WriteFails, File!Killed, fileVars
<1>7. CASE File!Count
  <2>1. CASE step = "measure"
    BY <1>7, <2>1
  <2>2. CASE step # "measure"
    <3>1. writer = "writing" /\ writer' = "open"
      BY <1>7 DEF File!Count
    <3>2. ~WriteStep /\ ~OpenResults
      BY <1>7, <2>2 DEF WriteStep, OpenResults, File!Count, File!Create, fileVars
    <3>3. QED
      BY <2>2, <3>1, <3>2 DEF Next, StartBuild, StartRun, StartProbe, Start, Forget, BeginBuild,
         TaskSucceeds, TaskFails, BuildEnds, Load, Deploy, CheckMissing, BeginRun, WriteCell,
         WriteErrs, CellFails, RunDone, EndRun, ProbeEnds, Teardown, ScalingKilled, Edit, Kill, vars,
         fileVars, File!Close, File!Killed
  <2>3. QED
    BY <2>1, <2>2
<1>8. QED
  BY <1>3, <1>4, <1>5, <1>6, <1>7, EveryStep DEF File!Next

\* Every step of the commands is a step of the log, or leaves it.
LEMMA StepLog ==
  ASSUME CommandInv, NamesInv, FileInv, TallyInv, LogInv, [Next]_vars
  PROVE  [File!Promise!Next]_(File!Recorded) /\ LogInv'
<1>1. CASE step = "measure" /\ File!Count
  BY <1>1, CountLog
<1>2. CASE counted' = 0
  <2>1. (counted = 0 => File!Recorded = <<>> /\ LogInv)'
    BY EmptyLog, PTL
  <2>2. File!Recorded' = <<>> /\ LogInv'
    BY <1>2, <2>1
  <2>3. QED
    BY <2>2 DEF File!Promise!Next, File!Promise!NewRun
<1>3. CASE counted' = counted /\ \A i \in 1 .. counted : disk'[i] = disk[i]
  BY <1>3, SameLog
<1>4. QED
  BY <1>1, <1>2, <1>3, OtherSteps

-----------------------------------------------------------------------------

IInv ==
  /\ CommandInv /\ SelectedInv /\ FileInv /\ NamesInv /\ RestInv
  /\ CodeInv /\ TallyInv /\ MetaInv /\ LogInv

\* Nothing is known wrongly at the beginning.
LEMMA InitIInv == Init => IInv
<1> SUFFICES ASSUME Init PROVE IInv
  OBVIOUS
<1>1. CommandInv /\ NamesInv
  BY DEF Init, CommandInv, NamesInv, NoCommand, TeardownComplete
<1>2. File!Init
  BY DEF Init
<1>3. FileInv
  BY <1>2, InitFileInv
<1>4. RestInv
  BY BoundsAssumption DEF Init, RestInv, NoMeta, Steps, Outcomes, Statuses
<1>5. CodeInv
  BY DEF Init, CodeInv, DistInv, FunctionsInv, BuildInv, LoadedInv, ReadyInv, Ready
<1>6. TallyInv /\ MetaInv
  BY DEF Init, TallyInv, MetaInv, DatasetTruthful, Recording, NoMeta
<1>7. SelectedInv
  BY DEF Init, SelectedInv, JitterSafe, NoCommand
<1>8. LogInv
  <2>1. counted = 0
    BY <1>2 DEF File!Init
  <2>2. QED
    BY <2>1, EmptyLog
<1>9. QED
  BY <1>1, <1>3, <1>4, <1>5, <1>6, <1>7, <1>8 DEF IInv

\* The inductive invariant of the commands: what a running command works on, the file's
\* own invariant, the names of what is deployed, the code that was built and deployed,
\* and the cells that are counted, each with a place in the log.
THEOREM PipelineInductive == Spec => []IInv
<1>1. IInv /\ [Next]_vars => IInv'
  BY StepCommandInv, StepSelected, StepFile, StepNames, StepRest, StepCode, StepTally, StepMeta,
     StepLog DEF IInv
<1>2. QED
  BY <1>1, InitIInv, PTL DEF Spec

\* Every variable keeps its type and every bound, and every deployed function has a name
\* that teardown enumerates.
THEOREM PipelineTypeCorrect == Spec => []TypeOK
<1>1. FileInv => /\ writer \in {"none", "open", "writing", "failed", "closed"}
                 /\ appended \in 0 .. Len(lines) /\ counted \in Nat
  BY DEF FileInv, File!TypeOK
<1>2. IInv => TypeOK
  BY <1>1 DEF IInv, NamesInv, RestInv, Steps, Outcomes, States, Statuses, TypeOK
<1>3. QED
  BY <1>2, PipelineInductive, PTL

\* The results file of any run, whatever its command and those before it did and however
\* they ended: whole cells, and at most a first part of one more.
THEOREM ResultsFileSound == Spec => []WholeCellsThenOnePart
<1>1. IInv => WholeCellsThenOnePart
  BY FileInvGives DEF IInv, WholeCellsThenOnePart
<1>2. QED
  BY <1>1, PipelineInductive, PTL

\* The rows counted in the meta are in the file, and they are whole cells.
THEOREM RowsOnDisk == Spec => []CountedIsOnDisk
<1>1. IInv => CountedIsOnDisk
  BY FileInvGives DEF IInv, CountedIsOnDisk
<1>2. QED
  BY <1>1, PipelineInductive, PTL

\* A teardown that says it is complete leaves no function, of the matrix or of a probe,
\* whatever selections were deployed, in whichever order.
THEOREM NothingLeft == Spec => []TeardownComplete
<1>1. IInv => TeardownComplete
  BY DEF IInv, NamesInv
<1>2. QED
  BY <1>1, PipelineInductive, PTL

\* Whatever was built, deployed, skipped or torn down before: a cell is measured on its
\* own function, created for it, with code that runs that cell, never from a zip cut off.
THEOREM MeasuredCodeCorrect == Spec => []MeasuredCode
<1>1. IInv => MeasuredCode
  BY CodeInvGives DEF IInv
<1>2. QED
  BY <1>1, PipelineInductive, PTL

\* Unless the deploy is skipped, the code measured is the one in dist/; unless the build
\* is skipped, that is whole and of the present source.
THEOREM MeasuredCodeIsFresh == Spec => []FreshUnlessSkipped
<1>1. IInv => FreshUnlessSkipped
  BY CodeInvGives DEF IInv
<1>2. QED
  BY <1>1, PipelineInductive, PTL

\* What the last run's meta says of its dataset is true: it says "ok" with every planned
\* row in the file and counted, and "failed" with fewer, whichever step failed.
THEOREM DatasetIsTruthful == Spec => []DatasetTruthful
<1>1. IInv => DatasetTruthful
  BY DEF IInv, MetaInv
<1>2. QED
  BY <1>1, PipelineInductive, PTL

\* Whatever the filters select: a jitter diagnostic is measured with its baseline and as often,
\* the planned rows, tallied per bucket of equal counts, are the rows of the selected cells,
\* and no two of a probe's targets read the same in its table.
THEOREM SelectionsCorrect == Spec => []SelectionsSound
<1>1. IInv => SelectionsSound
  BY SelectedInvGives, PlannedAddUp DEF IInv, NamesInv, SelectionsSound
<1>2. QED
  BY <1>1, PipelineInductive, PTL

\* Writers, errors, crashes and new runs keep the promise of CellLog: every step appends one
\* cell that is not in the log, leaves the log as it is, or begins a new one.
THEOREM RefinesCellLog == Spec => KeepsWholeCells
<1>1. Init => File!Promise!Init
  <2>1. Init => counted = 0
    BY DEF Init, File!Init
  <2>2. QED
    BY <2>1, EmptyLog DEF File!Promise!Init
<1>2. IInv /\ [Next]_vars => [File!Promise!Next]_(File!Recorded)
  BY StepLog DEF IInv
<1>3. QED
  BY <1>1, <1>2, PipelineInductive, PTL DEF Spec, KeepsWholeCells, File!KeepsWholeCells,
     File!Promise!Spec

=============================================================================
