---------------------------- MODULE ResultsFile ----------------------------
(***************************************************************************)
(* The results writer (bencher/src/record.rs: ResultsWriter) under         *)
(* write_cell: a cell's rows go one by one into the gzip encoder, which    *)
(* with its BufWriter passes bytes on to the file whenever a buffer is     *)
(* full; the flush at the end of the cell passes on the rest, and only     *)
(* then are the rows counted.  Any write may fail, and the process may be  *)
(* killed between any two of them.                                         *)
(*                                                                         *)
(* A row is the cell it belongs to and its number in it.  One cell is      *)
(* written at a time: write_cell holds the lock, and does not await.       *)
(***************************************************************************)
EXTENDS Naturals, Sequences, FiniteSets

CONSTANTS
  Cells,  \* what a run may measure
  Rows    \* how many rows a completed cell has

\* What every use of this module assumes.
RowsAssumption == Rows \in [Cells -> Nat \ {0}]

VARIABLES
  writer,   \* "none", "open", "writing" a cell, "failed" or "closed"
  lines,    \* the rows of the cell being written
  appended, \* how many of them the encoder has been given
  pipe,     \* rows in the encoder and the BufWriter
  disk,     \* rows that can be read back from the file
  counted   \* rows_written

fileVars == <<writer, lines, appended, pipe, disk, counted>>

AllRows == UNION {{<<c, i>> : i \in 1 .. Rows[c]} : c \in Cells}
RowsOf(c) == [i \in 1 .. Rows[c] |-> <<c, i>>]
Written(c) == \E i \in DOMAIN disk : disk[i][1] = c

Init ==
  /\ writer = "none" /\ lines = <<>> /\ appended = 0
  /\ pipe = <<>> /\ disk = <<>> /\ counted = 0

\* What a newly opened file holds: it is truncated.
Truncated == <<>>

Create ==
  /\ writer \in {"none", "closed"}
  /\ writer' = "open" /\ lines' = <<>> /\ appended' = 0
  /\ pipe' = <<>> /\ disk' = Truncated /\ counted' = 0

\* Faulty: the lock is not held from a cell's first row to its flush.
BeginUnlocked(c) ==
  /\ writer \in {"open", "writing"} /\ ~Written(c)
  /\ writer' = "writing" /\ lines' = RowsOf(c) /\ appended' = 0
  /\ UNCHANGED <<pipe, disk, counted>>

\* write_cell(c), up to its first write.
Begin(c) ==
  /\ writer = "open" /\ ~Written(c)
  /\ writer' = "writing" /\ lines' = RowsOf(c) /\ appended' = 0
  /\ UNCHANGED <<pipe, disk, counted>>

AppendRow ==
  /\ writer = "writing" /\ appended < Len(lines)
  /\ pipe' = Append(pipe, lines[appended + 1]) /\ appended' = appended + 1
  /\ UNCHANGED <<writer, lines, disk, counted>>

\* A buffer is full, or flushed: a first part of the rows in it reaches the file.
Spill ==
  /\ writer = "writing" /\ pipe # <<>>
  /\ \E n \in 1 .. Len(pipe) :
       /\ disk' = disk \o SubSeq(pipe, 1, n)
       /\ pipe' = SubSeq(pipe, n + 1, Len(pipe))
  /\ UNCHANGED <<writer, lines, appended, counted>>

\* The flush has returned: nothing of the cell is left to append or to spill.
Flushed == appended = Len(lines) /\ pipe = <<>>

Count ==
  /\ writer = "writing" /\ Flushed
  /\ counted' = counted + Len(lines)
  /\ writer' = "open"
  /\ UNCHANGED <<lines, appended, pipe, disk>>

\* A write or the flush fails, and with it write_cell; no cell is written after.
WriteFails ==
  /\ writer = "writing"
  /\ writer' = "failed"
  /\ UNCHANGED <<lines, appended, pipe, disk, counted>>

\* The writer is dropped: what is still buffered may reach the file, or not.
Close ==
  /\ writer \in {"open", "failed"}
  /\ writer' = "closed" /\ pipe' = <<>>
  /\ \E n \in 0 .. Len(pipe) : disk' = disk \o SubSeq(pipe, 1, n)
  /\ UNCHANGED <<lines, appended, counted>>

\* The process is killed; what it had buffered is lost.
Killed ==
  /\ writer \in {"open", "writing", "failed"}
  /\ writer' = "closed" /\ pipe' = <<>>
  /\ UNCHANGED <<lines, appended, disk, counted>>

Next ==
  \/ Create
  \/ \E c \in Cells : Begin(c)
  \/ AppendRow
  \/ Spill
  \/ Count
  \/ WriteFails
  \/ Close
  \/ Killed

Spec == Init /\ [][Next]_fileVars

-----------------------------------------------------------------------------
(* Properties.                                                             *)

TypeOK ==
  /\ writer \in {"none", "open", "writing", "failed", "closed"}
  /\ lines \in Seq(AllRows) /\ appended \in 0 .. Len(lines)
  /\ pipe \in Seq(AllRows) /\ disk \in Seq(AllRows)
  /\ counted \in Nat

\* A row follows its predecessor in its cell, and a cell's first row follows the
\* last row of another cell, or nothing.
InOrder(rows) ==
  \A i \in DOMAIN rows :
    IF rows[i][2] = 1 THEN i > 1 => rows[i - 1][2] = Rows[rows[i - 1][1]]
                      ELSE i > 1 /\ rows[i - 1] = <<rows[i][1], rows[i][2] - 1>>

\* Whatever fails or is killed, what can be read back is whole cells, one after the
\* other, and after them at most the first rows of one more: an earlier cell is
\* never torn by the writing of a later one (write_cell's doc).
WholeCellsThenOnePart == InOrder(disk)

\* The rows counted are in the file, and they are the rows of whole cells: the count
\* in the meta never claims a row that a reader cannot find, nor part of a cell.
CountedIsOnDisk ==
  /\ counted <= Len(disk)
  /\ counted > 0 => disk[counted][2] = Rows[disk[counted][1]]

\* The cells recorded: those whose rows are counted, in the order of their first rows.
Firsts == {i \in 1 .. counted : disk[i][2] = 1}
Rank(i) == Cardinality({j \in Firsts : j <= i})
First(n) == CHOOSE i \in Firsts : Rank(i) = n
Recorded == [n \in 1 .. Cardinality(Firsts) |-> disk[First(n)][1]]

\* Writers, errors and crashes keep the promise of CellLog for what is counted.
Promise == INSTANCE CellLog WITH log <- Recorded
KeepsWholeCells == Promise!Spec
=============================================================================
