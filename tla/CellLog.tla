------------------------------ MODULE CellLog ------------------------------
(***************************************************************************)
(* What the results writer (bencher/src/record.rs) promises: a file of     *)
(* whole cells, which only grows, by one completed cell at a time, until   *)
(* the next run starts a file of its own.                                  *)
(***************************************************************************)
EXTENDS Sequences

CONSTANT Cells

VARIABLE log  \* the cells recorded, in the order in which they completed

Init == log = <<>>

WriteCell(c) ==
  /\ \A i \in DOMAIN log : log[i] # c
  /\ log' = Append(log, c)

NewRun == log' = <<>>

Next == NewRun \/ \E c \in Cells : WriteCell(c)

Spec == Init /\ [][Next]_log
=============================================================================
