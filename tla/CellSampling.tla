--------------------------- MODULE CellSampling ---------------------------
(***************************************************************************)
(* What run_cell promises to the run loop (bencher/src/run.rs), whatever   *)
(* its retries do: the cell keeps its cycles one after the other, commits  *)
(* only once it has kept every one of them, and otherwise aborts, with     *)
(* nothing in between.                                                     *)
(***************************************************************************)
EXTENDS Naturals

CONSTANT Cold  \* cold cycles of the cell

VARIABLES
  kept,  \* completed cycles
  fate   \* what became of the cell

vars == <<kept, fate>>

Init == kept = 0 /\ fate = "sampling"

Keep ==
  /\ fate = "sampling" /\ kept < Cold
  /\ kept' = kept + 1
  /\ UNCHANGED fate

\* The last cycle may be kept in the step that ends the cell.
Last == kept' = kept \/ (kept + 1 = Cold /\ kept' = Cold)

Commit ==
  /\ fate = "sampling"
  /\ fate' = "committed"
  /\ Last /\ kept' = Cold

Abort ==
  /\ fate = "sampling"
  /\ fate' = "aborted"
  /\ Last

Next == Keep \/ Commit \/ Abort

Spec == Init /\ [][Next]_vars /\ WF_vars(Next)

=============================================================================
