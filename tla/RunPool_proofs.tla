-------------------------- MODULE RunPool_proofs --------------------------
(***************************************************************************)
(* Proofs about RunPool, for every set of cells, pool size, number of      *)
(* cycles and of retries.                                                  *)
(*                                                                         *)
(* Whatever ends the await of a cell comes down to three outcomes: the     *)
(* cell starts its next attempt, is done, or fails the run.  The invariant *)
(* is shown for each of these once, and then for the remaining actions.    *)
(***************************************************************************)
EXTENDS RunPool, Integers, FiniteSetTheorems, TLAPS

\* The cells still queued are those not pulled.
Queue ==
  \A i \in DOMAIN Order : i > pulled <=> at[Order[i]] = "queued"

\* A cell that is not at its end has cycles to go and failures left.
Budget ==
  \A c \in Cells : at[c] \in Awaits \cup {"queued"} =>
                     kept[c] < Cycles /\ failures[c] <= MaxFailures

\* No cell has failed while the run pulls; then none is in flight, and either
\* one has failed or all are done.
PhaseOfCells ==
  /\ phase = "run" => \A c \in Cells : at[c] \notin {"failed", "dropped"}
  /\ phase \in {"drain", "ended"} =>
       /\ \A c \in Cells : at[c] \notin Awaits
       /\ (\E c \in Cells : at[c] = "failed") \/ (\A c \in Cells : at[c] = "done")

\* An armed guard is that of the attempt its cell is at.
GuardsOwned ==
  /\ phase = "run" => \A v \in guarded : /\ at[v[1]] \in {"measure", "delete"}
                                         /\ v = Version(v[1])
  /\ phase # "run" => guarded = {}

LeakedDrained == phase = "ended" => leaked = {}

\* The version of a cell that waits for it or measures it exists.
VersionAlive ==
  \A c \in Cells : at[c] \in {"activate", "measure"} => Version(c) \in live

MetaFinal == meta \in {"ok", "failed"} => phase = "ended"

IInv ==
  /\ TypeOK
  /\ Queue /\ Budget /\ PhaseOfCells
  /\ GuardsOwned /\ GuardedVersionsReclaimed /\ LeakedDrained
  /\ VersionAlive
  /\ RowsAccounted /\ MetaFinal /\ MetaTruthful

DoneCells == {c \in Cells : at[c] = "done"}

-----------------------------------------------------------------------------
(* Facts about the constants.                                              *)

\* Order lists the cells.
LEMMA OrderFacts ==
  /\ Order \in Seq(Cells)
  /\ Len(Order) \in Nat
  /\ DOMAIN Order = 1 .. Len(Order)
  /\ \A i \in DOMAIN Order : Order[i] \in Cells
  /\ \A c \in Cells : \E i \in DOMAIN Order : c = Order[i]
<1>1. Order \in Seq(Cells)
  BY OrderAssumption
<1>2. Len(Order) \in Nat /\ DOMAIN Order = 1 .. Len(Order)
  BY <1>1
<1>3. \A i \in DOMAIN Order : Order[i] \in Cells
  BY DEF Cells
<1>4. \A c \in Cells : \E i \in DOMAIN Order : c = Order[i]
  BY DEF Cells
<1>5. QED
  BY <1>1, <1>2, <1>3, <1>4

\* There are finitely many cells.
LEMMA CellsFinite == IsFiniteSet(Cells)
<1> DEFINE I == 1 .. Len(Order)
<1>1. IsFiniteSet(I)
  BY OrderFacts, FS_Interval
<1>2. Order \in [I -> Cells]
  BY OrderFacts
<1>3. Order \in Surjection(I, Cells)
  BY <1>2, OrderFacts DEF Surjection
<1>4. QED
  BY <1>1, <1>3, FS_Surjection

\* The done cells are finitely many, and all only if every cell is done.
LEMMA DoneFinite ==
  /\ IsFiniteSet(DoneCells)
  /\ Cardinality(DoneCells) \in Nat
  /\ Cardinality(DoneCells) <= Cardinality(Cells)
  /\ Cardinality(Cells) \in Nat
  /\ Cardinality(DoneCells) = Cardinality(Cells) => DoneCells = Cells
<1>1. DoneCells \in SUBSET Cells
  BY DEF DoneCells
<1>2. QED
  BY <1>1, CellsFinite, FS_Subset, FS_CardinalityType

\* The version of an attempt has a number within the bounds.
LEMMA VersionType ==
  ASSUME TypeOK, Budget, NEW c \in Cells, at[c] \in Awaits
  PROVE Version(c) \in Versions
<1>1. /\ kept[c] \in Nat /\ failures[c] \in Nat /\ Cycles \in Nat /\ MaxFailures \in Nat
      /\ kept[c] < Cycles /\ failures[c] <= MaxFailures
  BY BoundsAssumption DEF TypeOK, Budget
<1>2. kept[c] + failures[c] + 1 \in 1 .. Cycles + MaxFailures + 1
  BY <1>1
<1>3. QED
  BY <1>2 DEF Version, Versions

\* Whether a cell is in flight, by its await.
LEMMA AwaitsFacts ==
  /\ "start" \in Awaits /\ "publish" \in Awaits /\ "activate" \in Awaits
  /\ "measure" \in Awaits /\ "delete" \in Awaits
  /\ "queued" \notin Awaits /\ "done" \notin Awaits /\ "failed" \notin Awaits
  /\ "dropped" \notin Awaits
  BY DEF Awaits

-----------------------------------------------------------------------------
(* The outcomes of an await.                                               *)

\* c's counters have moved, within their types; nobody else's have.
Counting(c) ==
  /\ kept' \in [Cells -> 0 .. Cycles]
  /\ failures' \in [Cells -> 0 .. MaxFailures + 1]
  /\ \A d \in Cells : d # c => kept'[d] = kept[d] /\ failures'[d] = failures[d]

StartsAgain(c, g) ==
  /\ Counting(c)
  /\ kept'[c] < Cycles /\ failures'[c] <= MaxFailures
  /\ MoveTo(c, "start") /\ guarded' = g
  /\ UNCHANGED <<phase, leaked, file, recorded, meta>>

IsDone(c, g) ==
  /\ Counting(c)
  /\ MoveTo(c, "done") /\ guarded' = g
  /\ file' = [file EXCEPT ![c] = "whole"]
  /\ recorded' = recorded + 1
  /\ UNCHANGED <<phase, leaked, meta>>

FailsRun(c, g) ==
  /\ Counting(c)
  /\ FailFast(c, g)
  /\ file' \in [Cells -> {"absent", "torn", "whole"}]
  /\ \A d \in Cells : d # c => file'[d] = file[d]
  /\ UNCHANGED <<recorded, meta>>

\* What the rest of the step does around an outcome that leaves the guards g.
Around(c, g) ==
  /\ g \subseteq guarded /\ \A v \in g : v[1] # c
  /\ armed \subseteq g \cup leaked \cup asked'
  /\ asked' \subseteq Versions /\ wire' \subseteq Versions
  /\ live' \subseteq live /\ \A v \in live : v[1] # c => v \in live'
  /\ UNCHANGED <<armed, pulled, clean>>

\* A failed attempt has one of two outcomes.
LEMMA AttemptFailsOutcome ==
  ASSUME IInv, NEW c \in Cells, at[c] \in Awaits, NEW g, AttemptFails(c, g)
  PROVE StartsAgain(c, g) \/ FailsRun(c, g)
<1>1. /\ kept[c] \in Nat /\ failures[c] \in Nat /\ MaxFailures \in Nat /\ Cycles \in Nat
      /\ kept[c] < Cycles /\ failures[c] <= MaxFailures
      /\ kept \in [Cells -> 0 .. Cycles]
      /\ failures \in [Cells -> 0 .. MaxFailures + 1]
      /\ file \in [Cells -> {"absent", "torn", "whole"}]
  BY BoundsAssumption DEF IInv, TypeOK, Budget
<1>2. /\ failures' = [failures EXCEPT ![c] = @ + 1]
      /\ kept' = kept /\ file' = file /\ recorded' = recorded /\ meta' = meta
  BY DEF AttemptFails, output
<1>3. Counting(c) /\ kept'[c] = kept[c] /\ failures'[c] = failures[c] + 1
  BY <1>1, <1>2 DEF Counting
<1>4. CASE RetriesLeft(c)
  <2>1. MoveTo(c, "start") /\ guarded' = g /\ phase' = phase /\ leaked' = leaked
    BY <1>4 DEF AttemptFails
  <2>2. failures'[c] <= MaxFailures
    BY <1>1, <1>3, <1>4 DEF RetriesLeft
  <2>3. QED
    BY <1>1, <1>2, <1>3, <2>1, <2>2 DEF StartsAgain
<1>5. CASE ~RetriesLeft(c)
  <2>1. FailFast(c, g)
    BY <1>5 DEF AttemptFails
  <2>2. QED
    BY <1>1, <1>2, <1>3, <2>1 DEF FailsRun
<1>6. QED
  BY <1>4, <1>5

\* A kept cycle has one of three.
LEMMA CycleKeptOutcome ==
  ASSUME IInv, NEW c \in Cells, at[c] \in Awaits, NEW g, CycleKept(c, g)
  PROVE StartsAgain(c, g) \/ IsDone(c, g) \/ FailsRun(c, g)
<1>1. /\ kept[c] \in Nat /\ failures[c] \in Nat /\ MaxFailures \in Nat /\ Cycles \in Nat
      /\ kept[c] < Cycles /\ failures[c] <= MaxFailures
      /\ kept \in [Cells -> 0 .. Cycles]
      /\ failures \in [Cells -> 0 .. MaxFailures + 1]
      /\ file \in [Cells -> {"absent", "torn", "whole"}]
  BY BoundsAssumption DEF IInv, TypeOK, Budget
<1>2. /\ kept' = [kept EXCEPT ![c] = @ + 1]
      /\ failures' = failures /\ meta' = meta
  BY DEF CycleKept
<1>3. Counting(c) /\ kept'[c] = kept[c] + 1 /\ failures'[c] = failures[c]
  BY <1>1, <1>2 DEF Counting
<1>4. CASE /\ kept[c] + 1 < Cycles
           /\ MoveTo(c, "start")
           /\ guarded' = g
           /\ UNCHANGED <<phase, leaked, file, recorded>>
  BY <1>1, <1>2, <1>3, <1>4 DEF StartsAgain
<1>5. CASE /\ MoveTo(c, "done")
           /\ guarded' = g
           /\ file' = [file EXCEPT ![c] = "whole"]
           /\ recorded' = Counted(TRUE)
           /\ UNCHANGED <<phase, leaked>>
  <2>1. recorded' = recorded + 1
    BY <1>5 DEF Counted
  <2>2. QED
    BY <1>2, <1>3, <1>5, <2>1 DEF IsDone
<1>6. CASE /\ FailFast(c, g)
           /\ \E part \in {"absent", "torn", "whole"} :
                file' = [file EXCEPT ![c] = part]
           /\ recorded' = Counted(FALSE)
  <2>1. recorded' = recorded
    BY <1>6 DEF Counted
  <2>2. /\ file' \in [Cells -> {"absent", "torn", "whole"}]
        /\ \A d \in Cells : d # c => file'[d] = file[d]
    BY <1>1, <1>6
  <2>3. QED
    BY <1>2, <1>3, <1>6, <2>1, <2>2 DEF FailsRun
<1>7. QED
  BY <1>4, <1>5, <1>6 DEF CycleKept

\* A cell in flight, or only pulled so far, is in a running run.
LEMMA InFlightRuns ==
  ASSUME IInv, phase # "crashed", NEW c \in Cells, at[c] \in Awaits
  PROVE phase = "run"
  BY DEF IInv, TypeOK, PhaseOfCells

\* The cell starts its next attempt.
LEMMA StartsAgainIInv ==
  ASSUME IInv, phase = "run", NEW c \in Cells, at[c] \in Awaits,
         NEW g, Around(c, g), StartsAgain(c, g)
  PROVE IInv'
<1> USE AwaitsFacts
<1>1. /\ at' = [at EXCEPT ![c] = "start"]
      /\ at \in [Cells -> Awaits \cup Fates]
      /\ guarded' = g /\ phase' = phase /\ leaked' = leaked /\ file' = file
      /\ recorded' = recorded /\ meta' = meta
      /\ armed' = armed /\ pulled' = pulled /\ clean' = clean
  BY DEF IInv, TypeOK, StartsAgain, MoveTo, Around
<1>2. /\ at'[c] = "start" /\ at' \in [Cells -> Awaits \cup Fates]
      /\ \A d \in Cells : d # c => at'[d] = at[d]
  BY <1>1
<1>3. TypeOK'
  BY <1>1, <1>2 DEF IInv, TypeOK, Around, StartsAgain, Counting
<1>4. Queue'
  <2>1. \A i \in DOMAIN Order : Order[i] \in Cells
    BY OrderFacts
  <2>2. \A i \in DOMAIN Order : at'[Order[i]] = "queued" <=> at[Order[i]] = "queued"
    BY <1>2, <2>1
  <2>3. QED
    BY <1>1, <2>2 DEF IInv, Queue
<1>5. Budget'
  BY <1>1, <1>2 DEF IInv, Budget, StartsAgain, Counting
<1>6. PhaseOfCells'
  BY <1>1, <1>2 DEF IInv, PhaseOfCells
<1>7. GuardsOwned'
  <2>1. ASSUME NEW v \in g
        PROVE /\ at'[v[1]] \in {"measure", "delete"}
              /\ v = <<v[1], kept'[v[1]] + failures'[v[1]] + 1>>
    <3>1. v \in guarded /\ v[1] # c /\ v[1] \in Cells
      BY <2>1 DEF IInv, TypeOK, Around, Versions
    <3>2. at[v[1]] \in {"measure", "delete"} /\ v = Version(v[1])
      BY <3>1 DEF IInv, GuardsOwned
    <3>3. QED
      BY <1>2, <3>1, <3>2 DEF Version, StartsAgain, Counting
  <2>2. QED
    BY <1>1, <2>1 DEF GuardsOwned, Version
<1>8. GuardedVersionsReclaimed' /\ LeakedDrained'
  BY <1>1 DEF IInv, GuardedVersionsReclaimed, LeakedDrained, Around
<1>9. VersionAlive'
  <2>1. ASSUME NEW d \in Cells, at'[d] \in {"activate", "measure"}
        PROVE <<d, kept'[d] + failures'[d] + 1>> \in live'
    <3>1. d # c /\ at[d] \in {"activate", "measure"}
      BY <1>2, <2>1
    <3>2. Version(d) \in live /\ Version(d) = <<d, kept'[d] + failures'[d] + 1>>
      BY <3>1 DEF IInv, VersionAlive, Version, StartsAgain, Counting
    <3>3. QED
      BY <3>1, <3>2 DEF Around
  <2>2. QED
    BY <2>1 DEF VersionAlive, Version
<1>10. RowsAccounted'
  <2>1. \A d \in Cells : at'[d] = "done" <=> at[d] = "done"
    BY <1>2
  <2>2. {d \in Cells : at'[d] = "done"} = {d \in Cells : at[d] = "done"}
    BY <2>1
  <2>3. \A d \in Cells : at'[d] = "done" => file'[d] = "whole"
    BY <1>1, <2>1 DEF IInv, RowsAccounted
  <2>4. \A d \in Cells : file'[d] # "absent" => at'[d] \in {"done", "failed"}
    BY <1>1, <1>2 DEF IInv, RowsAccounted
  <2>5. QED
    BY <1>1, <2>2, <2>3, <2>4 DEF IInv, RowsAccounted
<1>11. MetaFinal' /\ MetaTruthful'
  BY <1>1 DEF IInv, MetaFinal, MetaTruthful
<1>12. QED
  BY <1>3, <1>4, <1>5, <1>6, <1>7, <1>8, <1>9, <1>10, <1>11 DEF IInv

\* The cell is done and its rows counted.
LEMMA IsDoneIInv ==
  ASSUME IInv, phase = "run", NEW c \in Cells, at[c] \in Awaits,
         NEW g, Around(c, g), IsDone(c, g)
  PROVE IInv'
<1> USE AwaitsFacts
<1>1. /\ at' = [at EXCEPT ![c] = "done"]
      /\ at \in [Cells -> Awaits \cup Fates]
      /\ file' = [file EXCEPT ![c] = "whole"]
      /\ file \in [Cells -> {"absent", "torn", "whole"}]
      /\ guarded' = g /\ phase' = phase /\ leaked' = leaked
      /\ recorded' = recorded + 1 /\ meta' = meta
      /\ armed' = armed /\ pulled' = pulled /\ clean' = clean
  BY DEF IInv, TypeOK, IsDone, MoveTo, Around
<1>2. /\ at'[c] = "done" /\ at' \in [Cells -> Awaits \cup Fates]
      /\ \A d \in Cells : d # c => at'[d] = at[d]
      /\ file'[c] = "whole" /\ file' \in [Cells -> {"absent", "torn", "whole"}]
      /\ \A d \in Cells : d # c => file'[d] = file[d]
  BY <1>1 DEF Fates
<1>3. TypeOK'
  BY <1>1, <1>2 DEF IInv, TypeOK, Around, IsDone, Counting
<1>4. Queue'
  <2>1. \A i \in DOMAIN Order : Order[i] \in Cells
    BY OrderFacts
  <2>2. \A i \in DOMAIN Order : at'[Order[i]] = "queued" <=> at[Order[i]] = "queued"
    BY <1>2, <2>1
  <2>3. QED
    BY <1>1, <2>2 DEF IInv, Queue
<1>5. Budget'
  BY <1>1, <1>2 DEF IInv, Budget, IsDone, Counting
<1>6. PhaseOfCells'
  BY <1>1, <1>2 DEF IInv, PhaseOfCells
<1>7. GuardsOwned'
  <2>1. ASSUME NEW v \in g
        PROVE /\ at'[v[1]] \in {"measure", "delete"}
              /\ v = <<v[1], kept'[v[1]] + failures'[v[1]] + 1>>
    <3>1. v \in guarded /\ v[1] # c /\ v[1] \in Cells
      BY <2>1 DEF IInv, TypeOK, Around, Versions
    <3>2. at[v[1]] \in {"measure", "delete"} /\ v = Version(v[1])
      BY <3>1 DEF IInv, GuardsOwned
    <3>3. QED
      BY <1>2, <3>1, <3>2 DEF Version, IsDone, Counting
  <2>2. QED
    BY <1>1, <2>1 DEF GuardsOwned, Version
<1>8. GuardedVersionsReclaimed' /\ LeakedDrained'
  BY <1>1 DEF IInv, GuardedVersionsReclaimed, LeakedDrained, Around
<1>9. VersionAlive'
  <2>1. ASSUME NEW d \in Cells, at'[d] \in {"activate", "measure"}
        PROVE <<d, kept'[d] + failures'[d] + 1>> \in live'
    <3>1. d # c /\ at[d] \in {"activate", "measure"}
      BY <1>2, <2>1
    <3>2. Version(d) \in live /\ Version(d) = <<d, kept'[d] + failures'[d] + 1>>
      BY <3>1 DEF IInv, VersionAlive, Version, IsDone, Counting
    <3>3. QED
      BY <3>1, <3>2 DEF Around
  <2>2. QED
    BY <2>1 DEF VersionAlive, Version
<1>10. RowsAccounted'
  <2>1. {d \in Cells : at'[d] = "done"} = DoneCells \cup {c} /\ c \notin DoneCells
    BY <1>2 DEF DoneCells
  <2>2. Cardinality(DoneCells \cup {c}) = Cardinality(DoneCells) + 1
    BY <2>1, DoneFinite, FS_AddElement
  <2>3. recorded = Cardinality(DoneCells)
    BY DEF IInv, RowsAccounted, DoneCells
  <2>4. \A d \in Cells : at'[d] = "done" => file'[d] = "whole"
    BY <1>2 DEF IInv, RowsAccounted
  <2>5. \A d \in Cells : file'[d] # "absent" => at'[d] \in {"done", "failed"}
    BY <1>2 DEF IInv, RowsAccounted
  <2>6. QED
    BY <1>1, <2>1, <2>2, <2>3, <2>4, <2>5 DEF RowsAccounted
<1>11. MetaFinal' /\ MetaTruthful'
  BY <1>1 DEF IInv, MetaFinal, MetaTruthful
<1>12. QED
  BY <1>3, <1>4, <1>5, <1>6, <1>7, <1>8, <1>9, <1>10, <1>11 DEF IInv

\* The cell fails the run: every other cell in flight is dropped.
LEMMA FailsRunIInv ==
  ASSUME IInv, phase = "run", NEW c \in Cells, at[c] \in Awaits,
         NEW g, Around(c, g), FailsRun(c, g)
  PROVE IInv'
<1> USE AwaitsFacts
<1>1. /\ at' = AfterFailure(c)
      /\ at \in [Cells -> Awaits \cup Fates]
      /\ guarded' = {} /\ phase' = "drain" /\ leaked' = leaked \cup g
      /\ recorded' = recorded /\ meta' = meta
      /\ armed' = armed /\ pulled' = pulled /\ clean' = clean
  BY DEF IInv, TypeOK, FailsRun, FailFast, Pushed, Around
<1>2. /\ at'[c] = "failed"
      /\ \A d \in Cells : d # c => at'[d] = IF at[d] \in Awaits THEN "dropped" ELSE at[d]
  BY <1>1 DEF AfterFailure
<1>3. at' \in [Cells -> Awaits \cup Fates] /\ \A d \in Cells : at'[d] \notin Awaits
  <2>1. \A d \in Cells : at'[d] \in Fates
    BY <1>1, <1>2 DEF Fates
  <2>2. DOMAIN at' = Cells /\ at' = [d \in Cells |-> at'[d]]
    BY <1>1 DEF AfterFailure
  <2>3. \A d \in Cells : at'[d] \notin Awaits
    BY <2>1 DEF Fates
  <2>4. QED
    BY <2>1, <2>2, <2>3
<1>4. TypeOK'
  BY <1>1, <1>3 DEF IInv, TypeOK, Around, FailsRun, Counting
<1>5. Queue'
  <2>1. \A i \in DOMAIN Order : Order[i] \in Cells
    BY OrderFacts
  <2>2. \A d \in Cells : at'[d] = "queued" <=> at[d] = "queued"
    BY <1>2
  <2>3. QED
    BY <1>1, <2>1, <2>2 DEF IInv, Queue
<1>6. Budget'
  BY <1>2, <1>3 DEF IInv, Budget, FailsRun, Counting
<1>7. PhaseOfCells'
  BY <1>1, <1>2, <1>3 DEF PhaseOfCells
<1>8. GuardsOwned'
  BY <1>1 DEF GuardsOwned
<1>9. GuardedVersionsReclaimed' /\ LeakedDrained'
  BY <1>1 DEF IInv, GuardedVersionsReclaimed, LeakedDrained, Around
<1>10. VersionAlive'
  BY <1>3 DEF VersionAlive
<1>11. RowsAccounted'
  <2>1. \A d \in Cells : at'[d] = "done" <=> at[d] = "done"
    BY <1>2
  <2>2. {d \in Cells : at'[d] = "done"} = {d \in Cells : at[d] = "done"}
    BY <2>1
  <2>3. \A d \in Cells : d # c => file'[d] = file[d]
    BY DEF FailsRun
  <2>4. \A d \in Cells : at'[d] = "done" => file'[d] = "whole"
    BY <1>2, <2>1, <2>3 DEF IInv, RowsAccounted
  <2>5. \A d \in Cells : file'[d] # "absent" => at'[d] \in {"done", "failed"}
    BY <1>2, <2>3 DEF IInv, RowsAccounted
  <2>6. QED
    BY <1>1, <2>2, <2>4, <2>5 DEF IInv, RowsAccounted
<1>12. MetaFinal' /\ MetaTruthful'
  BY <1>1 DEF IInv, MetaFinal, MetaTruthful
<1>13. QED
  BY <1>4, <1>5, <1>6, <1>7, <1>8, <1>9, <1>10, <1>11, <1>12 DEF IInv

\* Any outcome preserves the invariant.
LEMMA OutcomeIInv ==
  ASSUME IInv, phase = "run", NEW c \in Cells, at[c] \in Awaits,
         NEW g, Around(c, g), AttemptFails(c, g) \/ CycleKept(c, g)
  PROVE IInv'
  BY AttemptFailsOutcome, CycleKeptOutcome, StartsAgainIInv, IsDoneIInv, FailsRunIInv

-----------------------------------------------------------------------------
(* The actions of a cell.                                                  *)

\* No guard is armed for a cell that is neither measuring nor deleting.
LEMMA Unguarded ==
  ASSUME IInv, phase = "run", NEW c \in Cells, at[c] \notin {"measure", "delete"}
  PROVE \A v \in guarded : v[1] # c
  BY DEF IInv, GuardsOwned

\* A cycle of a $LATEST cell, kept or failed, keeps the invariant.
LEMMA SampleLatestIInv ==
  ASSUME IInv, phase = "run", NEW c \in Cells, SampleLatest(c)
  PROVE IInv'
<1>1. /\ at[c] = "start" /\ at[c] \in Awaits
      /\ CycleKept(c, guarded) \/ AttemptFails(c, guarded)
      /\ pulled' = pulled /\ clean' = clean /\ wire' = wire /\ live' = live
      /\ armed' = armed /\ asked' = asked
  BY AwaitsFacts DEF SampleLatest, cloud
<1>2. Around(c, guarded)
  BY <1>1, Unguarded DEF IInv, TypeOK, GuardedVersionsReclaimed, Around
<1>3. QED
  BY <1>1, <1>2, OutcomeIInv

\* A failed nonce bump, which sends the cell to its next attempt or ends it,
\* keeps the invariant.
LEMMA BumpFailsIInv ==
  ASSUME IInv, phase = "run", NEW c \in Cells, BumpFails(c)
  PROVE IInv'
<1>1. /\ at[c] = "start" /\ at[c] \in Awaits
      /\ AttemptFails(c, guarded)
      /\ pulled' = pulled /\ clean' = clean /\ wire' = wire /\ live' = live
      /\ armed' = armed /\ asked' = asked
  BY AwaitsFacts DEF BumpFails, cloud
<1>2. Around(c, guarded)
  BY <1>1, Unguarded DEF IInv, TypeOK, GuardedVersionsReclaimed, Around
<1>3. QED
  BY <1>1, <1>2, OutcomeIInv

\* A publish or a wait for the version that errs, whether or not a version comes
\* of it, keeps the invariant.
LEMMA PublishErrsIInv ==
  ASSUME IInv, phase = "run", NEW c \in Cells, PublishErrs(c)
  PROVE IInv'
<1>1. /\ at[c] \in {"publish", "activate"} /\ at[c] \in Awaits
      /\ AttemptFails(c, guarded)
      /\ pulled' = pulled /\ clean' = clean /\ wire' \subseteq wire /\ live' = live
      /\ armed' = armed /\ asked' = asked
  BY AwaitsFacts DEF PublishErrs
<1>2. Around(c, guarded)
  BY <1>1, Unguarded DEF IInv, TypeOK, GuardedVersionsReclaimed, Around
<1>3. QED
  BY <1>1, <1>2, OutcomeIInv

\* The answer to an inline delete, which disarms the guard and ends the cycle,
\* keeps the invariant.
LEMMA DeleteReturnsIInv ==
  ASSUME IInv, phase = "run", NEW c \in Cells, DeleteReturns(c)
  PROVE IInv'
<1> DEFINE g == Disarmed(c)
<1>1. /\ at[c] = "delete" /\ at[c] \in Awaits
      /\ AttemptFails(c, g) \/ CycleKept(c, g)
      /\ pulled' = pulled /\ clean' = clean /\ wire' = wire
      /\ live' = live \/ live' = live \ {Version(c)}
      /\ armed' = armed /\ asked' = asked \cup {Version(c)}
      /\ g = guarded \ {Version(c)}
  BY AwaitsFacts DEF DeleteReturns, Deleted, Disarmed, AskedAfter
<1> HIDE DEF g
<1>2. Version(c) \in Versions /\ Version(c)[1] = c
  BY <1>1, VersionType DEF IInv, Version
<1>3. \A v \in g : v[1] # c
  BY <1>1 DEF IInv, GuardsOwned
<1>4. Around(c, g)
  <2>1. armed \subseteq g \cup leaked \cup asked'
    BY <1>1 DEF IInv, GuardedVersionsReclaimed
  <2>2. asked' \subseteq Versions /\ wire' \subseteq Versions
    BY <1>1, <1>2 DEF IInv, TypeOK
  <2>3. live' \subseteq live /\ \A v \in live : v[1] # c => v \in live'
    BY <1>1, <1>2
  <2>4. QED
    BY <1>1, <1>3, <2>1, <2>2, <2>3 DEF Around
<1>5. QED
  BY <1>1, <1>4, OutcomeIInv

\* A step of c from one await to the next leaves the counters and the output
\* alone.
MovesOn(c) ==
  /\ at[c] \in Awaits /\ at'[c] \in Awaits
  /\ at' \in [Cells -> Awaits \cup Fates]
  /\ \A d \in Cells : d # c => at'[d] = at[d]
  /\ UNCHANGED <<phase, pulled, kept, failures, live, leaked, asked, output>>

\* Such a step keeps everything but what the cell's guard and version do.
LEMMA MovesOnIInv ==
  ASSUME IInv, phase = "run", NEW c \in Cells, MovesOn(c)
  PROVE /\ Queue' /\ Budget' /\ PhaseOfCells' /\ LeakedDrained'
        /\ RowsAccounted' /\ MetaFinal' /\ MetaTruthful'
<1> USE AwaitsFacts
<1>1. /\ phase' = phase /\ pulled' = pulled /\ kept' = kept /\ failures' = failures
      /\ leaked' = leaked /\ file' = file /\ recorded' = recorded /\ meta' = meta
      /\ at[c] \in Awaits /\ at'[c] \in Awaits
      /\ \A d \in Cells : d # c => at'[d] = at[d]
  BY DEF MovesOn, output
<1>2. Queue'
  <2>1. \A i \in DOMAIN Order : Order[i] \in Cells
    BY OrderFacts
  <2>2. \A d \in Cells : at'[d] = "queued" <=> at[d] = "queued"
    BY <1>1
  <2>3. QED
    BY <1>1, <2>1, <2>2 DEF IInv, Queue
<1>3. Budget'
  BY <1>1 DEF IInv, Budget
<1>4. PhaseOfCells' /\ LeakedDrained'
  BY <1>1 DEF IInv, PhaseOfCells, LeakedDrained
<1>5. RowsAccounted'
  <2>1. \A d \in Cells : /\ at'[d] = "done" <=> at[d] = "done"
                         /\ at'[d] = "failed" <=> at[d] = "failed"
    BY <1>1
  <2>2. {d \in Cells : at'[d] = "done"} = {d \in Cells : at[d] = "done"}
    BY <2>1
  <2>3. QED
    BY <1>1, <2>1, <2>2 DEF IInv, RowsAccounted
<1>6. MetaFinal' /\ MetaTruthful'
  BY <1>1 DEF IInv, MetaFinal, MetaTruthful
<1>7. QED
  BY <1>2, <1>3, <1>4, <1>5, <1>6

\* Sending a PublishVersion keeps the invariant.
LEMMA SendPublishIInv ==
  ASSUME IInv, phase = "run", NEW c \in Cells, SendPublish(c)
  PROVE IInv'
<1> USE AwaitsFacts
<1>1. /\ at[c] = "start" /\ at' = [at EXCEPT ![c] = "publish"]
      /\ at \in [Cells -> Awaits \cup Fates]
      /\ wire' = wire \cup {Version(c)}
      /\ UNCHANGED <<phase, pulled, kept, failures, clean, live, guards, output>>
  BY DEF IInv, TypeOK, SendPublish, MoveTo
<1>2. MovesOn(c)
  BY <1>1 DEF MovesOn, guards
<1>3. TypeOK'
  <2>1. Version(c) \in Versions
    BY <1>1, VersionType DEF IInv
  <2>2. QED
    BY <1>1, <1>2, <2>1 DEF IInv, TypeOK, MovesOn, guards, output
<1>4. GuardsOwned' /\ GuardedVersionsReclaimed'
  BY <1>1, Unguarded
  DEF IInv, TypeOK, GuardsOwned, GuardedVersionsReclaimed, Version, guards, Versions
<1>5. VersionAlive'
  BY <1>1 DEF IInv, VersionAlive, Version
<1>6. QED
  BY <1>2, <1>3, <1>4, <1>5, MovesOnIInv DEF IInv

\* The answer to PublishVersion, a version not yet guarded, keeps the invariant.
LEMMA PublishAnsweredIInv ==
  ASSUME IInv, phase = "run", NEW c \in Cells, PublishAnswered(c)
  PROVE IInv'
<1> USE AwaitsFacts
<1>1. /\ at[c] = "publish" /\ at' = [at EXCEPT ![c] = "activate"]
      /\ at \in [Cells -> Awaits \cup Fates]
      /\ Version(c) \in live
      /\ UNCHANGED <<phase, pulled, kept, failures, clean, cloud, guards, output>>
  BY DEF IInv, TypeOK, PublishAnswered, MoveTo
<1>2. MovesOn(c)
  BY <1>1 DEF MovesOn, guards, cloud
<1>3. TypeOK'
  BY <1>1, <1>2 DEF IInv, TypeOK, MovesOn, guards, output, cloud
<1>4. GuardsOwned' /\ GuardedVersionsReclaimed'
  BY <1>1, Unguarded
  DEF IInv, TypeOK, GuardsOwned, GuardedVersionsReclaimed, Version, guards, Versions
<1>5. VersionAlive'
  BY <1>1 DEF IInv, VersionAlive, Version, cloud
<1>6. QED
  BY <1>2, <1>3, <1>4, <1>5, MovesOnIInv DEF IInv

\* A version turning active, at which its guard is armed, keeps the invariant.
LEMMA ActivatedIInv ==
  ASSUME IInv, phase = "run", NEW c \in Cells, Activated(c)
  PROVE IInv'
<1> USE AwaitsFacts
<1>1. /\ at[c] = "activate" /\ at' = [at EXCEPT ![c] = "measure"]
      /\ at \in [Cells -> Awaits \cup Fates]
      /\ guarded' = guarded \cup {Version(c)} /\ armed' = armed \cup {Version(c)}
      /\ UNCHANGED <<phase, pulled, kept, failures, clean, cloud, leaked, asked, output>>
  BY DEF IInv, TypeOK, Activated, MoveTo
<1>2. MovesOn(c)
  BY <1>1 DEF MovesOn, cloud
<1>3. Version(c) \in Versions /\ Version(c)[1] = c
  BY <1>1, VersionType DEF IInv, Version
<1>4. TypeOK'
  BY <1>1, <1>2, <1>3 DEF IInv, TypeOK, MovesOn, output, cloud
<1>5. GuardsOwned'
  <2>1. ASSUME NEW v \in guarded'
        PROVE at'[v[1]] \in {"measure", "delete"} /\ v = Version(v[1])
    <3>1. CASE v \in guarded
      <4>1. v[1] \in Cells /\ v[1] # c
        BY <1>1, <3>1, Unguarded DEF IInv, TypeOK, Versions
      <4>2. QED
        BY <1>1, <3>1, <4>1 DEF IInv, GuardsOwned
    <3>2. CASE v = Version(c)
      BY <1>1, <1>3, <3>2
    <3>3. QED
      BY <1>1, <2>1, <3>1, <3>2
  <2>2. \A d : Version(d)' = Version(d)
    BY <1>1 DEF Version
  <2>3. QED
    BY <1>1, <2>1 DEF GuardsOwned, Version
<1>6. GuardedVersionsReclaimed'
  BY <1>1 DEF IInv, GuardedVersionsReclaimed
<1>7. VersionAlive'
  BY <1>1 DEF IInv, VersionAlive, Version, cloud
<1>8. QED
  BY <1>2, <1>4, <1>5, <1>6, <1>7, MovesOnIInv DEF IInv

\* The end of a measured cycle, which leads to the inline delete, keeps the
\* invariant.
LEMMA MeasuredIInv ==
  ASSUME IInv, phase = "run", NEW c \in Cells, Measured(c)
  PROVE IInv'
<1> USE AwaitsFacts
<1>1. /\ at[c] = "measure" /\ at' = [at EXCEPT ![c] = "delete"]
      /\ at \in [Cells -> Awaits \cup Fates]
      /\ clean' \in [Cells -> BOOLEAN]
      /\ UNCHANGED <<phase, pulled, kept, failures, cloud, guards, output>>
  BY DEF IInv, TypeOK, Measured, MoveTo
<1>2. MovesOn(c)
  BY <1>1 DEF MovesOn, guards, cloud
<1>3. TypeOK'
  BY <1>1, <1>2 DEF IInv, TypeOK, MovesOn, guards, output, cloud
<1>4. GuardsOwned' /\ GuardedVersionsReclaimed'
  <2>1. \A v \in guarded : v[1] \in Cells
    BY DEF IInv, TypeOK, Versions
  <2>2. \A v \in guarded : at'[v[1]] \in {"measure", "delete"}
    BY <1>1, <2>1 DEF IInv, GuardsOwned
  <2>3. QED
    BY <1>1, <2>2 DEF IInv, GuardsOwned, GuardedVersionsReclaimed, Version, guards
<1>5. VersionAlive'
  BY <1>1 DEF IInv, VersionAlive, Version, cloud
<1>6. QED
  BY <1>2, <1>3, <1>4, <1>5, MovesOnIInv DEF IInv

\* One of the eight.
LEMMA CellStepIInv ==
  ASSUME IInv, NEW c \in Cells, CellStep(c)
  PROVE IInv'
<1>1. phase # "crashed" /\ at[c] \in Awaits
  BY AwaitsFacts
  DEF CellStep, SampleLatest, SendPublish, BumpFails, PublishAnswered, PublishErrs,
      Activated, Measured, DeleteReturns, AskedAfter
<1>2. phase = "run"
  BY <1>1, InFlightRuns
<1>3. QED
  BY <1>2, SampleLatestIInv, SendPublishIInv, BumpFailsIInv, PublishAnsweredIInv,
     PublishErrsIInv, ActivatedIInv, MeasuredIInv, DeleteReturnsIInv
  DEF CellStep

-----------------------------------------------------------------------------
(* The other actions.                                                      *)

\* The inductive invariant holds when the run starts.
LEMMA InitIInv == Init => IInv
<1> SUFFICES ASSUME Init PROVE IInv
  OBVIOUS
<1> USE AwaitsFacts
<1>1. /\ phase = "run" /\ pulled = 0 /\ meta = "running" /\ recorded = 0
      /\ at = [c \in Cells |-> "queued"]
      /\ kept = [c \in Cells |-> 0] /\ failures = [c \in Cells |-> 0]
      /\ clean = [c \in Cells |-> FALSE] /\ file = [c \in Cells |-> "absent"]
      /\ wire = {} /\ live = {} /\ guarded = {} /\ leaked = {} /\ armed = {} /\ asked = {}
  BY DEF Init
<1>2. TypeOK
  BY <1>1, OrderFacts, BoundsAssumption DEF TypeOK, Fates
<1>3. Queue /\ Budget
  BY <1>1, OrderFacts, BoundsAssumption DEF Queue, Budget
<1>4. PhaseOfCells /\ GuardsOwned /\ GuardedVersionsReclaimed /\ LeakedDrained
  BY <1>1 DEF PhaseOfCells, GuardsOwned, GuardedVersionsReclaimed, LeakedDrained
<1>5. VersionAlive /\ MetaFinal /\ MetaTruthful
  BY <1>1 DEF VersionAlive, MetaFinal, MetaTruthful
<1>6. RowsAccounted
  <2>1. {c \in Cells : at[c] = "done"} = {}
    BY <1>1
  <2>2. QED
    BY <1>1, <2>1, FS_EmptySet DEF RowsAccounted
<1>7. QED
  BY <1>2, <1>3, <1>4, <1>5, <1>6 DEF IInv

\* The pool taking up the next cell keeps the invariant.
LEMMA PullIInv ==
  ASSUME IInv, Pull
  PROVE IInv'
<1> USE AwaitsFacts
<1> DEFINE n == pulled + 1
           c == Order[n]
<1>1. /\ phase = "run" /\ pulled < Len(Order) /\ pulled' = n
      /\ at' = [at EXCEPT ![c] = "start"]
      /\ UNCHANGED <<phase, kept, failures, clean, cloud, guards, output>>
  BY DEF Pull, MoveTo
<1>2. /\ pulled \in Nat /\ n \in DOMAIN Order /\ c \in Cells /\ n > pulled
      /\ at \in [Cells -> Awaits \cup Fates]
  BY <1>1, OrderFacts DEF IInv, TypeOK
<1>3. at[c] = "queued"
  BY <1>2 DEF IInv, Queue
<1> HIDE DEF n, c
<1>4. /\ at'[c] = "start" /\ at' \in [Cells -> Awaits \cup Fates]
      /\ \A d \in Cells : d # c => at'[d] = at[d]
  BY <1>1, <1>2
<1>5. TypeOK'
  <2>1. TypeOK
    BY DEF IInv
  <2>2. pulled' \in 0 .. Len(Order)
    <3>1. Len(Order) \in Nat
      BY OrderFacts
    <3> QED
      BY <1>1, <1>2, <3>1
  <2> QED
    BY <1>1, <1>4, <2>1, <2>2 DEF TypeOK, cloud, guards, output
<1>6. Queue'
  <2>1. ASSUME NEW i \in DOMAIN Order
        PROVE i > n <=> at'[Order[i]] = "queued"
    <3>1. i \in Nat /\ Order[i] \in Cells
      BY <2>1, OrderFacts
    <3>2. CASE i = n
      BY <1>2, <1>4, <3>1, <3>2 DEF c, n
    <3>3. CASE i # n
      <4>1. Order[i] # c
        BY <1>2, <2>1, <3>3, OrderAssumption DEF c
      <4>2. at'[Order[i]] = at[Order[i]]
        BY <1>4, <3>1, <4>1
      <4>3. i > n <=> i > pulled
        BY <1>2, <3>1, <3>3 DEF n
      <4>4. QED
        BY <2>1, <4>2, <4>3 DEF IInv, Queue
    <3>4. QED
      BY <3>2, <3>3
  <2>2. QED
    BY <1>1, <2>1 DEF Queue
<1>7. Budget'
  BY <1>1, <1>3, <1>4 DEF IInv, Budget
<1>8. PhaseOfCells'
  BY <1>1, <1>4 DEF IInv, PhaseOfCells
<1>9. GuardsOwned' /\ GuardedVersionsReclaimed' /\ LeakedDrained'
  <2>1. \A v \in guarded : v[1] \in Cells /\ v[1] # c
    BY <1>1, <1>2, <1>3, Unguarded DEF IInv, TypeOK, Versions
  <2>2. \A v \in guarded : at'[v[1]] \in {"measure", "delete"}
    BY <1>1, <1>4, <2>1 DEF IInv, GuardsOwned
  <2>3. QED
    BY <1>1, <2>2
    DEF IInv, GuardsOwned, GuardedVersionsReclaimed, LeakedDrained, Version, guards
<1>10. VersionAlive'
  BY <1>1, <1>4 DEF IInv, VersionAlive, Version, cloud
<1>11. RowsAccounted'
  <2>1. \A d \in Cells : at'[d] = "done" <=> at[d] = "done"
    BY <1>3, <1>4
  <2>2. {d \in Cells : at'[d] = "done"} = {d \in Cells : at[d] = "done"}
    BY <2>1
  <2>3. \A d \in Cells : at[d] \in {"done", "failed"} => at'[d] = at[d]
    BY <1>3, <1>4
  <2>4. QED
    BY <1>1, <2>1, <2>2, <2>3 DEF IInv, RowsAccounted, output
<1>12. MetaFinal' /\ MetaTruthful'
  BY <1>1 DEF IInv, MetaFinal, MetaTruthful, output
<1>13. QED
  BY <1>5, <1>6, <1>7, <1>8, <1>9, <1>10, <1>11, <1>12 DEF IInv

\* The pool running dry and handing over to the drain keeps the invariant.
LEMMA FinishIInv ==
  ASSUME IInv, Finish
  PROVE IInv'
<1> USE AwaitsFacts
<1>1. /\ phase = "run" /\ phase' = "drain"
      /\ pulled = Len(Order) /\ InFlight = {}
      /\ UNCHANGED <<pulled, cellVars, cloud, guards, output>>
  BY DEF Finish
<1>2. /\ pulled' = pulled /\ at' = at /\ kept' = kept /\ failures' = failures
      /\ clean' = clean /\ wire' = wire /\ live' = live /\ guarded' = guarded
      /\ leaked' = leaked /\ armed' = armed /\ asked' = asked /\ file' = file
      /\ recorded' = recorded /\ meta' = meta
  BY <1>1 DEF cellVars, cloud, guards, output
<1>3. \A c \in Cells : at[c] \notin Awaits
  BY <1>1 DEF InFlight
<1>4. \A c \in Cells : at[c] # "queued"
  <2>1. \A i \in DOMAIN Order : ~(i > pulled)
    BY <1>1, OrderFacts
  <2>2. \A i \in DOMAIN Order : at[Order[i]] # "queued"
    BY <2>1 DEF IInv, Queue
  <2>3. QED
    BY <2>2, OrderFacts
<1>5. \A c \in Cells : at[c] = "done"
  <2>1. \A c \in Cells : at[c] \in Awaits \cup Fates
    BY DEF IInv, TypeOK
  <2>2. QED
    BY <1>1, <1>3, <1>4, <2>1 DEF IInv, PhaseOfCells, Fates
<1>6. guarded = {}
  <2>1. \A v \in guarded : v[1] \in Cells /\ at[v[1]] \in Awaits
    BY <1>1 DEF IInv, TypeOK, Versions, GuardsOwned
  <2>2. QED
    BY <1>3, <2>1
<1>7. TypeOK'
  BY <1>1, <1>2 DEF IInv, TypeOK
<1>8. Queue' /\ Budget' /\ VersionAlive' /\ RowsAccounted' /\ MetaTruthful'
  BY <1>1, <1>2 DEF IInv, Queue, Budget, VersionAlive, Version, RowsAccounted, MetaTruthful
<1>9. PhaseOfCells' /\ GuardsOwned' /\ GuardedVersionsReclaimed' /\ LeakedDrained'
      /\ MetaFinal'
  BY <1>1, <1>2, <1>3, <1>5, <1>6
  DEF IInv, PhaseOfCells, GuardsOwned, GuardedVersionsReclaimed, LeakedDrained, MetaFinal
<1>10. QED
  BY <1>7, <1>8, <1>9 DEF IInv

\* Lambda performing a publish, perhaps for a cell long dropped, keeps the
\* invariant.
LEMMA PerformPublishIInv ==
  ASSUME IInv, PerformPublish
  PROVE IInv'
<1>1. PICK v \in wire : wire' = wire \ {v} /\ live' = live \cup {v}
  BY DEF PerformPublish
<1>2. /\ phase' = phase /\ pulled' = pulled /\ at' = at /\ kept' = kept
      /\ failures' = failures /\ clean' = clean /\ guarded' = guarded
      /\ leaked' = leaked /\ armed' = armed /\ asked' = asked /\ file' = file
      /\ recorded' = recorded /\ meta' = meta
  BY DEF PerformPublish, cellVars, guards, output
<1>3. TypeOK'
  BY <1>1, <1>2 DEF IInv, TypeOK
<1>4. VersionAlive'
  BY <1>1, <1>2 DEF IInv, VersionAlive, Version
<1>5. QED
  BY <1>2, <1>3, <1>4
  DEF IInv, Queue, Budget, PhaseOfCells, GuardsOwned, Version,
      GuardedVersionsReclaimed, LeakedDrained, RowsAccounted, MetaFinal, MetaTruthful

\* Lambda performing the inline delete a cell waits for keeps the invariant.
LEMMA PerformDeleteIInv ==
  ASSUME IInv, NEW c \in Cells, PerformDelete(c)
  PROVE IInv'
<1>1. /\ at[c] = "delete" /\ live' = live \ {Version(c)}
      /\ phase' = phase /\ pulled' = pulled /\ at' = at /\ kept' = kept
      /\ failures' = failures /\ clean' = clean /\ wire' = wire /\ guarded' = guarded
      /\ leaked' = leaked /\ armed' = armed /\ asked' = asked /\ file' = file
      /\ recorded' = recorded /\ meta' = meta
  BY DEF PerformDelete, cellVars, guards, output
<1>2. TypeOK'
  BY <1>1 DEF IInv, TypeOK
<1>3. VersionAlive'
  <2>1. ASSUME NEW d \in Cells, at[d] \in {"activate", "measure"}
        PROVE Version(d) \in live'
    <3>1. d # c /\ Version(d) \in live
      BY <1>1, <2>1 DEF IInv, VersionAlive
    <3>2. Version(d) # Version(c)
      BY <3>1 DEF Version
    <3>3. QED
      BY <1>1, <3>1, <3>2
  <2>2. QED
    BY <1>1, <2>1 DEF VersionAlive, Version
<1>4. QED
  BY <1>1, <1>2, <1>3
  DEF IInv, Queue, Budget, PhaseOfCells, GuardsOwned, Version,
      GuardedVersionsReclaimed, LeakedDrained, RowsAccounted, MetaFinal, MetaTruthful

\* A step of the drain after the pool keeps the invariant.
LEMMA DrainIInv ==
  ASSUME IInv, Drain
  PROVE IInv'
<1> USE AwaitsFacts
<1>1. PICK v \in leaked : /\ Deleted(v) /\ asked' = asked \cup {v}
                          /\ leaked' = leaked \ {v}
  BY DEF Drain, LeakedAfter
<1>2. /\ phase = "drain" /\ phase' = phase /\ pulled' = pulled /\ at' = at
      /\ kept' = kept /\ failures' = failures /\ clean' = clean /\ wire' = wire
      /\ guarded' = guarded /\ armed' = armed /\ file' = file
      /\ recorded' = recorded /\ meta' = meta
  BY DEF Drain, cellVars, output
<1>3. live' \subseteq live
  BY <1>1 DEF Deleted
<1>4. TypeOK'
  BY <1>1, <1>2, <1>3 DEF IInv, TypeOK
<1>5. VersionAlive'
  BY <1>2 DEF IInv, PhaseOfCells, VersionAlive
<1>6. GuardedVersionsReclaimed' /\ LeakedDrained'
  BY <1>1, <1>2 DEF IInv, GuardedVersionsReclaimed, LeakedDrained
<1>7. QED
  BY <1>2, <1>4, <1>5, <1>6
  DEF IInv, Queue, Budget, PhaseOfCells, GuardsOwned, Version, RowsAccounted,
      MetaFinal, MetaTruthful

\* The status is that of the cells, all of which are done unless one failed.
LEMMA CloseIInv ==
  ASSUME IInv, Close
  PROVE IInv'
<1>1. /\ phase = "drain" /\ leaked = {} /\ phase' = "ended"
      /\ meta' \in {Status, "running", "unreadable"}
      /\ pulled' = pulled /\ at' = at /\ kept' = kept /\ failures' = failures
      /\ clean' = clean /\ wire' = wire /\ live' = live /\ guarded' = guarded
      /\ leaked' = leaked /\ armed' = armed /\ asked' = asked /\ file' = file
      /\ recorded' = recorded
  BY DEF Close, cellVars, cloud, guards
<1>2. TypeOK'
  BY <1>1 DEF IInv, TypeOK, Status
<1>3. recorded = Cardinality(DoneCells)
  BY DEF IInv, RowsAccounted, DoneCells
<1>4. MetaTruthful'
  <2>1. CASE \E c \in Cells : at[c] = "failed"
    <3>1. DoneCells # Cells
      BY <2>1 DEF DoneCells
    <3>2. recorded < Cardinality(Cells)
      BY <1>3, <3>1, DoneFinite
    <3>3. meta' # "ok"
      BY <1>1, <2>1 DEF Status
    <3>4. QED
      BY <1>1, <3>2, <3>3 DEF MetaTruthful
  <2>2. CASE ~\E c \in Cells : at[c] = "failed"
    <3>1. \A c \in Cells : at[c] = "done"
      BY <1>1, <2>2 DEF IInv, PhaseOfCells
    <3>2. DoneCells = Cells
      BY <3>1 DEF DoneCells
    <3>3. recorded = Cardinality(Cells) /\ \A c \in Cells : file[c] = "whole"
      BY <1>3, <3>1, <3>2 DEF IInv, RowsAccounted
    <3>4. meta' # "failed"
      BY <1>1, <2>2 DEF Status
    <3>5. QED
      BY <1>1, <3>3, <3>4 DEF MetaTruthful
  <2>3. QED
    BY <2>1, <2>2
<1>5. GuardedVersionsReclaimed'
  BY <1>1 DEF IInv, GuardsOwned, GuardedVersionsReclaimed
<1>6. PhaseOfCells' /\ GuardsOwned' /\ LeakedDrained' /\ MetaFinal'
  BY <1>1 DEF IInv, PhaseOfCells, GuardsOwned, LeakedDrained, MetaFinal
<1>7. Queue' /\ Budget' /\ VersionAlive' /\ RowsAccounted'
  BY <1>1 DEF IInv, Queue, Budget, VersionAlive, Version, RowsAccounted
<1>8. QED
  BY <1>2, <1>4, <1>5, <1>6, <1>7 DEF IInv

\* A crash may tear the rows of a cell that is being written; it was not done.
LEMMA CrashIInv ==
  ASSUME IInv, Crash
  PROVE IInv'
<1>1. /\ phase \notin {"ended", "crashed"} /\ phase' = "crashed"
      /\ guarded' = {} /\ leaked' = {}
      /\ pulled' = pulled /\ at' = at /\ kept' = kept /\ failures' = failures
      /\ clean' = clean /\ wire' = wire /\ live' = live
      /\ armed' = armed /\ asked' = asked
      /\ recorded' = recorded /\ meta' = meta
  BY DEF Crash, cellVars, cloud
<1>2. /\ file' \in [Cells -> {"absent", "torn", "whole"}]
      /\ \A c \in Cells : at[c] = "done" => file'[c] = file[c]
  <2>1. file \in [Cells -> {"absent", "torn", "whole"}]
    BY DEF IInv, TypeOK
  <2>2. CASE UNCHANGED file
    BY <2>1, <2>2
  <2>3. ASSUME NEW c \in Cells, LastCycle(c), file' = [file EXCEPT ![c] = "torn"]
        PROVE /\ file' \in [Cells -> {"absent", "torn", "whole"}]
              /\ \A d \in Cells : at[d] = "done" => file'[d] = file[d]
    <3>1. at[c] # "done"
      BY <2>3 DEF LastCycle
    <3>2. QED
      BY <2>1, <2>3, <3>1
  <2>4. QED
    BY <2>2, <2>3 DEF Crash
<1>3. TypeOK'
  BY <1>1, <1>2 DEF IInv, TypeOK
<1>4. RowsAccounted'
  BY <1>1, <1>2 DEF IInv, RowsAccounted
<1>5. MetaFinal' /\ MetaTruthful'
  BY <1>1 DEF IInv, MetaFinal, MetaTruthful
<1>6. QED
  BY <1>1, <1>3, <1>4, <1>5
  DEF IInv, Queue, Budget, PhaseOfCells, GuardsOwned, GuardedVersionsReclaimed,
      LeakedDrained, VersionAlive, Version

-----------------------------------------------------------------------------
(* The theorems.                                                           *)

\* Every step of the run keeps the inductive invariant.
LEMMA NextIInv == IInv /\ [Next]_vars => IInv'
<1> SUFFICES ASSUME IInv, [Next]_vars PROVE IInv'
  OBVIOUS
<1>1. CASE Driver
  BY <1>1, PullIInv, FinishIInv, DrainIInv, CloseIInv, CellStepIInv DEF Driver
<1>2. CASE PerformPublish
  BY <1>2, PerformPublishIInv
<1>3. ASSUME NEW c \in Cells, PerformDelete(c) PROVE IInv'
  BY <1>3, PerformDeleteIInv
<1>4. CASE Crash
  BY <1>4, CrashIInv
<1>5. CASE UNCHANGED vars
  BY <1>5
  DEF vars, cellVars, cloud, guards, output, IInv, TypeOK, Queue, Budget,
      PhaseOfCells, GuardsOwned, GuardedVersionsReclaimed, LeakedDrained,
      VersionAlive, Version, RowsAccounted, MetaFinal, MetaTruthful
<1>6. QED
  BY <1>1, <1>2, <1>3, <1>4, <1>5 DEF Next

\* The invariant holds in every behaviour.
THEOREM PoolInductive == Spec => []IInv
  BY InitIInv, NextIInv, PTL DEF Spec

\* Every variable keeps its type.
THEOREM PoolTypeCorrect == Spec => []TypeOK
<1>1. IInv => TypeOK
  BY DEF IInv
<1>2. QED
  BY <1>1, PoolInductive, PTL

\* Every version that ever had a guard is guarded, waits for the drain or had
\* its delete tried; by the end of the run each had.
THEOREM VersionsReclaimed == Spec => []GuardedVersionsReclaimed
<1>1. IInv => GuardedVersionsReclaimed
  BY DEF IInv
<1>2. QED
  BY <1>1, PoolInductive, PTL

\* No version is deleted under the invokes that measure it.
THEOREM MeasuredAlive == Spec => []MeasuredVersionAlive
<1>1. IInv => MeasuredVersionAlive
  BY DEF IInv, VersionAlive, MeasuredVersionAlive
<1>2. QED
  BY <1>1, PoolInductive, PTL

\* The rows counted are those of the cells done, all of them in the file.
THEOREM RowsCorrect == Spec => []RowsAccounted
<1>1. IInv => RowsAccounted
  BY DEF IInv
<1>2. QED
  BY <1>1, PoolInductive, PTL

\* The meta says ok of complete datasets only, and failed of incomplete ones.
THEOREM MetaCorrect == Spec => []MetaTruthful
<1>1. IInv => MetaTruthful
  BY DEF IInv
<1>2. QED
  BY <1>1, PoolInductive, PTL

\* What a step leaves alone once a cell has failed.
Settled == UNCHANGED <<pulled, kept, failures, file, recorded, armed>>

\* After a failure no step but those of the drain, of Lambda and the crash is left.
LEMMA FailedStep ==
  ASSUME IInv, [Next]_vars, NEW c \in Cells, at[c] = "failed"
  PROVE Settled
<1>1. phase # "run" /\ \A d \in Cells : phase # "crashed" => at[d] \notin Awaits
  BY DEF IInv, TypeOK, PhaseOfCells
<1>2. ASSUME NEW d \in Cells PROVE ~CellStep(d)
  <2>1. CellStep(d) => phase # "crashed" /\ at[d] \in Awaits
    BY DEF CellStep, SampleLatest, SendPublish, BumpFails, PublishAnswered,
       PublishErrs, Activated, Measured, DeleteReturns, AskedAfter, Awaits
  <2>2. QED
    BY <1>1, <2>1
<1>3. ASSUME Drain \/ Close \/ PerformPublish PROVE Settled
  BY <1>3 DEF Drain, Close, PerformPublish, Settled, cellVars, output, guards, cloud
<1>4. ASSUME NEW d \in Cells, PerformDelete(d) PROVE Settled
  BY <1>4 DEF PerformDelete, Settled, cellVars, output, guards
<1>5. ASSUME Crash PROVE Settled
  <2>1. phase # "crashed"
    BY <1>5 DEF Crash
  <2>2. \A d \in Cells : ~LastCycle(d)
    BY <1>1, <2>1 DEF LastCycle, Awaits
  <2>3. file' = file
    BY <1>5, <2>2 DEF Crash
  <2>4. QED
    BY <1>5, <2>3 DEF Crash, Settled, cellVars
<1>6. ASSUME UNCHANGED vars PROVE Settled
  BY <1>6 DEF vars, cellVars, output, guards, Settled
<1>7. ~Pull /\ ~Finish
  BY <1>1 DEF Pull, Finish
<1>8. QED
  BY <1>2, <1>3, <1>4, <1>5, <1>6, <1>7 DEF Next, Driver

\* Once a cell has failed, no other advances or adds rows and none is pulled.
THEOREM FailFastCorrect == Spec => FailFastStops
<1>1. IInv /\ [Next]_vars =>
        [(\E c \in Cells : at[c] = "failed") => Settled]_vars
  BY FailedStep
<1>2. IInv /\ [Next]_vars =>
        [(\E c \in Cells : at[c] = "failed") =>
           UNCHANGED <<pulled, kept, failures, file, recorded, armed>>]_vars
  BY <1>1 DEF Settled
<1>3. QED
  BY <1>2, PoolInductive, PTL DEF Spec, FailFastStops

-----------------------------------------------------------------------------
(* Every cell is what CellSampling says.                                   *)

\* What CellSampling calls fate.
FateOf(c) ==
  IF at[c] = "done" THEN "committed"
  ELSE IF at[c] \in {"failed", "dropped"} \/ phase # "run" THEN "aborted"
  ELSE "sampling"

\* Its steps, in the terms of RunPool.
SamplingStep(c) ==
  \/ kept'[c] = kept[c] /\ FateOf(c)' = FateOf(c)
  \/ /\ FateOf(c) = "sampling" /\ FateOf(c)' = "sampling"
     /\ kept[c] < Cycles /\ kept'[c] = kept[c] + 1
  \/ /\ FateOf(c) = "sampling" /\ FateOf(c)' \in {"committed", "aborted"}
     /\ kept'[c] = kept[c] \/ (kept[c] + 1 = Cycles /\ kept'[c] = Cycles)
     /\ FateOf(c)' = "committed" => kept'[c] = Cycles

\* They are CellSampling's.
LEMMA SamplingStepMaps ==
  ASSUME NEW c \in Cells, SamplingStep(c)
  PROVE [CellOf(c)!Next]_(CellOf(c)!vars)
  BY DEF SamplingStep, FateOf, CellOf!Next, CellOf!Keep, CellOf!Commit, CellOf!Abort,
     CellOf!Last, CellOf!vars

\* A failure aborts the cells that are not done, whether or not its own cell has
\* kept a last cycle.
LEMMA FailFastSamples ==
  ASSUME IInv, phase = "run", NEW c \in Cells, at[c] \in Awaits, NEW g, FailFast(c, g),
         \A d \in Cells : d # c => kept'[d] = kept[d],
         kept'[c] = kept[c] \/ (kept[c] + 1 = Cycles /\ kept'[c] = Cycles)
  PROVE \A d \in Cells : SamplingStep(d)
<1>1. phase' = "drain" /\ at' = AfterFailure(c)
  BY DEF FailFast
<1>2. ASSUME NEW d \in Cells PROVE SamplingStep(d)
  <2>1. at[d] \in Awaits \cup {"queued", "done"}
    BY DEF IInv, TypeOK, PhaseOfCells, Fates
  <2>2. CASE at[d] = "done"
    BY <1>1, <2>2 DEF SamplingStep, FateOf, AfterFailure, Awaits
  <2>3. CASE at[d] # "done"
    <3>1. at'[d] # "done"
      BY <1>1, <2>3 DEF AfterFailure
    <3>2. FateOf(d) = "sampling" /\ FateOf(d)' = "aborted"
      BY <1>1, <2>1, <2>3, <3>1 DEF FateOf, Awaits
    <3>3. QED
      BY <3>2 DEF SamplingStep
  <2>4. QED
    BY <2>2, <2>3
<1>3. QED
  BY <1>2

\* So it is with a failed attempt,
LEMMA AttemptFailsSamples ==
  ASSUME IInv, phase = "run", NEW c \in Cells, at[c] \in Awaits, NEW g,
         AttemptFails(c, g)
  PROVE \A d \in Cells : SamplingStep(d)
<1>1. kept' = kept
  BY DEF AttemptFails
<1>2. CASE RetriesLeft(c)
  <2>1. /\ phase' = phase /\ at' = [at EXCEPT ![c] = "start"]
        /\ at \in [Cells -> Awaits \cup Fates]
    BY <1>2 DEF AttemptFails, MoveTo, IInv, TypeOK
  <2>2. QED
    BY <1>1, <2>1 DEF SamplingStep, FateOf, Awaits
<1>3. CASE ~RetriesLeft(c)
  <2>1. FailFast(c, g)
    BY <1>3 DEF AttemptFails
  <2>2. QED
    BY <1>1, <2>1, FailFastSamples
<1>4. QED
  BY <1>2, <1>3

\* and with a kept cycle.
LEMMA CycleKeptSamples ==
  ASSUME IInv, phase = "run", NEW c \in Cells, at[c] \in Awaits, NEW g, CycleKept(c, g)
  PROVE \A d \in Cells : SamplingStep(d)
<1>1. /\ kept[c] \in Nat /\ Cycles \in Nat /\ kept[c] < Cycles
      /\ kept \in [Cells -> 0 .. Cycles] /\ at \in [Cells -> Awaits \cup Fates]
  BY BoundsAssumption DEF IInv, TypeOK, Budget
<1>2. kept'[c] = kept[c] + 1 /\ \A d \in Cells : d # c => kept'[d] = kept[d]
  BY <1>1 DEF CycleKept
<1>3. ASSUME phase' = phase, at' = [at EXCEPT ![c] = "start"]
      PROVE \A d \in Cells : SamplingStep(d)
  BY <1>1, <1>2, <1>3 DEF SamplingStep, FateOf, Awaits
<1>4. ASSUME phase' = phase, kept[c] + 1 = Cycles, at' = [at EXCEPT ![c] = "done"]
      PROVE \A d \in Cells : SamplingStep(d)
  BY <1>1, <1>2, <1>4 DEF SamplingStep, FateOf, Awaits
<1>5. ASSUME kept[c] + 1 = Cycles, FailFast(c, g)
      PROVE \A d \in Cells : SamplingStep(d)
  BY <1>2, <1>5, FailFastSamples
<1>6. QED
  BY <1>3, <1>4, <1>5 DEF CycleKept, MoveTo

\* Whatever a cell in flight does.
LEMMA CellStepSamples ==
  ASSUME IInv, NEW c \in Cells, CellStep(c)
  PROVE \A d \in Cells : SamplingStep(d)
<1>1. phase # "crashed" /\ at[c] \in Awaits
  BY DEF CellStep, SampleLatest, SendPublish, BumpFails, PublishAnswered, PublishErrs,
     Activated, Measured, DeleteReturns, Awaits
<1>2. phase = "run"
  BY <1>1, InFlightRuns
<1>3. CASE SampleLatest(c)
  BY <1>1, <1>2, <1>3, AttemptFailsSamples, CycleKeptSamples DEF SampleLatest
<1>4. CASE BumpFails(c) \/ PublishErrs(c)
  BY <1>1, <1>2, <1>4, AttemptFailsSamples DEF BumpFails, PublishErrs
<1>5. CASE DeleteReturns(c)
  BY <1>1, <1>2, <1>5, AttemptFailsSamples, CycleKeptSamples DEF DeleteReturns
<1>6. CASE SendPublish(c) \/ PublishAnswered(c) \/ Activated(c) \/ Measured(c)
  <2>1. /\ phase' = phase /\ kept' = kept
        /\ \E s \in Awaits : at' = [at EXCEPT ![c] = s]
    BY <1>6 DEF SendPublish, PublishAnswered, Activated, Measured, MoveTo, Awaits
  <2>2. at \in [Cells -> Awaits \cup Fates]
    BY DEF IInv, TypeOK
  <2>3. \A d \in Cells : at'[d] = at[d] \/ (at[d] \in Awaits /\ at'[d] \in Awaits)
    BY <1>1, <2>1, <2>2
  <2>4. \A d \in Cells : FateOf(d)' = FateOf(d)
    BY <2>1, <2>3 DEF FateOf, Awaits
  <2>5. QED
    BY <2>1, <2>4 DEF SamplingStep
<1>7. QED
  BY <1>3, <1>4, <1>5, <1>6 DEF CellStep

\* Whatever else happens.
LEMMA NextSamples ==
  ASSUME IInv, [Next]_vars
  PROVE \A d \in Cells : SamplingStep(d)
<1>1. ASSUME NEW c \in Cells, CellStep(c) PROVE \A d \in Cells : SamplingStep(d)
  BY <1>1, CellStepSamples
<1>2. CASE Pull
  <2>1. at[Order[pulled + 1]] = "queued" /\ Order[pulled + 1] \in Cells
    <3>1. pulled \in Nat /\ pulled < Len(Order)
      BY <1>2, OrderFacts DEF IInv, TypeOK, Pull
    <3>2. pulled + 1 \in DOMAIN Order /\ pulled + 1 > pulled
      BY <3>1, OrderFacts
    <3>3. QED
      BY <3>2, OrderFacts DEF IInv, Queue
  <2>2. /\ phase' = phase /\ kept' = kept
        /\ at' = [at EXCEPT ![Order[pulled + 1]] = "start"]
        /\ at \in [Cells -> Awaits \cup Fates]
    BY <1>2 DEF Pull, MoveTo, IInv, TypeOK
  <2>3. QED
    BY <2>1, <2>2 DEF SamplingStep, FateOf
<1>3. CASE Finish \/ Drain \/ Close \/ Crash
  <2>1. /\ kept' = kept /\ at' = at
        /\ phase' # "run" \/ phase' = phase
    BY <1>3 DEF Finish, Drain, Close, Crash, cellVars
  <2>2. \A d \in Cells : \/ FateOf(d)' = FateOf(d)
                         \/ FateOf(d) = "sampling" /\ FateOf(d)' = "aborted"
    BY <2>1 DEF FateOf
  <2>3. QED
    BY <2>1, <2>2 DEF SamplingStep
<1>4. ASSUME PerformPublish \/ (\E c \in Cells : PerformDelete(c)) \/ UNCHANGED vars
      PROVE \A d \in Cells : SamplingStep(d)
  <2>1. kept' = kept /\ at' = at /\ phase' = phase
    BY <1>4 DEF PerformPublish, PerformDelete, vars, cellVars
  <2>2. QED
    BY <2>1 DEF SamplingStep, FateOf
<1>5. QED
  BY <1>1, <1>2, <1>3, <1>4 DEF Next, Driver

\* Pooling, cancellation and a crash leave every cell what CellSampling says.
THEOREM CellsSampledCorrect == Spec => CellsSampled
<1>1. Init => \A c \in Cells : CellOf(c)!Init
  BY DEF Init, CellOf!Init, Awaits
<1>2. IInv /\ [Next]_vars => \A c \in Cells : [CellOf(c)!Next]_(CellOf(c)!vars)
  <2>1. SUFFICES ASSUME IInv, [Next]_vars, NEW c \in Cells
                 PROVE [CellOf(c)!Next]_(CellOf(c)!vars)
    OBVIOUS
  <2>2. SamplingStep(c)
    BY <2>1, NextSamples
  <2>3. QED
    BY <2>2, SamplingStepMaps
<1>3. QED
  BY <1>1, <1>2, PoolInductive, PTL DEF Spec, CellsSampled

-----------------------------------------------------------------------------
(* The versions nobody has tried to delete.                                *)

Untried == armed \ asked

\* Cells in flight stay within the pool; so do the untried versions, which the
\* guards of cells in flight name one by one until the queue takes them over.
BoundInv ==
  /\ phase = "run" => leaked = {}
  /\ Pool # 0 => Cardinality(InFlight) <= Pool /\ Cardinality(Untried) <= Pool

\* What a step may not do to them without Pull or Activated.
Shrinks ==
  /\ InFlight' \subseteq InFlight
  /\ phase' = "run" => phase = "run" /\ leaked' = leaked
  /\ armed' = armed /\ asked \subseteq asked'

\* Cells in flight and untried versions are finitely many.
LEMMA BoundFinite ==
  /\ IsFiniteSet(InFlight)
  /\ TypeOK => IsFiniteSet(Untried)
<1>1. IsFiniteSet(InFlight)
  <2>1. InFlight \in SUBSET Cells
    BY DEF InFlight
  <2>2. QED
    BY <2>1, CellsFinite, FS_Subset
<1>2. TypeOK => IsFiniteSet(Untried)
  <2>1. IsFiniteSet(1 .. Cycles + MaxFailures + 1)
    BY BoundsAssumption, FS_Interval
  <2>2. IsFiniteSet(Versions)
    BY <2>1, CellsFinite, FS_Product DEF Versions
  <2>3. TypeOK => Untried \in SUBSET Versions
    BY DEF TypeOK, Untried
  <2>4. QED
    BY <2>2, <2>3, FS_Subset
<1>3. QED
  BY <1>1, <1>2

\* However an await of c ends, no other cell comes into flight.
LEMMA OutcomeShrinks ==
  ASSUME IInv, phase = "run", NEW c \in Cells, at[c] \in Awaits, NEW g,
         StartsAgain(c, g) \/ IsDone(c, g) \/ FailsRun(c, g)
  PROVE /\ InFlight' \subseteq InFlight
        /\ phase' = "run" => phase = "run" /\ leaked' = leaked
<1>1. at \in [Cells -> Awaits \cup Fates]
  BY DEF IInv, TypeOK
<1>2. CASE StartsAgain(c, g)
  BY <1>1, <1>2 DEF StartsAgain, MoveTo, InFlight
<1>3. CASE IsDone(c, g)
  BY <1>1, <1>3 DEF IsDone, MoveTo, InFlight
<1>4. CASE FailsRun(c, g)
  <2>1. phase' = "drain" /\ at' = AfterFailure(c)
    BY <1>4 DEF FailsRun, FailFast
  <2>2. \A d \in Cells : at'[d] \notin Awaits
    BY <2>1, AwaitsFacts DEF AfterFailure
  <2>3. QED
    BY <2>1, <2>2 DEF InFlight
<1>5. QED
  BY <1>2, <1>3, <1>4

\* What a cell does between two awaits.
LEMMA CellStepShrinks ==
  ASSUME IInv, NEW c \in Cells, CellStep(c), ~Activated(c)
  PROVE Shrinks
<1>1. phase # "crashed" /\ at[c] \in Awaits
  BY DEF CellStep, SampleLatest, SendPublish, BumpFails, PublishAnswered, PublishErrs,
     Activated, Measured, DeleteReturns, Awaits
<1>2. phase = "run"
  BY <1>1, InFlightRuns
<1>3. CASE SampleLatest(c)
  BY <1>1, <1>2, <1>3, AttemptFailsOutcome, CycleKeptOutcome, OutcomeShrinks
  DEF SampleLatest, Shrinks
<1>4. CASE BumpFails(c) \/ PublishErrs(c)
  BY <1>1, <1>2, <1>4, AttemptFailsOutcome, OutcomeShrinks DEF BumpFails, PublishErrs, Shrinks
<1>5. CASE DeleteReturns(c)
  BY <1>1, <1>2, <1>5, AttemptFailsOutcome, CycleKeptOutcome, OutcomeShrinks
  DEF DeleteReturns, AskedAfter, Shrinks
<1>6. CASE SendPublish(c) \/ PublishAnswered(c) \/ Measured(c)
  <2>1. /\ phase' = phase /\ leaked' = leaked /\ armed' = armed /\ asked' = asked
        /\ \E s \in Awaits : at' = [at EXCEPT ![c] = s]
    BY <1>6 DEF SendPublish, PublishAnswered, Measured, MoveTo, Awaits, guards
  <2>2. at \in [Cells -> Awaits \cup Fates]
    BY DEF IInv, TypeOK
  <2>3. \A d \in Cells : at'[d] \in Awaits => at[d] \in Awaits
    BY <1>1, <2>1, <2>2
  <2>4. QED
    BY <1>2, <2>1, <2>3 DEF InFlight, Shrinks
<1>7. QED
  BY <1>3, <1>4, <1>5, <1>6 DEF CellStep

\* Every step but Pull and Activated.
LEMMA OthersShrink ==
  ASSUME IInv, [Next]_vars, ~Pull, \A c \in Cells : ~Activated(c)
  PROVE Shrinks
<1>1. ASSUME NEW c \in Cells, CellStep(c) PROVE Shrinks
  BY <1>1, CellStepShrinks
<1>2. CASE Finish \/ Close \/ Crash
  BY <1>2 DEF Finish, Close, Crash, Shrinks, InFlight, cellVars, guards
<1>3. CASE Drain
  BY <1>3 DEF Drain, Shrinks, InFlight, cellVars
<1>4. CASE PerformPublish \/ \E c \in Cells : PerformDelete(c)
  BY <1>4 DEF PerformPublish, PerformDelete, Shrinks, InFlight, cellVars, guards
<1>5. CASE UNCHANGED vars
  BY <1>5 DEF vars, Shrinks, InFlight, cellVars, guards
<1>6. QED
  BY <1>1, <1>2, <1>3, <1>4, <1>5 DEF Next, Driver

\* Such a step keeps the bound.
LEMMA ShrinksBound ==
  ASSUME IInv, BoundInv, Shrinks
  PROVE BoundInv'
<1>1. phase' = "run" => leaked' = {}
  BY DEF BoundInv, Shrinks
<1>2. Untried' \in SUBSET Untried
  BY DEF Untried, Shrinks
<1>3. InFlight' \in SUBSET InFlight
  BY DEF Shrinks
<1>4. /\ Cardinality(Untried') <= Cardinality(Untried)
      /\ Cardinality(Untried') \in Nat /\ Cardinality(Untried) \in Nat
  BY <1>2, BoundFinite, FS_Subset, FS_CardinalityType DEF IInv
<1>5. /\ Cardinality(InFlight') <= Cardinality(InFlight)
      /\ Cardinality(InFlight') \in Nat /\ Cardinality(InFlight) \in Nat
  BY <1>3, BoundFinite, FS_Subset, FS_CardinalityType
<1>6. QED
  BY <1>1, <1>4, <1>5, BoundsAssumption DEF BoundInv

\* There is room for the cell that is pulled.
LEMMA PullBound ==
  ASSUME IInv, BoundInv, Pull
  PROVE BoundInv'
<1> DEFINE c == Order[pulled + 1]
<1>1. /\ at' = [at EXCEPT ![c] = "start"] /\ Room
      /\ UNCHANGED <<phase, leaked, armed, asked>>
  BY DEF Pull, MoveTo, guards
<1>2. InFlight' \in SUBSET (InFlight \cup {c})
  BY <1>1 DEF InFlight, IInv, TypeOK
<1>3. /\ IsFiniteSet(InFlight \cup {c})
      /\ Cardinality(InFlight \cup {c}) <= Cardinality(InFlight) + 1
      /\ Cardinality(InFlight) \in Nat
  BY BoundFinite, FS_AddElement, FS_CardinalityType
<1>4. /\ Cardinality(InFlight') <= Cardinality(InFlight \cup {c})
      /\ Cardinality(InFlight') \in Nat /\ Cardinality(InFlight \cup {c}) \in Nat
  BY <1>2, <1>3, FS_Subset, FS_CardinalityType
<1>5. Pool # 0 => Cardinality(InFlight') <= Pool
  BY <1>1, <1>3, <1>4, BoundsAssumption DEF Room
<1>6. Untried' = Untried
  BY <1>1 DEF Untried
<1>7. QED
  BY <1>1, <1>5, <1>6 DEF BoundInv

\* The versions guarded in a running run are of cells in flight, one of each.
LEMMA GuardedWithinFlight ==
  ASSUME TypeOK, GuardsOwned, phase = "run"
  PROVE /\ IsFiniteSet(guarded)
        /\ Cardinality(guarded) <= Cardinality(InFlight)
<1> DEFINE f == [v \in guarded |-> v[1]]
<1>1. \A v \in guarded : v[1] \in Cells
  BY DEF TypeOK, Versions
<1>2. \A v \in guarded : v[1] \in InFlight
  BY <1>1 DEF GuardsOwned, InFlight, Awaits
<1>3. \A v, w \in guarded : v[1] = w[1] => v = w
  BY DEF GuardsOwned
<1>4. f \in Injection(guarded, InFlight)
  BY <1>2, <1>3 DEF Injection, IsInjective
<1>5. QED
  BY <1>4, BoundFinite, FS_Injection

\* A new guard is that of a cell in flight that has no other.
LEMMA ActivatedBound ==
  ASSUME IInv, IInv', BoundInv, NEW c \in Cells, Activated(c), phase # "crashed"
  PROVE BoundInv'
<1>1. phase = "run" /\ phase' = "run" /\ leaked' = leaked /\ at[c] \in Awaits
  BY InFlightRuns DEF Activated, Awaits
<1>2. InFlight' = InFlight
  <2>1. at \in [Cells -> Awaits \cup Fates] /\ at' = [at EXCEPT ![c] = "measure"]
    BY DEF IInv, TypeOK, Activated, MoveTo
  <2>2. \A d \in Cells : at'[d] \in Awaits <=> at[d] \in Awaits
    BY <1>1, <2>1, AwaitsFacts
  <2>3. QED
    BY <2>2 DEF InFlight
<1>3. Untried' \subseteq guarded'
  <2>1. armed' \subseteq guarded' \cup leaked' \cup asked'
    BY <1>1 DEF IInv, GuardedVersionsReclaimed
  <2>2. leaked' = {}
    BY <1>1 DEF BoundInv
  <2>3. QED
    BY <2>1, <2>2 DEF Untried
<1>4. IsFiniteSet(guarded') /\ Cardinality(guarded') <= Cardinality(InFlight')
  <2>1. TypeOK' /\ GuardsOwned'
    BY DEF IInv
  <2>2. (TypeOK /\ GuardsOwned /\ phase = "run" =>
           IsFiniteSet(guarded) /\ Cardinality(guarded) <= Cardinality(InFlight))'
    BY GuardedWithinFlight, PTL
  <2>3. QED
    BY <1>1, <2>1, <2>2
<1>5. /\ Cardinality(Untried') <= Cardinality(guarded')
      /\ Cardinality(Untried') \in Nat /\ Cardinality(guarded') \in Nat
  BY <1>3, <1>4, FS_Subset, FS_CardinalityType
<1>6. Cardinality(InFlight) \in Nat
  BY BoundFinite, FS_CardinalityType
<1>7. Pool # 0 => Cardinality(InFlight') <= Pool /\ Cardinality(Untried') <= Pool
  BY <1>2, <1>4, <1>5, <1>6, BoundsAssumption DEF BoundInv
<1>8. QED
  BY <1>1, <1>7 DEF BoundInv

LEMMA InitBound == Init => BoundInv
<1>1. Init => InFlight = {} /\ Untried = {} /\ leaked = {}
  BY DEF Init, InFlight, Untried, Awaits
<1>2. QED
  BY <1>1, FS_EmptySet, BoundsAssumption DEF BoundInv

LEMMA NextBound == IInv /\ IInv' /\ BoundInv /\ [Next]_vars => BoundInv'
<1> SUFFICES ASSUME IInv, IInv', BoundInv, [Next]_vars PROVE BoundInv'
  OBVIOUS
<1>1. CASE Pull
  BY <1>1, PullBound
<1>2. ASSUME NEW c \in Cells, Activated(c) PROVE BoundInv'
  <2>1. phase # "crashed"
    BY <1>2 DEF Activated, IInv, TypeOK, GuardsOwned
  <2>2. QED
    BY <1>2, <2>1, ActivatedBound
<1>3. CASE ~Pull /\ \A c \in Cells : ~Activated(c)
  BY <1>3, OthersShrink, ShrinksBound
<1>4. QED
  BY <1>1, <1>2, <1>3

\* What c has left behind is within its failures, and only SnapStart cells publish.
LeftInv ==
  /\ \A c \in Cells : Cardinality(LeftBehind(c)) <= failures[c]
  /\ \A v \in live \cup wire : v[1] \in SnapCells

\* A step leaves behind no version of c, or the current one, with a failure.
LeavesNone(c) == LeftBehind(c)' \subseteq LeftBehind(c) /\ failures'[c] = failures[c]
LeavesOne(c) == /\ LeftBehind(c)' \subseteq LeftBehind(c) \cup {Version(c)}
                /\ failures'[c] = failures[c] + 1

Leaves == /\ \A c \in Cells : LeavesNone(c) \/ LeavesOne(c)
          /\ \A v \in live' \cup wire' : v[1] \in SnapCells

\* What a cell has left behind is finite.
LEMMA LeftFinite ==
  ASSUME TypeOK, NEW c \in Cells
  PROVE IsFiniteSet(LeftBehind(c))
<1>1. IsFiniteSet(1 .. Cycles + MaxFailures + 1)
  BY BoundsAssumption, FS_Interval
<1>2. IsFiniteSet(Versions)
  BY <1>1, CellsFinite, FS_Product DEF Versions
<1>3. LeftBehind(c) \in SUBSET Versions
  BY DEF TypeOK, LeftBehind
<1>4. QED
  BY <1>2, <1>3, FS_Subset

\* Such a step keeps the bound.
LEMMA LeavesBound ==
  ASSUME TypeOK, LeftInv, Leaves
  PROVE LeftInv'
<1>1. ASSUME NEW c \in Cells
      PROVE Cardinality(LeftBehind(c)') <= failures'[c]
  <2> DEFINE before == LeftBehind(c)
             after == LeftBehind(c)'
             more == before \cup {Version(c)}
  <2>1. /\ IsFiniteSet(before) /\ Cardinality(before) \in Nat
        /\ Cardinality(before) <= failures[c] /\ failures[c] \in Nat
    <3>1. IsFiniteSet(before)
      BY LeftFinite
    <3>2. Cardinality(before) <= failures[c] /\ failures[c] \in Nat
      BY BoundsAssumption DEF LeftInv, TypeOK
    <3>3. QED
      BY <3>1, <3>2, FS_CardinalityType
  <2>2. CASE LeavesNone(c)
    <3>1. after \in SUBSET before /\ failures'[c] = failures[c]
      BY <2>2 DEF LeavesNone
    <3> HIDE DEF after, before
    <3>2. Cardinality(after) <= Cardinality(before) /\ Cardinality(after) \in Nat
      BY <2>1, <3>1, FS_Subset, FS_CardinalityType
    <3>3. Cardinality(after) <= failures'[c]
      BY <2>1, <3>1, <3>2
    <3>4. QED
      BY <3>3 DEF after
  <2>3. CASE LeavesOne(c)
    <3>1. after \in SUBSET more /\ failures'[c] = failures[c] + 1
      BY <2>3 DEF LeavesOne
    <3>2. /\ IsFiniteSet(more) /\ Cardinality(more) \in Nat
          /\ Cardinality(more) <= Cardinality(before) + 1
      <4> HIDE DEF before
      <4>1. IsFiniteSet(more) /\ Cardinality(more) <= Cardinality(before) + 1
        BY <2>1, FS_AddElement
      <4>2. QED
        BY <4>1, FS_CardinalityType
    <3> HIDE DEF after, before, more
    <3>3. Cardinality(after) <= Cardinality(more) /\ Cardinality(after) \in Nat
      BY <3>1, <3>2, FS_Subset, FS_CardinalityType
    <3>4. Cardinality(after) <= failures'[c]
      BY <2>1, <3>1, <3>2, <3>3
    <3>5. QED
      BY <3>4 DEF after
  <2>4. QED
    BY <2>2, <2>3 DEF Leaves
<1>2. QED
  BY <1>1 DEF LeftInv, Leaves

\* A step of c that publishes nothing new, and asks for the current version to be
\* deleted if it keeps the cycle.
LEMMA OutcomeLeaves ==
  ASSUME TypeOK, LeftInv, NEW c \in Cells, NEW g,
         live' \cup wire' \subseteq live \cup wire, asked \subseteq asked',
         \/ AttemptFails(c, g)
         \/ CycleKept(c, g) /\ (c \in SnapCells => Version(c) \in asked')
  PROVE Leaves
<1>1. /\ failures \in [Cells -> 0 .. MaxFailures + 1] /\ kept \in [Cells -> 0 .. Cycles]
      /\ \/ failures' = [failures EXCEPT ![c] = @ + 1] /\ kept' = kept
         \/ /\ failures' = failures /\ kept' = [kept EXCEPT ![c] = @ + 1]
            /\ c \in SnapCells => Version(c) \in asked'
  BY DEF TypeOK, AttemptFails, CycleKept
<1>2. \A v \in live' \cup wire' : v[1] \in SnapCells
  BY DEF LeftInv
<1>3. ASSUME NEW d \in Cells, d # c PROVE LeavesNone(d)
  <2>1. kept'[d] = kept[d] /\ failures'[d] = failures[d]
    BY <1>1, <1>3
  <2>2. QED
    BY <2>1 DEF LeavesNone, LeftBehind, Version
<1>4. LeftBehind(c)' \subseteq LeftBehind(c) \cup {Version(c)}
  BY DEF LeftBehind
<1>5. LeavesNone(c) \/ LeavesOne(c)
  <2>1. CASE failures' = [failures EXCEPT ![c] = @ + 1] /\ kept' = kept
    <3>1. failures'[c] = failures[c] + 1
      BY <1>1, <2>1
    <3>2. QED
      BY <1>4, <3>1 DEF LeavesOne
  <2>2. CASE failures' = failures /\ (c \in SnapCells => Version(c) \in asked')
    <3>1. \A v \in LeftBehind(c)' : v # Version(c)
      BY <1>2, <2>2 DEF LeftBehind
    <3>2. QED
      BY <1>4, <2>2, <3>1 DEF LeavesNone
  <2>3. QED
    BY <1>1, <2>1, <2>2
<1>6. QED
  BY <1>2, <1>3, <1>5 DEF Leaves

\* Any other step moves no counter, and publishes none but the current version.
LEMMA OtherLeaves ==
  ASSUME LeftInv, UNCHANGED <<kept, failures>>, asked \subseteq asked',
         \A v \in live' \cup wire' :
           v \in live \cup wire \/ (\E c \in SnapCells : v = Version(c))
  PROVE Leaves
<1>1. \A c : Version(c)' = Version(c) /\ Version(c)[1] = c
  BY DEF Version
<1>2. \A v \in live' \cup wire' : v[1] \in SnapCells
  BY <1>1 DEF LeftInv
<1>3. ASSUME NEW c \in Cells PROVE LeavesNone(c)
  BY <1>1 DEF LeavesNone, LeftBehind
<1>4. QED
  BY <1>2, <1>3 DEF Leaves

LEMMA CellStepLeaves ==
  ASSUME IInv, LeftInv, NEW c \in Cells, CellStep(c)
  PROVE Leaves
<1>1. TypeOK
  BY DEF IInv
<1>2. CASE SampleLatest(c)
  <2>1. c \notin SnapCells /\ UNCHANGED <<live, wire, asked>>
        /\ (CycleKept(c, guarded) \/ AttemptFails(c, guarded))
    BY <1>2 DEF SampleLatest, cloud
  <2>2. QED
    BY <1>1, <2>1, OutcomeLeaves
<1>3. CASE BumpFails(c)
  <2>1. UNCHANGED <<live, wire, asked>> /\ AttemptFails(c, guarded)
    BY <1>3 DEF BumpFails, cloud
  <2>2. QED
    BY <1>1, <2>1, OutcomeLeaves
<1>4. CASE PublishErrs(c)
  <2>1. UNCHANGED <<live, asked>> /\ wire' \subseteq wire /\ AttemptFails(c, guarded)
    BY <1>4 DEF PublishErrs
  <2>2. QED
    BY <1>1, <2>1, OutcomeLeaves
<1>5. CASE DeleteReturns(c)
  <2>1. /\ live' \subseteq live /\ wire' = wire /\ asked' = asked \cup {Version(c)}
        /\ CycleKept(c, Disarmed(c)) \/ AttemptFails(c, Disarmed(c))
    BY <1>5 DEF DeleteReturns, Deleted, AskedAfter
  <2>2. QED
    BY <1>1, <2>1, OutcomeLeaves
<1>6. CASE SendPublish(c)
  <2>1. c \in SnapCells /\ wire' = wire \cup {Version(c)} /\ UNCHANGED <<kept, failures, live, asked>>
    BY <1>6 DEF SendPublish, guards
  <2>2. QED
    BY <2>1, OtherLeaves
<1>7. CASE PublishAnswered(c) \/ Activated(c) \/ Measured(c)
  <2>1. UNCHANGED <<kept, failures, live, wire, asked>>
    BY <1>7 DEF PublishAnswered, Activated, Measured, guards, cloud
  <2>2. QED
    BY <2>1, OtherLeaves
<1>8. QED
  BY <1>2, <1>3, <1>4, <1>5, <1>6, <1>7 DEF CellStep

LEMMA NextLeaves == IInv /\ LeftInv /\ [Next]_vars => LeftInv'
<1> SUFFICES ASSUME IInv, LeftInv, [Next]_vars PROVE LeftInv'
  OBVIOUS
<1>1. Leaves
  <2>1. ASSUME NEW c \in Cells, CellStep(c) PROVE Leaves
    BY <2>1, CellStepLeaves
  <2>2. CASE Pull \/ Finish \/ Close \/ Crash \/ UNCHANGED vars
    <3>1. UNCHANGED <<kept, failures, live, wire, asked>>
      BY <2>2 DEF Pull, Finish, Close, Crash, vars, cellVars, guards, cloud
    <3>2. QED
      BY <3>1, OtherLeaves
  <2>3. CASE Drain
    <3>1. /\ UNCHANGED <<kept, failures, wire>> /\ live' \subseteq live
          /\ asked \subseteq asked'
      BY <2>3 DEF Drain, Deleted, cellVars
    <3>2. QED
      BY <3>1, OtherLeaves
  <2>4. CASE PerformPublish
    <3>1. /\ UNCHANGED <<kept, failures, asked>>
          /\ live' \cup wire' \subseteq live \cup wire
      BY <2>4 DEF PerformPublish, cellVars, guards
    <3>2. QED
      BY <3>1, OtherLeaves
  <2>5. ASSUME NEW c \in Cells, PerformDelete(c) PROVE Leaves
    <3>1. UNCHANGED <<kept, failures, asked, wire>> /\ live' \subseteq live
      BY <2>5 DEF PerformDelete, cellVars, guards
    <3>2. QED
      BY <3>1, OtherLeaves
  <2>6. QED
    BY <2>1, <2>2, <2>3, <2>4, <2>5 DEF Next, Driver
<1>2. QED
  BY <1>1, LeavesBound DEF IInv

LEMMA InitLeft == Init => LeftInv
<1> SUFFICES ASSUME Init PROVE LeftInv
  OBVIOUS
<1>1. live = {} /\ wire = {} /\ \A c \in Cells : LeftBehind(c) = {} /\ failures[c] = 0
  BY DEF Init, LeftBehind
<1>2. QED
  BY <1>1, FS_EmptySet DEF LeftInv

\* However many versions a run publishes, those guarded and not tried to delete
\* never outnumber the pool, and no more of a cell's are left behind than attempts
\* of it failed (delete_version's doc).
THEOREM StorageBounded == Spec => []VersionsBounded
<1>1. IInv /\ BoundInv /\ LeftInv => VersionsBounded
  <2> SUFFICES ASSUME IInv, BoundInv, LeftInv, Pool # 0
               PROVE Cardinality((live \cap armed) \ asked) <= Pool
    BY DEF VersionsBounded, LeftInv
  <2>1. (live \cap armed) \ asked \in SUBSET Untried
    BY DEF Untried
  <2>2. /\ Cardinality((live \cap armed) \ asked) <= Cardinality(Untried)
        /\ Cardinality((live \cap armed) \ asked) \in Nat /\ Cardinality(Untried) \in Nat
    BY <2>1, BoundFinite, FS_Subset, FS_CardinalityType DEF IInv
  <2>3. QED
    BY <2>2, BoundsAssumption DEF BoundInv
<1>2. Spec => []LeftInv
  BY InitLeft, NextLeaves, PoolInductive, PTL DEF Spec
<1>3. Spec => []BoundInv
  BY InitBound, NextBound, PoolInductive, PTL DEF Spec
<1>4. QED
  BY <1>1, <1>2, <1>3, PoolInductive, PTL

-----------------------------------------------------------------------------
(* The run ends.                                                           *)

\* What is left of the run's way out, of the five awaits of c's attempt, and of c's attempts:
\* every one of them uses up a cycle or a failure.
PhasesLeft == CASE phase = "run" -> 2 [] phase = "drain" -> 1 [] OTHER -> 0

AwaitsLeft(c) == CASE at[c] = "start" -> 4 [] at[c] = "publish" -> 3 [] at[c] = "activate" -> 2
                   [] at[c] = "measure" -> 1 [] OTHER -> 0

AttemptsLeft(c) == Cycles - kept[c] + MaxFailures + 1 - failures[c]

\* The steps a cell may still take, an upper bound: one more while it is queued, none at its end.
StepsLeft(c) ==
  CASE at[c] = "queued"  -> 5 * (Cycles + MaxFailures + 1) + 5
    [] at[c] \in Awaits  -> 5 * AttemptsLeft(c) + AwaitsLeft(c)
    [] OTHER             -> 0

\* No step adds to what is left; only a failure, which ends the pulling, adds to the leaked.
Spends ==
  /\ PhasesLeft' <= PhasesLeft
  /\ \A c \in Cells : StepsLeft(c)' <= StepsLeft(c)
  /\ PhasesLeft' = PhasesLeft => leaked' \subseteq leaked

\* A step of the run takes something off.
Advances ==
  \/ PhasesLeft' < PhasesLeft
  \/ \E c \in Cells : StepsLeft(c)' < StepsLeft(c)
  \/ leaked' # leaked

\* What is left of a cell that is queued, in flight or at its end.
LEMMA LeftOfCell ==
  ASSUME IInv, NEW c \in Cells
  PROVE /\ StepsLeft(c) \in Nat
        /\ at[c] = "queued" => StepsLeft(c) = 5 * (Cycles + MaxFailures + 1) + 5
        /\ at[c] \in Awaits => /\ StepsLeft(c) = 5 * AttemptsLeft(c) + AwaitsLeft(c)
                               /\ AttemptsLeft(c) \in 1 .. Cycles + MaxFailures + 1
                               /\ AwaitsLeft(c) \in 0 .. 4
        /\ at[c] \in Fates \ {"queued"} => StepsLeft(c) = 0
<1>1. /\ Cycles \in Nat /\ MaxFailures \in Nat /\ kept[c] \in Nat /\ failures[c] \in Nat
      /\ at[c] \in Awaits \cup Fates
  BY BoundsAssumption DEF IInv, TypeOK
<1>2. CASE at[c] = "queued"
  <2>1. StepsLeft(c) = 5 * (Cycles + MaxFailures + 1) + 5
    BY <1>2, AwaitsFacts DEF StepsLeft
  <2>2. at[c] \notin Awaits /\ at[c] \notin Fates \ {"queued"}
    BY <1>2, AwaitsFacts
  <2>3. StepsLeft(c) \in Nat
    BY <1>1, <2>1
  <2>4. QED
    BY <1>2, <2>1, <2>2, <2>3
<1>3. CASE at[c] \in Awaits
  <2>1. StepsLeft(c) = 5 * AttemptsLeft(c) + AwaitsLeft(c)
    BY <1>3, AwaitsFacts DEF StepsLeft
  <2>2. kept[c] < Cycles /\ failures[c] <= MaxFailures
    BY <1>3 DEF IInv, Budget
  <2>3. AttemptsLeft(c) \in 1 .. Cycles + MaxFailures + 1
    BY <1>1, <2>2 DEF AttemptsLeft
  <2>4. AwaitsLeft(c) \in 0 .. 4
    BY DEF AwaitsLeft
  <2>5. at[c] # "queued" /\ at[c] \notin Fates \ {"queued"}
    BY <1>3 DEF Awaits, Fates
  <2>6. StepsLeft(c) \in Nat
    BY <2>1, <2>3, <2>4, <1>1
  <2>7. QED
    BY <2>1, <2>3, <2>4, <2>5, <2>6
<1>4. CASE at[c] \in Fates \ {"queued"}
  <2>1. at[c] # "queued" /\ at[c] \notin Awaits
    BY <1>4 DEF Awaits, Fates
  <2>2. StepsLeft(c) = 0
    BY <2>1 DEF StepsLeft
  <2>3. QED
    BY <2>1, <2>2
<1>5. QED
  BY <1>1, <1>2, <1>3, <1>4

\* What holds of every cell, before a step and after it.
CellsLeft ==
  \A c \in Cells :
    /\ StepsLeft(c) \in Nat
    /\ at[c] \in Awaits => /\ StepsLeft(c) = 5 * AttemptsLeft(c) + AwaitsLeft(c)
                           /\ AttemptsLeft(c) \in 1 .. Cycles + MaxFailures + 1
                           /\ AwaitsLeft(c) \in 0 .. 4
    /\ at[c] \in Fates \ {"queued"} => StepsLeft(c) = 0

\* The invariant after a step gives it after the step.
LEMMA CellsLeftAfter == IInv' => CellsLeft'
<1>1. IInv => CellsLeft
  BY LeftOfCell DEF CellsLeft
<1>2. QED
  BY <1>1, PTL

\* The same of one cell after a step.
LEMMA LeftOfCellAfter ==
  ASSUME IInv', NEW c \in Cells
  PROVE /\ StepsLeft(c)' \in Nat
        /\ at'[c] \in Awaits => /\ StepsLeft(c)' = 5 * AttemptsLeft(c)' + AwaitsLeft(c)'
                                /\ AttemptsLeft(c)' \in 1 .. Cycles + MaxFailures + 1
                                /\ AwaitsLeft(c)' \in 0 .. 4
        /\ at'[c] \in Fates \ {"queued"} => StepsLeft(c)' = 0
<1>1. CellsLeft'
  BY CellsLeftAfter
<1>2. QED
  BY <1>1 DEF CellsLeft

\* A cell nothing happened to has as many steps left.
LEMMA SameLeft ==
  ASSUME NEW c \in Cells, at'[c] = at[c], kept'[c] = kept[c], failures'[c] = failures[c]
  PROVE StepsLeft(c)' = StepsLeft(c)
  BY DEF StepsLeft, AttemptsLeft, AwaitsLeft

\* Every outcome of an await of c uses up an attempt.
LEMMA OutcomeSpends ==
  ASSUME IInv, IInv', phase = "run", NEW c \in Cells, at[c] \in Awaits, NEW g,
         AttemptFails(c, g) \/ CycleKept(c, g)
  PROVE Spends /\ StepsLeft(c)' < StepsLeft(c)
<1>1. /\ kept[c] \in Nat /\ failures[c] \in Nat /\ Cycles \in Nat /\ MaxFailures \in Nat
      /\ kept \in [Cells -> 0 .. Cycles] /\ failures \in [Cells -> 0 .. MaxFailures + 1]
      /\ at \in [Cells -> Awaits \cup Fates]
  BY BoundsAssumption DEF IInv, TypeOK
<1>2. \/ kept'[c] = kept[c] + 1 /\ failures'[c] = failures[c]
      \/ kept'[c] = kept[c] /\ failures'[c] = failures[c] + 1
  BY <1>1 DEF AttemptFails, CycleKept
<1>3. AttemptsLeft(c)' = AttemptsLeft(c) - 1
  BY <1>1, <1>2 DEF AttemptsLeft
<1>4. /\ StepsLeft(c) = 5 * AttemptsLeft(c) + AwaitsLeft(c)
      /\ AttemptsLeft(c) \in Int /\ AttemptsLeft(c) >= 1 /\ AwaitsLeft(c) \in 0 .. 4
  BY <1>1, LeftOfCell
<1>5. CASE StartsAgain(c, g)
  <2>1. at'[c] = "start" /\ \A d \in Cells : d # c => at'[d] = at[d]
    BY <1>1, <1>5 DEF StartsAgain, MoveTo
  <2>2. StepsLeft(c)' = 5 * AttemptsLeft(c)' + 4
    <3>1. AwaitsLeft(c)' = 4
      BY <2>1 DEF AwaitsLeft
    <3>2. StepsLeft(c)' = 5 * AttemptsLeft(c)' + AwaitsLeft(c)'
      BY <2>1, AwaitsFacts, LeftOfCellAfter
    <3>3. QED
      BY <3>1, <3>2
  <2>3. StepsLeft(c)' < StepsLeft(c)
    BY <1>3, <1>4, <2>2
  <2>4. \A d \in Cells : StepsLeft(d)' <= StepsLeft(d)
    <3>1. ASSUME NEW d \in Cells, d # c PROVE StepsLeft(d)' <= StepsLeft(d)
      <4>1. StepsLeft(d)' = StepsLeft(d)
        BY <1>5, <2>1, <3>1, SameLeft DEF StartsAgain, Counting
      <4>2. QED
        BY <4>1, LeftOfCell
    <3>2. StepsLeft(c)' <= StepsLeft(c)
      BY <2>3, LeftOfCell, LeftOfCellAfter
    <3>3. QED
      BY <3>1, <3>2
  <2>5. phase' = phase /\ leaked' = leaked
    BY <1>5 DEF StartsAgain
  <2>6. PhasesLeft' <= PhasesLeft
    BY <2>5 DEF PhasesLeft
  <2>7. QED
    BY <2>3, <2>4, <2>5, <2>6 DEF Spends
<1>6. CASE IsDone(c, g)
  <2>1. at'[c] = "done" /\ \A d \in Cells : d # c => at'[d] = at[d]
    BY <1>1, <1>6 DEF IsDone, MoveTo
  <2>2. StepsLeft(c)' = 0
    BY <2>1, LeftOfCellAfter DEF Fates
  <2>3. StepsLeft(c)' < StepsLeft(c)
    BY <1>4, <2>2
  <2>4. \A d \in Cells : StepsLeft(d)' <= StepsLeft(d)
    <3>1. ASSUME NEW d \in Cells, d # c PROVE StepsLeft(d)' <= StepsLeft(d)
      <4>1. StepsLeft(d)' = StepsLeft(d)
        BY <1>6, <2>1, <3>1, SameLeft DEF IsDone, Counting
      <4>2. QED
        BY <4>1, LeftOfCell
    <3>2. StepsLeft(c)' <= StepsLeft(c)
      BY <2>3, LeftOfCell, LeftOfCellAfter
    <3>3. QED
      BY <3>1, <3>2
  <2>5. phase' = phase /\ leaked' = leaked
    BY <1>6 DEF IsDone
  <2>6. PhasesLeft' <= PhasesLeft
    BY <2>5 DEF PhasesLeft
  <2>7. QED
    BY <2>3, <2>4, <2>5, <2>6 DEF Spends
<1>7. CASE FailsRun(c, g)
  <2>1. phase' = "drain" /\ at' = AfterFailure(c)
    BY <1>7 DEF FailsRun, FailFast
  <2>2. at'[c] = "failed" /\ \A d \in Cells : d # c /\ at[d] \in Awaits => at'[d] = "dropped"
    BY <2>1 DEF AfterFailure
  <2>3. \A d \in Cells : d # c /\ at[d] \notin Awaits => at'[d] = at[d]
    BY <2>1 DEF AfterFailure
  <2>4. StepsLeft(c)' = 0
    BY <2>2, LeftOfCellAfter DEF Fates
  <2>5. StepsLeft(c)' < StepsLeft(c)
    BY <1>4, <2>4
  <2>6. \A d \in Cells : StepsLeft(d)' <= StepsLeft(d)
    <3>1. ASSUME NEW d \in Cells, d # c, at[d] \in Awaits PROVE StepsLeft(d)' <= StepsLeft(d)
      <4>1. StepsLeft(d)' = 0
        BY <2>2, <3>1, LeftOfCellAfter DEF Fates
      <4>2. QED
        BY <4>1, LeftOfCell
    <3>2. ASSUME NEW d \in Cells, d # c, at[d] \notin Awaits PROVE StepsLeft(d)' <= StepsLeft(d)
      <4>1. StepsLeft(d)' = StepsLeft(d)
        BY <1>7, <2>3, <3>2, SameLeft DEF FailsRun, Counting
      <4>2. QED
        BY <4>1, LeftOfCell
    <3>3. StepsLeft(c)' <= StepsLeft(c)
      BY <2>5, LeftOfCell, LeftOfCellAfter
    <3>4. QED
      BY <3>1, <3>2, <3>3
  <2>7. PhasesLeft' = 1 /\ PhasesLeft = 2
    BY <2>1 DEF PhasesLeft
  <2>8. QED
    BY <2>5, <2>6, <2>7 DEF Spends
<1>8. QED
  BY <1>5, <1>6, <1>7, AttemptFailsOutcome, CycleKeptOutcome

\* A step from one await of the attempt to the next leaves one await fewer.
LEMMA AwaitSpends ==
  ASSUME IInv, IInv', phase = "run", NEW c \in Cells,
         SendPublish(c) \/ PublishAnswered(c) \/ Activated(c) \/ Measured(c)
  PROVE Spends /\ StepsLeft(c)' < StepsLeft(c)
<1>1. /\ phase' = phase /\ leaked' = leaked /\ kept' = kept /\ failures' = failures
      /\ at \in [Cells -> Awaits \cup Fates]
  BY DEF SendPublish, PublishAnswered, Activated, Measured, guards, IInv, TypeOK
<1>2. /\ \/ at[c] = "start" /\ at'[c] = "publish"
         \/ at[c] = "publish" /\ at'[c] = "activate"
         \/ at[c] = "activate" /\ at'[c] = "measure"
         \/ at[c] = "measure" /\ at'[c] = "delete"
      /\ \A d \in Cells : d # c => at'[d] = at[d]
  BY <1>1 DEF SendPublish, PublishAnswered, Activated, Measured, MoveTo
<1>3. at[c] \in Awaits /\ at'[c] \in Awaits
  BY <1>2, AwaitsFacts
<1>4. AwaitsLeft(c)' = AwaitsLeft(c) - 1
  BY <1>2 DEF AwaitsLeft
<1>5. AttemptsLeft(c)' = AttemptsLeft(c)
  BY <1>1 DEF AttemptsLeft
<1>6. /\ StepsLeft(c) = 5 * AttemptsLeft(c) + AwaitsLeft(c)
      /\ AttemptsLeft(c) \in Int /\ AwaitsLeft(c) \in Int
  BY <1>3, LeftOfCell, BoundsAssumption
<1>7. StepsLeft(c)' = 5 * AttemptsLeft(c)' + AwaitsLeft(c)'
  BY <1>3, LeftOfCellAfter
<1>8. StepsLeft(c)' < StepsLeft(c)
  BY <1>4, <1>5, <1>6, <1>7
<1>9. \A d \in Cells : StepsLeft(d)' <= StepsLeft(d)
  <2>1. ASSUME NEW d \in Cells, d # c PROVE StepsLeft(d)' <= StepsLeft(d)
    <3>1. StepsLeft(d)' = StepsLeft(d)
      BY <1>1, <1>2, <2>1, SameLeft
    <3>2. QED
      BY <3>1, LeftOfCell
  <2>2. StepsLeft(c)' <= StepsLeft(c)
    BY <1>8, LeftOfCell, LeftOfCellAfter
  <2>3. QED
    BY <2>1, <2>2
<1>10. PhasesLeft' <= PhasesLeft
  BY <1>1 DEF PhasesLeft
<1>11. QED
  BY <1>1, <1>8, <1>9, <1>10 DEF Spends

\* What a cell does between two awaits.
LEMMA CellStepSpends ==
  ASSUME IInv, IInv', NEW c \in Cells, CellStep(c)
  PROVE Spends /\ StepsLeft(c)' < StepsLeft(c)
<1>1. phase # "crashed" /\ at[c] \in Awaits
  BY DEF CellStep, SampleLatest, SendPublish, BumpFails, PublishAnswered, PublishErrs,
     Activated, Measured, DeleteReturns, Awaits
<1>2. phase = "run"
  BY <1>1, InFlightRuns
<1>3. CASE SampleLatest(c) \/ BumpFails(c) \/ PublishErrs(c)
  BY <1>1, <1>2, <1>3, OutcomeSpends DEF SampleLatest, BumpFails, PublishErrs
<1>4. CASE DeleteReturns(c)
  BY <1>1, <1>2, <1>4, OutcomeSpends DEF DeleteReturns
<1>5. CASE SendPublish(c) \/ PublishAnswered(c) \/ Activated(c) \/ Measured(c)
  BY <1>2, <1>5, AwaitSpends
<1>6. QED
  BY <1>3, <1>4, <1>5 DEF CellStep

\* The cell that is pulled is queued no longer.
LEMMA PullSpends ==
  ASSUME IInv, IInv', Pull
  PROVE Spends /\ Advances
<1>1. PICK c : c = Order[pulled + 1]
  OBVIOUS
<1>2. /\ phase = "run" /\ pulled < Len(Order) /\ at' = [at EXCEPT ![c] = "start"]
      /\ UNCHANGED <<phase, kept, failures, leaked>>
  BY <1>1 DEF Pull, MoveTo, guards
<1>3. /\ pulled + 1 \in DOMAIN Order /\ pulled + 1 > pulled /\ c \in Cells
      /\ at \in [Cells -> Awaits \cup Fates]
  BY <1>1, <1>2, OrderFacts DEF IInv, TypeOK
<1>4. at[c] = "queued"
  BY <1>1, <1>3 DEF IInv, Queue
<1>5. at'[c] = "start" /\ \A d \in Cells : d # c => at'[d] = at[d]
  BY <1>2, <1>3
<1>6. StepsLeft(c) = 5 * (Cycles + MaxFailures + 1) + 5
  BY <1>3, <1>4, LeftOfCell
<1>7. /\ StepsLeft(c)' = 5 * AttemptsLeft(c)' + AwaitsLeft(c)'
      /\ AttemptsLeft(c)' \in 1 .. Cycles + MaxFailures + 1 /\ AwaitsLeft(c)' \in 0 .. 4
  BY <1>3, <1>5, AwaitsFacts, LeftOfCellAfter
<1>8. StepsLeft(c)' < StepsLeft(c)
  BY <1>6, <1>7, BoundsAssumption
<1>9. \A d \in Cells : StepsLeft(d)' <= StepsLeft(d)
  <2>1. ASSUME NEW d \in Cells, d # c PROVE StepsLeft(d)' <= StepsLeft(d)
    <3>1. StepsLeft(d)' = StepsLeft(d)
      BY <1>2, <1>5, <2>1, SameLeft
    <3>2. QED
      BY <3>1, LeftOfCell
  <2>2. StepsLeft(c)' <= StepsLeft(c)
    BY <1>3, <1>8, LeftOfCell, LeftOfCellAfter
  <2>3. QED
    BY <2>1, <2>2
<1>10. PhasesLeft' <= PhasesLeft
  BY <1>2 DEF PhasesLeft
<1>11. QED
  BY <1>2, <1>3, <1>8, <1>9, <1>10 DEF Spends, Advances

\* A step that moves no cell adds nothing.
LEMMA OtherSpends ==
  ASSUME IInv, IInv', [Next]_vars, ~Pull, \A c \in Cells : ~CellStep(c)
  PROVE Spends /\ (Driver => Advances)
<1>1. UNCHANGED <<at, kept, failures>>
  BY DEF Next, Driver, Finish, Drain, Close, PerformPublish, PerformDelete, Crash, cellVars, vars
<1>2. \A d \in Cells : StepsLeft(d)' <= StepsLeft(d)
  <2>1. ASSUME NEW d \in Cells PROVE StepsLeft(d)' <= StepsLeft(d)
    <3>1. StepsLeft(d)' = StepsLeft(d)
      BY <1>1, SameLeft
    <3>2. QED
      BY <3>1, LeftOfCell
  <2>2. QED
    BY <2>1
<1>3. CASE Finish
  <2>1. PhasesLeft' = 1 /\ PhasesLeft = 2
    BY <1>3 DEF Finish, PhasesLeft
  <2>2. QED
    BY <1>2, <2>1 DEF Spends, Advances
<1>4. CASE Drain
  <2>1. phase' = phase /\ leaked' \subseteq leaked /\ leaked' # leaked
    BY <1>4 DEF Drain, LeakedAfter
  <2>2. PhasesLeft' <= PhasesLeft
    BY <2>1 DEF PhasesLeft
  <2>3. QED
    BY <1>2, <2>1, <2>2 DEF Spends, Advances
<1>5. CASE Close
  <2>1. PhasesLeft' = 0 /\ PhasesLeft = 1
    BY <1>5 DEF Close, PhasesLeft
  <2>2. QED
    BY <1>2, <2>1 DEF Spends, Advances
<1>6. ASSUME PerformPublish \/ (\E c \in Cells : PerformDelete(c)) \/ Crash \/ UNCHANGED vars
      PROVE  Spends
  <2>1. phase' \in {phase, "crashed"}
    BY <1>6 DEF PerformPublish, PerformDelete, Crash, vars
  <2>2. leaked' \subseteq leaked
    BY <1>6 DEF PerformPublish, PerformDelete, Crash, vars, guards
  <2>3. PhasesLeft' <= PhasesLeft
    BY <2>1 DEF PhasesLeft
  <2>4. QED
    BY <1>2, <2>2, <2>3 DEF Spends
<1>7. CASE Driver
  BY <1>3, <1>4, <1>5, <1>7 DEF Driver
<1>8. CASE ~Driver
  BY <1>6, <1>8 DEF Next
<1>9. QED
  BY <1>7, <1>8

\* The run can take only so many steps, whatever fails and however Lambda and the cells
\* interleave: what is left is finite, every step the run takes lessens it, and no step of
\* anything adds to it (the safety part of RunEnds).
THEOREM RunBounded ==
  Spec => /\ []((\A c \in Cells : StepsLeft(c) \in Nat) /\ IsFiniteSet(leaked))
          /\ [][Spends /\ (Driver => Advances)]_vars
<1>1. IInv => (\A c \in Cells : StepsLeft(c) \in Nat) /\ IsFiniteSet(leaked)
  <2> SUFFICES ASSUME IInv PROVE (\A c \in Cells : StepsLeft(c) \in Nat) /\ IsFiniteSet(leaked)
    OBVIOUS
  <2>1. \A c \in Cells : StepsLeft(c) \in Nat
    BY LeftOfCell
  <2>2. IsFiniteSet(1 .. Cycles + MaxFailures + 1)
    BY BoundsAssumption, FS_Interval
  <2>3. IsFiniteSet(Versions)
    BY <2>2, CellsFinite, FS_Product DEF Versions
  <2>4. leaked \in SUBSET Versions
    BY DEF IInv, TypeOK
  <2>5. QED
    BY <2>1, <2>3, <2>4, FS_Subset
<1> DEFINE A == Spends /\ (Driver => Advances)
<1>2. IInv /\ IInv' /\ [Next]_vars => A
  <2> SUFFICES ASSUME IInv, IInv', [Next]_vars PROVE A
    OBVIOUS
  <2>1. CASE Pull
    BY <2>1, PullSpends
  <2>2. ASSUME NEW c \in Cells, CellStep(c) PROVE A
    BY <2>2, CellStepSpends DEF Advances
  <2>3. CASE ~Pull /\ \A c \in Cells : ~CellStep(c)
    BY <2>3, OtherSpends
  <2>4. QED
    BY <2>1, <2>2, <2>3
<1> HIDE DEF A
<1>3. Spec => []((\A c \in Cells : StepsLeft(c) \in Nat) /\ IsFiniteSet(leaked)) /\ [][A]_vars
  BY <1>1, <1>2, PoolInductive, PTL DEF Spec
<1>4. QED
  BY <1>3 DEF A

=============================================================================
