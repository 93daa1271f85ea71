------------------------------ MODULE CellRun ------------------------------
(***************************************************************************)
(* One benchmark cell of the bencher (bencher/src/run.rs: run_cell and     *)
(* everything it calls), driven against Lambda's data plane.               *)
(*                                                                         *)
(* The driver is strictly serial.  It runs Cold cycles; a cycle obtains    *)
(* one cold invoke (index 0), then Warm invokes that must stay warm        *)
(* (indices 1..Warm), then one unrecorded invoke that asks the sandbox for *)
(* its CPU.  Three nested retry loops surround an invoke: re-forcing a     *)
(* cold start, re-running a cycle, and resuming the cell at the cycle that *)
(* failed.  Lambda meanwhile retires sandboxes on its own and applies a    *)
(* configuration change to its routers late.                               *)
(*                                                                         *)
(* A sandbox is a number (0: none is warm); its host is identified with    *)
(* it, so a row's CPU is the number of the sandbox that reported it.       *)
(* rows groups the buffered InvocationRows by cycle.                       *)
(***************************************************************************)
EXTENDS Naturals, Sequences

CONSTANTS
  Cold,                  \* cold cycles of the cell (Counts.cold)
  Warm,                  \* warm invokes per cycle (Counts.warm)
  MaxColdForceAttempts,  \* MAX_COLD_FORCE_ATTEMPTS
  MaxCycleAttempts,      \* MAX_CYCLE_ATTEMPTS
  MaxCellAttempts,       \* MAX_CELL_ATTEMPTS
  Redelivery             \* the SDK may repeat an invoke whose answer was lost

ASSUME CountsAssumption == Cold \in Nat /\ Warm \in Nat

ASSUME AttemptsAssumption ==
  /\ MaxColdForceAttempts \in Nat \ {0}
  /\ MaxCycleAttempts \in Nat \ {0}
  /\ MaxCellAttempts \in Nat \ {0}

ASSUME RedeliveryAssumption == Redelivery \in BOOLEAN

VARIABLES
  snapStart,     \* the cell is measured on published versions; never changes
  pc,            \* the await or the decision the driver is at
  cellAttempt,   \* attempt of run_cell
  cycleAttempt,  \* attempt of run_one_cycle
  forceAttempt,  \* attempt of force_cold_invoke
  cycle,         \* *cycle: the next cycle to complete
  idx,           \* next index of the warm tail
  cycleRows,     \* rows of the cycle attempt in progress
  rows,          \* rows of the completed cycles, grouped by cycle
  outcome,       \* what the cycle attempt came to
  cpu,           \* the CPU its extra invoke reported
  file,          \* what write_cell made of the cell
  sandbox,       \* the warm sandbox an invoke would reach, 0 if none
  born,          \* sandboxes created so far
  lag,           \* configuration changes the routers have not applied
  coldCpu        \* history: cycles whose CPU invoke landed cold

driver == <<cellAttempt, cycleAttempt, forceAttempt>>
buffer == <<cycle, idx, cycleRows, rows>>
verdict == <<outcome, cpu>>
platform == <<sandbox, born, lag>>
vars == <<snapStart, pc, driver, buffer, verdict, file, platform, coldCpu>>

NoSandbox == 0
NoCpu == 0
Markers == {"none", "init", "restore"}
Errors == {"error", "violation"}
CpuOutcomes == {"reported", "recycledAfter", "noLine", "cpuFailed"}
Outcomes == {"none", "recycled"} \cup Errors \cup CpuOutcomes
Row == [cycle : Nat, idx : Nat, cold : BOOLEAN, marker : Markers,
        sandbox : Nat, cpu : Nat]

IsCold(marker) == marker # "none"

ColdRow(c, a) ==
  [cycle |-> c, idx |-> 0, cold |-> TRUE, marker |-> a.marker,
   sandbox |-> a.sandbox, cpu |-> NoCpu]

WarmRow(c, i, a) ==
  [cycle |-> c, idx |-> i, cold |-> FALSE, marker |-> a.marker,
   sandbox |-> a.sandbox, cpu |-> NoCpu]

CycleStart == IF snapStart THEN "publish" ELSE "force"
WriteTooEarly(c) == IF c + 1 < Cold THEN CycleStart ELSE "write"  \* faulty
NextCycleOrWrite(c) == IF c < Cold THEN CycleStart ELSE "write"

Init ==
  /\ snapStart \in BOOLEAN
  /\ pc = NextCycleOrWrite(0)
  /\ cellAttempt = 1 /\ cycleAttempt = 1 /\ forceAttempt = 1
  /\ cycle = 0 /\ idx = 1
  /\ cycleRows = <<>> /\ rows = <<>>
  /\ outcome = "none" /\ cpu = NoCpu
  /\ file = "absent"
  /\ sandbox \in {NoSandbox, 1} /\ born = 1 /\ lag = 0
  /\ coldCpu = {}

-----------------------------------------------------------------------------
(* Lambda's data plane.                                                    *)

\* How an invoke can be served now: warm by the live sandbox, else cold by a
\* new one.  With Redelivery a first, cold delivery may have lost its answer,
\* and the answer the driver sees is the repeat's, warm on that new sandbox.
Served ==
  IF sandbox # NoSandbox
  THEN {[marker |-> "none", sandbox |-> sandbox]}
  ELSE {[marker |-> m, sandbox |-> born + 1] :
          m \in (IF snapStart THEN {"restore", "init"} ELSE {"init"})
                \cup (IF Redelivery THEN {"none"} ELSE {})}

Lands(a) ==
  /\ sandbox' = a.sandbox
  /\ born' = IF a.sandbox > born THEN a.sandbox ELSE born
  /\ UNCHANGED lag

\* AWS retires the warm environment on its own.
Recycle ==
  /\ sandbox # NoSandbox
  /\ sandbox' = NoSandbox
  /\ UNCHANGED <<snapStart, pc, driver, buffer, verdict, file, born, lag,
                 coldCpu>>

\* The routers apply some of the pending configuration changes, which retires
\* the sandbox of the configuration they leave.
Propagate ==
  /\ lag > 0
  /\ sandbox' = NoSandbox
  /\ \E l \in 0 .. lag - 1 : lag' = l
  /\ UNCHANGED <<snapStart, pc, driver, buffer, verdict, file, born, coldCpu>>

-----------------------------------------------------------------------------
(* The checks on an answer and the bounds of the retry loops.  An operator *)
(* marked faulty is a variant of the one after it that the model does not  *)
(* use: what a plausible slip in the code would turn it into.              *)

ColdUnchecked(a) == TRUE  \* faulty
ColdLanded(a) == IsCold(a.marker)

RestoreLanded(a) == a.marker = "restore"

WarmUnchecked(a) == TRUE  \* faulty
WarmLanded(a) == ~IsCold(a.marker)

\* The extra invoke still describes the measured sandbox.
HostCpuLanded(a) == ~IsCold(a.marker)

ForcesLeft == forceAttempt < MaxColdForceAttempts

CyclesLeft == cycleAttempt < MaxCycleAttempts

CellsLeft == cellAttempt < MaxCellAttempts

SameCellAttempt == cellAttempt  \* faulty
NextCellAttempt == cellAttempt + 1

\* The cycle a retried cell resumes at.
ResumeAtFirst == 0  \* faulty
ResumeAt == cycle

-----------------------------------------------------------------------------
(* The cycle attempt.                                                      *)

\* A SnapStart attempt deletes its version before its outcome is looked at.
EndAttempt(o) ==
  /\ pc' = IF snapStart THEN "delete" ELSE "judge"
  /\ outcome' = o

\* The call errs, before or after the function ran, or the invoke ran and
\* fails check_platform_ok or parse_report.
InvokeFails ==
  /\ \/ /\ EndAttempt("error")
        /\ UNCHANGED platform
     \/ \E a \in Served, o \in Errors : Lands(a) /\ EndAttempt(o)
  /\ UNCHANGED <<snapStart, driver, buffer, cpu, file, coldCpu>>

\* force_cold: the nonce bump either lands or errs, maybe after it took effect.
ForceCold ==
  /\ pc = "force"
  /\ \/ pc' = "cold" /\ lag' = lag + 1 /\ UNCHANGED verdict
     \/ /\ EndAttempt("error")
        /\ lag' \in {lag, lag + 1}
        /\ UNCHANGED cpu
  /\ UNCHANGED <<snapStart, driver, buffer, file, sandbox, born, coldCpu>>

ColdInvoke ==
  /\ pc = "cold"
  /\ \E a \in Served :
       /\ ColdLanded(a)
       /\ Lands(a)
       /\ cycleRows' = <<ColdRow(cycle, a)>>
       /\ idx' = 1
  /\ pc' = IF Warm = 0 THEN "hostCpu" ELSE "warm"
  /\ UNCHANGED <<snapStart, driver, cycle, rows, verdict, file, coldCpu>>

\* The invoke landed warm in spite of the bump: re-force, or give up.
ForceAgain ==
  /\ pc = "cold"
  /\ \E a \in Served : ~ColdLanded(a) /\ Lands(a)
  /\ IF ForcesLeft
     THEN /\ pc' = "force"
          /\ forceAttempt' = forceAttempt + 1
          /\ UNCHANGED outcome
     ELSE EndAttempt("error") /\ UNCHANGED forceAttempt
  /\ UNCHANGED <<snapStart, cellAttempt, cycleAttempt, buffer, cpu, file,
                 coldCpu>>

\* publish_cold_version: a fresh version has no warm environment.  Its failure
\* ends the attempt before there is a version to delete.
Publish ==
  /\ pc = "publish"
  /\ \/ /\ pc' = "restore"
        /\ sandbox' = NoSandbox
        /\ UNCHANGED outcome
     \/ /\ pc' = "judge"
        /\ outcome' = "error"
        /\ UNCHANGED sandbox
  /\ UNCHANGED <<snapStart, driver, buffer, cpu, file, born, lag, coldCpu>>

\* The first invoke of a version must report a Restore Duration.
RestoreInvoke ==
  /\ pc = "restore"
  /\ \E a \in Served :
       /\ Lands(a)
       /\ IF RestoreLanded(a)
          THEN /\ cycleRows' = <<ColdRow(cycle, a)>>
               /\ idx' = 1
               /\ pc' = IF Warm = 0 THEN "hostCpu" ELSE "warm"
               /\ UNCHANGED outcome
          ELSE EndAttempt("violation") /\ UNCHANGED <<cycleRows, idx>>
  /\ UNCHANGED <<snapStart, driver, cycle, rows, cpu, file, coldCpu>>

WarmInvoke ==
  /\ pc = "warm"
  /\ \E a \in Served :
       /\ Lands(a)
       /\ IF WarmLanded(a)
          THEN /\ cycleRows' = Append(cycleRows, WarmRow(cycle, idx, a))
               /\ idx' = idx + 1
               /\ pc' = IF idx < Warm THEN "warm" ELSE "hostCpu"
               /\ UNCHANGED outcome
          ELSE EndAttempt("recycled") /\ UNCHANGED <<cycleRows, idx>>
  /\ UNCHANGED <<snapStart, driver, cycle, rows, cpu, file, coldCpu>>

\* report_host_cpu folds every problem of its invoke into its result.
HostCpuInvoke ==
  /\ pc = "hostCpu"
  /\ \/ EndAttempt("cpuFailed") /\ UNCHANGED <<platform, cpu, coldCpu>>
     \/ \E a \in Served :
          /\ Lands(a)
          /\ \/ EndAttempt("cpuFailed") /\ UNCHANGED <<cpu, coldCpu>>
             \/ /\ ~HostCpuLanded(a)
                /\ EndAttempt("recycledAfter")
                /\ coldCpu' = coldCpu \cup {cycle}
                /\ UNCHANGED cpu
             \/ /\ HostCpuLanded(a)
                /\ EndAttempt("noLine") /\ UNCHANGED <<cpu, coldCpu>>
             \/ /\ HostCpuLanded(a)
                /\ EndAttempt("reported")
                /\ cpu' = a.sandbox
                /\ UNCHANGED coldCpu
  /\ UNCHANGED <<snapStart, driver, buffer, file>>

FailingInvoke == pc \in {"cold", "restore", "warm"} /\ InvokeFails

\* delete_version of a SnapStart attempt; a failure is only logged.
DeleteVersion ==
  /\ pc = "delete"
  /\ pc' = "judge"
  /\ UNCHANGED <<snapStart, driver, buffer, verdict, file, platform, coldCpu>>

-----------------------------------------------------------------------------
(* What run_one_cycle, run_cycles and run_cell make of an attempt.         *)

CpuSeen ==
  \E k \in DOMAIN rows : \E j \in DOMAIN rows[k] : rows[k][j].cpu # NoCpu

\* apply_host_cpu refuses a cycle while no CPU has been seen in the cell.
FailureTolerated == outcome = "noLine" /\ ~CpuSeen  \* faulty
CpuMissing == outcome \in {"noLine", "cpuFailed"} /\ ~CpuSeen

Stamped(rs) == [j \in DOMAIN rs |-> [rs[j] EXCEPT !.cpu = cpu]]

ResetAttempt ==
  /\ cycleRows' = <<>> /\ idx' = 1
  /\ outcome' = "none" /\ cpu' = NoCpu
  /\ forceAttempt' = 1

KeepCycle ==
  /\ pc = "judge"
  /\ outcome \in CpuOutcomes /\ ~CpuMissing
  /\ rows' = Append(rows, IF outcome = "reported" THEN Stamped(cycleRows)
                                                  ELSE cycleRows)
  /\ cycle' = cycle + 1
  /\ ResetAttempt
  /\ cycleAttempt' = 1
  /\ pc' = NextCycleOrWrite(cycle + 1)
  /\ UNCHANGED <<snapStart, cellAttempt, file, platform, coldCpu>>

RetryCycle ==
  /\ pc = "judge"
  /\ outcome = "recycled" /\ CyclesLeft
  /\ ResetAttempt
  /\ cycleAttempt' = cycleAttempt + 1
  /\ pc' = CycleStart
  /\ UNCHANGED <<snapStart, cellAttempt, cycle, rows, file, platform, coldCpu>>

\* The attempts that run_cycles returns as an error to run_cell.
CycleFailed ==
  /\ pc = "judge"
  /\ \/ outcome \in Errors
     \/ outcome = "recycled" /\ ~CyclesLeft
     \/ CpuMissing

RetryCell ==
  /\ CycleFailed
  /\ CellsLeft
  /\ ResetAttempt
  /\ cellAttempt' = NextCellAttempt
  /\ cycle' = ResumeAt
  /\ cycleAttempt' = 1
  /\ pc' = CycleStart
  /\ UNCHANGED <<snapStart, rows, file, platform, coldCpu>>

FailCell ==
  /\ CycleFailed
  /\ ~CellsLeft
  /\ pc' = "failed"
  /\ UNCHANGED <<snapStart, driver, buffer, verdict, file, platform, coldCpu>>

\* write_cell; its error is returned at once, not retried.
WriteCell ==
  /\ pc = "write"
  /\ \/ pc' = "done" /\ file' = "whole"
     \/ pc' = "failed" /\ file' \in {"absent", "torn", "whole"}
  /\ UNCHANGED <<snapStart, driver, buffer, verdict, platform, coldCpu>>

-----------------------------------------------------------------------------

Attempt ==
  \/ ForceCold \/ ColdInvoke \/ ForceAgain
  \/ Publish \/ RestoreInvoke \/ DeleteVersion
  \/ WarmInvoke \/ HostCpuInvoke \/ FailingInvoke

Decide == KeepCycle \/ RetryCycle \/ RetryCell \/ FailCell \/ WriteCell

Driver == Attempt \/ Decide

Next == Driver \/ Recycle \/ Propagate

\* The driver task is polled until it ends, and every call it awaits returns
\* (the SDK times out and the poll loops are bounded).
Fairness == WF_vars(Driver)

Spec == Init /\ [][Next]_vars /\ Fairness

-----------------------------------------------------------------------------
(* Properties.                                                             *)

TypeOK ==
  /\ snapStart \in BOOLEAN
  /\ pc \in {"force", "cold", "publish", "restore", "warm", "hostCpu",
             "delete", "judge", "write", "done", "failed"}
  /\ cellAttempt \in 1 .. MaxCellAttempts
  /\ cycleAttempt \in 1 .. MaxCycleAttempts
  /\ forceAttempt \in 1 .. MaxColdForceAttempts
  /\ cycle \in Nat /\ idx \in Nat
  /\ cycleRows \in Seq(Row)
  /\ rows \in Seq(Seq(Row))
  /\ outcome \in Outcomes
  /\ cpu \in Nat
  /\ file \in {"absent", "torn", "whole"}
  /\ sandbox \in Nat /\ born \in Nat /\ lag \in Nat
  /\ coldCpu \subseteq Nat

\* The k-th completed cycle is one cold invoke and then the warm tail, labelled
\* with its own cycle and consecutive indices.
CleanCycle(k, rs) ==
  /\ Len(rs) = Warm + 1
  /\ \A j \in 1 .. Len(rs) :
       /\ rs[j].cycle = k - 1
       /\ rs[j].idx = j - 1
       /\ rs[j].cold <=> j = 1

\* Across every retry the buffered rows are exactly the completed prefix: the
\* counter and the buffer move together, and each buffered cycle is clean
\* (run_cycles: "the two out-params reflect exactly the completed prefix").
CompletedPrefix ==
  /\ Len(rows) = cycle
  /\ cycle <= Cold
  /\ \A k \in 1 .. Len(rows) : CleanCycle(k, rows[k])

MarkerHolds(r, snap) ==
  /\ r.cold <=> IsCold(r.marker)
  /\ r.cold => (r.marker = "restore" <=> snap)

\* A warm start is never recorded as a cold one nor the reverse, and a cold row
\* of a SnapStart cell is always a restore (the fail-loud markers of run.rs).
MarkersTruthful ==
  \A k \in 1 .. Len(rows) : \A j \in 1 .. Len(rows[k]) :
    MarkerHolds(rows[k][j], snapStart)

\* All rows of a completed cycle were served by one sandbox, and no two cycles
\* shared one: every cycle's cold start is its own.
OneSandboxPerCycle ==
  /\ \A k \in 1 .. Len(rows) : \A j \in 1 .. Len(rows[k]) :
       rows[k][j].sandbox = rows[k][1].sandbox
  /\ \A k, l \in 1 .. Len(rows) :
       k < l => rows[k][1].sandbox < rows[l][1].sandbox

\* The CPU stamped on a row is that of the sandbox that served it, and a cycle
\* carries one CPU on all of its rows or on none (apply_host_cpu).
CpuOfTheSandbox ==
  \A k \in 1 .. Len(rows) : \A j \in 1 .. Len(rows[k]) :
    /\ rows[k][j].cpu \in {NoCpu, rows[k][j].sandbox}
    /\ rows[k][j].cpu = NoCpu <=> rows[k][1].cpu = NoCpu

\* A cell that is written without a single CPU had its CPU invoke land cold in
\* every cycle: a handler that never logs its CPU cannot slip through otherwise.
SilentHandlerStopped ==
  file = "whole" /\ ~CpuSeen => coldCpu = 0 .. Cold - 1

\* The file holds the whole cell once the cell is done, and nothing of a cell
\* whose sampling failed or is still going on.
AllOrNothing ==
  /\ pc = "done" => file = "whole" /\ cycle = Cold
  /\ file # "absent" => cycle = Cold /\ pc \in {"done", "failed"}

\* The inductive strengthening of the invariants above.  While an attempt is
\* collecting rows they are a clean beginning of the cycle, younger than every
\* kept cycle, and the only warm sandbox an invoke can reach is theirs.
Measured ==
  \/ pc = "hostCpu"
  \/ pc \in {"delete", "judge"} /\ outcome \in CpuOutcomes

CleanBeginning ==
  /\ Len(cycleRows) = idx
  /\ \A j \in 1 .. Len(cycleRows) :
       /\ cycleRows[j].cycle = cycle
       /\ cycleRows[j].idx = j - 1
       /\ cycleRows[j].cold <=> j = 1
       /\ MarkerHolds(cycleRows[j], snapStart)
       /\ cycleRows[j].cpu = NoCpu
       /\ ~Redelivery => cycleRows[j].sandbox = cycleRows[1].sandbox
  /\ cycleRows[1].sandbox \in 1 .. born
  /\ \A k \in 1 .. Len(rows) : rows[k][1].sandbox < cycleRows[1].sandbox

AttemptInv ==
  /\ pc = "warm" => idx \in 1 .. Warm
  /\ Measured => idx = Warm + 1
  /\ pc = "warm" \/ Measured => CleanBeginning
  /\ pc \in {"warm", "hostCpu"} /\ ~Redelivery =>
       sandbox \in {NoSandbox, cycleRows[1].sandbox}
  /\ pc \in {"delete", "judge"} /\ outcome = "reported" /\ ~Redelivery =>
       cpu = cycleRows[1].sandbox

PhaseInv ==
  /\ sandbox <= born
  /\ \A k \in 1 .. Len(rows) : rows[k][1].sandbox <= born
  /\ pc \in {"write", "done"} => cycle = Cold
  /\ pc \notin {"write", "done", "failed"} => cycle < Cold
  /\ pc \in {"force", "cold"} => ~snapStart

IInv ==
  /\ TypeOK /\ AttemptInv /\ PhaseInv
  /\ CompletedPrefix /\ MarkersTruthful /\ AllOrNothing
  /\ ~Redelivery => OneSandboxPerCycle /\ CpuOfTheSandbox

\* A step never drops, rewrites or re-measures a completed cycle.
CompletedCyclesKept ==
  [][\/ rows' = rows /\ cycle' = cycle
     \/ /\ Len(rows') = Len(rows) + 1
        /\ cycle' = cycle + 1
        /\ \A k \in 1 .. Len(rows) : rows'[k] = rows[k]]_vars

\* The cell as the run loop above it sees it: kept cycles and a fate.
Sampling == INSTANCE CellSampling WITH
  kept <- cycle,
  fate <- CASE pc = "done" -> "committed"
            [] pc = "failed" -> "aborted"
            [] OTHER -> "sampling"

\* The retry machinery implements the plain sampling of a cell: cycles are kept
\* one at a time, a cell is committed only with all of them, and it ends.
SamplesTheCell == Sampling!Spec

\* Every cell comes to an end, however the platform behaves.
Terminates == <>(pc \in {"done", "failed"})

=============================================================================
