-------------------------- MODULE CellRun_proofs --------------------------
(***************************************************************************)
(* Proofs about CellRun, for every number of cycles, warm invokes and      *)
(* attempts.                                                               *)
(***************************************************************************)
EXTENDS CellRun, Integers, TLAPS

USE CountsAssumption, AttemptsAssumption, RedeliveryAssumption

Steps == {"force", "cold", "publish", "restore", "warm", "hostCpu",
          "delete", "judge", "write", "done", "failed"}

\* What Lambda answers an invoke with: a warm answer names the sandbox that
\* served the one before, a cold one a sandbox never seen.
LEMMA ServedType ==
  ASSUME TypeOK, NEW a \in Served
  PROVE  /\ a.marker \in Markers
         /\ a.sandbox \in Nat \ {0}
         /\ sandbox # NoSandbox => a.sandbox = sandbox /\ a.marker = "none"
         /\ sandbox = NoSandbox => a.sandbox = born + 1
         /\ sandbox = NoSandbox /\ ~Redelivery => a.marker # "none"
  BY DEF TypeOK, Served, Markers, NoSandbox

\* Wherever a cycle starts or a finished one leads is a step of the driver.
LEMMA StartType ==
  ASSUME NEW c \in Nat
  PROVE  NextCycleOrWrite(c) \in Steps /\ CycleStart \in Steps
  BY DEF NextCycleOrWrite, CycleStart, Steps

\* Both kinds of row are rows.
LEMMA RowType ==
  ASSUME TypeOK, NEW a \in Served
  PROVE  ColdRow(cycle, a) \in Row /\ WarmRow(cycle, idx, a) \in Row
  BY ServedType DEF ColdRow, WarmRow, Row, NoCpu, TypeOK

\* The buffer of a cycle stays a sequence of rows when it is begun or extended.
LEMMA BufferType ==
  ASSUME NEW rs \in Seq(Row), NEW r \in Row
  PROVE  <<r>> \in Seq(Row) /\ Append(rs, r) \in Seq(Row)
  OBVIOUS

\* Stamping the CPU on a cycle's rows keeps their number and their type.
LEMMA StampedType ==
  ASSUME NEW rs \in Seq(Row), cpu \in Nat
  PROVE  Stamped(rs) \in Seq(Row) /\ Len(Stamped(rs)) = Len(rs)
<1>1. \A j \in DOMAIN rs : rs[j] \in Row
  OBVIOUS
<1>2. \A j \in DOMAIN rs : [rs[j] EXCEPT !.cpu = cpu] \in Row
  BY <1>1 DEF Row
<1>3. Stamped(rs) \in [1 .. Len(rs) -> Row]
  BY <1>2 DEF Stamped
<1> QED
  BY <1>3

\* A cell starts well typed.
LEMMA InitType == Init => TypeOK
<1> SUFFICES ASSUME Init PROVE TypeOK
  OBVIOUS
<1>1. pc \in Steps
  BY StartType DEF Init
<1>2. <<>> \in Seq(Row) /\ <<>> \in Seq(Seq(Row))
  OBVIOUS
<1> QED
  BY <1>1, <1>2 DEF Init, TypeOK, Steps, Outcomes, NoCpu, NoSandbox

\* Every step of a cell, the platform's included, keeps its types.
LEMMA NextType == TypeOK /\ [Next]_vars => TypeOK'
<1> SUFFICES ASSUME TypeOK, [Next]_vars
             PROVE  TypeOK'
  OBVIOUS
<1> USE DEF driver, buffer, verdict, platform
<1> USE DEF Errors, CpuOutcomes, Outcomes, NoSandbox, NoCpu
<1>e. ASSUME NEW o \in Outcomes, EndAttempt(o)
      PROVE  pc' \in Steps /\ outcome' \in Outcomes
  BY <1>e DEF EndAttempt, Steps
<1>l. ASSUME NEW a \in Served, Lands(a)
      PROVE  sandbox' \in Nat /\ born' \in Nat /\ lag' \in Nat
  BY <1>l, ServedType DEF Lands, TypeOK
<1>r. ResetAttempt => /\ cycleRows' \in Seq(Row) /\ idx' \in Nat
                      /\ outcome' \in Outcomes /\ cpu' \in Nat
                      /\ forceAttempt' \in 1 .. MaxColdForceAttempts
  BY DEF ResetAttempt
<1> USE DEF Steps
<1>1. CASE ForceCold
  BY <1>1, <1>e DEF ForceCold, TypeOK
<1>2. CASE ColdInvoke
  <2> PICK a \in Served : /\ Lands(a)
                          /\ cycleRows' = <<ColdRow(cycle, a)>>
                          /\ idx' = 1
    BY <1>2 DEF ColdInvoke
  <2>1. ColdRow(cycle, a) \in Row
    BY RowType
  <2>2. platform' \in Nat \X Nat \X Nat
    BY <1>l
  <2>3. pc' \in Steps
    BY <1>2 DEF ColdInvoke
  <2> QED
    BY <1>2, <2>1, <2>2, <2>3, BufferType DEF ColdInvoke, TypeOK
<1>3. CASE ForceAgain
  <2> PICK a \in Served : Lands(a)
    BY <1>3 DEF ForceAgain
  <2>1. pc' \in Steps /\ outcome' \in Outcomes
    BY <1>3, <1>e DEF ForceAgain, TypeOK
  <2>2. forceAttempt' \in 1 .. MaxColdForceAttempts
    BY <1>3 DEF ForceAgain, ForcesLeft, TypeOK
  <2> QED
    BY <1>3, <1>l, <2>1, <2>2 DEF ForceAgain, TypeOK
<1>4. CASE Publish
  BY <1>4 DEF Publish, TypeOK
<1>5. CASE RestoreInvoke
  <2> PICK a \in Served :
        /\ Lands(a)
        /\ cycleRows' \in {cycleRows, <<ColdRow(cycle, a)>>}
        /\ idx' \in {idx, 1}
    BY <1>5 DEF RestoreInvoke
  <2>1. cycleRows' \in Seq(Row) /\ idx' \in Nat
    <3>1. ColdRow(cycle, a) \in Row
      BY RowType
    <3>2. <<ColdRow(cycle, a)>> \in Seq(Row)
      BY <3>1, BufferType DEF TypeOK
    <3>3. cycleRows' \in Seq(Row)
      BY <3>2, Zenon DEF TypeOK
    <3>4. idx' \in Nat
      BY DEF TypeOK
    <3> QED
      BY <3>3, <3>4
  <2>2. pc' \in Steps /\ outcome' \in Outcomes
    BY <1>5, <1>e DEF RestoreInvoke, TypeOK
  <2> QED
    BY <1>5, <1>l, <2>1, <2>2 DEF RestoreInvoke, TypeOK
<1>6. CASE DeleteVersion
  BY <1>6 DEF DeleteVersion, TypeOK
<1>7. CASE WarmInvoke
  <2> PICK a \in Served :
        /\ Lands(a)
        /\ cycleRows' \in
             {cycleRows, Append(cycleRows, WarmRow(cycle, idx, a))}
        /\ idx' \in {idx, idx + 1}
    BY <1>7 DEF WarmInvoke
  <2>1. cycleRows' \in Seq(Row) /\ idx' \in Nat
    <3>1. WarmRow(cycle, idx, a) \in Row
      BY RowType
    <3>2. Append(cycleRows, WarmRow(cycle, idx, a)) \in Seq(Row)
      BY <3>1, BufferType DEF TypeOK
    <3>3. cycleRows' \in Seq(Row)
      BY <3>2, Zenon DEF TypeOK
    <3>4. idx' \in Nat
      BY DEF TypeOK
    <3> QED
      BY <3>3, <3>4
  <2>2. pc' \in Steps /\ outcome' \in Outcomes
    BY <1>7, <1>e DEF WarmInvoke, TypeOK
  <2> QED
    BY <1>7, <1>l, <2>1, <2>2 DEF WarmInvoke, TypeOK
<1>8. CASE HostCpuInvoke
  <2>1. platform' \in Nat \X Nat \X Nat /\ cpu' \in Nat
    BY <1>8, <1>l, ServedType DEF HostCpuInvoke, TypeOK
  <2>2. pc' \in Steps /\ outcome' \in Outcomes
    BY <1>8, <1>e DEF HostCpuInvoke
  <2>3. coldCpu' \subseteq Nat
    BY <1>8 DEF HostCpuInvoke, TypeOK
  <2> QED
    BY <1>8, <2>1, <2>2, <2>3 DEF HostCpuInvoke, TypeOK
<1>9. CASE FailingInvoke
  <2>1. platform' \in Nat \X Nat \X Nat
    BY <1>9, <1>l DEF FailingInvoke, InvokeFails, TypeOK
  <2>2. pc' \in Steps /\ outcome' \in Outcomes
    BY <1>9, <1>e DEF FailingInvoke, InvokeFails
  <2> QED
    BY <1>9, <2>1, <2>2 DEF FailingInvoke, InvokeFails, TypeOK
<1>10. CASE KeepCycle
  <2>1. rows' \in Seq(Seq(Row))
    BY <1>10, StampedType DEF KeepCycle, TypeOK
  <2>2. pc' \in Steps /\ cycle' \in Nat
    BY <1>10, StartType DEF KeepCycle, TypeOK
  <2> QED
    BY <1>10, <1>r, <2>1, <2>2 DEF KeepCycle, TypeOK
<1>11. CASE RetryCycle
  BY <1>11, <1>r, StartType DEF RetryCycle, CyclesLeft, TypeOK
<1>12. CASE RetryCell
  BY <1>12, <1>r, StartType
     DEF RetryCell, CellsLeft, NextCellAttempt, ResumeAt, TypeOK
<1>13. CASE FailCell
  BY <1>13 DEF FailCell, TypeOK
<1>14. CASE WriteCell
  BY <1>14 DEF WriteCell, TypeOK
<1>15. CASE Recycle
  BY <1>15 DEF Recycle, TypeOK
<1>16. CASE Propagate
  BY <1>16 DEF Propagate, TypeOK
<1>17. CASE UNCHANGED vars
  BY <1>17 DEF vars, TypeOK
<1> QED
  BY <1>1, <1>2, <1>3, <1>4, <1>5, <1>6, <1>7, <1>8, <1>9, <1>10, <1>11,
     <1>12, <1>13, <1>14, <1>15, <1>16, <1>17
     DEF Next, Driver, Attempt, Decide

\* Every variable keeps its type and every retry counter its bound, whatever
\* the platform answers (the three nested retry loops of run.rs).
THEOREM TypeCorrect == Spec => []TypeOK
  BY InitType, NextType, PTL DEF Spec

-----------------------------------------------------------------------------
(* The inductive invariant.                                                *)

RowsInv ==
  /\ CompletedPrefix /\ MarkersTruthful
  /\ ~Redelivery => OneSandboxPerCycle /\ CpuOfTheSandbox

\* A step that leaves the finished cycles alone leaves all that is said of them.
LEMMA RowsKept ==
  ASSUME RowsInv, UNCHANGED <<snapStart, rows, cycle>>
  PROVE  RowsInv'
  BY DEF RowsInv, CompletedPrefix, CleanCycle, MarkersTruthful,
         OneSandboxPerCycle, CpuOfTheSandbox

\* A finished cycle is a cold row followed by the warm ones.
LEMMA KeptType ==
  ASSUME TypeOK, CompletedPrefix, NEW k \in 1 .. Len(rows)
  PROVE  /\ rows[k] \in Seq(Row) /\ Len(rows[k]) = Warm + 1
         /\ \A j \in 1 .. Len(rows[k]) : rows[k][j] \in Row
         /\ rows[k][1].sandbox \in Nat
<1>1. rows[k] \in Seq(Row) /\ Len(rows[k]) = Warm + 1
  BY DEF TypeOK, CompletedPrefix, CleanCycle
<1>2. \A j \in 1 .. Len(rows[k]) : rows[k][j] \in Row
  BY <1>1
<1>3. rows[k][1] \in Row
  BY <1>1, <1>2
<1> QED
  BY <1>1, <1>2, <1>3 DEF Row

\* A cycle under way stays clean when nothing happens but sandboxes being born.
LEMMA BeginningKept ==
  ASSUME TypeOK, CleanBeginning, UNCHANGED snapStart, UNCHANGED buffer,
         born' \in Nat, born' >= born
  PROVE  CleanBeginning'
  BY DEF TypeOK, CleanBeginning, buffer

\* What an answer does to the platform.
LEMMA LandsAges ==
  ASSUME TypeOK, PhaseInv, NEW a \in Served, Lands(a)
  PROVE  /\ born' \in Nat /\ born' >= born
         /\ sandbox' = a.sandbox /\ sandbox' \in 1 .. born'
  BY ServedType DEF Lands, TypeOK, PhaseInv

\* The first row of an attempt: it is cold, on a sandbox younger than all rows.
LEMMA FirstRow ==
  ASSUME TypeOK, PhaseInv, CompletedPrefix, NEW a \in Served, Lands(a),
         a.marker # "none", a.marker = "restore" <=> snapStart,
         cycleRows' = <<ColdRow(cycle, a)>>, idx' = 1,
         UNCHANGED <<snapStart, cycle, rows>>
  PROVE  /\ CleanBeginning'
         /\ sandbox' = cycleRows'[1].sandbox
<1> DEFINE r == ColdRow(cycle, a)
<1>1. /\ r.cycle = cycle /\ r.idx = 0 /\ r.cold = TRUE /\ r.cpu = NoCpu
      /\ r.marker = a.marker /\ r.sandbox = a.sandbox
  BY DEF ColdRow
<1>2. cycleRows' = <<r>>
  OBVIOUS
<1>3. MarkerHolds(r, snapStart)
  BY <1>1 DEF MarkerHolds, IsCold
<1>4. a.sandbox = born + 1 /\ born \in Nat
  BY ServedType DEF TypeOK
<1>5. born' = born + 1 /\ sandbox' = born + 1 /\ r.sandbox = born + 1
  BY <1>1, <1>4 DEF Lands
<1>6. \A k \in 1 .. Len(rows) : rows[k][1].sandbox < r.sandbox
  BY <1>4, <1>5, KeptType DEF PhaseInv
<1> HIDE DEF r
<1>7. Len(cycleRows') = 1 /\ cycleRows'[1] = r
  BY <1>2
<1>8. \A j \in 1 .. Len(cycleRows') : j = 1
  BY <1>7
<1>9. /\ r.cycle = cycle' /\ r.idx = 1 - 1 /\ (r.cold <=> 1 = 1)
      /\ r.sandbox \in 1 .. born'
  BY <1>1, <1>4, <1>5
<1> QED
  BY <1>1, <1>3, <1>5, <1>6, <1>7, <1>8, <1>9 DEF CleanBeginning

\* A warm row: it continues the beginning, on the same sandbox.
LEMMA NextRow ==
  ASSUME TypeOK, PhaseInv, CompletedPrefix, AttemptInv, pc = "warm",
         NEW a \in Served, Lands(a), a.marker = "none",
         cycleRows' = Append(cycleRows, WarmRow(cycle, idx, a)),
         idx' = idx + 1, UNCHANGED <<snapStart, cycle, rows>>
  PROVE  /\ CleanBeginning'
         /\ ~Redelivery => sandbox' = cycleRows'[1].sandbox
<1> DEFINE r == WarmRow(cycle, idx, a)
<1>1. /\ r.cycle = cycle /\ r.idx = idx /\ r.cold = FALSE /\ r.cpu = NoCpu
      /\ r.marker = "none" /\ r.sandbox = a.sandbox
  BY DEF WarmRow
<1>2. cycleRows' = Append(cycleRows, r)
  OBVIOUS
<1>3. MarkerHolds(r, snapStart)
  BY <1>1 DEF MarkerHolds, IsCold
<1>4. CleanBeginning /\ idx \in 1 .. Warm /\ idx \in Nat
  BY DEF AttemptInv, TypeOK
<1> HIDE DEF r
<1>5. cycleRows \in Seq(Row) /\ Len(cycleRows) = idx
  BY <1>4 DEF TypeOK, CleanBeginning
<1>6. /\ Len(cycleRows') = idx + 1
      /\ \A j \in 1 .. idx : cycleRows'[j] = cycleRows[j]
      /\ cycleRows'[idx + 1] = r
      /\ cycleRows'[1] = cycleRows[1]
  BY <1>2, <1>4, <1>5
<1>7. ASSUME ~Redelivery
      PROVE  a.sandbox = cycleRows[1].sandbox
  BY <1>7, ServedType DEF AttemptInv, NoSandbox
<1>8. born' \in Nat /\ born' >= born /\ born \in Nat
  BY LandsAges DEF TypeOK
<1>9. ASSUME NEW j \in 1 .. Len(cycleRows')
      PROVE  /\ cycleRows'[j].cycle = cycle'
             /\ cycleRows'[j].idx = j - 1
             /\ cycleRows'[j].cold <=> j = 1
             /\ MarkerHolds(cycleRows'[j], snapStart)
             /\ cycleRows'[j].cpu = NoCpu
             /\ ~Redelivery => cycleRows'[j].sandbox = cycleRows'[1].sandbox
  <2>1. CASE j \in 1 .. idx
    BY <1>4, <1>5, <1>6, <2>1 DEF CleanBeginning
  <2>2. CASE j = idx + 1
    BY <1>1, <1>3, <1>4, <1>6, <1>7, <2>2
  <2> QED
    BY <1>4, <1>6, <2>1, <2>2
<1>10. /\ cycleRows'[1].sandbox \in 1 .. born'
       /\ \A k \in 1 .. Len(rows) : rows[k][1].sandbox < cycleRows'[1].sandbox
  BY <1>4, <1>6, <1>8 DEF CleanBeginning
<1>11. CleanBeginning'
  BY <1>6, <1>9, <1>10 DEF CleanBeginning
<1> QED
  BY <1>6, <1>7, <1>11 DEF Lands

\* The buffer at the end of an attempt, as it is kept: a clean cycle, younger
\* than the kept ones, all of one sandbox and of one CPU or none.
LEMMA KeptRows ==
  ASSUME IInv, pc = "judge", outcome \in CpuOutcomes,
         NEW rs, rs = IF outcome = "reported" THEN Stamped(cycleRows)
                                              ELSE cycleRows
  PROVE  /\ rs \in Seq(Row) /\ Len(rs) = Warm + 1
         /\ rs[1].sandbox = cycleRows[1].sandbox
         /\ \A j \in 1 .. Len(rs) :
              /\ rs[j].cycle = cycle /\ rs[j].idx = j - 1
              /\ rs[j].cold <=> j = 1
              /\ MarkerHolds(rs[j], snapStart)
              /\ ~Redelivery => /\ rs[j].sandbox = rs[1].sandbox
                                /\ rs[j].cpu \in {NoCpu, rs[j].sandbox}
                                /\ rs[j].cpu = rs[1].cpu
<1>1. Measured /\ CleanBeginning /\ idx = Warm + 1
  BY DEF IInv, AttemptInv, Measured
<1>2. /\ cycleRows \in Seq(Row) /\ Len(cycleRows) = Warm + 1 /\ cpu \in Nat
      /\ 1 \in 1 .. Len(cycleRows)
  BY <1>1 DEF IInv, TypeOK, CleanBeginning
<1>3. \A j \in 1 .. Len(cycleRows) : cycleRows[j] \in Row
  BY <1>2
<1>4. CASE outcome = "reported"
  <2>1. rs = Stamped(cycleRows)
    BY <1>4
  <2>2. rs \in Seq(Row) /\ Len(rs) = Warm + 1
    BY <1>2, <2>1, StampedType
  <2>3. ASSUME NEW j \in 1 .. Len(rs)
        PROVE  /\ rs[j].cycle = cycleRows[j].cycle
               /\ rs[j].idx = cycleRows[j].idx
               /\ rs[j].cold = cycleRows[j].cold
               /\ rs[j].marker = cycleRows[j].marker
               /\ rs[j].sandbox = cycleRows[j].sandbox
               /\ rs[j].cpu = cpu
    <3>1. j \in 1 .. Len(cycleRows) /\ j \in DOMAIN cycleRows
      BY <1>2, <2>2
    <3>2. cycleRows[j] \in Row
      BY <1>3, <3>1
    <3>3. rs[j] = [cycleRows[j] EXCEPT !.cpu = cpu]
      BY <2>1, <3>1 DEF Stamped
    <3> QED
      BY <3>2, <3>3 DEF Row
  <2>4. ~Redelivery => cpu = cycleRows[1].sandbox
    BY <1>4 DEF IInv, AttemptInv
  <2>5. \A j \in 1 .. Len(rs) :
          /\ cycleRows[j].cycle = cycle /\ cycleRows[j].idx = j - 1
          /\ cycleRows[j].cold <=> j = 1
          /\ MarkerHolds(cycleRows[j], snapStart)
          /\ ~Redelivery => cycleRows[j].sandbox = cycleRows[1].sandbox
    BY <1>1, <1>2, <2>2 DEF CleanBeginning
  <2>6. 1 \in 1 .. Len(rs)
    BY <1>2, <2>2
  <2>7. rs[1].sandbox = cycleRows[1].sandbox /\ rs[1].cpu = cpu
    BY <2>3, <2>6
  <2>8. ASSUME NEW j \in 1 .. Len(rs)
        PROVE  /\ rs[j].cycle = cycle /\ rs[j].idx = j - 1
               /\ rs[j].cold <=> j = 1
               /\ MarkerHolds(rs[j], snapStart)
    BY <2>3, <2>5, <2>8 DEF MarkerHolds
  <2>9. ASSUME NEW j \in 1 .. Len(rs), ~Redelivery
        PROVE  /\ rs[j].sandbox = rs[1].sandbox
               /\ rs[j].cpu \in {NoCpu, rs[j].sandbox}
               /\ rs[j].cpu = rs[1].cpu
    <3>1. cycleRows[j].sandbox = cycleRows[1].sandbox
      BY <2>5, <2>9
    <3> QED
      BY <2>3, <2>4, <2>7, <2>9, <3>1
  <2> QED
    BY <2>2, <2>7, <2>8, <2>9
<1>5. CASE outcome # "reported"
  BY <1>1, <1>2, <1>5 DEF CleanBeginning
<1> QED
  BY <1>4, <1>5

\* Keeping a cycle that was completed adds a clean one to the finished ones.
LEMMA RowsGrow ==
  ASSUME IInv, KeepCycle
  PROVE  RowsInv'
<1> DEFINE rs == IF outcome = "reported" THEN Stamped(cycleRows)
                                         ELSE cycleRows
<1>1. /\ rs \in Seq(Row) /\ Len(rs) = Warm + 1
      /\ rs[1].sandbox = cycleRows[1].sandbox
      /\ \A j \in 1 .. Len(rs) :
           /\ rs[j].cycle = cycle /\ rs[j].idx = j - 1
           /\ rs[j].cold <=> j = 1
           /\ MarkerHolds(rs[j], snapStart)
           /\ ~Redelivery => /\ rs[j].sandbox = rs[1].sandbox
                             /\ rs[j].cpu \in {NoCpu, rs[j].sandbox}
                             /\ rs[j].cpu = rs[1].cpu
  BY KeptRows DEF KeepCycle
<1>2. rows' = Append(rows, rs) /\ cycle' = cycle + 1 /\ snapStart' = snapStart
  BY DEF KeepCycle
<1>3. CleanBeginning
  BY DEF IInv, AttemptInv, Measured, KeepCycle
<1>4. \A k \in 1 .. Len(rows) : rows[k][1].sandbox < rs[1].sandbox
  BY <1>1, <1>3 DEF CleanBeginning
<1> HIDE DEF rs
<1>5. /\ Len(rows) = cycle /\ cycle \in Nat /\ rows \in Seq(Seq(Row))
      /\ cycle < Cold
  BY DEF IInv, CompletedPrefix, TypeOK, KeepCycle, PhaseInv
<1>6. /\ Len(rows') = cycle + 1
      /\ \A k \in 1 .. cycle : rows'[k] = rows[k]
      /\ rows'[cycle + 1] = rs
  <2>1. rs \in Seq(Row) /\ rows' = Append(rows, rs)
    BY <1>1, <1>2
  <2> QED
    BY <1>5, <2>1
<1>7. \A k \in 1 .. Len(rows') : k \in 1 .. cycle \/ k = cycle + 1
  BY <1>5, <1>6
<1>8. CleanCycle(cycle + 1, rs)
  BY <1>1, <1>5 DEF CleanCycle
<1>9. CompletedPrefix'
  BY <1>2, <1>5, <1>6, <1>7, <1>8 DEF IInv, CompletedPrefix, CleanCycle
<1>10. MarkersTruthful'
  BY <1>1, <1>2, <1>5, <1>6, <1>7 DEF IInv, MarkersTruthful
<1>11. ASSUME ~Redelivery
       PROVE  OneSandboxPerCycle'
  <2>1. OneSandboxPerCycle
    BY <1>11 DEF IInv
  <2>2. \A k \in 1 .. Len(rows') : \A j \in 1 .. Len(rows'[k]) :
          rows'[k][j].sandbox = rows'[k][1].sandbox
    BY <1>1, <1>5, <1>6, <1>7, <1>11, <2>1 DEF OneSandboxPerCycle
  <2>3. \A k, l \in 1 .. Len(rows') :
          k < l => rows'[k][1].sandbox < rows'[l][1].sandbox
    <3> SUFFICES ASSUME NEW k \in 1 .. Len(rows'), NEW l \in 1 .. Len(rows'),
                        k < l
                 PROVE  rows'[k][1].sandbox < rows'[l][1].sandbox
      OBVIOUS
    <3>1. k \in 1 .. cycle
      BY <1>5, <1>6, <1>7
    <3>2. CASE l \in 1 .. cycle
      BY <1>5, <1>6, <2>1, <3>1, <3>2 DEF OneSandboxPerCycle
    <3>3. CASE l = cycle + 1
      BY <1>4, <1>5, <1>6, <3>1, <3>3
    <3> QED
      BY <1>7, <3>2, <3>3
  <2> QED
    BY <2>2, <2>3 DEF OneSandboxPerCycle
<1>12. ASSUME ~Redelivery
       PROVE  CpuOfTheSandbox'
  <2>1. CpuOfTheSandbox
    BY <1>12 DEF IInv
  <2>2. ASSUME NEW k \in 1 .. Len(rows'), NEW j \in 1 .. Len(rows'[k])
        PROVE  /\ rows'[k][j].cpu \in {NoCpu, rows'[k][j].sandbox}
               /\ rows'[k][j].cpu = NoCpu <=> rows'[k][1].cpu = NoCpu
    <3>1. CASE k \in 1 .. cycle
      <4>1. k \in 1 .. Len(rows) /\ rows'[k] = rows[k]
        BY <1>5, <1>6, <3>1
      <4>2. j \in 1 .. Len(rows[k])
        BY <2>2, <4>1
      <4>3. /\ rows[k][j].cpu \in {NoCpu, rows[k][j].sandbox}
            /\ rows[k][j].cpu = NoCpu <=> rows[k][1].cpu = NoCpu
        BY <2>1, <4>1, <4>2 DEF CpuOfTheSandbox
      <4> QED
        BY <4>1, <4>3
    <3>2. CASE k = cycle + 1
      BY <1>1, <1>6, <1>12, <2>2, <3>2
    <3> QED
      BY <1>7, <3>1, <3>2
  <2> QED
    BY <2>2 DEF CpuOfTheSandbox
<1> QED
  BY <1>9, <1>10, <1>11, <1>12 DEF RowsInv

\* What a step outside the final states leaves of the phase invariants.
LEMMA PhaseKept ==
  ASSUME TypeOK, PhaseInv, CompletedPrefix, AllOrNothing,
         pc \notin {"write", "done", "failed"},
         pc' \notin {"write", "done", "failed"},
         UNCHANGED <<snapStart, cycle, rows, file>>,
         born' \in Nat, born' >= born, sandbox' <= born',
         pc' \in {"force", "cold"} => ~snapStart
  PROVE  PhaseInv' /\ AllOrNothing'
<1>1. \A k \in 1 .. Len(rows) : rows[k][1].sandbox <= born'
  BY KeptType DEF PhaseInv, TypeOK
<1> QED
  BY <1>1 DEF PhaseInv, AllOrNothing

\* A step that leaves the driver without rows to vouch for.
LEMMA NothingMeasured ==
  ASSUME pc' \notin {"warm", "hostCpu"},
         pc' \in {"delete", "judge"} => outcome' \notin CpuOutcomes
  PROVE  AttemptInv'
  BY DEF AttemptInv, Measured, CpuOutcomes

\* The inductive invariant holds when a cell starts.
LEMMA InitInv == Init => IInv
<1> SUFFICES ASSUME Init PROVE IInv
  OBVIOUS
<1>1. TypeOK
  BY InitType
<1>2. rows = <<>> /\ Len(rows) = 0 /\ cycle = 0 /\ file = "absent"
  BY DEF Init
<1>3. CompletedPrefix /\ MarkersTruthful
  BY <1>2 DEF CompletedPrefix, MarkersTruthful
<1>4. OneSandboxPerCycle /\ CpuOfTheSandbox
  BY <1>2 DEF OneSandboxPerCycle, CpuOfTheSandbox
<1>5. pc = NextCycleOrWrite(0)
  BY DEF Init
<1>6. AttemptInv
  BY <1>5 DEF AttemptInv, Measured, NextCycleOrWrite, CycleStart
<1>7. PhaseInv
  BY <1>2, <1>5 DEF PhaseInv, NextCycleOrWrite, CycleStart, Init, NoSandbox
<1>8. AllOrNothing
  BY <1>2, <1>5 DEF AllOrNothing, NextCycleOrWrite, CycleStart
<1> QED
  BY <1>1, <1>3, <1>4, <1>6, <1>7, <1>8 DEF IInv

\* Every step of a cell, the platform's included, keeps the inductive invariant.
LEMMA NextInv == IInv /\ [Next]_vars => IInv'
<1> SUFFICES ASSUME IInv, [Next]_vars PROVE IInv'
  OBVIOUS
<1> USE DEF driver, buffer, verdict, platform
<1>t. /\ TypeOK /\ AttemptInv /\ PhaseInv
      /\ CompletedPrefix /\ MarkersTruthful /\ AllOrNothing /\ RowsInv
  BY DEF IInv, RowsInv
<1>u. TypeOK'
  BY <1>t, NextType
<1>n. sandbox \in Nat /\ born \in Nat /\ sandbox <= born
  BY <1>t DEF TypeOK, PhaseInv
<1>q. ASSUME RowsInv', AttemptInv', PhaseInv', AllOrNothing'
      PROVE  IInv'
  BY <1>u, <1>q DEF IInv, RowsInv
<1>s. \A o : EndAttempt(o) => pc' \in {"delete", "judge"} /\ outcome' = o
  BY DEF EndAttempt
<1>p. pc \in {"force", "cold"} => ~snapStart
  BY <1>t DEF PhaseInv
<1>1. CASE ForceCold
  <2>1. RowsInv' /\ PhaseInv' /\ AllOrNothing'
    BY <1>1, <1>t, <1>n, <1>p, <1>s, RowsKept, PhaseKept DEF ForceCold
  <2>2. AttemptInv'
    BY <1>1, <1>s, NothingMeasured DEF ForceCold, CpuOutcomes
  <2> QED
    BY <1>q, <2>1, <2>2
<1>2. CASE ColdInvoke
  <2>0. PICK a \in Served : /\ ColdLanded(a)
                            /\ Lands(a)
                            /\ cycleRows' = <<ColdRow(cycle, a)>>
                            /\ idx' = 1
    BY <1>2 DEF ColdInvoke
  <2>1. born' \in Nat /\ born' >= born /\ sandbox' <= born'
    BY <2>0, <1>t, LandsAges
  <2>2. RowsInv' /\ PhaseInv' /\ AllOrNothing'
    BY <1>2, <2>1, <1>t, <1>p, RowsKept, PhaseKept DEF ColdInvoke
  <2>3. a.marker # "none" /\ (a.marker = "restore" <=> snapStart)
    BY <1>2, <2>0, <1>p DEF ColdInvoke, ColdLanded, IsCold, Served
  <2>4. CleanBeginning' /\ sandbox' = cycleRows'[1].sandbox
    BY <1>2, <2>0, <2>3, <1>t, FirstRow DEF ColdInvoke
  <2>5. pc' = IF Warm = 0 THEN "hostCpu" ELSE "warm"
    BY <1>2 DEF ColdInvoke
  <2>6. AttemptInv'
    BY <2>0, <2>4, <2>5 DEF AttemptInv, Measured
  <2> QED
    BY <1>q, <2>2, <2>6
<1>3. CASE ForceAgain
  <2>0. PICK a \in Served : Lands(a)
    BY <1>3 DEF ForceAgain
  <2>1. born' \in Nat /\ born' >= born /\ sandbox' <= born'
    BY <2>0, <1>t, LandsAges
  <2>2. \/ pc' = "force"
        \/ pc' \in {"delete", "judge"} /\ outcome' = "error"
    BY <1>3 DEF ForceAgain, EndAttempt
  <2>3. RowsInv' /\ PhaseInv' /\ AllOrNothing'
    BY <1>3, <2>1, <2>2, <1>t, <1>p, RowsKept, PhaseKept DEF ForceAgain
  <2>4. AttemptInv'
    BY <2>2, NothingMeasured DEF CpuOutcomes
  <2> QED
    BY <1>q, <2>3, <2>4
<1>4. CASE Publish
  <2>1. RowsInv' /\ PhaseInv' /\ AllOrNothing'
    BY <1>4, <1>t, <1>n, RowsKept, PhaseKept DEF Publish, NoSandbox
  <2>2. AttemptInv'
    BY <1>4, NothingMeasured DEF Publish, CpuOutcomes
  <2> QED
    BY <1>q, <2>1, <2>2
<1>5. CASE RestoreInvoke
  <2>0. PICK a \in Served :
          /\ Lands(a)
          /\ IF RestoreLanded(a)
             THEN /\ cycleRows' = <<ColdRow(cycle, a)>>
                  /\ idx' = 1
                  /\ pc' = IF Warm = 0 THEN "hostCpu" ELSE "warm"
             ELSE EndAttempt("violation")
    BY <1>5 DEF RestoreInvoke
  <2>1. born' \in Nat /\ born' >= born /\ sandbox' <= born'
    BY <2>0, <1>t, LandsAges
  <2>2. pc' \in {"warm", "hostCpu", "delete", "judge"}
    BY <2>0, <1>s
  <2>3. RowsInv' /\ PhaseInv' /\ AllOrNothing'
    BY <1>5, <2>1, <2>2, <1>t, RowsKept, PhaseKept DEF RestoreInvoke
  <2>4. ASSUME RestoreLanded(a) PROVE AttemptInv'
    <3>1. a.marker # "none" /\ (a.marker = "restore" <=> snapStart)
      BY <2>4 DEF RestoreLanded, Served
    <3>2. CleanBeginning' /\ sandbox' = cycleRows'[1].sandbox
      BY <1>5, <2>0, <2>4, <3>1, <1>t, FirstRow DEF RestoreInvoke
    <3>3. idx' = 1 /\ pc' = IF Warm = 0 THEN "hostCpu" ELSE "warm"
      BY <2>0, <2>4 DEF RestoreLanded
    <3> QED
      BY <3>2, <3>3 DEF AttemptInv, Measured
  <2>5. ASSUME ~RestoreLanded(a) PROVE AttemptInv'
    <3>1. pc' \in {"delete", "judge"} /\ outcome' = "violation"
      BY <2>0, <2>5 DEF EndAttempt, RestoreLanded
    <3> QED
      BY <3>1, NothingMeasured DEF CpuOutcomes
  <2> QED
    BY <1>q, <2>3, <2>4, <2>5
<1>6. CASE DeleteVersion
  <2>1. RowsInv' /\ PhaseInv' /\ AllOrNothing'
    BY <1>6, <1>t, <1>n, RowsKept, PhaseKept DEF DeleteVersion
  <2>2. CleanBeginning => CleanBeginning'
    BY <1>6, <1>t, <1>n, BeginningKept DEF DeleteVersion
  <2>3. AttemptInv'
    BY <1>6, <2>2, <1>t DEF DeleteVersion, AttemptInv, Measured
  <2> QED
    BY <1>q, <2>1, <2>3
<1>7. CASE WarmInvoke
  <2>0. PICK a \in Served :
          /\ Lands(a)
          /\ IF WarmLanded(a)
             THEN /\ cycleRows' = Append(cycleRows, WarmRow(cycle, idx, a))
                  /\ idx' = idx + 1
                  /\ pc' = IF idx < Warm THEN "warm" ELSE "hostCpu"
             ELSE EndAttempt("recycled")
    BY <1>7 DEF WarmInvoke
  <2>1. born' \in Nat /\ born' >= born /\ sandbox' <= born'
    BY <2>0, <1>t, LandsAges
  <2>2. pc' \in {"warm", "hostCpu", "delete", "judge"}
    BY <2>0, <1>s
  <2>3. RowsInv' /\ PhaseInv' /\ AllOrNothing'
    BY <1>7, <2>1, <2>2, <1>t, RowsKept, PhaseKept DEF WarmInvoke
  <2>4. ASSUME WarmLanded(a) PROVE AttemptInv'
    <3>1. a.marker = "none"
      BY <2>4 DEF WarmLanded, IsCold
    <3>2. /\ CleanBeginning'
          /\ ~Redelivery => sandbox' = cycleRows'[1].sandbox
      BY <1>7, <2>0, <2>4, <3>1, <1>t, NextRow DEF WarmInvoke
    <3>3. idx \in 1 .. Warm
      BY <1>7, <1>t DEF WarmInvoke, AttemptInv
    <3>4. idx' = idx + 1 /\ pc' = IF idx < Warm THEN "warm" ELSE "hostCpu"
      BY <2>0, <2>4 DEF WarmLanded
    <3> QED
      BY <3>2, <3>3, <3>4 DEF AttemptInv, Measured
  <2>5. ASSUME ~WarmLanded(a) PROVE AttemptInv'
    <3>1. pc' \in {"delete", "judge"} /\ outcome' = "recycled"
      BY <2>0, <2>5 DEF EndAttempt, WarmLanded
    <3> QED
      BY <3>1, NothingMeasured DEF CpuOutcomes
  <2> QED
    BY <1>q, <2>3, <2>4, <2>5
<1>8. CASE HostCpuInvoke
  <2>1. /\ born' \in Nat /\ born' >= born /\ sandbox' <= born'
        /\ pc' \in {"delete", "judge"} /\ outcome' \in CpuOutcomes
    BY <1>8, <1>t, <1>n, LandsAges DEF HostCpuInvoke, EndAttempt, CpuOutcomes
  <2>2. RowsInv' /\ PhaseInv' /\ AllOrNothing'
    BY <1>8, <2>1, <1>t, RowsKept, PhaseKept DEF HostCpuInvoke
  <2>3. CleanBeginning /\ idx = Warm + 1
    BY <1>8, <1>t DEF HostCpuInvoke, AttemptInv, Measured
  <2>4. CleanBeginning'
    BY <1>8, <2>1, <2>3, <1>t, BeginningKept DEF HostCpuInvoke
  <2>5. ASSUME outcome' = "reported", ~Redelivery
        PROVE  cpu' = cycleRows'[1].sandbox
    <3>1. PICK a \in Served : HostCpuLanded(a) /\ cpu' = a.sandbox
      BY <1>8, <2>5 DEF HostCpuInvoke, EndAttempt
    <3>2. sandbox \in {NoSandbox, cycleRows[1].sandbox}
      BY <1>8, <2>5, <1>t DEF HostCpuInvoke, AttemptInv
    <3>3. a.marker = "none"
      BY <3>1 DEF HostCpuLanded, IsCold
    <3>4. a.sandbox = cycleRows[1].sandbox
      BY <2>5, <3>2, <3>3, <1>t, ServedType
    <3> QED
      BY <1>8, <3>1, <3>4 DEF HostCpuInvoke
  <2>6. idx' = idx
    BY <1>8 DEF HostCpuInvoke
  <2>7. AttemptInv'
    BY <2>1, <2>3, <2>4, <2>5, <2>6 DEF AttemptInv, Measured
  <2> QED
    BY <1>q, <2>2, <2>7
<1>9. CASE FailingInvoke
  <2>1. /\ born' \in Nat /\ born' >= born /\ sandbox' <= born'
        /\ pc' \in {"delete", "judge"} /\ outcome' \in Errors
    BY <1>9, <1>t, <1>n, LandsAges
       DEF FailingInvoke, InvokeFails, EndAttempt, Errors
  <2>2. RowsInv' /\ PhaseInv' /\ AllOrNothing'
    BY <1>9, <2>1, <1>t, RowsKept, PhaseKept DEF FailingInvoke, InvokeFails
  <2>3. AttemptInv'
    BY <2>1, NothingMeasured DEF CpuOutcomes, Errors
  <2> QED
    BY <1>q, <2>2, <2>3
<1>10. CASE KeepCycle
  <2>1. RowsInv'
    BY <1>10, RowsGrow
  <2>2. cycle < Cold /\ cycle \in Nat /\ cycle' = cycle + 1
    BY <1>10, <1>t DEF KeepCycle, PhaseInv, TypeOK
  <2>3. pc' = NextCycleOrWrite(cycle + 1)
    BY <1>10 DEF KeepCycle
  <2>4. /\ pc' \in {"force", "publish", "write"}
        /\ pc' = "force" => ~snapStart
        /\ pc' = "write" => cycle' = Cold
        /\ pc' # "write" => cycle' < Cold
    BY <2>2, <2>3 DEF NextCycleOrWrite, CycleStart
  <2>5. UNCHANGED <<sandbox, born, file>> /\ file = "absent"
    BY <1>10, <1>t DEF KeepCycle, AllOrNothing, TypeOK
  <2>6. \A k \in 1 .. Len(rows') : rows'[k][1].sandbox <= born'
    <3> DEFINE rs == IF outcome = "reported" THEN Stamped(cycleRows)
                                             ELSE cycleRows
    <3>1. rs[1].sandbox = cycleRows[1].sandbox
      BY <1>10, KeptRows DEF KeepCycle
    <3>2. cycleRows[1].sandbox \in 1 .. born
      BY <1>10, <1>t DEF KeepCycle, AttemptInv, Measured, CleanBeginning
    <3>3. rows' = Append(rows, rs) /\ rows \in Seq(Seq(Row))
      BY <1>10, <1>t DEF KeepCycle, TypeOK
    <3> HIDE DEF rs
    <3>4. rs[1].sandbox <= born
      BY <3>1, <3>2, <1>n
    <3>5. \A k \in 1 .. Len(rows') :
            rows'[k] = rs \/ (k \in 1 .. Len(rows) /\ rows'[k] = rows[k])
      BY <3>3
    <3> QED
      BY <2>5, <3>4, <3>5, <1>t DEF PhaseInv
  <2>7. PhaseInv'
    BY <2>4, <2>5, <2>6, <1>n, <1>10 DEF PhaseInv, KeepCycle
  <2>8. AllOrNothing'
    BY <2>4, <2>5 DEF AllOrNothing
  <2>9. AttemptInv'
    BY <2>4, NothingMeasured
  <2> QED
    BY <1>q, <2>1, <2>7, <2>8, <2>9
<1>r. /\ CycleStart \in {"force", "publish"}
      /\ CycleStart = "force" => ~snapStart
  BY DEF CycleStart
<1>11. CASE RetryCycle
  <2>1. RowsInv' /\ PhaseInv' /\ AllOrNothing'
    BY <1>11, <1>t, <1>n, <1>r, RowsKept, PhaseKept DEF RetryCycle
  <2>2. AttemptInv'
    BY <1>11, <1>r, NothingMeasured DEF RetryCycle
  <2> QED
    BY <1>q, <2>1, <2>2
<1>12. CASE RetryCell
  <2>1. RowsInv' /\ PhaseInv' /\ AllOrNothing'
    BY <1>12, <1>t, <1>n, <1>r, RowsKept, PhaseKept
       DEF RetryCell, CycleFailed, ResumeAt
  <2>2. AttemptInv'
    BY <1>12, <1>r, NothingMeasured DEF RetryCell
  <2> QED
    BY <1>q, <2>1, <2>2
<1>13. CASE FailCell
  <2>1. RowsInv'
    BY <1>13, <1>t, RowsKept DEF FailCell
  <2>2. PhaseInv' /\ AllOrNothing' /\ AttemptInv'
    BY <1>13, <1>t
       DEF FailCell, CycleFailed, PhaseInv, AllOrNothing, AttemptInv, Measured
  <2> QED
    BY <1>q, <2>1, <2>2
<1>14. CASE WriteCell
  <2>1. RowsInv'
    BY <1>14, <1>t, RowsKept DEF WriteCell
  <2>2. PhaseInv' /\ AllOrNothing' /\ AttemptInv'
    BY <1>14, <1>t
       DEF WriteCell, PhaseInv, AllOrNothing, AttemptInv, Measured
  <2> QED
    BY <1>q, <2>1, <2>2
<1>15. ASSUME /\ sandbox' = NoSandbox /\ born' = born
              /\ UNCHANGED <<snapStart, pc, driver, buffer, verdict, file>>
       PROVE  IInv'
  <2>1. RowsInv'
    BY <1>15, <1>t, RowsKept
  <2>2. CleanBeginning => CleanBeginning'
    BY <1>15, <1>t, <1>n, BeginningKept
  <2>3. AttemptInv'
    BY <1>15, <2>2, <1>t DEF AttemptInv, Measured
  <2>4. PhaseInv' /\ AllOrNothing'
    BY <1>15, <1>t, <1>n DEF PhaseInv, AllOrNothing, NoSandbox
  <2> QED
    BY <1>q, <2>1, <2>3, <2>4
<1>16. CASE UNCHANGED vars
  <2>1. RowsInv'
    BY <1>16, <1>t, RowsKept DEF vars
  <2>2. CleanBeginning => CleanBeginning'
    BY <1>16, <1>t, <1>n, BeginningKept DEF vars
  <2>3. AttemptInv'
    BY <1>16, <2>2, <1>t DEF AttemptInv, Measured, vars
  <2>4. PhaseInv' /\ AllOrNothing'
    BY <1>16, <1>t DEF PhaseInv, AllOrNothing, vars
  <2> QED
    BY <1>q, <2>1, <2>3, <2>4
<1> QED
  BY <1>1, <1>2, <1>3, <1>4, <1>5, <1>6, <1>7, <1>8, <1>9, <1>10, <1>11,
     <1>12, <1>13, <1>14, <1>15, <1>16
     DEF Next, Driver, Attempt, Decide, Recycle, Propagate

\* The inductive invariant holds of every behaviour of a cell.
THEOREM Inductive == Spec => []IInv
  BY InitInv, NextInv, PTL DEF Spec

\* Across every retry the buffer is the completed prefix of the cell, every
\* buffered cycle a cold invoke and its warm tail (run_cycles' out-params).
THEOREM PrefixCorrect == Spec => []CompletedPrefix
<1>1. IInv => CompletedPrefix
  BY DEF IInv
<1> QED
  BY <1>1, Inductive, PTL

\* No row is recorded as cold that was served warm, nor the reverse, and a cold
\* SnapStart row is a restore (the fail-loud markers of run.rs).
THEOREM MarkersCorrect == Spec => []MarkersTruthful
<1>1. IInv => MarkersTruthful
  BY DEF IInv
<1> QED
  BY <1>1, Inductive, PTL

\* Nothing of a cell is in the file before all its cycles are sampled, and all
\* of it when the cell is done (write_cell at the end of run_cell).
THEOREM FileCorrect == Spec => []AllOrNothing
<1>1. IInv => AllOrNothing
  BY DEF IInv
<1> QED
  BY <1>1, Inductive, PTL

\* Where no invoke is delivered twice, a completed cycle was served by a single
\* sandbox, each cycle by its own (the serial driver of run.rs).
THEOREM SandboxCorrect ==
  ASSUME ~Redelivery
  PROVE  Spec => []OneSandboxPerCycle
<1>1. IInv => OneSandboxPerCycle
  BY DEF IInv
<1> QED
  BY <1>1, Inductive, PTL

\* Where no invoke is delivered twice, the CPU stamped on a row is that of the
\* sandbox that served it, and all rows of a cycle carry one or none
\* (apply_host_cpu).
THEOREM CpuCorrect ==
  ASSUME ~Redelivery
  PROVE  Spec => []CpuOfTheSandbox
<1>1. IInv => CpuOfTheSandbox
  BY DEF IInv
<1> QED
  BY <1>1, Inductive, PTL

-----------------------------------------------------------------------------
(* A cell without a CPU.                                                   *)

\* A cycle is kept without a CPU only where one was seen before, or where its
\* CPU invoke landed cold: as long as none was seen, every kept cycle's did.
Silent ==
  /\ coldCpu \subseteq 0 .. Cold - 1
  /\ pc \in {"delete", "judge"} /\ outcome = "recycledAfter" => cycle \in coldCpu
  /\ pc \in {"delete", "judge"} /\ outcome = "reported" => cpu # NoCpu
  /\ ~CpuSeen => 0 .. cycle - 1 \subseteq coldCpu

\* A step that leaves the kept cycles, and reports neither of the two outcomes
\* that need a reason, keeps it.
LEMMA SilentKept ==
  ASSUME Silent, UNCHANGED <<rows, cycle, coldCpu>>,
         pc' \in {"delete", "judge"} /\ outcome' \in {"recycledAfter", "reported"}
           => pc \in {"delete", "judge"} /\ UNCHANGED <<outcome, cpu>>
  PROVE  Silent'
  BY DEF Silent, CpuSeen

LEMMA SilentHostCpu ==
  ASSUME IInv, Silent, HostCpuInvoke
  PROVE  Silent'
<1>1. cycle \in 0 .. Cold - 1
  BY DEF IInv, TypeOK, PhaseInv, HostCpuInvoke
<1>2. UNCHANGED <<rows, cycle>>
  BY DEF HostCpuInvoke, buffer
<1>3. CpuSeen' <=> CpuSeen
  BY <1>2 DEF CpuSeen
<1>4. /\ coldCpu' \in {coldCpu, coldCpu \cup {cycle}}
      /\ outcome' = "recycledAfter" => coldCpu' = coldCpu \cup {cycle}
      /\ outcome' = "reported" => \E a \in Served : cpu' = a.sandbox
  BY DEF HostCpuInvoke, EndAttempt
<1>5. outcome' = "reported" => cpu' # NoCpu
  BY <1>4, ServedType DEF NoCpu, IInv
<1>6. coldCpu' \subseteq 0 .. Cold - 1 /\ coldCpu \subseteq coldCpu'
  BY <1>1, <1>4 DEF Silent
<1> QED
  BY <1>2, <1>3, <1>4, <1>5, <1>6 DEF Silent

LEMMA SilentKeep ==
  ASSUME IInv, Silent, KeepCycle
  PROVE  Silent'
<1> DEFINE rs == IF outcome = "reported" THEN Stamped(cycleRows)
                                         ELSE cycleRows
<1>1. /\ rows' = Append(rows, rs) /\ cycle' = cycle + 1
      /\ outcome' = "none" /\ coldCpu' = coldCpu
      /\ pc = "judge" /\ outcome \in CpuOutcomes /\ ~CpuMissing
  BY DEF KeepCycle, ResetAttempt
<1>2. rows \in Seq(Seq(Row)) /\ cycle \in Nat /\ cycleRows \in Seq(Row)
  BY DEF IInv, TypeOK
<1>3. Len(cycleRows) = Warm + 1
  BY <1>1 DEF IInv, AttemptInv, Measured, CleanBeginning
<1>4. (rs[1].cpu # NoCpu /\ 1 \in DOMAIN rs) \/ outcome # "reported"
  <2>1. CASE outcome = "reported"
    <3>1. 1 \in DOMAIN cycleRows /\ cycleRows[1] \in Row
      BY <1>2, <1>3
    <3>2. rs[1] = [cycleRows[1] EXCEPT !.cpu = cpu] /\ 1 \in DOMAIN rs
      BY <2>1, <3>1 DEF Stamped
    <3>3. rs[1].cpu = cpu
      BY <3>1, <3>2 DEF Row
    <3> QED
      BY <1>1, <2>1, <3>2, <3>3 DEF Silent
  <2> QED
    BY <2>1
<1> HIDE DEF rs
<1>5. /\ Len(rows) + 1 \in DOMAIN rows' /\ rows'[Len(rows) + 1] = rs
      /\ \A k \in DOMAIN rows : k \in DOMAIN rows' /\ rows'[k] = rows[k]
  BY <1>1, <1>2
<1>6. ASSUME ~CpuSeen'
      PROVE  0 .. cycle' - 1 \subseteq coldCpu'
  <2>1. ~CpuSeen
    BY <1>5, <1>6 DEF CpuSeen
  <2>2. outcome # "reported"
    BY <1>4, <1>5, <1>6 DEF CpuSeen
  <2>3. outcome = "recycledAfter"
    BY <1>1, <2>1, <2>2 DEF CpuMissing, CpuOutcomes
  <2>4. cycle \in coldCpu /\ 0 .. cycle - 1 \subseteq coldCpu
    BY <1>1, <2>1, <2>3 DEF Silent
  <2> QED
    BY <1>1, <1>2, <2>4
<1> QED
  BY <1>1, <1>6 DEF Silent

\* Every step keeps what accounts for a cell without a CPU.
LEMMA NextSilent == IInv /\ Silent /\ [Next]_vars => Silent'
<1> SUFFICES ASSUME IInv, Silent, [Next]_vars PROVE Silent'
  OBVIOUS
<1>1. CASE HostCpuInvoke
  BY <1>1, SilentHostCpu
<1>2. CASE KeepCycle
  BY <1>2, SilentKeep
<1>3. CASE ~HostCpuInvoke /\ ~KeepCycle
  <2>1. UNCHANGED <<rows, cycle, coldCpu>>
    BY <1>3 DEF Next, Driver, Attempt, Decide, vars, buffer, Recycle,
       Propagate, ForceCold, ColdInvoke, ForceAgain, Publish, RestoreInvoke,
       DeleteVersion, WarmInvoke, FailingInvoke, InvokeFails,
       RetryCycle, RetryCell, ResumeAt, FailCell, WriteCell
  <2>2. \/ pc' \notin {"delete", "judge"}
        \/ outcome' \notin {"recycledAfter", "reported"}
        \/ pc \in {"delete", "judge"} /\ UNCHANGED <<outcome, cpu>>
    BY <1>3 DEF Next, Driver, Attempt, Decide, vars, verdict, Recycle,
       Propagate, ForceCold, ColdInvoke, ForceAgain, Publish, RestoreInvoke,
       DeleteVersion, WarmInvoke, FailingInvoke, InvokeFails, Errors,
       RetryCycle, RetryCell, ResetAttempt, FailCell, WriteCell, EndAttempt,
       CycleStart
  <2> QED
    BY <2>1, <2>2, SilentKept
<1> QED
  BY <1>1, <1>2, <1>3

\* A cell is written without a CPU only if the CPU invoke of each of its cycles
\* landed cold: a handler that never logs its CPU cannot slip through
\* (apply_host_cpu's guard, across every retry).
THEOREM SilentHandlerCorrect == Spec => []SilentHandlerStopped
<1>1. Init => Silent
  BY DEF Init, Silent, NextCycleOrWrite, CycleStart
<1>2. Spec => []Silent
  BY <1>1, Inductive, NextSilent, PTL DEF Spec
<1>3. IInv /\ Silent => SilentHandlerStopped
  <2> SUFFICES ASSUME IInv, Silent, file = "whole", ~CpuSeen
               PROVE  coldCpu = 0 .. Cold - 1
    BY DEF SilentHandlerStopped
  <2>1. cycle = Cold
    BY DEF IInv, AllOrNothing
  <2> QED
    BY <2>1 DEF Silent
<1> QED
  BY <1>2, <1>3, Inductive, PTL

-----------------------------------------------------------------------------

\* No step drops or rewrites a completed cycle, retries included.
THEOREM CyclesKept == Spec => CompletedCyclesKept
<1> DEFINE A == \/ rows' = rows /\ cycle' = cycle
                \/ /\ Len(rows') = Len(rows) + 1
                   /\ cycle' = cycle + 1
                   /\ \A k \in 1 .. Len(rows) : rows'[k] = rows[k]
<1>1. TypeOK /\ [Next]_vars => A
  <2> SUFFICES ASSUME TypeOK, [Next]_vars PROVE A
    OBVIOUS
  <2>1. CASE KeepCycle
    <3> DEFINE rs == IF outcome = "reported" THEN Stamped(cycleRows)
                                             ELSE cycleRows
    <3>1. rows' = Append(rows, rs) /\ rows \in Seq(Seq(Row)) /\ cycle' = cycle + 1
      BY <2>1 DEF KeepCycle, TypeOK
    <3> HIDE DEF rs
    <3> QED
      BY <3>1
  <2>2. CASE ~KeepCycle
    BY <2>2 DEF Next, Driver, Attempt, Decide, vars, buffer, Recycle,
       Propagate, ForceCold, ColdInvoke, ForceAgain, Publish, RestoreInvoke,
       DeleteVersion, WarmInvoke, HostCpuInvoke, FailingInvoke, InvokeFails,
       RetryCycle, RetryCell, ResumeAt, FailCell, WriteCell
  <2> QED
    BY <2>1, <2>2
<1> HIDE DEF A
<1>2. Spec => [][A]_vars
  BY <1>1, TypeCorrect, PTL DEF Spec
<1> QED
  BY <1>2 DEF A, CompletedCyclesKept

\* The safety half of SamplesTheCell: every step of the retry machinery keeps
\* one cycle, commits the complete cell, aborts it, or is invisible to the run
\* loop above it.
THEOREM RefinesSampling ==
  Spec => Sampling!Init /\ [][Sampling!Next]_(Sampling!vars)
<1> DEFINE fate == CASE pc = "done" -> "committed"
                     [] pc = "failed" -> "aborted"
                     [] OTHER -> "sampling"
<1>i. Init => Sampling!Init
  BY DEF Init, Sampling!Init, NextCycleOrWrite, CycleStart
<1>n. IInv /\ [Next]_vars => [Sampling!Next]_(Sampling!vars)
  <2> SUFFICES ASSUME IInv, [Next]_vars
               PROVE  Sampling!Next \/ UNCHANGED <<cycle, fate>>
    BY DEF Sampling!vars
  <2>1. CASE KeepCycle
    <3>1. cycle < Cold /\ cycle' = cycle + 1
      BY <2>1 DEF KeepCycle, IInv, PhaseInv
    <3>2. pc = "judge" /\ pc' \in {"force", "publish", "write"}
      BY <2>1 DEF KeepCycle, NextCycleOrWrite, CycleStart
    <3> QED
      BY <3>1, <3>2 DEF Sampling!Next, Sampling!Keep
  <2>2. CASE WriteCell
    <3>1. cycle = Cold
      BY <2>2 DEF WriteCell, IInv, PhaseInv
    <3> QED
      BY <2>2, <3>1
         DEF WriteCell, buffer, Sampling!Next, Sampling!Commit, Sampling!Abort,
             Sampling!Last
  <2>3. CASE FailCell
    BY <2>3 DEF FailCell, CycleFailed, buffer, Sampling!Next, Sampling!Abort,
       Sampling!Last
  <2>4. CASE ~(KeepCycle \/ WriteCell \/ FailCell)
    <3>1. /\ cycle' = cycle
          /\ pc' = pc \/ {pc, pc'} \cap {"done", "failed"} = {}
      BY <2>4 DEF Next, Driver, Attempt, Decide, vars, buffer, Recycle,
         Propagate, ForceCold, ColdInvoke, ForceAgain, Publish, RestoreInvoke,
         DeleteVersion, WarmInvoke, HostCpuInvoke, FailingInvoke, InvokeFails,
         RetryCycle, RetryCell, CycleFailed, ResumeAt, EndAttempt, CycleStart
    <3> QED
      BY <3>1
  <2> QED
    BY <2>1, <2>2, <2>3, <2>4
<1> QED
  BY <1>i, <1>n, Inductive, PTL DEF Spec

-----------------------------------------------------------------------------
(* The retry loops end.                                                    *)

\* Where an attempt is, counted down.
StepOfAttempt ==
  CASE pc \in {"force", "publish"} -> Warm + 5
    [] pc \in {"cold", "restore"} -> Warm + 4
    [] pc = "warm" -> Warm + 4 - idx
    [] pc = "hostCpu" -> 3
    [] pc = "delete" -> 2
    [] pc \in {"judge", "write"} -> 1
    [] OTHER -> 0

\* The number with these digits: each loop's count within that of the loop around it.
Rank(a, b, c, d, e) ==
  (((a * (Cold + 1) + b) * MaxCycleAttempts + c) * MaxColdForceAttempts + d) * (Warm + 6) + e

\* An upper bound on the steps the driver has yet to take.
StepsLeft ==
  Rank(MaxCellAttempts - cellAttempt, Cold - cycle, MaxCycleAttempts - cycleAttempt,
       MaxColdForceAttempts - forceAttempt, StepOfAttempt)

\* A digit more, and comparing them.
LEMMA Digits ==
  ASSUME NEW n \in Nat \ {0}, NEW a \in Nat, NEW b \in Nat,
         NEW c \in 0 .. n - 1, NEW d \in 0 .. n - 1
  PROVE  /\ a * n + c \in Nat
         /\ a < b => a * n + c < b * n + d
         /\ a = b /\ c < d => a * n + c < b * n + d
<1>1. PICK p \in Nat, q \in Nat : p = a * n /\ q = b * n
  OBVIOUS
<1>2. a < b => p + n <= q
  <2>1. SUFFICES ASSUME a < b PROVE p + n <= q
    OBVIOUS
  <2>2. PICK k \in Nat : b = a + 1 + k
    <3>1. b - a - 1 \in Nat /\ b = a + 1 + (b - a - 1)
      BY <2>1
    <3>2. QED
      BY <3>1
  <2>3. (a + 1 + k) * n = a * n + n + k * n /\ k * n \in Nat
    OBVIOUS
  <2>4. QED
    BY <1>1, <2>2, <2>3
<1>3. a = b => p = q
  BY <1>1
<1>4. QED
  BY <1>1, <1>2, <1>3

InRange(a, b, c, d, e) ==
  /\ a \in Nat /\ b \in 0 .. Cold /\ c \in 0 .. MaxCycleAttempts - 1
  /\ d \in 0 .. MaxColdForceAttempts - 1 /\ e \in 0 .. Warm + 5

Below(a, b, c, d, e, p, q, r, s, t) ==
  \/ a < p
  \/ a = p /\ b < q
  \/ a = p /\ b = q /\ c < r
  \/ a = p /\ b = q /\ c = r /\ d < s
  \/ a = p /\ b = q /\ c = r /\ d = s /\ e < t

LEMMA RankFalls ==
  ASSUME NEW a, NEW b, NEW c, NEW d, NEW e, InRange(a, b, c, d, e),
         NEW p, NEW q, NEW r, NEW s, NEW t, InRange(p, q, r, s, t)
  PROVE  /\ Rank(a, b, c, d, e) \in Nat
         /\ Below(a, b, c, d, e, p, q, r, s, t) => Rank(a, b, c, d, e) < Rank(p, q, r, s, t)
<1>0. /\ Cold + 1 \in Nat \ {0} /\ MaxCycleAttempts \in Nat \ {0}
      /\ MaxColdForceAttempts \in Nat \ {0} /\ Warm + 6 \in Nat \ {0}
      /\ a \in Nat /\ p \in Nat
      /\ b \in 0 .. (Cold + 1) - 1 /\ q \in 0 .. (Cold + 1) - 1
      /\ c \in 0 .. MaxCycleAttempts - 1 /\ r \in 0 .. MaxCycleAttempts - 1
      /\ d \in 0 .. MaxColdForceAttempts - 1 /\ s \in 0 .. MaxColdForceAttempts - 1
      /\ e \in 0 .. (Warm + 6) - 1 /\ t \in 0 .. (Warm + 6) - 1
  BY DEF InRange
<1>1. PICK u, v : u = a * (Cold + 1) + b /\ v = p * (Cold + 1) + q
  OBVIOUS
<1>2. /\ u \in Nat /\ v \in Nat
      /\ a < p \/ (a = p /\ b < q) => u < v
      /\ a = p /\ b = q => u = v
  <2> DEFINE n == Cold + 1
  <2> HIDE DEF n
  <2>1. n \in Nat \ {0} /\ b \in 0 .. n - 1 /\ q \in 0 .. n - 1 /\ u = a * n + b /\ v = p * n + q
    BY <1>0, <1>1 DEF n
  <2>2. u \in Nat /\ v \in Nat /\ (a < p \/ (a = p /\ b < q) => u < v)
    BY <1>0, <2>1, Digits
  <2>3. QED
    BY <1>1, <2>2
<1>3. PICK w, x : w = u * MaxCycleAttempts + c /\ x = v * MaxCycleAttempts + r
  OBVIOUS
<1>4. /\ w \in Nat /\ x \in Nat
      /\ u < v \/ (u = v /\ c < r) => w < x
      /\ u = v /\ c = r => w = x
  BY <1>0, <1>2, <1>3, Digits
<1>5. PICK y, z : y = w * MaxColdForceAttempts + d /\ z = x * MaxColdForceAttempts + s
  OBVIOUS
<1>6. /\ y \in Nat /\ z \in Nat
      /\ w < x \/ (w = x /\ d < s) => y < z
      /\ w = x /\ d = s => y = z
  BY <1>0, <1>4, <1>5, Digits
<1>7. /\ Rank(a, b, c, d, e) = y * (Warm + 6) + e
      /\ Rank(p, q, r, s, t) = z * (Warm + 6) + t
  BY <1>1, <1>3, <1>5 DEF Rank
<1>8. /\ Rank(a, b, c, d, e) \in Nat
      /\ y < z \/ (y = z /\ e < t) => Rank(a, b, c, d, e) < Rank(p, q, r, s, t)
  <2> DEFINE n == Warm + 6
  <2> HIDE DEF n
  <2>1. /\ n \in Nat \ {0} /\ e \in 0 .. n - 1 /\ t \in 0 .. n - 1
        /\ Rank(a, b, c, d, e) = y * n + e /\ Rank(p, q, r, s, t) = z * n + t
    BY <1>0, <1>7 DEF n
  <2>2. QED
    BY <1>6, <2>1, Digits
<1>9. QED
  BY <1>2, <1>4, <1>6, <1>8 DEF Below

\* The digits, in a state that can occur.
Ranged ==
  InRange(MaxCellAttempts - cellAttempt, Cold - cycle, MaxCycleAttempts - cycleAttempt,
          MaxColdForceAttempts - forceAttempt, StepOfAttempt)

LEMMA DigitsInRange ==
  ASSUME IInv
  PROVE  Ranged
<1>1. /\ cellAttempt \in 1 .. MaxCellAttempts /\ cycleAttempt \in 1 .. MaxCycleAttempts
      /\ forceAttempt \in 1 .. MaxColdForceAttempts /\ cycle \in 0 .. Cold
      /\ pc = "warm" => idx \in 1 .. Warm
  BY DEF IInv, TypeOK, AttemptInv, CompletedPrefix
<1>2. StepOfAttempt \in 0 .. Warm + 5
  <2>1. CASE pc = "warm"
    <3>1. idx \in 1 .. Warm
      BY <1>1, <2>1
    <3>2. StepOfAttempt = Warm + 4 - idx
      BY <2>1 DEF StepOfAttempt
    <3>3. QED
      BY <3>1, <3>2
  <2>2. CASE pc # "warm"
    BY <2>2 DEF StepOfAttempt
  <2>3. QED
    BY <2>1, <2>2
<1>3. QED
  BY <1>1, <1>2 DEF Ranged, InRange

\* What a step of the driver counts up or takes off.
LEMMA StepFalls ==
  ASSUME IInv, Driver
  PROVE  \/ cellAttempt' = cellAttempt + 1
         \/ cellAttempt' = cellAttempt /\ cycle' = cycle + 1
         \/ UNCHANGED <<cellAttempt, cycle>> /\ cycleAttempt' = cycleAttempt + 1
         \/ UNCHANGED <<cellAttempt, cycle, cycleAttempt>> /\ forceAttempt' = forceAttempt + 1
         \/ UNCHANGED <<driver, cycle>> /\ StepOfAttempt' < StepOfAttempt
<1>0. Warm \in Nat /\ idx \in Nat /\ (pc = "warm" => idx \in 1 .. Warm)
  BY DEF IInv, TypeOK, AttemptInv
<1>1. CASE ForceCold
  <2>1. pc = "force" /\ pc' \in {"cold", "delete", "judge"} /\ UNCHANGED <<driver, cycle>>
    BY <1>1 DEF ForceCold, EndAttempt, buffer
  <2>2. QED
    BY <1>0, <2>1 DEF StepOfAttempt, driver
<1>2. CASE ColdInvoke
  <2>1. pc = "cold" /\ UNCHANGED <<driver, cycle>> /\ idx' = 1
    BY <1>2 DEF ColdInvoke
  <2>2. pc' = IF Warm = 0 THEN "hostCpu" ELSE "warm"
    BY <1>2 DEF ColdInvoke
  <2>3. QED
    BY <1>0, <2>1, <2>2 DEF StepOfAttempt, driver
<1>3. CASE ForceAgain
  <2>1. pc = "cold" /\ UNCHANGED <<cellAttempt, cycleAttempt, cycle>>
    BY <1>3 DEF ForceAgain, buffer
  <2>2. forceAttempt' = forceAttempt + 1 \/ (UNCHANGED forceAttempt /\ pc' \in {"delete", "judge"})
    BY <1>3 DEF ForceAgain, EndAttempt
  <2>3. QED
    BY <1>0, <2>1, <2>2 DEF StepOfAttempt, driver
<1>4. CASE Publish
  <2>1. pc = "publish" /\ pc' \in {"restore", "judge"} /\ UNCHANGED <<driver, cycle>>
    BY <1>4 DEF Publish, buffer
  <2>2. QED
    BY <1>0, <2>1 DEF StepOfAttempt, driver
<1>5. CASE RestoreInvoke
  <2>1. pc = "restore" /\ UNCHANGED <<driver, cycle>>
    BY <1>5 DEF RestoreInvoke
  <2>2. \/ idx' = 1 /\ pc' = IF Warm = 0 THEN "hostCpu" ELSE "warm"
        \/ pc' \in {"delete", "judge"}
    BY <1>5 DEF RestoreInvoke, EndAttempt
  <2>3. QED
    BY <1>0, <2>1, <2>2 DEF StepOfAttempt, driver
<1>6. CASE DeleteVersion
  <2>1. pc = "delete" /\ pc' = "judge" /\ UNCHANGED <<driver, cycle>>
    BY <1>6 DEF DeleteVersion, buffer
  <2>2. QED
    BY <1>0, <2>1 DEF StepOfAttempt, driver
<1>7. CASE WarmInvoke
  <2>1. pc = "warm" /\ UNCHANGED <<driver, cycle>> /\ idx \in 1 .. Warm
    BY <1>0, <1>7 DEF WarmInvoke
  <2>2. \/ idx' = idx + 1 /\ pc' = IF idx < Warm THEN "warm" ELSE "hostCpu"
        \/ pc' \in {"delete", "judge"}
    BY <1>7 DEF WarmInvoke, EndAttempt
  <2>3. QED
    BY <1>0, <2>1, <2>2 DEF StepOfAttempt, driver
<1>8. CASE HostCpuInvoke
  <2>1. pc = "hostCpu" /\ pc' \in {"delete", "judge"} /\ UNCHANGED <<driver, cycle>>
    BY <1>8 DEF HostCpuInvoke, EndAttempt, buffer
  <2>2. QED
    BY <1>0, <2>1 DEF StepOfAttempt, driver
<1>9. CASE FailingInvoke
  <2>1. pc \in {"cold", "restore", "warm"} /\ pc' \in {"delete", "judge"}
        /\ UNCHANGED <<driver, cycle>>
    BY <1>9 DEF FailingInvoke, InvokeFails, EndAttempt, buffer
  <2>2. QED
    BY <1>0, <2>1 DEF StepOfAttempt, driver
<1>10. CASE KeepCycle
  BY <1>10 DEF KeepCycle
<1>11. CASE RetryCycle
  BY <1>11 DEF RetryCycle
<1>12. CASE RetryCell
  BY <1>12 DEF RetryCell, NextCellAttempt
<1>13. CASE FailCell
  <2>1. pc = "judge" /\ pc' = "failed" /\ UNCHANGED <<driver, cycle>>
    BY <1>13 DEF FailCell, CycleFailed, buffer
  <2>2. QED
    BY <1>0, <2>1 DEF StepOfAttempt, driver
<1>14. CASE WriteCell
  <2>1. pc = "write" /\ pc' \in {"done", "failed"} /\ UNCHANGED <<driver, cycle>>
    BY <1>14 DEF WriteCell, buffer
  <2>2. QED
    BY <1>0, <2>1 DEF StepOfAttempt, driver
<1>15. QED
  BY <1>1, <1>2, <1>3, <1>4, <1>5, <1>6, <1>7, <1>8, <1>9, <1>10, <1>11, <1>12, <1>13, <1>14
     DEF Driver, Attempt, Decide

\* What Lambda does on its own takes nothing off and puts nothing on.
LEMMA PlatformSteps ==
  ASSUME Recycle \/ Propagate \/ UNCHANGED vars
  PROVE  StepsLeft' = StepsLeft
<1>1. UNCHANGED <<pc, driver, cycle, idx>>
  BY DEF Recycle, Propagate, vars, buffer
<1>2. StepOfAttempt' = StepOfAttempt
  BY <1>1 DEF StepOfAttempt
<1>3. QED
  BY <1>1, <1>2 DEF StepsLeft, Rank, driver

\* However the platform behaves, the three retry loops end: the driver begins with finitely
\* many steps, every step it takes leaves it fewer, and nothing puts any on (the safety part of
\* Terminates; a cell pays for no more invokes than StepsLeft is at first).
THEOREM RetriesBounded ==
  Spec => /\ [](StepsLeft \in Nat)
          /\ [][IF Driver THEN StepsLeft' < StepsLeft ELSE StepsLeft' = StepsLeft]_vars
<1>1. IInv => StepsLeft \in Nat
  BY DigitsInRange, RankFalls DEF StepsLeft, Ranged
<1>2. IInv => Ranged
  BY DigitsInRange
<1>3. IInv' => Ranged'
  BY <1>2, PTL
<1>4. IInv /\ IInv' /\ Driver => StepsLeft' < StepsLeft
  <2> SUFFICES ASSUME IInv, IInv', Driver PROVE StepsLeft' < StepsLeft
    OBVIOUS
  <2>1. PICK a, b, c, d, e : /\ a = MaxCellAttempts - cellAttempt' /\ b = Cold - cycle'
                             /\ c = MaxCycleAttempts - cycleAttempt'
                             /\ d = MaxColdForceAttempts - forceAttempt' /\ e = StepOfAttempt'
    OBVIOUS
  <2>2. PICK p, q, r, s, t : /\ p = MaxCellAttempts - cellAttempt /\ q = Cold - cycle
                             /\ r = MaxCycleAttempts - cycleAttempt
                             /\ s = MaxColdForceAttempts - forceAttempt /\ t = StepOfAttempt
    OBVIOUS
  <2>3. InRange(p, q, r, s, t) /\ StepsLeft = Rank(p, q, r, s, t)
    BY <1>2, <2>2 DEF StepsLeft, Ranged
  <2>4. InRange(a, b, c, d, e) /\ StepsLeft' = Rank(a, b, c, d, e)
    <3>1. Ranged'
      BY <1>3
    <3>2. InRange(a, b, c, d, e)
      BY <2>1, <3>1 DEF InRange, Ranged
    <3>3. QED
      BY <2>1, <3>2 DEF StepsLeft, Rank
  <2>5. Below(a, b, c, d, e, p, q, r, s, t)
    <3>1. /\ cellAttempt \in Nat /\ cycleAttempt \in Nat /\ forceAttempt \in Nat /\ cycle \in Nat
      BY DEF IInv, TypeOK
    <3>2. \/ cellAttempt' = cellAttempt + 1
          \/ cellAttempt' = cellAttempt /\ cycle' = cycle + 1
          \/ UNCHANGED <<cellAttempt, cycle>> /\ cycleAttempt' = cycleAttempt + 1
          \/ UNCHANGED <<cellAttempt, cycle, cycleAttempt>> /\ forceAttempt' = forceAttempt + 1
          \/ UNCHANGED <<driver, cycle>> /\ StepOfAttempt' < StepOfAttempt
      BY StepFalls
    <3>3. QED
      BY <2>1, <2>2, <3>1, <3>2 DEF Below, driver
  <2>6. QED
    BY <2>3, <2>4, <2>5, RankFalls
<1>5. [Next]_vars /\ ~Driver => StepsLeft' = StepsLeft
  BY PlatformSteps DEF Next
<1> DEFINE A == IF Driver THEN StepsLeft' < StepsLeft ELSE StepsLeft' = StepsLeft
<1>6. IInv /\ IInv' /\ [Next]_vars => A
  BY <1>4, <1>5
<1> HIDE DEF A
<1>7. Spec => [](StepsLeft \in Nat) /\ [][A]_vars
  BY <1>1, <1>6, Inductive, PTL DEF Spec
<1>8. QED
  BY <1>7 DEF A

=============================================================================
