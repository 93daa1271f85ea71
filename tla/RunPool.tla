------------------------------ MODULE RunPool ------------------------------
(***************************************************************************)
(* The run loop of the bencher (bencher/src/run.rs: run, and the SnapStart *)
(* version that each cycle of run_cell publishes, guards and deletes), and *)
(* what cmd_run (main.rs) makes of its outcome in the results file and the *)
(* run's meta.                                                             *)
(*                                                                         *)
(* try_for_each_concurrent polls at most Pool cells, pulled in order, from *)
(* one task: a step below is what one of them does between two awaits.  On *)
(* the first error it pulls no more and drops every cell still in flight   *)
(* in that same step; a dropped cell runs nothing but its VersionGuard.    *)
(* Requests already sent to Lambda take effect whether or not anybody      *)
(* still waits for the answer.                                             *)
(*                                                                         *)
(* A cell's sampling is abstracted to its kept cycles and failed attempts  *)
(* (CellRun has the retry loops and CellSampling what they amount to); a   *)
(* version is named by its cell and the attempt that publishes it.         *)
(***************************************************************************)
EXTENDS Naturals, Sequences, FiniteSets

CONSTANTS
  Order,         \* the cells in the order longest_first gives them
  SnapCells,     \* the cells measured on published versions
  Pool,          \* RunParams.pool; 0 bounds nothing
  Cycles,        \* cold cycles of a cell
  MaxFailures,   \* failed attempts a cell survives
  DeletesWork    \* an answered delete_version has deleted the version

Cells == {Order[i] : i \in DOMAIN Order}

ASSUME OrderAssumption ==
  /\ Order \in Seq(Cells)
  /\ \A i, j \in DOMAIN Order : Order[i] = Order[j] => i = j
  /\ SnapCells \subseteq Cells

ASSUME BoundsAssumption ==
  /\ Pool \in Nat /\ Cycles \in Nat \ {0} /\ MaxFailures \in Nat
  /\ DeletesWork \in BOOLEAN

VARIABLES
  phase,     \* where run and cmd_run are
  pulled,    \* cells taken from the stream so far
  at,        \* the await a cell is at, or what became of it
  kept,      \* completed cycles of a cell
  failures,  \* failed attempts of a cell
  clean,     \* the attempt being cleaned up after completed its cycle
  wire,      \* publishes Lambda has received and not performed
  live,      \* published versions that exist
  guarded,   \* versions with an armed VersionGuard
  leaked,    \* Aws::leaked_versions
  armed,     \* history: versions that ever had a guard
  asked,     \* history: versions whose delete_version has returned
  file,      \* what the results file holds of a cell
  recorded,  \* cells counted by rows_written
  meta       \* the status in the meta file

cellVars == <<at, kept, failures, clean>>
cloud == <<wire, live>>
guards == <<guarded, leaked, armed, asked>>
output == <<file, recorded, meta>>
vars == <<phase, pulled, cellVars, cloud, guards, output>>

Awaits == {"start", "publish", "activate", "measure", "delete"}
Fates == {"queued", "done", "failed", "dropped"}

InFlight == {c \in Cells : at[c] \in Awaits}

\* The version of c's current attempt.
SameVersion(c) == <<c, 1>>  \* faulty
Version(c) == <<c, kept[c] + failures[c] + 1>>

Versions == Cells \X (1 .. Cycles + MaxFailures + 1)

Init ==
  /\ phase = "run" /\ pulled = 0
  /\ at = [c \in Cells |-> "queued"]
  /\ kept = [c \in Cells |-> 0]
  /\ failures = [c \in Cells |-> 0]
  /\ clean = [c \in Cells |-> FALSE]
  /\ wire = {} /\ live = {}
  /\ guarded = {} /\ leaked = {} /\ armed = {} /\ asked = {}
  /\ file = [c \in Cells |-> "absent"]
  /\ recorded = 0 /\ meta = "running"

MoveTo(c, s) == at' = [at EXCEPT ![c] = s]

-----------------------------------------------------------------------------
(* The pool.                                                               *)

Room == Pool = 0 \/ Cardinality(InFlight) < Pool

Pull ==
  /\ phase = "run"
  /\ pulled < Len(Order) /\ Room
  /\ pulled' = pulled + 1
  /\ MoveTo(Order[pulled + 1], "start")
  /\ UNCHANGED <<phase, kept, failures, clean, cloud, guards, output>>

\* The versions that the guards of dropped cells push on leaked_versions; g are
\* the guards still armed.
Forgotten(g) == {}  \* faulty
Pushed(g) == g

\* What becomes of the other cells when c fails.
OthersGoOn(c) == [at EXCEPT ![c] = "failed"]  \* faulty
AfterFailure(c) ==
  [d \in Cells |-> IF d = c THEN "failed"
                   ELSE IF at[d] \in Awaits THEN "dropped" ELSE at[d]]

\* The first error: the others are dropped, which fires their guards.  g are
\* the guards left armed by c.
FailFast(c, g) ==
  /\ phase' = "drain"
  /\ at' = AfterFailure(c)
  /\ guarded' = {}
  /\ leaked' = leaked \cup Pushed(g)

\* Every cell is done: there is nothing left to pull or to poll.
Finish ==
  /\ phase = "run"
  /\ pulled = Len(Order) /\ InFlight = {}
  /\ phase' = "drain"
  /\ UNCHANGED <<pulled, cellVars, cloud, guards, output>>

-----------------------------------------------------------------------------
(* A cell between two awaits.  g are the guards it leaves armed.           *)

RetriesLeft(c) == failures[c] < MaxFailures

\* The attempt failed: the cell tries again, or the run fails.
AttemptFails(c, g) ==
  /\ failures' = [failures EXCEPT ![c] = @ + 1]
  /\ UNCHANGED <<kept, output>>
  /\ IF RetriesLeft(c)
     THEN /\ MoveTo(c, "start")
          /\ guarded' = g
          /\ UNCHANGED <<phase, leaked>>
     ELSE FailFast(c, g)

\* Rows are counted once the flush of write_cell has succeeded.
Counted(written) == IF written THEN recorded + 1 ELSE recorded

\* The cycle is complete; after the last one write_cell runs before the next
\* await, and its error is the cell's.
CycleKept(c, g) ==
  /\ kept' = [kept EXCEPT ![c] = @ + 1]
  /\ UNCHANGED <<failures, meta>>
  /\ \/ /\ kept[c] + 1 < Cycles
        /\ MoveTo(c, "start")
        /\ guarded' = g
        /\ UNCHANGED <<phase, leaked, file, recorded>>
     \/ /\ kept[c] + 1 = Cycles
        /\ MoveTo(c, "done")
        /\ guarded' = g
        /\ file' = [file EXCEPT ![c] = "whole"]
        /\ recorded' = Counted(TRUE)
        /\ UNCHANGED <<phase, leaked>>
     \/ /\ kept[c] + 1 = Cycles
        /\ FailFast(c, g)
        /\ \E part \in {"absent", "torn", "whole"} :
             file' = [file EXCEPT ![c] = part]
        /\ recorded' = Counted(FALSE)

\* A $LATEST cell: an attempt is one await here, and there is no version.
SampleLatest(c) ==
  /\ at[c] = "start" /\ c \notin SnapCells
  /\ CycleKept(c, guarded) \/ AttemptFails(c, guarded)
  /\ UNCHANGED <<pulled, clean, cloud, armed, asked>>

\* publish_cold_version: bump the nonce, which may fail, and publish.
SendPublish(c) ==
  /\ at[c] = "start" /\ c \in SnapCells
  /\ MoveTo(c, "publish")
  /\ wire' = wire \cup {Version(c)}
  /\ UNCHANGED <<phase, pulled, kept, failures, clean, live, guards, output>>

BumpFails(c) ==
  /\ at[c] = "start" /\ c \in SnapCells
  /\ AttemptFails(c, guarded)
  /\ UNCHANGED <<pulled, clean, cloud, armed, asked>>

PublishAnswered(c) ==
  /\ at[c] = "publish" /\ Version(c) \in live
  /\ MoveTo(c, "activate")
  /\ UNCHANGED <<phase, pulled, kept, failures, clean, cloud, guards, output>>

\* The publish errs (rejected, or its answer lost), or wait_version_active
\* does: in both cases there is no guard.
PublishErrs(c) ==
  /\ at[c] \in {"publish", "activate"}
  /\ AttemptFails(c, guarded)
  /\ \/ UNCHANGED wire
     \/ at[c] = "publish" /\ wire' = wire \ {Version(c)}
  /\ UNCHANGED <<pulled, clean, live, armed, asked>>

\* The version is active: publish_cold_version returns it and the guard is
\* armed before the next await.
Activated(c) ==
  /\ at[c] = "activate"
  /\ MoveTo(c, "measure")
  /\ guarded' = guarded \cup {Version(c)}
  /\ armed' = armed \cup {Version(c)}
  /\ UNCHANGED <<phase, pulled, kept, failures, clean, cloud, leaked, asked,
                 output>>

\* The invokes are over, whatever came of them; delete_version is sent.
Measured(c) ==
  /\ at[c] = "measure"
  /\ MoveTo(c, "delete")
  /\ \E ok \in BOOLEAN : clean' = [clean EXCEPT ![c] = ok]
  /\ UNCHANGED <<phase, pulled, kept, failures, cloud, guards, output>>

\* A returned delete has deleted v, or (unless DeletesWork) was refused.
Deleted(v) == live' = live \ {v} \/ (~DeletesWork /\ UNCHANGED live)

\* Which guards remain armed once c's delete has been attempted.
Disarmed(c) == guarded \ {Version(c)}

AskedIfClean(c) == IF clean[c] THEN asked \cup {Version(c)} ELSE asked  \* faulty
AskedAfter(c) == asked \cup {Version(c)}

\* delete_version returns: the guard is disarmed and the attempt's outcome
\* looked at before the next await.
DeleteReturns(c) ==
  /\ at[c] = "delete"
  /\ Deleted(Version(c))
  /\ asked' = AskedAfter(c)
  /\ IF clean[c] THEN CycleKept(c, Disarmed(c)) ELSE AttemptFails(c, Disarmed(c))
  /\ UNCHANGED <<pulled, clean, wire, armed>>

-----------------------------------------------------------------------------
(* Lambda.                                                                 *)

PerformPublish ==
  \E v \in wire :
    /\ wire' = wire \ {v}
    /\ live' = live \cup {v}
    /\ UNCHANGED <<phase, pulled, cellVars, guards, output>>

\* A delete takes effect before its answer is awaited again, which may never be.
PerformDelete(c) ==
  /\ at[c] = "delete"
  /\ Version(c) \in live
  /\ live' = live \ {Version(c)}
  /\ UNCHANGED <<phase, pulled, cellVars, wire, guards, output>>

-----------------------------------------------------------------------------
(* The way out.                                                            *)

StillLeaked(v) == leaked  \* faulty
LeakedAfter(v) == leaked \ {v}

\* The leaked versions are deleted one after the other, best effort.
Drain ==
  /\ phase = "drain"
  /\ \E v \in leaked :
       /\ Deleted(v)
       /\ asked' = asked \cup {v}
       /\ leaked' = LeakedAfter(v)
  /\ UNCHANGED <<phase, pulled, cellVars, wire, guarded, armed, output>>

Status == IF \E c \in Cells : at[c] = "failed" THEN "failed" ELSE "ok"

\* cmd_run stamps the meta; fs::write may fail and leave the file cut short.
Close ==
  /\ phase = "drain" /\ leaked = {}
  /\ phase' = "ended"
  /\ meta' \in {Status, "running", "unreadable"}
  /\ UNCHANGED <<pulled, cellVars, cloud, guards, file, recorded>>

\* The process is killed, maybe in the middle of write_cell; its guards and its
\* queue die with it.
LastCycle(c) ==
  /\ kept[c] + 1 = Cycles
  /\ at[c] = IF c \in SnapCells THEN "delete" ELSE "start"

Crash ==
  /\ phase \notin {"ended", "crashed"}
  /\ phase' = "crashed"
  /\ \/ UNCHANGED file
     \/ \E c \in Cells : LastCycle(c) /\ file' = [file EXCEPT ![c] = "torn"]
  /\ guarded' = {} /\ leaked' = {}
  /\ UNCHANGED <<pulled, cellVars, cloud, armed, asked, recorded, meta>>

-----------------------------------------------------------------------------

CellStep(c) ==
  /\ phase # "crashed"
  /\ \/ SampleLatest(c)
     \/ SendPublish(c) \/ BumpFails(c) \/ PublishAnswered(c) \/ PublishErrs(c)
     \/ Activated(c) \/ Measured(c) \/ DeleteReturns(c)

Driver == Pull \/ Finish \/ Drain \/ Close \/ \E c \in Cells : CellStep(c)

Next ==
  \/ Driver
  \/ PerformPublish
  \/ \E c \in Cells : PerformDelete(c)
  \/ Crash

\* The run's task is polled until it ends, and every call it awaits returns.
Spec == Init /\ [][Next]_vars /\ WF_vars(Driver)

-----------------------------------------------------------------------------
(* Properties.                                                             *)

TypeOK ==
  /\ phase \in {"run", "drain", "ended", "crashed"}
  /\ pulled \in 0 .. Len(Order)
  /\ at \in [Cells -> Awaits \cup Fates]
  /\ kept \in [Cells -> 0 .. Cycles]
  /\ failures \in [Cells -> 0 .. MaxFailures + 1]
  /\ clean \in [Cells -> BOOLEAN]
  /\ wire \subseteq Versions /\ live \subseteq Versions
  /\ guarded \subseteq Versions /\ leaked \subseteq Versions
  /\ armed \subseteq Versions /\ asked \subseteq Versions
  /\ file \in [Cells -> {"absent", "torn", "whole"}]
  /\ recorded \in Nat
  /\ meta \in {"running", "ok", "failed", "unreadable"}

\* Every version that ever had a guard is still guarded, waits to be drained or
\* had its delete tried, and by the end of the run every one had it tried: the
\* inline path and the fail-fast path of VersionGuard together miss none.
GuardedVersionsReclaimed ==
  /\ phase # "crashed" => armed \subseteq guarded \cup leaked \cup asked
  /\ phase = "ended" => armed \subseteq asked

\* No version is deleted under the invokes that measure it, neither by an
\* earlier attempt's delete nor by the drain.
MeasuredVersionAlive ==
  \A c \in Cells : at[c] = "measure" => Version(c) \in live

\* Versions of c from attempts before its current one, published or still to be,
\* whose delete nobody has tried.
LeftBehind(c) == {v \in (live \cup wire) \ asked : v[1] = c /\ v # Version(c)}

\* Code storage stays bounded however many versions a run publishes
\* (delete_version's doc), up to the deletes Lambda refuses: the versions that had
\* a guard and whose delete nobody has tried yet never outnumber the pool; and a
\* cell leaves behind at most one version for each attempt of it that failed,
\* which a publish that errs after Lambda took it does, and none for a kept cycle.
VersionsBounded ==
  /\ Pool # 0 => Cardinality((live \cap armed) \ asked) <= Pool
  /\ \A c \in Cells : Cardinality(LeftBehind(c)) <= failures[c]

\* The rows counted are those of the cells done, whose rows are all in the
\* file; anything else in it is the failed write's or the crash's.
RowsAccounted ==
  /\ recorded = Cardinality({c \in Cells : at[c] = "done"})
  /\ \A c \in Cells : at[c] = "done" => file[c] = "whole"
  /\ phase # "crashed" =>
       \A c \in Cells : file[c] # "absent" => at[c] \in {"done", "failed"}

\* The meta says ok only of a file with every planned row, and failed only of a
\* run that recorded fewer than planned (RunStatus).
MetaTruthful ==
  /\ meta = "ok" => /\ recorded = Cardinality(Cells)
                    /\ \A c \in Cells : file[c] = "whole"
  /\ meta = "failed" => recorded < Cardinality(Cells)

\* Once a cell has failed, no other cell advances or adds rows, and no cell is
\* pulled any more (try_for_each_concurrent's fail-fast).
FailFastStops ==
  [][(\E c \in Cells : at[c] = "failed") =>
       UNCHANGED <<pulled, kept, failures, file, recorded, armed>>]_vars

\* The cell c as CellSampling sees it; a cell the run never came to is aborted.
CellOf(c) == INSTANCE CellSampling WITH
  Cold <- Cycles,
  kept <- kept[c],
  fate <- IF at[c] = "done" THEN "committed"
          ELSE IF at[c] \in {"failed", "dropped"} \/ phase # "run" THEN "aborted"
          ELSE "sampling"

\* Pooling, cancellation and a crash leave every cell what it is on its own: it
\* keeps its cycles one by one and is committed whole or aborted.
CellsSampled ==
  /\ \A c \in Cells : CellOf(c)!Init
  /\ [][\A c \in Cells : [CellOf(c)!Next]_(CellOf(c)!vars)]_vars

\* The run ends, whatever fails on the way.
RunEnds == <>(phase \in {"ended", "crashed"})

\* aws.rs on leaked_versions: "so a fail-fast cancellation never leaks code
\* storage".
CancelledCellsLeakNothing ==
  phase = "ended" => \A v \in live : at[v[1]] # "dropped"

=============================================================================
