--------------------------- MODULE Scaling_proofs ---------------------------
(***************************************************************************)
(* Proofs about Scaling, for every number of sizes, probes and faults: a   *)
(* probe samples soundly, and only what it made itself; its files are      *)
(* complete; and nothing it made is forgotten.                             *)
(***************************************************************************)
EXTENDS Scaling, SequenceTheorems, TLAPS

-----------------------------------------------------------------------------
(* A series (ColdSeries): for every number of samples, of warm invokes and   *)
(* of attempts, the samples of a series that succeeds are sound, however     *)
(* late forces land and whenever sandboxes are retired.                      *)

\* A sample of attempt a that timed its own start, so far as its warm invokes go.
Sound(a) == [attempt : {a}, init : {TRUE}, connected : {TRUE}, warm : Seq({"measured"})]

\* And a complete one.
Good(a) == {s \in Sound(a) : Len(s.warm) = WarmPerSample}

SeriesTypes ==
  /\ at \in {"idle", "force", "prewarm", "cold", "warm"}
  /\ attempt \in 1 .. MaxUnitAttempts /\ force \in 1 .. MaxColdForceAttempts
  /\ sandbox \in {"none", "measured", "other"} /\ connected \in BOOLEAN
  /\ result \in {"none", "sampled", "failed"}

\* What the samples of the present attempt are already, and that a sample in its warm
\* invokes can reach no sandbox but the one it started.
SeriesInv ==
  /\ SeriesTypes
  /\ taken \in Seq(Good(attempt)) /\ Len(taken) <= ColdSamples
  /\ at # "idle" => result = "none" /\ Len(taken) < ColdSamples
  /\ result = "sampled" => Len(taken) = ColdSamples
  /\ at = "cold" => connected
  /\ at = "warm" => /\ sample \in Sound(attempt) /\ Len(sample.warm) < WarmPerSample
                    /\ sandbox # "other"
  /\ at # "warm" => sample = Blank

\* No sample has been taken.
LEMMA InitSeriesInv == SeriesInit => SeriesInv
<1> SUFFICES ASSUME SeriesInit PROVE SeriesInv
  OBVIOUS
<1>1. taken = <<>> /\ at = "idle" /\ result = "none" /\ sample = Blank
  BY DEF SeriesInit
<1>2. taken \in Seq(Good(attempt)) /\ Len(taken) = 0
  BY <1>1
<1>3. connected \in BOOLEAN
  BY Zenon DEF SeriesInit
<1>4. SeriesTypes
  BY <1>3, SeriesAssumption DEF SeriesInit, SeriesTypes
<1>5. QED
  BY <1>1, <1>2, <1>4, SeriesAssumption DEF SeriesInv

\* A series begins without samples.
LEMMA BeginSeriesInv ==
  ASSUME SeriesInv, Begin
  PROVE SeriesInv'
  BY SeriesAssumption DEF Begin, SeriesInv, SeriesTypes

\* And leaves none behind.
LEMMA ClearSeriesInv ==
  ASSUME SeriesInv, Clear
  PROVE SeriesInv'
  BY SeriesAssumption DEF Clear, SeriesInv, SeriesTypes

\* A sandbox that is gone is not another one.
LEMMA RetireSeriesInv ==
  ASSUME SeriesInv, Retire
  PROVE SeriesInv'
<1>1. UNCHANGED <<at, attempt, force, taken, sample, connected, result>> /\ sandbox' = "none"
  BY DEF Retire
<1>2. QED
  BY <1>1 DEF SeriesInv, SeriesTypes

\* An attempt that fails starts again without samples, or the series ends without any.
LEMMA UnitFailsSeriesInv ==
  ASSUME SeriesInv, at # "idle", UnitFails,
         sandbox' \in {"none", "measured", "other"}, connected' \in BOOLEAN
  PROVE SeriesInv'
<1>1. taken' = <<>> /\ sample' = Blank /\ force' = 1
  BY DEF UnitFails, Discarded
<1>2. taken' \in Seq(Good(attempt')) /\ Len(taken') = 0
  BY <1>1
<1>3. \/ at' = "force" /\ attempt' = attempt + 1 /\ attempt < MaxUnitAttempts /\ result' = result
      \/ at' = "idle" /\ result' = "failed" /\ attempt' = attempt
  BY DEF UnitFails, NextAttempt
<1>4. SeriesTypes'
  BY <1>1, <1>3, SeriesAssumption DEF SeriesInv, SeriesTypes
<1>5. QED
  BY <1>1, <1>2, <1>3, <1>4, SeriesAssumption DEF SeriesInv

\* What a cold invoke that lands cold begins is a sample of its own.
LEMMA ColdInvokeSeriesInv ==
  ASSUME SeriesInv, ColdInvoke
  PROVE SeriesInv'
<1>1. /\ at = "cold" /\ sandbox = "none" /\ connected = TRUE /\ result = "none"
      /\ attempt \in Nat
  BY SeriesAssumption DEF ColdInvoke, LandedCold, SeriesInv, SeriesTypes
<1>2. sample' = [attempt |-> attempt, init |-> TRUE, connected |-> TRUE, warm |-> <<>>]
  BY <1>1 DEF ColdInvoke
<1>3. sample' \in Sound(attempt) /\ Len(sample'.warm) < WarmPerSample
  BY <1>2, SeriesAssumption DEF Sound
<1>4. /\ sandbox' = "measured" /\ at' = "warm"
      /\ UNCHANGED <<attempt, force, taken, connected, result>>
  BY <1>1 DEF ColdInvoke, Reached
<1>5. QED
  BY <1>1, <1>3, <1>4 DEF SeriesInv, SeriesTypes

\* A warm invoke that lands warm ran on the sandbox of the sample's start.
LEMMA WarmInvokeSeriesInv ==
  ASSUME SeriesInv, WarmInvoke
  PROVE SeriesInv'
<1> DEFINE warmed == [sample EXCEPT !.warm = Append(@, "measured")]
<1>1. /\ at = "warm" /\ sandbox = "measured" /\ result = "none" /\ Len(taken) < ColdSamples
      /\ sample \in Sound(attempt) /\ Len(sample.warm) < WarmPerSample
      /\ taken \in Seq(Good(attempt))
  BY DEF WarmInvoke, LandedWarm, SeriesInv, SeriesTypes
<1>2. warmed \in Sound(attempt) /\ Len(warmed.warm) = Len(sample.warm) + 1
  <2>1. sample.warm \in Seq({"measured"})
    BY <1>1 DEF Sound
  <2>2. /\ Append(sample.warm, "measured") \in Seq({"measured"})
        /\ Len(Append(sample.warm, "measured")) = Len(sample.warm) + 1
    BY <2>1, AppendProperties
  <2>3. warmed \in Sound(attempt) /\ warmed.warm = Append(sample.warm, "measured")
    BY <1>1, <2>2 DEF Sound
  <2>4. QED
    BY <2>2, <2>3
<1>3. /\ sandbox' = "measured" /\ UNCHANGED <<attempt, connected>>
      /\ IF Len(warmed.warm) < WarmPerSample
         THEN sample' = warmed /\ UNCHANGED <<at, force, taken, result>>
         ELSE /\ taken' = Append(taken, warmed) /\ sample' = Blank /\ force' = 1
              /\ IF Len(Append(taken, warmed)) < ColdSamples
                 THEN at' = "force" /\ UNCHANGED result
                 ELSE at' = "idle" /\ result' = "sampled"
  BY <1>1 DEF WarmInvoke, Reached
<1> HIDE DEF warmed
<1>4. CASE Len(warmed.warm) < WarmPerSample
  BY <1>1, <1>2, <1>3, <1>4 DEF SeriesInv, SeriesTypes
<1>5. CASE ~(Len(warmed.warm) < WarmPerSample)
  <2>1. Len(sample.warm) \in Nat
    BY <1>1 DEF Sound
  <2>2. warmed \in Good(attempt)
    BY <1>1, <1>2, <1>5, <2>1, SeriesAssumption DEF Good
  <2>3. /\ Append(taken, warmed) \in Seq(Good(attempt))
        /\ Len(Append(taken, warmed)) = Len(taken) + 1
    BY <1>1, <2>2, AppendProperties
  <2>4. Len(taken) \in Nat /\ taken' = Append(taken, warmed)
    BY <1>1, <1>3, <1>5
  <2>5. \/ at' = "force" /\ Len(taken') < ColdSamples /\ result' = "none"
        \/ at' = "idle" /\ Len(taken') = ColdSamples /\ result' = "sampled"
    BY <1>1, <1>3, <1>5, <2>3, <2>4, SeriesAssumption
  <2>6. SeriesTypes'
    BY <1>3, <1>5, <2>5, SeriesAssumption DEF SeriesInv, SeriesTypes
  <2>7. sample' = Blank /\ taken' \in Seq(Good(attempt'))
    BY <1>3, <1>5, <2>3, <2>4
  <2>8. QED
    BY <2>3, <2>4, <2>5, <2>6, <2>7, SeriesAssumption DEF SeriesInv
<1>6. QED
  BY <1>4, <1>5

\* Every call of the series keeps the invariant.
LEMMA SamplingSeriesInv ==
  ASSUME SeriesInv, Sampling
  PROVE SeriesInv'
<1>1. /\ SeriesTypes /\ Aged \in {"none", "other"}
      /\ Reached("measured") \in {"none", "measured", "other"}
      /\ Reached("other") \in {"none", "measured", "other"}
  BY DEF SeriesInv, SeriesTypes, Aged, Reached
<1>2. CASE ForceCold
  <2>1. at = "force" /\ connected' \in BOOLEAN /\ sandbox' \in {"none", "measured", "other"}
    BY <1>1, <1>2 DEF ForceCold, SeriesTypes
  <2>2. CASE UnitFails
    BY <2>1, <2>2, UnitFailsSeriesInv
  <2>3. CASE at' = AfterForce /\ UNCHANGED <<attempt, force, taken, sample, result>>
    BY <2>1, <2>3 DEF AfterForce, SeriesInv, SeriesTypes
  <2>4. QED
    BY <1>2, <2>2, <2>3 DEF ForceCold
<1>3. CASE Prewarm
  <2>1. at = "prewarm" /\ sandbox' = sandbox
    BY <1>3 DEF Prewarm
  <2>2. CASE UnitFails /\ connected' = FALSE
    BY <1>1, <2>1, <2>2, UnitFailsSeriesInv DEF SeriesTypes
  <2>3. CASE at' = "cold" /\ connected' = TRUE /\ UNCHANGED <<attempt, force, taken, sample, result>>
    BY <2>1, <2>3 DEF SeriesInv, SeriesTypes
  <2>4. QED
    BY <1>3, <2>2, <2>3 DEF Prewarm
<1>4. CASE ColdInvoke
  BY <1>4, ColdInvokeSeriesInv
<1>5. CASE ForceAgain
  <2>1. at = "cold" /\ UNCHANGED <<connected, sandbox>>
    BY <1>5 DEF ForceAgain
  <2>2. CASE UnitFails
    BY <1>1, <2>1, <2>2, UnitFailsSeriesInv DEF SeriesTypes
  <2>3. CASE ForcesLeft /\ at' = "force" /\ force' = force + 1 /\ UNCHANGED <<attempt, taken, sample, result>>
    BY <2>1, <2>3, SeriesAssumption DEF ForcesLeft, SeriesInv, SeriesTypes
  <2>4. QED
    BY <1>5, <2>2, <2>3 DEF ForceAgain
<1>6. CASE ColdFails
  BY <1>1, <1>6, UnitFailsSeriesInv DEF ColdFails, InvokeFails, SeriesTypes
<1>7. CASE WarmInvoke
  BY <1>7, WarmInvokeSeriesInv
<1>8. CASE WarmRecycled
  BY <1>1, <1>8, UnitFailsSeriesInv DEF WarmRecycled, SeriesTypes
<1>9. CASE WarmFails
  BY <1>1, <1>9, UnitFailsSeriesInv DEF WarmFails, InvokeFails, SeriesTypes
<1>10. QED
  BY <1>2, <1>3, <1>4, <1>5, <1>6, <1>7, <1>8, <1>9 DEF Sampling

\* Nothing happens to a series that is not stepped.
LEMMA StutterSeriesInv ==
  ASSUME SeriesInv, UNCHANGED series
  PROVE SeriesInv'
  BY DEF series, SeriesInv, SeriesTypes

\* What the invariant says of a series.
LEMMA SeriesInvGives ==
  ASSUME SeriesInv
  PROVE SamplesSound
<1>1. ASSUME NEW i \in DOMAIN taken
      PROVE taken[i] \in Good(attempt)
  BY <1>1 DEF SeriesInv
<1>2. ASSUME NEW s \in Good(attempt)
      PROVE /\ s.init = TRUE /\ s.connected = TRUE /\ s.attempt = attempt
            /\ s.warm = [j \in 1 .. WarmPerSample |-> "measured"]
  <2>1. /\ s.init = TRUE /\ s.connected = TRUE /\ s.attempt = attempt
        /\ s.warm \in Seq({"measured"}) /\ Len(s.warm) = WarmPerSample
    BY <1>2 DEF Good, Sound
  <2>2. [j \in 1 .. WarmPerSample |-> "measured"] \in Seq({"measured"})
    BY SeriesAssumption
  <2>3. s.warm = [j \in 1 .. WarmPerSample |-> "measured"]
    BY <2>1, <2>2, SeqEqual, SeriesAssumption
  <2>4. QED
    BY <2>1, <2>3
<1>3. OwnColdStart /\ NoHandshakeTimed
  BY <1>1, <1>2 DEF OwnColdStart, NoHandshakeTimed
<1>4. OneAttempt
  BY <1>1, <1>2 DEF OneAttempt, Sampled, SeriesInv
<1>5. QED
  BY <1>3, <1>4 DEF SamplesSound

-----------------------------------------------------------------------------
(* The samples.                                                            *)

\* What a step does to the series of the function being sampled.
LEMMA SeriesStep ==
  ASSUME [Next]_vars
  PROVE Begin \/ Clear \/ Sampling \/ Retire \/ UNCHANGED series
<1>1. CASE UNCHANGED vars
  BY <1>1 DEF vars
<1>2. CASE StartProbe
  BY <1>2 DEF StartProbe
<1>3. CASE ProbeStep
  <2>1. CASE Prepare \/ StageZip \/ CreateFunction \/ UndoCreate \/ Unstage
    BY <2>1 DEF Prepare, StageZip, CreateFunction, UndoCreate, Unstage
  <2>2. CASE AwaitReady
    BY <2>2 DEF AwaitReady
  <2>3. CASE SampleStep \/ UnitSampled \/ UnitGivenUp
    BY <2>3 DEF SampleStep, UnitSampled, UnitGivenUp
  <2>4. CASE CleanUp \/ CleanedUp \/ WriteFile
    BY <2>4 DEF CleanUp, CleanedUp, WriteFile
  <2>5. CASE EnsureRepo \/ PushImage \/ ReadSize
    BY <2>5 DEF EnsureRepo, PushImage, ReadSize
  <2>6. QED
    BY <1>3, <2>1, <2>2, <2>3, <2>4, <2>5 DEF ProbeStep
<1>4. CASE SandboxRetired
  BY <1>4 DEF SandboxRetired
<1>5. CASE Crash
  BY <1>5 DEF Crash
<1>6. CASE Teardown
  BY <1>6 DEF Teardown
<1>7. QED
  BY <1>1, <1>2, <1>3, <1>4, <1>5, <1>6 DEF Next

\* Its series is in order in every state of a probe.
LEMMA SeriesAlways == Spec => []SeriesInv
<1>1. Init => SeriesInv
  BY InitSeriesInv DEF Init
<1>2. SeriesInv /\ [Next]_vars => SeriesInv'
  BY SeriesStep, BeginSeriesInv, ClearSeriesInv, SamplingSeriesInv, RetireSeriesInv,
     StutterSeriesInv
<1>3. QED
  BY <1>1, <1>2, PTL DEF Spec

\* Every series that is returned is sound, whatever the probe around it meets.
THEOREM ProbeSamplesSound == Spec => []SamplesSound
<1>1. SeriesInv => SamplesSound
  BY SeriesInvGives
<1>2. QED
  BY <1>1, SeriesAlways, PTL

-----------------------------------------------------------------------------
(* Types.                                                                  *)

\* What probes 1 .. p can have made.
Things(p) ==
  [kind : {"function", "zip"}, family : Families, size : 1 .. NumSizes, probe : 1 .. p]
    \cup [kind : {"tag"}, family : {"image"}, size : 1 .. NumSizes, probe : 1 .. p]

Steps == {"idle", "prepare", "stage", "create", "wait", "undo", "unstage", "sample",
          "cleanup", "write", "repo", "push", "size"}

Types ==
  /\ probe \in Nat /\ phase \in {"zip", "image"} /\ unit \in 1 .. 2 * NumSizes
  /\ step \in Steps
  /\ account \subseteq Things(probe)
  /\ ledger \in Seq(Things(probe)) /\ tags \in Seq(Things(probe)) /\ work \in Seq(Things(probe))
  /\ step # "idle" => probe >= 1 /\ last = "none"

\* What a unit makes are things.
LEMMA UnitThings ==
  ASSUME Types, step # "idle"
  PROVE /\ Function(Plan[unit]) \in Things(probe)
        /\ StagedZip(Plan[unit]) \in Things(probe)
        /\ Tag(Plan[unit]) \in Things(probe)
        /\ Len(Plan) = 2 * NumSizes
<1>1. Len(Plan) = 2 * NumSizes
  BY ScalingAssumption DEF Plan, ZipPlan, ImagePlan
<1>2. Plan[unit][1] \in Families /\ Plan[unit][2] \in 1 .. NumSizes
  <2>1. unit \in 1 .. 2 * NumSizes
    BY DEF Types
  <2>2. CASE phase = "zip"
    BY <2>1, <2>2, ScalingAssumption DEF Plan, ZipPlan, Families
  <2>3. CASE phase # "zip"
    BY <2>1, <2>3, ScalingAssumption DEF Plan, ImagePlan, Families
  <2>4. QED
    BY <2>2, <2>3
<1>3. probe \in 1 .. probe
  BY DEF Types
<1>4. QED
  BY <1>1, <1>2, <1>3 DEF Things, Function, StagedZip, Tag, Thing

LEMMA MoreThings ==
  ASSUME NEW p \in Nat
  PROVE Things(p) \subseteq Things(p + 1)
  BY DEF Things

LEMMA TypesKept ==
  ASSUME Types, [Next]_vars
  PROVE Types'
<1> USE DEF outside, recorded, progress
<1>1. CASE UNCHANGED vars
  BY <1>1 DEF vars, Types
<1>2. CASE StartProbe
  BY <1>2, MoreThings, ScalingAssumption DEF StartProbe, Types, Steps
<1>3. CASE ProbeStep
  <2>0. /\ step # "idle" => /\ Current \in Things(probe) /\ Staged \in Things(probe)
                          /\ Pushed \in Things(probe)
        /\ ledger \o tags \in Seq(Things(probe)) /\ <<>> \in Seq(Things(probe))
    BY UnitThings DEF Types, Current, Staged, Pushed
  <2>1. CASE Prepare
    <3>1. /\ step = "prepare" /\ UNCHANGED <<account, probe, phase, unit, recorded>>
          /\ \/ step' = "stage" /\ UNCHANGED <<work, last>>
             \/ step' = "idle" /\ work' = <<>>
      BY <2>1 DEF Prepare, GoTo, EndWith
    <3>2. QED
      BY <2>0, <3>1 DEF Types, Steps
  <2>2. CASE StageZip
    BY <2>0, <2>2 DEF StageZip, Types, Steps, GoTo, Cleanup, Made
  <2>3. CASE CreateFunction
    BY <2>0, <2>3 DEF CreateFunction, Types, Steps, GoTo, Cleanup, Made, AfterFailedCreate
  <2>4. CASE AwaitReady
    <3>1. /\ step = "wait" /\ UNCHANGED <<account, probe, phase, unit, tags, work, last>>
          /\ \/ step' = "sample" /\ ledger' = ledger \o Recorded
             \/ step' = "undo" /\ UNCHANGED ledger
      BY <2>4 DEF AwaitReady, GoTo, AfterFailedWait
    <3>2. Recorded \in Seq(Things(probe))
      BY <2>0, <3>1 DEF Recorded
    <3>3. ledger' \in Seq(Things(probe))
      BY <3>1, <3>2, ConcatProperties DEF Types
    <3>4. QED
      BY <3>1, <3>3 DEF Types, Steps
  <2>5. CASE UndoCreate
    <3>1. /\ step = "undo" /\ UNCHANGED <<probe, phase, unit, recorded, last>>
          /\ account' \subseteq account
          /\ \/ step' = "unstage" /\ UNCHANGED work
             \/ step' = "cleanup" /\ work' = ledger \o tags
      BY <2>5 DEF UndoCreate, GoTo, Cleanup, Deleted, AfterFailedCreate
    <3>2. QED
      BY <2>0, <3>1 DEF Types, Steps
  <2>6. CASE Unstage
    BY <2>6 DEF Unstage, Types, Steps, Cleanup, Deleted
  <2>7. CASE SampleStep
    BY <2>7 DEF SampleStep, Types
  <2>8. CASE UnitSampled
    <3>1. step = "sample" /\ Len(Plan) = 2 * NumSizes
      BY <2>8, UnitThings DEF UnitSampled
    <3>2. /\ UNCHANGED <<account, probe, phase, recorded, last>>
          /\ \/ /\ step' \in {"stage", "create", "push"} /\ UNCHANGED work
                /\ unit < 2 * NumSizes /\ unit' = unit + 1
             \/ step' = "cleanup" /\ work' = ledger \o tags /\ UNCHANGED unit
      BY <2>8, <3>1 DEF UnitSampled, GoTo, Cleanup, NextUnit
    <3>3. unit' \in 1 .. 2 * NumSizes
      BY <3>2, ScalingAssumption DEF Types
    <3>4. QED
      BY <2>0, <3>1, <3>2, <3>3 DEF Types, Steps
  <2>9. CASE UnitGivenUp
    BY <2>9 DEF UnitGivenUp, Types, Steps, Cleanup
  <2>10. CASE CleanUp
    BY <2>10 DEF CleanUp, Types, Deleted
  <2>11. CASE CleanedUp
    BY <2>11 DEF CleanedUp, Types, Steps, GoTo, EndWith
  <2>12. CASE WriteFile
    <3>1. /\ step = "write" /\ UNCHANGED <<account, probe>>
          /\ \/ /\ phase' = "image" /\ step' = "repo" /\ unit' = 1 /\ ledger' = <<>> /\ tags' = <<>>
                /\ UNCHANGED <<work, last>>
             \/ /\ step' = "idle" /\ work' = <<>> /\ UNCHANGED <<phase, unit, recorded>>
      BY <2>12 DEF WriteFile, GoTo, EndWith
    <3>2. unit' \in 1 .. 2 * NumSizes
      BY <3>1, ScalingAssumption DEF Types
    <3>3. step' \in Steps /\ phase' \in {"zip", "image"} /\ (step' # "idle" => last' = "none")
      BY <3>1 DEF Types, Steps
    <3>4. QED
      BY <2>0, <3>1, <3>2, <3>3 DEF Types
  <2>13. CASE EnsureRepo
    <3>1. /\ step = "repo" /\ UNCHANGED <<account, probe, phase, unit, recorded>>
          /\ \/ step' = "push" /\ UNCHANGED <<work, last>>
             \/ step' = "idle" /\ work' = <<>>
      BY <2>13 DEF EnsureRepo, GoTo, EndWith
    <3>2. QED
      BY <2>0, <3>1 DEF Types, Steps
  <2>14. CASE PushImage
    <3>1. /\ step = "push" /\ UNCHANGED <<probe, phase, unit, ledger, last>>
          /\ account' \subseteq account \cup {Pushed}
          /\ tags' = Append(tags, Pushed) \/ tags' = tags
          /\ \/ step' = "size" /\ UNCHANGED work
             \/ step' = "cleanup" /\ work' = ledger \o tags
      BY <2>14 DEF PushImage, GoTo, Cleanup, Made
    <3>2. Pushed \in Things(probe) /\ tags \in Seq(Things(probe))
      BY <2>0, <3>1 DEF Types
    <3>3. Append(tags, Pushed) \in Seq(Things(probe))
      BY <3>2, AppendProperties
    <3>4. tags' \in Seq(Things(probe))
      BY <3>1, <3>2, <3>3
    <3>5. QED
      BY <2>0, <3>1, <3>2, <3>4 DEF Types, Steps
  <2>15. CASE ReadSize
    <3>1. /\ step = "size" /\ UNCHANGED <<account, probe, phase, unit, ledger, last>>
          /\ tags' = Append(tags, Pushed) \/ tags' = tags
          /\ \/ step' = "create" /\ UNCHANGED work
             \/ step' = "cleanup" /\ work' = ledger \o tags
      BY <2>15 DEF ReadSize, GoTo, Cleanup
    <3>2. Pushed \in Things(probe) /\ tags \in Seq(Things(probe))
      BY <2>0, <3>1 DEF Types
    <3>3. Append(tags, Pushed) \in Seq(Things(probe))
      BY <3>2, AppendProperties
    <3>4. tags' \in Seq(Things(probe))
      BY <3>1, <3>2, <3>3
    <3>5. QED
      BY <2>0, <3>1, <3>2, <3>4 DEF Types, Steps
  <2>16. QED
    BY <1>3, <2>1, <2>2, <2>3, <2>4, <2>5, <2>6, <2>7, <2>8, <2>9, <2>10, <2>11, <2>12,
       <2>13, <2>14, <2>15 DEF ProbeStep
<1>4. CASE SandboxRetired
  BY <1>4 DEF SandboxRetired, Types
<1>5. CASE Crash
  BY <1>5 DEF Crash, EndWith, Types, Steps
<1>6. CASE Teardown
  BY <1>6 DEF Teardown, Reachable, Types, Steps
<1>7. QED
  BY <1>1, <1>2, <1>3, <1>4, <1>5, <1>6 DEF Next

LEMMA TypesAlways == Spec => []Types
<1>1. Init => Types
  BY ScalingAssumption DEF Init, Types, Steps
<1>2. Types /\ [Next]_vars => Types'
  BY TypesKept
<1>3. QED
  BY <1>1, <1>2, PTL DEF Spec

-----------------------------------------------------------------------------
(* Teardown.                                                               *)

\* A running probe has not been torn down.
LEMMA TeardownKept ==
  ASSUME Types, TeardownReclaims, [Next]_vars
  PROVE TeardownReclaims'
<1>1. CASE UNCHANGED vars
  BY <1>1 DEF vars, outside, TeardownReclaims
<1>2. CASE Teardown
  <2>1. CASE last' = "tornDown"
    <3>1. account' = account \ Reachable /\ repo' = FALSE /\ bucket' = FALSE
      BY <1>2, <2>1 DEF Teardown
    <3>2. Reachable = account
      BY DEF Types, Things, Reachable, EnumeratedFamilies
    <3>3. account' = {}
      BY <3>1, <3>2
    <3>4. QED
      BY <3>1, <3>3, Zenon DEF TeardownReclaims
  <2>2. CASE last' # "tornDown"
    BY <2>2 DEF TeardownReclaims
  <2>3. QED
    BY <2>1, <2>2
<1>3. ASSUME last' # "tornDown"
      PROVE TeardownReclaims'
  BY <1>3 DEF TeardownReclaims
<1>4. CASE StartProbe \/ Crash
  BY <1>3, <1>4 DEF StartProbe, Crash, EndWith
<1>5. CASE ProbeStep \/ SandboxRetired
  <2>1. step # "idle" => last = "none"
    BY DEF Types
  <2>2. step # "idle" /\ (last' = last \/ last' \in {"probed", "probeFailed"})
    <3>1. CASE Prepare \/ StageZip \/ CreateFunction \/ AwaitReady
      BY <3>1 DEF Prepare, StageZip, CreateFunction, AwaitReady, EndWith
    <3>2. CASE UndoCreate \/ Unstage \/ SampleStep \/ UnitSampled \/ UnitGivenUp \/ SandboxRetired
      BY <3>2 DEF UndoCreate, Unstage, SampleStep, UnitSampled, UnitGivenUp, SandboxRetired
    <3>3. CASE CleanUp \/ CleanedUp \/ WriteFile
      BY <3>3 DEF CleanUp, CleanedUp, WriteFile, EndWith
    <3>4. CASE EnsureRepo \/ PushImage \/ ReadSize
      BY <3>4 DEF EnsureRepo, PushImage, ReadSize, EndWith
    <3>5. QED
      BY <1>5, <3>1, <3>2, <3>3, <3>4 DEF ProbeStep
  <2>3. QED
    BY <1>3, <2>1, <2>2
<1>6. QED
  BY <1>1, <1>2, <1>4, <1>5 DEF Next

\* A teardown that reports success has left nothing of any probe before it.
THEOREM TeardownLeavesNothing == Spec => []TeardownReclaims
<1>1. Init => TeardownReclaims
  BY DEF Init, TeardownReclaims
<1>2. Types /\ TeardownReclaims /\ [Next]_vars => TeardownReclaims'
  BY TeardownKept
<1>3. QED
  BY <1>1, <1>2, TypesAlways, PTL DEF Spec

-----------------------------------------------------------------------------
(* The function that is sampled.                                           *)

\* Once a create has succeeded, its name stands for what this probe made.
Own == step \in {"wait", "sample"} => Named(Current) = {Current}

LEMMA SameUnit ==
  ASSUME UNCHANGED <<account, probe, phase, unit>>
  PROVE Current' = Current /\ Staged' = Staged /\ Named(Current)' = Named(Current)
<1>1. Current' = Current /\ Staged' = Staged
  BY DEF Current, Staged, Function, StagedZip, Thing, Plan, ZipPlan, ImagePlan
<1>2. QED
  BY <1>1 DEF Named

LEMMA OwnKept ==
  ASSUME Own, [Next]_vars
  PROVE Own'
<1> USE DEF outside, recorded, progress
<1>1. ASSUME step' \notin {"wait", "sample"}
      PROVE Own'
  BY <1>1 DEF Own
<1>2. ASSUME step \in {"wait", "sample"}, UNCHANGED <<account, probe, phase, unit>>
      PROVE Own'
  BY <1>2, SameUnit DEF Own
<1>3. CASE UNCHANGED vars
  BY <1>1, <1>2, <1>3 DEF vars
<1>4. CASE StartProbe \/ Crash \/ Teardown
  BY <1>1, <1>4 DEF StartProbe, Crash, Teardown, EndWith
<1>5. CASE CreateFunction
  <2>1. CASE step' # "wait"
    BY <1>1, <1>5, <2>1 DEF CreateFunction, AfterFailedCreate, GoTo, Cleanup
  <2>2. CASE step' = "wait"
    <3>1. PICK c \in Answers(Named(Current) = {}) : account' = Made(Current, c) /\ Created(c)
      BY <1>5, <2>2 DEF CreateFunction, AfterFailedCreate, GoTo, Cleanup
    <3>2. Named(Current) = {} /\ c.took
      BY <3>1 DEF Answers, Created
    <3>3. account' = account \cup {Current}
      BY <3>1, <3>2 DEF Made
    <3>4. Current' = Current
      BY <1>5 DEF CreateFunction, Current, Function, Thing, Plan, ZipPlan, ImagePlan
    <3>5. Named(Current)' = {Current}
      BY <3>2, <3>3, <3>4 DEF Named
    <3>6. QED
      BY <3>4, <3>5 DEF Own
  <2>3. QED
    BY <2>1, <2>2
<1>6. CASE AwaitReady
  BY <1>1, <1>2, <1>6 DEF AwaitReady, GoTo, AfterFailedWait
<1>7. CASE SampleStep \/ SandboxRetired
  BY <1>2, <1>7 DEF SampleStep, SandboxRetired
<1>8. CASE Prepare \/ StageZip \/ UndoCreate \/ Unstage
  BY <1>1, <1>8
  DEF Prepare, StageZip, UndoCreate, Unstage, GoTo, Cleanup, EndWith, AfterFailedCreate
<1>9. CASE UnitSampled \/ UnitGivenUp
  BY <1>1, <1>9 DEF UnitSampled, UnitGivenUp, GoTo, Cleanup, NextUnit
<1>10. CASE CleanUp \/ CleanedUp \/ WriteFile
  BY <1>1, <1>10 DEF CleanUp, CleanedUp, WriteFile, GoTo, EndWith
<1>11. CASE EnsureRepo \/ PushImage \/ ReadSize
  BY <1>1, <1>11 DEF EnsureRepo, PushImage, ReadSize, GoTo, Cleanup, EndWith
<1>12. QED
  BY <1>3, <1>4, <1>5, <1>6, <1>7, <1>8, <1>9, <1>10, <1>11 DEF Next, ProbeStep

LEMMA OwnAlways == Spec => []Own
<1>1. Init => Own
  BY DEF Init, Own
<1>2. Own /\ [Next]_vars => Own'
  BY OwnKept
<1>3. QED
  BY <1>1, <1>2, PTL DEF Spec

\* A probe samples what it made, not what an earlier one of the same names left.
THEOREM ProbeSamplesItsOwn == Spec => []SamplesItsOwn
<1>1. Own => SamplesItsOwn
  BY DEF Own, SamplesItsOwn, Current, Function, Thing
<1>2. QED
  BY <1>1, OwnAlways, PTL

-----------------------------------------------------------------------------
(* The results files.                                                      *)

\* The functions of the first n units of the plan.
First(n) == [i \in 1 .. n |-> Function(Plan[i])]

Working == {"prepare", "stage", "create", "wait", "undo", "unstage", "sample", "repo", "push",
            "size"}

\* What is measured grows with the units, and an error is remembered until the cleanup is
\* over.
Counted ==
  /\ step \in Working => measured = First(unit - 1)
  /\ step \in {"undo", "unstage"} => failed
  /\ step = "cleanup" => failed \/ measured = First(2 * NumSizes)
  /\ step = "write" => measured = First(2 * NumSizes)

\* The files stand for this probe, the zip file before the image phase.
Written ==
  /\ FilesComplete
  /\ files = [zip |-> files.zip, image |-> files.image]
  /\ step # "idle" /\ phase = "image" => files.zip # <<>>

LEMMA AppendNext ==
  ASSUME NEW G, NEW n \in Nat
  PROVE Append([i \in 1 .. n |-> G[i]], G[n + 1]) = [i \in 1 .. n + 1 |-> G[i]]
<1> DEFINE S == {G[i] : i \in 1 .. n + 1}
           s == [i \in 1 .. n |-> G[i]]
           t == [i \in 1 .. n + 1 |-> G[i]]
<1>1. s \in Seq(S) /\ Len(s) = n /\ G[n + 1] \in S
  OBVIOUS
<1>2. t \in Seq(S) /\ Len(t) = n + 1
  OBVIOUS
<1>3. /\ Append(s, G[n + 1]) \in Seq(S) /\ Len(Append(s, G[n + 1])) = n + 1
      /\ \A i \in 1 .. n : Append(s, G[n + 1])[i] = s[i]
      /\ Append(s, G[n + 1])[n + 1] = G[n + 1]
  BY <1>1, AppendProperties
<1>4. \A i \in 1 .. n + 1 : Append(s, G[n + 1])[i] = t[i]
  BY <1>3
<1>5. QED
  BY <1>2, <1>3, <1>4, SeqEqual

\* The unit that was sampled is the next one.
LEMMA FirstNext ==
  ASSUME NEW n \in Nat, n < 2 * NumSizes
  PROVE Append(First(n), Function(Plan[n + 1])) = First(n + 1)
<1> DEFINE G == [i \in 1 .. 2 * NumSizes |-> Function(Plan[i])]
<1>1. [i \in 1 .. n |-> G[i]] = First(n) /\ [i \in 1 .. n + 1 |-> G[i]] = First(n + 1)
  BY ScalingAssumption DEF First
<1>2. G[n + 1] = Function(Plan[n + 1])
  BY ScalingAssumption
<1> HIDE DEF G
<1>3. QED
  BY <1>1, <1>2, AppendNext

LEMMA SamePlan ==
  ASSUME UNCHANGED <<probe, phase>>, NEW n
  PROVE First(n)' = First(n)
  BY DEF First, Function, Thing, Plan, ZipPlan, ImagePlan

LEMMA CountedKept ==
  ASSUME Types, Own, Counted, [Next]_vars
  PROVE Counted'
<1> USE DEF outside, recorded, progress
<1>1. ASSUME step' = "idle"
      PROVE Counted'
  BY <1>1 DEF Counted, Working
<1>2. ASSUME step \in Working, step' \in Working \ {"undo", "unstage"},
             UNCHANGED <<probe, phase, unit, measured>>
      PROVE Counted'
  BY <1>2, SamePlan DEF Counted, Working
<1>3. ASSUME step \in Working, step' \in {"undo", "unstage", "cleanup"}, failed' = TRUE,
             UNCHANGED <<probe, phase, unit, measured>>
      PROVE Counted'
  BY <1>3, SamePlan DEF Counted, Working
<1>4. ASSUME UNCHANGED <<step, failed, probe, phase, unit, measured>>
      PROVE Counted'
  BY <1>4, SamePlan DEF Counted
<1>5. CASE UNCHANGED vars
  BY <1>4, <1>5 DEF vars
<1>6. CASE StartProbe
  BY <1>6 DEF StartProbe, Counted, Working, First
<1>7. CASE Crash \/ Teardown
  BY <1>1, <1>7 DEF Crash, Teardown, EndWith
<1>8. CASE SampleStep \/ SandboxRetired \/ CleanUp
  BY <1>4, <1>8 DEF SampleStep, SandboxRetired, CleanUp
<1>9. CASE Prepare \/ EnsureRepo
  BY <1>1, <1>2, <1>9 DEF Prepare, EnsureRepo, GoTo, EndWith, Working
<1>10. CASE StageZip
  <2>1. \/ step' = "create"
        \/ step' = "cleanup" /\ failed' = TRUE
    BY <1>10 DEF StageZip, GoTo, Cleanup
  <2>2. QED
    BY <1>2, <1>3, <1>10, <2>1 DEF StageZip, Working
<1>11. CASE CreateFunction
  <2>1. \/ step' = "wait"
        \/ step' \in {"unstage", "cleanup"} /\ failed' = TRUE
    BY <1>11 DEF CreateFunction, AfterFailedCreate, GoTo, Cleanup
  <2>2. QED
    BY <1>2, <1>3, <1>11, <2>1 DEF CreateFunction, Working
<1>12. CASE AwaitReady
  <2>1. \/ step' = "sample"
        \/ step' = "undo" /\ failed' = TRUE
    BY <1>12 DEF AwaitReady, AfterFailedWait, GoTo
  <2>2. QED
    BY <1>2, <1>3, <1>12, <2>1 DEF AwaitReady, Working
<1>13. CASE UndoCreate \/ Unstage
  <2>1. step \in {"undo", "unstage"} /\ step' \in {"unstage", "cleanup"} /\ UNCHANGED failed
    BY <1>13 DEF UndoCreate, Unstage, AfterFailedCreate, GoTo, Cleanup
  <2>2. UNCHANGED <<probe, phase, unit, measured>>
    BY <1>13 DEF UndoCreate, Unstage
  <2>3. QED
    BY <2>1, <2>2, SamePlan DEF Counted, Working
<1>14. CASE UnitSampled
  <2>1. step = "sample" /\ Len(Plan) = 2 * NumSizes /\ UNCHANGED <<probe, phase>>
    BY <1>14, UnitThings DEF UnitSampled
  <2>2. measured' = Append(First(unit - 1), Function(Plan[unit]))
    BY <1>14, <2>1 DEF UnitSampled, Own, Counted, Working, Current
  <2>3. unit - 1 \in Nat /\ unit - 1 < 2 * NumSizes /\ (unit - 1) + 1 = unit
    BY ScalingAssumption DEF Types
  <2>4. measured' = First(unit)
    BY <2>2, <2>3, FirstNext
  <2>5. \/ step' \in {"stage", "create", "push"} /\ unit' = unit + 1
        \/ step' = "cleanup" /\ unit' = unit /\ unit >= 2 * NumSizes
    BY <1>14, <2>1, ScalingAssumption DEF UnitSampled, GoTo, Cleanup, NextUnit, Types
  <2>6. CASE step' \in {"stage", "create", "push"} /\ unit' = unit + 1
    <3>1. unit' - 1 = unit
      BY <2>3, <2>6 DEF Types
    <3>2. measured' = First(unit - 1)'
      BY <2>1, <2>4, <3>1 DEF First, Function, Thing, Plan, ZipPlan, ImagePlan
    <3>3. QED
      BY <2>6, <3>2 DEF Counted, Working
  <2>7. CASE step' = "cleanup" /\ unit' = unit /\ unit >= 2 * NumSizes
    <3>1. unit = 2 * NumSizes
      BY <2>7, ScalingAssumption DEF Types
    <3>2. measured' = First(2 * NumSizes)'
      BY <2>1, <2>4, <3>1, SamePlan
    <3>3. QED
      BY <2>7, <3>2 DEF Counted, Working
  <2>8. QED
    BY <2>5, <2>6, <2>7
<1>15. CASE UnitGivenUp
  BY <1>3, <1>15 DEF UnitGivenUp, Cleanup, Working
<1>16. CASE CleanedUp
  <2>1. UNCHANGED <<probe, phase, measured>> /\ step = "cleanup"
    BY <1>16 DEF CleanedUp
  <2>2. \/ step' = "idle"
        \/ step' = "write" /\ ~failed
    <3>1. CASE Succeeded
      BY <1>16, <3>1 DEF CleanedUp, Succeeded, GoTo
    <3>2. CASE ~Succeeded
      BY <1>16, <3>2 DEF CleanedUp, EndWith
    <3>3. QED
      BY <3>1, <3>2
  <2>3. QED
    BY <1>1, <2>1, <2>2, SamePlan DEF Counted, Working
<1>17. CASE WriteFile
  <2>1. \/ step' = "idle"
        \/ step' = "repo" /\ unit' = 1 /\ measured' = <<>>
    BY <1>17 DEF WriteFile, GoTo, EndWith
  <2>2. <<>> = [i \in 1 .. 0 |-> Function(Plan[i])']
    OBVIOUS
  <2>3. ASSUME step' = "repo", unit' = 1, measured' = <<>>
        PROVE Counted'
    BY <2>2, <2>3 DEF Counted, Working, First
  <2>4. QED
    BY <1>1, <2>1, <2>3
<1>18. CASE PushImage \/ ReadSize
  <2>1. \/ step' \in {"size", "create"}
        \/ step' = "cleanup" /\ failed' = TRUE
    BY <1>18 DEF PushImage, ReadSize, GoTo, Cleanup
  <2>2. QED
    BY <1>2, <1>3, <1>18, <2>1 DEF PushImage, ReadSize, Working
<1>19. QED
  BY <1>5, <1>6, <1>7, <1>8, <1>9, <1>10, <1>11, <1>12, <1>13, <1>14, <1>15, <1>16, <1>17,
     <1>18 DEF Next, ProbeStep

LEMMA CountedAlways == Spec => []Counted
<1>1. Init => Counted
  BY DEF Init, Counted, Working
<1>2. Types /\ Own /\ Counted /\ [Next]_vars => Counted'
  BY CountedKept
<1>3. QED
  BY <1>1, <1>2, TypesAlways, OwnAlways, PTL DEF Spec

LEMMA WrittenKept ==
  ASSUME Types, Counted, Written, [Next]_vars
  PROVE Written'
<1> USE DEF outside, recorded, progress
<1>1. ASSUME UNCHANGED <<files, probe, withImage>>, last' = "probed" => last = "probed",
             step' # "idle" => step # "idle" /\ phase' = phase
      PROVE Written'
  BY <1>1 DEF Written, FilesComplete, Complete, Function, Thing, ZipPlan, ImagePlan
<1>2. CASE UNCHANGED vars
  BY <1>1, <1>2 DEF vars
<1>3. CASE StartProbe
  <2>1. /\ files' = [zip |-> <<>>, image |-> <<>>] /\ last' = "none" /\ phase' = "zip"
    BY <1>3 DEF StartProbe, NoFiles
  <2>2. QED
    BY <2>1 DEF Written, FilesComplete
<1>4. CASE Crash \/ Teardown
  BY <1>1, <1>4 DEF Crash, Teardown, EndWith
<1>5. CASE Prepare \/ StageZip \/ CreateFunction \/ AwaitReady
  BY <1>1, <1>5 DEF Prepare, StageZip, CreateFunction, AwaitReady, EndWith
<1>6. CASE UndoCreate \/ Unstage \/ SampleStep \/ UnitSampled \/ UnitGivenUp \/ SandboxRetired
  BY <1>1, <1>6 DEF UndoCreate, Unstage, SampleStep, UnitSampled, UnitGivenUp, SandboxRetired
<1>7. CASE CleanUp \/ CleanedUp \/ EnsureRepo \/ PushImage \/ ReadSize
  BY <1>1, <1>7 DEF CleanUp, CleanedUp, EnsureRepo, PushImage, ReadSize, EndWith
<1>8. CASE WriteFile
  <2>1. step = "write" /\ UNCHANGED <<probe, withImage>> /\ phase \in {"zip", "image"}
    BY <1>8 DEF WriteFile, Types
  <2>2. CASE UNCHANGED files /\ last' = "probeFailed" /\ step' = "idle"
    BY <1>1, <2>1, <2>2
  <2>3. CASE files' = [files EXCEPT ![phase] = measured]
    <3>1. measured = First(2 * NumSizes) /\ measured # <<>>
      <4>1. 1 \in 1 .. 2 * NumSizes
        BY ScalingAssumption
      <4>2. DOMAIN First(2 * NumSizes) = 1 .. 2 * NumSizes
        BY DEF First
      <4>3. 1 \notin DOMAIN <<>>
        OBVIOUS
      <4>4. First(2 * NumSizes) # <<>>
        BY <4>1, <4>2, <4>3
      <4>5. QED
        BY <2>1, <4>4 DEF Counted
    <3>2. files = [zip |-> files.zip, image |-> files.image]
      BY DEF Written
    <3>3. CASE phase = "zip"
      <4>1. files' = [zip |-> measured, image |-> files.image]
        BY <2>3, <3>2, <3>3
      <4>2. Complete(measured, ZipPlan)
        BY <3>1, <3>3, ScalingAssumption DEF First, Plan, ZipPlan, Complete
      <4>3. last' = "probed" => ~withImage
        <5>1. last # "probed"
          BY <2>1 DEF Types
        <5>2. CASE withImage
          BY <1>8, <3>3, <5>1, <5>2 DEF WriteFile, EndWith
        <5>3. QED
          BY <5>2
      <4>4. UNCHANGED withImage
        BY <2>1
      <4>5. files'.zip = measured /\ files'.image = files.image
        BY <4>1
      <4>6. FilesComplete'
        <5>1. Complete(files.zip, ZipPlan)' /\ files'.zip # <<>>
          BY <2>1, <3>1, <4>2, <4>5 DEF Complete, Function, Thing, ZipPlan
        <5>2. files'.image # <<>> => Complete(files.image, ImagePlan)'
          BY <2>1, <4>5 DEF Written, FilesComplete, Complete, Function, Thing, ImagePlan
        <5>3. last' = "probed" => ~withImage'
          BY <4>3, <4>4
        <5>4. QED
          BY <5>1, <5>2, <5>3 DEF FilesComplete
      <4>7. QED
        BY <3>1, <4>1, <4>5, <4>6 DEF Written
    <3>4. CASE phase = "image"
      <4>1. files' = [zip |-> files.zip, image |-> measured]
        BY <2>3, <3>2, <3>4
      <4>2. Complete(measured, ImagePlan)
        BY <3>1, <3>4, ScalingAssumption DEF First, Plan, ImagePlan, Complete
      <4>3. files'.zip = files.zip /\ files'.image = measured
        BY <4>1
      <4>4. files.zip # <<>>
        BY <2>1, <3>4 DEF Written
      <4>5. FilesComplete'
        BY <2>1, <3>1, <4>2, <4>3, <4>4
        DEF Written, FilesComplete, Complete, Function, Thing, ZipPlan, ImagePlan
      <4>6. QED
        BY <4>1, <4>3, <4>4, <4>5 DEF Written
    <3>5. QED
      BY <2>1, <3>3, <3>4
  <2>4. QED
    BY <1>8, <2>2, <2>3 DEF WriteFile, EndWith
<1>9. QED
  BY <1>2, <1>3, <1>4, <1>5, <1>6, <1>7, <1>8 DEF Next, ProbeStep

\* The files of a probe describe every function of their families, sampled in it.
THEOREM ProbeFilesComplete == Spec => []FilesComplete
<1>1. Init => Written
  BY DEF Init, NoFiles, Written, FilesComplete
<1>2. Types /\ Counted /\ Written /\ [Next]_vars => Written'
  BY WrittenKept
<1>3. Written => FilesComplete
  BY DEF Written
<1>4. QED
  BY <1>1, <1>2, <1>3, TypesAlways, CountedAlways, PTL DEF Spec

-----------------------------------------------------------------------------
(* What is left behind.                                                    *)

In(x, s) == \E i \in 1 .. Len(s) : s[i] = x

\* The steps at which its ledgers, and the calls it is in the middle of, say what a
\* probe has made.
Making == {"stage", "create", "wait", "undo", "unstage", "sample", "push", "size"}

\* Somebody answers for x: it is reported or lost, or it is still to be deleted.
Answered(x) ==
  \/ x \in told \cup lost
  \/ step = "cleanup" /\ In(x, work)
  \/ step \in Making /\ (In(x, ledger) \/ In(x, tags))
  \/ step \in {"wait", "undo"} /\ x = Current
  \/ step \in {"create", "wait", "undo", "unstage"} /\ phase = "zip" /\ x = Staged

Kept ==
  /\ step \in {"prepare", "stage"} => phase = "zip"
  /\ step # "idle" => \A x \in account : x.probe = probe => Answered(x)
  /\ NothingForgotten

LEMMA InConcat ==
  ASSUME NEW S, NEW s \in Seq(S), NEW t \in Seq(S), NEW x, In(x, s) \/ In(x, t)
  PROVE In(x, s \o t)
<1>1. /\ Len(s \o t) = Len(s) + Len(t) /\ Len(s) \in Nat /\ Len(t) \in Nat
      /\ \A i \in 1 .. Len(s) : (s \o t)[i] = s[i]
      /\ \A i \in 1 .. Len(t) : (s \o t)[Len(s) + i] = t[i]
  OBVIOUS
<1>2. CASE In(x, s)
  BY <1>1, <1>2 DEF In
<1>3. CASE In(x, t)
  <2>1. PICK i \in 1 .. Len(t) : t[i] = x
    BY <1>3 DEF In
  <2>2. (s \o t)[Len(s) + i] = x
    BY <1>1, <2>1
  <2>3. Len(s) + i \in 1 .. Len(s \o t)
    BY <1>1, <2>1
  <2> QED
    BY <2>2, <2>3 DEF In
<1>4. QED
  BY <1>2, <1>3

LEMMA InAppend ==
  ASSUME NEW S, NEW s \in Seq(S), NEW y \in S, NEW x, In(x, s) \/ x = y
  PROVE In(x, Append(s, y))
<1>1. /\ Len(Append(s, y)) = Len(s) + 1 /\ Len(s) \in Nat
      /\ \A i \in 1 .. Len(s) : Append(s, y)[i] = s[i]
      /\ Append(s, y)[Len(s) + 1] = y
  BY AppendProperties
<1>2. QED
  BY <1>1 DEF In

LEMMA InSingle ==
  ASSUME NEW x
  PROVE In(x, <<x>>)
<1>1. 1 \in 1 .. Len(<<x>>) /\ <<x>>[1] = x
  OBVIOUS
<1>2. QED
  BY <1>1 DEF In

LEMMA InTail ==
  ASSUME NEW S, NEW s \in Seq(S), s # <<>>, NEW x, In(x, s), x # Head(s)
  PROVE In(x, Tail(s))
<1>1. /\ Len(Tail(s)) = Len(s) - 1 /\ Len(s) \in Nat /\ Head(s) = s[1]
      /\ \A i \in 1 .. Len(Tail(s)) : Tail(s)[i] = s[i + 1]
  OBVIOUS
<1>2. PICK i \in 1 .. Len(s) : s[i] = x
  BY DEF In
<1>3. i - 1 \in 1 .. Len(Tail(s)) /\ Tail(s)[i - 1] = x
  BY <1>1, <1>2
<1>4. QED
  BY <1>3 DEF In

\* A best-effort deletion leaves nothing of its name that it does not report.
LEMMA DeletedOrTold ==
  ASSUME NEW t, NEW c \in Answers(TRUE), account' = Deleted(t, c), TellIf(t, c)
  PROVE /\ account' \subseteq account /\ told \subseteq told'
        /\ \A x \in account' : x = t => x \in told'
<1>1. c.ok => c.took
  BY DEF Answers
<1>2. \A x \in account : x = t => x \in Named(t)
  BY DEF Named
<1>3. CASE c.took
  BY <1>2, <1>3 DEF Deleted, TellIf
<1>4. CASE ~c.took
  BY <1>1, <1>2, <1>4 DEF Deleted, TellIf
<1>5. QED
  BY <1>3, <1>4

\* What a create makes is lost if its answer is an error.
LEMMA MadeOrLost ==
  ASSUME NEW t, NEW b \in BOOLEAN, NEW c \in Answers(b), account' = Made(t, c), LostIf(t, c)
  PROVE /\ account' \subseteq account \cup {t} /\ lost \subseteq lost'
        /\ \A x \in account' : x \in account \/ (x = t /\ (c.ok \/ x \in lost'))
<1>1. CASE c.took
  BY <1>1 DEF Made, LostIf
<1>2. CASE ~c.took
  BY <1>2 DEF Made, LostIf
<1>3. QED
  BY <1>1, <1>2

LEMMA KeptKept ==
  ASSUME Types, Kept, [Next]_vars
  PROVE Kept'
<1> USE DEF outside, recorded, progress
<1>1. ASSUME step' = "idle", last' \notin {"probed", "probeFailed"}
      PROVE Kept'
  BY <1>1 DEF Kept, NothingForgotten, Ended
<1>2. ASSUME step' = "idle", UNCHANGED <<account, probe, told, lost>>,
             \A x \in account : x.probe = probe => x \in told \cup lost
      PROVE Kept'
  BY <1>2 DEF Kept, NothingForgotten
<1>3. ASSUME step' # "idle", step' \in {"prepare", "stage"} => phase' = "zip", UNCHANGED probe,
             \A x \in account' : x.probe = probe => Answered(x)'
      PROVE Kept'
  BY <1>3 DEF Kept, NothingForgotten, Ended
<1>4. ASSUME step # "idle", UNCHANGED <<step, account, probe, phase, unit, ledger, tags, work, told, lost>>
      PROVE Kept'
  <2>1. Current' = Current /\ Staged' = Staged
    BY <1>4, SameUnit
  <2>2. ASSUME NEW x \in account', x.probe = probe
        PROVE Answered(x)'
    BY <1>4, <2>1, <2>2 DEF Answered, Kept
  <2>3. QED
    BY <1>3, <1>4, <2>2 DEF Kept
<1>5. ASSUME step # "idle", step' = "cleanup", work' = ledger \o tags, UNCHANGED probe,
             \A x \in account' : x.probe = probe => x \in told' \cup lost' \/ In(x, ledger) \/ In(x, tags)
      PROVE Kept'
  <2>1. ASSUME NEW x \in account', x.probe = probe
        PROVE Answered(x)'
    <3>1. CASE x \in told' \cup lost'
      BY <3>1 DEF Answered
    <3>2. CASE In(x, ledger) \/ In(x, tags)
      <4>1. In(x, ledger \o tags)
        BY <3>2, InConcat DEF Types
      <4>2. QED
        BY <1>5, <4>1 DEF Answered, In
    <3>3. QED
      BY <1>5, <2>1, <3>1, <3>2
  <2>2. QED
    BY <1>3, <1>5, <2>1
<1>6. CASE UNCHANGED vars
  <2>1. UNCHANGED <<step, account, probe, phase, unit, ledger, tags, work, told, lost, last>>
    BY <1>6 DEF vars
  <2>2. CASE step # "idle"
    BY <1>4, <2>1, <2>2
  <2>3. CASE step = "idle"
    BY <2>1, <2>3 DEF Kept, NothingForgotten, Ended
  <2>4. QED
    BY <2>2, <2>3
<1>7. CASE StartProbe
  <2>1. /\ probe' = probe + 1 /\ phase' = "zip" /\ step' = "prepare" /\ UNCHANGED account
    BY <1>7 DEF StartProbe
  <2>2. \A x \in account' : x.probe # probe'
    BY <2>1 DEF Types, Things
  <2>3. QED
    BY <2>1, <2>2 DEF Kept, NothingForgotten, Ended
<1>8. CASE Crash
  BY <1>1, <1>8 DEF Crash, EndWith
<1>9. CASE Teardown
  BY <1>1, <1>9 DEF Teardown
<1>10. CASE SampleStep \/ SandboxRetired
  BY <1>4, <1>10 DEF SampleStep, SandboxRetired
<1>11. CASE Prepare
  <2>1. /\ step = "prepare" /\ UNCHANGED <<account, probe, phase, told, lost>>
        /\ step' = "stage" \/ step' = "idle"
    BY <1>11 DEF Prepare, GoTo, EndWith
  <2>2. \A x \in account : x.probe = probe => x \in told \cup lost
    BY <2>1 DEF Kept, Answered, Making
  <2>3. \A x \in account' : x.probe = probe => Answered(x)'
    BY <2>1, <2>2 DEF Answered
  <2>4. phase' = "zip"
    BY <2>1 DEF Kept
  <2>5. QED
    BY <1>2, <1>3, <2>1, <2>2, <2>3, <2>4
<1>12. CASE StageZip
  <2>1. step = "stage" /\ phase = "zip" /\ UNCHANGED <<probe, phase, unit, ledger, tags, told>>
    BY <1>12 DEF StageZip, Kept
  <2>2. PICK c \in Answers(TRUE) :
          /\ account' = Made(Staged, c) /\ LostIf(Staged, c)
          /\ IF c.ok THEN GoTo("create") ELSE Cleanup
    BY <1>12 DEF StageZip
  <2>3. /\ lost \subseteq lost'
        /\ \A x \in account' : x \in account \/ (x = Staged /\ (c.ok \/ x \in lost'))
    BY <2>2, MadeOrLost
  <2>4. \A x \in account : x.probe = probe => x \in told \cup lost \/ In(x, ledger) \/ In(x, tags)
    BY <2>1 DEF Kept, Answered
  <2>5. CASE c.ok
    <3>1. step' = "create"
      BY <2>2, <2>5 DEF GoTo
    <3>2. Staged' = Staged
      BY <2>1 DEF Staged, StagedZip, Thing, Plan, ZipPlan, ImagePlan
    <3>3. ASSUME NEW x \in account', x.probe = probe
          PROVE Answered(x)'
      BY <2>1, <2>3, <2>4, <3>1, <3>2, <3>3 DEF Answered, Making
    <3>4. QED
      BY <1>3, <2>1, <3>1, <3>3
  <2>6. CASE ~c.ok
    BY <1>5, <2>1, <2>2, <2>3, <2>4, <2>6 DEF Cleanup
  <2>7. QED
    BY <2>5, <2>6
<1>13. CASE CreateFunction
  <2>1. step = "create" /\ UNCHANGED <<probe, phase, unit, ledger, tags, told>>
    BY <1>13 DEF CreateFunction
  <2>2. PICK c \in Answers(Named(Current) = {}) :
          /\ account' = Made(Current, c) /\ LostIf(Current, c)
          /\ IF Created(c) THEN GoTo("wait") ELSE AfterFailedCreate
    BY <1>13 DEF CreateFunction
  <2>3. /\ lost \subseteq lost'
        /\ \A x \in account' : x \in account \/ (x = Current /\ (c.ok \/ x \in lost'))
    <3>1. (Named(Current) = {}) \in BOOLEAN
      OBVIOUS
    <3>2. QED
      BY <2>2, <3>1, MadeOrLost
  <2>4. \A x \in account : x.probe = probe =>
          \/ x \in told \cup lost \/ In(x, ledger) \/ In(x, tags)
          \/ phase = "zip" /\ x = Staged
    BY <2>1 DEF Kept, Answered
  <2>5. Staged' = Staged /\ Current' = Current
    BY <2>1 DEF Staged, StagedZip, Current, Function, Thing, Plan, ZipPlan, ImagePlan
  <2>6. CASE c.ok
    <3>1. step' = "wait"
      BY <2>2, <2>6 DEF GoTo, Created
    <3>2. ASSUME NEW x \in account', x.probe = probe
          PROVE Answered(x)'
      BY <2>1, <2>3, <2>4, <2>5, <3>1, <3>2 DEF Answered, Making
    <3>3. QED
      BY <1>3, <2>1, <3>1, <3>2
  <2>7. CASE ~c.ok /\ phase = "zip"
    <3>1. step' = "unstage"
      BY <2>2, <2>7 DEF GoTo, Created, AfterFailedCreate
    <3>2. ASSUME NEW x \in account', x.probe = probe
          PROVE Answered(x)'
      BY <2>1, <2>3, <2>4, <2>5, <2>7, <3>1, <3>2 DEF Answered, Making
    <3>3. QED
      BY <1>3, <2>1, <3>1, <3>2
  <2>8. CASE ~c.ok /\ phase # "zip"
    <3>1. step' = "cleanup" /\ work' = ledger \o tags
      BY <2>2, <2>8 DEF Created, AfterFailedCreate, Cleanup
    <3>2. QED
      BY <1>5, <2>1, <2>3, <2>4, <2>8, <3>1
  <2>9. QED
    BY <2>6, <2>7, <2>8
<1>14. CASE AwaitReady
  <2>1. step = "wait" /\ UNCHANGED <<account, probe, phase, unit, tags, told, lost>>
    BY <1>14 DEF AwaitReady
  <2>2. \A x \in account : x.probe = probe =>
          \/ x \in told \cup lost \/ In(x, ledger) \/ In(x, tags)
          \/ x = Current
          \/ phase = "zip" /\ x = Staged
    BY <2>1 DEF Kept, Answered
  <2>3. Staged' = Staged /\ Current' = Current
    BY <2>1, SameUnit
  <2>4. CASE step' = "sample" /\ ledger' = ledger \o Recorded
    <3>1. Recorded \in Seq(Things(probe)) /\ ledger \in Seq(Things(probe))
      BY <2>1, UnitThings DEF Recorded, Current, Staged, Types
    <3>2. In(Current, Recorded) /\ (phase = "zip" => In(Staged, Recorded))
      <4>1. CASE phase = "zip"
        <5>1. Recorded = <<Current>> \o <<Staged>>
          BY <4>1 DEF Recorded
        <5>2. In(Current, <<Current>>) /\ In(Staged, <<Staged>>)
          BY InSingle
        <5>3. /\ <<Current>> \in Seq({Current, Staged})
              /\ <<Staged>> \in Seq({Current, Staged})
          OBVIOUS
        <5>4. QED
          BY <5>1, <5>2, <5>3, InConcat
      <4>2. CASE phase # "zip"
        <5>1. Recorded = <<Current>>
          BY <4>2 DEF Recorded
        <5>2. QED
          BY <4>2, <5>1 DEF In
      <4>3. QED
        BY <4>1, <4>2
    <3>3. ASSUME NEW x \in account', x.probe = probe
          PROVE Answered(x)'
      <4>1. CASE In(x, ledger) \/ x = Current \/ (phase = "zip" /\ x = Staged)
        <5>1. In(x, ledger \o Recorded)
          BY <3>1, <3>2, <4>1, InConcat
        <5>2. QED
          BY <2>4, <5>1 DEF Answered, Making, In
      <4>2. CASE x \in told \cup lost \/ In(x, tags)
        BY <2>1, <2>4, <4>2 DEF Answered, Making, In
      <4>3. QED
        BY <2>1, <2>2, <3>3, <4>1, <4>2
    <3>4. QED
      BY <1>3, <2>1, <2>4, <3>3
  <2>5. CASE step' = "undo" /\ ledger' = ledger
    <3>1. ASSUME NEW x \in account', x.probe = probe
          PROVE Answered(x)'
      BY <2>1, <2>2, <2>3, <2>5, <3>1 DEF Answered, Making
    <3>2. QED
      BY <1>3, <2>1, <2>5, <3>1
  <2>6. QED
    BY <1>14, <2>4, <2>5 DEF AwaitReady, GoTo, AfterFailedWait
<1>15. CASE UndoCreate
  <2>1. step = "undo" /\ UNCHANGED <<probe, phase, unit, ledger, tags, lost>>
    BY <1>15 DEF UndoCreate
  <2>2. /\ account' \subseteq account /\ told \subseteq told'
        /\ \A x \in account' : x = Current => x \in told'
    BY <1>15, DeletedOrTold DEF UndoCreate
  <2>3. \A x \in account' : x.probe = probe =>
          \/ x \in told' \cup lost' \/ In(x, ledger) \/ In(x, tags)
          \/ phase = "zip" /\ x = Staged
    BY <2>1, <2>2 DEF Kept, Answered
  <2>4. CASE phase = "zip"
    <3>1. step' = "unstage"
      BY <1>15, <2>4 DEF UndoCreate, AfterFailedCreate, GoTo
    <3>2. Staged' = Staged
      BY <2>1 DEF Staged, StagedZip, Thing, Plan, ZipPlan, ImagePlan
    <3>3. ASSUME NEW x \in account', x.probe = probe
          PROVE Answered(x)'
      BY <2>1, <2>3, <2>4, <3>1, <3>2, <3>3 DEF Answered, Making
    <3>4. QED
      BY <1>3, <2>1, <3>1, <3>3
  <2>5. CASE phase # "zip"
    BY <1>5, <1>15, <2>1, <2>3, <2>5 DEF UndoCreate, AfterFailedCreate, Cleanup
  <2>6. QED
    BY <2>4, <2>5
<1>16. CASE Unstage
  <2>1. step = "unstage" /\ UNCHANGED <<probe, ledger, tags, lost>>
    BY <1>16 DEF Unstage
  <2>2. /\ account' \subseteq account /\ told \subseteq told'
        /\ \A x \in account' : x = Staged => x \in told'
    BY <1>16, DeletedOrTold DEF Unstage
  <2>3. \A x \in account' : x.probe = probe =>
          x \in told' \cup lost' \/ In(x, ledger) \/ In(x, tags)
    BY <2>1, <2>2 DEF Kept, Answered
  <2>4. QED
    BY <1>5, <1>16, <2>1, <2>3 DEF Unstage, Cleanup
<1>17. CASE UnitSampled \/ UnitGivenUp
  <2>1. step = "sample" /\ UNCHANGED <<account, probe, phase, ledger, tags, told, lost>>
    BY <1>17 DEF UnitSampled, UnitGivenUp
  <2>2. \A x \in account : x.probe = probe => x \in told \cup lost \/ In(x, ledger) \/ In(x, tags)
    BY <2>1 DEF Kept, Answered
  <2>3. \/ step' \in {"stage", "create", "push"} /\ (step' = "stage" => phase = "zip")
        \/ step' = "cleanup" /\ work' = ledger \o tags
    BY <1>17 DEF UnitSampled, UnitGivenUp, GoTo, Cleanup, NextUnit
  <2>4. CASE step' \in {"stage", "create", "push"} /\ (step' = "stage" => phase = "zip")
    <3>1. ASSUME NEW x \in account', x.probe = probe
          PROVE Answered(x)'
      BY <2>1, <2>2, <2>4, <3>1 DEF Answered, Making
    <3>2. QED
      BY <1>3, <2>1, <2>4, <3>1
  <2>5. CASE step' = "cleanup" /\ work' = ledger \o tags
    BY <1>5, <2>1, <2>2, <2>5
  <2>6. QED
    BY <2>3, <2>4, <2>5
<1>18. CASE CleanUp
  <2>1. /\ step = "cleanup" /\ work # <<>> /\ work' = Tail(work)
        /\ UNCHANGED <<probe, step, lost>>
    BY <1>18 DEF CleanUp
  <2>2. /\ account' \subseteq account /\ told \subseteq told'
        /\ \A x \in account' : x = Head(work) => x \in told'
    BY <1>18, DeletedOrTold DEF CleanUp
  <2>3. ASSUME NEW x \in account', x.probe = probe
        PROVE Answered(x)'
    <3>1. x \in told \cup lost \/ In(x, work)
      BY <2>1, <2>2, <2>3 DEF Kept, Answered, Making
    <3>2. CASE x \in told \cup lost \/ x = Head(work)
      BY <2>1, <2>2, <2>3, <3>2 DEF Answered
    <3>3. CASE In(x, work) /\ x # Head(work)
      <4>1. In(x, Tail(work))
        BY <2>1, <3>3, InTail DEF Types
      <4>2. QED
        BY <2>1, <4>1 DEF Answered, In
    <3>4. QED
      BY <3>1, <3>2, <3>3
  <2>4. QED
    BY <1>3, <2>1, <2>3
<1>19. CASE CleanedUp
  <2>1. /\ step = "cleanup" /\ work = <<>> /\ UNCHANGED <<account, probe, phase, told, lost>>
        /\ step' = "write" \/ step' = "idle"
    BY <1>19 DEF CleanedUp, GoTo, EndWith
  <2>2. \A x : ~In(x, work)
    BY <2>1 DEF In
  <2>3. \A x \in account : x.probe = probe => x \in told \cup lost
    BY <2>1, <2>2 DEF Kept, Answered, Making
  <2>4. \A x \in account' : x.probe = probe => Answered(x)'
    BY <2>1, <2>3 DEF Answered
  <2>5. QED
    BY <1>2, <1>3, <2>1, <2>3, <2>4
<1>20. CASE WriteFile
  <2>1. /\ step = "write" /\ UNCHANGED <<account, probe, told, lost>>
        /\ step' = "repo" \/ step' = "idle"
    BY <1>20 DEF WriteFile, GoTo, EndWith
  <2>2. \A x \in account : x.probe = probe => x \in told \cup lost
    BY <2>1 DEF Kept, Answered, Making
  <2>3. \A x \in account' : x.probe = probe => Answered(x)'
    BY <2>1, <2>2 DEF Answered
  <2>4. QED
    BY <1>2, <1>3, <2>1, <2>2, <2>3
<1>21. CASE EnsureRepo
  <2>1. /\ step = "repo" /\ UNCHANGED <<account, probe, told, lost>>
        /\ step' = "push" \/ step' = "idle"
    BY <1>21 DEF EnsureRepo, GoTo, EndWith
  <2>2. \A x \in account : x.probe = probe => x \in told \cup lost
    BY <2>1 DEF Kept, Answered, Making
  <2>3. \A x \in account' : x.probe = probe => Answered(x)'
    BY <2>1, <2>2 DEF Answered
  <2>4. QED
    BY <1>2, <1>3, <2>1, <2>2, <2>3
<1>22. CASE PushImage
  <2>1. step = "push" /\ UNCHANGED <<probe, ledger, told>>
    BY <1>22 DEF PushImage
  <2>2. PICK c \in Answers(TRUE) :
          /\ account' = Made(Pushed, c) /\ LostIf(Pushed, c)
          /\ tags' = IF c.ok /\ TagRecorded("push") THEN Append(tags, Pushed) ELSE tags
          /\ IF c.ok THEN GoTo("size") ELSE Cleanup
    BY <1>22 DEF PushImage
  <2>3. /\ lost \subseteq lost'
        /\ \A x \in account' : x \in account \/ (x = Pushed /\ (c.ok \/ x \in lost'))
    BY <2>2, MadeOrLost
  <2>4. \A x \in account : x.probe = probe => x \in told \cup lost \/ In(x, ledger) \/ In(x, tags)
    BY <2>1 DEF Kept, Answered
  <2>5. CASE c.ok
    <3>1. step' = "size" /\ tags' = Append(tags, Pushed)
      BY <2>2, <2>5 DEF GoTo, TagRecorded
    <3>2. Pushed \in Things(probe) /\ tags \in Seq(Things(probe))
      BY <2>1, UnitThings DEF Pushed, Types
    <3>3. ASSUME NEW x \in account', x.probe = probe
          PROVE Answered(x)'
      <4>1. CASE In(x, tags) \/ x = Pushed
        <5>1. In(x, Append(tags, Pushed))
          BY <3>2, <4>1, InAppend
        <5>2. QED
          BY <3>1, <5>1 DEF Answered, Making, In
      <4>2. CASE x \in told \cup lost \/ In(x, ledger)
        BY <2>1, <2>3, <3>1, <4>2 DEF Answered, Making, In
      <4>3. QED
        BY <2>3, <2>4, <3>3, <4>1, <4>2
    <3>4. QED
      BY <1>3, <2>1, <3>1, <3>3
  <2>6. CASE ~c.ok
    BY <1>5, <2>1, <2>2, <2>3, <2>4, <2>6 DEF Cleanup
  <2>7. QED
    BY <2>5, <2>6
<1>23. CASE ReadSize
  <2>1. /\ step = "size" /\ UNCHANGED <<account, probe, ledger, tags, told, lost>>
        /\ \/ step' = "create"
           \/ step' = "cleanup" /\ work' = ledger \o tags
    BY <1>23 DEF ReadSize, GoTo, Cleanup, TagRecorded
  <2>2. \A x \in account : x.probe = probe => x \in told \cup lost \/ In(x, ledger) \/ In(x, tags)
    BY <2>1 DEF Kept, Answered
  <2>3. ASSUME step' = "create"
        PROVE Kept'
    <3>1. ASSUME NEW x \in account', x.probe = probe
          PROVE Answered(x)'
      BY <2>1, <2>2, <2>3, <3>1 DEF Answered, Making
    <3>2. QED
      BY <1>3, <2>1, <2>3, <3>1
  <2>4. QED
    BY <1>5, <2>1, <2>2, <2>3
<1>24. QED
  BY <1>6, <1>7, <1>8, <1>9, <1>10, <1>11, <1>12, <1>13, <1>14, <1>15, <1>16, <1>17, <1>18,
     <1>19, <1>20, <1>21, <1>22, <1>23 DEF Next, ProbeStep

\* Whatever fails and wherever, what a probe made it deletes, reports, or was never told of.
THEOREM ProbeForgetsNothing == Spec => []NothingForgotten
<1>1. Init => Kept
  BY DEF Init, Kept, NothingForgotten
<1>2. Types /\ Kept /\ [Next]_vars => Kept'
  BY KeptKept
<1>3. Kept => NothingForgotten
  BY DEF Kept
<1>4. QED
  BY <1>1, <1>2, <1>3, TypesAlways, PTL DEF Spec

-----------------------------------------------------------------------------
(* A probe ends.                                                           *)

\* What a series has yet to do: whether it runs, and its attempts, samples, forces and
\* invokes, each counted within those before it.
Running == IF at = "idle" THEN 0 ELSE 1
AttemptsLeft == MaxUnitAttempts - attempt
SamplesLeft == ColdSamples - Len(taken)
ForcesToGo == MaxColdForceAttempts - force
InvokesLeft ==
  CASE at = "force" -> WarmPerSample + 3
    [] at = "prewarm" -> WarmPerSample + 2
    [] at = "cold" -> WarmPerSample + 1
    [] at = "warm" -> WarmPerSample - Len(sample.warm)
    [] OTHER -> 0

seriesLeft == <<Running, AttemptsLeft, SamplesLeft, ForcesToGo, InvokesLeft>>

\* And a probe: its phases, the parts of a phase, its units, their calls, and what the
\* cleanup has to delete.
PhasesLeft == IF phase = "zip" THEN 1 ELSE 0
PartsLeft ==
  CASE step = "idle" -> 0 [] step = "write" -> 1 [] step = "cleanup" -> 2 [] OTHER -> 3
UnitsLeft == 2 * NumSizes - unit
CallsLeft ==
  CASE step \in {"prepare", "repo"} -> 8
    [] step = "push" -> 7
    [] step \in {"stage", "size"} -> 6
    [] step = "create" -> 5
    [] step = "wait" -> 4
    [] step = "sample" -> 3
    [] step = "undo" -> 2
    [] step = "unstage" -> 1
    [] OTHER -> 0

probeLeft == <<PhasesLeft, PartsLeft, UnitsLeft, CallsLeft, Len(work)>>

\* The first of them that changes falls: the lexicographic order of tuples of naturals.
SeriesFalls ==
  \/ Running' < Running
  \/ UNCHANGED Running /\ AttemptsLeft' < AttemptsLeft
  \/ UNCHANGED <<Running, AttemptsLeft>> /\ SamplesLeft' < SamplesLeft
  \/ UNCHANGED <<Running, AttemptsLeft, SamplesLeft>> /\ ForcesToGo' < ForcesToGo
  \/ /\ UNCHANGED <<Running, AttemptsLeft, SamplesLeft, ForcesToGo>>
     /\ InvokesLeft' < InvokesLeft

ProbeFalls ==
  \/ PhasesLeft' < PhasesLeft
  \/ UNCHANGED PhasesLeft /\ PartsLeft' < PartsLeft
  \/ UNCHANGED <<PhasesLeft, PartsLeft>> /\ UnitsLeft' < UnitsLeft
  \/ UNCHANGED <<PhasesLeft, PartsLeft, UnitsLeft>> /\ CallsLeft' < CallsLeft
  \/ UNCHANGED <<PhasesLeft, PartsLeft, UnitsLeft, CallsLeft>> /\ Len(work') < Len(work)
  \/ UNCHANGED probeLeft /\ SeriesFalls

\* They are naturals.
LEMMA LeftNatural ==
  ASSUME Types, SeriesInv
  PROVE  /\ seriesLeft \in Nat \X Nat \X Nat \X Nat \X Nat
         /\ probeLeft \in Nat \X Nat \X Nat \X Nat \X Nat
<1>1. Running \in Nat /\ AttemptsLeft \in Nat /\ ForcesToGo \in Nat
  BY SeriesAssumption DEF SeriesInv, SeriesTypes, Running, AttemptsLeft, ForcesToGo
<1>2. SamplesLeft \in Nat
  <2>1. Len(taken) \in Nat /\ Len(taken) <= ColdSamples
    BY DEF SeriesInv
  <2>2. QED
    BY <2>1, SeriesAssumption DEF SamplesLeft
<1>3. InvokesLeft \in Nat
  <2>1. CASE at = "warm"
    <3>1. sample.warm \in Seq({"measured"}) /\ Len(sample.warm) < WarmPerSample
      BY <2>1 DEF SeriesInv, Sound
    <3>2. Len(sample.warm) \in Nat
      BY <3>1
    <3>3. InvokesLeft = WarmPerSample - Len(sample.warm)
      BY <2>1 DEF InvokesLeft
    <3>4. QED
      BY <3>1, <3>2, <3>3, SeriesAssumption
  <2>2. CASE at # "warm"
    BY <2>2, SeriesAssumption DEF InvokesLeft
  <2>3. QED
    BY <2>1, <2>2
<1>4. PhasesLeft \in Nat /\ PartsLeft \in Nat /\ CallsLeft \in Nat
  BY DEF PhasesLeft, PartsLeft, CallsLeft
<1>5. UnitsLeft \in Nat
  BY ScalingAssumption DEF Types, UnitsLeft
<1>6. Len(work) \in Nat
  BY DEF Types
<1>7. QED
  BY <1>1, <1>2, <1>3, <1>4, <1>5, <1>6 DEF seriesLeft, probeLeft

\* An attempt that fails is one fewer, or the series is over.
LEMMA UnitFailsFalls ==
  ASSUME SeriesInv, at # "idle", UnitFails
  PROVE  SeriesFalls
<1>1. \/ at' = "force" /\ attempt' = attempt + 1
      \/ at' = "idle"
  BY DEF UnitFails, NextAttempt
<1>2. attempt \in 1 .. MaxUnitAttempts
  BY DEF SeriesInv, SeriesTypes
<1>3. QED
  BY <1>1, <1>2, SeriesAssumption DEF SeriesFalls, Running, AttemptsLeft

\* Every call of a series gets it further.
LEMMA SamplingFalls ==
  ASSUME SeriesInv, Sampling
  PROVE  SeriesFalls
<1>0. /\ ColdSamples \in Nat /\ WarmPerSample \in Nat /\ MaxColdForceAttempts \in Nat
      /\ MaxUnitAttempts \in Nat
  BY SeriesAssumption
<1> USE DEF SeriesFalls, Running, AttemptsLeft
<1>1. CASE at # "idle" /\ UnitFails
  BY <1>1, UnitFailsFalls
<1>2. CASE at = "force" /\ at' = "prewarm" /\ UNCHANGED <<attempt, force, taken>>
  BY <1>0, <1>2 DEF SamplesLeft, ForcesToGo, InvokesLeft
<1>3. CASE at = "prewarm" /\ at' = "cold" /\ UNCHANGED <<attempt, force, taken>>
  BY <1>0, <1>3 DEF SamplesLeft, ForcesToGo, InvokesLeft
<1>4. CASE ColdInvoke
  <2>1. /\ at = "cold" /\ at' = "warm" /\ UNCHANGED <<attempt, force, taken>>
        /\ sample'.warm = <<>>
    BY <1>4 DEF ColdInvoke
  <2>2. InvokesLeft = WarmPerSample + 1 /\ InvokesLeft' = WarmPerSample
    BY <1>0, <2>1 DEF InvokesLeft
  <2>3. QED
    BY <1>0, <2>1, <2>2 DEF SamplesLeft, ForcesToGo
<1>5. CASE at = "cold" /\ at' = "force" /\ force' = force + 1 /\ UNCHANGED <<attempt, taken>>
  <2>1. force \in Nat
    BY DEF SeriesInv, SeriesTypes
  <2>2. QED
    BY <1>0, <1>5, <2>1 DEF SamplesLeft, ForcesToGo
<1>6. CASE WarmInvoke
  <2>1. PICK warmed : warmed = [sample EXCEPT !.warm = Append(@, Reached("other"))]
    OBVIOUS
  <2>2. /\ at = "warm" /\ UNCHANGED attempt
        /\ IF Len(warmed.warm) < WarmPerSample
           THEN sample' = warmed /\ UNCHANGED <<at, force, taken, result>>
           ELSE /\ taken' = Append(taken, warmed)
                /\ \/ at' = "force"
                   \/ at' = "idle"
    BY <1>6, <2>1 DEF WarmInvoke
  <2>3. sample \in Sound(attempt)
    BY <2>2 DEF SeriesInv
  <2>4. /\ sample.warm \in Seq({"measured"})
        /\ warmed.warm = Append(sample.warm, Reached("other"))
    BY <2>1, <2>3 DEF Sound
  <2>5. Len(warmed.warm) = Len(sample.warm) + 1 /\ Len(sample.warm) \in Nat
    BY <2>4
  <2>6. CASE Len(warmed.warm) < WarmPerSample
    <3>1. sample' = warmed /\ UNCHANGED <<at, attempt, force, taken>>
      BY <2>2, <2>6
    <3>2. InvokesLeft = WarmPerSample - Len(sample.warm)
          /\ InvokesLeft' = WarmPerSample - Len(warmed.warm)
      BY <2>2, <3>1 DEF InvokesLeft
    <3>3. InvokesLeft' < InvokesLeft
      BY <1>0, <2>5, <3>2
    <3>4. QED
      BY <3>1, <3>3 DEF SamplesLeft, ForcesToGo
  <2>7. CASE ~(Len(warmed.warm) < WarmPerSample) /\ at' = "force"
    <3>1. taken' = Append(taken, warmed) /\ taken \in Seq(Good(attempt))
      BY <2>2, <2>7 DEF SeriesInv
    <3>2. Len(taken') = Len(taken) + 1 /\ Len(taken) \in Nat
      BY <3>1
    <3>3. SamplesLeft' < SamplesLeft
      BY <1>0, <3>2 DEF SamplesLeft
    <3>4. QED
      BY <2>2, <2>7, <3>3
  <2>8. CASE at' = "idle"
    BY <2>2, <2>8
  <2>9. QED
    BY <2>2, <2>6, <2>7, <2>8
<1>7. \/ at # "idle" /\ UnitFails
      \/ at = "force" /\ at' = "prewarm" /\ UNCHANGED <<attempt, force, taken>>
      \/ at = "prewarm" /\ at' = "cold" /\ UNCHANGED <<attempt, force, taken>>
      \/ ColdInvoke
      \/ at = "cold" /\ at' = "force" /\ force' = force + 1 /\ UNCHANGED <<attempt, taken>>
      \/ WarmInvoke
  BY DEF Sampling, ForceCold, AfterForce, Prewarm, ForceAgain, ColdFails, WarmRecycled, WarmFails,
     InvokeFails
<1>8. QED
  BY <1>1, <1>2, <1>3, <1>4, <1>5, <1>6, <1>7

\* And every step of a probe, its crash included.
LEMMA ProbeStepFalls ==
  ASSUME Types, SeriesInv, ProbeStep \/ Crash
  PROVE  ProbeFalls
<1> USE DEF outside, recorded, progress
<1>1. CASE SampleStep
  <2>1. UNCHANGED <<phase, step, unit, work>> /\ SeriesFalls
    BY <1>1, SamplingFalls DEF SampleStep
  <2>2. UNCHANGED probeLeft
    BY <2>1 DEF probeLeft, PhasesLeft, PartsLeft, UnitsLeft, CallsLeft
  <2>3. QED
    BY <2>1, <2>2 DEF ProbeFalls
<1>2. CASE CleanUp
  <2>1. UNCHANGED <<phase, step, unit>> /\ work' = Tail(work) /\ work # <<>>
    BY <1>2 DEF CleanUp
  <2>2. Len(work') < Len(work)
    <3>1. work \in Seq(Things(probe))
      BY DEF Types
    <3>2. Len(Tail(work)) = Len(work) - 1 /\ Len(work) \in Nat
      BY <2>1, <3>1
    <3>3. QED
      BY <2>1, <3>2
  <2>3. UNCHANGED <<PhasesLeft, PartsLeft, UnitsLeft, CallsLeft>>
    BY <2>1 DEF PhasesLeft, PartsLeft, UnitsLeft, CallsLeft
  <2>4. QED
    BY <2>2, <2>3 DEF ProbeFalls
<1>3. CASE UnitSampled /\ unit < Len(Plan)
  <2>1. /\ step = "sample" /\ step' \in {"stage", "create", "push"} /\ unit' = unit + 1
        /\ UNCHANGED phase
    BY <1>3 DEF UnitSampled, GoTo, NextUnit
  <2>2. UnitsLeft' < UnitsLeft
    BY <2>1, ScalingAssumption DEF Types, UnitsLeft
  <2>3. UNCHANGED <<PhasesLeft, PartsLeft>>
    BY <2>1 DEF PhasesLeft, PartsLeft
  <2>4. QED
    BY <2>2, <2>3 DEF ProbeFalls
<1>4. CASE WriteFile /\ step' # "idle"
  <2>1. phase = "zip" /\ phase' = "image"
    BY <1>4 DEF WriteFile, EndWith
  <2>2. QED
    BY <2>1 DEF ProbeFalls, PhasesLeft
<1>5. CASE \/ step # "idle" /\ step' = "idle" /\ UNCHANGED phase
           \/ step = "cleanup" /\ step' = "write" /\ UNCHANGED phase
           \/ step \in Working /\ step' = "cleanup" /\ UNCHANGED phase
  <2>1. UNCHANGED PhasesLeft
    BY <1>5 DEF PhasesLeft
  <2>2. PartsLeft' < PartsLeft
    BY <1>5 DEF PartsLeft, Working
  <2>3. QED
    BY <2>1, <2>2 DEF ProbeFalls
<1>6. CASE /\ \/ step = "prepare" /\ step' = "stage"
              \/ step = "stage" /\ step' = "create"
              \/ step = "create" /\ step' \in {"wait", "unstage"}
              \/ step = "wait" /\ step' \in {"sample", "undo"}
              \/ step = "undo" /\ step' = "unstage"
              \/ step = "repo" /\ step' = "push"
              \/ step = "push" /\ step' = "size"
              \/ step = "size" /\ step' = "create"
           /\ UNCHANGED <<phase, unit>>
  <2>1. UNCHANGED <<PhasesLeft, PartsLeft, UnitsLeft>>
    BY <1>6 DEF PhasesLeft, PartsLeft, UnitsLeft
  <2>2. CallsLeft' < CallsLeft
    BY <1>6 DEF CallsLeft
  <2>3. QED
    BY <2>1, <2>2 DEF ProbeFalls
<1> USE DEF GoTo, Cleanup, EndWith
<1>7. CASE Prepare \/ StageZip \/ CreateFunction \/ AwaitReady \/ UndoCreate \/ Unstage
  <2>1. CASE Prepare
    BY <1>5, <1>6, <2>1 DEF Prepare
  <2>2. CASE StageZip
    BY <1>5, <1>6, <2>2 DEF StageZip, Working
  <2>3. CASE CreateFunction
    BY <1>5, <1>6, <2>3 DEF CreateFunction, AfterFailedCreate, Working
  <2>4. CASE AwaitReady
    BY <1>5, <1>6, <2>4 DEF AwaitReady, AfterFailedWait
  <2>5. CASE UndoCreate
    BY <1>5, <1>6, <2>5 DEF UndoCreate, AfterFailedCreate, Working
  <2>6. CASE Unstage
    BY <1>5, <1>6, <2>6 DEF Unstage, Working
  <2>7. QED
    BY <1>7, <2>1, <2>2, <2>3, <2>4, <2>5, <2>6
<1>8. CASE UnitGivenUp \/ (UnitSampled /\ ~(unit < Len(Plan)))
  BY <1>5, <1>8 DEF UnitGivenUp, UnitSampled, Working
<1>9. CASE CleanedUp \/ (WriteFile /\ step' = "idle") \/ Crash
  <2>1. CASE CleanedUp
    BY <1>5, <2>1 DEF CleanedUp
  <2>2. CASE WriteFile /\ step' = "idle"
    BY <1>5, <2>2 DEF WriteFile
  <2>3. CASE Crash
    BY <1>5, <2>3 DEF Crash
  <2>4. QED
    BY <1>9, <2>1, <2>2, <2>3
<1>10. CASE EnsureRepo \/ PushImage \/ ReadSize
  <2>1. CASE EnsureRepo
    BY <1>5, <1>6, <2>1 DEF EnsureRepo
  <2>2. CASE PushImage
    BY <1>5, <1>6, <2>2 DEF PushImage, Working
  <2>3. CASE ReadSize
    BY <1>5, <1>6, <2>3 DEF ReadSize, Working
  <2>4. QED
    BY <1>10, <2>1, <2>2, <2>3
<1>11. QED
  BY <1>1, <1>2, <1>3, <1>4, <1>7, <1>8, <1>9, <1>10 DEF ProbeStep

\* A sandbox that is retired and a teardown take nothing off and put nothing on.
LEMMA OtherSteps ==
  ASSUME SandboxRetired \/ Teardown \/ UNCHANGED vars
  PROVE  UNCHANGED <<probeLeft, seriesLeft>>
<1>1. UNCHANGED <<at, attempt, taken, force, sample, phase, step, unit, work>>
  BY DEF SandboxRetired, Retire, Teardown, vars, series, progress
<1>2. QED
  BY <1>1 DEF probeLeft, seriesLeft, Running, AttemptsLeft, SamplesLeft, ForcesToGo, InvokesLeft,
     PhasesLeft, PartsLeft, UnitsLeft, CallsLeft

\* A probe ends, whatever fails, whenever its sandboxes are retired and however many calls its
\* series repeat: each step it takes makes the tuple of what is left smaller, in the order of
\* tuples of naturals in which nothing falls for ever, and nothing but the next probe raises it
\* (the safety part of ProbeEnds).
THEOREM ProbeBounded ==
  Spec => /\ [](/\ probeLeft \in Nat \X Nat \X Nat \X Nat \X Nat
                /\ seriesLeft \in Nat \X Nat \X Nat \X Nat \X Nat)
          /\ [][IF ProbeStep \/ Crash THEN ProbeFalls
                ELSE probe' = probe + 1 \/ UNCHANGED <<probeLeft, seriesLeft>>]_vars
<1> DEFINE N == /\ probeLeft \in Nat \X Nat \X Nat \X Nat \X Nat
                /\ seriesLeft \in Nat \X Nat \X Nat \X Nat \X Nat
           A == IF ProbeStep \/ Crash THEN ProbeFalls
                ELSE probe' = probe + 1 \/ UNCHANGED <<probeLeft, seriesLeft>>
<1>1. Types /\ SeriesInv => N
  BY LeftNatural
<1>2. Types /\ SeriesInv /\ [Next]_vars => A
  <2> SUFFICES ASSUME Types, SeriesInv, [Next]_vars PROVE A
    OBVIOUS
  <2>1. CASE ProbeStep \/ Crash
    BY <2>1, ProbeStepFalls
  <2>2. CASE ~(ProbeStep \/ Crash)
    <3>1. StartProbe \/ SandboxRetired \/ Teardown \/ UNCHANGED vars
      BY <2>2 DEF Next
    <3>2. StartProbe => probe' = probe + 1
      BY DEF StartProbe
    <3>3. QED
      BY <2>2, <3>1, <3>2, OtherSteps
  <2>3. QED
    BY <2>1, <2>2
<1> HIDE DEF N, A
<1>3. Spec => []N /\ [][A]_vars
  BY <1>1, <1>2, TypesAlways, SeriesAlways, PTL DEF Spec
<1>4. QED
  BY <1>3 DEF N, A

=============================================================================
