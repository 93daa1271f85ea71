------------------------------ MODULE Scaling ------------------------------
(***************************************************************************)
(* The download-scaling probe (probe/synthetic.rs, probe/image.rs, and the *)
(* create functions of aws/lambda.rs) over one AWS account: for each       *)
(* family and size it stages a padded zip, creates a function from it and  *)
(* samples it; with --with-image it then pushes one padded image per size  *)
(* and does the same with two functions of each.  What it makes it records *)
(* and deletes at the end of either phase.  Probes run one after the       *)
(* other, under the same function names; `bencher teardown` runs between   *)
(* them.                                                                   *)
(*                                                                         *)
(* A call may fail, fail although it took effect, or be the last before    *)
(* the process dies.                                                       *)
(***************************************************************************)
EXTENDS ColdSeries, Integers, FiniteSets

CONSTANTS
  NumSizes,   \* how many padding sizes there are; size i is the i-th, ascending
  MaxProbes,  \* bound: probes
  MaxFaults   \* bound: calls that fail, and deaths of the process

ASSUME ScalingAssumption ==
  NumSizes \in Nat \ {0} /\ MaxProbes \in Nat /\ MaxFaults \in Nat

VARIABLES
  account,    \* what exists: named things, each with the probe that made it
  repo,       \* the ECR repository exists
  bucket,     \* the bucket exists and is hardened
  probe,      \* number of the running or last probe; the nonce of its tags
  withImage,  \* it measures the image family too
  phase,      \* the family it is at, "zip" or "image"
  step,       \* where it stands, "idle" if it has ended
  unit,       \* the unit it is at, in the plan of its phase
  ledger,     \* the functions and zips it has recorded in this phase, in order
  tags,       \* the image tags it has recorded, in order
  work,       \* what its cleanup still has to delete, in order
  failed,     \* it has met an error
  measured,   \* the functions it has sampled in this phase, in order
  files,      \* the results files: the functions they describe, <<>> if not written
  told,       \* things whose deletion it has warned about
  lost,       \* history: things it made by a call that was answered with an error
  last,       \* how the last command ended
  faults      \* how many faults have happened

outside == <<account, repo, bucket>>
recorded == <<ledger, tags>>
progress == <<unit, recorded, work, failed, measured>>
vars == <<series, outside, probe, withImage, phase, step, progress, files, told, lost, last, faults>>

-----------------------------------------------------------------------------
(* What there is to make.                                                  *)

Thing(kind, family, size) == [kind |-> kind, family |-> family, size |-> size, probe |-> probe]
Function(u) == Thing("function", u[1], u[2])
StagedZip(u) == Thing("zip", u[1], u[2])
Tag(u) == Thing("tag", "image", u[2])

\* The things that a call which names t is about: a tag's name has the probe's nonce,
\* the names of functions and of staged zips are the same in every probe.
Named(t) ==
  {x \in account : /\ x.kind = t.kind /\ x.family = t.family /\ x.size = t.size
                   /\ t.kind = "tag" => x.probe = t.probe}

\* One family after the other; within it, the sizes ascending.
ZipPlan ==
  [i \in 1 .. 2 * NumSizes |->
     IF i <= NumSizes THEN <<"python", i>> ELSE <<"rust", i - NumSizes>>]
\* The two functions of one image, then those of the next.
ImagePlan ==
  [i \in 1 .. 2 * NumSizes |->
     <<IF i % 2 = 1 THEN "image-untouched" ELSE "image-touched", (i + 1) \div 2>>]

Plan == IF phase = "zip" THEN ZipPlan ELSE ImagePlan
Current == Function(Plan[unit])
Staged == StagedZip(Plan[unit])
Pushed == Tag(Plan[unit])
Families == {"python", "rust", "image-untouched", "image-touched"}

NoFiles == [zip |-> <<>>, image |-> <<>>]

Init ==
  /\ SeriesInit
  /\ account = {} /\ repo = FALSE /\ bucket = FALSE
  /\ probe = 0 /\ withImage = FALSE /\ phase = "zip" /\ step = "idle"
  /\ unit = 1 /\ ledger = <<>> /\ tags = <<>> /\ work = <<>> /\ failed = FALSE /\ measured = <<>>
  /\ files = NoFiles /\ told = {} /\ lost = {} /\ last = "none" /\ faults = 0

-----------------------------------------------------------------------------
(* A call took effect or not, and is answered ok or with an error; one     *)
(* that the service refuses does nothing and costs no fault.               *)

Answers(accepted) ==
  IF accepted
  THEN {c \in [took : BOOLEAN, ok : BOOLEAN] : (c.ok => c.took) /\ (c.ok \/ faults < MaxFaults)}
  ELSE {[took |-> FALSE, ok |-> FALSE]}

Charge(c, accepted) == faults' = IF accepted /\ ~c.ok THEN faults + 1 ELSE faults

\* A call that makes thing t, in place of one of its name.
Made(t, c) == IF c.took THEN (account \ Named(t)) \cup {t} ELSE account
LostIf(t, c) == lost' = IF c.took /\ ~c.ok THEN lost \cup {t} ELSE lost

\* A best-effort deletion of what is named t: its failure is logged.
Deleted(t, c) == IF c.took THEN account \ Named(t) ELSE account
TellIf(t, c) == told' = IF c.ok THEN told ELSE told \cup Named(t)

\* The cleanup goes through what is recorded: an image's functions before its tags.
Cleanup == step' = "cleanup" /\ work' = ledger \o tags
GoTo(s) == step' = s /\ UNCHANGED work
EndWith(outcome) == step' = "idle" /\ work' = <<>> /\ last' = outcome

-----------------------------------------------------------------------------
(* One phase of a probe.                                                   *)

StartProbe ==
  /\ step = "idle" /\ probe < MaxProbes
  /\ probe' = probe + 1 /\ withImage' \in BOOLEAN
  /\ phase' = "zip" /\ step' = "prepare"
  /\ unit' = 1 /\ ledger' = <<>> /\ tags' = <<>> /\ work' = <<>> /\ failed' = FALSE /\ measured' = <<>>
  /\ files' = NoFiles /\ told' = {} /\ lost' = {} /\ last' = "none"
  /\ UNCHANGED <<series, outside, faults>>

\* ensure_role, ensure_bucket and read_rust_bootstrap: nothing is recorded yet.
Prepare ==
  /\ step = "prepare"
  /\ \E c \in Answers(TRUE) :
       /\ bucket' = (bucket \/ c.took) /\ Charge(c, TRUE)
       /\ IF c.ok THEN GoTo("stage") /\ UNCHANGED last ELSE EndWith("probeFailed")
  /\ UNCHANGED <<series, account, repo, probe, withImage, phase, unit, recorded, failed, measured,
                 files, told, lost>>

\* stage_code_in_s3.
StageZip ==
  /\ step = "stage"
  /\ \E c \in Answers(TRUE) :
       /\ account' = Made(Staged, c) /\ LostIf(Staged, c) /\ Charge(c, TRUE)
       /\ failed' = ~c.ok
       /\ IF c.ok THEN GoTo("create") ELSE Cleanup
  /\ UNCHANGED <<series, repo, bucket, probe, withImage, phase, unit, recorded, measured, files,
                 told, last>>

\* Faulty: a function of that name will do.
CreatedOrThere(c) == c.ok \/ Named(Current) # {}

Created(c) == c.ok

\* What follows a create that failed: a zip is deleted, an image's tag is recorded.
AfterFailedCreate == IF phase = "zip" THEN GoTo("unstage") ELSE Cleanup

\* CreateFunction, once the role has propagated; a name that is taken is refused.
CreateFunction ==
  /\ step = "create"
  /\ LET accepted == Named(Current) = {} IN
     \E c \in Answers(accepted) :
       /\ account' = Made(Current, c) /\ LostIf(Current, c) /\ Charge(c, accepted)
       /\ failed' = ~Created(c)
       /\ IF Created(c) THEN GoTo("wait") ELSE AfterFailedCreate
  /\ UNCHANGED <<series, repo, bucket, probe, withImage, phase, unit, recorded, measured, files,
                 told, last>>

\* What the caller records once the function is ready.
Recorded == <<Current>> \o IF phase = "zip" THEN <<Staged>> ELSE <<>>

\* A function that does not become ready is deleted before the error is returned.
AfterFailedWait == GoTo("undo")

\* wait_ready: a poll fails, or the function does, or the polls run out.
AwaitReady ==
  /\ step = "wait"
  /\ \E ok \in BOOLEAN :
       /\ ok \/ faults < MaxFaults
       /\ faults' = (IF ok THEN faults ELSE faults + 1) /\ failed' = ~ok
       /\ IF ok THEN GoTo("sample") /\ ledger' = ledger \o Recorded /\ Begin
                ELSE AfterFailedWait /\ UNCHANGED <<ledger, series>>
  /\ UNCHANGED <<outside, probe, withImage, phase, unit, tags, measured, files, told, lost, last>>

UndoCreate ==
  /\ step = "undo"
  /\ \E c \in Answers(TRUE) :
       /\ account' = Deleted(Current, c) /\ TellIf(Current, c) /\ Charge(c, TRUE)
  /\ AfterFailedCreate
  /\ UNCHANGED <<series, repo, bucket, probe, withImage, phase, unit, recorded, failed, measured,
                 files, lost, last>>

\* cleanup_staged_zip.
Unstage ==
  /\ step = "unstage"
  /\ \E c \in Answers(TRUE) :
       /\ account' = Deleted(Staged, c) /\ TellIf(Staged, c) /\ Charge(c, TRUE)
  /\ Cleanup
  /\ UNCHANGED <<series, repo, bucket, probe, withImage, phase, unit, recorded, failed, measured,
                 files, lost, last>>

\* Each call of the series, and its retries (ColdSeries).
SampleStep ==
  /\ step = "sample" /\ Sampling
  /\ UNCHANGED <<outside, probe, withImage, phase, step, progress, files, told, lost, last, faults>>

SandboxRetired ==
  /\ step = "sample" /\ Retire
  /\ UNCHANGED <<outside, probe, withImage, phase, step, progress, files, told, lost, last, faults>>

\* What the next unit starts with; an image serves two of them.
NextUnit == IF phase = "zip" THEN "stage" ELSE IF unit % 2 = 1 THEN "create" ELSE "push"

UnitSampled ==
  /\ step = "sample" /\ Sampled /\ Clear
  /\ \E f \in Named(Current) : measured' = Append(measured, f)
  /\ IF unit < Len(Plan) THEN GoTo(NextUnit) /\ unit' = unit + 1
                         ELSE Cleanup /\ UNCHANGED unit
  /\ UNCHANGED <<outside, probe, withImage, phase, recorded, failed, files, told, lost, last, faults>>

UnitGivenUp ==
  /\ step = "sample" /\ result = "failed" /\ Clear
  /\ failed' = TRUE /\ Cleanup
  /\ UNCHANGED <<outside, probe, withImage, phase, unit, recorded, measured, files, told, lost, last,
                 faults>>

\* teardown_synthetic, teardown_synthetic_images.
CleanUp ==
  /\ step = "cleanup" /\ work # <<>>
  /\ \E c \in Answers(TRUE) :
       /\ account' = Deleted(Head(work), c) /\ TellIf(Head(work), c) /\ Charge(c, TRUE)
  /\ work' = Tail(work)
  /\ UNCHANGED <<series, repo, bucket, probe, withImage, phase, step, unit, recorded, failed,
                 measured, files, lost, last>>

\* Faulty: the error is not looked at again after the cleanup.
Unchecked == TRUE

\* `result?`, after the cleanup.
Succeeded == ~failed

CleanedUp ==
  /\ step = "cleanup" /\ work = <<>>
  /\ IF Succeeded THEN GoTo("write") /\ UNCHANGED last ELSE EndWith("probeFailed")
  /\ UNCHANGED <<series, outside, probe, withImage, phase, unit, recorded, failed, measured, files, told,
                 lost, faults>>

\* write_json; the image phase begins with ledgers of its own.
WriteFile ==
  /\ step = "write"
  /\ \/ /\ files' = [files EXCEPT ![phase] = measured]
        /\ IF phase = "zip" /\ withImage
           THEN /\ phase' = "image" /\ GoTo("repo") /\ unit' = 1
                /\ ledger' = <<>> /\ tags' = <<>> /\ measured' = <<>> /\ UNCHANGED last
           ELSE EndWith("probed") /\ UNCHANGED <<phase, unit, recorded, measured>>
        /\ UNCHANGED faults
     \/ /\ faults < MaxFaults /\ faults' = faults + 1
        /\ EndWith("probeFailed") /\ UNCHANGED <<files, phase, unit, recorded, measured>>
  /\ UNCHANGED <<series, outside, probe, withImage, failed, told, lost>>

-----------------------------------------------------------------------------
(* The image phase's own calls.                                            *)

\* ensure_ecr_repo and crane_ecr_login.
EnsureRepo ==
  /\ step = "repo"
  /\ \E c \in Answers(TRUE) :
       /\ repo' = (repo \/ c.took) /\ Charge(c, TRUE)
       /\ IF c.ok THEN GoTo("push") /\ UNCHANGED last ELSE EndWith("probeFailed")
  /\ UNCHANGED <<series, account, bucket, probe, withImage, phase, unit, recorded, failed, measured,
                 files, told, lost>>

\* Faulty: a tag is recorded by the caller, together with its size.
TagWithSize(when) == when = "size"

\* A tag is recorded as soon as it is pushed.
TagRecorded(when) == when = "push"

\* crane mutate, under a tag of this probe's own.
PushImage ==
  /\ step = "push"
  /\ \E c \in Answers(TRUE) :
       /\ account' = Made(Pushed, c) /\ LostIf(Pushed, c) /\ Charge(c, TRUE)
       /\ failed' = ~c.ok
       /\ tags' = IF c.ok /\ TagRecorded("push") THEN Append(tags, Pushed) ELSE tags
       /\ IF c.ok THEN GoTo("size") ELSE Cleanup
  /\ UNCHANGED <<series, repo, bucket, probe, withImage, phase, unit, ledger, measured, files,
                 told, last>>

\* ecr_image_size.
ReadSize ==
  /\ step = "size"
  /\ \E c \in Answers(TRUE) :
       /\ Charge(c, TRUE) /\ failed' = ~c.ok
       /\ tags' = IF c.ok /\ TagRecorded("size") THEN Append(tags, Pushed) ELSE tags
       /\ IF c.ok THEN GoTo("create") ELSE Cleanup
  /\ UNCHANGED <<series, outside, probe, withImage, phase, unit, ledger, measured, files, told, lost,
                 last>>

-----------------------------------------------------------------------------
(* Crashes, and `bencher teardown`.                                        *)

Crash ==
  /\ step # "idle" /\ faults < MaxFaults /\ faults' = faults + 1
  /\ Clear /\ EndWith("crashed")
  /\ UNCHANGED <<outside, probe, withImage, phase, unit, recorded, failed, measured, files, told, lost>>

\* Faulty: the image family's names are not enumerated.
ZipFamiliesOnly == {"python", "rust"}

\* The families whose names all_managed_function_names enumerates, at every size.
EnumeratedFamilies == Families

\* What teardown deletes: the functions it can name, every object of the bucket, and the
\* repository with its images.
Reachable == {x \in account : x.kind = "function" => x.family \in EnumeratedFamilies}

\* Teardown as a whole (Provisioning has its calls): what it could not delete it reports.
Teardown ==
  /\ step = "idle" /\ (account # {} \/ repo \/ bucket)
  /\ \/ account' = account \ Reachable /\ repo' = FALSE /\ bucket' = FALSE /\ last' = "tornDown"
        /\ UNCHANGED faults
     \/ /\ faults < MaxFaults /\ faults' = faults + 1 /\ last' = "tornDownPartly"
        /\ \E kept \in SUBSET Reachable : account' = (account \ Reachable) \cup kept
        /\ UNCHANGED <<repo, bucket>>
  /\ UNCHANGED <<series, probe, withImage, phase, step, progress, files, told, lost>>

ProbeStep ==
  \/ Prepare \/ StageZip \/ CreateFunction \/ AwaitReady \/ UndoCreate \/ Unstage
  \/ SampleStep \/ UnitSampled \/ UnitGivenUp
  \/ CleanUp \/ CleanedUp \/ WriteFile
  \/ EnsureRepo \/ PushImage \/ ReadSize

Next == StartProbe \/ ProbeStep \/ SandboxRetired \/ Crash \/ Teardown

\* A running probe takes its next step.
Spec == Init /\ [][Next]_vars /\ WF_vars(ProbeStep)

-----------------------------------------------------------------------------
(* Properties.                                                             *)

Ended == step = "idle" /\ last \in {"probed", "probeFailed"}

\* Whatever fails, and at whichever unit of either family: what a probe made is gone when
\* it ends, unless it has warned of it, or was never told that it exists.
NothingForgotten ==
  Ended => \A x \in account : x.probe = probe => x \in told \cup lost

\* A probe samples what it deployed itself, never a function that an earlier probe of the
\* same fixed names left behind.
SamplesItsOwn == step = "sample" => \A f \in Named(Current) : f.probe = probe

Complete(file, plan) == file = [i \in DOMAIN plan |-> Function(plan[i])]

\* A results file describes every function of its family, each sampled in this probe;
\* an image file never stands without the zip file of the same session; and a probe that
\* succeeds has written all that was asked for.
FilesComplete ==
  /\ files.zip # <<>> => Complete(files.zip, ZipPlan)
  /\ files.image # <<>> => Complete(files.image, ImagePlan) /\ files.zip # <<>>
  /\ last = "probed" => files.zip # <<>> /\ (withImage => files.image # <<>>)

\* A teardown that reports success leaves nothing of any probe before it, killed ones
\* and answers that were lost included: every name a probe can create is enumerated.
TeardownReclaims == last = "tornDown" => account = {} /\ ~repo /\ ~bucket

\* A probe comes to its end, through its retries and its cleanup.
ProbeEnds == step # "idle" ~> step = "idle"
=============================================================================
