---------------------------- MODULE SitePublish ----------------------------
(***************************************************************************)
(* The benchmark task (deploy/run-benchmark.sh): it runs the matrix,       *)
(* archives the dataset, probes, archives what the probes wrote, builds    *)
(* the site from it and publishes it; deploy/site-assets.py keeps the      *)
(* assets of the last Keep builds and deletes the others.  On its way out, *)
(* however it gets there, the task tears the benchmark's resources down.   *)
(*                                                                         *)
(* Tasks run one after the other.  A command of the script may fail, after *)
(* part of its effects or all of them, which ends the script (set -e)      *)
(* unless it says otherwise; the container may die at any time.            *)
(***************************************************************************)
EXTENDS Naturals, FiniteSets

CONSTANTS
  Assets,    \* content-hashed assets of the site
  Keep,      \* KEEP_BUILDS
  MaxTasks   \* bound: tasks

ASSUME PublishAssumption == Keep \in Nat \ {0} /\ MaxTasks \in Nat

VARIABLES
  task,           \* number of the running or last task, and its time
  step,           \* where its script stands, "idle" before and after it
  keepResources,  \* KEEP_RESOURCES is set
  code,           \* the exit code the script is heading for
  ended,          \* how the last task ended: "none", "succeeded", "failed" or "killed"
  matrix,         \* the benchmark's resources exist
  results,        \* what its results directory holds
  archived,       \* what of it is in the archive bucket
  build,          \* the assets of its build of the site
  assets,         \* the assets in the site bucket
  manifests,      \* the manifests there, each with its time and what it lists
  live,           \* the builds that the pages in the bucket are of
  stale           \* the assets that prune is to delete

ran == <<results, archived, build>>
site == <<assets, manifests, live>>
vars == <<task, step, keepResources, code, ended, matrix, ran, site, stale>>

Inputs == {"run", "start", "zip", "image"}

\* The newest Keep manifests.
Kept(ms) == {m \in ms : Cardinality({n \in ms : n.time > m.time}) < Keep}
Listed(ms) == UNION {m.listed : m \in ms}
Manifest == [time |-> task, listed |-> build]

Init ==
  /\ task = 0 /\ step = "idle" /\ keepResources = FALSE /\ code = 0 /\ ended = "none"
  /\ matrix = FALSE /\ results = {} /\ archived = {} /\ build = {}
  /\ assets = {} /\ manifests = {} /\ live = {} /\ stale = {}

GoTo(s) == step' = s /\ UNCHANGED <<code, ended>>

\* set -e, once the trap is armed.
Abort == step' = "teardown" /\ code' = 1 /\ UNCHANGED ended

Exit(c) ==
  /\ step' = "idle" /\ code' = c
  /\ ended' = IF c = 0 THEN "succeeded" ELSE "failed"

-----------------------------------------------------------------------------
(* The pipeline.                                                           *)

\* The container starts without results, and with nothing built.
StartTask ==
  /\ step = "idle" /\ task < MaxTasks
  /\ task' = task + 1 /\ step' = "doctor" /\ keepResources' \in BOOLEAN
  /\ code' = 0 /\ ended' = "none" /\ results' = {} /\ archived' = {} /\ build' = {} /\ stale' = {}
  /\ UNCHANGED <<matrix, site>>

\* The trap is not armed yet.
Doctor ==
  /\ step = "doctor"
  /\ GoTo("run") \/ Exit(1)
  /\ UNCHANGED <<task, keepResources, matrix, ran, site, stale>>

MatrixRun ==
  /\ step = "run"
  /\ \/ GoTo("archive") /\ matrix' = TRUE /\ results' = {"run"}
     \/ Abort /\ matrix' \in {matrix, TRUE} /\ UNCHANGED results
  /\ UNCHANGED <<task, keepResources, archived, build, site, stale>>

ArchiveRun ==
  /\ step = "archive"
  /\ \/ GoTo("probe") /\ archived' = results
     \/ Abort /\ archived' \in {archived, results}
  /\ UNCHANGED <<task, keepResources, matrix, results, build, site, stale>>

\* Both probes; a failure is only logged.  An image file comes with its zip baseline
\* (Scaling).
Probes ==
  /\ step = "probe" /\ GoTo("archiveProbes")
  /\ \E made \in SUBSET {"start", "zip", "image"} :
       /\ "image" \in made => "zip" \in made
       /\ results' = results \cup made
  /\ UNCHANGED <<task, keepResources, matrix, archived, build, site, stale>>

\* Faulty: a failed copy is only logged, like a failed probe.
OnlyLogged == GoTo("build")

\* What a failed archive of the probes' files leads to.
Unarchived == Abort

ArchiveProbes ==
  /\ step = "archiveProbes"
  /\ \/ GoTo("build") /\ archived' = archived \cup results
     \/ Unarchived /\ \E part \in SUBSET results : archived' = archived \cup part
  /\ UNCHANGED <<task, keepResources, matrix, results, build, site, stale>>

\* npm run build: the loaders throw if an input is missing.
BuildSite ==
  /\ step = "build"
  /\ \/ results = Inputs /\ GoTo("upload") /\ build' \in (SUBSET Assets) \ {{}}
     \/ Abort /\ UNCHANGED build
  /\ UNCHANGED <<task, keepResources, matrix, results, archived, site, stale>>

-----------------------------------------------------------------------------
(* The publish.                                                            *)

\* Faulty: the sync of the assets deletes what is not in the build.
SyncedExactly(there, new) == new

\* The first sync has no --delete.
Synced(there, new) == there \cup new

UploadAssets ==
  /\ step = "upload"
  /\ \/ GoTo("record") /\ assets' = Synced(assets, build)
     \/ Abort /\ \E part \in SUBSET build : assets' = assets \cup part
  /\ UNCHANGED <<task, keepResources, matrix, ran, manifests, live, stale>>

\* record.
Record ==
  /\ step = "record"
  /\ \/ GoTo("pages") /\ manifests' = manifests \cup {Manifest}
     \/ Abort /\ manifests' \in {manifests, manifests \cup {Manifest}}
  /\ UNCHANGED <<task, keepResources, matrix, ran, assets, live, stale>>

\* The second sync, with --delete, of everything that is not hashed.
SyncPages ==
  /\ step = "pages"
  /\ \/ GoTo("invalidate") /\ live' = {build}
     \/ Abort /\ live' \in {live, live \cup {build}, {build}}
  /\ UNCHANGED <<task, keepResources, matrix, ran, assets, manifests, stale>>

Invalidate ==
  /\ step = "invalidate"
  /\ GoTo("prune") \/ Abort
  /\ UNCHANGED <<task, keepResources, matrix, ran, site, stale>>

\* The first half of prune: what no kept manifest lists, nor the local build.
FindStale ==
  /\ step = "prune"
  /\ \/ IF Cardinality(manifests) < Keep
        THEN GoTo("teardown") /\ UNCHANGED stale
        ELSE GoTo("delete") /\ stale' = assets \ (build \cup Listed(Kept(manifests)))
     \/ Abort /\ UNCHANGED stale
  /\ UNCHANGED <<task, keepResources, matrix, ran, site>>

\* delete_keys, of the stale assets and the expired manifests; it may delete only some.
DeleteStale ==
  /\ step = "delete"
  /\ \/ GoTo("teardown") /\ assets' = assets \ stale /\ manifests' = Kept(manifests)
     \/ /\ Abort
        /\ \E left \in SUBSET stale : assets' = (assets \ stale) \cup left
        /\ \E left \in SUBSET (manifests \ Kept(manifests)) : manifests' = Kept(manifests) \cup left
  /\ UNCHANGED <<task, keepResources, matrix, ran, live, stale>>

\* teardown_on_exit.
TeardownOnExit ==
  /\ step = "teardown"
  /\ \/ keepResources /\ Exit(code) /\ UNCHANGED matrix
     \/ ~keepResources /\ Exit(code) /\ matrix' = FALSE
     \/ ~keepResources /\ Exit(1) /\ matrix' \in {matrix, FALSE}
  /\ UNCHANGED <<task, keepResources, ran, site, stale>>

\* The container dies: no trap runs.
Die ==
  /\ step # "idle" /\ step' = "idle" /\ ended' = "killed"
  /\ UNCHANGED <<task, keepResources, code, matrix, ran, site, stale>>

Next ==
  \/ StartTask \/ Doctor
  \/ MatrixRun \/ ArchiveRun \/ Probes \/ ArchiveProbes
  \/ BuildSite \/ UploadAssets \/ Record \/ SyncPages \/ Invalidate
  \/ FindStale \/ DeleteStale
  \/ TeardownOnExit \/ Die

Spec == Init /\ [][Next]_vars

-----------------------------------------------------------------------------
(* Properties.                                                             *)

\* At every moment, in the middle of a publish and after one that failed anywhere, the
\* pages in the bucket find their assets (the order of the two syncs and the prune).
LiveServed == \A b \in live : b \subseteq assets

\* So do the pages of each of the newest Keep recorded builds, which visitors may still
\* hold: what no kept manifest lists is all that is deleted (deploy/README.md:215-219).
KeptBuildsServed == Listed(Kept(manifests)) \subseteq assets

\* And nothing else stays for ever: after a task that succeeds the bucket holds what
\* the kept builds need, once there are Keep of them, whatever failed before it.
NothingStale ==
  ended = "succeeded" /\ Cardinality(manifests) >= Keep =>
    assets = Listed(Kept(manifests)) /\ manifests = Kept(manifests)

SiteSound == LiveServed /\ KeptBuildsServed /\ NothingStale

\* Whatever the site shows of a task, the data behind it is archived; and a task that
\* exits with 0 has put all its pages live and left no resources, unless told to.
TaskTruthful ==
  /\ (\E m \in manifests : m.time = task) => archived = Inputs
  /\ ended = "succeeded" => live = {build} /\ archived = Inputs /\ (keepResources \/ ~matrix)
=============================================================================
