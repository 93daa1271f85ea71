------------------------ MODULE SitePublish_proofs ------------------------
(***************************************************************************)
(* Proofs about SitePublish: for every set of assets, every Keep and any   *)
(* number of tasks that fail anywhere, the site bucket serves what it      *)
(* should and a task tells the truth.                                      *)
(***************************************************************************)
EXTENDS SitePublish, FiniteSetTheorems, WellFoundedInduction, TLAPS

-----------------------------------------------------------------------------
(* The newest Keep manifests.                                              *)

Newer(ms, m) == {n \in ms : n.time > m.time}
Times(ms, b) == \A m \in ms : m.time \in 0 .. b

\* A set of naturals has a smallest.
LEMMA Smallest ==
  ASSUME NEW T, T \subseteq Nat, T # {}
  PROVE \E x \in T : \A y \in T : x <= y
<1>1. PICK x \in T : \A y \in T : ~(<<y, x>> \in OpToRel(<, Nat))
  BY NatLessThanWellFounded, WFMin
<1>2. \A y \in T : ~(y < x)
  BY <1>1 DEF OpToRel
<1>3. QED
  BY <1>2

LEMMA FewerNewer ==
  ASSUME NEW ms, NEW ns, IsFiniteSet(ms), ns \subseteq ms, NEW m
  PROVE /\ Cardinality(Newer(ns, m)) <= Cardinality(Newer(ms, m))
        /\ Cardinality(Newer(ns, m)) \in Nat /\ Cardinality(Newer(ms, m)) \in Nat
<1>1. Newer(ns, m) \subseteq Newer(ms, m) /\ Newer(ms, m) \subseteq ms
  BY DEF Newer
<1>2. IsFiniteSet(Newer(ms, m))
  BY <1>1, FS_Subset
<1>3. QED
  BY <1>1, <1>2, FS_Subset, FS_CardinalityType

\* A manifest more expires others, and no other is kept for it.
LEMMA KeptAfterMore ==
  ASSUME NEW ms, IsFiniteSet(ms), NEW x
  PROVE Kept(ms \cup {x}) \subseteq Kept(ms) \cup {x}
<1>1. IsFiniteSet(ms \cup {x})
  BY FS_AddElement
<1>2. ASSUME NEW m \in ms, Cardinality(Newer(ms \cup {x}, m)) < Keep
      PROVE Cardinality(Newer(ms, m)) < Keep
  BY <1>1, <1>2, FewerNewer, PublishAssumption
<1>3. QED
  BY <1>2 DEF Kept, Newer

\* Deleting others than the kept manifests keeps the same.
LEMMA KeptAfterLess ==
  ASSUME NEW ms, IsFiniteSet(ms), NEW b \in Nat, Times(ms, b),
         NEW ns, Kept(ms) \subseteq ns, ns \subseteq ms
  PROVE Kept(ns) = Kept(ms)
<1>1. Kept(ms) \subseteq Kept(ns)
  <2>1. ASSUME NEW m \in Kept(ms)
        PROVE m \in ns /\ Cardinality(Newer(ns, m)) < Keep
    <3>1. Cardinality(Newer(ms, m)) < Keep
      BY <2>1 DEF Kept, Newer
    <3>2. QED
      BY <3>1, FewerNewer, PublishAssumption
  <2>2. QED
    BY <2>1 DEF Kept, Newer
<1>2. ASSUME NEW m \in ms \ Kept(ms)
      PROVE ~(Cardinality(Newer(ns, m)) < Keep)
  <2>1. PICK x \in ms \ Kept(ms) : \A n \in ms \ Kept(ms) : n.time <= x.time
    <3> DEFINE T == {b - n.time : n \in ms \ Kept(ms)}
    <3>1. T \subseteq Nat /\ T # {}
      BY <1>2 DEF Times
    <3>2. PICK t \in T : \A u \in T : t <= u
      BY <3>1, Smallest
    <3>3. PICK x \in ms \ Kept(ms) : t = b - x.time
      OBVIOUS
    <3>4. ASSUME NEW n \in ms \ Kept(ms)
          PROVE n.time <= x.time
      <4>1. b - n.time \in T
        OBVIOUS
      <4>2. b - x.time <= b - n.time
        BY <3>2, <3>3, <4>1
      <4>3. QED
        BY <4>2 DEF Times
    <3>5. QED
      BY <3>4
  <2>2. Newer(ms, x) \subseteq Kept(ms)
    BY <2>1 DEF Newer, Times
  <2>3. Newer(ms, x) \subseteq Newer(ns, m)
    BY <1>2, <2>1, <2>2 DEF Newer, Times
  <2>4. ~(Cardinality(Newer(ms, x)) < Keep)
    BY <2>1 DEF Kept, Newer
  <2>5. IsFiniteSet(ns) /\ IsFiniteSet(Newer(ns, m)) /\ IsFiniteSet(Newer(ms, x))
    <3>1. IsFiniteSet(ns)
      BY FS_Subset
    <3>2. Newer(ns, m) \subseteq ns /\ Newer(ms, x) \subseteq ms
      BY DEF Newer
    <3>3. QED
      BY <3>1, <3>2, FS_Subset
  <2>6. Cardinality(Newer(ms, x)) <= Cardinality(Newer(ns, m))
    BY <2>3, <2>5, FS_Subset
  <2>7. QED
    BY <2>4, <2>5, <2>6, FS_CardinalityType, PublishAssumption
<1>3. QED
  BY <1>1, <1>2 DEF Kept, Newer

-----------------------------------------------------------------------------
(* The inductive invariant.                                                *)

Publishing == {"record", "pages", "invalidate", "prune", "delete"}
Steps == {"idle", "doctor", "run", "archive", "probe", "archiveProbes", "build", "upload",
          "teardown"} \cup Publishing

Types ==
  /\ task \in Nat /\ step \in Steps
  /\ IsFiniteSet(manifests) /\ Times(manifests, task)
  /\ step # "idle" => ended = "none"

\* What has been published of the present task, step by step.
Progress ==
  /\ step \notin {"idle", "teardown"} \cup Publishing => \A m \in manifests : m.time # task
  /\ step = "record" => \A m \in manifests : m.time # task
  /\ step \in Publishing => build \subseteq assets
  /\ step \in Publishing \ {"record"} => Manifest \in manifests
  /\ step \in {"invalidate", "prune", "delete"} => live = {build}
  /\ step = "delete" => stale = assets \ (build \cup Listed(Kept(manifests)))

\* What is archived at each step.
Archived ==
  /\ step \in {"probe", "archiveProbes"} => archived \subseteq results
  /\ step = "build" => archived = results
  /\ step \in {"upload"} \cup Publishing => archived = Inputs
  /\ (\E m \in manifests : m.time = task) => archived = Inputs

\* What a script that heads for exit code 0 has achieved.
Achieved ==
  /\ live = {build} /\ archived = Inputs
  /\ Cardinality(manifests) >= Keep =>
       assets = Listed(Kept(manifests)) /\ manifests = Kept(manifests)

Heading ==
  /\ step = "teardown" /\ code = 0 => Achieved
  /\ ended = "succeeded" => Achieved /\ (keepResources \/ matrix = FALSE)

IInv == Types /\ LiveServed /\ KeptBuildsServed /\ Progress /\ Archived /\ Heading

LEMMA InitIInv == Init => IInv
<1> SUFFICES ASSUME Init PROVE IInv
  OBVIOUS
<1>1. Types
  BY FS_EmptySet DEF Init, Types, Steps, Times
<1>2. Kept(manifests) = {}
  BY DEF Init, Kept
<1>3. QED
  BY <1>1, <1>2
  DEF Init, IInv, LiveServed, KeptBuildsServed, Listed, Progress, Publishing, Archived, Heading

\* The manifest of this task is the newest.
LEMMA NewestKept ==
  ASSUME Types, Manifest \in manifests
  PROVE Manifest \in Kept(manifests)
<1>1. Newer(manifests, Manifest) = {}
  BY DEF Newer, Types, Times, Manifest
<1>2. Cardinality(Newer(manifests, Manifest)) < Keep
  BY <1>1, FS_EmptySet, PublishAssumption
<1>3. QED
  BY <1>2 DEF Kept, Newer

\* What delete_keys deletes is never a kept manifest.
LEMMA DeletionKeepsKept ==
  ASSUME Types, DeleteStale
  PROVE Kept(manifests') = Kept(manifests)
<1>1. Kept(manifests) \subseteq manifests' /\ manifests' \subseteq manifests
  BY DEF DeleteStale, Kept
<1>2. QED
  BY <1>1, KeptAfterLess DEF Types

LEMMA TypesKept ==
  ASSUME Types, [Next]_vars
  PROVE Types'
<1> USE DEF ran, site
<1>1. ASSUME UNCHANGED <<task, manifests>>, step' \in Steps, step' # "idle" => ended' = "none"
      PROVE Types'
  BY <1>1 DEF Types
<1>2. CASE UNCHANGED vars
  BY <1>1, <1>2 DEF vars, Types
<1>3. CASE StartTask
  BY <1>3 DEF StartTask, Types, Times, Steps
<1>4. CASE Doctor \/ MatrixRun \/ ArchiveRun \/ Probes \/ ArchiveProbes \/ BuildSite
  BY <1>1, <1>4
  DEF Doctor, MatrixRun, ArchiveRun, Probes, ArchiveProbes, Unarchived, BuildSite, GoTo, Abort,
      Exit, Types, Steps
<1>5. CASE UploadAssets \/ SyncPages \/ Invalidate \/ FindStale
  BY <1>1, <1>5
  DEF UploadAssets, SyncPages, Invalidate, FindStale, GoTo, Abort, Types, Steps, Publishing
<1>6. CASE TeardownOnExit \/ Die
  BY <1>1, <1>6 DEF TeardownOnExit, Die, Exit, Types, Steps
<1>7. CASE Record
  <2>1. manifests' \in {manifests, manifests \cup {Manifest}}
    BY <1>7 DEF Record
  <2>2. IsFiniteSet(manifests')
    BY <2>1, FS_AddElement DEF Types
  <2>3. Times(manifests', task)
    BY <2>1 DEF Types, Times, Manifest
  <2>4. QED
    BY <1>7, <2>2, <2>3 DEF Record, GoTo, Abort, Types, Steps, Publishing
<1>8. CASE DeleteStale
  <2>1. manifests' \subseteq manifests
    BY <1>8 DEF DeleteStale, Kept
  <2>2. IsFiniteSet(manifests') /\ Times(manifests', task)
    BY <2>1, FS_Subset DEF Types, Times
  <2>3. QED
    BY <1>8, <2>2 DEF DeleteStale, GoTo, Abort, Types, Steps, Publishing
<1>9. QED
  BY <1>2, <1>3, <1>4, <1>5, <1>6, <1>7, <1>8 DEF Next

\* The assets that the live and the kept builds need stay.
LEMMA ServedKept ==
  ASSUME IInv, [Next]_vars
  PROVE LiveServed' /\ KeptBuildsServed'
<1> USE DEF ran, site, IInv
<1>1. ASSUME UNCHANGED <<manifests, live>>, assets \subseteq assets'
      PROVE LiveServed' /\ KeptBuildsServed'
  BY <1>1 DEF LiveServed, KeptBuildsServed, Listed, Kept
<1>2. CASE UNCHANGED vars
  BY <1>1, <1>2 DEF vars
<1>3. CASE StartTask \/ Doctor \/ MatrixRun \/ ArchiveRun \/ Probes \/ ArchiveProbes \/ BuildSite
  BY <1>1, <1>3
  DEF StartTask, Doctor, MatrixRun, ArchiveRun, Probes, ArchiveProbes, BuildSite
<1>4. CASE UploadAssets
  BY <1>1, <1>4 DEF UploadAssets, Synced
<1>5. CASE Invalidate \/ FindStale \/ TeardownOnExit \/ Die
  BY <1>1, <1>5 DEF Invalidate, FindStale, TeardownOnExit, Die
<1>6. CASE Record
  <2>1. manifests' \in {manifests, manifests \cup {Manifest}} /\ UNCHANGED <<assets, live>>
    BY <1>6 DEF Record
  <2>2. build \subseteq assets
    BY <1>6 DEF Record, Progress, Publishing
  <2>3. Kept(manifests') \subseteq Kept(manifests) \cup {Manifest}
    BY <2>1, KeptAfterMore DEF Types
  <2>4. QED
    BY <2>1, <2>2, <2>3 DEF LiveServed, KeptBuildsServed, Listed, Manifest
<1>7. CASE SyncPages
  <2>1. build \subseteq assets
    BY <1>7 DEF SyncPages, Progress, Publishing
  <2>2. QED
    BY <1>7, <2>1 DEF SyncPages, LiveServed, KeptBuildsServed, Listed, Kept
<1>8. CASE DeleteStale
  <2>1. live = {build} /\ build \subseteq assets /\ UNCHANGED <<live, build>>
    BY <1>8 DEF DeleteStale, Progress, Publishing
  <2>2. stale = assets \ (build \cup Listed(Kept(manifests)))
    BY <1>8 DEF DeleteStale, Progress
  <2>3. assets \ stale \subseteq assets'
    BY <1>8 DEF DeleteStale
  <2>4. Kept(manifests') = Kept(manifests)
    BY <1>8, DeletionKeepsKept
  <2>5. LiveServed'
    BY <2>1, <2>2, <2>3 DEF LiveServed
  <2>6. Listed(Kept(manifests')) \subseteq assets'
    BY <2>2, <2>3, <2>4 DEF KeptBuildsServed
  <2>7. QED
    BY <2>5, <2>6 DEF KeptBuildsServed
<1>9. QED
  BY <1>2, <1>3, <1>4, <1>5, <1>6, <1>7, <1>8 DEF Next

LEMMA ProgressKept ==
  ASSUME IInv, [Next]_vars
  PROVE Progress'
<1> USE DEF ran, site, IInv, Progress, Publishing
<1>1. CASE UNCHANGED vars
  BY <1>1 DEF vars, Manifest, Listed, Kept
<1>2. CASE StartTask
  BY <1>2 DEF StartTask, Types, Times
<1>3. CASE Doctor \/ MatrixRun \/ ArchiveRun \/ Probes \/ ArchiveProbes \/ BuildSite
  BY <1>3
  DEF Doctor, MatrixRun, ArchiveRun, Probes, ArchiveProbes, Unarchived, BuildSite, GoTo, Abort,
      Exit
<1>4. CASE UploadAssets
  BY <1>4 DEF UploadAssets, Synced, GoTo, Abort
<1>5. CASE Record
  BY <1>5 DEF Record, GoTo, Abort, Manifest
<1>6. CASE SyncPages \/ Invalidate
  BY <1>6 DEF SyncPages, Invalidate, GoTo, Abort, Manifest
<1>7. CASE FindStale
  BY <1>7 DEF FindStale, GoTo, Abort, Manifest, Listed, Kept
<1>8. CASE DeleteStale \/ TeardownOnExit \/ Die
  BY <1>8 DEF DeleteStale, TeardownOnExit, Die, GoTo, Abort, Exit
<1>9. QED
  BY <1>1, <1>2, <1>3, <1>4, <1>5, <1>6, <1>7, <1>8 DEF Next

LEMMA ArchivedKept ==
  ASSUME IInv, [Next]_vars
  PROVE Archived'
<1> USE DEF ran, site, IInv, Archived, Publishing
<1>1. CASE UNCHANGED vars
  BY <1>1 DEF vars
<1>2. CASE StartTask
  BY <1>2 DEF StartTask, Types, Times
<1>3. CASE Doctor \/ MatrixRun \/ ArchiveRun \/ Probes \/ BuildSite
  BY <1>3 DEF Doctor, MatrixRun, ArchiveRun, Probes, BuildSite, GoTo, Abort, Exit, Progress
<1>4. CASE ArchiveProbes
  BY <1>4 DEF ArchiveProbes, Unarchived, GoTo, Abort, Progress
<1>5. CASE UploadAssets \/ SyncPages \/ Invalidate \/ FindStale
  BY <1>5 DEF UploadAssets, SyncPages, Invalidate, FindStale, GoTo, Abort
<1>6. CASE Record
  BY <1>6 DEF Record, GoTo, Abort
<1>7. CASE DeleteStale
  BY <1>7 DEF DeleteStale, GoTo, Abort
<1>8. CASE TeardownOnExit \/ Die
  BY <1>8 DEF TeardownOnExit, Die, Exit
<1>9. QED
  BY <1>1, <1>2, <1>3, <1>4, <1>5, <1>6, <1>7, <1>8 DEF Next

\* What the script has achieved when it comes to its end.
LEMMA HeadingKept ==
  ASSUME IInv, [Next]_vars
  PROVE Heading'
<1> USE DEF ran, site, IInv, Heading
<1>1. ASSUME step' # "teardown" \/ code' # 0, ended' # "succeeded"
      PROVE Heading'
  BY <1>1
<1>2. ended = "none" \/ step = "idle"
  BY DEF Types
<1>3. ASSUME Achieved, UNCHANGED <<live, build, archived, manifests, assets>>
      PROVE Achieved'
  BY <1>3 DEF Achieved, Listed, Kept
<1>4. CASE UNCHANGED vars
  BY <1>3, <1>4 DEF vars
<1>5. CASE StartTask \/ MatrixRun \/ ArchiveRun \/ Probes
  <2>1. ended' # "succeeded"
    BY <1>2, <1>5 DEF StartTask, MatrixRun, ArchiveRun, Probes, GoTo, Abort
  <2>2. step' = "doctor" \/ Abort \/ GoTo("archive") \/ GoTo("probe") \/ GoTo("archiveProbes")
    BY <1>5, Zenon DEF StartTask, MatrixRun, ArchiveRun, Probes
  <2>3. step' # "teardown" \/ code' # 0
    BY <2>2 DEF GoTo, Abort
  <2>4. QED
    BY <1>1, <2>1, <2>3
<1>6. CASE Doctor
  BY <1>1, <1>2, <1>6 DEF Doctor, GoTo, Exit
<1>7. CASE ArchiveProbes \/ BuildSite \/ UploadAssets \/ Record \/ SyncPages \/ Invalidate
  BY <1>1, <1>2, <1>7
  DEF ArchiveProbes, Unarchived, BuildSite, UploadAssets, Record, SyncPages, Invalidate, GoTo,
      Abort
<1>8. CASE FindStale
  <2>1. live = {build} /\ archived = Inputs
    BY <1>8 DEF FindStale, Progress, Archived, Publishing
  <2>2. CASE Cardinality(manifests) < Keep /\ GoTo("teardown")
    <3>1. ~(Cardinality(manifests) >= Keep)
      BY <2>2, FS_CardinalityType, PublishAssumption DEF Types
    <3>2. Achieved
      BY <2>1, <3>1 DEF Achieved
    <3>3. QED
      BY <1>2, <1>3, <1>8, <2>2, <3>2 DEF FindStale, GoTo
  <2>3. CASE GoTo("delete")
    BY <1>1, <1>2, <1>8, <2>3 DEF FindStale, GoTo
  <2>4. CASE Abort
    BY <1>1, <1>2, <1>8, <2>4 DEF FindStale, Abort
  <2>5. QED
    BY <1>8, <2>2, <2>3, <2>4 DEF FindStale
<1>9. CASE DeleteStale
  <2>1. live = {build} /\ archived = Inputs /\ build \subseteq assets /\ Manifest \in manifests
    BY <1>9 DEF DeleteStale, Progress, Archived, Publishing
  <2>2. stale = assets \ (build \cup Listed(Kept(manifests)))
    BY <1>9 DEF DeleteStale, Progress
  <2>3. CASE GoTo("teardown") /\ assets' = assets \ stale /\ manifests' = Kept(manifests)
    <3>1. build \subseteq Listed(Kept(manifests))
      BY <2>1, NewestKept DEF Listed, Manifest
    <3>2. assets' = Listed(Kept(manifests))
      BY <2>2, <2>3, <3>1 DEF KeptBuildsServed
    <3>3. Kept(manifests') = Kept(manifests)
      BY <1>9, DeletionKeepsKept
    <3>4. Achieved'
      BY <1>9, <2>1, <2>3, <3>2, <3>3 DEF Achieved, DeleteStale
    <3>5. QED
      BY <1>2, <1>9, <2>3, <3>4 DEF DeleteStale, GoTo
  <2>4. CASE Abort
    BY <1>1, <1>2, <1>9, <2>4 DEF DeleteStale, Abort
  <2>5. QED
    BY <1>9, <2>3, <2>4 DEF DeleteStale
<1>10. CASE TeardownOnExit
  <2>1. step' = "idle"
    BY <1>10 DEF TeardownOnExit, Exit
  <2>2. UNCHANGED <<live, build, archived, manifests, assets>>
    BY <1>10 DEF TeardownOnExit
  <2>3. CASE ended' = "succeeded"
    <3>1. code = 0 /\ (keepResources \/ matrix' = FALSE)
      BY <1>10, <2>3 DEF TeardownOnExit, Exit
    <3>2. Achieved
      BY <1>10, <3>1 DEF TeardownOnExit
    <3>3. QED
      BY <1>3, <1>10, <2>1, <2>2, <3>1, <3>2 DEF TeardownOnExit
  <2>4. QED
    BY <1>1, <2>1, <2>3
<1>11. CASE Die
  BY <1>1, <1>11 DEF Die
<1>12. QED
  BY <1>4, <1>5, <1>6, <1>7, <1>8, <1>9, <1>10, <1>11 DEF Next

-----------------------------------------------------------------------------
(* The theorems.                                                           *)

LEMMA Invariance == Spec => []IInv
<1>1. Init => IInv
  BY InitIInv
<1>2. IInv /\ [Next]_vars => IInv'
  <2> SUFFICES ASSUME IInv, [Next]_vars PROVE IInv'
    OBVIOUS
  <2>1. Types'
    BY TypesKept DEF IInv
  <2>2. LiveServed' /\ KeptBuildsServed' /\ Progress' /\ Archived' /\ Heading'
    BY ServedKept, ProgressKept, ArchivedKept, HeadingKept
  <2>3. QED
    BY <2>1, <2>2 DEF IInv
<1>3. QED
  BY <1>1, <1>2, PTL DEF Spec

\* Through any number of publishes that fail or die anywhere, the pages that are live and
\* those of the newest Keep recorded builds find their assets, and a task that succeeds
\* leaves nothing that none of these needs (run-benchmark.sh:209-227, site-assets.py:96-113).
THEOREM SiteServes == Spec => []SiteSound
<1>1. IInv => SiteSound
  BY DEF IInv, SiteSound, NothingStale, Heading, Achieved
<1>2. QED
  BY <1>1, Invariance, PTL

\* What a build that was recorded shows is archived, and a task that exits with 0 has
\* published all its pages and left no resources behind, unless it was told to
\* (run-benchmark.sh:55-71, 100-102, 170-172).
THEOREM TasksTruthful == Spec => []TaskTruthful
<1>1. IInv => TaskTruthful
  BY Zenon DEF IInv, TaskTruthful, Heading, Achieved, Archived
<1>2. QED
  BY <1>1, Invariance, PTL
=============================================================================
