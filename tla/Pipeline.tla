------------------------------ MODULE Pipeline ------------------------------
(***************************************************************************)
(* The commands of the bencher (main.rs) over what they leave behind for   *)
(* each other: the artifacts in dist/ (build.rs), the deployed functions,  *)
(* and a run's results file and meta.  `build`, `run`, the download-start  *)
(* probe and `teardown` are run one after the other with any filters and   *)
(* skip flags; each step may fail, and the process may be killed.          *)
(*                                                                         *)
(* The source may change between two commands, not during one.  Deploy,    *)
(* the run loop and teardown are single steps here (Provisioning,          *)
(* ControlPlane and RunPool have their inside); of a results file only the *)
(* last run's is tracked.                                                  *)
(***************************************************************************)
EXTENDS Matrix

CONSTANTS
  FirstArgs,    \* arguments of the first `run`
  LaterArgs,    \* arguments of the runs after it
  ProbeArgs,    \* arguments of the download-start probe
  BuildLangs,   \* values of `build --lang`
  Leftover,     \* synthetic functions that a killed probe leaves behind
  RowsPerCell,  \* bound: rows that a cell records here, for the 1 + warm of each cycle
  MaxCells,     \* bound: cells of a selection that goes on to be built
  MaxCommands,  \* bound: commands
  MaxEdits      \* bound: changes of the source

ASSUME BoundsAssumption ==
  /\ RowsPerCell \in Nat \ {0} /\ MaxCells \in Nat /\ MaxCommands \in Nat /\ MaxEdits \in Nat
  /\ Leftover \subseteq SYNTH_FAMILIES \X SYNTH_DEFAULT_SIZES_MB

VARIABLES
  source,     \* version of the scenarios' source
  dist,       \* dist/: the zip at each label there is one for
  functions,  \* the function deployed at each name there is one for
  command,    \* the running command: its cells and what it skips
  step,       \* where it stands, "idle" if none runs
  todo,       \* build stages left: a language's shared step, and its artifacts
  last,       \* how the last command ended
  commands,   \* how many have been started
  meta,       \* the last run's meta file
  writer, lines, appended, pipe, disk, counted  \* and its results file

fileVars == <<writer, lines, appended, pipe, disk, counted>>
control == <<command, step, todo, last, commands>>
vars == <<source, dist, functions, control, meta, fileVars>>

\* The commands that get as far as their cells: a selection that is invalid or empty
\* ends the command before it does anything.
Selected(args, valid, cells) == IF valid /\ cells # {} THEN {[cells |-> cells, args |-> args]} ELSE {}
Runs(arguments) == UNION {Selected(a, SelectionValid(a), select_cells(a)) : a \in arguments}
FirstRuns == Runs(FirstArgs)
LaterRuns == Runs(LaterArgs)
Probes == UNION {Selected(a, TargetsValid(a) /\ TargetsResolve(a), resolve_targets(a)) : a \in ProbeArgs}

SmallEnough(cells) == Cardinality(cells) <= MaxCells
MeasuredCells == UNION {r.cells : r \in {r \in FirstRuns \cup LaterRuns : SmallEnough(r.cells)}}
Rows == [c \in MeasuredCells |-> RowsPerCell]
File == INSTANCE ResultsFile WITH Cells <- MeasuredCells

ASSUME FileAssumption == File!RowsAssumption

NoCommand == [kind |-> "none", cells |-> {}, skip_build |-> FALSE, skip_deploy |-> FALSE]
NoMeta == [status |-> "none", planned |-> 0, recorded |-> 0]

LabelOf(c) == label(artifact_key(c))
Put(f, x, v) == [y \in DOMAIN f \cup {x} |-> IF y = x THEN v ELSE f[y]]

Init ==
  /\ source = 1 /\ dist = <<>> /\ functions = <<>>
  /\ command = NoCommand /\ step = "idle" /\ todo = <<>> /\ last = "none" /\ commands = 0
  /\ meta = NoMeta /\ File!Init

End(outcome) ==
  /\ step' = "idle" /\ command' = NoCommand /\ todo' = <<>> /\ last' = outcome
  /\ UNCHANGED commands

GoTo(s) == step' = s /\ UNCHANGED <<command, todo, last, commands>>

-----------------------------------------------------------------------------
(* Starting a command.                                                     *)

\* An earlier run's files are no longer written to.
Forget ==
  /\ meta' = NoMeta /\ writer' = "none" /\ lines' = <<>> /\ appended' = 0
  /\ pipe' = <<>> /\ disk' = <<>> /\ counted' = 0

Start(kind, cells, args) ==
  /\ step = "idle" /\ commands < MaxCommands
  /\ commands' = commands + 1 /\ todo' = <<>> /\ last' = "none"
  /\ step' = "selected"
  /\ command' = [kind |-> kind, cells |-> cells,
                 skip_build |-> args.skip_build, skip_deploy |-> args.skip_deploy]
  /\ Forget
  /\ UNCHANGED <<source, dist, functions>>

StartBuild ==
  \E langs \in BuildLangs :
    Start("build", cells_for_langs(langs), [skip_build |-> FALSE, skip_deploy |-> TRUE])

StartRun ==
  \E r \in IF commands = 0 THEN FirstRuns ELSE LaterRuns : Start("run", r.cells, r.args)

StartProbe ==
  \E p \in Probes : Start("probe", p.cells, [skip_build |-> TRUE, skip_deploy |-> TRUE])

-----------------------------------------------------------------------------
(* Building, or reusing dist/.                                             *)

\* build_all goes through the languages; Node has a bundle first and Java a Gradle run,
\* and then each artifact of the language has a task.
Stage(lang, keys) ==
  LET ks == {k \in keys : k.lang = lang}
  IN Segment(ks # {}, [shared |-> lang \in {"node", "java"}, keys |-> ks])

BuildPlan(keys) ==
  Stage("rust", keys) \o Stage("node", keys) \o Stage("java", keys)
    \o Stage("python", keys) \o Stage("go", keys)

BeginBuild ==
  /\ step = "selected" /\ ~command.skip_build
  /\ command.kind = "build" \/ SmallEnough(command.cells)
  /\ step' = "build" /\ todo' = BuildPlan(unique_artifacts(command.cells))
  /\ UNCHANGED <<source, dist, functions, command, last, commands, meta, fileVars>>

\* An artifact: what is in the zip, from which source, and the state of the zip.
Packed(key, state) == [key |-> key, src |-> source, state |-> state]
Stored(key, state) == Put(dist, label(key), Packed(key, state))

\* Faulty: an artifact that is there already is not built again.
KeptIfThere(key) == IF label(key) \in DOMAIN dist THEN dist ELSE Stored(key, "whole")

Zipped(key) == Stored(key, "whole")

NextKey == CHOOSE k \in Head(todo).keys : TRUE

\* The first stage goes on with these artifacts, its shared step done.
TodoWith(keys) ==
  IF keys = {} THEN Tail(todo) ELSE <<[shared |-> FALSE, keys |-> keys]>> \o Tail(todo)

\* cargo, esbuild, Gradle, pip or go succeed, and the zip is written.
TaskSucceeds ==
  /\ step = "build" /\ todo # <<>>
  /\ IF Head(todo).shared
     THEN todo' = TodoWith(Head(todo).keys) /\ UNCHANGED dist
     ELSE todo' = TodoWith(Head(todo).keys \ {NextKey}) /\ dist' = Zipped(NextKey)
  /\ UNCHANGED <<source, functions, command, step, last, commands, meta, fileVars>>

\* The tool fails; or the process is killed while it writes the zip, which is created
\* in place and stays without its directory; or a file to be packed cannot be read,
\* and the writer, dropped, finishes a zip of what it has.
TaskFails ==
  /\ step = "build" /\ todo # <<>>
  /\ \/ UNCHANGED dist
     \/ /\ ~Head(todo).shared
        /\ dist' \in {Stored(NextKey, state) : state \in {"broken", "partial"}}
  /\ End("failed")
  /\ UNCHANGED <<source, functions, meta, fileVars>>

BuildEnds ==
  /\ step = "build" /\ todo = <<>>
  /\ IF command.kind = "build" THEN End("built") ELSE GoTo("loaded")
  /\ UNCHANGED <<source, dist, functions, meta, fileVars>>

\* A zip whose central directory can be read: not one that a kill cut off.
Loadable(l) == l \in DOMAIN dist /\ dist[l].state # "broken"

\* load_artifacts_from_dist.
Load ==
  /\ step = "selected" /\ command.skip_build
  /\ SmallEnough(command.cells)
  /\ IF \A c \in command.cells : Loadable(LabelOf(c)) THEN GoTo("loaded") ELSE End("failed")
  /\ UNCHANGED <<source, dist, functions, meta, fileVars>>

-----------------------------------------------------------------------------
(* Deploying, or making sure that everything is deployed.                  *)

Deployed(done) == done = command.cells

NewFunction(c) == [cell |-> c, code |-> dist[LabelOf(c)]]

\* deploy: some of the functions are created or updated, or all of them; names that
\* coincide are one function.
Deploy ==
  /\ step = "loaded" /\ ~command.skip_deploy
  /\ \E done \in SUBSET command.cells :
       /\ functions' = [n \in DOMAIN functions \cup {function_name(c) : c \in done} |->
            LET cs == {c \in done : function_name(c) = n}
            IN IF cs = {} THEN functions[n] ELSE NewFunction(CHOOSE c \in cs : TRUE)]
       /\ \/ Deployed(done) /\ GoTo("preflight")
          \/ End("failed")
  /\ UNCHANGED <<source, dist, meta, fileVars>>

Missing == \E c \in command.cells : function_name(c) \notin DOMAIN functions

\* missing_functions: every function by its name; a call that errs ends the command.
CheckMissing ==
  /\ step = "loaded" /\ command.skip_deploy
  /\ \/ ~Missing /\ GoTo("preflight")
     \/ End("failed")
  /\ UNCHANGED <<source, dist, functions, meta, fileVars>>

-----------------------------------------------------------------------------
(* The run: its meta, its results file, and its meta again.                *)

Unreadable == [NoMeta EXCEPT !.status = "unreadable"]
Stamped(status) == [meta EXCEPT !.status = status, !.recorded = counted]

\* meta.write truncates the file before it writes it.
BeginRun ==
  /\ step = "preflight" /\ command.kind = "run"
  /\ \/ /\ meta' = [NoMeta EXCEPT !.status = "running", !.planned = RowsPerCell * Cardinality(command.cells)]
        /\ GoTo("open")
     \/ meta' \in {NoMeta, Unreadable} /\ End("failed")
  /\ UNCHANGED <<source, dist, functions, fileVars>>

OpenResults ==
  /\ step = "open"
  /\ \/ File!Create /\ GoTo("measure")
     \/ UNCHANGED fileVars /\ End("failed")
  /\ UNCHANGED <<source, dist, functions, meta>>

\* A cell has completed its cycles.
WriteCell ==
  /\ step = "measure"
  /\ \E c \in command.cells : File!Begin(c)
  /\ UNCHANGED <<source, dist, functions, control, meta>>

WriteStep ==
  /\ step = "measure"
  /\ File!AppendRow \/ File!Spill \/ File!Count
  /\ UNCHANGED <<source, dist, functions, control, meta>>

\* A write fails, and the run with it.
WriteErrs ==
  /\ step = "measure" /\ File!WriteFails /\ GoTo("failing")
  /\ UNCHANGED <<source, dist, functions, meta>>

\* Some cell fails for good while no other is being written.
CellFails ==
  /\ step = "measure" /\ writer = "open" /\ \E c \in command.cells : ~File!Written(c)
  /\ GoTo("failing")
  /\ UNCHANGED <<source, dist, functions, meta, fileVars>>

AllWritten == writer = "open" /\ \A c \in command.cells : File!Written(c)

RunDone ==
  /\ step = "measure" /\ AllWritten /\ GoTo("done")
  /\ UNCHANGED <<source, dist, functions, meta, fileVars>>

\* Faulty: a run that has rows counts as one that completed.
OkIfAny == IF counted > 0 THEN "ok" ELSE "failed"

Status == IF step = "done" THEN "ok" ELSE "failed"
Outcome == IF step = "done" THEN "ran" ELSE "failed"

\* The final meta, and then the writer is dropped.
EndRun ==
  /\ step \in {"done", "failing"}
  /\ \/ meta' = Stamped(Status) /\ End(Outcome)
     \/ meta' \in {meta, Unreadable} /\ End("failed")
  /\ File!Close
  /\ UNCHANGED <<source, dist, functions>>

\* The probe samples its targets, and writes their residuals and sizes if all succeed.
ProbeEnds ==
  /\ step = "preflight" /\ command.kind = "probe"
  /\ End("probed") \/ End("failed")
  /\ UNCHANGED <<source, dist, functions, meta, fileVars>>

-----------------------------------------------------------------------------
(* Teardown, and the rest of the world.                                    *)

Managed == DOMAIN functions \cap all_managed_function_names

Teardown ==
  /\ step = "idle" /\ commands < MaxCommands /\ commands' = commands + 1
  /\ \E kept \in SUBSET Managed :
       /\ functions' = [n \in (DOMAIN functions \ Managed) \cup kept |-> functions[n]]
       /\ \/ kept = {} /\ last' = "tornDown"
          \/ last' = "failed"
  /\ Forget
  /\ UNCHANGED <<source, dist, command, step, todo>>

NoKey == [lang |-> "none", scenario |-> "none", arch |-> "arm64", opt |-> "none", jitter |-> "none"]
Synthetic ==
  [cell |-> [lang |-> "none", scenario |-> "none", arch |-> "arm64", memory_mb |-> 512,
             opt |-> "none", snapstart |-> FALSE, jitter |-> "none"],
   code |-> Packed(NoKey, "whole")]

\* A download-scaling probe was killed between creating a function and its cleanup.
ScalingKilled ==
  /\ step = "idle" /\ commands < MaxCommands /\ commands' = commands + 1
  /\ \E f \in Leftover : functions' = Put(functions, synth_function_name(f[1], f[2]), Synthetic)
  /\ last' = "killed"
  /\ Forget
  /\ UNCHANGED <<source, dist, command, step, todo>>

Edit ==
  /\ step = "idle" /\ source <= MaxEdits
  /\ source' = source + 1
  /\ UNCHANGED <<dist, functions, control, meta, fileVars>>

Kill ==
  /\ step # "idle" /\ step # "build"
  /\ IF writer \in {"open", "writing", "failed"} THEN File!Killed ELSE UNCHANGED fileVars
  /\ End("killed")
  /\ UNCHANGED <<source, dist, functions, meta>>

Next ==
  \/ StartBuild \/ StartRun \/ StartProbe
  \/ BeginBuild \/ TaskSucceeds \/ TaskFails \/ BuildEnds \/ Load
  \/ Deploy \/ CheckMissing
  \/ BeginRun \/ OpenResults \/ WriteCell \/ WriteStep \/ WriteErrs \/ CellFails \/ RunDone \/ EndRun
  \/ ProbeEnds
  \/ Teardown \/ ScalingKilled
  \/ Edit \/ Kill

Spec == Init /\ [][Next]_vars

-----------------------------------------------------------------------------
(* Properties.                                                             *)

TypeOK ==
  /\ source \in 1 .. MaxEdits + 1
  /\ \A l \in DOMAIN dist : dist[l].src \in 1 .. source
                           /\ dist[l].state \in {"whole", "partial", "broken"}
  /\ DOMAIN functions \subseteq all_managed_function_names
  /\ command.cells \subseteq all_cells
  /\ step \in {"idle", "selected", "build", "loaded", "preflight", "open", "measure",
              "done", "failing"}
  /\ last \in {"none", "built", "ran", "probed", "tornDown", "failed", "killed"}
  /\ commands \in 0 .. MaxCommands
  /\ meta.status \in {"none", "running", "ok", "failed", "unreadable"}
  /\ writer \in {"none", "open", "writing", "failed", "closed"}
  /\ appended \in 0 .. Len(lines) /\ counted \in Nat

Measuring == step \in {"preflight", "open", "measure"}
FunctionOf(c) == functions[function_name(c)]

\* Code that a cell can run: its language's, its scenario's and its variant's, and its
\* arch's where something native is packed (Rust, Go, and authz on Python).
RunsOn(key, c) ==
  /\ key.lang = c.lang /\ key.scenario = c.scenario /\ key.opt = c.opt /\ key.jitter = c.jitter
  /\ \/ key.arch = c.arch
     \/ c.lang \in {"node", "java", "python"} /\ <<c.lang, c.scenario>> # <<"python", "authz">>

\* Whatever was built, deployed, skipped or torn down before, in whatever selections: a
\* cell is measured on a function of its own, created for that cell (its arch, memory
\* tier and variant), that runs that cell's code (names and labels tell them apart); and
\* never on code from a zip that a killed build cut off.
MeasuredCode ==
  Measuring => \A c \in command.cells :
    /\ function_name(c) \in DOMAIN functions
    /\ FunctionOf(c).cell = c
    /\ RunsOn(FunctionOf(c).code.key, c)
    /\ FunctionOf(c).code.state # "broken" /\ Loadable(LabelOf(c))

\* What is measured is what the recorded sizes describe, unless the deploy is skipped;
\* and it is whole and of the present source, unless the build is skipped too: a failed,
\* killed or narrower build before it cannot leave the run with older code.
FreshUnlessSkipped ==
  Measuring => \A c \in command.cells :
    /\ ~command.skip_deploy => FunctionOf(c).code = dist[LabelOf(c)]
    /\ ~command.skip_build => dist[LabelOf(c)] = Packed(artifact_key(c), "whole")

\* No filter separates a jitter diagnostic from its baseline, and the two are invoked
\* equally often in either profile (is_jitter_ab's doc: a clean A/B).
JitterPairs ==
  \A c \in command.cells : c.jitter = "on" =>
    LET twin == [c EXCEPT !.jitter = "off"]
    IN /\ command.kind # "probe" /\ twin \in command.cells
       /\ \A profile \in {"full", "smoke"} : iterations(c, profile) = iterations(twin, profile)

\* The planned invocations, tallied per bucket of equal counts, are the rows that the
\* selected cells record when all of them complete.
PlannedRows ==
  command.kind = "run" /\ step = "selected" => \A profile \in {"full", "smoke"} :
    LET rows(s) == MapThenSumSet(LAMBDA c : InvocationsOf(iterations(c, profile)),
                                 {c \in command.cells : c.scenario = s})
    IN planned(command.cells, profile) = MapThenSumSet(rows, Scenarios)

\* A probe's targets are the run's plain cells, one for each language, scenario and
\* memory tier: no two of them make a table row that reads the same.
OneTargetPerRow ==
  command.kind = "probe" => \A c, d \in command.cells :
    c # d => <<c.lang, c.scenario, c.memory_mb>> # <<d.lang, d.scenario, d.memory_mb>>

\* What the filters of either command select.
SelectionsSound == JitterPairs /\ PlannedRows /\ OneTargetPerRow

\* What the meta says of the dataset once the run has ended: "ok" if and only if every
\* planned row is in the file and counted; "failed" with fewer rows (RunStatus).
DatasetTruthful ==
  step = "idle" =>
    /\ meta.status = "ok" => meta.recorded = meta.planned /\ Len(disk) = meta.planned
    /\ meta.status = "failed" => meta.recorded < meta.planned /\ meta.recorded <= Len(disk)
    /\ last = "ran" => meta.status = "ok"

\* After a teardown that reports success no function is left, of the matrix or of a
\* probe that was killed before its own cleanup: every name is enumerated.
TeardownComplete == last = "tornDown" => functions = <<>>

\* The results file, in every run the commands can make (see ResultsFile).
WholeCellsThenOnePart == File!WholeCellsThenOnePart
CountedIsOnDisk == File!CountedIsOnDisk
KeepsWholeCells == File!KeepsWholeCells
=============================================================================
