# Verification of lambdabench

TLA+ models of the lambdabench bencher, TLC runs that check them on small
instances, and TLAPS proofs. lambdabench measures AWS Lambda cold and warm
starts over a matrix of cells (language x scenario x memory x architecture ...);
its `bencher` deploys the functions, forces cold starts, invokes them and records
one row per invoke.

## Inventory

| part | code | state it keeps | operations | what is hard | what makes it correct |
|---|---|---|---|---|---|
| Cell run | `bencher/src/run.rs` `run_cell` and below | buffered rows, next cycle, attempt counters | force cold, cold invoke, warm invokes, host-CPU invoke, retries, write | three nested retry loops against a platform that recycles sandboxes on its own and applies changes late | the buffer is the completed prefix; no warm start recorded as cold; one sandbox per cycle; all or nothing in the file |
| Run pool | `run.rs` `run`, `VersionGuard`; `main.rs` `cmd_run` | cells in flight, guards, `leaked_versions`, writer count, meta status | pull, fail fast, drain, close | cancellation at any await; requests already sent; crash | guarded versions are reclaimed; nothing is committed after a failure; the meta tells the truth |
| Results writer | `record.rs` | gzip encoder and its buffer, row counter, meta file | `create`, `write_cell`, `rows_written`, `RunMeta::write` | errors and crashes between any two writes of a cell | whole cells, and at most one part of a cell, last; counted rows are on disk |
| Rate limiter | `aws/rate_limiter.rs` | next slot | `acquire` | concurrent callers, late wake-ups | slots spaced by the interval |
| Lambda control plane | `aws/lambda.rs` | (remote) configuration, revision, versions | ensure, force cold, publish, wait, delete | eventually consistent reads, updates in two steps | wait returns only once this update is applied; a published version carries the new nonce |
| Provisioning | `deploy.rs`, `aws/{kms,ddb,iam,s3,ecr}.rs` | (remote) resources | ensure each | crash between two calls, a resource still being deleted | idempotent; nothing billable is orphaned |
| Teardown | `teardown.rs` | (remote) resources | delete each | a step fails | later steps still run; a rerun converges |
| Commands | `main.rs`, `build.rs`, `deploy.rs` | `dist/`, the deployed functions, results and meta | `build`, `run`, `probe`, `teardown` with filters and skip flags | failed, narrower or cut-off commands before this one; edits in between | a cell is measured on its own code, fresh unless a flag says otherwise; the meta is true |
| Matrix and counts | `config.rs` | none | enumerate, select, name, label, count | cells that differ in one flag; floors, caps, pairs | names tell cells apart; planned rows are the recorded ones; pairs stay together |
| Probes | `probe.rs`, `probe/*.rs` | ledgers of functions, staged zips and tags | force, prewarm, sample, retry a unit, clean up, write | lost answers, late forces, recycled sandboxes, a failure after a creation | a sample is one real cold start; all that was made is deleted, reported, or was never told of |
| Runner and site deploy | `deploy/run-benchmark.sh`, `deploy/site-assets.py` | archive and site buckets, manifests | run, archive, probe, build, upload, record, sync pages, prune, tear down | any command fails, after part of its effects; the container dies | the live pages and the kept builds find their assets; exit code 0 is true |
| Parser | `parse.rs` | none | `parse_report`, `parse_host_cpu` | text | fails rather than guesses |
| CDK, site, scenarios, one-offs | `deploy/cdk`, `site`, `scenarios`, `oneoff` | - | - | - | not modelled, see below |

`cmd_run` selects cells, loads or builds artifacts, deploys, writes the meta with
status `running`, creates the writer and calls `run`. `run` polls up to `pool`
cells from one task; each calls the Lambda client, which shares one rate limiter,
and hands its rows to the shared writer once. The first cell that fails cancels
the others; their guards push SnapStart versions on a shared queue that `run`
drains. `cmd_run` then stamps the meta. `run-benchmark.sh` strings the commands
together on a container: run, archive, probe, archive, build the site, publish it,
and tear down whatever happens.

## Modules

An operator marked "faulty" is a variant of the one below it that no action uses:
a plausible slip, kept to show that the properties notice it.

### The cell: `CellSampling`, `CellRun`, `CellRun_proofs`

* `CellSampling` is what a cell promises the run loop: it keeps cycles one after
  another and is committed whole or aborted.
* `CellRun` is `run_cell` against Lambda's data plane. One action per await: the
  nonce bump (`ForceCold`), the invokes (`ColdInvoke`/`ForceAgain`,
  `RestoreInvoke`, `WarmInvoke`, `HostCpuInvoke`, any of the three measured ones
  failing in `FailingInvoke`), `Publish` and `DeleteVersion` of a SnapStart
  attempt; then one action per decision of the three retry loops (`KeepCycle`,
  `RetryCycle`, `RetryCell`, `FailCell`) and `WriteCell`. Lambda is two actions:
  `Recycle` retires the warm sandbox, `Propagate` applies pending bumps late.
  `snapStart` says which kind of cell it is and never changes.

### The run: `RunPool`, `RunPool_proofs`, `MCRunPool`

`run`, `VersionGuard` and the end of `cmd_run`. What a cell does between two awaits
is one step, because all cells are polled by one task; `FailFast` drops the others
and fires their guards in the step of the error, as `try_for_each_concurrent` does.
Publishes and deletes that are on the way take effect although nobody waits for
them. The attempts of `CellRun` are folded into `CycleKept` and `AttemptFails`;
`CellsSampled` says that each cell of the pool still is a `CellSampling`, which is
the same promise `CellRun` is shown to keep.

### The limiter: `RateLimiter`, `RateLimiter_proofs`, `MCRateLimiter`

`acquire`: a caller takes the next slot under the lock (`Reserve`), sleeps, and
starts its request at the slot or at most `Lag` later (`Start`); a sleeping caller
may be dropped (`Drop`). Time is a natural number that `Tick` advances, never past
a deadline of an executor that is at most `Lag` late.

### The control plane: `ControlPlane`, `ControlPlane_proofs`, `MCControlPlane`

One function and its client: `ensure_function` and the cold paths of `lambda.rs`
(read the revision, send, wait until ready, publish, wait for the version, delete)
against a Lambda that keeps a log of configurations with revisions. Reads may show
any earlier entry (`"lag"`), calls may fail, arrive late or twice (`"calls"`),
accepted updates may fail (`"updates"`); a world names its faults and how the
function starts out, and each behaviour lives in one world. The deploy and the run's
bumps are one process (`cmd_run`), so that what a bump may read is bounded by the last
read of the deploy (`seen`) and by nothing else.

### Provisioning: `Provisioning`, `Provisioning_proofs`

`deploy` and `teardown` over one account, one after the other in any order. Every
API call is an action that takes effect or not and is answered ok or with an error,
so an error may hide a call that worked; the process may die between any two calls.
A read and the write that follows it are one action: one command runs at a time and
nobody else writes these resources. `step` is the place in the code, `work` the
rest of the collection a loop goes through. `ensure_function` is one call here; its
parts are `ControlPlane`. `hosted` says whether the environment asks a deploy for the role's permissions boundary.
`account.keys[k].tagged` is the creation tag of
`ensure_kms_key`. DynamoDB (`TableSettles`), KMS (`KeyExpires`) and the runs between
the commands (`Measure`) are the environment.

### The commands: `Matrix`, `ResultsFile`, `CellLog`, `Pipeline`, and their proofs

* `Matrix` is `config.rs` as operators over the real matrix: which cells there are,
  names, labels and artifact keys, counts, and the selections of `run`
  (`select_cells`) and of the download-start probe (`resolve_targets`). Names are
  sequences of the parts that the code joins with hyphens.
* `ResultsFile` is `ResultsWriter`: each row goes into the encoder (`AppendRow`), which
  passes on a first part of what it holds whenever a buffer is full (`Spill`); the
  flush at the end of a cell passes on the rest, and then the rows are counted. Every
  write may fail and the process may be killed between any two.
* `CellLog` is what it promises, a file of whole cells that only grows.
* `Pipeline` composes both with the commands of `main.rs`, one after the other: what a
  build task leaves in `dist/` when it succeeds, fails or is cut off, what a deploy
  leaves under which name, the preflight, the run with its meta, the probe, teardown.
  Deploy, the run loop and teardown are single steps here. The source may be edited
  between two commands. A zip is `"whole"`, `"partial"` (readable, but cut short) or
  `"broken"`; `dist[l].src` is the version of the source that it was built from.

### The probe: `ColdSeries`, `Scaling`, and their proofs

* `ColdSeries` is `sample_cold_series` under `retry_transient`: force, prewarm the
  connection, the timed cold invoke, the warm ones, the next sample, with the limits on
  forces and on attempts of the unit.
* `Scaling` is the download-scaling probe, zip family then image family, call by call:
  stage the zip, create, wait, record, sample, clean up, write the file; repository,
  push, tag, size and record for images. `account` is what exists, `ledger` and `tags`
  what the probe has recorded, `told` what it has warned about and `lost` what was
  created by a call that was answered with an error. Every call may fail or lose its
  answer, the process may be killed at any step, a teardown may come in between.
  It steps `ColdSeries` while it samples.

### The site: `SitePublish`, `SitePublish_proofs`

`run-benchmark.sh`, one action per command, with `set -e`, the exit trap and its two exit
codes, and both commands of `site-assets.py`. A command that fails may have had any part
of its effects. A manifest is its time and the assets it lists; `live` has the builds
that the pages in the bucket are of, more than one after a sync of the pages that fails.
Tasks run one after the other. The two checks of the prose only warn and are left out;
`run.sh` only starts a task.

## Runs

States are distinct states; every run finishes within two minutes.

| run | question | states | what it shows |
|---|---|---|---|
| `cell_retries` | does a cell keep what it promises, whatever Lambda does? | 128 k | the buffer is the completed prefix, restored or cold rows are just that, a cycle is one sandbox's, the CPU belongs to it, a silent handler fails the cell, the cell ends, and it implements `CellSampling` |
| `cell_redelivered` | and when an invoke is delivered twice? | violation | finding 1 |
| `pool_mixed` | does a pool of cells stop, drain and account rightly? | 2.2 M | guarded versions are deleted or asked for, those not asked for yet never outnumber the pool, a cell leaves at most one unguarded version per failed attempt, a version under measurement is alive, nothing is committed after a failure, the run ends, and every cell is a `CellSampling` |
| `pool_cancelled` | does cancellation leak nothing? | violation | finding 2 |
| `limiter_shared` | what does the limiter guarantee to racing callers? | 257 k | slots apart, bursts and waits bounded, also with dropped callers |
| `control_worlds` | can the client trust its waits? | 1.7 M | waits end only when the update has landed, nothing is refused, deploys fail for a reason, bumps never undo a deploy, versions are fresh |
| `control_stale` | also when reads lag and calls fail together? | violation | finding 3 |
| `provisioning` | are deploy and teardown idempotent and honest? | 1.4 M | a successful deploy is complete, a teardown reports what it leaves, leftovers never stop a deploy, a repeated teardown completes |
| `provisioning_key` | is the deployed key usable? | violation | finding 4 |
| `pipeline` | do the commands leave each other something sound? | 1.1 M | a cell is measured on a function and code of its own, of the present source unless a flag says otherwise; pairs stay together and planned rows are those recorded; the meta is true; teardown reaches every name; the file keeps whole cells (it refines `CellLog` cell by cell) |
| `scaling` | does a probe measure and clean up rightly? | 602 k | every sample is a cold start of its own, of the function that this probe deployed; files are complete; nothing it made is forgotten; a teardown reaches the rest; the probe ends |
| `site` | does the bucket serve what it should? | 1.6 M | through publishes that fail anywhere the live pages and the kept builds find their assets, a success leaves nothing else, and exit code 0 is true |

### Bounds, and why they are enough

* `CellRun`: two cycles (the first has no predecessor, the second does), one cold or
  restore and two warm invokes (a recycle can hit before, between and after), two
  attempts in each loop (one that retries and one that gives up). Everything that
  the retries multiply is proved for every value of the five constants.
* `RunPool`: three cells on two places, so one waits while two race; two of them on
  SnapStart; two cycles; one failing attempt survived. All but liveness is proved for
  every pool, order and number of cycles.
* `RateLimiter`: three callers, five intervals, a lag of one and a half intervals,
  two dropped. The safety part is proved without bounds, `MaxTime` included.
* `ControlPlane`: up to six requests (a redeploy is two updates; two SnapStart cycles
  are a bump and a publish each), a log of five or six revisions, one late call; the
  proofs have no such bounds.
  Every world has the fault it is about; `"lag"` and `"calls"` together are
  `control_stale`, as they break the promise. `"updates"` and `"calls"` together do
  so, too, and are kept apart for the same reason.
* `Provisioning`: two functions (one succeeds while the other fails), two keys (an
  orphan and its successor; a deploy starts only while another key may be made), two
  faults among failing calls, lost answers and deaths of the process. Two faults are
  what `CreateAlias` and its undo need to leave an orphan behind. The invariants are
  proved for every set of functions and any number of keys and faults.

* `Pipeline`: three commands, so that a build, a deploy and a run with skip flags can
  meet; one edit; selections of at most three cells are built, after every pairing of
  filters has been put to the selection on the real matrix; two rows for each cell, so
  that a cell can be cut in the middle. All its properties are proved
  without bounds and for every argument.
* `Scaling`: two sizes of every family (one unit fails while another stands), two
  probes of the same names, two faults, two cold by two warm samples, two forces and
  three attempts. All safety properties of the run are proved without bounds.
* `SitePublish`: three assets, two kept builds and four tasks: two to have a manifest
  expire, and two more that fail in between. Both properties are proved without bounds.

`CHECK_DEADLOCK FALSE` stands in the configurations whose system ends: a cell that is
done, a run that has closed, a limiter at `MaxTime`, a client out of requests, an
account after its last command, probe or task.

### Fairness

`CellRun` and `RunPool` assume `WF_vars(Driver)`: the tokio task that drives them is
polled whenever something it awaits is ready, and every call it awaits comes back
with an answer or an error. The second half is an assumption about the platform:
Lambda ends an invoke after the function's 30 s timeout (`lambda.rs:134`) and the
retries are bounded (`aws.rs:111`), but the client sets no timeout of its own, so a
connection that stays silent would hold a run. Nothing is assumed of Lambda: `Recycle` and `Propagate` may
happen at any time or never. `Provisioning` assumes the same of a running command,
and that DynamoDB ends what it started (`WF_vars(TableSettles)`), which the code's
waits rely on; nobody is obliged to start a command, and no key has to expire.
`Scaling` assumes `WF_vars(ProbeStep)`, that a running probe takes its next step: its
waits have deadlines of their own (`wait_ready`), its loops end by counting. A
container image push or a build has no deadline, and nothing is claimed of their time.
`RateLimiter`, `ControlPlane`, `Pipeline` and `SitePublish` state safety only. `CellSampling`'s `Spec` has
`WF_vars(Next)`: that a cell does not stay undecided.

## Proofs

All theorems hold for every value of the constants under the modules' named
assumptions (`CountsAssumption`, `AttemptsAssumption`, `RedeliveryAssumption`,
`BoundsAssumption`, `SeriesAssumption`, `PublishAssumption` and the like), which TLC
evaluates in the runs.

* `CellRun_proofs`. `TypeCorrect`; then `Inductive`: `IInv` joins the types,
  `AttemptInv` (what the rows of the current attempt already are), `PhaseInv` (what
  each step of the driver may assume) and the properties. `CompletedPrefix` alone
  is not inductive: keeping a cycle needs to know that the attempt just judged had
  rows with the right indices, markers and sandbox. From it `PrefixCorrect`,
  `MarkersCorrect`, `FileCorrect`, `SandboxCorrect` and `CpuCorrect` (with
  exactly-once delivery: finding 1 is the counterexample without), `CyclesKept`, and `RefinesSampling`: initial states and steps of `CellRun` are
  ones of `CellSampling`. `SilentHandlerCorrect` has a strengthening of its own
  (`Silent`): as long as no kept cycle has a CPU, each cycle kept is in `coldCpu`.
  `RetriesBounded` is the safety part of `Terminates`: the attempts of the three nested
  loops, the cycles and the place in an attempt are the digits of one number
  (`StepsLeft`) that every step of the driver lowers and nothing else touches, however
  Lambda recycles, so it bounds the invokes that a cell can pay for.
* `RunPool_proofs`. `PoolInductive`: next to the properties, `IInv` says who owns a
  guarded version (`GuardsOwned`), that cells not yet pulled have not started
  (`Queue`), that failures stay within the budget, and that once the drain starts no
  cell is under way. The proof sorts the outcomes of a cell's step into three that
  most actions share (it starts again, it is done, it fails the run) and shows each
  one once. `StorageBounded` adds that the guarded versions nobody has tried
  to delete are those of different cells in flight, and no more once the run has
  stopped (so at most `Pool`), and that each further version a cell leaves behind goes
  back to an attempt of its own that failed (`LeftInv`): one that errs between its
  publish and its guard leaves one. From `PoolInductive` also
  `PoolTypeCorrect`, `VersionsReclaimed`, `MeasuredAlive`,
  `RowsCorrect`, `MetaCorrect`, `FailFastCorrect`, and `CellsSampledCorrect`: every
  step of the run is, for every cell, a step of its `CellSampling` or a stutter.
  `RunBounded` is the safety part of `RunEnds`: every attempt uses up a cycle or a
  failure, so each cell has finitely many steps left; no step of the run, of another
  cell or of Lambda adds to them, and a step of the run takes one off, ends a phase or
  drains a leaked version, of which there are finitely many.
* `RateLimiter_proofs`. `LimiterInductive`: no reserved slot is later than the
  limiter's own (`SlotsBehind`) and no caller is past its deadline (`NotOverdue`).
  From it `SlotsAreSpaced`, `StartsAreOnTime` and `StartsAlmostApart`: starts are an
  interval less the lag apart, which is what remains of the documented claim.
  `BurstsAreBounded` carries that from two requests to any number in a row, by
  counting the slots between them, and `WaitsAreBounded` counts those still ahead: they
  form a chain of intervals back to the present (`Chain`).
* `ControlPlane_proofs`. `ControlInductive` has one invariant for all worlds. In every
  world: what is on the wire (`OnTheWire`), how far the deploy has got and that no request
  takes the code back (`ConfigKept`), and that the request waited for is in the log
  (`Lands`). While calls work, there is one request at a time, and `Calm` says what
  the client knows of Lambda: every snapshot that it may read while it waits is from
  before its update, is busy, or is the last. `FreshNonces` says that no request on the
  wire can bring back a nonce that has been measured. The theorems name the worlds that they are about:
  - `DeployedConfigStays` leaves out an old function whose redeploy meets old reads
    together with failing calls or failing updates: there a wait may end before the
    new environment has been read, and the first bump may send back the old one
    (see Findings). Elsewhere every snapshot that a run may still read has the new
    environment, and so has every bump on its way (`EnvKept`).
  - `NeverRefusedCorrect` and `DeployFailsCorrect` leave out old reads together with
    failing updates (a lagging `Failed` of an earlier update, see below) or with a
    function that is only just created (a lagging 404).
  - `ReadyCorrect` is also about failing calls, with current reads and no failing update;
    `control_stale` is why calls and old reads are not taken together.
  - `VersionsFresh` has any fault, but calls fail in the run only. If they fail in the
    deploys before it and two of their `UpdateFunctionConfiguration` requests are late
    enough to overtake two bumps of the run, each takes the nonce back to the deployed
    one, and the second publish returns the version of the first, if its delete failed.
    The run `control_worlds` has one late request, which is not enough for that.
* `Provisioning_proofs`. `ProvisioningInductive`: for each resource class, a deploy that
  is past its step has it in place, and a teardown that is past it has it gone or
  among the failures. What a class may be in between is the hard part: an alias with
  its key, a table that DynamoDB has not finished with, a role with some of its policies.
  From it `DeployedCorrect`, `LeftoversCorrect` and `FailsForAReason`.
  Two theorems are what `TeardownConverges` rests on. `CommandsEnd`: each step of a deploy
  or a teardown is one further on, or leaves less of the finite work of its step.
  `FaultlessTeardown`: with no fault of its own, a teardown reports at most the table, and
  that only while DynamoDB still creates it. For this every key id that a command holds
  must be of a key that exists (`KeysKnown`), else KMS could refuse what was never there.
* `Pipeline_proofs`. First the results file (`FileInv`), for any cells, rows and buffers:
  what the encoder holds follows what is on disk, and the two together are whole cells
  and a beginning of the one being written. The statement about the disk alone is not
  inductive, as a buffer may be passed on at any place. `PipelineInductive` joins it, as
  the commands are stutters or single steps of the file, with `NamesInv`: what is
  deployed has a name that teardown enumerates. From it `PipelineTypeCorrect`,
  `ResultsFileSound`, `RowsOnDisk` and `NothingLeft`.
  - `MeasuredCodeCorrect` and `MeasuredCodeIsFresh` rest on two facts about the matrix:
    no two cells share a name (`NamesDiffer`), and no two artifacts share a label
    (`LabelsDiffer`), although optional parts shift those after them.
    `CodeInv` follows the zips from there: each is at the label of its own key; while a
    build runs, every artifact of the command is fresh or still planned (`BuildInv`);
    once all are there (`LoadedInv`), a deploy gives each cell its own (`ReadyInv`).
  - `DatasetIsTruthful` counts: what is counted is all rows of the cells that have a
    counted row (`TallyInv`), a run is done when those are all its cells, and one that
    fails has left some cell out, so it has fewer rows than were planned.
  - `RefinesCellLog`: every step appends one new cell to the log of `CellLog`, leaves it or
    begins a new one. `LogInv` says that the first rows of the counted cells have the
    places 1 to n, which is what makes the mapping (`Recorded`) a sequence.
  - `SelectionsCorrect`: a selection's diagnostics come with their baselines and a probe's
    targets read differently, and the rows planned by scenario and by memory are the rows
    of its cells. The last is about sums over sets (`MapThenSumSet`, a fold). The library's
    induction over finite sets takes the predicate as an operator, which the provers
    cannot instantiate; the section Sums goes round it: an adder is a function on the
    subsets of a set that obeys the fold's equation, a smallest set on which two adders
    differ (or on which none exists) is impossible, and a sum over a union of disjoint
    parts follows one element at a time.
  `WrittenAssumption` (memory tiers that are written alike are the same) is the one
  assumption that is about a formatting function; TLC evaluates it for all tiers.
* `Scaling_proofs`. The invariant of a series (`ColdSeries`), step by step, is the first part
  and gives `ProbeSamplesSound`. `ProbeForgetsNothing` is about the ledgers: whatever this probe
  has made is recorded, is the unit's under way, was never told of, or was warned of,
  at every step of a creation and after each part of the cleanup. `TeardownLeavesNothing`,
  `ProbeSamplesItsOwn` and `ProbeFilesComplete` each have a strengthening of their own.
  `ProbeBounded` is the safety part of `ProbeEnds`: units, then attempts of a series, then
  forces and samples, in the order of a dictionary, get fewer with every step of a probe.
* `SitePublish_proofs`. `IInv` says what each step of the script may rely on (`Progress`,
  `Archived`) and what a script that heads for exit code 0 has achieved (`Heading`). The
  heart is a fact about the newest `Keep` of a set of manifests: one more expires others
  but keeps none in their place (`KeptAfterMore`), and deleting any of the expired ones
  does not change which are kept (`KeptAfterLess`), so that a prune that fails half-way
  leaves the promise as it was. From it `SiteServes` and `TasksTruthful`.

Some invariants are proved and no run lists them, as they follow from listed ones or
say less: `TypeOK`, `AllOrNothing` and `CompletedCyclesKept` of `CellRun`, `TypeOK`,
`RowsAccounted` and `MetaTruthful` of `RunPool`, `StartsOnTime` of `RateLimiter`, and
`TypeOK` and `CountedIsOnDisk` of `Pipeline`.

Every safety invariant and action property that a run checks is stated by a theorem.
Only model-checked is liveness (`Terminates`, `RunEnds`, `TeardownConverges`, `ProbeEnds` and
the fair half of `SamplesTheCell`, whose steps `RefinesSampling` proves), which needs fairness and so `ENABLED`, out of the prover's reach. What liveness needs
apart from that is proved: the bounds above say that a component cannot go on for ever,
and what is left to TLC is that it is never stuck before its end.

## Findings

1. The client retries invokes up to ten times. A warm invoke that is delivered twice
   may start a new sandbox and then report warm from it: a cycle of two sandboxes
   passes all checks (`cell_redelivered`).
2. A cell dropped between publishing a version and its becoming active leaks it: the
   guard is armed later (`pool_cancelled`).
3. `wait_ready` compares with a revision that may itself be stale, and then takes the
   revision of an earlier update for its own (`control_stale`).
4. A `CreateAlias` that worked but whose answer was lost has its key scheduled for
   deletion with the alias in place; the next deploy wires every function to the
   dying key, and so does one after a teardown whose `DeleteAlias` failed, because
   the sweep schedules the key all the same (`provisioning_key`).

Seen but not claimed, as the statement is loose, its author would call it covered, or a
run above already shows its cause:

* "Any violation aborts the whole run" (`run.rs:16`): a cell retries violations like any
  other error, and only a cell that is out of attempts aborts the run.
* "So a run that publishes many versions stays bounded" (`lambda.rs:568-570`, and
  `src/README.md:426-427`): an attempt whose publish errs after Lambda took it (a lost
  answer, or a failing `wait_version_active`, `lambda.rs:515`) leaves its version before
  the guard is armed (`run.rs:524-532`); the retry publishes another, and nobody ever
  deletes the first. `VersionsBounded` is what holds: at most one for each failed attempt,
  next to the guarded ones. The cause is that of finding 2, without a cancellation.
* A bump changes "ONLY the `COLD_NONCE`" of the environment it has read
  (`lambda.rs:432-433`), which by finding 3's cause may be the one of before the deploy:
  when the deploy's code update is delivered twice and reads lag, the wait for the
  configuration update takes the repeat's revision for its own, and `cmd_run` goes on to
  the run (`main.rs:315` to `391`) although no read has shown the new environment. The
  first bump then puts the old one back, and the later ones keep it. TLC shows it for
  `DeployedConfigKept` in the world `World("old", FALSE, {"lag", "calls"}, 3)`;
  `DeployedConfigStays` is proved for the worlds without that combination.
* The limiter spaces slots, not "request STARTS" (`rate_limiter.rs:5`): a timer that fires
  late brings two starts closer together. `StartsAlmostApart` is the true form.
* A crash can leave the last cell of a results file in part, where `record.rs:130-131`
  says "never a partial one". `WholeCellsThenOnePart` is the true form.
* "A stale/partial dist/ cannot silently run the wrong code" (`build.rs:37`): a run with
  `--skip-build` after an edit runs the code of before, and a zip that is readable but
  not whole is taken. `MeasuredCode` and `FreshUnlessSkipped` are what holds.
* `create_function_from_zip` "assumes a fresh, run-unique name" (`lambda.rs:171-172`); the
  probe's names are fixed, so that what one probe leaves behind makes the next one fail
  until a teardown. `SamplesItsOwn` is what holds.
* A manifest is recorded for each attempt to publish, not for each build that went
  live: after `KEEP_BUILDS` - 1 publishes that failed between two that succeeded, the
  second one deletes the assets of the first, which `run-benchmark.sh:21` and
  `deploy/README.md:215` would have stay. `KeptBuildsServed` is what holds. Two tasks that
  publish at the same time could delete each other's assets before they are recorded.
* `wait_ready` looks at a `Failed` status before the revision (`lambda.rs:629`), so that a
  lagging read of an earlier failure fails the next update; the caller retries.
* A crash between `CreateKey` and `CreateAlias` leaves an enabled key that only the next
  teardown's sweep finds, and every deploy until then makes do with another one.

## What could follow

* `RunPool` over `ResultsFile` instead of its own three outcomes of a write.

## Not modelled

* The CDK stacks, scenarios and one-off experiments: declared infrastructure and
  straight-line handlers, without state that outlives a step.
* The site's aggregation and charts: pure functions over floating-point samples, with
  tests of their own. The checks of the prose (`scripts/`): they only warn.
* What an external toolchain does inside a build task, compression, the padding of
  synthetic functions, the image layers, the generation of payloads.
* Of the download-start probe the caller's warm series and the statistics; `Pipeline` has
  its targets, its preflight and its sampling as one outcome.
* The text of reports, rows, names and metadata, the repository's lifecycle policy, pages of a listing: data that no property tells
  apart. Of the parser, `CellRun` and `ColdSeries` have what the drivers read.
* Other clients of the account. The bencher assumes it is alone with its names.
