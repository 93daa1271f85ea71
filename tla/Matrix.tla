------------------------------- MODULE Matrix -------------------------------
(***************************************************************************)
(* The benchmark matrix (bencher/src/config.rs): which cells exist, what   *)
(* each is called, which artifact it deploys and how often it is invoked;  *)
(* and the two commands' selections from it (select_cells in main.rs,      *)
(* resolve_targets in probe/download_start.rs).                            *)
(*                                                                         *)
(* Names are sequences of the parts that the code joins with a hyphen; an  *)
(* absent Option is "none".                                                *)
(***************************************************************************)
EXTENDS Integers, Sequences, FiniteSets, FiniteSetsExt, TLC

Langs == {"rust", "node", "java", "python", "go"}
Scenarios == {"hello", "smithy", "oneclient", "threeclient", "smithyfull",
              "lettercount", "authz", "batch", "cache"}
Archs == {"arm64", "x86_64"}
MEMORY_MB == {128, 256, 512, 1024, 2048, 3008}
Opts == {"o3", "oz"}
JITTER_AB_SCENARIOS == {"oneclient", "lettercount"}

FULL_LIGHT_COUNTS == [cold |-> 50, warm |-> 50]
SMOKE_COUNTS == [cold |-> 2, warm |-> 2]
SNAPSTART_COLD_CYCLES == 10

SYNTH_DEFAULT_SIZES_MB == {1, 10, 50, 100, 200}
SYNTH_FAMILIES == {<<"python">>, <<"rust">>, <<"image", "untouched">>, <<"image", "touched">>}

-----------------------------------------------------------------------------
(* Which cells there are.                                                  *)

supports(lang, scenario) ==
  lang \in {"python", "go"} => scenario \notin {"smithy", "smithyfull"}

min_memory_mb(scenario, lang, snapstart) ==
  CASE scenario = "batch" /\ lang = "java" -> IF snapstart THEN 1024 ELSE 512
    [] scenario = "batch" /\ lang # "java" -> 256
    [] scenario = "smithyfull" /\ lang = "java" /\ snapstart -> 256
    [] scenario = "lettercount" /\ lang = "java" -> 512
    [] scenario = "cache" -> 512
    [] OTHER -> 128

Plain == [opt |-> "none", snapstart |-> FALSE, jitter |-> "none"]

\* The variants of a language's cells in a scenario: opt-levels and the jitter
\* diagnostic for Rust, SnapStart for Java.
Variants(lang, scenario) ==
  CASE lang = "rust" ->
         [opt : Opts, snapstart : {FALSE}, jitter : {"off"}]
           \cup [opt : {"o3"}, snapstart : {FALSE},
                 jitter : {"on" : s \in {scenario} \cap JITTER_AB_SCENARIOS}]
    [] lang = "java" -> {[Plain EXCEPT !.snapstart = s] : s \in BOOLEAN}
    [] OTHER -> {Plain}

Cell ==
  [lang : Langs, scenario : Scenarios, arch : Archs, memory_mb : MEMORY_MB,
   opt : Opts \cup {"none"}, snapstart : BOOLEAN, jitter : {"on", "off", "none"}]

all_cells ==
  {c \in Cell :
     /\ supports(c.lang, c.scenario)
     /\ [opt |-> c.opt, snapstart |-> c.snapstart, jitter |-> c.jitter] \in Variants(c.lang, c.scenario)
     /\ c.memory_mb >= min_memory_mb(c.scenario, c.lang, c.snapstart)}

cells_for_langs(langs) == {c \in all_cells : langs = {} \/ c.lang \in langs}

-----------------------------------------------------------------------------
(* Names and artifacts.                                                    *)

Segment(present, text) == IF present THEN <<text>> ELSE <<>>

\* Numbers that are written alike are the same number.
ASSUME WrittenAssumption == \A m, n \in MEMORY_MB : ToString(m) = ToString(n) => m = n

\* Faulty: the jitter variant is not told apart by its name.
UnjitteredName(c) ==
  <<"lambdabench", c.lang, c.scenario, c.arch>>
    \o Segment(c.opt # "none", c.opt) \o Segment(c.snapstart, "snap")
    \o <<ToString(c.memory_mb)>>

function_name(c) ==
  <<"lambdabench", c.lang, c.scenario, c.arch>>
    \o Segment(c.opt # "none", c.opt) \o Segment(c.snapstart, "snap")
    \o Segment(c.jitter = "on", "jitter") \o <<ToString(c.memory_mb)>>

synth_function_name(family, mb) ==
  <<"lambdabench", "synthdl">> \o family \o <<ToString(mb) \o "mb">>

\* Faulty: only the matrix is enumerated.
MatrixNamesOnly == {function_name(c) : c \in all_cells}

all_managed_function_names ==
  {function_name(c) : c \in all_cells}
    \cup {synth_function_name(f, mb) : f \in SYNTH_FAMILIES, mb \in SYNTH_DEFAULT_SIZES_MB}

arch_significant(lang, scenario) ==
  lang \in {"rust", "go"} \/ (lang = "python" /\ scenario = "authz")

artifact_key(c) ==
  [lang |-> c.lang, scenario |-> c.scenario,
   arch |-> IF arch_significant(c.lang, c.scenario) THEN c.arch ELSE "arm64",
   opt |-> c.opt, jitter |-> c.jitter]

label(key) ==
  <<key.lang, key.scenario>>
    \o Segment(arch_significant(key.lang, key.scenario), key.arch)
    \o Segment(key.lang = "rust", key.opt) \o Segment(key.jitter = "on", "jitter")

unique_artifacts(cells) == {artifact_key(c) : c \in cells}

-----------------------------------------------------------------------------
(* How often a cell is invoked.                                            *)

\* Faulty: only the diagnostic half of a pair gets the light counts.
JitterOnOnly(c) == c.jitter = "on"

is_jitter_ab(c) == c.lang = "rust" /\ c.opt = "o3" /\ c.scenario \in JITTER_AB_SCENARIOS

full_base_counts(scenario, lang, memory_mb) ==
  LET starved == lang = "python" /\ memory_mb <= 256
  IN CASE scenario = "lettercount" /\ starved -> [cold |-> 5, warm |-> 300]
       [] scenario = "batch" /\ starved -> [cold |-> 5, warm |-> 200]
       [] scenario = "batch" /\ ~starved -> [cold |-> 15, warm |-> 200]
       [] scenario \in {"cache", "authz"} -> [cold |-> 5, warm |-> 1500]
       [] scenario = "lettercount" /\ ~starved -> [cold |-> 5, warm |-> 1500]
       [] OTHER -> FULL_LIGHT_COUNTS

iterations(c, profile) ==
  LET base == CASE profile = "smoke" -> SMOKE_COUNTS
                [] profile = "full" /\ is_jitter_ab(c) -> FULL_LIGHT_COUNTS
                [] OTHER -> full_base_counts(c.scenario, c.lang, c.memory_mb)
  IN [base EXCEPT !.cold = IF c.snapstart /\ @ > SNAPSTART_COLD_CYCLES
                           THEN SNAPSTART_COLD_CYCLES ELSE @]

\* The rows a completed cell records: 1 + warm for each cold cycle.
InvocationsOf(n) == n.cold * (1 + n.warm)

\* What the functions of one bucket, those with the counts n, come to.
BucketInvocations(cells, n, profile) ==
  InvocationsOf(n) * Cardinality({c \in cells : iterations(c, profile) = n})

iteration_buckets(cells, profile) ==
  {[counts |-> n, invocations |-> BucketInvocations(cells, n, profile)] :
     n \in {iterations(c, profile) : c \in cells}}

planned(cells, profile) == MapThenSumSet(LAMBDA b : b.invocations, iteration_buckets(cells, profile))

-----------------------------------------------------------------------------
(* Selecting cells.  args has the values of --lang, --only, --memory and   *)
(* --arch; a filter not given is {} or "".                                 *)

validate_memory_tiers(values) == values \subseteq MEMORY_MB
ArchValid(arch) == arch \in Archs \cup {""}

SelectionValid(args) ==
  /\ args.langs \subseteq Langs
  /\ \A p \in args.only :
       /\ p[1] \in Langs /\ p[2] \in Scenarios
       /\ supports(p[1], p[2])
       /\ args.langs = {} \/ p[1] \in args.langs
  /\ ArchValid(args.arch)
  /\ validate_memory_tiers(args.memory)

select_cells(args) ==
  {c \in cells_for_langs(args.langs) :
     /\ args.only = {} \/ <<c.lang, c.scenario>> \in args.only
     /\ args.memory = {} \/ c.memory_mb \in args.memory
     /\ args.arch = "" \/ c.arch = args.arch}

\* The download-start probe's own targets: vCPU, size and language axes.
SizeAxis ==
  ({"node", "python", "java"} \X {"hello"})
    \cup {<<"python", "authz">>, <<"rust", "smithyfull">>, <<"java", "smithyfull">>,
          <<"python", "oneclient">>}
LanguageAxis ==
  ({"rust", "java", "node"} \X {"smithyfull"}) \cup {<<"python", "oneclient">>, <<"go", "oneclient">>}

default_targets ==
  {<<"rust", "hello", m>> : m \in {128, 512, 3008}}
    \cup {<<p[1], p[2], 512>> : p \in SizeAxis}
    \cup {<<p[1], p[2], m>> : p \in LanguageAxis, m \in {512, 3008}}

WantedTargets(args) ==
  LET pairs == IF args.only = {} THEN {<<t[1], t[2]>> : t \in default_targets} ELSE args.only
      mems == IF args.memory = {} THEN {512} ELSE args.memory
  IN IF args.only = {} /\ args.memory = {}
     THEN default_targets
     ELSE {<<p[1], p[2], m>> : p \in pairs, m \in mems}

TargetsValid(args) ==
  /\ args.arch \in Archs
  /\ validate_memory_tiers(args.memory)
  /\ \A p \in args.only : p[1] \in Langs /\ p[2] \in Scenarios /\ supports(p[1], p[2])

AboveFloor(t) == t[3] >= min_memory_mb(t[2], t[1], FALSE)

\* The plain cell a target stands for: o3 without the diagnostic on Rust.
Headline(c) == ~c.snapstart /\ c.jitter # "on" /\ (c.lang = "rust" => c.opt = "o3")

Matching(t, arch) ==
  {c \in all_cells : /\ c.lang = t[1] /\ c.scenario = t[2] /\ c.memory_mb = t[3]
                     /\ c.arch = arch /\ Headline(c)}

\* Every target at or above its floor has a cell; otherwise the probe bails.
TargetsResolve(args) ==
  \A t \in WantedTargets(args) : AboveFloor(t) => Matching(t, args.arch) # {}

resolve_targets(args) ==
  UNION {Matching(t, args.arch) : t \in {t \in WantedTargets(args) : AboveFloor(t)}}
=============================================================================
