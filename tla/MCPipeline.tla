----------------------------- MODULE MCPipeline -----------------------------
(***************************************************************************)
(* The commands with every combination of filters on the selection, and    *)
(* built and run for a few small ones: the jitter pair, Python's native    *)
(* scenario on both architectures, and SnapStart beside its plain twin.    *)
(***************************************************************************)
EXTENDS Pipeline

Arguments(langs, only, memory, arch, skips) ==
  {[langs |-> l, only |-> o, memory |-> m, arch |-> a,
    skip_build |-> s[1], skip_deploy |-> s[2]] :
     l \in langs, o \in only, m \in memory, a \in arch, s \in skips}

\* Rust's headline builds at two opt-levels and the jitter diagnostic: three cells.
JitterCells(skips) == Arguments({{}}, {{<<"rust", "lettercount">>}}, {{512}}, {"arm64"}, skips)
\* Python's authz on both architectures: two cells and two artifacts.
NativePython == Arguments({{"python"}}, {{<<"python", "authz">>}}, {{512}}, {""}, {<<FALSE, FALSE>>})
\* Every pairing of filters, most of them selecting more than is then built.
Selections ==
  Arguments({{}, {"java"}, {"rust", "python"}},
            {{}, {<<"rust", "lettercount">>, <<"python", "authz">>}, {<<"java", "batch">>},
             {<<"go", "smithy">>}},
            {{}, {128}, {256, 1024}, {1000}}, {"", "arm64", "x86_64", "amd64"},
            {<<FALSE, FALSE>>})

MCFirstArgs == JitterCells({<<FALSE, FALSE>>}) \cup NativePython \cup Selections
MCLaterArgs ==
  JitterCells({<<TRUE, FALSE>>, <<FALSE, TRUE>>, <<TRUE, TRUE>>})
    \cup Arguments({{"python"}}, {{<<"python", "authz">>}}, {{512}}, {"x86_64"},
                   {<<FALSE, FALSE>>, <<TRUE, FALSE>>})

MCProbeArgs ==
  Arguments({{}}, {{<<"rust", "lettercount">>}}, {{512}}, {"arm64"}, {<<TRUE, TRUE>>})
    \cup Arguments({{}}, {{}}, {{}, {128, 512}, {3008}}, {"arm64", "x86_64"}, {<<TRUE, TRUE>>})

MCBuildLangs == {{"java"}}
MCLeftover == {<<<<"image", "touched">>, 200>>}
=============================================================================
