----------------------------- MODULE DriverArgs -----------------------------
(***************************************************************************)
(* The arguments of kani and cargo-kani: what the command line and the     *)
(* configuration in Cargo.toml make together, what is refused, and the     *)
(* flags that the compiler, cargo and CBMC get for them (kani-driver:      *)
(* args/, args_toml.rs, call_single_file.rs, call_cbmc.rs, autoharness/).  *)
(*                                                                         *)
(* A token is an option with its value or a word; a text value is written  *)
(* in s, a number in n.                                                    *)
(***************************************************************************)
EXTENDS Naturals, Sequences, FiniteSets, SequencesExt

CONSTANTS
    PathKind,   \* what the paths on the command line name: a file, a directory ...
    RustFlags   \* the tokens of the environment variable RUSTFLAGS

Text(s) == [s |-> s, n |-> 0]
Num(n) == [s |-> "", n |-> n]
Suffixed(n, s) == [s |-> s, n |-> n]
NoValue == Text("absent")

Opt(name, value) == [t |-> "opt", name |-> name, value |-> value]
On(name) == Opt(name, NoValue)
Z(feature) == Opt("Z", Text(feature))
Word(w) == [t |-> "word", name |-> w, value |-> NoValue]

When(cond, tokens) == IF cond THEN tokens ELSE <<>>

-----------------------------------------------------------------------------
(* The options of each command.                                            *)

CheckArgs == {"no-default-checks", "no-memory-safety-checks", "no-overflow-checks",
              "no-undefined-function-checks", "no-unwinding-checks"}
CommonArgs == {"debug", "quiet", "verbose", "enable-unstable", "dry-run"}
CargoCommonArgs == {"all-features", "no-default-features", "workspace"}
CargoCommonValues == {"exclude", "features", "manifest-path", "package"}
CargoTargetArgs == {"bins", "lib"}

VerificationFlags ==
    {"coverage", "exact", "extra-pointer-checks", "fail-fast", "force-build", "gen-c", "ignore-global-asm",
     "keep-temps", "no-assert-contracts", "no-assertion-reach-checks", "no-codegen", "no-restrict-vtable",
     "no-slice-formula", "only-codegen", "output-into-files", "print-llbc", "prove-safety-only",
     "restrict-vtable", "run-sanity-checks", "synthesize-loop-contracts", "tests", "write-json-symtab"}
    \cup CheckArgs \cup CommonArgs \cup CargoCommonArgs \cup CargoTargetArgs
VerificationValues ==
    {"c-lib", "concrete-playback", "default-unwind", "harness", "harness-timeout", "output-format", "sarif",
     "solver", "target-dir", "unwind", "Z", "bin"} \cup CargoCommonValues
OptionalValues == {"jobs", "randomize-layout"}
AutoharnessArgs == {"list", "std"}
AutoharnessValues == {"include-pattern", "exclude-pattern", "format"}
PlaybackArgs == {"only-codegen"}

HasValue(tok) == tok.value # NoValue
\* Values that are not of the type of their option; Timeout and
\* CbmcSolverValueParser say so themselves.
Units == {"", "s", "m", "h"}
Timeout(v) == v.s \in Units
CbmcSolver == {"bitwuzla", "cadical", "cvc5", "kissat", "minisat", "z3", "bin=solver", "bin=missing"}
UnstableFeature ==
    {"async-lib", "autoharness", "concrete-playback", "c-ffi", "float-lib", "function-contracts", "gen-c", "ghost-state",
     "lean", "loop-contracts", "mem-predicates", "restrict-vtable", "source-coverage", "stubbing", "quantifiers",
     "uninit-checks", "unstable-options", "valid-value-checks"}
ValueOk(tok) ==
    CASE tok.name = "Z" -> tok.value.s \in UnstableFeature
      [] tok.name = "harness-timeout" -> Timeout(tok.value)
      [] tok.name = "solver" -> tok.value.s \in CbmcSolver
      [] tok.name = "output-format" -> tok.value.s \in {"regular", "terse", "old"}
      [] tok.name = "concrete-playback" -> tok.value.s \in {"print", "inplace"}
      [] OTHER -> TRUE

Accepts(command, tok) ==
    LET flags == CASE command = "list" -> CommonArgs \cup {"std"}
                   [] command = "playback" -> CommonArgs \cup PlaybackArgs \cup CargoCommonArgs \cup CargoTargetArgs
                   [] command = "autoharness" -> VerificationFlags \cup AutoharnessArgs
                   [] OTHER -> VerificationFlags
        values == CASE command = "list" -> {"format", "Z"}
                    [] command = "playback" -> CargoCommonValues \cup {"Z", "bin", "message-format"}
                    [] command = "autoharness" -> VerificationValues \cup AutoharnessValues
                    [] OTHER -> VerificationValues
    IN  \/ tok.name \in flags /\ ~HasValue(tok)
        \/ tok.name \in values /\ HasValue(tok) /\ ValueOk(tok)
        \/ tok.name \in OptionalValues /\ command \notin {"list", "playback"}

-----------------------------------------------------------------------------
(* A set of parsed arguments: the options in their order, what follows     *)
(* --cbmc-args, and the free arguments.                                    *)

NoArgs == [given |-> <<>>, cbmc |-> <<>>, words |-> <<>>]
has(a, name) == \E i \in DOMAIN a.given : a.given[i].name = name
All(a, name) == LET of == SelectSeq(a.given, LAMBDA tok : tok.name = name)
                IN  [i \in DOMAIN of |-> of[i].value]
\* args_override_self: the last one counts.
Single(a, name) == IF has(a, name) THEN Last(All(a, name)) ELSE NoValue
feature(a, f) == \E i \in DOMAIN a.given : a.given[i] = Z(f)
enable_feature(a, f) == IF feature(a, f) THEN a ELSE [a EXCEPT !.given = Append(@, Z(f))]
OutputFormat(a) == IF has(a, "output-format") THEN Single(a, "output-format").s ELSE "regular"

quiet(a) == has(a, "quiet")
verbose(a) == has(a, "verbose") \/ has(a, "debug")

memory_safety_on(a) == ~has(a, "no-default-checks") /\ ~has(a, "no-memory-safety-checks")
overflow_on(a) == ~has(a, "no-default-checks") /\ ~has(a, "no-overflow-checks")
unwinding_on(a) == ~has(a, "no-default-checks") /\ ~has(a, "no-unwinding-checks")

include_bin(a, name) ==
    has(a, "bins") \/ (~has(a, "bin") /\ ~has(a, "lib")) \/ \E i \in DOMAIN a.given : a.given[i] = Opt("bin", Text(name))
include_lib(a) == has(a, "lib") \/ (~has(a, "bins") /\ ~has(a, "bin"))
include_tests(a) == ~has(a, "lib") /\ ~has(a, "bins") /\ ~has(a, "bin")

restrict_vtable(a) == feature(a, "restrict-vtable") /\ ~has(a, "no-restrict-vtable")
is_function_contracts_enabled(a) == feature(a, "function-contracts")
is_stubbing_enabled(a) == feature(a, "stubbing") \/ is_function_contracts_enabled(a)
cbmc_object_bits(a) == IF \E i \in DOMAIN a.cbmc : a.cbmc[i].name = "object-bits" THEN <<>> ELSE <<16>>

\* NumThreads: 0 stands for the default of the thread pool.
jobs(a) == IF has(a, "jobs") THEN Single(a, "jobs").n ELSE 1
will_multithread(a) == jobs(a) # 1

-----------------------------------------------------------------------------
(* External: clap reads the tokens.  --cbmc-args takes all that follow.    *)

Conflicts == {{"quiet", "debug"}, {"quiet", "verbose"}, {"exclude", "package"}, {"package", "workspace"},
              {"restrict-vtable", "no-restrict-vtable"}, {"synthesize-loop-contracts", "unwind"},
              {"synthesize-loop-contracts", "default-unwind"}}
Requires == {<<"exact", "harness">>, <<"unwind", "harness">>, <<"exclude", "workspace">>}

RulesHold(command, a) ==
    /\ \A c \in Conflicts : \E name \in c : ~has(a, name)
    /\ \A r \in Requires : has(a, r[1]) => has(a, r[2])
    /\ command = "autoharness" /\ has(a, "format") => has(a, "list")

ReadToken(subcommands, s, tok) ==
    CASE s.eats -> [s EXCEPT !.args[s.at].cbmc = Append(@, tok)]
      [] ~s.eats /\ tok.name = "cbmc-args" /\ tok.t = "opt" ->
            [s EXCEPT !.eats = TRUE, !.ok = @ /\ s.command \notin {"list", "playback"}]
      [] ~s.eats /\ tok.t = "opt" /\ tok.name # "cbmc-args" ->
            [s EXCEPT !.args[s.at].given = Append(@, tok), !.ok = @ /\ Accepts(s.command, tok)]
      [] ~s.eats /\ tok.t = "word" /\ s.at = 1 /\ tok.name \in subcommands ->
            [s EXCEPT !.at = 2, !.command = tok.name]
      [] OTHER -> [s EXCEPT !.args[s.at].words = Append(@, tok.name)]

parse_from(tokens, subcommands) ==
    LET s == FoldLeft(LAMBDA acc, tok : ReadToken(subcommands, acc, tok),
                      [at |-> 1, command |-> "verify", ok |-> TRUE, eats |-> FALSE, args |-> <<NoArgs, NoArgs>>],
                      tokens)
    IN  [s EXCEPT !.ok = @ /\ RulesHold("verify", s.args[1]) /\ RulesHold(s.command, s.args[2])]

CargoKaniSubcommand == {"autoharness", "list", "playback"}
StandaloneSubcommand == {"autoharness", "list", "playback", "verify-std"}

CargoKaniArgs(tokens) ==
    LET p == parse_from(tokens, CargoKaniSubcommand)
    IN  [p EXCEPT !.ok = @ /\ p.args[1].words = <<>>]

\* args_conflicts_with_subcommands, and an input file unless there is one.
StandaloneArgs(tokens) ==
    LET p == parse_from(tokens, StandaloneSubcommand)
    IN  [p EXCEPT !.ok = /\ @
                         /\ Len(p.args[p.at].words) = 1
                         /\ p.at = 2 => p.args[1] = NoArgs]

-----------------------------------------------------------------------------
(* args_toml.rs: the configuration.  A value is [k, b, a]: a Boolean b, an *)
(* array of texts or one text in a, or something else.                     *)

Bool(b) == [k |-> "bool", b |-> b, a |-> <<>>]
Arr(texts) == [k |-> "array", b |-> FALSE, a |-> texts]
Str(text) == [k |-> "string", b |-> FALSE, a |-> <<text>>]
Other == [k |-> "other", b |-> FALSE, a |-> <<>>]
Tables == <<"workspace", "package", "kani">>
Disabling == {name \in VerificationFlags : SubSeq(name, 1, 3) = "no-"}

Keys(f) == SetToSeq(DOMAIN f)

\* A false entry adds nothing; other values are an error.
unstable_entry(name, value) == When(value = Bool(TRUE), <<Z(name)>>)

insert_arg_from_toml(flag, value) ==
    CASE value.k = "bool" -> IF value.b THEN <<On(flag)>> ELSE <<On("no-" \o flag)>>
      [] OTHER -> [i \in DOMAIN value.a |-> Opt(flag, value.a[i])]

BadEntry(flag, value) ==
    \/ value.k = "other"
    \/ value.k = "bool" /\ (flag = "cbmc-args" \/ (~value.b /\ flag \in Disabling))

cbmc_arg_from_toml(value) == [i \in DOMAIN value.a |-> Word(value.a[i].s)]

\* The entries of the later tables replace those of the earlier ones.
toml_to_args(config) ==
    LET flags == config["kani"].flags @@ config["package"].flags @@ config["workspace"].flags
        own == SelectSeq(Keys(flags), LAMBDA k : k # "cbmc-args")
        features(table) == LET u == config[table].unstable
                           IN  FlattenSeq([i \in DOMAIN Keys(u) |-> unstable_entry(Keys(u)[i], u[Keys(u)[i]])])
    IN  [ok |-> /\ \A k \in DOMAIN flags : ~BadEntry(k, flags[k])
                /\ \A t \in Range(Tables) : \A k \in DOMAIN config[t].unstable : config[t].unstable[k].k = "bool",
         args |-> features("workspace") \o features("package") \o features("kani")
                    \o FlattenSeq([i \in DOMAIN own |-> insert_arg_from_toml(own[i], flags[own[i]])]),
         cbmc |-> IF "cbmc-args" \notin DOMAIN flags THEN <<>>
                  ELSE <<On("cbmc-args")>> \o cbmc_arg_from_toml(flags["cbmc-args"])]

\* Mutant: the configuration comes last.
merge_argsConfigLast(cmd, kani, cbmc) == cmd \o kani \o cbmc

merge_args(cmd, kani, cbmc) ==
    LET Flags == {i \in DOMAIN cmd : cmd[i] = On("cbmc-args")}
        idx == CHOOSE i \in Flags : \A j \in Flags : i <= j
    IN  IF cbmc = <<>> \/ Flags = {} THEN kani \o cmd \o cbmc
        ELSE kani \o SubSeq(cmd, 1, idx - 1) \o cbmc \o SubSeq(cmd, idx + 1, Len(cmd))

\* Outside of a project there is no configuration; a manifest path names one.
cargo_locate_project(tokens, inProject) == inProject \/ has(CargoKaniArgs(tokens).args[1], "manifest-path")

join_args(tokens, config, inProject) ==
    IF ~cargo_locate_project(tokens, inProject) THEN [ok |-> TRUE, tokens |-> tokens]
    ELSE LET cfg == toml_to_args(config)
         IN  [ok |-> cfg.ok, tokens |-> merge_args(tokens, cfg.args, cfg.cbmc)]

-----------------------------------------------------------------------------
(* validate: TRUE when there is no error.                                  *)

CommonValid(a) == ~has(a, "dry-run") /\ ~has(a, "enable-unstable")

UnstableOptions ==
    {"gen-c", "cbmc-args", "no-codegen", "extra-pointer-checks", "ignore-global-asm", "run-sanity-checks",
     "no-slice-formula", "synthesize-loop-contracts", "output-into-files", "harness-timeout", "prove-safety-only"}
FeatureOf ==
    [name \in UnstableOptions |-> "unstable-options"] @@
    [name \in {"concrete-playback"} |-> "concrete-playback"] @@ [name \in {"c-lib"} |-> "c-ffi"] @@
    [name \in {"no-restrict-vtable"} |-> "restrict-vtable"] @@ [name \in {"coverage"} |-> "source-coverage"] @@
    [name \in {"print-llbc"} |-> "lean"] @@ [name \in {"no-assert-contracts"} |-> "function-contracts"]

enabled(a, name) == IF name = "cbmc-args" THEN a.cbmc # <<>> ELSE has(a, name)
check_unstable(a) == \A name \in DOMAIN FeatureOf : enabled(a, name) => feature(a, FeatureOf[name])

NativeUnwind(a) == has(a, "unwind") \/ has(a, "default-unwind")
InCbmcArgs(a, name) == \E i \in DOMAIN a.cbmc : a.cbmc[i].name = name
playback_mode(a) == Single(a, "concrete-playback").s

conflicting_options(a) ==
    \/ NativeUnwind(a) /\ (InCbmcArgs(a, "unwind") \/ InCbmcArgs(a, "unwindset"))
    \/ InCbmcArgs(a, "function")
    \/ quiet(a) /\ playback_mode(a) = "print"
    \/ (has(a, "concrete-playback") \/ has(a, "sarif")) /\ OutputFormat(a) = "old"
    \/ has(a, "concrete-playback") /\ will_multithread(a)
    \/ has(a, "sarif") /\ has(a, "only-codegen")
    \/ will_multithread(a) /\ OutputFormat(a) # "terse"
    \/ feature(a, "lean") /\ a.cbmc # <<>>

obsolete(a) == has(a, "write-json-symtab") \/ has(a, "restrict-vtable")

\* --target-dir is no file and --sarif no directory.
PathsValid(a) ==
    /\ has(a, "target-dir") => PathKind[Single(a, "target-dir").s] # "file"
    /\ has(a, "sarif") => PathKind[Single(a, "sarif").s] \notin {"directory", "library"}

VerificationValid(a) == CommonValid(a) /\ check_unstable(a) /\ ~conflicting_options(a) /\ ~obsolete(a) /\ PathsValid(a)

validate_std_path(path) == PathKind[path] = "library"
InputValid(a) == IF has(a, "std") THEN validate_std_path(a.words[1]) ELSE PathKind[a.words[1]] = "file"

\* `pretty` prints to the terminal.
FormatValid(a) == quiet(a) => has(a, "format") /\ Single(a, "format").s # "pretty"

AutoharnessValid(a) ==
    /\ \A p \in Range(All(a, "include-pattern")) \cup Range(All(a, "exclude-pattern")) : p.s # "not a regex"
    /\ VerificationValid(a) /\ feature(a, "autoharness")
    /\ has(a, "list") => FormatValid(a)
    /\ ~feature(a, "concrete-playback")

ListValid(a) == CommonValid(a) /\ FormatValid(a)
PlaybackValid(a) == CommonValid(a) /\ feature(a, "concrete-playback")
VerifyStdValid(a) == VerificationValid(a) /\ feature(a, "unstable-options") /\ validate_std_path(a.words[1])

\* impl ValidateArgs for CargoKaniArgs
CargoValid(p) ==
    /\ VerificationValid(p.args[1])
    /\ CASE p.command = "autoharness" -> AutoharnessValid(p.args[2])
         [] p.command = "list" -> ListValid(p.args[2])
         [] p.command = "playback" -> PlaybackValid(p.args[2])
         [] OTHER -> TRUE

\* check_no_cargo_opt
NoCargoOpt(a) == \A name \in CargoTargetArgs \cup CargoCommonArgs \cup CargoCommonValues \cup {"bin"} : ~has(a, name)

\* impl ValidateArgs for StandaloneArgs: playback is not validated.
StandaloneValid(p) ==
    /\ VerificationValid(p.args[1]) /\ NoCargoOpt(p.args[1])
    /\ CASE p.command = "autoharness" -> AutoharnessValid(p.args[2]) /\ InputValid(p.args[2])
         [] p.command = "list" -> ListValid(p.args[2]) /\ InputValid(p.args[2])
         [] p.command = "verify-std" -> VerifyStdValid(p.args[2])
         [] p.command = "playback" -> TRUE
         [] OTHER -> PathKind[p.args[1].words[1]] = "file"

-----------------------------------------------------------------------------
(* KaniSession, and the flags it passes on.                                *)

\* auto is autoharness_compiler_flags: none outside of the autoharness command.
KaniSession(a) == [args |-> a, auto |-> <<>>, is_auto |-> FALSE]

enable_autoharness(s) ==
    [s EXCEPT !.is_auto = TRUE,
              !.args = enable_feature(enable_feature(@, "function-contracts"), "loop-contracts")]
AUTOHARNESS_TIMEOUT == Suffixed(60, "s")
LOOP_UNWIND_DEFAULT == Num(20)
WithDefault(a, name, value) == IF has(a, name) THEN a ELSE [a EXCEPT !.given = Append(@, Opt(name, value))]
add_default_bounds(s) ==
    [s EXCEPT !.args = WithDefault(WithDefault(@, "harness-timeout", AUTOHARNESS_TIMEOUT),
                                   "default-unwind", LOOP_UNWIND_DEFAULT)]
Patterns(a, option, flag) == [i \in DOMAIN All(a, option) |-> Opt(flag, All(a, option)[i])]
add_auto_harness_args(s, a) ==
    [s EXCEPT !.auto = Patterns(a, "include-pattern", "autoharness-include-pattern")
                         \o Patterns(a, "exclude-pattern", "autoharness-exclude-pattern")]
setup_session(s, a) == add_auto_harness_args(add_default_bounds(enable_autoharness(s)), a)

reachability_mode(s) == IF s.is_auto THEN "all_fns" ELSE "harnesses"
reachability_arg(s) == Opt("reachability", Text(reachability_mode(s)))
kani_compiler_dependency_flags(s) == <<On("check-version")>> \o When(has(s.args, "ignore-global-asm"), <<On("ignore-global-asm")>>)

LogLevel(a) == IF has(a, "debug") THEN "debug" ELSE IF has(a, "verbose") THEN "info" ELSE "warn"

kani_compiler_local_flags(s) ==
    LET a == s.args
        filters == All(a, "harness")
    IN  <<Opt("log-level", Text(LogLevel(a)))>>
          \o When(restrict_vtable(a), <<On("restrict-vtable-fn-ptrs")>>)
          \o When(~has(a, "no-assertion-reach-checks"), <<On("assertion-reach-checks")>>)
          \o When(is_stubbing_enabled(a), <<On("enable-stubbing")>>)
          \o When(has(a, "coverage"), <<On("coverage-checks")>>)
          \o When(feature(a, "valid-value-checks"), <<Opt("ub-check", Text("validity"))>>)
          \o When(feature(a, "uninit-checks"), <<Z("ghost-state"), Opt("ub-check", Text("uninit"))>>)
          \o When(feature(a, "lean"), <<Opt("backend", Text("llbc"))>>)
          \o When(has(a, "print-llbc"), <<On("print-llbc")>>)
          \o When(has(a, "no-assert-contracts"), <<On("no-assert-contracts")>>)
          \o [i \in DOMAIN filters |-> Opt("harness", filters[i])]
          \o When(has(a, "exact"), <<On("exact")>>)
          \o s.auto
          \o When(has(a, "prove-safety-only"), <<On("prove-safety-only")>>)
          \o SelectSeq(a.given, LAMBDA tok : tok.name = "Z")

C(value) == Opt("C", Text(value))
LibConfig(lib) == IF lib = "no_core" THEN <<Opt("L", Text(lib)), Opt("extern", Text("kani_core"))>>
                  ELSE <<Opt("sysroot", Text(lib)), Opt("L", Text(lib)), Opt("extern", Text("kani")),
                         Opt("extern", Text("noprelude:std"))>>
base_rustc_flags(lib) ==
    <<C("overflow-checks=on"), Z("unstable-options"), Z("trim-diagnostic-paths=no"), Z("human_readable_cgu_names"),
      Z("always-encode-mir"), Opt("cfg", Text("kani")), Z("crate-attr=feature(register_tool)"),
      Z("crate-attr=register_tool(kanitool)")>> \o LibConfig(lib) \o RustFlags

kani_rustc_flags(s, lib) ==
    LET a == s.args
    IN  base_rustc_flags(lib)
          \o When(has(a, "coverage"), <<C("instrument-coverage"), Z("no-profiler-runtime")>>)
          \o <<C("panic=abort"), C("symbol-mangling-version=v0"), Z("panic_abort_tests=yes"),
               Z("mir-enable-passes=-RemoveStorageMarkers"), Opt("check-cfg", Text("cfg(kani)")), C("linker=echo")>>
          \o When(has(a, "no-codegen"), <<Z("no-codegen")>>)
          \o When(has(a, "randomize-layout"), <<Z("randomize-layout")>>)
          \o When(Single(a, "randomize-layout") # NoValue, <<Opt("layout-seed", Single(a, "randomize-layout"))>>)
          \o When(has(a, "coverage"), <<Z("mir-enable-passes=-SingleUseConsts")>>)
          \o When(has(a, "prove-safety-only"), <<C("debug-assertions=off")>>)
          \o <<On("kani-compiler")>>

\* CargoCommonArgs and CargoTargetArgs: to_cargo_args
Flag(a, name) == When(has(a, name), <<On(name)>>)
features(a) == All(a, "features")
common_cargo_args(a) ==
    Flag(a, "all-features") \o Flag(a, "no-default-features")
      \o [i \in DOMAIN features(a) |-> Opt("features", features(a)[i])]
      \o When(has(a, "manifest-path"), <<Opt("manifest-path", Single(a, "manifest-path"))>>)
to_cargo_args(a) ==
    common_cargo_args(a) \o Flag(a, "workspace")
      \o [i \in DOMAIN All(a, "package") |-> Opt("package", All(a, "package")[i])]
      \o [i \in DOMAIN All(a, "bin") |-> Opt("bin", All(a, "bin")[i])]
      \o Flag(a, "bins") \o Flag(a, "lib")
cargo_config_args == <<On("target"), Z("host-config"), Z("target-applies-to-host"), On("config")>>

-----------------------------------------------------------------------------
(* The flags of CBMC.                                                      *)

cbmc_check_flags(a) ==
    <<On("no-malloc-may-fail"), On("no-undefined-shift-check"), On("no-signed-overflow-check")>>
      \o When(~memory_safety_on(a), <<On("no-bounds-check"), On("no-pointer-check")>>)
      \o (IF overflow_on(a) THEN <<On("nan-check")>> ELSE <<On("no-div-by-zero-check")>>)
      \o (IF unwinding_on(a) THEN <<On("no-self-loops-to-assumptions")>> ELSE <<On("no-unwinding-assertions")>>)
      \o (IF has(a, "extra-pointer-checks") THEN <<On("pointer-overflow-check")>>
          ELSE <<On("no-pointer-primitive-check")>>)

resolve_unwind_value(a, h) ==
    IF has(a, "unwind") THEN Single(a, "unwind")
    ELSE IF h.unwind # NoValue THEN h.unwind ELSE Single(a, "default-unwind")

DEFAULT_SOLVER == "cadical"
Solver(a, h) == IF has(a, "solver") THEN Single(a, "solver").s ELSE IF h.solver # "" THEN h.solver ELSE DEFAULT_SOLVER
SolverMissing(a, h) == Solver(a, h) = "bin=missing"
handle_solver_args(a, h) ==
    CASE Solver(a, h) \in {"bitwuzla", "cvc5", "z3"} -> <<On(Solver(a, h))>>
      [] Solver(a, h) = "cadical" -> <<Opt("sat-solver", Text("cadical"))>>
      [] Solver(a, h) = "minisat" -> <<>>
      [] OTHER -> <<Opt("external-sat-solver", Text(Solver(a, h)))>>

cbmc_flags(a, h) ==
    LET unwind == resolve_unwind_value(a, h)
    IN  cbmc_check_flags(a)
          \o [i \in DOMAIN cbmc_object_bits(a) |-> Opt("object-bits", Num(cbmc_object_bits(a)[i]))]
          \o When(unwind # NoValue, <<Opt("unwind", unwind)>>)
          \o handle_solver_args(a, h)
          \o When(has(a, "run-sanity-checks"), <<On("validate-goto-model"), On("validate-ssa-equation")>>)
          \o When(~has(a, "concrete-playback") /\ ~has(a, "no-slice-formula"), <<On("slice-formula")>>)
          \o When(has(a, "concrete-playback"), <<On("trace")>>)
          \o a.cbmc \o <<Opt("verbosity", Num(9))>>
=============================================================================
