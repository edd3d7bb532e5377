------------------------------- MODULE Driver -------------------------------
(***************************************************************************)
(* kani-driver from its command line to its exit code: reading the         *)
(* arguments, building the targets one by one, linking, checking one       *)
(* harness after another with CBMC's output read line by line, concrete    *)
(* playback into the user's source files, and the reports (kani-driver:    *)
(* main.rs, harness_runner.rs, call_cbmc.rs, autoharness/, sarif.rs,       *)
(* coverage/, concrete_playback/playback.rs).                              *)
(*                                                                         *)
(* Tools may fail and the driver may be killed at any step, MaxFaults      *)
(* times in all; the user may run it again, on the files it left.          *)
(***************************************************************************)
EXTENDS CargoBuild

CONSTANTS
    Commands,    \* invocations: [exe, tokens, config, inProject]
    Again,       \* the ones that may follow, besides the same again
    MaxRuns,     \* bound: invocations one after another
    MaxFaults,   \* bound: failures of tools, and kills
    SourceFiles  \* the user's files, by name

VARIABLES
    inv,       \* the invocation
    pc,        \* where main is
    sess,      \* KaniSession
    plan,      \* the command, what it builds from, and its format
    call,      \* the flags for cargo, for all crates and for the local one
    queue,     \* the targets that are still to be built
    metadata,  \* the metadata of the crates that are built
    linked,    \* the harnesses that have a goto file
    todo,      \* the harnesses that are still to be checked
    cbmc,      \* the CBMC process and the parser of its output
    results,   \* HarnessResult of each harness
    files,     \* the user's source files
    temp,      \* a new version of a source file, before it is renamed
    report,    \* the SARIF log, the summary and the list
    exit,      \* the exit code of main
    faults, runs

vars == <<inv, pc, sess, plan, call, queue, metadata, linked, todo, cbmc, results, files, temp, report, exit,
          faults, runs>>
built == <<call, queue, metadata, linked>>
checked == <<todo, cbmc, results, files, temp>>
asked == <<inv, sess, plan>>

NoPlan == [command |-> "none", how |-> "none", input |-> "", format |-> "pretty"]
NoCall == [cargo |-> <<>>, target |-> <<>>, all |-> <<>>, local |-> <<>>]
NoCbmc == [items |-> <<>>, left |-> <<>>, parser |-> NewParser, processed |-> <<>>, code |-> 0, flags |-> <<>>]
NoTemp == [file |-> "", content |-> <<>>]
NoReport == [sarif |-> <<>>, summary |-> <<>>, list |-> <<>>]

\* Files are written at once; what is left of a process is its exit code.
Exit(code) == exit' = code /\ pc' = "done"

-----------------------------------------------------------------------------
(* main: arguments.                                                        *)

\* 'cargo kani' runs 'cargo-kani kani'.
CargoWord(c) == c.tokens # <<>> /\ c.tokens[1] = Word("kani")
InvocationType(c) == IF CargoWord(c) \/ c.exe = "cargo-kani" THEN "CargoKani" ELSE "Standalone"
InputArgs(c) == IF CargoWord(c) THEN Tail(c.tokens) ELSE c.tokens

\* list: the common options are those after the subcommand.
WithCommon(outer, inner) ==
    LET common(tok) == tok.name \in CommonArgs \cup {"Z"}
    IN  [outer EXCEPT !.given = SelectSeq(@, LAMBDA tok : ~common(tok)) \o SelectSeq(inner.given, common)]

SessionOf(p) ==
    CASE p.command = "autoharness" -> setup_session(KaniSession(p.args[2]), p.args[2])
      [] p.command = "list" -> KaniSession(WithCommon(p.args[1], p.args[2]))
      [] OTHER -> KaniSession(p.args[p.at])
PlanOf(p, cargo) ==
    LET a == p.args[p.at]
    IN  [command |-> IF p.command = "autoharness" /\ has(a, "list") THEN "autolist" ELSE p.command,
         how |-> CASE cargo -> "cargo"
                   [] ~cargo /\ (p.command = "verify-std" \/ has(a, "std")) -> "std"
                   [] OTHER -> "file",
         input |-> IF cargo \/ a.words = <<>> THEN "" ELSE a.words[1],
         format |-> IF has(a, "format") THEN Single(a, "format").s ELSE "pretty"]

\* clap and check_is_valid end the process themselves.
cargokani_main(c) ==
    LET joined == join_args(InputArgs(c), c.config, c.inProject)
        p == CargoKaniArgs(joined.tokens)
    IN  IF joined.ok /\ p.ok /\ CargoValid(p)
        THEN /\ sess' = SessionOf(p) /\ plan' = PlanOf(p, TRUE)
             /\ pc' = (IF p.command = "playback" THEN "playback" ELSE "plan") /\ UNCHANGED exit
        ELSE Exit("usage") /\ UNCHANGED <<sess, plan>>

standalone_main(c) ==
    LET p == StandaloneArgs(InputArgs(c))
    IN  IF p.ok /\ StandaloneValid(p)
        THEN /\ sess' = SessionOf(p) /\ plan' = PlanOf(p, FALSE)
             /\ pc' = (IF p.command = "playback" THEN "playback" ELSE "plan") /\ UNCHANGED exit
        ELSE Exit("usage") /\ UNCHANGED <<sess, plan>>

Main(c) ==
    /\ pc = "start"
    /\ inv' = c
    /\ IF InvocationType(c) = "CargoKani" THEN cargokani_main(c) ELSE standalone_main(c)
    /\ UNCHANGED <<built, checked, report, faults, runs>>

-----------------------------------------------------------------------------
(* The build.                                                              *)

\* The arguments of cargo rustc, those that all crates get through the
\* environment and those of the local crate.
cargo_build_call(s) ==
    LET a == s.args
    IN  [cargo |-> <<Word("rustc")>> \o common_cargo_args(a) \o cargo_config_args
                     \o When(has(a, "tests"), <<Opt("profile", Text("test"))>>),
         target |-> <<>>,
         all |-> kani_rustc_flags(s, "lib") \o kani_compiler_dependency_flags(s),
         local |-> <<reachability_arg(s)>> \o kani_compiler_local_flags(s)]
cargo_build_std_call(s) ==
    [cargo |-> <<Word("build")>> \o cargo_config_args \o <<Z("build-std=panic_abort,core,std")>>,
     target |-> <<>>,
     all |-> kani_rustc_flags(s, "no_core") \o kani_compiler_local_flags(s)
               \o <<On("ignore-global-asm"), reachability_arg(s)>>,
     local |-> <<>>]
compile_single_rust_file_call(s) ==
    [cargo |-> <<>>, target |-> <<>>, all |-> <<>>,
     local |-> kani_compiler_local_flags(s) \o <<reachability_arg(s)>> \o kani_rustc_flags(s, "lib")
                 \o (IF has(s.args, "tests") THEN <<On("test")>> ELSE <<Opt("crate-type", Text("lib"))>>)]
LocalFlags == call.all \o call.local

\* cargo_build up to its loop; without a target there is nothing to do.
StartCargoBuild ==
    /\ pc = "plan" /\ plan.how = "cargo"
    /\ IF inv.inProject /\ packages_to_verify(sess.args).ok /\ AllTargets(sess.args) # <<>>
       THEN /\ call' = cargo_build_call(sess)
            /\ queue' = AllTargets(sess.args)
            /\ pc' = "build" /\ UNCHANGED exit
       ELSE Exit("error") /\ UNCHANGED <<call, queue>>
    /\ UNCHANGED <<asked, metadata, linked, checked, report, faults, runs>>

StartOtherBuild ==
    /\ pc = "plan" /\ plan.how # "cargo"
    /\ call' = (IF plan.how = "std" THEN cargo_build_std_call(sess) ELSE compile_single_rust_file_call(sess))
    /\ queue' = (IF plan.how = "std" THEN [i \in DOMAIN StdLibs |-> VerificationTarget("Lib", StdLibs[i])]
                 ELSE <<VerificationTarget("Lib", SingleFiles[plan.input])>>)
    /\ pc' = "build"
    /\ UNCHANGED <<asked, metadata, linked, checked, report, exit, faults, runs>>

\* One call of cargo, of which only the metadata of the target is taken.
BuildTarget ==
    /\ pc = "build" /\ queue # <<>>
    /\ LET t == queue[1].target
           r == IF plan.how = "std" THEN [ok |-> cargo_build_std_ok, found |-> TRUE]
                ELSE IF plan.how = "file" THEN [ok |-> t.compiles = "ok", found |-> TRUE]
                ELSE run_build_target(t)
       IN  IF r.ok
           THEN /\ metadata' = IF r.found THEN Append(metadata, KaniMetadata(t, LocalFlags, files)) ELSE metadata
                /\ queue' = Tail(queue)
                /\ UNCHANGED <<exit, pc>>
           ELSE Exit("error") /\ UNCHANGED <<metadata, queue>>
    /\ call' = IF plan.how = "cargo" THEN [call EXCEPT !.target = to_args(queue[1])] ELSE call
    /\ UNCHANGED <<asked, linked, checked, report, faults, runs>>

\* Project::try_new, unless there is no code.
LinkProject ==
    /\ pc = "build" /\ queue = <<>>
    /\ IF has(sess.args, "no-codegen") /\ plan.how = "cargo"
       THEN metadata' = <<>> /\ UNCHANGED linked
       ELSE linked' = {h.name : h \in Range(get_all_harnesses(metadata))} /\ UNCHANGED metadata
    /\ pc' = "project"
    /\ UNCHANGED <<asked, call, queue, checked, report, exit, faults, runs>>

\* link_goto_binary fails.
LinkFails ==
    /\ pc = "build" /\ queue = <<>> /\ faults < MaxFaults /\ get_all_harnesses(metadata) # <<>>
    /\ Exit("error") /\ faults' = faults + 1
    /\ UNCHANGED <<asked, built, checked, report, runs>>

-----------------------------------------------------------------------------
(* The commands on a project.                                              *)

ListCommand ==
    /\ pc = "project" /\ plan.command \in {"list", "autolist"}
    /\ report' = [report EXCEPT !.list = output_list_results(process_metadata(metadata), plan.format)]
    /\ Exit(IF report'.list = <<>> THEN "panic" ELSE "ok")
    /\ UNCHANGED <<asked, built, checked, faults, runs>>

\* verify_project up to check_all_harnesses.
SelectHarnesses ==
    /\ pc = "project" /\ plan.command \notin {"list", "autolist"}
    /\ LET all == get_all_harnesses(metadata)
       IN  CASE has(sess.args, "only-codegen") -> Exit("ok") /\ UNCHANGED todo
             [] ~has(sess.args, "only-codegen") /\ ~determine_targets(sess.args, all) -> Exit("error") /\ UNCHANGED todo
             [] OTHER -> todo' = sort_harnesses_by_loc(all) /\ pc' = "harness" /\ UNCHANGED exit
    /\ UNCHANGED <<asked, built, cbmc, results, files, temp, report, faults, runs>>

-----------------------------------------------------------------------------
(* External: CBMC checks the harness h under its flags.                    *)

Given(flags, name) == \E i \in DOMAIN flags : flags[i].name = name
Bound(flags, h) ==
    IF Given(flags, "unwind") THEN flags[CHOOSE i \in DOMAIN flags : flags[i].name = "unwind"].value.n ELSE h.loop

CallItems(c, value) ==
    LET ret(func, v) == TraceItem("assignment", "goto_symex$$return_value", func, v)
        elements == [j \in DOMAIN value |-> Binary(Reverse(value[j]))]
    IN  IF c.size = 0 THEN <<>>
        ELSE IF c.n = 0 THEN <<ret("kani::any_raw_internal", elements[1]), TraceItem("assignment", "x", "f", elements[1])>>
        ELSE <<ret("kani::any_raw_array", Elements(elements))>>
               \o [j \in DOMAIN value |-> ret("kani::any_raw_array", elements[j])]
Trace(h, c) == FlattenSeq([i \in 1..c.upto |-> CallItems(h.calls[i], c.cex[i])])

ClassOn(flags, class) == CASE class = "pointer_dereference" -> ~Given(flags, "no-pointer-check")
                           [] class = "NaN" -> Given(flags, "nan-check")
                           [] OTHER -> TRUE
Fails(h, c, flags) == c.fails /\ c.depth <= Bound(flags, h)
CbmcProperties(h, flags) ==
    LET on == SelectSeq(h.checks, LAMBDA c : ClassOn(flags, c.class))
        Of(c) == Property(c.id, c.class, IF Fails(h, c, flags) THEN "FAILURE" ELSE "SUCCESS",
                             IF Fails(h, c, flags) /\ Given(flags, "trace") THEN <<Trace(h, c)>> ELSE <<>>)
        unwind == Property(0, "unwind", IF Bound(flags, h) < h.loop THEN "FAILURE" ELSE "SUCCESS",
                           IF Bound(flags, h) < h.loop /\ Given(flags, "trace") THEN <<<<>>>> ELSE <<>>)
    IN  [i \in DOMAIN on |-> Of(on[i])]
          \o (IF h.loop > 0 /\ ~Given(flags, "no-unwinding-assertions") THEN <<unwind>> ELSE <<>>)
CbmcItems(properties) ==
    <<Program, Message("Runtime")>> \o (IF properties = <<>> THEN <<>> ELSE <<Result(properties)>>)
      \o <<Message("VERIFICATION"), ProverStatus>>
CbmcCode(properties) == IF \E i \in DOMAIN properties : properties[i].status = "FAILURE" THEN 10 ELSE 0

-----------------------------------------------------------------------------
(* check_all_harnesses: one harness.                                       *)

HarnessResult(h, result) == [harness |-> h, result |-> result]

\* check_all_harnesses after a result: fail_fast keeps only the failing one.
Done(h, result) ==
    IF has(sess.args, "fail-fast") /\ result.status = "Failure"
    THEN results' = <<HarnessResult(h, result)>> /\ todo' = <<>>
    ELSE results' = Append(results, HarnessResult(h, result)) /\ todo' = Tail(todo)

\* instrument_model, then CBMC is started; a solver that is not there ends it.
StartCbmc ==
    /\ pc = "harness" /\ todo # <<>>
    /\ IF SolverMissing(sess.args, todo[1]) \/ ~get_harness_artifact(linked, todo[1])
       THEN Exit("error") /\ UNCHANGED cbmc
       ELSE LET flags == cbmc_flags(sess.args, todo[1])
                properties == CbmcProperties(todo[1], flags)
                items == CbmcItems(properties)
            IN  /\ cbmc' = [items |-> items, left |-> WholeOutput(items), parser |-> NewParser,
                            processed |-> <<>>, code |-> CbmcCode(properties), flags |-> flags]
                /\ pc' = "cbmc" /\ UNCHANGED exit
    /\ UNCHANGED <<asked, built, todo, results, files, temp, report, faults, runs>>

\* goto-instrument or the start of CBMC fails: all of check_all_harnesses does.
ToolFails ==
    /\ pc = "harness" /\ todo # <<>> /\ faults < MaxFaults
    /\ Exit("error") /\ faults' = faults + 1
    /\ UNCHANGED <<asked, built, checked, report, runs>>

IsOld == OutputFormat(sess.args) = "old"

ReadLine ==
    /\ pc = "cbmc" /\ ~IsOld /\ cbmc.left # <<>>
    /\ LET r == process_line(cbmc.items, cbmc.parser, cbmc.left[1])
       IN  cbmc' = [cbmc EXCEPT !.left = Tail(@), !.parser = r.parser, !.processed = @ \o Filtered(r.item)]
    /\ UNCHANGED <<asked, pc, built, todo, results, files, temp, report, exit, faults, runs>>

\* Killed for its memory, or for another reason, with the rest unprinted.
CbmcDies(code) ==
    /\ pc = "cbmc" /\ cbmc.left # <<>> /\ faults < MaxFaults
    /\ cbmc' = [cbmc EXCEPT !.left = <<>>, !.code = code]
    /\ faults' = faults + 1
    /\ UNCHANGED <<asked, pc, built, todo, results, files, temp, report, exit, runs>>

\* run_cbmc: the result, when the output has ended; the old format looks at
\* the exit code only.
FinalResult ==
    IF IsOld THEN IF cbmc.code = 0 THEN mock_success ELSE mock_failure
    ELSE result_from(ProcessedItems(cbmc.items, cbmc.parser, cbmc.processed), cbmc.code, todo[1].panic)

\* gen_and_add_concrete_playback: nothing to do, a panic, or tests.
AfterResult(result) ==
    LET h == todo[1]
        mode == playback_mode(sess.args)
        tests == unit_tests(h, result.results)
    IN  CASE mode = "absent" \/ result.exit # "None" -> Done(h, result) /\ pc' = "harness" /\ UNCHANGED <<temp, exit>>
          [] mode # "absent" /\ result.exit = "None" /\ Missing(result.results) ->
                Exit("panic") /\ UNCHANGED <<results, todo, temp>>
          [] OTHER ->
                LET with == [result EXCEPT !.generated_concrete_test = tests # <<>>]
                    new == retain(files[h.file], tests)
                IN  IF mode = "inplace" /\ new # <<>>
                    THEN /\ temp' = [file |-> h.file, content |-> add_tests_inplace(files[h.file], h.end, tests)]
                         /\ results' = Append(results, HarnessResult(h, with))
                         /\ pc' = "persist" /\ UNCHANGED <<todo, exit>>
                    ELSE Done(h, with) /\ pc' = "harness" /\ UNCHANGED <<temp, exit>>

CbmcEnds ==
    /\ pc = "cbmc" /\ (cbmc.left = <<>> \/ IsOld)
    /\ AfterResult(FinalResult)
    /\ cbmc' = NoCbmc
    /\ UNCHANGED <<asked, built, files, report, faults, runs>>

\* The timeout: run_terminal_timeout returns Ok(true), which run_cbmc takes for
\* a success.
CbmcTimesOut ==
    /\ pc = "cbmc" /\ cbmc.left # <<>> /\ has(sess.args, "harness-timeout")
    /\ AfterResult(IF IsOld THEN mock_success ELSE timed_out)
    /\ cbmc' = NoCbmc
    /\ UNCHANGED <<asked, built, files, report, faults, runs>>

\* The new file is synced and renamed; a failure of rustfmt is a warning.
Persist ==
    /\ pc = "persist"
    /\ files' = [files EXCEPT ![temp.file] = temp.content]
    /\ temp' = NoTemp
    /\ LET r == Last(results)
       IN  IF has(sess.args, "fail-fast") /\ r.result.status = "Failure"
           THEN results' = <<r>> /\ todo' = <<>> ELSE todo' = Tail(todo) /\ UNCHANGED results
    /\ pc' = "harness"
    /\ UNCHANGED <<asked, built, cbmc, report, exit, faults, runs>>

-----------------------------------------------------------------------------
(* The reports.                                                            *)

sarif_level(status) == CASE status = "FAILURE" -> "error"
                         [] status \in {"UNDETERMINED", "UNKNOWN"} -> "warning"
                         [] OTHER -> "none"
exit_status_rule(status) == CASE status = "Timeout" -> "timeout" [] status = "OutOfMemory" -> "oom" [] OTHER -> "failed"
SarifResult(h, rule, level) == [harness |-> h.name, rule |-> rule, level |-> level]

\* Mutant: a harness without results leaves no trace in the log.
from_harness_resultsOnlyChecks(rs) ==
    FlattenSeq([i \in DOMAIN rs |->
        LET failed == SelectSeq(rs[i].result.results, LAMBDA p : sarif_level(p.status) # "none" /\ p.class # "cover")
        IN  [j \in DOMAIN failed |-> SarifResult(rs[i].harness, failed[j].class, sarif_level(failed[j].status))]])

from_harness_results(rs) ==
    FlattenSeq([i \in DOMAIN rs |->
        LET r == rs[i].result
            failed == SelectSeq(r.results, LAMBDA p : sarif_level(p.status) # "none" /\ p.class # "cover")
        IN  IF r.exit # "None" THEN <<SarifResult(rs[i].harness, exit_status_rule(r.exit), "error")>>
            ELSE [j \in DOMAIN failed |-> SarifResult(rs[i].harness, failed[j].class, sarif_level(failed[j].status))]])

\* save_coverage_metadata: cargo's projects and single files have what it
\* needs, the standard library does not.
save_coverage_metadata == ~(has(sess.args, "coverage") /\ plan.how = "std")

CoverageFails ==
    /\ pc = "harness" /\ todo = <<>> /\ ~save_coverage_metadata
    /\ Exit("error")
    /\ UNCHANGED <<asked, built, checked, report, faults, runs>>

\* write_sarif, after check_all_harnesses.
WriteSarif ==
    /\ pc = "harness" /\ todo = <<>> /\ save_coverage_metadata
    /\ report' = IF has(sess.args, "sarif") THEN [report EXCEPT !.sarif = from_harness_results(results)] ELSE report
    /\ pc' = "summary"
    /\ UNCHANGED <<asked, built, checked, exit, faults, runs>>

\* The log cannot be written.
SarifFails ==
    /\ pc = "harness" /\ todo = <<>> /\ save_coverage_metadata
    /\ has(sess.args, "sarif") /\ faults < MaxFaults /\ faults' = faults + 1
    /\ Exit("error")
    /\ UNCHANGED <<asked, built, checked, report, runs>>

Failing(rs) == Len(SelectSeq(rs, LAMBDA r : r.result.status = "Failure"))
print_autoharness_summary(automatic) == IF sess.is_auto THEN Failing(automatic) ELSE 0

\* With --quiet the results do not count.
print_final_summary ==
    /\ pc = "summary"
    /\ LET manual == SelectSeq(results, LAMBDA r : ~r.harness.auto)
           automatic == SelectSeq(results, LAMBDA r : r.harness.auto)
       IN  IF quiet(sess.args) THEN Exit("ok") /\ UNCHANGED report
           ELSE /\ report' = [report EXCEPT !.summary = <<Len(manual) - Failing(manual), Failing(manual)>>]
                /\ IF manual = <<>> /\ has(sess.args, "harness") THEN Exit("error")
                   ELSE Exit(IF Failing(manual) + print_autoharness_summary(automatic) > 0 THEN "failed" ELSE "ok")
    /\ UNCHANGED <<asked, built, checked, faults, runs>>

-----------------------------------------------------------------------------
(* playback: cargo test, or rustc --test and the test binary.              *)

\* A failing check, or a kani::any that finds no value or the wrong one.
TestPanics(h, values) ==
    LET all == concrete_playback_run(values, h.calls)
    IN  \/ ~all.ok \/ all.stack # <<>>
        \/ \E i \in DOMAIN h.checks : LET c == h.checks[i] IN c.class # "cover" /\ c.fails /\ SubSeq(all.got, 1, c.upto) = c.cex
Tests(file) == {i \in DOMAIN file : file[i].text = "fn test"}

\* Lines of generated tests, and the user's own line above line i.
TestTexts == {"", "fn test", "vec!", "concrete_playback_run", "}"}
Above(file, i) ==
    LET own == {j \in 1..i : file[j].text \notin TestTexts}
    IN  file[CHOOSE j \in own : \A k \in own : k <= j].text

\* A test calls the harness by its unqualified name: the one above it, if that
\* has the name.
Namesakes(f, short) == {h \in Range(Harness) : h.file = f /\ h.short = short}
HarnessOf(f, i) ==
    LET of == Namesakes(f, files[f][i].name.harness)
        above == {h \in of : Above(files[f], i) = "} " \o h.name}
    IN  CHOOSE h \in (IF above = {} THEN of ELSE above) : TRUE
\* Tests inside of a function are not run.
Inside(f, i) == \E h \in Range(Harness) : /\ h.file = f
                                          /\ LineOf(files[f], "fn " \o h.name) < i
                                          /\ i < LineOf(files[f], "} " \o h.name)

cargo_test_call(a) ==
    [NoCall EXCEPT !.cargo = <<Word("test")>> \o When(verbose(a), <<On("vv")>>)
                               \o When(~verbose(a) /\ quiet(a), <<On("quiet")>>) \o When(has(a, "only-codegen"), <<On("no-run")>>)
                               \o to_cargo_args(a) \o cargo_config_args,
                   !.all = base_rustc_flags("playback")]
build_test_call(a) ==
    [NoCall EXCEPT !.local = base_rustc_flags("playback") \o <<On("test"), Word(plan.input)>>
                               \o When(verbose(a), <<On("verbose")>>)]

\* A single file is built alone; cargo takes the tests of all files.
RunTests ==
    /\ pc = "playback"
    /\ call' = IF plan.how = "cargo" THEN cargo_test_call(sess.args) ELSE build_test_call(sess.args)
    /\ LET mine == IF plan.how = "cargo" THEN DOMAIN files ELSE {plan.input}
           failing == \E f \in mine : \E i \in Tests(files[f]) :
                            ~Inside(f, i) /\ TestPanics(HarnessOf(f, i), TestValues(files[f], i))
       IN  Exit(IF ~has(sess.args, "only-codegen") /\ failing THEN "error" ELSE "ok")
    /\ UNCHANGED <<asked, queue, metadata, linked, checked, report, faults, runs>>

-----------------------------------------------------------------------------
(* The driver is killed; the user runs it again.                           *)

Killed ==
    /\ pc \in {"build", "persist", "harness", "summary"} /\ faults < MaxFaults
    /\ Exit("killed") /\ faults' = faults + 1
    /\ UNCHANGED <<asked, built, checked, report, runs>>

RunAgain(c) ==
    /\ pc = "done" /\ runs < MaxRuns /\ playback_mode(sess.args) = "inplace"
    /\ runs' = runs + 1
    /\ inv' = c /\ pc' = "start" /\ exit' = "running"
    /\ sess' = KaniSession(NoArgs) /\ plan' = NoPlan /\ call' = NoCall
    /\ queue' = <<>> /\ metadata' = <<>> /\ linked' = {} /\ todo' = <<>> /\ cbmc' = NoCbmc
    /\ results' = <<>> /\ temp' = NoTemp /\ report' = NoReport
    /\ UNCHANGED <<files, faults>>

Finished == pc = "done" /\ UNCHANGED vars

NoCommand == [exe |-> "", tokens |-> <<>>, config |-> <<>>, inProject |-> FALSE]
Init ==
    /\ inv = NoCommand /\ pc = "start" /\ exit = "running"
    /\ sess = KaniSession(NoArgs) /\ plan = NoPlan /\ call = NoCall
    /\ queue = <<>> /\ metadata = <<>> /\ linked = {} /\ todo = <<>> /\ cbmc = NoCbmc
    /\ results = <<>> /\ files = SourceFiles /\ temp = NoTemp /\ report = NoReport
    /\ faults = 0 /\ runs = 1

Next ==
    \/ \E c \in (IF runs = 1 THEN Commands ELSE {inv}) : Main(c)
    \/ StartCargoBuild \/ StartOtherBuild \/ BuildTarget \/ LinkProject \/ LinkFails
    \/ ListCommand \/ SelectHarnesses
    \/ StartCbmc \/ ToolFails \/ ReadLine \/ CbmcEnds \/ CbmcTimesOut \/ Persist
    \/ \E code \in {137, 1} : CbmcDies(code)
    \/ CoverageFails \/ WriteSarif \/ SarifFails \/ print_final_summary
    \/ RunTests
    \/ Killed \/ \E c \in Again \cup {inv} : RunAgain(c)
    \/ Finished

Spec == Init /\ [][Next]_vars

-----------------------------------------------------------------------------
(* What the user asked for, read off the invocation: the options after a   *)
(* subcommand, or else those of the configuration and of the command line. *)

Subcommand == plan.command \notin {"verify", "list"}
CommandLine ==
    LET tokens == InputArgs(inv)
        from == IF Subcommand THEN CHOOSE i \in DOMAIN tokens : tokens[i].t = "word" ELSE 0
        upto == CHOOSE n \in 0..Len(tokens) : /\ \A i \in 1..n : tokens[i].name # "cbmc-args"
                                              /\ n = Len(tokens) \/ tokens[n + 1].name = "cbmc-args"
    IN  SubSeq(tokens, from + 1, upto)
Written(name) == {i \in DOMAIN CommandLine : CommandLine[i].name = name}
\* The most specific table of the configuration that has the option.  It goes
\* before a subcommand, which does not see it; only its cbmc-args come last.
HasConfig == inv.inProject /\ plan.how = "cargo"
Configured(name) ==
    LET tables == {t \in 1..3 : /\ HasConfig /\ (~Subcommand \/ name = "cbmc-args")
                                /\ name \in DOMAIN inv.config[Tables[t]].flags}
    IN  IF tables = {} THEN <<>>
        ELSE <<inv.config[Tables[CHOOSE t \in tables : \A u \in tables : u <= t]].flags[name]>>

Negated(name) == \E t \in Range(Tables) : \E key \in DOMAIN inv.config[t].flags :
                    name = "no-" \o key /\ Configured(key) = <<Bool(FALSE)>>
AskedFlag(name) == Written(name) # {} \/ Configured(name) = <<Bool(TRUE)>> \/ Negated(name)
AskedValue(name) ==
    IF Written(name) # {} THEN CommandLine[CHOOSE i \in Written(name) : \A j \in Written(name) : j <= i].value
    ELSE IF Configured(name) # <<>> THEN Last(Configured(name)[1].a) ELSE NoValue
AskedValues(name) ==
    {CommandLine[i].value.s : i \in Written(name)}
      \cup (IF Configured(name) = <<>> THEN {} ELSE {v.s : v \in Range(Configured(name)[1].a)})

\* What is for CBMC, and the -Z features.
AskedCbmcArgs ==
    LET tokens == InputArgs(inv)
        flags == {i \in DOMAIN tokens : tokens[i] = On("cbmc-args")}
        own == IF flags = {} THEN <<>>
               ELSE SubSeq(tokens, 1 + CHOOSE i \in flags : \A j \in flags : i <= j, Len(tokens))
    IN  (IF Configured("cbmc-args") = <<>> THEN <<>>
         ELSE [i \in DOMAIN Configured("cbmc-args")[1].a |-> Word(Configured("cbmc-args")[1].a[i].s)]) \o own
AskedFeatures ==
    {CommandLine[i].value.s : i \in Written("Z")}
      \cup (IF plan.command = "autoharness" THEN {"function-contracts", "loop-contracts"} ELSE {})
      \cup (IF Subcommand \/ ~HasConfig THEN {}
            ELSE UNION {{f \in DOMAIN inv.config[t].unstable : inv.config[t].unstable[f] = Bool(TRUE)} : t \in Range(Tables)})

AskedPackages ==
    IF AskedValues("package") # {} THEN AskedValues("package")
    ELSE IF AskedFlag("workspace") THEN PackageNames \ AskedValues("exclude") ELSE DefaultMembers
SomeTarget == AskedFlag("lib") \/ AskedFlag("bins") \/ AskedValues("bin") # {}
AskedTarget(t) ==
    CASE "test" \in Range(t.kinds) -> AskedFlag("tests") /\ ~SomeTarget
      [] "bin" \in Range(t.kinds) -> ~SomeTarget \/ AskedFlag("bins") \/ t.name \in AskedValues("bin")
      [] OTHER -> /\ Range(t.kinds) \cap LibKinds # {} /\ "proc-macro" \notin Range(t.kinds)
                  /\ ~SomeTarget \/ AskedFlag("lib")
TargetsAsked ==
    CASE plan.how = "std" -> Range(StdLibs)
      [] plan.how = "file" -> {SingleFiles[plan.input]}
      [] OTHER -> {t \in UNION {Range(Workspace[i].targets) : i \in {j \in DOMAIN Workspace : Workspace[j].name \in AskedPackages}} :
                        AskedTarget(t)}
Matches(h, f) == h.name = f \/ (~AskedFlag("exact") /\ Substring(h.name, f))
Automatic(t) ==
    IF plan.command \in {"autoharness", "autolist"}
    THEN {f \in Range(t.fns) : /\ AskedValues("include-pattern") = {} \/ \E p \in AskedValues("include-pattern") : Substring(f, p)
                               /\ ~\E p \in AskedValues("exclude-pattern") : Substring(f, p)} ELSE {}
HarnessesAsked ==
    LET manual == UNION {Range(t.harnesses) : t \in TargetsAsked}
    IN  {Harness[n] : n \in {m \in manual : AskedValues("harness") = {} \/ \E f \in AskedValues("harness") : Matches(Harness[m], f)}
                              \cup UNION {Automatic(t) : t \in TargetsAsked}}

\* Whether a harness verifies: the checks that are on and can be reached.
AskedBound(h) ==
    LET default == IF AskedValue("default-unwind") # NoValue THEN AskedValue("default-unwind")
                   ELSE IF plan.command = "autoharness" THEN Num(20) ELSE NoValue
        value == IF AskedValue("unwind") # NoValue THEN AskedValue("unwind")
                 ELSE IF h.unwind # NoValue THEN h.unwind ELSE default
    IN  IF value = NoValue THEN h.loop ELSE value.n
CheckOn(c) == CASE c.class = "pointer_dereference" -> ~AskedFlag("no-default-checks") /\ ~AskedFlag("no-memory-safety-checks")
                [] c.class = "NaN" -> ~AskedFlag("no-default-checks") /\ ~AskedFlag("no-overflow-checks")
                [] OTHER -> TRUE
Holds(h) ==
    LET bad == {c \in Range(h.checks) : c.fails /\ c.class # "cover" /\ CheckOn(c) /\ c.depth <= AskedBound(h)}
        complete == AskedFlag("no-default-checks") \/ AskedFlag("no-unwinding-checks") \/ AskedBound(h) >= h.loop
    IN  complete /\ (IF h.panic THEN bad # {} /\ \A c \in bad : c.class = "assertion" ELSE bad = {})

Verifying == plan.command \in {"verify", "verify-std", "autoharness"}

\* Whether values replay the counterexample of the check c, to the last one.
Reproduces(values, h, c) ==
    LET run == concrete_playback_run(values, SubSeq(h.calls, 1, c.upto))
    IN  run.ok /\ run.stack = <<>> /\ run.got = c.cex

\* The user's own lines, the files in which one harness is inside another, and the
\* harnesses whose unqualified name is another's of the file, too.
Own(file) == SelectSeq(file, LAMBDA line : line.text \notin TestTexts)
Nested(f) ==
    LET At(text, h) == LineOf(SourceFiles[f], text \o h.name)
    IN  \E g, h \in {x \in Range(Harness) : x.file = f} : At("fn ", g) < At("fn ", h) /\ At("} ", h) < At("} ", g)
Ambiguous(h) == Namesakes(h.file, h.short) # {h}

\* How many groups of neighbours there are, among the failing checks of a harness,
\* that the values reproduce: dedup_by keeps a test for each.
Groups(values, h) ==
    LET failing == SelectSeq(h.checks, LAMBDA c : c.fails)
        same(k) == Reproduces(values, h, failing[k])
    IN  Cardinality({k \in DOMAIN failing : same(k) /\ (k = 1 \/ ~same(k - 1))})

\* Options with one value; autoharness has defaults.
DefaultOf(name) == CASE plan.command = "autoharness" /\ name = "harness-timeout" -> Suffixed(60, "s")
                     [] plan.command = "autoharness" /\ name = "default-unwind" -> Num(20)
                     [] OTHER -> NoValue
SingleOptions == {"unwind", "default-unwind", "solver", "harness-timeout", "output-format", "concrete-playback"}

\* The harnesses that were asked for, of one kind.
Manual(kind) == {h \in HarnessesAsked : h.kind = kind}

-----------------------------------------------------------------------------
(* Properties.                                                             *)

\* What run_cbmc takes for a success though the harness does not hold: in the old
\* output format a timeout, and a should_panic harness that does not panic; in the
\* others a should_panic harness for which CBMC has no property at all.
Misjudged(h) ==
    \/ IsOld /\ (has(sess.args, "harness-timeout") \/ h.panic)
    \/ h.panic /\ h.loop = 0 /\ {c \in Range(h.checks) : CheckOn(c)} = {}

\* When kani exits with success, every harness the user selected verifies:
\* none is lost between packages, targets, filters and CBMC's output, also
\* when CBMC dies or is cut off.  Left out are --quiet, under which
\* print_final_summary ignores the results, the options that stop after the
\* build, and the harnesses that are misjudged (see there).
GreenMeansVerified ==
    exit = "ok" /\ Verifying /\ ~AskedFlag("quiet") /\ ~AskedFlag("only-codegen") /\ ~AskedFlag("no-codegen")
        => \A h \in HarnessesAsked : Holds(h) \/ Misjudged(h)

\* When kani reports that harnesses failed, one of them does not verify, or
\* CBMC timed out or died on it (the old output format, which has only CBMC's
\* exit code to go by, is left out); when kani stops with an error, a tool
\* failed, or there is something in the project or the command to refuse.  A
\* package that is named twice, a filter with --no-codegen, and --coverage of
\* the standard library are refused without a reason: counts are compared.
RedHasReason ==
    /\ exit = "failed" => \E r \in Range(results) : \/ ~Holds(Harness[r.harness.name])
                                                    \/ r.result.exit = "Timeout"
                                                    \/ r.result.exit # "None" /\ (faults > 0 \/ IsOld)
    /\ exit = "error" /\ plan.command # "playback" /\ faults = 0 =>
          \/ \E t \in TargetsAsked : t.compiles # "ok"
          \/ plan.how = "cargo" /\ (~inv.inProject \/ ~(AskedPackages \subseteq PackageNames) \/ TargetsAsked = {})
          \/ AskedValues("harness") # {} /\ ({h \in HarnessesAsked : ~h.auto} = {} \/ AskedFlag("exact"))
          \/ \E h \in HarnessesAsked : SolverMissing(sess.args, h)
          \/ AskedFlag("coverage") /\ plan.how = "std"
          \/ Cardinality(AskedValues("package")) < Cardinality(Written("package"))
          \/ AskedFlag("no-codegen") /\ AskedValues("harness") # {}
    /\ exit = "panic" => metadata = <<>>

\* In-place playback leaves, for every failing check and satisfied cover of
\* every harness it reports on, a test below the harness that feeds it the very
\* inputs of CBMC's counterexample, value by value, and has none left when the
\* check is reached.  Harnesses of one file with the same unqualified name share
\* the tests of equal inputs, and those around another one have it elsewhere.
ReplayReproduces ==
    exit \in {"ok", "failed"} /\ playback_mode(sess.args) = "inplace" =>
        \A r \in Range(results) : \A p \in Range(r.result.results) :
            HasValues(p) =>
                LET c == CHOOSE x \in Range(r.harness.checks) : x.id = p.id
                    f == r.harness.file
                IN  \E i \in Tests(files[f]) :
                        /\ files[f][i].name.harness = r.harness.short
                        /\ \/ Above(files[f], i) = "} " \o r.harness.name
                           \/ Ambiguous(Harness[r.harness.name]) \/ Nested(f)
                        /\ Reproduces(TestValues(files[f], i), r.harness, c)

\* Whatever fails and whenever kani is killed, also over several runs, the
\* user's source files keep every line in its place, and each generated test
\* is there once, below a harness of its name.  Exceptions: dedup_by drops equal
\* neighbours only, so that the inputs A, B, A give two tests for A (but not
\* more in a later run); and the line of a harness around another one is stale
\* once the inner one has its tests.
SourceKept ==
    \A f \in DOMAIN files :
        /\ Own(files[f]) = SourceFiles[f]
        /\ \A i \in Tests(files[f]) :
              LET copies == {j \in Tests(files[f]) : files[f][j].name = files[f][i].name}
                  namesakes == Namesakes(f, files[f][i].name.harness)
              IN  /\ \E h \in namesakes : Cardinality(copies) <= Groups(TestValues(files[f], i), h)
                  /\ Nested(f) \/ \E h \in namesakes : Above(files[f], i) = "} " \o h.name

\* Every option reaches the tools as the user gave it: the command line goes
\* before the configuration, the package's table before the workspace's, the
\* filters and the features of -Z add up, --unwind goes before the harness's
\* attribute, and CBMC gets the --cbmc-args of the configuration and then those
\* of the command line.  The autoharness and verify-std commands see the options
\* after their names only: not the flags and features of the configuration
\* (against docs/src/usage.md:57), but its cbmc-args.
ArgumentsKept ==
    Verifying /\ pc \in {"build", "cbmc"} =>
        /\ \A name \in SingleOptions :
              Single(sess.args, name) = IF AskedValue(name) = NoValue THEN DefaultOf(name) ELSE AskedValue(name)
        /\ \A name \in VerificationFlags : has(sess.args, name) = AskedFlag(name)
        /\ Flags(LocalFlags, "harness") = AskedValues("harness")
        /\ \A f \in UnstableFeature : feature(sess.args, f) <=> f \in AskedFeatures
        /\ {Z(f) : f \in AskedFeatures} \subseteq Range(LocalFlags)
        /\ pc = "cbmc" =>
              /\ Bound(cbmc.flags, todo[1]) = AskedBound(todo[1])
              /\ LET n == Len(cbmc.flags) - 1
                 IN  SubSeq(cbmc.flags, n - Len(AskedCbmcArgs) + 1, n) = AskedCbmcArgs

\* The reports tell one story: the SARIF log has an error for exactly the
\* harnesses that failed (but for should_panic ones, which fail by not
\* panicking: the log has no entry for that), the summary counts every manual
\* harness once, and the list has as many harnesses as there are in the crates
\* that were asked for.
ReportsAgree ==
    /\ exit \in {"ok", "failed"} /\ has(sess.args, "sarif") =>
          \A r \in Range(results) : ~r.harness.panic =>
              (r.result.status = "Failure"
                 <=> \E x \in Range(report.sarif) : x.harness = r.harness.name /\ x.level = "error")
    /\ report.summary # <<>> => report.summary[1] + report.summary[2] = Cardinality({r \in Range(results) : ~r.harness.auto})
    /\ report.list # <<>> /\ ~has(sess.args, "no-codegen") =>
          report.list[1].standard = Cardinality(Manual("Proof")) /\ report.list[1].contract = Cardinality(Manual("ProofForContract"))
=============================================================================
