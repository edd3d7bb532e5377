# TLA+ models of Kani

Kani is a model checker for Rust. A compiler back end translates each proof
harness into a goto program, a driver prepares these programs and runs CBMC on
them, and a library gives harnesses their nondeterministic values, contracts and
instrumentation. This directory has TLA+ models of Kani's pipeline from the
command line to the exit code, TLC configurations that check them on small
instances, and TLAPS proofs for every size of the instance where the component
allows it. Paths are relative to the repository (`src/...`).

## 1. Inventory

### The pipeline

```
cargo kani ──proxy/setup──> kani-driver ──cargo/rustc──> kani-compiler
  (KaniSetup)                (Driver)                      │ units, stubs, contracts, reachability (CrateCodegen)
                                 │                         │ UB instrumentation of bodies (UbChecks)
                                 │                         │ MIR to goto (Codegen), goto binary (GotoBinary)
                                 │<── goto files, metadata ┘ export threads (FileWritingPool)
                                 │  one worker per harness (HarnessRunner):
                                 ├─ goto-instrument pipeline (GotoInstrument)
                                 ├─ CBMC: a process, with or without a timeout
                                 ├─ output parser, postprocessing (CbmcOutputParser, PropertyRenderer)
                                 └─ playback into the user's files, reports, exit code (Driver)
the verified program itself runs library code: memory initialization (MemInit), async executor (Futures)
```

| Component | State it keeps | Operations | Interacts with | What makes it correct |
|---|---|---|---|---|
| Proxies and setup (`src/src`) | installation directory, tarballs, toolchain link: all on disk | `proxy`, `setup`, `appears_incomplete`, `exec`, NixOS patch | curl, tar, rustup, other invocations | a successful setup is whole; interrupted ones are resumed |
| Driver arguments and builds (`kani-driver`) | parsed options, packages, targets, metadata | parse, merge with `Cargo.toml`, validate, build each target, merge metadata, filter | cargo, the compiler | no harness the user asked for is lost; options reach the tools |
| Units, stubbing, contracts, reachability (`kani_middle`) | worklist, cache of transformed bodies per unit | group, validate, collect, global passes | rustc's MIR, hash maps in any order | the model of a harness means what its own attributes say |
| Uninitialized-memory and validity passes (`kani_middle/transform`, `points_to`) | points-to graph, instrumented bodies | find operations, insert calls, split blocks | the run-time library | undefined behaviour is reported before it happens, and nothing else is |
| Code generation (`codegen_cprover_gotoc`) | symbol table, globals by content | types, places, rvalues, intrinsics, constants, statics | CBMC's semantics | generated code means what Rust means |
| Goto binaries (`cprover_bindings`) | numbering of strings and ireps | `to_irep`, write, read | CBMC | nothing is lost or merged |
| Goto file export (`codegen_cprover_gotoc`) | work channel, one thread-local interner per thread, files | `codegen_items`, `send_work`, `worker_loop`, `handle_file`, `join_all` | worker threads by channel | the report comes after every file was written |
| String interner (`cprover_bindings`) | symbol table per thread | `intern`, `map`, `WithInterner` | everything that names things | symbols keep their meaning |
| Goto-instrument pipeline (`kani-driver`) | goto file, short copy, backup | `instrument_model` and its passes | goto-cc, goto-instrument; other workers through file names | success means a whole model of the right harness with every pass |
| Harness runner (`kani-driver`) | worker pool, collected results, first error, temporary files | `check_all_harnesses`, `run_cbmc`, `print_final_summary`, `drop` | rayon, CBMC, timers | exit code 0 only if everything was verified, but for the ways to be misjudged |
| Output parser | lines of the current item | `process_line`, `read_output` | CBMC's pipe | a verdict rests on results that were read |
| Postprocessing (`cbmc_property_renderer.rs`) | list of properties and their statuses | the passes of `postprocess_result` | the checks the compiler generated | what is shown of a check is true of the program |
| Concrete playback | source files of the user | extract values, insert tests, replay | metadata of the harnesses | tests reproduce the failure, files are never damaged |
| Memory-initialization run time (`mem_init.rs`) | tracked byte and its value, argument buffer | get, set, copy, bless, store/load argument | the user's program | no read of uninitialized memory is missed |
| Async executor (`futures.rs`) | task list, count of running tasks, rotation index | `block_on_with_spawn`, `spawn`, `JoinHandle::poll`, `yield_now` | user futures, re-entrantly | it returns when, and only when, all tasks have completed |

`PROJECT.json` lists all components, also the ones that are not modelled, with
the reason.

### What is hard here

* Concurrency: export threads with thread-local interners; rayon workers that
  share a directory and a process id; two `cargo kani` on one installation.
* Failure: a panic in one worker, a tool that dies while it rewrites a file in
  place, a kill between any two effects of setup or of a playback insertion, a
  CBMC that dies in the middle of its output, a last buffer of a file that is lost
  without a word.
* Time: CBMC may never end; on Windows goto-instrument runs under timeouts with
  fallbacks that give up passes.
* Order: bodies are transformed once and shared by the harnesses of a unit, in
  the order of a hash set; checks are inserted into blocks that earlier
  insertions have split; passes of the postprocessing overwrite each other's
  statuses; spawns happen inside the poll that the scheduler is in the middle of.
* Arithmetic: niches that wrap, layouts with padding over a tag, sizes whose
  product overflows, ranges of valid values that wrap around.
* Nondeterminism as data structure: one tracked byte stands for a whole shadow
  memory because CBMC explores all choices.

The hazards in `PROJECT.json` name the line for each of these and the properties
aimed at it.

## 2. Modules

Each component module has its constants with named assumptions, its variables,
one action per operation, `Spec`, and its properties at the end. `MC*.tla` give
constants their values (`PropertyRenderer` and `HarnessRunner` have the few they
need in their last section); `*Proofs.tla` hold the theorems. Operators whose comment
begins with "Mutant" are plausible mistakes in the operator that follows; they
are not part of the specification and serve to see that each property can fail.
The map in `PROJECT.json` gives the source lines of the definitions; a helper
whose lines lie within those of a listed definition is not always listed itself.

### The compiler

**CrateModel, CodegenUnits, CrateCodegen.** `CrateModel` is the abstract
specification: for every harness, the code that runs and the use made of each
contract, as a function of that harness's attributes alone; or an error for one
of the reasons that `Rejectable` lists. `CodegenUnits` has the decisions before
code generation (selection, automatic harnesses, transitive stubs, grouping,
validation) and the passes over one body. `CrateCodegen` is the detailed
specification: units in any order, a cache of bodies per unit, the worklist (a
stack of sets: what was found last comes first, what was found together in any
order) over transformed functions and the initializers of statics, which no pass
sees, errors that are reported and panics, the points-to analysis over the bodies
as written and the global pass over the transformed ones, the second collection,
the model and the assigns clause of each harness, the metadata. `Refinement == Promise!Spec`, with
`Promise == INSTANCE CrateModel WITH meaning <- ..., outcome <- ...`, says that
the second implements the first, fairness included.

**Mir, PointsTo, UninitChecks, UbChecks.** `Mir` has types with rustc's layout,
the computation of data bytes and valid ranges from them, bodies and how a pass
edits them. `PointsTo` is the analysis, `UninitChecks` the two passes that insert
memory-initialization calls and, in its last section, the validity pass.
`UbChecks` puts a harness together from the instructions of a scenario,
instruments it, and runs it byte by byte next to the shadow memory; the run
itself records what the language says of every access (`ub`, `invalid`), what a
failing check was worth (`alarm`), `masked`: uninitialized memory was
declared initialized earlier, and `unseen`: what the statics led to when the
analysis went into a function without them (see section 6).

**GotoType, GotoExpr, GotoMachine, CodegenTy, Rvalue, Intrinsic, Place,
Codegen.** The first three are the goto language: types, constructors with their
assertions, and what CBMC evaluates an expression to (external). The next four
are the translation: MIR types to goto types (coroutines with what they capture,
packed structs and vectors included), rvalues, intrinsics, projections
and, at the end of `Place`, constants and statics. Dereferences of boxes and opaque
casts have arms in `codegen_projection` and are left out: rustc replaces both before
it hands out the MIR of an instance. `Codegen` takes one MIR
instruction after another, and its properties evaluate the generated code and
compare it with Rust's meaning of the instruction, stated independently on
mathematical integers, rustc's layout and bytes.

**GotoIrep, GotoBinary.** The symbol table as the code generator leaves it (or the
panic that ends it), its translation to ireps, the writer with its numbering of
strings and ireps, and the reader. The reader is the repository's own, which only
its tests use: it serves as a second opinion on the format that CBMC reads.

**AtomicExport, FileWritingPool.** `AtomicExport` is the abstract specification:
the files of a harness appear at once, whole (`exported`) or one of them without its
end (`damaged`), or fail, the metadata is written, and the crate is reported, which
takes all of it, or given up, which takes a failure.
`ExportsAtomically == Promise!Spec` says that `FileWritingPool` implements it: a
harness counts as exported when its last artifact is whole, as failed when a
thread has panicked over it, and as damaged when all is written but a `BufWriter`
lost the last buffer of a file: nothing flushes it, and its drop ignores errors. In
`FileWritingPool` `tpc` is the control state of main and of each worker;
`cur`, `pos`, `syms` are where `codegen_items` is; `interner[t]` is the
thread-local of thread `t`, a sequence of names in which a symbol is an index;
`queue` is the channel. A worker that receives work replaces its interner by the
packaged one, then writes the artifacts one by one; serialization interns names
of its own (`IrepName`), so interners really diverge. Every write may panic, or
lose its end (`Cut`). With
no workers (`PoolSize` = 0) main writes the work itself.

### The driver

**DriverArgs, CbmcOutputParser, CargoBuild, Driver.** One
invocation of `kani` or `cargo kani` from its command line to its exit code:
tokens and configuration become options (`DriverArgs`), targets are built one by
one (`CargoBuild`), each harness is checked with CBMC's output read line by line
(`CbmcOutputParser`), failing checks become tests in the user's files
(concrete playback, the last sections of that module), and the reports are written.
`Driver` has the actions;
tools may fail, CBMC may die or time out, the driver may be killed at any step,
and the user may run it again on what is left. CBMC's checks are given by the
instance: a check fails up to an unwinding depth with given counterexamples. The
properties compare with what the user asked for, computed from the command line
without the driver's intermediate results (`AskedValue`, `HarnessesAsked`).

**HarnessVerdicts, HarnessRunner.** `HarnessVerdicts` is what kani promises its
user: one final verdict for a harness, a success only once CBMC has verified it or
it was misjudged in one of the ways `HarnessRunner` names (`Misjudged`), no verdict
after the exit, exit code 0 only with all successes unless kani is quiet.
`KeepsVerdicts == Promise!Spec` says that `HarnessRunner` implements it.
`HarnessRunner` is the worker pool that `Driver` (one harness after the other)
leaves out: workers take harnesses in order (`Take`), instrument, optionally
synthesize loop contracts, start CBMC, wait (`Collect`, `TimeOut`, `ReadFails`)
and report. The first error wins (`saved`), with fail-fast a failed verdict is
one; a panic is resumed by the pool. `Exit` includes the drop of the session,
which removes temporary files. CBMC is external and unconstrained: `CbmcExits`
picks any element of `Outputs`.

**GotoInstrument.** `files` maps the goto file of each harness, the Windows short
file and its backup and the temporaries of tools to a model, `Torn` or `Absent`;
a model is the harness it comes from and the passes applied to it. `at[h]` is the
step of `instrument_model` that `h` has come to, and `NextStep(h, s)` the one that
follows step `s`; `StartTool`, `ToolSucceeds`,
`ToolFails`, `ToolTimesOut` are the life of a tool; an in-place tool that fails
may leave the file torn. The Windows branches are `Skip` (`--dfcc`),
`RetryEnforce` (restore from backup, next alternative symbol) and `RetryDrop`.

**PropertyRenderer.** A program is a sequence of sites, each with a check, and a
set of executions. CBMC's statuses are computed from the executions (external:
`Explores`, `CbmcStatus`), with the meaning that `codegen/assert.rs` gives to
assertions, covers, coverage points and reachability checks. Then the passes of
`postprocess_result` run, and the properties compare what is shown with what the
executions do. A pass that meets an excluded status goes to `"panic"`. A `sanity`
check is assumed after it is asserted, so CBMC follows nothing behind its failure,
but no pass takes notice: `BehindFailedSanity` is the exception of the properties.

**KaniSetup.** Processes run any of the command lines; each effect on disk is a
step, and `Fault` kills a process, or makes its command fail, at any of
`FaultPoints`. `cutOff` records that a setup ended without a whole tarball to
resume from; `alone[p]` that no other process was active during this invocation.

### The library

**MemInit.** `branches` is the set of all states (tracked object and offset,
value, argument buffer) that the nondeterminism of `mem_init.rs` can be in;
`shadow` is the reference: the initialization of every byte. An action is an
operation of the user's program with the calls the compiler inserts for it. That
one tracked byte is enough is what this module shows; `UbChecks` therefore uses
the whole shadow memory.

**Futures.** `tasks`, `num_running` and `index` are the fields of the scheduler;
`pc` = `"running"` is the inside of a poll, in which the body of the task may
spawn, await, yield, end, or call `block_on_with_spawn` again (which panics).
`capacity` and `dangling` follow the Vec's buffer, into which `run()` takes a
pointer in every turn and keeps it across the poll.

## 3. Runs

| Run | Instance | Shows |
|---|---|---|
| `compile` | 2 harnesses over 6 functions and a static: 8 stub maps, contracts with recursion, automatic harnesses, all reachability modes, delayed-UB instrumentation on and off, stubs and contracts that are refused | `Refinement` of CrateModel; `ClosedModel`; `UbTracked` for the code that runs as written; `MetadataRight` |
| `middle` | 4 families of harnesses (casts and heap, unions, pointers to pointers with calls and loops, restricted values), all sequences of their instructions up to a bound | `PointsToSound` but for what only the statics led to in a callee that was analyzed without them; `UbCaught`; `NoSpuriousCheck` |
| `codegen` | bytes of 2 bits, pointers of 4 bytes; all operands of small widths, boundary values of wide ones, 3 memory patterns, paths of up to 4 projections, 2 constants in any order | arithmetic, discriminants, layouts, memory intrinsics, pointers, places and globals mean what Rust says, and a check fails where Rust gives no meaning; the exceptions are named (section 6) |
| `serde` | a union, a struct completed after its declaration, a static, a function with one of several bodies; symbols in every order; a text with a NUL, assertions at the locations of other assertions and of built-in functions | `RoundTrip` but for the NUL, `Sharing`, `MeaningKept` |
| `export_pool` | 3 harnesses, 2 workers or none, 4 artifacts, panics and lost flushes | `ReportedComplete`, but for the ends that were lost; `MainInternerGrows`; `ExportsAtomically`, fairness included |
| `driver` | a workspace of 8 packages, a single file and a small `std`; 78 command lines and configurations; up to 3 runs with 2 faults | `GreenMeansVerified`, `RedHasReason`, `ReplayReproduces`, `SourceKept`, `ArgumentsKept`, `ReportsAgree` |
| `instrument` | 2 harnesses; Unix with 2 jobs, Windows with 1, Windows with 2 of which one has contracts | `SuccessMeansModel`: a whole model of this harness, with every pass (not contracts and bodies on Windows), nothing left over; every harness returns |
| `runner` | 3 harnesses of which one should panic, 2 workers, 4 combinations of options (quiet and the old format with a timeout among them), 6 kinds of output | exit code 0 can be trusted, but for what `ExitZeroTrusted` names; a failure has a reason, no process and no temporary file is left (`CleanExit`); `KeepsVerdicts`, so that with a timeout kani exits |
| `render` | all programs of 3 checks from 3 sets of kinds, 1 or 2 executions, shared IDs | `ReportTrue`: successes, unreachability, covers and coverage are true of the program, unless a sanity check before them is shown as failed; the verdict always is; no panic without coverage |
| `setup` | 2 processes, all command lines, one fault anywhere, NixOS | `UndisturbedOutcome`: setup tells the truth, is idempotent, interrupted setups are resumed; `QuiescentInstalled`: concurrent ones leave a whole installation |
| `uninit_checks` | 2 objects of 3 bytes, 3 layouts, slices up to 2, copies of one element, calls with 1 and 2 union arguments | `NoMissedUB` and `NoFalseAlarm` |
| `async` | up to 5 tasks, 1 yield, 2 calls, both strategies | joins wait for their own task; the pointer into the Vec is stale only in the poll of the task that outgrew it (`StaleOnlyInOwnPoll`); round robin ends |

### Bounds and why they are enough to see the cases

* Two workers and three harnesses are the least with which a worker takes a
  second file after having grown its interner while the other still writes, and
  with which a fail-fast failure meets a harness in progress and one not started.
  The sizes are then removed by the proofs.
* `compile`: two harnesses share a unit or do not; the call chain has three
  functions, a static with an initializer and a foreign function, so that a stub
  chain, a circle, a stub that calls what it replaces and a body cached for the
  other harness all occur.
* `middle`: instructions of a scenario may be combined freely, so that a cast, a
  write through one alias, a call and a read through another one meet in every
  order, and a function without pointer arguments reads a static. `MaxSteps` cuts
  only loops.
* `codegen`: with 2-bit bytes a word of four of them still has a sign, carries
  and padding, and all operand pairs of the small types are enumerated; a wide
  type has its boundary values (`WideValues`). The generator never looks at the
  absolute width but through `MachineModel`, which the instance scales.
* `serde`: four symbols, with shared and repeated texts, in every order; the
  texts contain the characters the writer escapes, one outside ASCII and a NUL.
* `driver`: each command line is there because it takes another branch of the
  parser, of the build or of the report. The packages also have what the code gets
  wrong: harnesses with one name, equal inputs with others in between, a harness
  inside another, and harnesses that should panic and do not. Only in-place
  playback and `playback` are run again, since only they leave something behind;
  three runs and two faults let a killed insertion be followed by a failing and by
  a good one.
* Three check sites: one that hides executions, one behind it, and one more with
  the same ID as the first.
* Objects of three bytes hold a two-byte type with padding at two offsets, so that
  areas overlap partly.
* One fault and two processes in `setup`: the state on disk after a fault is met
  by a fresh invocation, since processes start again any number of times. Disks
  left by two faults are not explored.
* Five tasks are one more than the first buffer of the Vec (4) holds, so that the
  buffer moves.
* `Alternatives` = 2 retries: the first, and one after a restored failure.

`CHECK_DEADLOCK FALSE` stands in the configurations of runs that end: a failed
`assume` ends all branches of MemInit, a harness of Futures ends, and so do a
compilation, a file that was read and a program that ran.

### Fairness

* Compiler: one thread that never waits, weakly fair as a whole; `CrateModel`
  promises the same.
* Export pool: weak fairness of main, of each worker and of each write: OS
  threads, none of which waits for a condition that comes and goes. `AtomicExport`
  promises that the compilation ends.
* Goto-instrument: the driver's own steps and timers are weakly fair; a tool
  without a timeout is assumed to end (the code waits for it without bound). A
  tool with a timeout is not.
* Runner: weak fairness of each worker, each timer and main. Nothing is assumed
  of CBMC: `HarnessVerdicts` promises an exit with a harness timeout only.
* Executor: one thread, weakly fair; a task body does finitely much, by the
  bounds on tasks and yields. Nothing is claimed for the nondeterministic
  strategy, which may pick the same task for ever.

## 4. Proofs

All theorems are for every value of the constants that the named assumptions
allow.

**FileWritingPoolProofs.** `ReportedComplete` is not inductive: that a worker
exited says nothing about where the work is. `PoolInvariant` adds that each
harness sent is written (whole, or without an end that a dropped `BufWriter` lost:
`Ended`), queued or being written unless some thread panicked
(`Accounted`, `WrittenSoFar`); that every work's own interner resolves its
symbols (`QueueCoherent`, `MainDataCoherent`); and that a worker exits only with
the queue empty and closed (`ShutdownOrder`). From it: `ExportComplete`,
`SymbolsKeepMeaning`; `MainSymbolsStable` is an action property, from the lemma
that interning extends.

`PoolImplements` is the safety part of `ExportsAtomically`:
`Promise!Init /\ [][Promise!Next]_(Promise!vars)`. `PoolInvariant` says that nothing is
lost, which is not enough: an artifact written a second time would take away a
file that counts as exported. `OnceInvariant` (`WrittenOnce`) adds that a harness
is in the channel once or with one thread, never both (`InOnePlace`), that nothing
of it is on disk before its turn and a panic leaves it incomplete
(`WrittenInTurn`), that a worker panics only over work (`JobHeld`), and that the
metadata comes when main has generated everything (`MetadataLast`). Then the write
that completes a harness is `Export` (also where ends were lost), a panic over it is
`Fail`, `join_all` panics
only when some harness has failed, and the report finds all of them exported
(`JoinedComplete`); all other steps are not seen.

**CrateCodegenProofs.** Four results on the compiler, for any program, any
attributes, any number of harnesses and any order of units and items.

* `ModelsAreClosed` (`ClosedModel`) by `ClosedInvariant`: what was collected has a
  body in the cache, and what that body mentions is collected or queued. The
  invariant also has to survive the second collection, in which cached bodies
  change under the collector.
* `DelayedUbTracked` (`UbTracked`). The compiler collects items from transformed
  bodies, while the pass looks for sources of delayed undefined behaviour, and
  follows calls, in the bodies as written. The property is about neither search: it
  starts at the harness and follows the calls that run and that no stub or contract
  replaced (`Written`). The proof has to show that both searches find all of that.
  `WrittenAnalyzed` compares it with the analysis, by the least round that goes
  wrong, and `AnalysisTracked`, in `BodyInvariant`, says that once the global pass
  has run, everything collected again lies within the first collection and the one
  function that instrumentation calls (`Recollection`), and that what the analysis
  goes through is instrumented there. This is where a body cached for another
  harness of the unit could have escaped.
* `MetadataSound` (`MetadataRight`) by `UnitInvariant`: every harness is in exactly
  one place (a waiting unit, the unit being compiled, the models), and the members
  of a unit agree in stubs and contracts, which makes the wrapper of an assigns
  clause an item of the right model.
* `CompilerImplements`: `Promise!Init /\ [][Promise!Next]_(Promise!vars)`, the
  safety part of `Refinement`. `MeaningInvariant` says that a cached body is what
  the attributes of *every* harness of the unit make of the item, that closures
  marked unused are never run, and that a finished model means what `CrateModel`
  says. `PartsInvariant` says where closures of contracts can have come from, so
  that every error and every panic of a pass (a stub that does not fit, a contract
  without its closures or without `run_contract_fn`, a value without `Arbitrary`,
  two recursion trackers) has a reason in `Rejectable`. The step that finishes a
  model compares two searches: the worklist's result, restricted to what runs,
  with the rounds of `Running` in the abstract specification. Both follow the same
  relation on a finite set that is closed under it, and each takes at least as
  many rounds as that set has items, so both end with the same set (`SameSearch`);
  where an argument needs induction over the number of rounds, it takes the least
  round that goes wrong.

The only assumption is `ProgramsAssumption`: finitely many functions and statics
that refer to each other, contracts, stubs and public functions among them. The
invariants are checked by TLC on the instance of the run `compile`, where
harnesses are compiled, rejected and cached for each other.

**GotoInstrumentProofs.** `InstrumentSound`: `SuccessMeansModel` whenever the setting
is `Exclusive` (Unix, or one job, or at most one harness that uses the short
file), for any number of harnesses, jobs and retries and any failing, hanging or
tearing tool; `InstrumentSoundOnUnix` has no such condition. The property says
nothing of a pipeline in progress; `InstrumentInvariant` follows it: the goto file,
or the short file inside the contract section, is a model of its own harness with
the passes that the current step presupposes (`DoneAt`) or is torn, and a
torn file is refused by the next tool; the backup is a model from before the step
that is retried; at most one harness is in the section. Without `Exclusive` the
last part fails, and so does the property (section 6).

**KaniSetupProofs.** `UndisturbedSetup` (`UndisturbedOutcome`) for any number of
processes, faults, fault points and command lines, where no other release's
tarball lies about (`Leftover = FALSE`, section 6). An invocation that is alone
starts on a disk that others left, so `SetupInvariant` says what that can be: while
nobody installs and nothing went wrong unseen (`Settled`), there is no directory,
or a whole tarball to resume from, or a complete installation, or a link whose
local toolchain was deleted; and what a process has done so far stays on the disk
as long as it is alone. `SetupTypes` comes with it.

`PairInstalls` (`QuiescentInstalled`) for any two processes, any command lines and
any number of invocations, without faults (the property says nothing of runs with
one) and with `Leftover = FALSE`. `PairInvariant` follows what two processes owe each
other: a tarball that is not whole is being downloaded by one of them
(`PartialIsDownloaded`); a torn file will be written again by a process that has a
whole tarball open or is still to open one (`TornIsRewritten`, `Rewrites`); what a
process has unpacked stays whole, and where the tarball is gone no file is missing
(`UnpackedStays`); and a missing link has somebody who will make it (`LinkMade`,
`WillLink`). The number two is used in one place: when a tarball is
truncated while a process reads from it, the one that downloads it again is the
only other process, so no third one can remove it or end well in between. With
three processes this step, and the property, fail (section 6).

**MemInitProofs.** `Soundness` (`NoMissedUB`) by the invariant
`EveryByteFollowed`: unless a check has failed, every byte is tracked on some
branch, every uninitialized byte on a branch that knows it, and every
uninitialized byte of a union argument that still waits to be loaded on a branch
that holds that argument in its buffer. It assumes `NoEmptyCopies` and
`NoVirtualCalls` (see section 6). Copies of many elements, overlapping copies and
copies to lower offsets are included. `Precision` (`NoFalseAlarm`) by the converse
invariant `Precise`: what a branch holds for its byte, or in its buffer for an
argument, is uninitialized only if the memory is. It allows virtual calls but
needs copies on which `copy()` is exact (`PlainCopies`: at most one element, no
overlap, not to a lower offset; `UpwardArguments` the same for arguments).

**HarnessRunnerProofs.** `ExitCodeSound` (`ExitZeroTrusted`) by `RunnerInvariant`: a
harness in progress has no verdict, a success was verified or misjudged, a saved
error names a failure, exit code 0 comes with all successes or with `--quiet`. There
is no condition on options or outputs: what the code gets wrong is in the property
(`Misjudged`, `Quiet`). `ExitIsClean` (`CleanExit`) and `FailFastSound` rest on the
bookkeeping of workers and of the first error, not on verdicts. `RunnerImplements` is
the safety part of `KeepsVerdicts`, from both invariants and `RunningUndecided`: a
process of CBMC that runs has no verdict, so that its end can prove a harness, or
make it one that is misjudged, but never contradicts a verdict that was given.

**PropertyRendererProofs.** `ReportSound`: `ReportTrue` for any program, any
checks and any executions, from one theorem for each of its parts. The core is
that the first blocking failure of an execution is seen by CBMC (a least element
of a set of sites), so that a hidden site lies behind a reported failure: one that
makes the others undetermined, or a sanity check, which is shown as failed
(`SanityShown`).
`RendererInvariant` follows the statuses through the passes: until the update
they are CBMC's, then each new status is tied to one of CBMC's. `NeverPanics`
adds that a check whose reachability check passed has passed itself.

**FuturesProofs.** `JoinSound`, the count of running tasks (`CountExact`), that a call
returns with all tasks complete (`ReturnsComplete`) and polls none again
(`PollsOnlyRunning`) by `SchedulerInv`: entries that are `Some` are the tasks
that have not returned Ready, `num_running` is their number, handles name spawned
tasks. `StaleOnlyInOwnPoll` is inductive together with it: a spawn that moves the Vec
puts its task into the upper half of the new buffer, alone, and the next turn of the
loop, before which nothing there is polled, takes the pointer anew.

**Only model-checked:**

* Liveness (`AllReturn`, `RoundRobinEnds`, and that `Refinement`, `ExportsAtomically`
  and `KeepsVerdicts` come to an end), which is out of the prover's reach.
* All properties of `Codegen`, `GotoBinary` and `UbChecks`: what they say is about
  operators that recurse over types, expressions, ireps and bodies, and induction
  over data is out of its reach.
* All properties of `Driver`: the interesting part is a function from a command line
  and a crate to options, targets and reports, again recursive over tokens and
  lines; the runs enumerate the branches of that function.

## 5. Plan

Done: the export pool, memory initialization, the goto-instrument pipeline, the
runner, the renderer, setup and the executor; the compiler (units and
reachability with its abstract specification, UB instrumentation, code generation,
goto binaries); the driver from command line to exit code; abstract specifications
of the compiler, the export pool and the runner, with their refinement proved; proofs
for all components whose correctness is not an induction over data. Next:

1. An abstract specification of setup (an installation is there or is not) that
   `KaniSetup` implements for at most two processes.
2. Models: virtual calls and trait objects in `Place` and `Intrinsic`; the bodies
   that the intrinsics pass writes; loop contracts.

### Not modelled, and why

* The LLBC back end translates to the AST of another tool (Charon), whose meaning
  is not in this repository.
* Attribute and path resolution asks rustc; its logic is rustc's name resolution.
* The library's `Arbitrary` instances, macros and memory predicates are
  declarations whose meaning CBMC gives.
* Texts: help, wording and layout of reports, the table of `IrepId` names, the
  JSON form of a symbol table.
* Developer tools: the test runner, packaging, statistics and benchmarks.

## 6. Disagreements seen

Where the code does something else than a comment, a doc or the rest of the code
says. Where a property would be contradicted, the case occurs on the instance of
its run and the property names it as an exception; the property is given in
parentheses. The others are outside of what the properties speak of.

With another instance, which the text names:

* `call_goto_instrument.rs:255`: the short file is named after the process id
  only, so two Windows workers with contracts overwrite each other's copy, while
  `:31` promises to instrument "a goto binary in-place". With `Settings <-
  MCShared` TLC finds `ModelOfHarness` violated.
* `mem_init.rs:120`: copying zero elements blesses one, where `:327` says
  "`size_of::<T> * num_elts` bytes". With `Copies <- MCCopiesZero`, `NoMissedUB`
  is violated.
* `setup.rs:67`: a tarball that another release left behind is unpacked over
  this installation, although the proxies "download the appropriate Kani release"
  (`lib.rs:12`). With `Leftover = TRUE`, `RunsOwnVersion` is violated.
* `setup.rs:66`: of three first invocations at once, one unpacks the tarball while
  another still needs it and a third downloads it again: the half-unpacked files
  stay, the tarball goes, and later invocations take the installation for
  complete (`lib.rs:40`). With `Procs = {p1, p2, p3}` and no fault at all,
  `QuiescentInstalled` is violated.

In the compiler:

* `contract.rs:81`: a contract harness whose stub is a function with a contract of
  its own keeps two recursion trackers, where `:83` asserts "up to one": the compiler
  panics. `Rejectable` has it among the reasons to give up (`Refinement`).
* `contracts.rs:311`: without a harness (reachability `PubFns`) a function with a
  contract makes the compiler panic, although "we just remove any contract logic"
  (`:373`) there (`Refinement`).
* `delayed_ub/mod.rs:72`: sources of delayed undefined behaviour are looked for in
  the bodies from before all passes. The bodies of stubs and contracts, what is only
  reached through them, and automatic harnesses are not tracked, or by the numbers
  of other locals (`UbTracked`).
* `compiler_interface.rs:648`, `goto_binary_serde.rs:100`: the `BufWriter` is dropped
  and never flushed, so an error of the last write is lost and the file has no end,
  of which nobody is told (`ReportedComplete`, `ExportsAtomically`).

In the driver:

* `harness_runner.rs:220`: with `--quiet` the summary returns before failures are
  counted, and kani exits with 0, where `args/common.rs:15` promises "just an exit
  code" (`ExitZeroTrusted`, `GreenMeansVerified`).
* `call_cbmc.rs:94`: the old output format takes a timeout for a success
  (`session.rs:198` says that the returned Boolean "indicates whether the command
  timed out"), and ignores `should_panic`. `call_cbmc.rs:347`: in the other formats a
  `should_panic` harness for which CBMC ends cleanly without any property is a success
  (`Misjudged` in `ExitZeroTrusted` and `GreenMeansVerified`).
* `cbmc_output_parser.rs:417`: a nested `]` clears what was collected, so the
  result item is always recovered from the whole output, and lost when CBMC dies
  after having printed it.
* `test_generator.rs:52`: duplicates are removed only next to each other, so tests
  A, B, A insert A twice; `:86`: of nested harness functions the outer test lands
  in the wrong place. Two harnesses with the same unqualified name and values in
  one file share a test name (`SourceKept`, `ReplayReproduces`).
* `metadata.rs:112`: `--exact` compares counts only. `--package a --package a` is
  refused as not found (`RedHasReason`). A target whose artifact has no metadata
  file is skipped silently (`call_cargo.rs:238`). `project.rs:77` takes any
  artifact when the goto file of a harness has vanished.
* `list/mod.rs:40`: merging overwrites the set of a file that two crates share
  while the counts add up. `sarif.rs:140`: a `should_panic` harness that did not
  panic has no entry, one that did has an error.
* Configuration flags go before the subcommand, so `cargo kani autoharness`
  ignores them but for `cbmc-args`, against `docs/src/usage.md:57`
  (`ArgumentsKept`); `list` replaces the common arguments and loses the
  configuration's `-Z`. `--no-codegen list --format json` panics, `--no-codegen
  --harness` and `verify-std --coverage` always fail (`RedHasReason`), and
  autoharness with `--harness` and no match stops before its summary.
* Standalone playback arguments are not validated. Function pointer restrictions
  are overwritten crate by crate.
* `call_goto_instrument.rs:149`, `:497`: on Windows bodies for undefined functions
  and contracts are given up after a timeout or a crash, and the result is Ok.
* `cbmc_property_renderer.rs:658`: a coverage point that is UNDETERMINED, because
  an unwinding or unsupported-construct check failed, panics.
* `lib.rs:40`: a setup cut off after the tarball was removed is taken for
  complete; one cut off while downloading leaves a tarball on which every
  `cargo kani` fails until `cargo kani setup` is run. `setup.rs:241`: a link to a
  local toolchain that is gone is not seen by `exists`.

In the UB passes:

* `check_values.rs:69`: the comment asks not to cache the number of blocks, but the
  range is evaluated once: only the first unsafe instruction of a block is
  checked. `:526` tests the field's type instead of the base's, so reads of unions
  are never checked. `:982` indexes out of bounds for a variant with two fields.
  A pointer cast returns early and leaves its operand's dereferences unchecked.
  Writes through raw pointers also check the value that is overwritten.
* `uninit_visitor.rs:127`, `:266`: early returns misplace later checks or lose the
  report of an unsupported construct. `:396`: union arguments of virtual calls are
  not followed.
* Taking an address, naming a static or creating a union anew declares memory
  initialized that is not (`masked`). `(*p).f = v` sets nothing, and reading
  `(*p).f` checks all of `*p` (false alarms).
* `mem_init.rs:120`: a copy of two elements blesses only the first of them. A copy
  to a lower offset underflows (`:116`).
* `points_to_analysis.rs:447`: a callee without pointer arguments starts without
  the statics, against the comment at `:445` (`PointsToSound`); a recursive
  function makes the analysis recurse for ever (`:500`).
  `instrumentation_visitor.rs:163`: the walk over ancestors does not end on a
  cyclic graph.

In code generation and serialization:

* `operand.rs:356`: of the two offsets of a constant pointer the wrong one is used;
  `:315`: a constant slice always covers the whole buffer. Anonymous nested mutable
  statics are shared by content. `:248`: the values of a struct with one field of
  data come in the order of declaration, so that one whose markers come earlier in
  memory trips an assertion, and padding behind the data is read as data (`unwrap`
  panics). `:339`: constant C strings are not implemented (`GlobalsExact`).
* `intrinsic.rs:839`: a compare-exchange always reports success (doc at `:804`).
  `:1693`: alignment of `write_bytes` is checked for a positive count only, and that
  of atomics, `raw_eq` and `swap` not at all (`MemoryExact`).
* `rvalue.rs:482`: an unchecked shift whose distance has a type that cannot hold the
  width of the value, as `i8` that of `u128`, gives a false alarm. `intrinsic.rs:429`:
  SIMD arithmetic is checked for overflow, although Rust's wraps (`ArithmeticExact`).
* `place.rs:792`: a slice pattern on the tail of an unsized struct trips an
  assertion; `:534`: subslices of arrays are not implemented (`PlacesExact`).
  `expr.rs:1388`: the pre-increment constructors build post-increments.
* `goto_binary_serde.rs:459`: the writer escapes the digit `0` where it means the
  byte 0, so a text ends at a NUL (`RoundTrip`); the reader rejects weak symbols. An
  identifier spelled `nil` is the id Nil.
* `location.rs:158`: giving a property to a built-in function's location panics, and
  one that has a property keeps its old class and message (`:184`; `MeaningKept`).

In the library and the reports:

* `futures.rs:133`: a task that spawns the fifth task and completes in the same
  poll is written through a pointer into the Vec's old buffer (`StaleOnlyInOwnPoll`).
* `assert.rs:329`: a failed sanity check ends what CBMC explores, but is not among the
  failures that make later checks undetermined (`ReportTrue`).
