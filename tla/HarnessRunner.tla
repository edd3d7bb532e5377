---------------------------- MODULE HarnessRunner ----------------------------
(***************************************************************************)
(* verify_project: a pool of workers runs CBMC on every harness, and the   *)
(* exit code of kani says whether all of them were verified (kani-driver,  *)
(* harness_runner.rs, call_cbmc.rs, session.rs and main.rs).               *)
(*                                                                         *)
(* Instrumentation of a goto file is one step here that succeeds or fails; *)
(* module GotoInstrument models what it does.                              *)
(***************************************************************************)
EXTENDS Naturals

CONSTANTS
    N,            \* the number of harnesses, in the order of sort_harnesses_by_loc
    Jobs,         \* the number of threads of the pool
    Modes,        \* the combinations of --fail-fast, --output-format=old,
                  \* --harness-timeout, --quiet, and --coverage or --sarif
    Synthesize,   \* --synthesize-loop-contracts
    WritesFiles,  \* --output-into-files, or concrete playback in place
    KeepTemps,    \* --keep-temps
    Filtered,     \* some --harness filter was given
    Automatic,    \* the harnesses generated by the autoharness subcommand
    ShouldPanic,  \* the harnesses with #[kani::should_panic]
    Outputs       \* the outputs CBMC may produce: [code, results, prover]

Harnesses == 1..N
Threads == 1..Jobs

\* The failed properties in CBMC's result, by kind; or there is no result.
NoResults == {"missing"}
Results == (SUBSET {"panic", "other"}) \cup {NoResults}

ASSUME CountsAssumption == N \in Nat /\ Jobs \in Nat \ {0}
ASSUME OptionsAssumption ==
    {Synthesize, WritesFiles, KeepTemps, Filtered} \subseteq BOOLEAN
ASSUME ModesAssumption ==
    Modes \subseteq [failFast : BOOLEAN, oldFormat : BOOLEAN, timeout : BOOLEAN,
                     quiet : BOOLEAN, saves : BOOLEAN]
\* CBMC's exit code 0 rules out a failed property.
ASSUME OutputsAssumption ==
    /\ Outputs \subseteq [code : Nat, results : Results, prover : BOOLEAN]
    /\ \A out \in Outputs : out.code = 0 => out.results \in {{}, NoResults}

VARIABLES
    mode,     \* the options of this run of kani
    pc,       \* what each worker does
    item,     \* the harness it works on
    taken,    \* the harnesses that have been started
    cbmc,     \* the CBMC process of each harness
    output,   \* what CBMC printed and its exit code, once it has ended
    verdict,  \* the status of each harness
    saved,    \* the first error of a worker, if any
    full,     \* an error has been seen: no worker takes another harness
    panicked, \* some worker has panicked
    temps,    \* the temporary files on record
    exit      \* the exit code of kani

vars == <<mode, pc, item, taken, cbmc, output, verdict, saved, full, panicked, temps, exit>>

FailFast == mode.failFast
OldFormat == mode.oldFormat
Timeout == mode.timeout
Quiet == mode.quiet
SavesResults == mode.saves

NoExit == 256
NoOutput == [code |-> 0, results |-> NoResults, prover |-> FALSE]

\* The errors a worker returns: FailFastHarnessInfo names the harness that
\* failed, 0 stands for any other error.
Infrastructure == {0}

FailFastHarnessInfo(h) == {h}

-----------------------------------------------------------------------------
(* call_cbmc.rs: from CBMC's output to a verdict.                          *)

\* determine_failed_properties
FailedProperties(results) ==
    CASE results = {} -> "None"
      [] results = {"panic"} -> "PanicsOnly"
      [] OTHER -> "Other"

\* verification_outcome_from_properties
OutcomeFromProperties(results, h) ==
    IF h \in ShouldPanic
    THEN IF FailedProperties(results) = "PanicsOnly" THEN "Success" ELSE "Failure"
    ELSE IF FailedProperties(results) = "None" THEN "Success" ELSE "Failure"

\* Mutant: a process that ended without results counts as a success.
NoResultsIsSuccess(out, h) ==
    IF out.results # NoResults THEN OutcomeFromProperties(out.results, h)
    ELSE IF out.code = 0 \/ out.prover THEN "Success" ELSE "Failure"

\* VerificationResult::from
ResultFrom(out, h) ==
    IF out.results # NoResults THEN OutcomeFromProperties(out.results, h)
    ELSE IF out.code = 0 /\ out.prover THEN "Success" ELSE "Failure"

\* run_cbmc: the old output format looks at the exit code only.
Verdict(out, h) ==
    IF OldFormat THEN IF out.code = 0 THEN "Success" ELSE "Failure"
    ELSE ResultFrom(out, h)

-----------------------------------------------------------------------------

Init ==
    /\ mode \in Modes
    /\ pc = [t \in Threads |-> "idle"] /\ item = [t \in Threads |-> 0]
    /\ taken = {}
    /\ cbmc = [h \in Harnesses |-> "none"] /\ output = [h \in Harnesses |-> NoOutput]
    /\ verdict = [h \in Harnesses |-> "none"]
    /\ saved = {} /\ full = FALSE /\ panicked = FALSE
    /\ temps = {0}    \* the artifacts of a standalone project
    /\ exit = NoExit

At(t, where) == pc[t] = where /\ exit = NoExit
Goto(t, where) == pc' = [pc EXCEPT ![t] = where]

\* `?` in the closure of a worker.
Raise(t, error) ==
    /\ saved' = IF saved = {} THEN error ELSE saved
    /\ Goto(t, "failed")

Panic(t) ==
    /\ panicked' = TRUE
    /\ Goto(t, "idle")

\* A worker takes a harness; with one thread they are taken in order.
Take(t, h) ==
    /\ At(t, "idle") /\ ~full /\ h \notin taken
    /\ Jobs = 1 => \A k \in Harnesses \ taken : h <= k
    /\ taken' = taken \cup {h}
    /\ item' = [item EXCEPT ![t] = h]
    /\ Goto(t, "instrument")
    /\ UNCHANGED <<mode, cbmc, output, verdict, saved, full, panicked, temps, exit>>

\* instrument_model, which records its temporary files first.
Instrument(t) ==
    /\ At(t, "instrument")
    /\ temps' = temps \cup {item[t]}
    /\ \/ Goto(t, IF Synthesize THEN "synthesize" ELSE "check") /\ UNCHANGED saved
       \/ Raise(t, Infrastructure)
    /\ UNCHANGED <<mode, item, taken, cbmc, output, verdict, full, panicked, exit>>

SynthesizeLoopContracts(t) ==
    /\ At(t, "synthesize")
    /\ \/ Goto(t, "check") /\ UNCHANGED saved
       \/ Raise(t, Infrastructure)
    /\ UNCHANGED <<mode, item, taken, cbmc, output, verdict, full, panicked, temps, exit>>

\* run_cbmc starts the process ...
StartCbmc(t) ==
    /\ At(t, "check")
    /\ cbmc' = [cbmc EXCEPT ![item[t]] = "running"]
    /\ Goto(t, "wait")
    /\ UNCHANGED <<mode, item, taken, output, verdict, saved, full, panicked, temps, exit>>

\* ... or cannot: an error, a failed harness (the old format without a
\* timeout) or a panic (with one).
StartCbmcFails(t) ==
    /\ At(t, "check")
    /\ \/ /\ ~OldFormat
          /\ Raise(t, Infrastructure)
          /\ UNCHANGED <<verdict, panicked>>
       \/ /\ OldFormat /\ ~Timeout
          /\ verdict' = [verdict EXCEPT ![item[t]] = "Failure"]
          /\ Goto(t, "report")
          /\ UNCHANGED <<saved, panicked>>
       \/ /\ OldFormat /\ Timeout
          /\ Panic(t)
          /\ UNCHANGED <<verdict, saved>>
    /\ UNCHANGED <<mode, item, taken, cbmc, output, full, temps, exit>>

\* CBMC ends, by itself or by a signal of the system.
CbmcExits(h) ==
    /\ cbmc[h] = "running"
    /\ cbmc' = [cbmc EXCEPT ![h] = "ended"]
    /\ \E out \in Outputs : output' = [output EXCEPT ![h] = out]
    /\ UNCHANGED <<mode, pc, item, taken, verdict, saved, full, panicked, temps, exit>>

\* The output cannot be read (a panic) or the process not waited for (an
\* error); the process is left alone.
ReadFails(t) ==
    /\ At(t, "wait") /\ ~OldFormat
    /\ \/ Panic(t) /\ UNCHANGED saved
       \/ /\ cbmc[item[t]] = "ended"
          /\ Raise(t, Infrastructure) /\ UNCHANGED panicked
    /\ UNCHANGED <<mode, item, taken, cbmc, output, verdict, full, temps, exit>>

\* The worker has read the whole output and has the exit status.
Collect(t) ==
    /\ At(t, "wait") /\ cbmc[item[t]] = "ended"
    /\ verdict' = [verdict EXCEPT ![item[t]] = Verdict(output[item[t]], item[t])]
    /\ Goto(t, "report")
    /\ UNCHANGED <<mode, item, taken, cbmc, output, saved, full, panicked, temps, exit>>

\* Mutant: the process is left running.
TimeOutWithoutKill(t) ==
    /\ At(t, "wait") /\ Timeout /\ cbmc[item[t]] = "running"
    /\ UNCHANGED <<cbmc, output>>
    /\ verdict' = [verdict EXCEPT ![item[t]] = IF OldFormat THEN "Success" ELSE "Failure"]
    /\ Goto(t, "report")
    /\ UNCHANGED <<mode, item, taken, saved, full, panicked, temps, exit>>

\* Mutant: the timer is looked at only when the output has been read.
TimeOutWhenRead(t) ==
    /\ At(t, "wait") /\ Timeout /\ cbmc[item[t]] = "ended"
    /\ verdict' = [verdict EXCEPT ![item[t]] = "Failure"]
    /\ Goto(t, "report")
    /\ UNCHANGED <<mode, item, taken, cbmc, output, saved, full, panicked, temps, exit>>

\* The timer wins: the process is killed.  run_terminal_timeout then returns
\* Ok(true), which run_cbmc takes for a success.  With piped output the timer
\* may also win over a process that has ended but is not yet read.
TimeOut(t) ==
    /\ At(t, "wait") /\ Timeout
    /\ cbmc[item[t]] = "running" \/ (~OldFormat /\ cbmc[item[t]] = "ended")
    /\ cbmc' = [cbmc EXCEPT ![item[t]] = IF @ = "running" THEN "killed" ELSE @]
    /\ UNCHANGED output
    /\ verdict' = [verdict EXCEPT ![item[t]] = IF OldFormat THEN "Success" ELSE "Failure"]
    /\ Goto(t, "report")
    /\ UNCHANGED <<mode, item, taken, saved, full, panicked, temps, exit>>

\* process_output and concrete playback, which may panic when they write files;
\* then the result is returned, as an error when it fails fast.
Report(t) ==
    /\ At(t, "report")
    /\ \/ /\ WritesFiles
          /\ Panic(t) /\ UNCHANGED saved
       \/ /\ FailFast /\ verdict[item[t]] = "Failure"
          /\ Raise(t, FailFastHarnessInfo(item[t])) /\ UNCHANGED panicked
       \/ /\ ~(FailFast /\ verdict[item[t]] = "Failure")
          /\ Goto(t, "idle") /\ UNCHANGED <<saved, panicked>>
    /\ UNCHANGED <<mode, item, taken, cbmc, output, verdict, full, temps, exit>>

\* External (rayon): the error makes the other workers stop after their harness.
SetFull(t) ==
    /\ At(t, "failed")
    /\ full' = TRUE
    /\ Goto(t, "idle")
    /\ UNCHANGED <<mode, item, taken, cbmc, output, verdict, saved, panicked, temps, exit>>

-----------------------------------------------------------------------------
(* The main thread, when the pool is done.                                 *)

\* External (rayon): install returns when no worker has anything to do.
PoolDone ==
    /\ exit = NoExit
    /\ \A t \in Threads : pc[t] = "idle"
    /\ taken = Harnesses \/ full \/ panicked

\* The session is dropped before the process ends, whatever way it ends.
Exit(code) ==
    /\ exit' = code
    /\ temps' = IF KeepTemps THEN temps ELSE {}
    /\ UNCHANGED <<mode, pc, item, taken, cbmc, output, verdict, saved, full, panicked>>

\* check_all_harnesses: all results, or the one that failed fast.
ResultsReported == IF saved = {} THEN Harnesses ELSE saved

\* The harnesses that did not succeed, manual or automatic.
Failing(results) == {h \in results : verdict[h] # "Success"}

\* An error from a worker, or a panic: verification is not concluded.
Abort ==
    /\ PoolDone
    /\ \/ panicked /\ Exit(101)
       \/ ~panicked /\ saved = Infrastructure /\ Exit(1)

\* The coverage results or the SARIF file cannot be written.
SaveFails ==
    /\ PoolDone /\ ~panicked /\ saved # Infrastructure /\ SavesResults
    /\ Exit(1)

\* print_final_summary; no harness at all matched the filters.
PrintFinalSummary ==
    /\ PoolDone /\ ~panicked /\ saved # Infrastructure
    /\ LET manual == ResultsReported \ Automatic
       IN  IF Quiet THEN Exit(0)
           ELSE IF manual = {} /\ Filtered THEN Exit(1)
           ELSE IF Failing(ResultsReported) # {} THEN Exit(1)
           ELSE Exit(0)

Done == exit # NoExit /\ UNCHANGED vars

Worker(t) ==
    \/ \E h \in Harnesses : Take(t, h)
    \/ Instrument(t) \/ SynthesizeLoopContracts(t) \/ StartCbmc(t) \/ StartCbmcFails(t)
    \/ Collect(t) \/ Report(t) \/ SetFull(t)

Main == Abort \/ SaveFails \/ PrintFinalSummary

Next ==
    \/ \E t \in Threads : Worker(t) \/ ReadFails(t) \/ TimeOut(t)
    \/ \E h \in Harnesses : CbmcExits(h)
    \/ Main
    \/ Done

Spec == Init /\ [][Next]_vars

\* The threads go on and timers fire; nothing says that CBMC ever ends
\* or that its output is unreadable.
FairSpec ==
    /\ Spec /\ WF_vars(Main)
    /\ \A t \in Threads : WF_vars(Worker(t)) /\ WF_vars(TimeOut(t))

-----------------------------------------------------------------------------

\* Every variable has its type, a process that has ended has an output, and no
\* two workers have the same harness.
TypeOK ==
    /\ mode \in Modes
    /\ pc \in [Threads -> {"idle", "instrument", "synthesize", "check", "wait", "report", "failed"}]
    /\ item \in [Threads -> Harnesses \cup {0}]
    /\ taken \subseteq Harnesses
    /\ cbmc \in [Harnesses -> {"none", "running", "ended", "killed"}]
    /\ output \in [Harnesses -> Outputs \cup {NoOutput}]
    /\ verdict \in [Harnesses -> {"none", "Success", "Failure"}]
    /\ saved \in {{}, Infrastructure} \cup {FailFastHarnessInfo(h) : h \in Harnesses}
    /\ full \in BOOLEAN /\ panicked \in BOOLEAN
    /\ temps \subseteq Harnesses \cup {0}
    /\ exit \in {0, 1, 101, NoExit}
    /\ \A h \in Harnesses : cbmc[h] = "ended" => output[h] \in Outputs
    /\ \A t \in Threads : pc[t] # "idle" => item[t] \in taken
    /\ \A t, u \in Threads : t # u /\ pc[t] # "idle" /\ pc[u] # "idle" => item[t] # item[u]

\* CBMC ran to its end on the harness and found what the harness claims: no
\* failure or, with should_panic, panics and nothing else.
Proves(out, h) ==
    IF h \in ShouldPanic THEN out.results = {"panic"}
    ELSE out.results = {} \/ (out.results = NoResults /\ out.prover /\ out.code = 0)

Verified(h) == cbmc[h] = "ended" /\ Proves(output[h], h)

\* What run_cbmc takes for a success though it is none.  In the old output format
\* exit code 0 alone, for a harness that should have panicked or without a verdict
\* of the prover; in the others a harness that should have panicked and for which
\* there was no property at all.
Mistaken(out, h) ==
    /\ out.code = 0
    /\ IF OldFormat THEN h \in ShouldPanic \/ (out.results = NoResults /\ ~out.prover)
       ELSE h \in ShouldPanic /\ out.results = NoResults /\ out.prover

\* In the old format a timeout is a success, too.
Misjudged(h) ==
    \/ OldFormat /\ cbmc[h] = "killed"
    \/ cbmc[h] = "ended" /\ Mistaken(output[h], h)

\* Exit code 0 can be trusted but for three things the code does.  With --quiet
\* print_final_summary returns before it counts the failures.  In the old output
\* format the exit code of CBMC stands for its results, and a timeout for a success.
\* A should_panic harness without any property counts as one.  Otherwise no harness
\* was left out, killed, or lost with an error or a panic of its worker: CBMC ran
\* to its end on every harness and found what the harness claims.
ExitZeroTrusted ==
    exit = 0 /\ ~Quiet => \A h \in Harnesses : Verified(h) \/ Misjudged(h)

\* The old format takes an exit code of CBMC other than 0 for a failure, even
\* for the cover checks or the panics that the harness asks for.
Rejected(h) == OldFormat /\ output[h].code # 0

\* Kani exits with another code only for a reason: a harness that ran into its
\* timeout or is not verified, or an error of the driver itself.
FailureHasReason ==
    exit \in {1, 101} =>
        \/ \E h \in taken : verdict[h] = "Failure" /\ (Timeout \/ Rejected(h) \/ ~Verified(h))
        \/ saved = Infrastructure \/ panicked \/ SavesResults
        \/ Filtered /\ Harnesses \ Automatic = {}

\* The harness named by a fail-fast error is one that failed.
FailFastNamesFailure ==
    saved # Infrastructure => \A h \in saved : verdict[h] = "Failure"

\* No CBMC process is still running when kani exits, unless a worker panicked.
NoOrphans == exit \in {0, 1} => \A h \in Harnesses : cbmc[h] # "running"

\* Kani removes its temporary files however it exits.
TemporariesRemoved == exit # NoExit /\ ~KeepTemps => temps = {}

\* However kani exits: another code than 0 has a reason, no process of CBMC goes
\* on without it and its temporary files are gone.
CleanExit == FailureHasReason /\ NoOrphans /\ TemporariesRemoved

\* The runner promises what HarnessVerdicts says: however many workers there are and
\* whatever happens to them, a harness gets one verdict and keeps it, a success only
\* once CBMC has verified it or run_cbmc has misjudged what it did, none after kani
\* has exited; kani exits once, with 0 only when all are successes or it is quiet,
\* and with a harness timeout it does exit.
Promise == INSTANCE HarnessVerdicts WITH
    quiet <- Quiet,
    coarse <- OldFormat,
    timed <- Timeout,
    proved <- {h \in Harnesses : Verified(h)},
    misjudged <- {h \in Harnesses : Misjudged(h)}
KeepsVerdicts == Promise!Spec

\* A process of CBMC that runs has no verdict yet: it can still prove its harness,
\* but not against a verdict.
RunningUndecided == \A h \in Harnesses : cbmc[h] = "running" => verdict[h] = "none"

-----------------------------------------------------------------------------
(* Choices for model checking.                                             *)

\* CBMC verified the harness, failed with panics only or otherwise, was killed by
\* the system before the results, or ended cleanly without any, with and without
\* a verdict of the prover.
CbmcOutputs ==
    {[code |-> 0, results |-> {}, prover |-> TRUE],
     [code |-> 10, results |-> {"panic"}, prover |-> TRUE],
     [code |-> 10, results |-> {"panic", "other"}, prover |-> TRUE],
     [code |-> 137, results |-> NoResults, prover |-> FALSE],
     [code |-> 0, results |-> NoResults, prover |-> TRUE],
     [code |-> 0, results |-> NoResults, prover |-> FALSE]}

\* A timeout and saved results, --fail-fast, and the old format quietly and with a timeout.
CommandLines ==
    {[failFast |-> "fail-fast" \in options, oldFormat |-> "old" \in options,
      timeout |-> "timeout" \in options, quiet |-> "quiet" \in options,
      saves |-> "coverage" \in options] :
        options \in {{"timeout", "coverage"}, {"fail-fast"}, {"old", "quiet"}, {"old", "timeout"}}}
=============================================================================
