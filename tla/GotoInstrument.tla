---------------------------- MODULE GotoInstrument ----------------------------
(***************************************************************************)
(* instrument_model: the goto file of a harness goes through a sequence of *)
(* external tools that rewrite it in place (kani-driver,                   *)
(* call_goto_instrument.rs and call_goto_cc.rs).  Several harnesses are    *)
(* instrumented at a time, one per worker of the harness runner.           *)
(*                                                                         *)
(* On Windows the tools run on copies with short names, the slow ones      *)
(* under a timeout, and some failures are answered by a retry or by        *)
(* skipping the pass.                                                      *)
(***************************************************************************)
EXTENDS Naturals, FiniteSets

CONSTANTS
    Harnesses,        \* the harnesses of the project
    Settings,         \* the machines and projects: see Setting
    UndefinedChecks,  \* checks.undefined_function_on()
    RestrictVtable,   \* the compiler wrote vtable restrictions
    SanityChecks,     \* --run-sanity-checks
    Alternatives,     \* bound on the alternative contract symbols that are tried
    CopyMayFail       \* whether fs::copy can fail (a full disk)

\* cfg!(windows); how many harnesses are instrumented at a time; the harnesses
\* that check a function contract, and those with loop contracts.
Setting == [windows : BOOLEAN, jobs : Nat \ {0}, contract : SUBSET Harnesses, loops : SUBSET Harnesses]

ASSUME HarnessesAssumption == IsFiniteSet(Harnesses)
ASSUME SettingsAssumption == Settings \subseteq Setting
ASSUME FlagsAssumption ==
    {UndefinedChecks, CopyMayFail, RestrictVtable, SanityChecks} \subseteq BOOLEAN
ASSUME AlternativesAssumption == Alternatives \in Nat

VARIABLES
    setting, \* the machine and the project
    files,   \* the contents of the files in the output directory
    at,      \* the next step of each harness
    tool,    \* the file that the tool running for each harness works on
    tries,   \* how often the current pass has been retried
    result   \* what instrument_model has returned

vars == <<setting, files, at, tool, tries, result>>

Windows == setting.windows
Jobs == setting.jobs
Contract == setting.contract
Loops == setting.loops

-----------------------------------------------------------------------------
(* Files.  A goto model is known by the harness it is the model of and the *)
(* passes that were applied to it.                                         *)

Passes == {"specialize", "restrict", "sanity", "dfcc", "enforce", "enforce-other",
           "library", "bodies", "drop", "backedge"}

CopySteps == {"copy-in", "backup", "copy-out", "remove"}

Model == [of : Harnesses, done : SUBSET Passes]
Torn == [torn |-> TRUE]        \* what a tool leaves that dies while it writes
Absent == [absent |-> TRUE]

GotoFile(h) == <<"goto", h>>

\* kani-instrument-<pid>.out and its backup: one name per process.
Process == 0
ShortFile == <<"short", Process>>
BackupFile == <<"backup", Process>>

\* Mutant: the name has no counter.
OneTemporary(h) == <<"tmp", Process>>

\* kani-goto-instrument-<pid>-<n>.out: the counter makes it private to a call.
TmpFile(h) == <<"tmp", h>>

Temporaries == {ShortFile, BackupFile, <<"tmp", Process>>} \cup {<<"tmp", h>> : h \in Harnesses}
Files == {GotoFile(h) : h \in Harnesses} \cup Temporaries

-----------------------------------------------------------------------------
(* The steps of instrument_model.                                          *)

\* Where instrument_model and instrument_contracts go on after the step s of h.
NextStep(h, s) ==
    LET undefined == IF UndefinedChecks THEN "library" ELSE "drop"
        finish == IF Windows THEN "copy-out" ELSE undefined
        contracts == IF h \notin Contract \cup Loops THEN undefined
                     ELSE IF Windows THEN "copy-in" ELSE "dfcc"
        enforce == IF h \notin Contract THEN finish
                   ELSE IF Windows THEN "backup" ELSE "enforce"
        sanity == IF SanityChecks THEN "sanity" ELSE contracts
    IN  CASE s = "specialize" -> IF RestrictVtable THEN "restrict" ELSE sanity
          [] s = "restrict" -> sanity
          [] s = "sanity" -> contracts
          [] s = "copy-in" -> "dfcc"
          [] s = "dfcc" -> enforce
          [] s = "backup" -> "enforce"
          [] s = "enforce" -> finish
          [] s = "copy-out" -> "remove"
          [] s = "remove" -> undefined
          [] s = "library" -> "bodies"
          [] s \in {"bodies", "drop"} -> "backedge"
          [] s = "backedge" -> "end"

Active(h) == result[h] = "running" /\ at[h] # "end"
NoTool == <<"none", Process>>

\* The pass that is run now: the retries of a pass run another one.
Pass(h) ==
    IF tries[h] = 0 THEN at[h]
    ELSE IF at[h] = "enforce" THEN "enforce-other" ELSE "drop"

\* The file that the pass rewrites.
Target(h) == IF Windows /\ at[h] \in {"dfcc", "enforce"} THEN ShortFile ELSE GotoFile(h)

\* The passes that run under call_goto_instrument_with_windows_timeout.
Timed(h) == Windows /\ at[h] \in {"dfcc", "enforce", "bodies"}

\* External: a tool reads only a whole model, and the passes that name a
\* function of the harness need the model of that harness.
Accepts(h, pass, content) ==
    /\ content \notin {Absent, Torn}
    /\ pass \in {"specialize", "dfcc", "enforce", "enforce-other"} => content.of = h

Applied(content, pass) == [content EXCEPT !.done = @ \cup {pass}]

-----------------------------------------------------------------------------

Init ==
    /\ setting \in Settings
    /\ files = [f \in Files |-> IF f[1] = "goto" THEN [of |-> f[2], done |-> {}] ELSE Absent]
    /\ at = [h \in Harnesses |-> "specialize"]
    /\ tool = [h \in Harnesses |-> NoTool]
    /\ tries = [h \in Harnesses |-> 0]
    /\ result = [h \in Harnesses |-> "none"]

\* A worker takes the harness.
Begin(h) ==
    /\ result[h] = "none"
    /\ Cardinality({k \in Harnesses : result[k] = "running"}) < Jobs
    /\ result' = [result EXCEPT ![h] = "running"]
    /\ UNCHANGED <<setting, files, at, tool, tries>>

Advance(h) ==
    /\ at' = [at EXCEPT ![h] = NextStep(h, @)]
    /\ tries' = [tries EXCEPT ![h] = 0]
    /\ tool' = [tool EXCEPT ![h] = NoTool]
    /\ UNCHANGED <<setting, result>>

\* `?`: instrument_model returns the error.
Fail(h) ==
    /\ result' = [result EXCEPT ![h] = "err"]
    /\ tool' = [tool EXCEPT ![h] = NoTool]
    /\ UNCHANGED <<setting, at, tries>>

Return(h) ==
    /\ result[h] = "running" /\ at[h] = "end"
    /\ result' = [result EXCEPT ![h] = "ok"]
    /\ UNCHANGED <<setting, files, at, tool, tries>>

\* The files after removing some.
Without(fs, gone) == [f \in Files |-> IF f \in gone THEN Absent ELSE fs[f]]

\* The copies of instrument_contracts and of the fallback on Windows.
CopyStep(h, step, from, to, cleanup) ==
    /\ Active(h) /\ at[h] = step
    /\ \/ /\ files[from] # Absent
          /\ files' = [files EXCEPT ![to] = files[from]]
          /\ Advance(h)
       \/ /\ files[from] = Absent \/ CopyMayFail
          /\ files' = Without(files, cleanup)
          /\ Fail(h)

CopyIn(h) == CopyStep(h, "copy-in", GotoFile(h), ShortFile, {})
Backup(h) == CopyStep(h, "backup", ShortFile, BackupFile, {ShortFile})
CopyOut(h) == CopyStep(h, "copy-out", ShortFile, GotoFile(h), {})

RemoveShort(h) ==
    /\ Active(h) /\ at[h] = "remove"
    /\ files' = Without(files, {ShortFile})
    /\ Advance(h)

\* Start of a tool: on Windows on a private copy of the file, or in place when
\* the copy cannot be made (goto-cc has no such fallback).
StartTool(h) ==
    /\ Active(h) /\ at[h] \in Passes /\ tool[h] = NoTool
    /\ \/ /\ Windows /\ files[Target(h)] # Absent
          /\ files' = [files EXCEPT ![TmpFile(h)] = files[Target(h)]]
          /\ tool' = [tool EXCEPT ![h] = TmpFile(h)]
          /\ UNCHANGED <<setting, at, tries, result>>
       \/ /\ Windows => (files[Target(h)] = Absent \/ CopyMayFail) /\ at[h] # "specialize"
          /\ tool' = [tool EXCEPT ![h] = Target(h)]
          /\ UNCHANGED <<setting, files, at, tries, result>>
       \/ /\ Windows /\ at[h] = "specialize" /\ (files[Target(h)] = Absent \/ CopyMayFail)
          /\ UNCHANGED files
          /\ Fail(h)

Tooling(h) == Active(h) /\ tool[h] # NoTool
InPlace(h) == tool[h] = Target(h)
Input(h) == files[tool[h]]

\* The tool succeeds and, on Windows, its output is copied back.
ToolSucceeds(h) ==
    /\ Tooling(h) /\ Accepts(h, Pass(h), Input(h))
    /\ files' = Without([files EXCEPT ![Target(h)] = Applied(Input(h), Pass(h))],
                        (IF InPlace(h) THEN {} ELSE {tool[h]})
                          \cup (IF Windows /\ at[h] = "enforce" THEN {BackupFile} ELSE {}))
    /\ Advance(h)

\* What is removed before an error is returned.
Cleanup(h) ==
    CASE Windows /\ at[h] = "dfcc" -> {ShortFile}
      [] Windows /\ at[h] = "enforce" -> {ShortFile, BackupFile}
      [] OTHER -> {}

\* The output cannot be copied back; goto-cc's input has been removed before.
CopyBackFails(h) ==
    /\ Tooling(h) /\ CopyMayFail /\ ~InPlace(h) /\ Accepts(h, Pass(h), Input(h))
    /\ files' = Without(files, Cleanup(h) \cup IF at[h] = "specialize" THEN {Target(h)} ELSE {})
    /\ Fail(h)

\* The files after a tool that failed: in place, the file may be torn.
Wreckage(h) ==
    IF InPlace(h) /\ files[tool[h]] # Absent
    THEN {files, [files EXCEPT ![tool[h]] = Torn]}
    ELSE {Without(files, {tool[h]})}

\* The pass is given up and the model stays as it was before it.
Skip(h) ==
    /\ Tooling(h) /\ Windows /\ at[h] = "dfcc"
    /\ files' \in Wreckage(h)
    /\ Advance(h)

\* The fallback of --enforce-contract: the model is restored from the backup;
\* then another symbol is tried, or there is none left and the pass is skipped.
RetryEnforce(h) ==
    /\ Tooling(h) /\ Windows /\ at[h] = "enforce"
    /\ \E wreck \in Wreckage(h) :
          LET restored == [wreck EXCEPT ![ShortFile] = wreck[BackupFile]]
          IN  \/ /\ wreck[BackupFile] # Absent /\ tries[h] < Alternatives
                 /\ files' = restored
                 /\ tries' = [tries EXCEPT ![h] = @ + 1]
                 /\ tool' = [tool EXCEPT ![h] = NoTool]
                 /\ UNCHANGED <<setting, at, result>>
              \/ /\ wreck[BackupFile] # Absent
                 /\ files' = Without(restored, {BackupFile})
                 /\ Advance(h)
              \/ /\ wreck[BackupFile] = Absent \/ CopyMayFail
                 /\ files' = Without(wreck, {BackupFile, ShortFile})
                 /\ Fail(h)

\* --generate-function-body timed out: only unused functions are dropped.
RetryDrop(h) ==
    /\ Tooling(h) /\ Windows /\ at[h] = "bodies" /\ tries[h] = 0
    /\ files' \in Wreckage(h)
    /\ tries' = [tries EXCEPT ![h] = 1]
    /\ tool' = [tool EXCEPT ![h] = NoTool]
    /\ UNCHANGED <<setting, at, result>>

\* The tool fails and instrument_model returns the error.
GiveUp(h) ==
    /\ Tooling(h)
    /\ \E wreck \in Wreckage(h) : files' = Without(wreck, Cleanup(h))
    /\ Fail(h)

\* Mutant: the driver waits for the tool for ever.
WaitForTool(h) == FALSE

\* The tool runs into the timeout and is killed.
ToolTimesOut(h) ==
    /\ Tooling(h) /\ Timed(h)
    /\ \/ Skip(h)
       \/ RetryEnforce(h)
       \/ RetryDrop(h)
       \/ at[h] = "bodies" /\ tries[h] = 1 /\ GiveUp(h)

\* The tool exits with an error, or crashes in a way that is retried.
ToolFails(h) ==
    \/ GiveUp(h)
    \/ RetryEnforce(h)

FileStep(h) == CopyIn(h) \/ Backup(h) \/ CopyOut(h) \/ RemoveShort(h) \/ StartTool(h) \/ Return(h)
ToolEnds(h) == ToolSucceeds(h) \/ CopyBackFails(h) \/ ToolFails(h)

Terminated == (\A h \in Harnesses : result[h] \in {"ok", "err"}) /\ UNCHANGED vars

Next ==
    \/ \E h \in Harnesses : Begin(h) \/ FileStep(h) \/ ToolEnds(h) \/ ToolTimesOut(h)
    \/ Terminated

Spec == Init /\ [][Next]_vars

\* The driver goes on; a tool that runs without a timeout ends some time.
Fairness ==
    \A h \in Harnesses :
        /\ WF_vars(Begin(h)) /\ WF_vars(FileStep(h)) /\ WF_vars(ToolTimesOut(h))
        /\ WF_vars(Tooling(h) /\ ~Timed(h) /\ ToolEnds(h))

FairSpec == Spec /\ Fairness

-----------------------------------------------------------------------------

\* Every variable has its type; only the two passes with a fallback are
\* retried, and a tool runs only for a harness whose worker waits for it.
TypeOK ==
    /\ setting \in Settings
    /\ files \in [Files -> Model \cup {Torn, Absent}]
    /\ at \in [Harnesses -> Passes \cup CopySteps \cup {"end"}] /\ tries \in [Harnesses -> Nat]
    /\ result \in [Harnesses -> {"none", "running", "ok", "err"}]
    /\ \A h \in Harnesses :
          /\ Active(h) /\ tries[h] > 0 =>
                Windows /\ at[h] \in {"enforce", "bodies"} /\ tries[h] <= Alternatives + 1
          /\ tool[h] = NoTool \/ (Tooling(h) /\ tool[h] \in {Target(h), TmpFile(h)})

Succeeded(h) == result[h] = "ok"

\* When instrument_model succeeds, the goto file that CBMC is going to verify
\* is a whole model, of this harness and of no other one, whatever the workers
\* of other harnesses did at the same time.
ModelOfHarness ==
    \A h \in Harnesses :
        Succeeded(h) => files[GotoFile(h)] \in Model /\ files[GotoFile(h)].of = h

\* When instrument_model succeeds, every pass it asked for has been applied to
\* the goto file, and no failure of a tool, not even one that tore a file, went
\* unnoticed: the entry point is set, loops are normalised and unused functions
\* are gone; a contract is enforced and undefined functions have got their
\* failing bodies, but on Windows, where these two passes are given up when they
\* take too long.
PassesApplied ==
    \A h \in Harnesses :
        Succeeded(h) =>
            LET done == files[GotoFile(h)].done
            IN  /\ {"specialize", "backedge"} \subseteq done /\ done \cap {"bodies", "drop"} # {}
                /\ ~Windows => /\ h \in Contract => {"dfcc", "enforce"} \subseteq done
                               /\ UndefinedChecks => "bodies" \in done

\* Once all harnesses are instrumented, no temporary file is left.
NoLeftovers ==
    (\A h \in Harnesses : Succeeded(h)) => \A f \in Temporaries : files[f] = Absent

\* What a successful instrument_model promises the run of CBMC that follows: its
\* own model, with every pass, and a directory without leftovers, whatever the
\* tools did and whatever the workers of other harnesses did in the meantime.
SuccessMeansModel == ModelOfHarness /\ PassesApplied /\ NoLeftovers

\* instrument_model returns for every harness: no tool that may hang is waited
\* for without a timeout, and the retries come to an end.
AllReturn == <>(\A h \in Harnesses : result[h] \in {"ok", "err"})
=============================================================================
