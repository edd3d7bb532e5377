--------------------------- MODULE PropertyRenderer ---------------------------
(***************************************************************************)
(* postprocess_result: from the statuses CBMC reports to the statuses and  *)
(* the verdict that kani shows (kani-driver, cbmc_property_renderer.rs).   *)
(*                                                                         *)
(* CBMC's statuses are derived from the executions of a program, so that   *)
(* what kani shows can be compared with what the program does.  The        *)
(* program is a sequence of sites, each with one check.                    *)
(***************************************************************************)
EXTENDS Naturals

CONSTANTS
    Sites,          \* the number of sites
    KindSets,       \* sets of kinds of checks: a program has the checks of one of them
    ReachChecks,    \* check_assertion_reachability
    ExtraPtrChecks, \* --extra-pointer-checks
    Ids,            \* the ways to give IDs to the sites: copies of a check share one
    ExecSets        \* the sets of executions a program may have

Site == 1..Sites

\* What an execution does at a site: it does not come there, it passes the
\* check, or it fails it (for a cover: it satisfies it).
Outcomes == {"skip", "pass", "fail"}

\* Checks whose failure means that CBMC has not seen all executions.
Fundamental == {"unsupported", "unwinding", "undefined"}
\* Checks of the generated code itself.
SanityChecks == {"sanity"}
\* Checks after whose failure CBMC does not go on: codegen_assert_assume and
\* what is built on it (codegen_sanity, codegen_unimplemented_stmt), and the
\* checks of CBMC itself.  "assert" stands for every class whose failure ends
\* the execution, safety checks included.
Blocking == Fundamental \cup {"assert", "ub"} \cup SanityChecks
\* Checks that come with a reachability check, and share their ID with it.
Marked == {"assert", "cover"}
AllKinds == Blocking \cup {"cover", "coverage", "pointer"}

\* A failed assertion ends the program, a failed sanity check does not: it tells
\* of a fault in the generated code.  An unsupported construct, an undefined
\* function and a coverage point fail whenever they are reached.
IsExecution(e, kind) ==
    /\ e \in [Site -> Outcomes]
    /\ \A s \in Site :
          /\ kind[s] \in {"unsupported", "undefined", "coverage"} => e[s] # "pass"
          /\ kind[s] = "assert" /\ e[s] = "fail" => \A u \in Site : u > s => e[u] = "skip"

IsProgram(p) ==
    /\ \E kinds \in KindSets : p.kind \in [Site -> kinds]
    /\ p.id \in Ids
    /\ \A s, u \in Site : p.id[s] = p.id[u] => p.kind[s] = p.kind[u]
    /\ \A e \in p.execs : IsExecution(e, p.kind)

ASSUME SitesAssumption == Sites \in Nat
ASSUME KindsAssumption == \A kinds \in KindSets : kinds \subseteq AllKinds
ASSUME FlagsAssumption == ReachChecks \in BOOLEAN /\ ExtraPtrChecks \in BOOLEAN
ASSUME IdsAssumption == Ids \subseteq [Site -> Nat]

VARIABLES
    program,     \* the program that was verified
    pc,          \* the next pass of postprocess_result
    fundamental, \* has_fundamental_failures
    kept,        \* the sites whose check is still in the list
    status,      \* their statuses
    reach        \* the statuses of their reachability checks

vars == <<program, pc, fundamental, kept, status, reach>>

kind == program.kind

-----------------------------------------------------------------------------
(* External: CBMC.  An execution is followed until it fails a check that   *)
(* blocks; after undefined behaviour nothing is known of what could follow.*)

Explores(e, s) == e[s] # "skip" /\ \A u \in Site : u < s /\ e[u] = "fail" => kind[u] \notin Blocking

Reached(s) == \E e \in program.execs : Explores(e, s)
Fails(s) == \E e \in program.execs : Explores(e, s) /\ e[s] = "fail"
AfterUB(s) == \E u \in Site : u < s /\ kind[u] = "ub" /\ Fails(u)

CbmcStatus(s, failed) == IF failed THEN "FAILURE" ELSE IF AfterUB(s) THEN "UNKNOWN" ELSE "SUCCESS"

RawStatus(s) == CbmcStatus(s, Fails(s))
RawReach(s) == CbmcStatus(s, Reached(s))

-----------------------------------------------------------------------------

Init ==
    /\ \E kinds \in KindSets : program \in [kind : [Site -> kinds], id : Ids, execs : ExecSets]
    /\ IsProgram(program)
    /\ pc = "detect"
    /\ fundamental = FALSE
    /\ kept = Site
    /\ status = [s \in Site |-> RawStatus(s)]
    /\ reach = [s \in Site |-> "none"]

\* Mutant: undefined functions are not looked for.
DetectFailuresButUndefined ==
    /\ pc = "detect"
    /\ fundamental' = \E s \in kept : kind[s] \in Fundamental \ {"undefined"} /\ status[s] = "FAILURE"
    /\ pc' = "filter"
    /\ UNCHANGED <<program, kept, status, reach>>

\* has_check_failure, has_unwinding_assertion_failures and
\* modify_undefined_function_checks
DetectFailures ==
    /\ pc = "detect"
    /\ fundamental' = \E s \in kept : kind[s] \in Fundamental /\ status[s] = "FAILURE"
    /\ pc' = "filter"
    /\ UNCHANGED <<program, kept, status, reach>>

\* filter_sanity_checks; the reachability checks leave the list before it.
FilterSanityChecks ==
    /\ pc = "filter"
    /\ kept' = {s \in kept : ~(kind[s] = "sanity" /\ status[s] = "SUCCESS")}
    /\ pc' = "annotate"
    /\ UNCHANGED <<program, fundamental, status, reach>>

\* The reachability checks with the ID of a site: its own and those of the
\* other copies of the check.
Copies(s) == {u \in Site : ReachChecks /\ kind[u] \in Marked /\ program.id[u] = program.id[s]}

\* Of the statuses of the copies, the first that is not a success wins.
ReachResult(s) ==
    IF kind[s] \notin Marked \/ Copies(s) = {} THEN "none"
    ELSE IF \A u \in Copies(s) : RawReach(u) = "SUCCESS" THEN "SUCCESS"
    ELSE RawReach(CHOOSE u \in Copies(s) : /\ RawReach(u) # "SUCCESS"
                                           /\ \A v \in Copies(s) : v < u => RawReach(v) = "SUCCESS")

\* annotate_properties_with_reach_results
Annotate ==
    /\ pc = "annotate"
    /\ reach' = [s \in Site |-> IF s \in kept THEN ReachResult(s) ELSE reach[s]]
    /\ pc' = "pointers"
    /\ UNCHANGED <<program, fundamental, kept, status>>

\* filter_ptr_checks
FilterPtrChecks ==
    /\ pc = "pointers"
    /\ kept' = IF ExtraPtrChecks THEN kept ELSE {s \in kept : kind[s] # "pointer"}
    /\ pc' = "update"
    /\ UNCHANGED <<program, fundamental, status, reach>>

\* The assertion in update_properties_with_reach_status
Unexpected(s) == ~fundamental /\ reach[s] = "SUCCESS" /\ status[s] # "SUCCESS"

\* update_properties_with_reach_status
WithReachStatus(s) ==
    CASE fundamental /\ status[s] = "SUCCESS" -> "UNDETERMINED"
      [] ~fundamental /\ reach[s] = "SUCCESS" -> "UNREACHABLE"
      [] OTHER -> status[s]

\* A pass over the list that changes statuses, or panics.
Pass(before, after, panics(_), new(_)) ==
    /\ pc = before
    /\ \/ /\ \E s \in kept : panics(s)
          /\ pc' = "panic"
          /\ UNCHANGED status
       \/ /\ \A s \in kept : ~panics(s)
          /\ pc' = after
          /\ status' = [s \in Site |-> IF s \in kept THEN new(s) ELSE status[s]]
    /\ UNCHANGED <<program, fundamental, kept, reach>>

UpdateReachStatus == Pass("update", "coverage", Unexpected, WithReachStatus)

\* The unreachable! in update_results_of_code_covererage_checks
BadCoverage(s) == kind[s] = "coverage" /\ status[s] \notin {"SUCCESS", "FAILURE"}

Renamed(s, which, success, failure) ==
    CASE kind[s] = which /\ status[s] = "SUCCESS" -> success
      [] kind[s] = which /\ status[s] = "FAILURE" -> failure
      [] OTHER -> status[s]

WithCoverage(s) == Renamed(s, "coverage", "UNCOVERED", "COVERED")

WithCover(s) == Renamed(s, "cover", "UNSATISFIABLE", "SATISFIED")

Never(s) == FALSE

\* update_results_of_code_covererage_checks and update_results_of_cover_checks
UpdateCoverage == Pass("coverage", "cover", BadCoverage, WithCoverage)
UpdateCover == Pass("cover", "done", Never, WithCover)

Finished == pc \in {"done", "panic"} /\ UNCHANGED vars

Next ==
    \/ DetectFailures \/ FilterSanityChecks \/ Annotate \/ FilterPtrChecks
    \/ UpdateReachStatus \/ UpdateCoverage \/ UpdateCover
    \/ Finished

Spec == Init /\ [][Next]_vars

-----------------------------------------------------------------------------
(* What kani shows, and what the program does.                             *)

\* verification_outcome_from_properties, for a harness that should not panic
VerdictSuccess == \A s \in kept : status[s] # "FAILURE"

Shown(s, what) == pc = "done" /\ s \in kept /\ status[s] = what
CanFail(s) == \E e \in program.execs : e[s] = "fail"
CanReach(s) == \E e \in program.execs : e[s] # "skip"

Statuses == {"FAILURE", "SUCCESS", "UNKNOWN", "UNDETERMINED", "UNREACHABLE",
             "COVERED", "UNCOVERED", "SATISFIED", "UNSATISFIABLE"}

\* Every variable has its type; the statuses of covers are given to no other
\* check, as format_result asserts, nor are those of coverage points.
TypeOK ==
    /\ IsProgram(program)
    /\ pc \in {"detect", "filter", "annotate", "pointers", "update", "coverage", "cover", "done", "panic"}
    /\ fundamental \in BOOLEAN
    /\ kept \subseteq Site
    /\ status \in [Site -> Statuses]
    /\ reach \in [Site -> Statuses \cup {"none"}]
    /\ \A s \in Site :
          /\ status[s] \in {"SATISFIED", "UNSATISFIABLE"} => kind[s] = "cover"
          /\ status[s] \in {"COVERED", "UNCOVERED"} => kind[s] = "coverage"

\* A sanity check before s is shown as failed, with its request to report a bug
\* of kani: codegen_sanity assumes what it asserts, so that CBMC follows no
\* execution beyond it, but it is not among the failures that make the other
\* checks UNDETERMINED.
BehindFailedSanity(s) == \E u \in Site : u < s /\ kind[u] = "sanity" /\ Shown(u, "FAILURE")

\* A check is shown as a success only if no execution of the program fails it,
\* not even one that CBMC did not follow to this check, or if a sanity check
\* before it is shown as failed.
SuccessHolds == \A s \in Site : Shown(s, "SUCCESS") => ~CanFail(s) \/ BehindFailedSanity(s)

\* A check is shown as unreachable only if no execution comes to it, or if a
\* sanity check before it is shown as failed.
UnreachableIsUnreachable ==
    \A s \in Site : Shown(s, "UNREACHABLE") => ~CanReach(s) \/ BehindFailedSanity(s)

\* A cover is shown as satisfied only if some execution satisfies it, and as
\* unsatisfiable only if none does or a sanity check before it is shown as failed.
CoversRight ==
    \A s \in Site : /\ Shown(s, "SATISFIED") => CanFail(s)
                    /\ Shown(s, "UNSATISFIABLE") => ~CanFail(s) \/ BehindFailedSanity(s)

\* A point is shown as covered only if it is, and as uncovered only if it is
\* not or a sanity check before it is shown as failed.
CoverageRight ==
    \A s \in Site : /\ Shown(s, "COVERED") => CanReach(s)
                    /\ Shown(s, "UNCOVERED") => ~CanReach(s) \/ BehindFailedSanity(s)

\* The verdict is a success only if no execution fails an assertion, shows
\* undefined behaviour or violates a sanity check of the compiler.
VerdictRight ==
    pc = "done" /\ VerdictSuccess =>
        \A s \in Site : kind[s] \in {"assert", "ub", "sanity"} => ~CanFail(s)

\* Postprocessing does not panic for a harness without coverage points: the
\* statuses are what its assertions and its unreachable!() expect, whichever
\* other checks failed or were left unknown.
NoPanic == (\A s \in Site : kind[s] # "coverage") => pc # "panic"

\* The report is true of the program: of what format_result shows of a check,
\* the status and the verdict say nothing that an execution of the program
\* refutes, also where CBMC did not follow that execution, and the passes over
\* the statuses come to their end.  The one exception is on show too: a check
\* behind a sanity check that is shown as failed may be shown as passed,
\* unreachable or uncovered and not be so; the verdict is then a failure.
ReportTrue ==
    /\ SuccessHolds /\ UnreachableIsUnreachable /\ CoversRight /\ CoverageRight
    /\ VerdictRight /\ NoPanic

-----------------------------------------------------------------------------
(* Choices for model checking.                                             *)

\* The IDs of the sites are all different, or those of every second site are the same.
IdChoices == {[s \in Site |-> s], [s \in Site |-> s % 2]}

\* Programs with one or two executions.
ExecPairs == {{e, f} : e, f \in [Site -> Outcomes]}
=============================================================================
