------------------------ MODULE PropertyRendererProofs ------------------------
(* What kani shows of a check is true of the program, for programs of any    *)
(* size and with any executions.                                             *)
EXTENDS PropertyRenderer, WellFoundedInduction, TLAPS

-----------------------------------------------------------------------------
(* What CBMC's statuses say of the program.                                *)

\* Some check failed that hides executions from CBMC.
HidesExecutions == \E s \in Site : kind[s] \in Fundamental /\ Fails(s)

\* A sanity check before s failed, beyond which CBMC follows no execution.
SanityBefore(s) == \E u \in Site : u < s /\ kind[u] = "sanity" /\ Fails(u)

\* A set of sites that is not empty has a first one.
LEMMA FirstSite ==
    ASSUME NEW B \in SUBSET Nat, B # {}
    PROVE  \E u \in B : \A v \in B : u <= v
<1> DEFINE R == OpToRel(<, Nat)
<1>1. \A x, y \in Nat : <<x, y>> \in R <=> x < y
    BY DEF OpToRel
<1>2. PICK u \in B : \A v \in B : ~(<<v, u>> \in R)
    <2> HIDE DEF R
    <2>1. IsWellFoundedOn(R, Nat)
        BY NatLessThanWellFounded DEF R
    <2>2. QED BY <2>1, WFMin
<1>3. \A v \in B : u <= v
    <2> HIDE DEF R
    <2>1. SUFFICES ASSUME NEW v \in B PROVE u <= v
        OBVIOUS
    <2>2. u \in Nat /\ v \in Nat
        OBVIOUS
    <2>3. ~(v < u)
        BY <1>1, <1>2, <2>2, Zenon
    <2>4. QED BY <2>2, <2>3
<1>4. QED BY <1>3

\* An execution that is not followed to a site has failed a blocking check
\* before, and the first such check is seen to fail.
LEMMA FirstBlock ==
    ASSUME NEW e \in program.execs, NEW s \in Site, e[s] # "skip", ~Explores(e, s)
    PROVE  \E u \in Site : u < s /\ e[u] = "fail" /\ kind[u] \in Blocking /\ Explores(e, u)
<1> DEFINE B == {u \in Site : u < s /\ e[u] = "fail" /\ kind[u] \in Blocking}
<1>1. B # {} /\ B \in SUBSET Nat
    BY DEF Explores, Site
<1>2. PICK u \in B : \A v \in B : u <= v
    <2> HIDE DEF B
    <2>1. QED BY <1>1, FirstSite
<1>3. \A v \in Site : v < u /\ e[v] = "fail" => kind[v] \notin Blocking
    BY <1>2, SitesAssumption DEF Site
<1>4. QED BY <1>2, <1>3 DEF Explores

\* If nothing hides executions from CBMC, a site that some execution comes to
\* is explored, or comes after undefined behaviour or a failed sanity check.
LEMMA ReachedOrAfterUB ==
    ASSUME IsProgram(program), ~HidesExecutions, NEW e \in program.execs, NEW s \in Site, e[s] # "skip"
    PROVE  Explores(e, s) \/ AfterUB(s) \/ SanityBefore(s)
<1> SUFFICES ASSUME ~Explores(e, s) PROVE AfterUB(s) \/ SanityBefore(s)
    OBVIOUS
<1>1. PICK u \in Site : u < s /\ e[u] = "fail" /\ kind[u] \in Blocking /\ Explores(e, u)
    BY FirstBlock
<1>2. Fails(u)
    BY <1>1 DEF Fails
<1>3. kind[u] \notin Fundamental
    BY <1>2 DEF HidesExecutions
<1>4. kind[u] # "assert"
    BY <1>1 DEF IsProgram, IsExecution, kind, Site
<1>5. kind[u] \in {"ub", "sanity"}
    BY <1>1, <1>3, <1>4 DEF Blocking, SanityChecks
<1>6. QED BY <1>1, <1>2, <1>5 DEF AfterUB, SanityBefore

\* A success of CBMC is one of the program when nothing hides executions, a
\* failed sanity check included.
LEMMA SuccessSound ==
    ASSUME IsProgram(program), ~HidesExecutions, NEW s \in Site, RawStatus(s) = "SUCCESS"
    PROVE  ~CanFail(s) \/ SanityBefore(s)
<1>1. ~Fails(s) /\ ~AfterUB(s)
    BY DEF RawStatus, CbmcStatus
<1>2. QED BY <1>1, ReachedOrAfterUB DEF CanFail, Fails

\* The same for a reachability check.
LEMMA ReachSound ==
    ASSUME IsProgram(program), ~HidesExecutions, NEW s \in Site, RawReach(s) = "SUCCESS"
    PROVE  ~CanReach(s) \/ SanityBefore(s)
<1>1. ~Reached(s) /\ ~AfterUB(s)
    BY DEF RawReach, CbmcStatus
<1>2. QED BY <1>1, ReachedOrAfterUB DEF CanReach, Reached

-----------------------------------------------------------------------------
(* The invariant of the passes.                                            *)

Before == {"detect", "filter", "annotate", "pointers", "update"}

\* Until the statuses are updated they are CBMC's; only sanity checks that
\* passed and pointer checks have left the list.
RawUntilUpdate ==
    /\ IsProgram(program) /\ kept \subseteq Site /\ fundamental \in BOOLEAN
    /\ pc \in Before => status = [s \in Site |-> RawStatus(s)]
    /\ \A s \in Site : s \notin kept => kind[s] = "pointer" \/ RawStatus(s) = "SUCCESS"
    /\ \A s \in Site : s \notin kept => kind[s] \in {"pointer", "sanity"}

\* The failures that hide executions have been found.
FundamentalRight ==
    /\ pc = "detect" => kept = Site
    /\ pc # "detect" => (fundamental <=> HidesExecutions)

\* A successful reachability check is the one of the site, too.
ReachRight ==
    \A s \in Site : reach[s] = "SUCCESS" => RawReach(s) = "SUCCESS"

\* What the updated statuses say; failures of checks are never lost.
UpdatedRight ==
    pc \notin Before \cup {"panic"} => \A s \in kept :
        /\ status[s] \in {"SUCCESS", "UNSATISFIABLE", "UNCOVERED"} => ~fundamental /\ RawStatus(s) = "SUCCESS"
        /\ status[s] = "FAILURE" => RawStatus(s) = "FAILURE"
        /\ status[s] = "UNREACHABLE" => ~fundamental /\ RawReach(s) = "SUCCESS"
        /\ status[s] \in {"SATISFIED", "COVERED"} => RawStatus(s) = "FAILURE"
        /\ RawStatus(s) = "FAILURE" /\ kind[s] \notin {"cover", "coverage"} => status[s] = "FAILURE"

RendererInvariant == RawUntilUpdate /\ FundamentalRight /\ ReachRight /\ UpdatedRight

\* CBMC's statuses satisfy the invariant.
LEMMA RendererInit == Init => RendererInvariant
<1> SUFFICES ASSUME Init PROVE RendererInvariant
    OBVIOUS
<1>1. RawUntilUpdate
    BY DEF Init, RawUntilUpdate
<1>2. FundamentalRight /\ ReachRight /\ UpdatedRight
    BY DEF Init, FundamentalRight, ReachRight, UpdatedRight, Before
<1>3. QED BY <1>1, <1>2 DEF RendererInvariant

\* A success of all copies of a check is a success of its own reachability check.
LEMMA ReachResultSound ==
    ASSUME NEW s \in Site, ReachResult(s) = "SUCCESS"
    PROVE  RawReach(s) = "SUCCESS"
<1>1. kind[s] \in Marked /\ Copies(s) # {}
    BY DEF ReachResult
<1>2. s \in Copies(s)
    BY <1>1 DEF Copies
<1>3. CASE \A u \in Copies(s) : RawReach(u) = "SUCCESS"
    BY <1>2, <1>3
<1>4. CASE ~\A u \in Copies(s) : RawReach(u) = "SUCCESS"
    <2> DEFINE B == {u \in Copies(s) : RawReach(u) # "SUCCESS"}
    <2>1. B # {} /\ B \in SUBSET Nat
        BY <1>4 DEF Copies, Site
    <2>2. PICK u \in B : \A v \in B : u <= v
        <3> HIDE DEF B
        <3>1. QED BY <2>1, FirstSite
    <2>3. /\ u \in Copies(s) /\ RawReach(u) # "SUCCESS"
          /\ \A v \in Copies(s) : v < u => RawReach(v) = "SUCCESS"
        BY <2>2 DEF Copies, Site
    <2>4. ReachResult(s) # "SUCCESS"
        <3> DEFINE F(w) == RawReach(w) # "SUCCESS" /\ \A v \in Copies(s) : v < w => RawReach(v) = "SUCCESS"
        <3>1. F(CHOOSE w \in Copies(s) : F(w))
            BY <2>3
        <3>2. ReachResult(s) = RawReach(CHOOSE w \in Copies(s) : F(w))
            BY <1>1, <1>4 DEF ReachResult
        <3>3. QED BY <3>1, <3>2
    <2>5. QED BY <2>4
<1>5. QED BY <1>3, <1>4

\* The passes before the statuses change.
LEMMA RendererEarly ==
    ASSUME RendererInvariant, DetectFailures \/ FilterSanityChecks \/ Annotate \/ FilterPtrChecks
    PROVE  RendererInvariant'
<1> USE DEF RendererInvariant
<1>1. UNCHANGED <<program, status>> /\ pc \in Before /\ pc' \in Before
    BY DEF DetectFailures, FilterSanityChecks, Annotate, FilterPtrChecks, Before
<1>2. /\ \A s : RawStatus(s)' = RawStatus(s) /\ RawReach(s)' = RawReach(s)
      /\ HidesExecutions' = HidesExecutions /\ kind' = kind
    BY <1>1 DEF RawStatus, RawReach, CbmcStatus, AfterUB, Fails, Reached, Explores, kind, HidesExecutions
<1>3. \A s \in Site : status[s] = RawStatus(s)
    BY <1>1 DEF RawUntilUpdate
<1>4. RawUntilUpdate'
    BY <1>1, <1>2, <1>3
       DEF RawUntilUpdate, DetectFailures, FilterSanityChecks, Annotate, FilterPtrChecks
<1>5. FundamentalRight'
    <2>1. CASE DetectFailures
        <3>1. fundamental' <=> \E s \in Site : kind[s] \in Fundamental /\ RawStatus(s) = "FAILURE"
            BY <1>3, <2>1 DEF DetectFailures, FundamentalRight
        <3>2. fundamental' <=> HidesExecutions
            BY <3>1 DEF HidesExecutions, RawStatus, CbmcStatus
        <3>3. QED BY <1>2, <2>1, <3>2 DEF FundamentalRight, DetectFailures
    <2>2. CASE ~DetectFailures
        BY <1>2, <2>2 DEF FundamentalRight, FilterSanityChecks, Annotate, FilterPtrChecks
    <2>3. QED BY <2>1, <2>2
<1>6. ReachRight'
    <2>1. CASE Annotate
        BY <1>2, <2>1, ReachResultSound DEF ReachRight, Annotate
    <2>2. CASE ~Annotate
        BY <1>2, <2>2 DEF ReachRight, FilterSanityChecks, DetectFailures, FilterPtrChecks
    <2>3. QED BY <2>1, <2>2
<1>7. UpdatedRight'
    BY <1>1 DEF UpdatedRight
<1>8. QED BY <1>4, <1>5, <1>6, <1>7

\* The passes that change statuses.
LEMMA RendererLate ==
    ASSUME RendererInvariant, UpdateReachStatus \/ UpdateCoverage \/ UpdateCover
    PROVE  RendererInvariant'
<1> USE DEF RendererInvariant
<1>1. UNCHANGED <<program, fundamental, kept, reach>> /\ pc # "detect" /\ pc' # "detect" /\ pc' \notin Before
    BY DEF UpdateReachStatus, UpdateCoverage, UpdateCover, Pass, Before
<1>2. /\ \A s : RawStatus(s)' = RawStatus(s) /\ RawReach(s)' = RawReach(s)
      /\ HidesExecutions' = HidesExecutions /\ kind' = kind
    BY <1>1 DEF RawStatus, RawReach, CbmcStatus, AfterUB, Fails, Reached, Explores, kind, HidesExecutions
<1>3. RawUntilUpdate' /\ FundamentalRight' /\ ReachRight'
    BY <1>1, <1>2 DEF RawUntilUpdate, FundamentalRight, ReachRight
<1>4. UpdatedRight'
    <2>1. SUFFICES ASSUME pc' # "panic", NEW s \in kept, s \in Site
                   PROVE  /\ status'[s] \in {"SUCCESS", "UNSATISFIABLE", "UNCOVERED"}
                                => ~fundamental /\ RawStatus(s) = "SUCCESS"
                          /\ status'[s] = "FAILURE" => RawStatus(s) = "FAILURE"
                          /\ status'[s] = "UNREACHABLE" => ~fundamental /\ RawReach(s) = "SUCCESS"
                          /\ status'[s] \in {"SATISFIED", "COVERED"} => RawStatus(s) = "FAILURE"
                          /\ RawStatus(s) = "FAILURE" /\ kind[s] \notin {"cover", "coverage"}
                                => status'[s] = "FAILURE"
        BY <1>1, <1>2 DEF UpdatedRight, RawUntilUpdate
    <2>2. CASE UpdateReachStatus
        <3>1. status[s] = RawStatus(s) /\ ~Unexpected(s) /\ status'[s] = WithReachStatus(s)
            BY <2>1, <2>2 DEF UpdateReachStatus, Pass, RawUntilUpdate, Before
        <3>2. RawStatus(s) \in {"FAILURE", "UNKNOWN", "SUCCESS"}
            BY DEF RawStatus, CbmcStatus
        <3>3. fundamental \in BOOLEAN
            BY DEF RawUntilUpdate
        <3>4. reach[s] = "SUCCESS" => RawReach(s) = "SUCCESS"
            BY <2>1 DEF ReachRight
        <3>5. QED BY <3>1, <3>2, <3>3, <3>4 DEF WithReachStatus, Unexpected
    <2>3. CASE UpdateCoverage
        <3>1. status'[s] = WithCoverage(s) /\ pc = "coverage"
            BY <2>1, <2>3 DEF UpdateCoverage, Pass
        <3>2. QED BY <2>1, <3>1 DEF UpdatedRight, Before, WithCoverage, Renamed
    <2>4. CASE UpdateCover
        <3>1. status'[s] = WithCover(s) /\ pc = "cover"
            BY <2>1, <2>4 DEF UpdateCover, Pass
        <3>2. QED BY <2>1, <3>1 DEF UpdatedRight, Before, WithCover, Renamed
    <2>5. QED BY <2>2, <2>3, <2>4
<1>5. QED BY <1>3, <1>4

\* The invariant holds in every state.
LEMMA RendererInvariantHolds == Spec => []RendererInvariant
<1>1. ASSUME RendererInvariant, [Next]_vars PROVE RendererInvariant'
    <2>1. CASE Finished \/ UNCHANGED vars
        <3>1. UNCHANGED vars
            BY <2>1 DEF Finished
        <3>2. QED BY <1>1, <3>1
              DEF vars, RendererInvariant, RawUntilUpdate, FundamentalRight, ReachRight, UpdatedRight,
                  HidesExecutions, RawStatus, RawReach, CbmcStatus, AfterUB, Fails, Reached, Explores, kind
    <2>2. QED BY <1>1, <2>1, RendererEarly, RendererLate DEF Next
<1>2. QED BY <1>1, RendererInit, PTL DEF Spec

\* A sanity check that failed is shown as failed.
LEMMA SanityShown ==
    ASSUME RendererInvariant, pc = "done", NEW s \in Site, SanityBefore(s)
    PROVE  BehindFailedSanity(s)
<1>1. PICK u \in Site : u < s /\ kind[u] = "sanity" /\ Fails(u)
    BY DEF SanityBefore
<1>2. RawStatus(u) = "FAILURE"
    BY <1>1 DEF RawStatus, CbmcStatus
<1>3. u \in kept
    BY <1>1, <1>2 DEF RendererInvariant, RawUntilUpdate
<1>4. status[u] = "FAILURE"
    BY <1>1, <1>2, <1>3 DEF RendererInvariant, UpdatedRight, Before
<1> QED BY <1>1, <1>3, <1>4 DEF BehindFailedSanity, Shown

\* The statuses of coverage points are given to no other check.
CoverageStatuses == \A s \in Site : status[s] \in {"COVERED", "UNCOVERED"} => kind[s] = "coverage"

\* Only the coverage pass gives the statuses of coverage points.
LEMMA CoverageStatusesHold == Spec => []CoverageStatuses
<1>1. ASSUME Init PROVE CoverageStatuses
    <2>1. \A s \in Site : status[s] \in {"FAILURE", "UNKNOWN", "SUCCESS"}
        BY <1>1 DEF Init, RawStatus, CbmcStatus
    <2>2. QED BY <2>1 DEF CoverageStatuses
<1>2. ASSUME CoverageStatuses, [Next]_vars PROVE CoverageStatuses'
    <2>1. kind' = kind
        BY <1>2 DEF Next, vars, Finished, DetectFailures, FilterSanityChecks, Annotate, FilterPtrChecks,
                    UpdateReachStatus, UpdateCoverage, UpdateCover, Pass, kind
    <2>2. CASE UNCHANGED status
        BY <1>2, <2>1, <2>2 DEF CoverageStatuses
    <2>3. ASSUME status' # status, NEW s \in Site, status'[s] \in {"COVERED", "UNCOVERED"}
          PROVE  kind[s] = "coverage"
        <3>1. status'[s] \in {status[s], WithReachStatus(s), WithCoverage(s), WithCover(s)}
            BY <1>2, <2>3 DEF Next, vars, Finished, DetectFailures, FilterSanityChecks, Annotate,
                              FilterPtrChecks, UpdateReachStatus, UpdateCoverage, UpdateCover, Pass
        <3>2. QED BY <1>2, <2>3, <3>1
              DEF CoverageStatuses, WithReachStatus, WithCoverage, WithCover, Renamed
    <2>4. QED BY <2>1, <2>2, <2>3 DEF CoverageStatuses
<1>3. QED BY <1>1, <1>2, PTL DEF Spec

\* For every program and every set of executions, a check is shown as a success
\* only if no execution of the program fails it or a failed sanity check before
\* it is shown.
THEOREM ShownSuccess == Spec => []SuccessHolds
<1>1. RendererInvariant => SuccessHolds
    BY SuccessSound, SanityShown DEF RendererInvariant, RawUntilUpdate, FundamentalRight, UpdatedRight, Before,
                        SuccessHolds, Shown
<1>2. QED BY <1>1, RendererInvariantHolds, PTL

\* A check is shown as unreachable only if no execution of the program comes to
\* it or a failed sanity check before it is shown.
THEOREM ShownUnreachable == Spec => []UnreachableIsUnreachable
<1>1. RendererInvariant => UnreachableIsUnreachable
    BY ReachSound, SanityShown DEF RendererInvariant, RawUntilUpdate, FundamentalRight, UpdatedRight, Before,
                      UnreachableIsUnreachable, Shown
<1>2. QED BY <1>1, RendererInvariantHolds, PTL

\* A cover is shown as satisfied or unsatisfiable only if it is, or, for the
\* latter, a failed sanity check before it is shown.
THEOREM ShownCovers == Spec => []CoversRight
<1>1. \A s : RawStatus(s) = "FAILURE" => CanFail(s)
    BY DEF RawStatus, CbmcStatus, Fails, CanFail
<1>2. RendererInvariant => CoversRight
    BY <1>1, SuccessSound, SanityShown DEF RendererInvariant, RawUntilUpdate, FundamentalRight, UpdatedRight, Before,
                              CoversRight, Shown
<1>3. QED BY <1>2, RendererInvariantHolds, PTL

\* The verdict is a success only if no execution of the program fails an
\* assertion, shows undefined behaviour or violates a sanity check.
THEOREM VerdictSound == Spec => []VerdictRight
<1>1. ASSUME RendererInvariant, pc = "done", VerdictSuccess, NEW s \in Site,
             kind[s] \in {"assert", "ub", "sanity"}, CanFail(s)
      PROVE  FALSE
    <2>1. IsProgram(program) /\ kept \subseteq Site
        BY <1>1 DEF RendererInvariant, RawUntilUpdate
    <2>2. \A u \in kept : kind[u] \notin {"cover", "coverage"} => RawStatus(u) # "FAILURE"
        BY <1>1 DEF RendererInvariant, UpdatedRight, Before, VerdictSuccess
    <2>3. \A u \in Site : kind[u] \in Blocking => ~Fails(u)
        <3>1. SUFFICES ASSUME NEW u \in Site, kind[u] \in Blocking PROVE ~Fails(u)
            OBVIOUS
        <3>2. kind[u] \notin {"cover", "coverage", "pointer"}
            BY <3>1 DEF Blocking, SanityChecks, Fundamental
        <3>3. RawStatus(u) # "FAILURE"
            BY <1>1, <2>2, <3>2 DEF RendererInvariant, RawUntilUpdate
        <3>4. QED BY <3>3 DEF RawStatus, CbmcStatus
    <2>4. ~HidesExecutions /\ ~AfterUB(s) /\ ~SanityBefore(s)
        BY <2>3 DEF HidesExecutions, AfterUB, SanityBefore, Blocking, SanityChecks
    <2>5. PICK e \in program.execs : e[s] = "fail"
        BY <1>1 DEF CanFail
    <2>6. Explores(e, s)
        BY <2>1, <2>4, <2>5, ReachedOrAfterUB
    <2>7. Fails(s)
        BY <2>5, <2>6 DEF Fails
    <2>8. QED BY <1>1, <2>3, <2>7 DEF Blocking, SanityChecks
<1>2. RendererInvariant => VerdictRight
    BY <1>1 DEF VerdictRight
<1>3. QED BY <1>2, RendererInvariantHolds, PTL

\* A coverage point is shown as covered or uncovered only if it is, or, for the
\* latter, a failed sanity check before it is shown.
THEOREM ShownCoverage == Spec => []CoverageRight
<1>1. \A s : RawStatus(s) = "FAILURE" => CanReach(s)
    BY DEF RawStatus, CbmcStatus, Fails, Explores, CanReach
<1>2. ASSUME IsProgram(program), NEW s \in Site, kind[s] = "coverage", ~CanFail(s)
      PROVE  ~CanReach(s)
    BY <1>2 DEF IsProgram, IsExecution, Outcomes, CanFail, CanReach, kind
<1>3. ASSUME RendererInvariant, CoverageStatuses PROVE CoverageRight
    <2>1. SUFFICES ASSUME NEW s \in Site, pc = "done", s \in kept
                   PROVE  /\ status[s] = "COVERED" => CanReach(s)
                          /\ status[s] = "UNCOVERED" => ~CanReach(s) \/ BehindFailedSanity(s)
        BY DEF CoverageRight, Shown
    <2>2. CASE status[s] = "COVERED"
        BY <1>1, <1>3, <2>1, <2>2 DEF RendererInvariant, UpdatedRight, Before
    <2>3. CASE status[s] = "UNCOVERED"
        <3>1. IsProgram(program) /\ ~HidesExecutions /\ RawStatus(s) = "SUCCESS" /\ kind[s] = "coverage"
            BY <1>3, <2>1, <2>3
               DEF RendererInvariant, RawUntilUpdate, FundamentalRight, UpdatedRight, Before, CoverageStatuses
        <3>2. QED BY <1>2, <1>3, <2>1, <2>3, <3>1, SuccessSound, SanityShown
    <2>4. QED BY <2>2, <2>3
<1>4. QED BY <1>3, RendererInvariantHolds, CoverageStatusesHold, PTL

\* Postprocessing does not panic for a harness without coverage points.
THEOREM NeverPanics == Spec => []NoPanic
<1>1. ASSUME Init PROVE NoPanic
    BY <1>1 DEF Init, NoPanic
<1>2. ASSUME RendererInvariant, NoPanic, [Next]_vars PROVE NoPanic'
    <2>1. SUFFICES ASSUME \A s \in Site : kind'[s] # "coverage", pc' = "panic", pc # "panic"
                   PROVE  FALSE
        BY <1>2 DEF NoPanic, Next, vars, Finished, DetectFailures, FilterSanityChecks, Annotate,
                    FilterPtrChecks, UpdateReachStatus, UpdateCoverage, UpdateCover, Pass, kind
    <2>2. UpdateReachStatus \/ UpdateCoverage \/ UpdateCover
        BY <1>2, <2>1 DEF Next, vars, Finished, DetectFailures, FilterSanityChecks, Annotate, FilterPtrChecks
    <2>3. kind' = kind /\ kept \subseteq Site
        BY <1>2, <2>2 DEF UpdateReachStatus, UpdateCoverage, UpdateCover, Pass, kind, RendererInvariant,
                          RawUntilUpdate
    <2>4. CASE UpdateReachStatus
        <3>1. PICK s \in kept : Unexpected(s)
            BY <2>1, <2>4 DEF UpdateReachStatus, Pass
        <3>2. status[s] = RawStatus(s) /\ RawReach(s) = "SUCCESS"
            BY <1>2, <2>3, <2>4, <3>1
               DEF UpdateReachStatus, Pass, RendererInvariant, RawUntilUpdate, ReachRight, Before, Unexpected
        <3>3. ~Fails(s) /\ ~AfterUB(s)
            BY <3>2 DEF RawReach, CbmcStatus, Reached, Fails
        <3>4. QED BY <3>1, <3>2, <3>3 DEF RawStatus, CbmcStatus, Unexpected
    <2>5. CASE UpdateCoverage
        BY <2>1, <2>3, <2>5 DEF UpdateCoverage, Pass, BadCoverage
    <2>6. CASE UpdateCover
        BY <2>1, <2>6 DEF UpdateCover, Pass, Never
    <2>7. QED BY <2>2, <2>4, <2>5, <2>6
<1>3. QED BY <1>1, <1>2, RendererInvariantHolds, PTL DEF Spec

\* Whatever the program, its checks and its executions are: what kani reports of
\* a harness is true of the program, but for checks behind a sanity check that it
\* reports as failed, and then the verdict is no success.
THEOREM ReportSound == Spec => []ReportTrue
BY ShownSuccess, ShownUnreachable, ShownCovers, ShownCoverage, VerdictSound, NeverPanics, PTL DEF ReportTrue
=============================================================================
