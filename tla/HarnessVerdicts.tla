--------------------------- MODULE HarnessVerdicts ---------------------------
(***************************************************************************)
(* What verify_project promises whoever runs kani, with no workers, pipes  *)
(* or temporary files in sight: every harness gets at most one verdict,    *)
(* which is final; a success is given only to a harness that CBMC has      *)
(* verified, or that was misjudged in one of the ways HarnessRunner names; *)
(* kani exits once, and with code 0 only when every harness is a success   *)
(* or kani is quiet.  Module HarnessRunner is the implementation.          *)
(***************************************************************************)
CONSTANTS Harnesses, NoExit

VARIABLES
    quiet,      \* the exit code says nothing about the verdicts
    coarse,     \* verdicts come from CBMC's exit code
    timed,      \* there is a timeout for every harness
    proved,     \* the harnesses that CBMC has verified
    misjudged,  \* those it has not, but that pass for verified
    verdict,    \* the verdict on each harness
    exit        \* the exit code of kani

options == <<quiet, coarse, timed>>
vars == <<quiet, coarse, timed, proved, misjudged, verdict, exit>>

Init ==
    /\ {quiet, coarse, timed} \subseteq BOOLEAN
    /\ proved = {} /\ misjudged = {} /\ verdict = [h \in Harnesses |-> "none"]
    /\ exit = NoExit

\* CBMC may still come to its end when kani has not waited for it.
Prove(h) ==
    /\ h \notin proved /\ verdict[h] = "none"
    /\ proved' = proved \cup {h}
    /\ UNCHANGED <<options, misjudged, verdict, exit>>

Misjudge(h) ==
    /\ h \notin proved /\ verdict[h] = "none"
    /\ misjudged' = misjudged \cup {h}
    /\ UNCHANGED <<options, proved, verdict, exit>>

\* A timeout may be misjudged and give the verdict in one step.
Succeed(h) ==
    /\ exit = NoExit /\ verdict[h] = "none"
    /\ \/ h \in proved \cup misjudged /\ UNCHANGED misjudged
       \/ coarse /\ timed /\ misjudged' = misjudged \cup {h}
    /\ verdict' = [verdict EXCEPT ![h] = "Success"]
    /\ UNCHANGED <<options, proved, exit>>

\* A timeout may come after the end of CBMC and before its output is read.
Fail(h) ==
    /\ exit = NoExit /\ verdict[h] = "none"
    /\ h \in proved => timed \/ coarse
    /\ verdict' = [verdict EXCEPT ![h] = "Failure"]
    /\ UNCHANGED <<options, proved, misjudged, exit>>

ExitZero ==
    /\ exit = NoExit /\ (quiet \/ \A h \in Harnesses : verdict[h] = "Success")
    /\ exit' = 0
    /\ UNCHANGED <<options, proved, misjudged, verdict>>

ExitOther ==
    /\ exit = NoExit
    /\ exit' \in {1, 101}
    /\ UNCHANGED <<options, proved, misjudged, verdict>>

Next ==
    \/ \E h \in Harnesses : Prove(h) \/ Misjudge(h) \/ Succeed(h) \/ Fail(h)
    \/ ExitZero \/ ExitOther

\* With a timeout kani exits, whether or not CBMC ever ends.
Spec == Init /\ [][Next]_vars /\ (timed => <>(exit # NoExit))
=============================================================================
