------------------------- MODULE HarnessRunnerProofs -------------------------
(* The exit code of kani is sound for any number of harnesses and workers.   *)
EXTENDS HarnessRunner, TLAPS

Early == {"instrument", "synthesize", "check", "wait"}

\* A harness that is not started, or still being checked, has no verdict.
Undecided ==
    /\ \A h \in Harnesses : h \notin taken => verdict[h] = "none"
    /\ \A t \in Threads : pc[t] \in Early => verdict[item[t]] = "none"

\* A harness counts as a success only if CBMC verified it or it was misjudged.
SuccessVerified ==
    \A h \in Harnesses : verdict[h] = "Success" => Verified(h) \/ Misjudged(h)

\* The error that ends the run early names a harness that failed.
ErrorNamesFailure == \A h \in Harnesses : h \in saved => verdict[h] = "Failure"

ZeroMeansSuccess == exit = 0 /\ ~Quiet => \A h \in Harnesses : verdict[h] = "Success"

RunnerInvariant ==
    TypeOK /\ Undecided /\ SuccessVerified /\ ErrorNamesFailure /\ ZeroMeansSuccess

-----------------------------------------------------------------------------
(* Types, and one worker per harness.                                      *)

\* No worker has a harness and none was taken: the initial state has its type.
LEMMA TypeInit == Init => TypeOK
BY DEF Init, TypeOK

\* What a step of one worker leaves of the other workers and harnesses.
LEMMA TypeWorker ==
    ASSUME TypeOK, NEW t \in Threads, Worker(t) \/ ReadFails(t) \/ TimeOut(t)
    PROVE  TypeOK'
<1> USE CountsAssumption DEF TypeOK, At, Goto
<1>1. ASSUME NEW h \in Harnesses, Take(t, h) PROVE TypeOK'
    BY <1>1 DEF Take
<1>2. CASE Instrument(t)
    BY <1>2 DEF Instrument, Raise
<1>3. CASE SynthesizeLoopContracts(t)
    BY <1>3 DEF SynthesizeLoopContracts, Raise
<1>4. CASE StartCbmc(t)
    BY <1>4 DEF StartCbmc
<1>5. CASE StartCbmcFails(t)
    BY <1>5 DEF StartCbmcFails, Raise, Panic
<1>6. CASE Collect(t)
    <2>1. Verdict(output[item[t]], item[t]) \in {"Success", "Failure"}
        BY DEF Verdict, ResultFrom, OutcomeFromProperties
    <2>2. QED BY <1>6, <2>1 DEF Collect
<1>7. CASE ReadFails(t)
    BY <1>7 DEF ReadFails, Raise, Panic
<1>8. CASE TimeOut(t)
    BY <1>8 DEF TimeOut
<1>9. CASE Report(t)
    BY <1>9 DEF Report, Raise, Panic
<1>10. CASE SetFull(t)
    BY <1>10 DEF SetFull
<1>11. QED BY <1>1, <1>2, <1>3, <1>4, <1>5, <1>6, <1>7, <1>8, <1>9, <1>10 DEF Worker

\* The steps of CBMC and of the main thread.
LEMMA TypeOthers ==
    ASSUME TypeOK, (\E h \in Harnesses : CbmcExits(h)) \/ Main \/ Done \/ UNCHANGED vars
    PROVE  TypeOK'
<1>1. CASE \E h \in Harnesses : CbmcExits(h)
    BY <1>1 DEF TypeOK, CbmcExits
<1>2. CASE Main
    BY <1>2 DEF TypeOK, Main, Abort, SaveFails, PrintFinalSummary, Exit
<1>3. CASE Done \/ UNCHANGED vars
    BY <1>3 DEF TypeOK, Done, vars
<1>4. QED BY <1>1, <1>2, <1>3

\* Every variable keeps its type and no two workers ever have the same harness,
\* for any number of harnesses and workers.
THEOREM TypeCorrect == Spec => []TypeOK
<1>1. TypeOK /\ [Next]_vars => TypeOK'
    BY TypeWorker, TypeOthers DEF Next
<1>2. QED BY <1>1, TypeInit, PTL DEF Spec

-----------------------------------------------------------------------------
(* Exit code 0.                                                            *)

\* A successful verdict on an output means that the output proves the harness, or
\* that it is one of those run_cbmc is mistaken about.
LEMMA VerdictSound ==
    ASSUME NEW h \in Harnesses, NEW out \in Outputs, Verdict(out, h) = "Success"
    PROVE  Proves(out, h) \/ Mistaken(out, h)
BY OutputsAssumption
   DEF Mistaken, Verdict, ResultFrom, OutcomeFromProperties, FailedProperties, Proves, NoResults, Results

\* The invariant holds before any harness is taken.
LEMMA RunnerInit == Init => RunnerInvariant
<1> SUFFICES ASSUME Init PROVE RunnerInvariant
    OBVIOUS
<1>1. Undecided /\ SuccessVerified /\ ErrorNamesFailure /\ ZeroMeansSuccess
    BY DEF Init, Undecided, SuccessVerified, ErrorNamesFailure, ZeroMeansSuccess, Early, NoExit
<1>2. QED BY <1>1, TypeInit DEF RunnerInvariant

\* Steps of a worker that give no verdict and do not touch CBMC.
LEMMA RunnerQuietStep ==
    ASSUME RunnerInvariant, TypeOK', UNCHANGED <<mode, cbmc, output, verdict, exit>>,
           taken \subseteq taken',
           \A h \in Harnesses : h \in saved' => h \in saved \/ verdict[h] = "Failure",
           \A u \in Threads : pc'[u] \in Early => verdict[item'[u]] = "none"
    PROVE  RunnerInvariant'
<1>1. Undecided'
    BY DEF RunnerInvariant, Undecided
<1>2. SuccessVerified'
    BY DEF RunnerInvariant, SuccessVerified, Verified, Misjudged, Mistaken, Proves, OldFormat
<1>3. ErrorNamesFailure' /\ ZeroMeansSuccess'
    BY DEF RunnerInvariant, ErrorNamesFailure, ZeroMeansSuccess, Quiet
<1>4. QED BY <1>1, <1>2, <1>3 DEF RunnerInvariant

\* Steps of a worker that give its harness a verdict.
LEMMA RunnerVerdictStep ==
    ASSUME RunnerInvariant, TypeOK', NEW t \in Threads, At(t, "check") \/ At(t, "wait"),
           Goto(t, "report"), UNCHANGED <<mode, item, taken, output, saved, exit>>,
           NEW v \in {"Success", "Failure"},
           verdict' = [verdict EXCEPT ![item[t]] = v],
           \A h \in Harnesses : h # item[t] => cbmc'[h] = cbmc[h],
           v = "Success" =>
               \/ OldFormat /\ cbmc'[item[t]] = "killed"
               \/ /\ cbmc'[item[t]] = "ended"
                  /\ Proves(output[item[t]], item[t]) \/ Mistaken(output[item[t]], item[t])
    PROVE  RunnerInvariant'
<1>1. /\ item[t] \in Harnesses /\ item[t] \in taken
      /\ \A u \in Threads : u # t /\ pc[u] # "idle" => item[u] # item[t]
    BY DEF RunnerInvariant, TypeOK, At
<1>2. verdict[item[t]] = "none" /\ exit = NoExit
    BY DEF RunnerInvariant, Undecided, Early, At
<1>3. \A h \in Harnesses : verdict'[h] = IF h = item[t] THEN v ELSE verdict[h]
    BY <1>1 DEF RunnerInvariant, TypeOK
<1>4. pc'[t] = "report" /\ \A u \in Threads : u # t => pc'[u] = pc[u]
    BY DEF RunnerInvariant, TypeOK, Goto
<1>5. Undecided'
    <2>1. ASSUME NEW h \in Harnesses, h \notin taken' PROVE verdict'[h] = "none"
        BY <2>1, <1>1, <1>3 DEF RunnerInvariant, Undecided
    <2>2. ASSUME NEW u \in Threads, pc'[u] \in Early PROVE verdict'[item'[u]] = "none"
        <3>1. u # t /\ pc[u] \in Early /\ pc[u] # "idle"
            BY <2>2, <1>4 DEF Early
        <3>2. item[u] \in Harnesses
            BY <3>1 DEF RunnerInvariant, TypeOK
        <3>3. QED BY <3>1, <3>2, <1>1, <1>3 DEF RunnerInvariant, Undecided
    <2>3. QED BY <2>1, <2>2 DEF Undecided
<1>6. SuccessVerified'
    BY <1>1, <1>3 DEF RunnerInvariant, SuccessVerified, Verified, Misjudged, Mistaken, Proves, OldFormat
<1>7. ErrorNamesFailure'
    BY <1>2, <1>3 DEF RunnerInvariant, ErrorNamesFailure
<1>8. ZeroMeansSuccess'
    BY <1>2 DEF ZeroMeansSuccess, NoExit
<1>9. QED BY <1>5, <1>6, <1>7, <1>8 DEF RunnerInvariant

\* Every step of a worker keeps the invariant.
LEMMA RunnerWorker ==
    ASSUME RunnerInvariant, NEW t \in Threads, Worker(t) \/ ReadFails(t) \/ TimeOut(t)
    PROVE  RunnerInvariant'
<1>1. TypeOK /\ TypeOK'
    BY TypeWorker DEF RunnerInvariant
<1>2. \A u \in Threads : pc[u] \in Early => verdict[item[u]] = "none" /\ item[u] \in Harnesses
    BY <1>1 DEF RunnerInvariant, Undecided, TypeOK, Early
<1>3. ASSUME NEW h \in Harnesses, Take(t, h) PROVE RunnerInvariant'
    <2>1. verdict[h] = "none"
        BY <1>3 DEF Take, RunnerInvariant, Undecided
    <2>2. \A u \in Threads : pc'[u] \in Early => verdict[item'[u]] = "none"
        BY <1>1, <1>2, <1>3, <2>1 DEF Take, Goto, TypeOK
    <2>3. QED BY <1>1, <1>3, <2>2, RunnerQuietStep DEF Take
<1>4. CASE Instrument(t) \/ SynthesizeLoopContracts(t) \/ ReadFails(t) \/ Report(t) \/ SetFull(t)
    <2>1. \A h \in Harnesses : h \in saved' => h \in saved \/ verdict[h] = "Failure"
        BY <1>1, <1>4 DEF Instrument, SynthesizeLoopContracts, ReadFails, Report, SetFull, Raise, Panic,
                          Infrastructure, FailFastHarnessInfo, Harnesses
    <2>2. \A u \in Threads : pc'[u] \in Early => pc[u] \in Early
        BY <1>1, <1>4 DEF Instrument, SynthesizeLoopContracts, ReadFails, Report, SetFull, Raise, Panic,
                          Goto, At, Early, TypeOK
    <2>3. UNCHANGED <<mode, item, taken, cbmc, output, verdict, exit>>
        BY <1>4 DEF Instrument, SynthesizeLoopContracts, ReadFails, Report, SetFull
    <2>4. QED BY <1>1, <1>2, <2>1, <2>2, <2>3, RunnerQuietStep
<1>5. CASE StartCbmc(t)
    <2>1. UNCHANGED <<mode, item, taken, output, verdict, saved, exit>> /\ At(t, "check")
        BY <1>5 DEF StartCbmc
    <2>2. \A u \in Threads : pc'[u] \in Early => pc[u] \in Early
        BY <1>1, <1>5 DEF StartCbmc, Goto, At, Early, TypeOK
    <2>3. Undecided'
        BY <1>2, <2>1, <2>2 DEF RunnerInvariant, Undecided
    <2>4. \A h \in Harnesses : verdict[h] = "Success" => cbmc'[h] = cbmc[h]
        BY <1>1, <1>2, <1>5 DEF StartCbmc, At, Early, TypeOK
    <2>5. SuccessVerified'
        BY <2>1, <2>4 DEF RunnerInvariant, SuccessVerified, Verified, Misjudged, Mistaken, Proves, OldFormat
    <2>6. ErrorNamesFailure' /\ ZeroMeansSuccess'
        BY <2>1 DEF RunnerInvariant, ErrorNamesFailure, ZeroMeansSuccess, Quiet
    <2>7. QED BY <1>1, <2>3, <2>5, <2>6 DEF RunnerInvariant
<1>6. CASE StartCbmcFails(t)
    <2>1. CASE OldFormat /\ ~Timeout
        BY <1>1, <1>6, <2>1, RunnerVerdictStep DEF StartCbmcFails
    <2>2. CASE ~(OldFormat /\ ~Timeout)
        <3>1. \A h \in Harnesses : h \in saved' => h \in saved
            BY <1>1, <1>6, <2>2 DEF StartCbmcFails, Raise, Panic, Infrastructure, Harnesses
        <3>2. \A u \in Threads : pc'[u] \in Early => pc[u] \in Early
            BY <1>1, <1>6, <2>2 DEF StartCbmcFails, Raise, Panic, Goto, At, Early, TypeOK
        <3>3. UNCHANGED <<mode, item, taken, cbmc, output, verdict, exit>>
            BY <1>6, <2>2 DEF StartCbmcFails
        <3>4. QED BY <1>1, <1>2, <3>1, <3>2, <3>3, RunnerQuietStep
    <2>3. QED BY <2>1, <2>2
<1>7. CASE Collect(t)
    <2>1. Verdict(output[item[t]], item[t]) \in {"Success", "Failure"}
        BY DEF Verdict, ResultFrom, OutcomeFromProperties
    <2>2. item[t] \in Harnesses /\ cbmc[item[t]] = "ended"
        BY <1>1, <1>2, <1>7 DEF Collect, At, Early
    <2>3. output[item[t]] \in Outputs
        BY <1>1, <2>2 DEF TypeOK
    <2>4. Verdict(output[item[t]], item[t]) = "Success" =>
              Proves(output[item[t]], item[t]) \/ Mistaken(output[item[t]], item[t])
        BY <2>2, <2>3, VerdictSound
    <2>5. QED BY <1>1, <1>7, <2>1, <2>2, <2>4, RunnerVerdictStep DEF Collect
<1>8. CASE TimeOut(t)
    <2>1. item[t] \in Harnesses /\ Timeout
        BY <1>1, <1>2, <1>8 DEF TimeOut, At, Early
    <2> DEFINE v == IF OldFormat THEN "Success" ELSE "Failure"
    <2>2. verdict' = [verdict EXCEPT ![item[t]] = v] /\ v \in {"Success", "Failure"}
        BY <1>8 DEF TimeOut
    <2>v. v = "Success" => OldFormat /\ cbmc'[item[t]] = "killed"
        BY <1>1, <1>8, <2>1 DEF TimeOut, TypeOK
    <2> HIDE DEF v
    <2>3. \A h \in Harnesses : h # item[t] => cbmc'[h] = cbmc[h]
        BY <1>1, <1>8 DEF TimeOut, TypeOK
    <2>4. QED BY <1>1, <1>8, <2>2, <2>v, <2>3, RunnerVerdictStep DEF TimeOut
<1>9. QED BY <1>3, <1>4, <1>5, <1>6, <1>7, <1>8 DEF Worker

\* The steps of CBMC and of the main thread keep the invariant.
LEMMA RunnerOthers ==
    ASSUME RunnerInvariant,
           (\E h \in Harnesses : CbmcExits(h)) \/ Main \/ Done \/ UNCHANGED vars
    PROVE  RunnerInvariant'
<1>1. TypeOK /\ TypeOK'
    BY TypeOthers DEF RunnerInvariant
<1>2. ASSUME NEW k \in Harnesses, CbmcExits(k) PROVE RunnerInvariant'
    <2>1. UNCHANGED <<mode, pc, item, taken, verdict, saved, exit>>
        BY <1>2 DEF CbmcExits
    <2>2. \A h \in Harnesses : Verified(h) \/ Misjudged(h) =>
              cbmc'[h] = cbmc[h] /\ output'[h] = output[h]
        BY <1>1, <1>2 DEF CbmcExits, Verified, Misjudged, TypeOK
    <2>3. SuccessVerified'
        BY <2>1, <2>2 DEF RunnerInvariant, SuccessVerified, Verified, Misjudged, Mistaken, Proves, OldFormat
    <2>4. QED BY <1>1, <2>1, <2>3
              DEF RunnerInvariant, Undecided, ErrorNamesFailure, ZeroMeansSuccess, Quiet
<1>3. CASE Main
    <2>1. UNCHANGED <<mode, pc, item, taken, cbmc, output, verdict, saved>>
        BY <1>3 DEF Main, Abort, SaveFails, PrintFinalSummary, Exit
    <2>2. ZeroMeansSuccess'
        <3>1. CASE exit' = 0 /\ ~Quiet
            <4>1. saved # Infrastructure /\ Failing(ResultsReported) = {}
                BY <1>3, <3>1 DEF Main, Abort, SaveFails, PrintFinalSummary, Exit, NoExit
            <4>2. saved = {}
                <5>1. SUFFICES ASSUME NEW k \in Harnesses, saved = {k} PROVE FALSE
                    BY <1>1, <4>1 DEF TypeOK, FailFastHarnessInfo
                <5>2. verdict[k] = "Failure"
                    BY <5>1 DEF RunnerInvariant, ErrorNamesFailure
                <5>3. k \in Failing(ResultsReported)
                    BY <5>1, <5>2 DEF Failing, ResultsReported
                <5>4. QED BY <4>1, <5>3
            <4>3. \A h \in Harnesses : verdict[h] = "Success"
                BY <4>1, <4>2 DEF Failing, ResultsReported
            <4>4. QED BY <2>1, <4>3 DEF ZeroMeansSuccess
        <3>2. QED BY <2>1, <3>1 DEF ZeroMeansSuccess, Quiet
    <2>3. QED BY <1>1, <2>1, <2>2
              DEF RunnerInvariant, Undecided, SuccessVerified, Verified, Misjudged, Mistaken, Proves, OldFormat, ErrorNamesFailure
<1>4. CASE Done \/ UNCHANGED vars
    BY <1>1, <1>4 DEF Done, vars, RunnerInvariant, Undecided, SuccessVerified, Verified, Misjudged, Mistaken, Proves, OldFormat,
                      ErrorNamesFailure, ZeroMeansSuccess, Quiet
<1>5. QED BY <1>2, <1>3, <1>4

\* For any number of harnesses and workers, and any outputs of CBMC, kani exits
\* with code 0 only if every harness was verified.
THEOREM ExitCodeSound ==
    Spec => []ExitZeroTrusted
<1>1. RunnerInvariant /\ [Next]_vars => RunnerInvariant'
    BY RunnerWorker, RunnerOthers DEF Next
<1>2. RunnerInvariant => ExitZeroTrusted
    BY DEF RunnerInvariant, ZeroMeansSuccess, SuccessVerified, ExitZeroTrusted
<1>3. QED BY <1>1, <1>2, RunnerInit, PTL DEF Spec

-----------------------------------------------------------------------------
(* Whatever way kani exits.                                                *)

\* A harness that is not started, or whose worker has not started CBMC, has no
\* process of CBMC.
Fresh ==
    /\ \A h \in Harnesses : h \notin taken => cbmc[h] = "none"
    /\ \A t \in Threads : pc[t] \in {"instrument", "synthesize", "check"} => cbmc[item[t]] = "none"

\* A harness that counts as failed timed out, was rejected or is not verified, and as its
\* process is over it never will be.
FailureSettled ==
    \A h \in Harnesses :
        verdict[h] = "Failure" => cbmc[h] # "running" /\ (Timeout \/ Rejected(h) \/ ~Verified(h))

\* A process of CBMC that runs has a worker that waits for it, or had one that panicked.
Attended ==
    \A h \in Harnesses :
        cbmc[h] = "running" => panicked \/ \E t \in Threads : pc[t] = "wait" /\ item[t] = h

\* A harness that was started and has no verdict is being checked, or its worker
\* ended with an error or a panic.
Accounted ==
    \A h \in Harnesses :
        h \in taken /\ verdict[h] = "none" =>
            panicked \/ saved # {} \/ \E t \in Threads : pc[t] \in Early /\ item[t] = h

\* The pool is stopped only by an error that is on record.
StopHasError == (full \/ \E t \in Threads : pc[t] = "failed") => saved # {}

WorkInvariant ==
    /\ TypeOK /\ Undecided /\ ErrorNamesFailure
    /\ Fresh /\ FailureSettled /\ Attended /\ Accounted /\ StopHasError
\* What a worker that has a harness leaves alone.
WorkerFrame(t) ==
    /\ UNCHANGED <<mode, item, taken, output, exit>>
    /\ \A u \in Threads : u # t => pc'[u] = pc[u]
    /\ \A h \in Harnesses : h # item[t] => cbmc'[h] = cbmc[h] /\ verdict'[h] = verdict[h]

\* The steps of a worker that has a harness.
WorksOn(t) ==
    \/ Instrument(t) \/ SynthesizeLoopContracts(t) \/ StartCbmc(t) \/ StartCbmcFails(t)
    \/ Collect(t) \/ Report(t) \/ SetFull(t) \/ ReadFails(t) \/ TimeOut(t)

\* A worker that has a harness touches its own harness only, and no other
\* worker has that harness.
LEMMA FrameOfWorker ==
    ASSUME TypeOK, NEW t \in Threads, WorksOn(t)
    PROVE  /\ WorkerFrame(t) /\ exit = NoExit /\ pc[t] # "idle"
           /\ item[t] \in Harnesses /\ item[t] \in taken
           /\ \A u \in Threads : u # t /\ pc[u] # "idle" => item[u] # item[t]
<1> USE DEF TypeOK, At, Goto
<1>1. exit = NoExit /\ pc[t] # "idle"
    BY DEF WorksOn, Instrument, SynthesizeLoopContracts, StartCbmc, StartCbmcFails, Collect, Report,
           SetFull, ReadFails, TimeOut
<1>2. /\ item[t] \in Harnesses /\ item[t] \in taken
      /\ \A u \in Threads : u # t /\ pc[u] # "idle" => item[u] # item[t]
    BY <1>1
<1>3. UNCHANGED <<mode, item, taken, output, exit>>
    BY DEF WorksOn, Instrument, SynthesizeLoopContracts, StartCbmc, StartCbmcFails, Collect, Report,
           SetFull, ReadFails, TimeOut
<1>4. \A u \in Threads : u # t => pc'[u] = pc[u]
    BY DEF WorksOn, Instrument, SynthesizeLoopContracts, StartCbmc, StartCbmcFails, Collect, Report,
           SetFull, ReadFails, TimeOut, Raise, Panic
<1>5. \A h \in Harnesses : h # item[t] => cbmc'[h] = cbmc[h] /\ verdict'[h] = verdict[h]
    BY DEF WorksOn, Instrument, SynthesizeLoopContracts, StartCbmc, StartCbmcFails, Collect, Report,
           SetFull, ReadFails, TimeOut
<1>6. QED BY <1>1, <1>2, <1>3, <1>4, <1>5 DEF WorkerFrame

\* What a step of a worker has to show for its own harness and its own error to
\* keep the invariant: the other harnesses are in the frame.
LEMMA WorkFrameStep ==
    ASSUME WorkInvariant, NEW t \in Threads, WorksOn(t),
           pc'[t] \in Early => verdict'[item[t]] = "none",
           pc'[t] \in {"instrument", "synthesize", "check"} => cbmc'[item[t]] = "none",
           verdict'[item[t]] = "Failure" =>
               /\ cbmc'[item[t]] # "running"
               /\ Timeout \/ Rejected(item[t]) \/ ~(cbmc'[item[t]] = "ended" /\ Proves(output[item[t]], item[t])),
           cbmc'[item[t]] = "running" => panicked' \/ pc'[t] = "wait",
           verdict'[item[t]] = "none" => panicked' \/ saved' # {} \/ pc'[t] \in Early,
           panicked => panicked', saved # {} => saved' # {},
           full' \/ pc'[t] = "failed" => saved' # {},
           \A h \in saved' : h \in Harnesses => verdict'[h] = "Failure"
    PROVE  WorkInvariant'
<1>1. TypeOK /\ TypeOK'
    BY TypeWorker DEF WorkInvariant, WorksOn, Worker
<1> DEFINE own == item[t]
<1>2. /\ WorkerFrame(t) /\ exit = NoExit /\ pc[t] # "idle" /\ own \in Harnesses /\ own \in taken
      /\ \A u \in Threads : u # t /\ pc[u] # "idle" => item[u] # own
    BY <1>1, FrameOfWorker
<1>3. \A u \in Threads : u # t => pc'[u] = pc[u] /\ item'[u] = item[u]
    BY <1>2 DEF WorkerFrame
<1>4. \A u \in Threads : u # t /\ pc[u] # "idle" =>
          /\ item[u] \in Harnesses
          /\ cbmc'[item[u]] = cbmc[item[u]] /\ verdict'[item[u]] = verdict[item[u]]
    BY <1>1, <1>2 DEF WorkerFrame, TypeOK
<1>5. item'[t] = own /\ taken' = taken /\ mode' = mode /\ output' = output
    BY <1>2 DEF WorkerFrame
<1>6. Undecided'
    <2>1. \A h \in Harnesses : h \notin taken' => verdict'[h] = "none"
        BY <1>2, <1>5 DEF WorkerFrame, WorkInvariant, Undecided
    <2>2. \A u \in Threads : pc'[u] \in Early => verdict'[item'[u]] = "none"
        BY <1>3, <1>4, <1>5 DEF WorkInvariant, Undecided, Early
    <2>3. QED BY <2>1, <2>2 DEF Undecided
<1>7. ErrorNamesFailure'
    BY DEF ErrorNamesFailure
<1>8. Fresh'
    <2>1. \A h \in Harnesses : h \notin taken' => cbmc'[h] = "none"
        BY <1>2, <1>5 DEF WorkerFrame, WorkInvariant, Fresh
    <2>2. \A u \in Threads : pc'[u] \in {"instrument", "synthesize", "check"} => cbmc'[item'[u]] = "none"
        BY <1>3, <1>4, <1>5 DEF WorkInvariant, Fresh
    <2>3. QED BY <2>1, <2>2 DEF Fresh
<1>9. FailureSettled'
    <2>1. \A h \in Harnesses : h # own => (Verified(h)' <=> Verified(h))
        BY <1>2, <1>5 DEF WorkerFrame, Verified, Proves
    <2>2. Timeout' = Timeout /\ \A h \in Harnesses : Rejected(h)' <=> Rejected(h)
        BY <1>5 DEF Timeout, Rejected, OldFormat
    <2>3. ASSUME NEW h \in Harnesses, verdict'[h] = "Failure"
          PROVE  cbmc'[h] # "running" /\ (Timeout' \/ Rejected(h)' \/ ~Verified(h)')
        <3>1. CASE h = own
            <4>1. Verified(h)' <=> cbmc'[own] = "ended" /\ Proves(output[own], own)
                BY <3>1, <1>5 DEF Verified, Proves, OldFormat
            <4>2. QED BY <3>1, <4>1, <1>2, <2>2, <2>3
        <3>2. CASE h # own
            <4>1. verdict[h] = "Failure" /\ cbmc'[h] = cbmc[h]
                BY <3>2, <2>3, <1>2 DEF WorkerFrame
            <4>2. QED BY <4>1, <3>2, <2>1, <2>2 DEF WorkInvariant, FailureSettled
        <3>3. QED BY <3>1, <3>2
    <2>4. QED BY <2>3 DEF FailureSettled
<1>10. Attended'
    <2>1. ASSUME NEW h \in Harnesses, cbmc'[h] = "running"
          PROVE  panicked' \/ \E u \in Threads : pc'[u] = "wait" /\ item'[u] = h
        <3>1. CASE h = own
            BY <3>1, <2>1, <1>5
        <3>2. CASE h # own
            <4>1. cbmc[h] = "running"
                BY <3>2, <2>1, <1>2 DEF WorkerFrame
            <4>2. CASE panicked
                BY <4>2
            <4>3. CASE \E u \in Threads : pc[u] = "wait" /\ item[u] = h
                BY <4>3, <3>2, <1>3
            <4>4. QED BY <4>1, <4>2, <4>3 DEF WorkInvariant, Attended
        <3>3. QED BY <3>1, <3>2
    <2>2. QED BY <2>1 DEF Attended
<1>11. Accounted'
    <2>1. ASSUME NEW h \in Harnesses, h \in taken', verdict'[h] = "none"
          PROVE  panicked' \/ saved' # {} \/ \E u \in Threads : pc'[u] \in Early /\ item'[u] = h
        <3>1. CASE h = own
            BY <3>1, <2>1, <1>5
        <3>2. CASE h # own
            <4>1. h \in taken /\ verdict[h] = "none"
                BY <3>2, <2>1, <1>2, <1>5 DEF WorkerFrame
            <4>2. CASE panicked \/ saved # {}
                BY <4>2
            <4>3. CASE \E u \in Threads : pc[u] \in Early /\ item[u] = h
                BY <4>3, <3>2, <1>3
            <4>4. QED BY <4>1, <4>2, <4>3 DEF WorkInvariant, Accounted
        <3>3. QED BY <3>1, <3>2
    <2>2. QED BY <2>1 DEF Accounted
<1>12. StopHasError'
    BY <1>3 DEF WorkInvariant, StopHasError
<1>13. QED BY <1>1, <1>6, <1>7, <1>8, <1>9, <1>10, <1>11, <1>12 DEF WorkInvariant

\* A failed verdict on an output means that the output does not prove the harness,
\* or in the old format that CBMC's exit code is not 0.
LEMMA VerdictFails ==
    ASSUME NEW h \in Harnesses, NEW out \in Outputs, Verdict(out, h) = "Failure"
    PROVE  (OldFormat /\ out.code # 0) \/ ~Proves(out, h)
BY OutputsAssumption
   DEF Verdict, ResultFrom, OutcomeFromProperties, FailedProperties, Proves, NoResults, Results

\* Every step of a worker keeps the invariant.
LEMMA WorkWorker ==
    ASSUME WorkInvariant, NEW t \in Threads, WorksOn(t)
    PROVE  WorkInvariant'
<1> DEFINE own == item[t]
<1>1. TypeOK /\ TypeOK'
    BY TypeWorker DEF WorkInvariant, WorksOn, Worker
<1>2. WorkerFrame(t) /\ pc[t] # "idle" /\ own \in Harnesses /\ own \in taken
    BY <1>1, FrameOfWorker
<1>3. /\ \A h \in saved : h \in Harnesses => verdict[h] = "Failure"
      /\ full \/ pc[t] = "failed" => saved # {}
      /\ pc[t] \in Early => verdict[own] = "none"
      /\ pc[t] \in {"instrument", "synthesize", "check"} => cbmc[own] = "none"
      /\ cbmc[own] = "running" => panicked \/ pc[t] = "wait"
      /\ verdict[own] = "none" => panicked \/ saved # {} \/ pc[t] \in Early
      /\ verdict[own] = "Failure" => cbmc[own] # "running" /\ (Timeout \/ Rejected(own) \/ ~Verified(own))
    <2>1. \A u \in Threads : pc[u] # "idle" /\ item[u] = own => u = t
        BY <1>1, <1>2, FrameOfWorker
    <2>2. cbmc[own] = "running" => panicked \/ pc[t] = "wait"
        BY <1>2, <2>1 DEF WorkInvariant, Attended
    <2>3. verdict[own] = "none" => panicked \/ saved # {} \/ pc[t] \in Early
        BY <1>2, <2>1 DEF WorkInvariant, Accounted, Early
    <2>4. QED BY <1>2, <2>2, <2>3 DEF WorkInvariant, ErrorNamesFailure, StopHasError, Undecided, Fresh, FailureSettled
<1>4. pc'[t] \in Early \cup {"idle", "report", "failed"}
    BY <1>1 DEF TypeOK, Early
<1>5. CASE Instrument(t) \/ SynthesizeLoopContracts(t) \/ ReadFails(t) \/ Report(t) \/ SetFull(t)
    <2>1. UNCHANGED <<mode, cbmc, output, verdict>>
        BY <1>5 DEF Instrument, SynthesizeLoopContracts, ReadFails, Report, SetFull
    <2>2. /\ pc'[t] \in Early => pc[t] \in Early
          /\ pc'[t] \in {"instrument", "synthesize", "check"} =>
                 pc[t] \in {"instrument", "synthesize", "check"}
          /\ cbmc[own] = "running" => panicked' \/ pc[t] # "wait"
          /\ pc[t] \in Early => panicked' \/ saved' # {} \/ pc'[t] \in Early
          /\ panicked => panicked'
        BY <1>1, <1>5 DEF Instrument, SynthesizeLoopContracts, ReadFails, Report, SetFull, Raise, Panic,
                     Goto, At, Early, TypeOK, Infrastructure
    <2>3. /\ \A h \in saved' : h \in saved \/ h = 0 \/ (h = own /\ verdict[own] = "Failure")
          /\ (full' => full \/ pc[t] = "failed")
          /\ (pc'[t] = "failed" => saved' # {}) /\ (saved # {} => saved' # {})
        BY <1>1, <1>5 DEF Instrument, SynthesizeLoopContracts, ReadFails, Report, SetFull, Raise, Panic,
                     Goto, At, TypeOK, Infrastructure, FailFastHarnessInfo
    <2>4. 0 \notin Harnesses
        BY DEF Harnesses
    <2>5. \A h \in saved' : h \in Harnesses => verdict'[h] = "Failure"
        BY <1>3, <2>1, <2>3, <2>4
    <2>6. verdict'[own] = "Failure" =>
              /\ cbmc'[own] # "running"
              /\ Timeout \/ Rejected(own) \/ ~(cbmc'[own] = "ended" /\ Proves(output[own], own))
        BY <1>3, <2>1 DEF Verified
    <2>7. /\ cbmc'[own] = "running" => panicked' \/ pc'[t] = "wait"
          /\ verdict'[own] = "none" => panicked' \/ saved' # {} \/ pc'[t] \in Early
          /\ full' \/ pc'[t] = "failed" => saved' # {}
        BY <1>3, <2>1, <2>2, <2>3
    <2>8. QED BY <1>3, <2>1, <2>2, <2>3, <2>5, <2>6, <2>7, WorkFrameStep
<1>6. CASE StartCbmc(t)
    <2>1. /\ UNCHANGED <<mode, verdict, saved, full, panicked>> /\ pc[t] = "check"
          /\ pc'[t] = "wait" /\ cbmc'[own] = "running"
        BY <1>1, <1>2, <1>6 DEF StartCbmc, At, Goto, TypeOK
    <2>2. verdict[own] = "none"
        BY <1>3, <2>1 DEF Early
    <2>3. QED BY <1>3, <2>1, <2>2, WorkFrameStep DEF Early
<1>7. CASE StartCbmcFails(t)
    <2>1. pc[t] = "check" /\ UNCHANGED <<cbmc, full>>
        BY <1>7 DEF StartCbmcFails, At
    <2>2. verdict[own] = "none" /\ cbmc[own] = "none"
        BY <1>3, <2>1 DEF Early
    <2>3. CASE OldFormat /\ ~Timeout
        <3>1. UNCHANGED <<saved, panicked>> /\ pc'[t] = "report" /\ verdict'[own] = "Failure"
            BY <1>1, <1>2, <1>7, <2>3 DEF StartCbmcFails, Goto, TypeOK
        <3>2. \A h \in saved : h \in Harnesses => verdict'[h] = "Failure"
            BY <1>2, <1>3, <3>1 DEF WorkerFrame
        <3>3. QED BY <1>3, <2>1, <2>2, <3>1, <3>2, WorkFrameStep DEF Early
    <2>4. CASE ~(OldFormat /\ ~Timeout)
        <3>1. UNCHANGED verdict
            BY <1>7, <2>4 DEF StartCbmcFails
        <3>2. \/ panicked' /\ pc'[t] = "idle" /\ UNCHANGED saved
              \/ pc'[t] = "failed" /\ saved' # {} /\ UNCHANGED panicked
            BY <1>1, <1>7, <2>4 DEF StartCbmcFails, Raise, Panic, Goto, TypeOK, Infrastructure
        <3>3. \A h \in saved' : h \in saved \/ h = 0
            BY <1>7, <2>4 DEF StartCbmcFails, Raise, Panic, Infrastructure
        <3>4. 0 \notin Harnesses
            BY DEF Harnesses
        <3>5. QED BY <1>3, <2>1, <2>2, <3>1, <3>2, <3>3, <3>4, WorkFrameStep DEF Early
    <2>5. QED BY <2>3, <2>4
<1>8. CASE Collect(t)
    <2>1. pc[t] = "wait" /\ cbmc[own] = "ended" /\ UNCHANGED <<cbmc, output, saved, full, panicked>>
        BY <1>8 DEF Collect, At
    <2>2. pc'[t] = "report" /\ verdict'[own] = Verdict(output[own], own)
        BY <1>1, <1>2, <1>8 DEF Collect, Goto, TypeOK
    <2>3. Verdict(output[own], own) \in {"Success", "Failure"}
        BY DEF Verdict, ResultFrom, OutcomeFromProperties
    <2>4. verdict'[own] = "Failure" => Rejected(own) \/ ~Proves(output[own], own)
        <3>1. output[own] \in Outputs
            BY <1>1, <1>2, <2>1 DEF TypeOK
        <3>2. QED BY <1>2, <2>2, <3>1, VerdictFails DEF Rejected
    <2>5. verdict[own] = "none"
        BY <1>3, <2>1 DEF Early
    <2>6. \A h \in saved : h \in Harnesses => verdict'[h] = "Failure"
        BY <1>2, <1>3, <2>5 DEF WorkerFrame
    <2>7. QED BY <1>3, <2>1, <2>2, <2>3, <2>4, <2>6, WorkFrameStep DEF Early
<1>9. CASE TimeOut(t)
    <2>1. pc[t] = "wait" /\ Timeout /\ UNCHANGED <<output, saved, full, panicked>>
        BY <1>9 DEF TimeOut, At
    <2>2. /\ pc'[t] = "report" /\ verdict'[own] \in {"Success", "Failure"}
          /\ cbmc'[own] \in {"killed", "ended"}
        BY <1>1, <1>2, <1>9 DEF TimeOut, Goto, TypeOK
    <2>3. verdict[own] = "none"
        BY <1>3, <2>1 DEF Early
    <2>4. \A h \in saved : h \in Harnesses => verdict'[h] = "Failure"
        BY <1>2, <1>3, <2>3 DEF WorkerFrame
    <2>5. QED BY <1>3, <2>1, <2>2, <2>4, WorkFrameStep DEF Early
<1>10. QED BY <1>5, <1>6, <1>7, <1>8, <1>9 DEF WorksOn

\* A worker takes a harness nobody has started.
LEMMA WorkTake ==
    ASSUME WorkInvariant, NEW t \in Threads, NEW k \in Harnesses, Take(t, k)
    PROVE  WorkInvariant'
<1>1. TypeOK /\ TypeOK'
    BY TypeWorker DEF WorkInvariant, Worker
<1>2. /\ UNCHANGED <<mode, cbmc, output, verdict, saved, full, panicked>>
      /\ k \notin taken /\ taken' = taken \cup {k} /\ pc[t] = "idle"
    BY DEF Take, At
<1>3. /\ pc'[t] = "instrument" /\ item'[t] = k
      /\ \A u \in Threads : u # t => pc'[u] = pc[u] /\ item'[u] = item[u]
    BY <1>1 DEF Take, Goto, TypeOK
<1>4. verdict[k] = "none" /\ cbmc[k] = "none"
    BY <1>2 DEF WorkInvariant, Undecided, Fresh
<1>5. Undecided'
    BY <1>2, <1>3, <1>4 DEF WorkInvariant, Undecided
<1>6. Fresh'
    BY <1>2, <1>3, <1>4 DEF WorkInvariant, Fresh
<1>7. ErrorNamesFailure'
    BY <1>2 DEF WorkInvariant, ErrorNamesFailure
<1>8. FailureSettled'
    BY <1>2 DEF WorkInvariant, FailureSettled, Verified, Proves, Rejected, OldFormat, Timeout
<1>9. Attended'
    BY <1>2, <1>3 DEF WorkInvariant, Attended
<1>10. Accounted'
    BY <1>2, <1>3 DEF WorkInvariant, Accounted, Early
<1>11. StopHasError'
    BY <1>2, <1>3 DEF WorkInvariant, StopHasError
<1>12. QED BY <1>1, <1>5, <1>6, <1>7, <1>8, <1>9, <1>10, <1>11 DEF WorkInvariant

\* A process of CBMC that ends was running, so its harness had no verdict of failure.
LEMMA WorkCbmcExits ==
    ASSUME WorkInvariant, NEW k \in Harnesses, CbmcExits(k)
    PROVE  WorkInvariant'
<1>1. TypeOK /\ TypeOK'
    BY TypeOthers DEF WorkInvariant
<1>2. UNCHANGED <<mode, pc, item, taken, verdict, saved, full, panicked>> /\ cbmc[k] = "running"
    BY DEF CbmcExits
<1>3. /\ cbmc'[k] = "ended"
      /\ \A h \in Harnesses : h # k => cbmc'[h] = cbmc[h] /\ output'[h] = output[h]
    BY <1>1 DEF CbmcExits, TypeOK
<1>4. Undecided' /\ ErrorNamesFailure' /\ Accounted' /\ StopHasError'
    BY <1>2 DEF WorkInvariant, Undecided, ErrorNamesFailure, Accounted, StopHasError
<1>5. Fresh'
    <2>1. \A h \in Harnesses : cbmc[h] = "none" => cbmc'[h] = "none"
        BY <1>2, <1>3
    <2>2. \A u \in Threads : pc[u] # "idle" => item[u] \in Harnesses
        BY <1>1 DEF TypeOK
    <2>3. QED BY <1>2, <2>1, <2>2 DEF WorkInvariant, Fresh
<1>6. FailureSettled'
    <2>1. verdict[k] # "Failure"
        BY <1>2 DEF WorkInvariant, FailureSettled
    <2>2. \A h \in Harnesses : h # k => (Verified(h)' <=> Verified(h))
        BY <1>2, <1>3 DEF Verified, Proves, OldFormat
    <2>3. QED BY <1>2, <1>3, <2>1, <2>2 DEF WorkInvariant, FailureSettled, Timeout, Rejected, OldFormat
<1>7. Attended'
    BY <1>2, <1>3 DEF WorkInvariant, Attended
<1>8. QED BY <1>1, <1>4, <1>5, <1>6, <1>7 DEF WorkInvariant

\* The main thread touches the exit code and the temporary files only.
LEMMA WorkMain ==
    ASSUME WorkInvariant, Main \/ Done \/ UNCHANGED vars
    PROVE  WorkInvariant'
<1>1. TypeOK /\ TypeOK'
    BY TypeOthers DEF WorkInvariant
<1>2. UNCHANGED <<mode, pc, item, taken, cbmc, output, verdict, saved, full, panicked>>
    BY DEF Main, Abort, SaveFails, PrintFinalSummary, Exit, Done, vars
<1>3. QED BY <1>1, <1>2
    DEF WorkInvariant, Undecided, ErrorNamesFailure, Fresh, FailureSettled, Verified, Proves, Rejected,
        OldFormat, Timeout, Attended, Accounted, StopHasError

\* The invariant holds before any harness is taken.
LEMMA WorkInit == Init => WorkInvariant
BY TypeInit DEF Init, WorkInvariant, Undecided, ErrorNamesFailure, Fresh, FailureSettled, Attended,
                Accounted, StopHasError, Early

\* Every step keeps the invariant.
LEMMA WorkStep == WorkInvariant /\ [Next]_vars => WorkInvariant'
<1> SUFFICES ASSUME WorkInvariant, [Next]_vars PROVE WorkInvariant'
    OBVIOUS
<1>1. ASSUME NEW t \in Threads, Worker(t) \/ ReadFails(t) \/ TimeOut(t) PROVE WorkInvariant'
    BY <1>1, WorkTake, WorkWorker DEF Worker, WorksOn
<1>2. QED BY <1>1, WorkCbmcExits, WorkMain DEF Next

\* What the main thread finds when it sets the exit code.
LEMMA ExitStep ==
    ASSUME WorkInvariant, Main
    PROVE  CleanExit'
<1>1. /\ UNCHANGED <<mode, pc, item, taken, cbmc, output, verdict, saved, full, panicked>>
      /\ PoolDone /\ exit' \in {0, 1, 101}
    BY DEF Main, Abort, SaveFails, PrintFinalSummary, Exit
<1>2. TemporariesRemoved'
    BY DEF TemporariesRemoved, Main, Abort, SaveFails, PrintFinalSummary, Exit
<1>3. NoOrphans'
    <2>1. exit' \in {0, 1} => ~panicked
        BY DEF Main, Abort, SaveFails, PrintFinalSummary, Exit
    <2>2. QED BY <1>1, <2>1 DEF NoOrphans, WorkInvariant, Attended, PoolDone
<1>4. FailureHasReason'
    <2> SUFFICES ASSUME exit' \in {1, 101}, ~panicked, saved # Infrastructure, ~SavesResults
                 PROVE  \/ \E h \in taken : verdict[h] = "Failure" /\ (Timeout \/ Rejected(h) \/ ~Verified(h))
                        \/ Filtered /\ Harnesses \ Automatic = {}
        <3>1. Timeout' = Timeout /\ SavesResults' = SavesResults
              /\ \A h \in taken : (Verified(h)' <=> Verified(h)) /\ (Rejected(h)' <=> Rejected(h))
            BY <1>1 DEF Timeout, SavesResults, Verified, Proves, Rejected, OldFormat
        <3>2. QED BY <1>1, <3>1 DEF FailureHasReason
    <2>1. \A h \in Harnesses : verdict[h] = "Failure" => h \in taken /\ (Timeout \/ Rejected(h) \/ ~Verified(h))
        BY DEF WorkInvariant, Undecided, FailureSettled
    <2>2. CASE saved # {}
        <3>1. PICK k \in Harnesses : saved = {k}
            BY <2>2 DEF WorkInvariant, TypeOK, FailFastHarnessInfo
        <3>2. verdict[k] = "Failure"
            BY <3>1 DEF WorkInvariant, ErrorNamesFailure
        <3>3. QED BY <2>1, <3>2
    <2>3. CASE saved = {}
        <3>1. taken = Harnesses
            BY <1>1, <2>3 DEF PoolDone, WorkInvariant, StopHasError
        <3>2. \A h \in Harnesses : verdict[h] # "none"
            BY <1>1, <2>3, <3>1 DEF PoolDone, WorkInvariant, Accounted, Early
        <3>3. \/ Harnesses \ Automatic = {} /\ Filtered
              \/ \E h \in Harnesses : verdict[h] # "Success"
            BY <2>3 DEF Main, Abort, SaveFails, PrintFinalSummary, Exit, ResultsReported, Failing
        <3>4. QED BY <2>1, <3>2, <3>3 DEF WorkInvariant, TypeOK
    <2>4. QED BY <2>2, <2>3
<1>5. QED BY <1>2, <1>3, <1>4 DEF CleanExit

\* Once kani has exited only processes of CBMC go on, and they are none of its own.
LEMMA CleanStep ==
    ASSUME WorkInvariant, CleanExit, [Next]_vars
    PROVE  CleanExit'
<1>1. ASSUME NEW t \in Threads, Worker(t) \/ ReadFails(t) \/ TimeOut(t) PROVE CleanExit'
    <2>1. exit = NoExit /\ exit' = exit
        BY <1>1 DEF Worker, Take, Instrument, SynthesizeLoopContracts, StartCbmc, StartCbmcFails, Collect,
                    Report, SetFull, ReadFails, TimeOut, At
    <2>2. QED BY <2>1 DEF CleanExit, FailureHasReason, NoOrphans, TemporariesRemoved, NoExit
<1>2. ASSUME NEW k \in Harnesses, CbmcExits(k) PROVE CleanExit'
    <2>1. UNCHANGED <<mode, taken, verdict, saved, panicked, temps, exit>>
        BY <1>2 DEF CbmcExits
    <2>2. \A h \in Harnesses : cbmc[h] # "running" => cbmc'[h] # "running"
        BY <1>2 DEF CbmcExits, WorkInvariant, TypeOK
    <2>3. FailureSettled'
        BY <1>2, WorkCbmcExits DEF WorkInvariant
    <2>4. \A h \in taken : h \in Harnesses
        BY DEF WorkInvariant, TypeOK
    <2>5. FailureHasReason'
        BY <2>1, <2>3, <2>4 DEF CleanExit, FailureHasReason, FailureSettled, SavesResults
    <2>6. NoOrphans' /\ TemporariesRemoved'
        BY <2>1, <2>2 DEF CleanExit, NoOrphans, TemporariesRemoved
    <2>7. QED BY <2>5, <2>6 DEF CleanExit
<1>3. CASE Done \/ UNCHANGED vars
    BY <1>3 DEF Done, vars, CleanExit, FailureHasReason, NoOrphans, TemporariesRemoved, Verified, Proves,
                Rejected, OldFormat, Timeout, SavesResults
<1>4. QED BY <1>1, <1>2, <1>3, ExitStep DEF Next

\* Whatever the options, the number of harnesses and workers, and the outputs of
\* CBMC: kani exits with another code than 0 only for a reason, leaves no process
\* of CBMC behind unless a worker panicked, and removes its temporary files.
THEOREM ExitIsClean == Spec => []CleanExit
<1>1. Init => CleanExit
    BY DEF Init, CleanExit, FailureHasReason, NoOrphans, TemporariesRemoved, NoExit
<1>2. WorkInvariant /\ CleanExit /\ [Next]_vars => CleanExit'
    BY CleanStep
<1>3. QED BY <1>1, <1>2, WorkInit, WorkStep, PTL DEF Spec

\* The harness a fail-fast error names is one that failed, with any options.
THEOREM FailFastSound == Spec => []FailFastNamesFailure
<1>1. WorkInvariant => FailFastNamesFailure
    BY DEF WorkInvariant, TypeOK, ErrorNamesFailure, FailFastNamesFailure, FailFastHarnessInfo
<1>2. QED BY <1>1, WorkInit, WorkStep, PTL DEF Spec

-----------------------------------------------------------------------------
(* The refinement of HarnessVerdicts.                                      *)

\* A verdict is given when the process of CBMC is over, or was never started.
LEMMA RunningStep ==
    ASSUME WorkInvariant, RunningUndecided, [Next]_vars
    PROVE  RunningUndecided'
<1> USE DEF RunningUndecided
<1>1. TypeOK /\ \A t \in Threads : pc[t] # "idle" => item[t] \in Harnesses
    BY DEF WorkInvariant, TypeOK
<1>2. ASSUME UNCHANGED <<cbmc, verdict>> PROVE RunningUndecided'
    BY <1>2
<1>3. ASSUME NEW t \in Threads, Worker(t) \/ ReadFails(t) \/ TimeOut(t) PROVE RunningUndecided'
    <2>1. ASSUME NEW h \in Harnesses, Take(t, h) PROVE RunningUndecided'
        BY <1>2, <2>1 DEF Take
    <2>2. CASE Instrument(t) \/ SynthesizeLoopContracts(t) \/ ReadFails(t) \/ Report(t) \/ SetFull(t)
        BY <1>2, <2>2 DEF Instrument, SynthesizeLoopContracts, ReadFails, Report, SetFull
    <2>3. CASE StartCbmc(t)
        <3>1. /\ item[t] \in Harnesses /\ verdict[item[t]] = "none" /\ verdict' = verdict
              /\ cbmc' = [cbmc EXCEPT ![item[t]] = "running"]
            BY <1>1, <2>3 DEF StartCbmc, At, WorkInvariant, Undecided, Early
        <3> QED BY <1>1, <3>1 DEF TypeOK
    <2>4. CASE StartCbmcFails(t)
        <3>1. item[t] \in Harnesses /\ cbmc[item[t]] = "none" /\ cbmc' = cbmc
            BY <1>1, <2>4 DEF StartCbmcFails, At, WorkInvariant, Fresh
        <3>2. verdict' = verdict \/ verdict' = [verdict EXCEPT ![item[t]] = "Failure"]
            BY <2>4 DEF StartCbmcFails
        <3> QED BY <1>1, <3>1, <3>2 DEF TypeOK
    <2>5. CASE Collect(t)
        <3>1. /\ item[t] \in Harnesses /\ cbmc[item[t]] = "ended" /\ cbmc' = cbmc
              /\ \A h \in Harnesses : h # item[t] => verdict'[h] = verdict[h]
            BY <1>1, <2>5 DEF Collect, At, TypeOK
        <3> QED BY <3>1
    <2>6. CASE TimeOut(t)
        <3>1. /\ item[t] \in Harnesses /\ cbmc'[item[t]] # "running"
              /\ \A h \in Harnesses : h # item[t] => verdict'[h] = verdict[h] /\ cbmc'[h] = cbmc[h]
            BY <1>1, <2>6 DEF TimeOut, At, TypeOK
        <3> QED BY <3>1
    <2> QED BY <1>3, <2>1, <2>2, <2>3, <2>4, <2>5, <2>6 DEF Worker
<1>4. ASSUME NEW k \in Harnesses, CbmcExits(k) PROVE RunningUndecided'
    BY <1>1, <1>4 DEF CbmcExits, TypeOK
<1>5. CASE Main \/ Done \/ UNCHANGED vars
    BY <1>2, <1>5 DEF Main, Abort, SaveFails, PrintFinalSummary, Exit, Done, vars
<1> QED BY <1>3, <1>4, <1>5 DEF Next

MisjudgedOf == {h \in Harnesses : Misjudged(h)}
ProvedOf == {h \in Harnesses : Verified(h)}

\* A step that HarnessVerdicts does not see.
LEMMA StutterStep ==
    ASSUME mode' = mode, ProvedOf' = ProvedOf, MisjudgedOf' = MisjudgedOf,
           verdict' = verdict, exit' = exit
    PROVE  UNCHANGED Promise!vars
BY DEF Promise!vars, MisjudgedOf, ProvedOf, Quiet, OldFormat, Timeout

\* What is verified depends on CBMC and on the options only.
LEMMA SameProved ==
    ASSUME mode' = mode, output' = output,
           \A h \in Harnesses : cbmc'[h] = "ended" <=> cbmc[h] = "ended"
    PROVE  /\ ProvedOf' = ProvedOf
           /\ (\A h \in Harnesses : cbmc'[h] = "killed" <=> cbmc[h] = "killed")
                => MisjudgedOf' = MisjudgedOf
BY DEF ProvedOf, MisjudgedOf, Verified, Misjudged, Mistaken, Proves, OldFormat

\* A verdict on a harness that has none, for its reason, is Succeed or Fail.
LEMMA VerdictStep ==
    ASSUME mode' = mode, ProvedOf' = ProvedOf, MisjudgedOf' = MisjudgedOf, exit = NoExit, exit' = exit,
           NEW h \in Harnesses, verdict[h] = "none",
           \/ /\ h \in ProvedOf \/ h \in MisjudgedOf
              /\ verdict' = [verdict EXCEPT ![h] = "Success"]
           \/ /\ h \in ProvedOf => Timeout \/ OldFormat
              /\ verdict' = [verdict EXCEPT ![h] = "Failure"]
    PROVE  Promise!Next
<1>1. Quiet' = Quiet /\ OldFormat' = OldFormat /\ Timeout' = Timeout
    BY DEF Quiet, OldFormat, Timeout
<1>2. CASE (h \in ProvedOf \/ h \in MisjudgedOf) /\ verdict' = [verdict EXCEPT ![h] = "Success"]
    <2>1. Promise!Succeed(h)
        BY <1>1, <1>2 DEF Promise!Succeed, Promise!options, MisjudgedOf, ProvedOf
    <2> QED BY <2>1 DEF Promise!Next
<1>3. CASE (h \in ProvedOf => Timeout \/ OldFormat) /\ verdict' = [verdict EXCEPT ![h] = "Failure"]
    <2>1. Promise!Fail(h)
        BY <1>1, <1>3 DEF Promise!Fail, Promise!options, MisjudgedOf, ProvedOf
    <2> QED BY <2>1 DEF Promise!Next
<1> QED BY <1>2, <1>3

\* Every step of a worker is one that HarnessVerdicts allows, or is not seen there.
LEMMA WorkerImplements ==
    ASSUME RunnerInvariant, WorkInvariant,
           NEW t \in Threads, Worker(t) \/ ReadFails(t) \/ TimeOut(t)
    PROVE  Promise!Next \/ UNCHANGED Promise!vars
<1>1. TypeOK /\ (pc[t] # "idle" => item[t] \in Harnesses)
    BY DEF WorkInvariant, TypeOK
<1>2. ASSUME UNCHANGED <<mode, cbmc, output, verdict, exit>> PROVE UNCHANGED Promise!vars
    BY <1>2, SameProved, StutterStep
<1>3. ASSUME NEW h \in Harnesses, Take(t, h) PROVE UNCHANGED Promise!vars
    BY <1>2, <1>3 DEF Take
<1>4. CASE Instrument(t) \/ SynthesizeLoopContracts(t) \/ ReadFails(t) \/ Report(t) \/ SetFull(t)
    BY <1>2, <1>4 DEF Instrument, SynthesizeLoopContracts, ReadFails, Report, SetFull
<1>5. CASE StartCbmc(t)
    <2>1. item[t] \in Harnesses /\ cbmc[item[t]] = "none"
        BY <1>1, <1>5 DEF StartCbmc, At, WorkInvariant, Fresh
    <2>2. /\ \A h \in Harnesses : cbmc'[h] = "ended" <=> cbmc[h] = "ended"
          /\ \A h \in Harnesses : cbmc'[h] = "killed" <=> cbmc[h] = "killed"
        BY <1>1, <1>5, <2>1 DEF StartCbmc, TypeOK
    <2>3. UNCHANGED <<mode, output, verdict, exit>>
        BY <1>5 DEF StartCbmc
    <2>4. ProvedOf' = ProvedOf /\ MisjudgedOf' = MisjudgedOf
        BY <2>2, <2>3, SameProved
    <2> QED BY <2>3, <2>4, StutterStep
<1>6. CASE StartCbmcFails(t)
    <2>1. item[t] \in Harnesses /\ cbmc[item[t]] = "none" /\ verdict[item[t]] = "none" /\ exit = NoExit
        BY <1>1, <1>6 DEF StartCbmcFails, At, WorkInvariant, Fresh, Undecided, Early
    <2>2. /\ UNCHANGED <<mode, cbmc, output, exit>>
          /\ ProvedOf' = ProvedOf /\ MisjudgedOf' = MisjudgedOf /\ item[t] \notin ProvedOf
        <3>1. UNCHANGED <<mode, cbmc, output, exit>>
            BY <1>6 DEF StartCbmcFails
        <3> QED BY <2>1, <3>1, SameProved DEF ProvedOf, Verified
    <2>3. verdict' = verdict \/ verdict' = [verdict EXCEPT ![item[t]] = "Failure"]
        BY <1>6 DEF StartCbmcFails
    <2> QED BY <1>2, <2>1, <2>2, <2>3, VerdictStep
<1>7. CASE Collect(t)
    <2>1. /\ item[t] \in Harnesses /\ cbmc[item[t]] = "ended" /\ verdict[item[t]] = "none"
          /\ exit = NoExit /\ UNCHANGED <<mode, cbmc, output, exit>>
          /\ output[item[t]] \in Outputs
        BY <1>1, <1>7 DEF Collect, At, WorkInvariant, Undecided, Early, TypeOK
    <2>2. ProvedOf' = ProvedOf /\ MisjudgedOf' = MisjudgedOf
        BY <2>1, SameProved
    <2>3. /\ item[t] \in ProvedOf <=> Proves(output[item[t]], item[t])
          /\ Mistaken(output[item[t]], item[t]) => item[t] \in MisjudgedOf
        BY <2>1 DEF ProvedOf, MisjudgedOf, Verified, Misjudged
    <2>4. PICK v : v = Verdict(output[item[t]], item[t])
        OBVIOUS
    <2>5. v \in {"Success", "Failure"}
        BY <2>4 DEF Verdict, ResultFrom, OutcomeFromProperties
    <2>6. verdict' = [verdict EXCEPT ![item[t]] = v]
        BY <1>7, <2>4 DEF Collect
    <2>7. v = "Success" => item[t] \in ProvedOf \/ item[t] \in MisjudgedOf
        BY <2>1, <2>3, <2>4, VerdictSound
    <2>8. v = "Failure" => item[t] \notin ProvedOf \/ OldFormat
        BY <2>1, <2>3, <2>4, VerdictFails
    <2> QED BY <2>1, <2>2, <2>5, <2>6, <2>7, <2>8, VerdictStep
<1>8. CASE TimeOut(t)
    <2>1. /\ item[t] \in Harnesses /\ verdict[item[t]] = "none" /\ exit = NoExit /\ Timeout
          /\ UNCHANGED <<mode, output, exit>>
        BY <1>1, <1>8 DEF TimeOut, At, WorkInvariant, Undecided, Early
    <2>2. \A h \in Harnesses : cbmc'[h] = "ended" <=> cbmc[h] = "ended"
        BY <1>1, <1>8, <2>1 DEF TimeOut, TypeOK
    <2>3. ProvedOf' = ProvedOf
        BY <2>1, <2>2, SameProved
    <2>4. verdict' = [verdict EXCEPT ![item[t]] = IF OldFormat THEN "Success" ELSE "Failure"]
        BY <1>8 DEF TimeOut
    <2>5. \A h \in Harnesses : h # item[t] => cbmc'[h] = cbmc[h]
        BY <1>1, <1>8, <2>1 DEF TimeOut, TypeOK
    <2>6. CASE OldFormat
        <3>1. cbmc'[item[t]] = "killed"
            BY <1>1, <1>8, <2>1, <2>6 DEF TimeOut, TypeOK
        <3>2. Quiet' = Quiet /\ OldFormat' = OldFormat /\ Timeout' = Timeout
            BY <2>1 DEF Quiet, OldFormat, Timeout
        <3>3. MisjudgedOf' = MisjudgedOf \cup {item[t]}
            <4>1. \A h \in Harnesses : h # item[t] => (Misjudged(h)' <=> Misjudged(h))
                BY <2>1, <2>5, <3>2 DEF Misjudged, Mistaken, OldFormat
            <4>2. \A h \in Harnesses : h = item[t] => Misjudged(h)'
                BY <2>1, <2>6, <3>1, <3>2 DEF Misjudged
            <4>3. \A h : h \in MisjudgedOf' <=> h \in MisjudgedOf \cup {item[t]}
                BY <2>1, <4>1, <4>2 DEF MisjudgedOf
            <4> QED BY <4>3
        <3>4. Promise!Succeed(item[t])
            BY <2>1, <2>3, <2>4, <2>6, <3>2, <3>3
               DEF Promise!Succeed, Promise!options, MisjudgedOf, ProvedOf
        <3> QED BY <2>1, <3>4 DEF Promise!Next
    <2>7. CASE ~OldFormat
        <3>1. MisjudgedOf' = MisjudgedOf
            BY <2>1, <2>2, <2>7 DEF MisjudgedOf, Misjudged, Mistaken, OldFormat
        <3> QED BY <2>1, <2>3, <2>4, <2>7, <3>1, VerdictStep
    <2> QED BY <2>6, <2>7
<1> QED BY <1>3, <1>4, <1>5, <1>6, <1>7, <1>8 DEF Worker

\* So is the end of a process of CBMC, which proves its harness or nothing.
LEMMA CbmcImplements ==
    ASSUME WorkInvariant, RunningUndecided, NEW k \in Harnesses, CbmcExits(k)
    PROVE  Promise!Next \/ UNCHANGED Promise!vars
<1>1. TypeOK /\ cbmc[k] = "running" /\ verdict[k] = "none" /\ UNCHANGED <<mode, verdict, exit>>
    BY DEF WorkInvariant, RunningUndecided, CbmcExits
<1>2. \A h \in Harnesses : h # k => cbmc'[h] = cbmc[h] /\ output'[h] = output[h]
    BY <1>1 DEF CbmcExits, TypeOK
<1>3. /\ \A h \in Harnesses : h # k => (h \in ProvedOf' <=> h \in ProvedOf)
      /\ \A h \in Harnesses : h # k => (h \in MisjudgedOf' <=> h \in MisjudgedOf)
    BY <1>1, <1>2 DEF ProvedOf, MisjudgedOf, Verified, Misjudged, Mistaken, Proves, OldFormat
<1>4. k \notin ProvedOf /\ k \notin MisjudgedOf
    BY <1>1 DEF ProvedOf, MisjudgedOf, Verified, Misjudged
<1>5. /\ ProvedOf \subseteq Harnesses /\ ProvedOf' \subseteq Harnesses
      /\ MisjudgedOf \subseteq Harnesses /\ MisjudgedOf' \subseteq Harnesses
    BY DEF ProvedOf, MisjudgedOf
<1>6. Quiet' = Quiet /\ OldFormat' = OldFormat /\ Timeout' = Timeout
    BY <1>1 DEF Quiet, OldFormat, Timeout
<1>7. ~(k \in ProvedOf' /\ k \in MisjudgedOf')
    <2>1. output'[k] \in Outputs /\ cbmc'[k] = "ended"
        BY <1>1 DEF CbmcExits, TypeOK
    <2> QED BY <2>1, OutputsAssumption DEF ProvedOf, MisjudgedOf, Verified, Misjudged, Mistaken, Proves, NoResults
<1>8. CASE k \in ProvedOf'
    <2>1. ProvedOf' = ProvedOf \cup {k} /\ MisjudgedOf' = MisjudgedOf
        <3>1. \A h : h \in ProvedOf' <=> h \in ProvedOf \cup {k}
            BY <1>3, <1>4, <1>5, <1>7, <1>8
        <3>2. \A h : h \in MisjudgedOf' <=> h \in MisjudgedOf
            BY <1>3, <1>4, <1>5, <1>7, <1>8
        <3> QED BY <3>1, <3>2
    <2>2. Promise!Prove(k)
        BY <1>1, <1>4, <1>6, <2>1 DEF Promise!Prove, Promise!options, MisjudgedOf, ProvedOf
    <2> QED BY <2>2 DEF Promise!Next
<1>9. CASE k \in MisjudgedOf'
    <2>1. MisjudgedOf' = MisjudgedOf \cup {k} /\ ProvedOf' = ProvedOf
        <3>1. \A h : h \in MisjudgedOf' <=> h \in MisjudgedOf \cup {k}
            BY <1>3, <1>4, <1>5, <1>7, <1>9
        <3>2. \A h : h \in ProvedOf' <=> h \in ProvedOf
            BY <1>3, <1>4, <1>5, <1>7, <1>9
        <3> QED BY <3>1, <3>2
    <2>2. Promise!Misjudge(k)
        BY <1>1, <1>4, <1>6, <2>1 DEF Promise!Misjudge, Promise!options, MisjudgedOf, ProvedOf
    <2> QED BY <2>2 DEF Promise!Next
<1>10. CASE k \notin ProvedOf' /\ k \notin MisjudgedOf'
    <2>1. ProvedOf' = ProvedOf /\ MisjudgedOf' = MisjudgedOf
        <3>1. \A h : h \in ProvedOf' <=> h \in ProvedOf
            BY <1>3, <1>4, <1>5, <1>10
        <3>2. \A h : h \in MisjudgedOf' <=> h \in MisjudgedOf
            BY <1>3, <1>4, <1>5, <1>10
        <3> QED BY <3>1, <3>2
    <2> QED BY <1>1, <2>1, StutterStep
<1> QED BY <1>8, <1>9, <1>10

\* And the end of kani.
LEMMA MainImplements ==
    ASSUME RunnerInvariant, Main
    PROVE  Promise!Next
<1>1. /\ UNCHANGED <<mode, cbmc, output, verdict>>
      /\ exit = NoExit /\ exit' \in {0, 1, 101}
    BY DEF Main, Abort, SaveFails, PrintFinalSummary, Exit, PoolDone
<1>2. /\ ProvedOf' = ProvedOf /\ MisjudgedOf' = MisjudgedOf
      /\ Quiet' = Quiet /\ OldFormat' = OldFormat /\ Timeout' = Timeout
    BY <1>1, SameProved DEF Quiet, OldFormat, Timeout
<1>3. CASE exit' = 0
    <2>1. Quiet \/ \A h \in Harnesses : verdict[h] = "Success"
        BY <1>1, <1>2, <1>3, RunnerOthers DEF RunnerInvariant, ZeroMeansSuccess
    <2>2. Promise!ExitZero
        BY <1>1, <1>2, <1>3, <2>1 DEF Promise!ExitZero, Promise!options, MisjudgedOf, ProvedOf
    <2> QED BY <2>2 DEF Promise!Next
<1>4. CASE exit' \in {1, 101}
    <2>1. Promise!ExitOther
        BY <1>1, <1>2, <1>4 DEF Promise!ExitOther, Promise!options, MisjudgedOf, ProvedOf
    <2> QED BY <2>1 DEF Promise!Next
<1> QED BY <1>1, <1>3, <1>4

\* The runner keeps the promise of HarnessVerdicts, its liveness aside: for any number
\* of harnesses and workers, any outputs of CBMC and whatever fails or panics, a
\* harness gets one verdict, justified by what CBMC found, and kani exits once, with
\* code 0 only when every harness is a success.
THEOREM RunnerImplements ==
    Spec => Promise!Init /\ [][Promise!Next]_(Promise!vars)
<1>1. Init => Promise!Init /\ RunningUndecided
    <2> SUFFICES ASSUME Init PROVE Promise!Init /\ RunningUndecided
        OBVIOUS
    <2>1. ProvedOf = {} /\ MisjudgedOf = {} /\ RunningUndecided
        BY DEF Init, ProvedOf, MisjudgedOf, Verified, Misjudged, RunningUndecided
    <2>2. {Quiet, OldFormat, Timeout} \subseteq BOOLEAN
        BY ModesAssumption DEF Init, Quiet, OldFormat, Timeout
    <2> QED BY <2>1, <2>2 DEF Init, Promise!Init, ProvedOf, MisjudgedOf
<1>2. RunnerInvariant /\ WorkInvariant /\ RunningUndecided /\ [Next]_vars
        => RunnerInvariant' /\ WorkInvariant' /\ RunningUndecided'
    BY RunnerWorker, RunnerOthers, WorkStep, RunningStep DEF Next
<1>3. RunnerInvariant /\ WorkInvariant /\ RunningUndecided /\ [Next]_vars
        => [Promise!Next]_(Promise!vars)
    <2> SUFFICES ASSUME RunnerInvariant, WorkInvariant, RunningUndecided, [Next]_vars
                 PROVE  Promise!Next \/ UNCHANGED Promise!vars
        OBVIOUS
    <2>1. CASE Done \/ UNCHANGED vars
        <3>1. UNCHANGED <<mode, cbmc, output, verdict, exit>>
            BY <2>1 DEF Done, vars
        <3> QED BY <3>1, SameProved, StutterStep
    <2> QED BY <2>1, WorkerImplements, CbmcImplements, MainImplements DEF Next
<1> QED BY <1>1, <1>2, <1>3, RunnerInit, WorkInit, PTL DEF Spec
=============================================================================
