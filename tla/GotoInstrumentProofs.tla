------------------------ MODULE GotoInstrumentProofs ------------------------
(* What a successful instrument_model leaves, for any number of harnesses and *)
(* workers, any tools that fail, hang or tear files, and any retries.         *)
EXTENDS GotoInstrument, FiniteSetTheorems, TLAPS

\* On Windows the short file and its backup are shared by the whole process: two
\* harnesses with contracts must not be instrumented at the same time.
Exclusive(s) ==
    s.windows => s.jobs = 1 \/ \A h, k \in s.contract \cup s.loops : h = k

Content == Model \cup {Torn, Absent}
Steps == (Passes \ {"enforce-other"}) \cup CopySteps \cup {"end"}

ContractSteps == {"copy-in", "dfcc", "backup", "enforce", "copy-out", "remove"}
AfterContracts == {"library", "bodies", "drop", "backedge", "end"}

\* The harness h works on the short file.
InSection(h) ==
    result[h] = "running" /\ Windows /\ at[h] \in ContractSteps \ {"copy-in"}

\* The harness h may touch the short file.
Sharing(h) == result[h] = "running" /\ Windows /\ h \in Contract \cup Loops

\* The passes that have been applied when h is about to do step s.
DoneAt(st, h, s, d) ==
    /\ s # "specialize" => "specialize" \in d
    /\ s \in {"backedge", "end"} => d \cap {"bodies", "drop"} # {}
    /\ s = "end" => "backedge" \in d
    /\ ~st.windows =>
          /\ h \in st.contract /\ s \in {"enforce"} \cup AfterContracts => "dfcc" \in d
          /\ h \in st.contract /\ s \in AfterContracts => "enforce" \in d
          /\ UndefinedChecks /\ s \in {"backedge", "end"} => "bodies" \in d

\* A model of h with those passes, or what is left of one: no tool accepts that.
Fit(st, h, s, c) ==
    \/ c \in Model /\ c.of = h /\ DoneAt(st, h, s, c.done)
    \/ c = Torn /\ s # "end"

\* Where a harness can be.
StepRight(h) ==
    /\ at[h] \in Steps /\ result[h] \in {"none", "running", "ok", "err"}
    /\ result[h] = "none" => at[h] = "specialize" /\ tool[h] = NoTool
    /\ result[h] = "ok" => at[h] = "end" /\ tool[h] = NoTool
    /\ at[h] \in ContractSteps => h \in Contract \cup Loops
    /\ at[h] \in {"backup", "enforce"} => h \in Contract
    /\ at[h] \in CopySteps => Windows
    /\ at[h] \in {"library", "bodies"} => UndefinedChecks
    /\ at[h] = "drop" => ~UndefinedChecks
    /\ tries[h] # 0 => Windows /\ at[h] \in {"enforce", "bodies"}

\* The file that a tool works on.
ToolRight(h) ==
    /\ tool[h] \in {NoTool, Target(h), TmpFile(h)}
    /\ tool[h] # NoTool => result[h] = "running" /\ at[h] \in Passes
    /\ tool[h] = TmpFile(h) => Windows /\ files[TmpFile(h)] = files[Target(h)]

\* The files of a harness that has not failed.
FilesRight(h) ==
    /\ result[h] # "err" => Fit(setting, h, at[h], files[GotoFile(h)])
    /\ InSection(h) => Fit(setting, h, at[h], files[ShortFile])
    /\ InSection(h) /\ at[h] = "enforce" => Fit(setting, h, at[h], files[BackupFile])
    /\ result[h] # "err" /\ tool[h] # TmpFile(h) => files[TmpFile(h)] = Absent

HarnessRight(h) == StepRight(h) /\ ToolRight(h) /\ FilesRight(h)

\* Files that belong to nobody are gone.
Unowned ==
    /\ (\A h \in Harnesses : result[h] # "err" /\ ~InSection(h)) => files[ShortFile] = Absent
    /\ (\A h \in Harnesses : result[h] # "err" /\ ~(InSection(h) /\ at[h] = "enforce"))
          => files[BackupFile] = Absent
    /\ Process \notin Harnesses => files[<<"tmp", Process>>] = Absent

OneAtATime ==
    Windows /\ Jobs = 1 =>
        \A h, k \in Harnesses : result[h] = "running" /\ result[k] = "running" => h = k

Shape ==
    /\ setting \in Settings /\ files \in [Files -> Content]
    /\ DOMAIN at = Harnesses /\ DOMAIN tool = Harnesses /\ DOMAIN tries = Harnesses
    /\ DOMAIN result = Harnesses

InstrumentInvariant ==
    /\ Shape /\ OneAtATime /\ Unowned
    /\ \A h \in Harnesses : HarnessRight(h)

-----------------------------------------------------------------------------
(* Names, contents and steps *)

\* The files of a harness, the short-path files of run_goto_instrument on Windows
\* and the file of the process have different names.
LEMMA FileNames ==
    ASSUME NEW h \in Harnesses
    PROVE  /\ {GotoFile(h), TmpFile(h), ShortFile, BackupFile, <<"tmp", Process>>} \subseteq Files
           /\ GotoFile(h) \notin {TmpFile(h), ShortFile, BackupFile, NoTool, <<"tmp", Process>>}
           /\ TmpFile(h) \notin {ShortFile, BackupFile, NoTool}
           /\ ShortFile \notin {BackupFile, NoTool, <<"tmp", Process>>}
           /\ BackupFile \notin {NoTool, <<"tmp", Process>>}
           /\ TmpFile(h) = <<"tmp", Process>> => h = Process
           /\ \A k \in Harnesses :
                 k # h => /\ GotoFile(h) \notin {GotoFile(k), TmpFile(k)}
                          /\ TmpFile(h) \notin {GotoFile(k), TmpFile(k)}
BY DEF Files, Temporaries, GotoFile, TmpFile, ShortFile, BackupFile, NoTool

\* A torn file, a missing file and a model are told apart.
LEMMA Contents == Torn # Absent /\ Torn \notin Model /\ Absent \notin Model
<1>1. DOMAIN Torn = {"torn"} /\ DOMAIN Absent = {"absent"}
  BY DEF Torn, Absent
<1>2. \A c \in Model : DOMAIN c = {"of", "done"}
  BY DEF Model
<1> QED BY <1>1, <1>2

\* A pass of goto-instrument keeps whose model it is and adds itself to what was
\* done.
LEMMA AppliedRight ==
    ASSUME NEW c \in Model, NEW pass \in Passes
    PROVE  /\ Applied(c, pass) \in Model /\ Applied(c, pass).of = c.of
           /\ Applied(c, pass).done = c.done \cup {pass}
BY DEF Model, Applied

\* A file that fits a step of the pipeline exists.
LEMMA FitContent ==
    ASSUME NEW st, NEW h, NEW s, NEW c, Fit(st, h, s, c)
    PROVE  c \in Content /\ c # Absent
BY Contents DEF Fit, Content

\* Where a harness goes on, by the step it comes from.
LEMMA Transitions ==
    ASSUME NEW h, NEW s \in Steps \ {"end"}, NEW t, t = NextStep(h, s)
    PROVE  /\ s \in {"specialize", "restrict", "sanity"} =>
                \/ t \in {"restrict", "sanity"}
                \/ h \notin Contract \cup Loops /\ t = IF UndefinedChecks THEN "library" ELSE "drop"
                \/ h \in Contract \cup Loops /\ t = IF Windows THEN "copy-in" ELSE "dfcc"
           /\ s = "copy-in" => t = "dfcc"
           /\ s = "dfcc" =>
                \/ h \in Contract /\ t = IF Windows THEN "backup" ELSE "enforce"
                \/ h \notin Contract /\ Windows /\ t = "copy-out"
                \/ /\ h \notin Contract /\ ~Windows
                   /\ t = IF UndefinedChecks THEN "library" ELSE "drop"
           /\ s = "backup" => t = "enforce"
           /\ s = "enforce" => 
                \/ Windows /\ t = "copy-out"
                \/ ~Windows /\ t = IF UndefinedChecks THEN "library" ELSE "drop"
           /\ s = "copy-out" => t = "remove"
           /\ s = "remove" => t = IF UndefinedChecks THEN "library" ELSE "drop"
           /\ s = "library" => t = "bodies"
           /\ s \in {"bodies", "drop"} => t = "backedge"
           /\ s = "backedge" => t = "end"
<1>1. s \in {"specialize", "restrict", "sanity"} =>
                \/ t \in {"restrict", "sanity"}
                \/ h \notin Contract \cup Loops /\ t = IF UndefinedChecks THEN "library" ELSE "drop"
                \/ h \in Contract \cup Loops /\ t = IF Windows THEN "copy-in" ELSE "dfcc"
  BY DEF NextStep
<1>2. s = "dfcc" =>
                \/ h \in Contract /\ t = IF Windows THEN "backup" ELSE "enforce"
                \/ h \notin Contract /\ Windows /\ t = "copy-out"
                \/ /\ h \notin Contract /\ ~Windows
                   /\ t = IF UndefinedChecks THEN "library" ELSE "drop"
  BY DEF NextStep
<1>3. s = "enforce" => 
                \/ Windows /\ t = "copy-out"
                \/ ~Windows /\ t = IF UndefinedChecks THEN "library" ELSE "drop"
  BY DEF NextStep
<1>4. /\ s = "copy-in" => t = "dfcc"
      /\ s = "backup" => t = "enforce"
      /\ s = "copy-out" => t = "remove"
      /\ s = "remove" => t = IF UndefinedChecks THEN "library" ELSE "drop"
      /\ s = "library" => t = "bodies"
  BY DEF NextStep
<1>5. /\ s \in {"bodies", "drop"} => t = "backedge"
      /\ s = "backedge" => t = "end"
  BY DEF NextStep
<1> QED BY <1>1, <1>2, <1>3, <1>4, <1>5

\* Where a harness can go on.
LEMMA NextStepRight ==
    ASSUME NEW h \in Harnesses, StepRight(h), at[h] # "end", NEW s, s = NextStep(h, at[h])
    PROVE  /\ s \in Steps /\ s # "specialize"
           /\ s \in ContractSteps => h \in Contract \cup Loops
           /\ s \in {"backup", "enforce"} => h \in Contract
           /\ s \in CopySteps => Windows
           /\ s \in {"library", "bodies"} => UndefinedChecks
           /\ s = "drop" => ~UndefinedChecks
<1>1. at[h] \in Steps \ {"end"}
  BY DEF StepRight
<1> QED BY <1>1, Transitions DEF StepRight, Steps, Passes, CopySteps, ContractSteps

\* Steps that are no passes, and passes that are given up, take nothing away.
LEMMA FitKept ==
    ASSUME NEW h \in Harnesses, StepRight(h), Windows, at[h] \in ContractSteps,
           NEW c, Fit(setting, h, at[h], c)
    PROVE  Fit(setting, h, NextStep(h, at[h]), c)
<1> DEFINE s == NextStep(h, at[h])
<1>1. s \notin {"specialize", "backedge", "end"} /\ at[h] # "specialize"
  BY DEF NextStep, ContractSteps
<1> HIDE DEF s
<1>2. ASSUME NEW d, DoneAt(setting, h, at[h], d) PROVE DoneAt(setting, h, s, d)
  BY <1>1, <1>2 DEF DoneAt, Windows
<1>3. Fit(setting, h, s, c)
  BY <1>1, <1>2 DEF Fit
<1> QED BY <1>3 DEF s

\* A pass that was applied counts.
LEMMA FitApplied ==
    ASSUME NEW h \in Harnesses, StepRight(h), at[h] \in Passes,
           NEW c, Fit(setting, h, at[h], c), c # Torn
    PROVE  Fit(setting, h, NextStep(h, at[h]), Applied(c, Pass(h)))
<1> DEFINE s == NextStep(h, at[h])
           d == c.done \cup {Pass(h)}
<1>1. c \in Model /\ c.of = h /\ DoneAt(setting, h, at[h], c.done)
  BY DEF Fit
<1>2. Pass(h) \in Passes
  BY DEF Pass, Passes
<1>3. /\ Applied(c, Pass(h)) \in Model /\ Applied(c, Pass(h)).of = h
      /\ Applied(c, Pass(h)).done = d
  BY <1>1, <1>2, AppliedRight
<1>4. c.done \subseteq d /\ Pass(h) \in d
  OBVIOUS
<1>5. tries[h] = 0 => Pass(h) = at[h]
  BY DEF Pass
<1> HIDE DEF d
<1>6. "specialize" \in d
  BY <1>1, <1>4, <1>5 DEF DoneAt, StepRight
<1>12. at[h] \in Steps \ {"end"} /\ at[h] \notin CopySteps
  BY DEF StepRight, Passes, CopySteps
<1>13. s = NextStep(h, at[h])
  OBVIOUS
<1> HIDE DEF s
<1>7. s \in {"backedge", "end"} => d \cap {"bodies", "drop"} # {}
  <2>1. at[h] = "backedge" \/ s \notin {"backedge", "end"} \/ at[h] \in {"bodies", "drop"}
    BY <1>12, <1>13, Transitions DEF Steps, Passes, CopySteps
  <2>2. at[h] = "backedge" => d \cap {"bodies", "drop"} # {}
    BY <1>1, <1>4 DEF DoneAt
  <2>3. at[h] \in {"bodies", "drop"} => Pass(h) \in {"bodies", "drop"}
    BY DEF Pass
  <2> QED BY <1>4, <2>1, <2>2, <2>3
<1>8. s = "end" => "backedge" \in d
  <2>1. at[h] = "backedge" \/ s # "end"
    BY <1>12, <1>13, Transitions DEF Steps, Passes, CopySteps
  <2>2. at[h] = "backedge" => Pass(h) = "backedge"
    BY <1>5 DEF StepRight
  <2> QED BY <1>4, <2>1, <2>2
<1>9. ASSUME ~Windows PROVE
          /\ h \in Contract /\ s \in {"enforce"} \cup AfterContracts => "dfcc" \in d
          /\ h \in Contract /\ s \in AfterContracts => "enforce" \in d
          /\ UndefinedChecks /\ s \in {"backedge", "end"} => "bodies" \in d
  <2>1. Pass(h) = at[h]
    BY <1>5, <1>9 DEF StepRight
  <2>2. ASSUME h \in Contract, s \in {"enforce"} \cup AfterContracts
        PROVE  at[h] \in {"dfcc", "enforce"} \cup AfterContracts
    BY <1>12, <1>13, <2>2, <1>9, Transitions DEF Steps, Passes, CopySteps, AfterContracts
  <2>3. ASSUME h \in Contract, s \in AfterContracts
        PROVE  at[h] \in {"enforce"} \cup AfterContracts
    BY <1>12, <1>13, <2>3, <1>9, Transitions DEF Steps, Passes, CopySteps, AfterContracts
  <2>4. ASSUME UndefinedChecks, s \in {"backedge", "end"}
        PROVE  at[h] \in {"bodies", "backedge"}
    BY <1>12, <1>13, <2>4, Transitions DEF Steps, Passes, CopySteps, StepRight
  <2>5. /\ h \in Contract /\ at[h] \in {"enforce"} \cup AfterContracts => "dfcc" \in c.done
        /\ h \in Contract /\ at[h] \in AfterContracts => "enforce" \in c.done
        /\ UndefinedChecks /\ at[h] = "backedge" => "bodies" \in c.done
    BY <1>1, <1>9 DEF DoneAt, Windows, Contract
  <2> QED BY <1>4, <2>1, <2>2, <2>3, <2>4, <2>5
<1>10. DoneAt(setting, h, s, d)
  BY <1>6, <1>7, <1>8, <1>9 DEF DoneAt, Windows, Contract
<1>11. Fit(setting, h, s, Applied(c, Pass(h)))
  BY <1>3, <1>10 DEF Fit
<1> QED BY <1>11 DEF s

-----------------------------------------------------------------------------
(* One step of one harness *)

\* The files that a step of h may change.
Reach(h) ==
    {GotoFile(h), TmpFile(h)} \cup (IF Sharing(h) THEN {ShortFile, BackupFile} ELSE {})

Frame(h) ==
    /\ Shape' /\ setting' = setting
    /\ \A k \in Harnesses :
          k # h => /\ at'[k] = at[k] /\ tool'[k] = tool[k]
                   /\ tries'[k] = tries[k] /\ result'[k] = result[k]
    /\ \A f \in Files \ Reach(h) : files'[f] = files[f]

\* After the step of h a shared file is h's, gone, or as it was before.
Owned(h) ==
    /\ \/ result'[h] = "err" \/ InSection(h)' \/ files'[ShortFile] = Absent
       \/ ~InSection(h) /\ result[h] # "err" /\ files'[ShortFile] = files[ShortFile]
    /\ \/ result'[h] = "err" \/ (InSection(h)' /\ at'[h] = "enforce")
       \/ files'[BackupFile] = Absent
       \/ /\ ~(InSection(h) /\ at[h] = "enforce") /\ result[h] # "err"
          /\ files'[BackupFile] = files[BackupFile]

Works(h) == Frame(h) /\ HarnessRight(h)' /\ Owned(h)

\* Two harnesses never share the short file.
LEMMA SharingExclusive ==
    ASSUME Exclusive(setting), Shape, OneAtATime,
           NEW h \in Harnesses, NEW k \in Harnesses, Sharing(h), Sharing(k)
    PROVE  h = k
<1>1. setting.windows
  BY DEF Sharing, Windows
<1>2. CASE setting.jobs = 1
  BY <1>1, <1>2 DEF OneAtATime, Sharing, Windows, Jobs
<1>3. CASE setting.jobs # 1
  BY <1>1, <1>3 DEF Exclusive, Sharing, Contract, Loops
<1> QED BY <1>2, <1>3

\* A step of h leaves the other harnesses alone.
LEMMA OthersKept ==
    ASSUME Exclusive(setting), InstrumentInvariant,
           NEW h \in Harnesses, Frame(h), NEW k \in Harnesses, k # h
    PROVE  HarnessRight(k)' /\ (InSection(k)' <=> InSection(k))
<1> USE DEF InstrumentInvariant
<1>1. /\ setting' = setting /\ at'[k] = at[k] /\ tool'[k] = tool[k]
      /\ tries'[k] = tries[k] /\ result'[k] = result[k]
  BY DEF Frame
<1>2. Windows' = Windows /\ Contract' = Contract /\ Loops' = Loops
  BY <1>1 DEF Windows, Contract, Loops
<1>3. files'[GotoFile(k)] = files[GotoFile(k)] /\ files'[TmpFile(k)] = files[TmpFile(k)]
  BY FileNames DEF Frame, Reach
<1>4. Sharing(k) => files'[ShortFile] = files[ShortFile] /\ files'[BackupFile] = files[BackupFile]
  BY SharingExclusive, FileNames DEF Frame, Reach
<1>5. HarnessRight(k)
  OBVIOUS
<1>6. InSection(k)' <=> InSection(k)
  BY <1>1, <1>2 DEF InSection
<1>7. InSection(k) => Sharing(k)
  BY <1>5 DEF InSection, Sharing, HarnessRight, StepRight, ContractSteps
<1>8. StepRight(k)'
  BY <1>1, <1>2, <1>5 DEF HarnessRight, StepRight
<1>9. ToolRight(k)'
  <2>1. Target(k)' = Target(k)
    BY <1>1, <1>2 DEF Target, GotoFile, ShortFile
  <2>2. tool[k] = TmpFile(k) => files'[Target(k)] = files[Target(k)]
    <3>1. CASE Target(k) = GotoFile(k)
      BY <3>1, <1>3
    <3>2. CASE Target(k) = ShortFile /\ Windows /\ at[k] \in {"dfcc", "enforce"}
      <4>1. tool[k] = TmpFile(k) => InSection(k)
        BY <3>2, <1>5, FileNames DEF HarnessRight, ToolRight, InSection, ContractSteps
      <4> QED BY <3>2, <4>1, <1>4, <1>7
    <3> QED BY <3>1, <3>2 DEF Target
  <2>3. TmpFile(k)' = TmpFile(k)
    BY DEF TmpFile
  <2> QED BY <1>1, <1>2, <1>3, <1>5, <2>1, <2>2, <2>3 DEF HarnessRight, ToolRight
<1>10. FilesRight(k)'
  <2>1. GotoFile(k)' = GotoFile(k) /\ TmpFile(k)' = TmpFile(k) /\ ShortFile' = ShortFile
           /\ BackupFile' = BackupFile
    BY DEF GotoFile, TmpFile, ShortFile, BackupFile
  <2> QED BY <1>1, <1>3, <1>4, <1>5, <1>6, <1>7, <2>1 DEF HarnessRight, FilesRight
<1> QED BY <1>6, <1>8, <1>9, <1>10 DEF HarnessRight

\* A step that works on one harness only keeps the invariant, as long as one
\* harness at a time is between copy-in and copy-out.
LEMMA WorkKeeps ==
    ASSUME Exclusive(setting), InstrumentInvariant,
           NEW h \in Harnesses, Works(h), OneAtATime'
    PROVE  InstrumentInvariant'
<1>1. \A k \in Harnesses : k # h => HarnessRight(k)' /\ (InSection(k)' <=> InSection(k))
                                     /\ at'[k] = at[k] /\ result'[k] = result[k]
  BY OthersKept DEF Works, Frame
<1>2. \A k \in Harnesses : HarnessRight(k)'
  BY <1>1 DEF Works
<1>3. (\A k \in Harnesses : result'[k] # "err" /\ ~InSection(k)') => files'[ShortFile] = Absent
  <2> SUFFICES ASSUME \A k \in Harnesses : result'[k] # "err" /\ ~InSection(k)',
                      ~InSection(h) /\ result[h] # "err" /\ files'[ShortFile] = files[ShortFile]
               PROVE  files'[ShortFile] = Absent
    BY DEF Works, Owned
  <2>1. \A k \in Harnesses : result[k] # "err" /\ ~InSection(k)
    BY <1>1
  <2> QED BY <2>1 DEF InstrumentInvariant, Unowned
<1>4. (\A k \in Harnesses : result'[k] # "err" /\ ~(InSection(k)' /\ at'[k] = "enforce"))
          => files'[BackupFile] = Absent
  <2> SUFFICES ASSUME \A k \in Harnesses : /\ result'[k] # "err"
                                           /\ ~(InSection(k)' /\ at'[k] = "enforce"),
                      ~(InSection(h) /\ at[h] = "enforce"), result[h] # "err",
                      files'[BackupFile] = files[BackupFile]
               PROVE  files'[BackupFile] = Absent
    BY DEF Works, Owned
  <2>1. \A k \in Harnesses : result[k] # "err" /\ ~(InSection(k) /\ at[k] = "enforce")
    BY <1>1
  <2> QED BY <2>1 DEF InstrumentInvariant, Unowned
<1>5. Process \notin Harnesses => files'[<<"tmp", Process>>] = Absent
  BY FileNames DEF Works, Frame, Reach, InstrumentInvariant, Unowned
<1>6. Unowned'
  BY <1>3, <1>4, <1>5 DEF Unowned, ShortFile, BackupFile
<1> QED BY <1>2, <1>6 DEF InstrumentInvariant, Works, Frame

\* What a step may do with the files.
FilesFrame(h) ==
    /\ files' \in [Files -> Content]
    /\ \A f \in Files \ Reach(h) : files'[f] = files[f]

\* An error leaves nothing to check but the frame.
LEMMA FailWorks ==
    ASSUME InstrumentInvariant, NEW h \in Harnesses, Active(h), Fail(h), FilesFrame(h)
    PROVE  Works(h)
<1> USE DEF InstrumentInvariant
<1>1. /\ setting' = setting /\ at' = at /\ tries' = tries
      /\ result' = [result EXCEPT ![h] = "err"] /\ tool' = [tool EXCEPT ![h] = NoTool]
  BY DEF Fail
<1>2. /\ result'[h] = "err" /\ tool'[h] = NoTool
      /\ \A k \in Harnesses : k # h => result'[k] = result[k] /\ tool'[k] = tool[k]
      /\ DOMAIN result' = Harnesses /\ DOMAIN tool' = Harnesses
  BY <1>1 DEF Shape
<1>3. Frame(h)
  BY <1>1, <1>2 DEF Frame, FilesFrame, Shape
<1>4. StepRight(h)
  BY DEF HarnessRight
<1>5. StepRight(h)'
  BY <1>1, <1>2, <1>4 DEF StepRight, Windows, Contract, Loops
<1>6. ToolRight(h)'
  BY <1>2, FileNames DEF ToolRight, TmpFile
<1>7. FilesRight(h)'
  BY <1>2 DEF FilesRight, InSection
<1>8. Owned(h)
  BY <1>2 DEF Owned
<1> QED BY <1>3, <1>5, <1>6, <1>7, <1>8 DEF Works, HarnessRight

\* Going on to the next step, given what is in the files then.
LEMMA AdvanceWorks ==
    ASSUME InstrumentInvariant, NEW h \in Harnesses, Active(h), Advance(h), FilesFrame(h),
           NEW s, s = NextStep(h, at[h]),
           Fit(setting, h, s, files'[GotoFile(h)]), files'[TmpFile(h)] = Absent,
           IF Windows /\ s \in ContractSteps \ {"copy-in"}
           THEN Fit(setting, h, s, files'[ShortFile])
           ELSE \/ files'[ShortFile] = Absent
                \/ ~InSection(h) /\ files'[ShortFile] = files[ShortFile],
           IF Windows /\ s = "enforce" THEN Fit(setting, h, s, files'[BackupFile])
           ELSE \/ files'[BackupFile] = Absent
                \/ ~(InSection(h) /\ at[h] = "enforce") /\ files'[BackupFile] = files[BackupFile]
    PROVE  Works(h)
<1> USE DEF InstrumentInvariant
<1>1. /\ setting' = setting /\ result' = result
      /\ at' = [at EXCEPT ![h] = s] /\ tries' = [tries EXCEPT ![h] = 0]
      /\ tool' = [tool EXCEPT ![h] = NoTool]
  BY DEF Advance
<1>2. /\ at'[h] = s /\ tries'[h] = 0 /\ tool'[h] = NoTool /\ result'[h] = "running"
      /\ \A k \in Harnesses : k # h => at'[k] = at[k] /\ tool'[k] = tool[k] /\ tries'[k] = tries[k]
      /\ DOMAIN at' = Harnesses /\ DOMAIN tool' = Harnesses /\ DOMAIN tries' = Harnesses
  BY <1>1 DEF Shape, Active
<1>3. Frame(h)
  BY <1>1, <1>2 DEF Frame, FilesFrame, Shape
<1>4. StepRight(h) /\ at[h] # "end"
  BY DEF HarnessRight, Active
<1>5. StepRight(h)'
  BY <1>1, <1>2, <1>4, NextStepRight DEF StepRight, Windows, Contract, Loops
<1>6. ToolRight(h)'
  BY <1>2, FileNames DEF ToolRight, TmpFile
<1>7. InSection(h)' <=> Windows /\ s \in ContractSteps \ {"copy-in"}
  BY <1>1, <1>2 DEF InSection, Windows
<1>8. s = "enforce" => s \in ContractSteps \ {"copy-in"}
  BY DEF ContractSteps
<1>9. FilesRight(h)'
  BY <1>1, <1>2, <1>7, <1>8, FileNames DEF FilesRight, GotoFile, TmpFile, ShortFile, BackupFile
<1>10. Owned(h)
  BY <1>2, <1>7, <1>8 DEF Owned, Active
<1> QED BY <1>3, <1>5, <1>6, <1>9, <1>10 DEF Works, HarnessRight

\* Removing files changes no other file.
LEMMA WithoutRight ==
    ASSUME NEW fs \in [Files -> Content], NEW gone
    PROVE  /\ Without(fs, gone) \in [Files -> Content]
           /\ \A f \in Files : Without(fs, gone)[f] = IF f \in gone THEN Absent ELSE fs[f]
BY DEF Without, Content

\* What a running harness knows about its files.
LEMMA ActiveFiles ==
    ASSUME InstrumentInvariant, NEW h \in Harnesses, Active(h)
    PROVE  /\ StepRight(h) /\ at[h] \in Steps \ {"end"} /\ result[h] = "running"
           /\ files \in [Files -> Content]
           /\ Fit(setting, h, at[h], files[GotoFile(h)])
           /\ tool[h] # TmpFile(h) => files[TmpFile(h)] = Absent
           /\ at[h] \in CopySteps => Windows /\ tool[h] = NoTool
           /\ Windows /\ at[h] \in ContractSteps => Sharing(h)
           /\ InSection(h) <=> Windows /\ at[h] \in ContractSteps \ {"copy-in"}
           /\ InSection(h) => Fit(setting, h, at[h], files[ShortFile])
           /\ Windows /\ at[h] = "enforce" => Fit(setting, h, at[h], files[BackupFile])
           /\ tool[h] # NoTool => at[h] \in Passes
<1>1. StepRight(h) /\ ToolRight(h) /\ FilesRight(h)
  BY DEF InstrumentInvariant, HarnessRight
<1>2. StepRight(h) /\ at[h] \in Steps \ {"end"} /\ result[h] = "running"
  BY <1>1 DEF StepRight, Active
<1>3. InSection(h) <=> Windows /\ at[h] \in ContractSteps \ {"copy-in"}
  BY <1>2 DEF InSection
<1>4. at[h] \in CopySteps => Windows /\ tool[h] = NoTool
  BY <1>1, <1>2 DEF StepRight, ToolRight, CopySteps, Passes
<1>5. Windows /\ at[h] \in ContractSteps => Sharing(h)
  BY <1>2 DEF StepRight, Sharing
<1>6. at[h] = "enforce" => at[h] \in ContractSteps \ {"copy-in"}
  BY DEF ContractSteps
<1> QED BY <1>1, <1>2, <1>3, <1>4, <1>5, <1>6 DEF FilesRight, ToolRight, InstrumentInvariant, Shape

-----------------------------------------------------------------------------
(* The copies of instrument_contracts *)

\* Copying the model to the short path works on the harness only.
LEMMA CopyInWorks ==
    ASSUME InstrumentInvariant, NEW h \in Harnesses, CopyIn(h)
    PROVE  Works(h)
<1> DEFINE s == NextStep(h, at[h])
<1>1. Active(h) /\ at[h] = "copy-in"
  BY DEF CopyIn, CopyStep
<1>2. s = "dfcc"
  BY <1>1, ActiveFiles, Transitions
<1> HIDE DEF s
<1>3. /\ Windows /\ Sharing(h) /\ tool[h] # TmpFile(h) /\ StepRight(h)
      /\ Fit(setting, h, at[h], files[GotoFile(h)]) /\ files[TmpFile(h)] = Absent
      /\ files \in [Files -> Content] /\ ~InSection(h)
  BY <1>1, ActiveFiles, FileNames DEF CopySteps, ContractSteps
<1>4. CASE Fail(h) /\ files' = Without(files, {})
  BY <1>1, <1>3, <1>4, WithoutRight, FailWorks DEF FilesFrame
<1>5. CASE Advance(h) /\ files' = [files EXCEPT ![ShortFile] = files[GotoFile(h)]]
  <2>1. /\ files' \in [Files -> Content] /\ files'[ShortFile] = files[GotoFile(h)]
        /\ \A f \in Files : f # ShortFile => files'[f] = files[f]
    BY <1>3, <1>5, FileNames
  <2>2. FilesFrame(h)
    BY <2>1, <1>3 DEF FilesFrame, Reach
  <2>3. Fit(setting, h, s, files[GotoFile(h)])
    BY <1>1, <1>3, FitKept DEF s, ContractSteps
  <2>4. /\ files'[GotoFile(h)] = files[GotoFile(h)] /\ files'[TmpFile(h)] = Absent
        /\ files'[BackupFile] = files[BackupFile]
    BY <1>3, <2>1, FileNames
  <2> QED BY <1>1, <1>2, <1>3, <1>5, <2>1, <2>2, <2>3, <2>4, AdvanceWorks
          DEF s, ContractSteps
<1> QED BY <1>4, <1>5 DEF CopyIn, CopyStep

\* So does the backup before instrumentation.
LEMMA BackupWorks ==
    ASSUME InstrumentInvariant, NEW h \in Harnesses, Backup(h)
    PROVE  Works(h)
<1> DEFINE s == NextStep(h, at[h])
<1>1. Active(h) /\ at[h] = "backup"
  BY DEF Backup, CopyStep
<1>2. s = "enforce"
  BY <1>1, ActiveFiles, Transitions
<1> HIDE DEF s
<1>3. /\ Windows /\ Sharing(h) /\ tool[h] # TmpFile(h) /\ StepRight(h)
      /\ Fit(setting, h, at[h], files[GotoFile(h)]) /\ files[TmpFile(h)] = Absent
      /\ Fit(setting, h, at[h], files[ShortFile])
      /\ files \in [Files -> Content]
  BY <1>1, ActiveFiles, FileNames DEF CopySteps, ContractSteps
<1>4. CASE Fail(h) /\ files' = Without(files, {ShortFile})
  BY <1>1, <1>3, <1>4, WithoutRight, FailWorks DEF FilesFrame, Reach
<1>5. CASE Advance(h) /\ files' = [files EXCEPT ![BackupFile] = files[ShortFile]]
  <2>1. /\ files' \in [Files -> Content] /\ files'[BackupFile] = files[ShortFile]
        /\ \A f \in Files : f # BackupFile => files'[f] = files[f]
    BY <1>3, <1>5, FileNames
  <2>2. FilesFrame(h)
    BY <2>1, <1>3 DEF FilesFrame, Reach
  <2>3. Fit(setting, h, s, files[GotoFile(h)]) /\ Fit(setting, h, s, files[ShortFile])
    BY <1>1, <1>3, FitKept DEF s, ContractSteps
  <2>4. /\ files'[GotoFile(h)] = files[GotoFile(h)] /\ files'[TmpFile(h)] = Absent
        /\ files'[ShortFile] = files[ShortFile]
    BY <1>3, <2>1, FileNames
  <2> QED BY <1>1, <1>2, <1>3, <1>5, <2>1, <2>2, <2>3, <2>4, AdvanceWorks
          DEF s, ContractSteps
<1> QED BY <1>4, <1>5 DEF Backup, CopyStep

\* So does copying the result back.
LEMMA CopyOutWorks ==
    ASSUME InstrumentInvariant, NEW h \in Harnesses, CopyOut(h)
    PROVE  Works(h)
<1> DEFINE s == NextStep(h, at[h])
<1>1. Active(h) /\ at[h] = "copy-out"
  BY DEF CopyOut, CopyStep
<1>2. s = "remove"
  BY <1>1, ActiveFiles, Transitions
<1> HIDE DEF s
<1>3. /\ Windows /\ Sharing(h) /\ tool[h] # TmpFile(h) /\ StepRight(h)
      /\ files[TmpFile(h)] = Absent /\ Fit(setting, h, at[h], files[ShortFile])
      /\ files \in [Files -> Content]
  BY <1>1, ActiveFiles, FileNames DEF CopySteps, ContractSteps
<1>4. CASE Fail(h) /\ files' = Without(files, {})
  BY <1>1, <1>3, <1>4, WithoutRight, FailWorks DEF FilesFrame
<1>5. CASE Advance(h) /\ files' = [files EXCEPT ![GotoFile(h)] = files[ShortFile]]
  <2>1. /\ files' \in [Files -> Content] /\ files'[GotoFile(h)] = files[ShortFile]
        /\ \A f \in Files : f # GotoFile(h) => files'[f] = files[f]
    BY <1>3, <1>5, FileNames
  <2>2. FilesFrame(h)
    BY <2>1, <1>3 DEF FilesFrame, Reach
  <2>3. Fit(setting, h, s, files[ShortFile])
    BY <1>1, <1>3, FitKept DEF s, ContractSteps
  <2>4. /\ files'[ShortFile] = files[ShortFile] /\ files'[TmpFile(h)] = Absent
        /\ files'[BackupFile] = files[BackupFile]
    BY <1>3, <2>1, FileNames
  <2> QED BY <1>1, <1>2, <1>3, <1>5, <2>1, <2>2, <2>3, <2>4, AdvanceWorks
          DEF s, ContractSteps
<1> QED BY <1>4, <1>5 DEF CopyOut, CopyStep

\* So does removing the files of the short path.
LEMMA RemoveShortWorks ==
    ASSUME InstrumentInvariant, NEW h \in Harnesses, RemoveShort(h)
    PROVE  Works(h)
<1> DEFINE s == NextStep(h, at[h])
<1>1. /\ Active(h) /\ at[h] = "remove" /\ Advance(h) /\ files' = Without(files, {ShortFile})
  BY DEF RemoveShort
<1>2. s \in {"library", "drop"}
  BY <1>1, ActiveFiles, Transitions
<1> HIDE DEF s
<1>3. /\ Windows /\ Sharing(h) /\ tool[h] # TmpFile(h) /\ StepRight(h)
      /\ files[TmpFile(h)] = Absent /\ Fit(setting, h, at[h], files[GotoFile(h)])
      /\ files \in [Files -> Content]
  BY <1>1, ActiveFiles, FileNames DEF CopySteps, ContractSteps
<1>4. /\ files' \in [Files -> Content] /\ files'[ShortFile] = Absent
      /\ \A f \in Files : f # ShortFile => files'[f] = files[f]
  BY <1>1, <1>3, FileNames, WithoutRight
<1>5. FilesFrame(h)
  BY <1>4, <1>3 DEF FilesFrame, Reach
<1>6. Fit(setting, h, s, files[GotoFile(h)])
  BY <1>1, <1>3, FitKept DEF s, ContractSteps
<1>7. /\ files'[GotoFile(h)] = files[GotoFile(h)] /\ files'[TmpFile(h)] = Absent
      /\ files'[BackupFile] = files[BackupFile]
  BY <1>3, <1>4, FileNames
<1> QED BY <1>1, <1>2, <1>4, <1>5, <1>6, <1>7, AdvanceWorks DEF s, ContractSteps

-----------------------------------------------------------------------------
(* The tools *)

\* The file that a pass rewrites, and what is in it.
LEMMA TargetRight ==
    ASSUME InstrumentInvariant, NEW h \in Harnesses, Active(h)
    PROVE  /\ Target(h) \in Reach(h) \cap Files /\ Target(h) \notin {TmpFile(h), BackupFile, NoTool}
           /\ at[h] \in Passes => Fit(setting, h, at[h], files[Target(h)])
           /\ tool[h] # NoTool => files[tool[h]] = files[Target(h)]
           /\ \/ Target(h) = ShortFile /\ Windows /\ at[h] \in {"dfcc", "enforce"} /\ InSection(h)
              \/ /\ Target(h) = GotoFile(h) /\ ~(Windows /\ at[h] \in {"dfcc", "enforce"})
                 /\ at[h] \in Passes => ~InSection(h)
<1>1. CASE Windows /\ at[h] \in {"dfcc", "enforce"}
  <2>1. InSection(h) /\ Sharing(h) /\ Target(h) = ShortFile
    BY <1>1, ActiveFiles DEF Target, ContractSteps
  <2> QED BY <1>1, <2>1, ActiveFiles, FileNames
          DEF Reach, InstrumentInvariant, HarnessRight, ToolRight
<1>2. CASE ~(Windows /\ at[h] \in {"dfcc", "enforce"})
  <2>1. Target(h) = GotoFile(h)
    BY <1>2 DEF Target
  <2>2. at[h] \in Passes => ~InSection(h)
    BY <1>2 DEF InSection, ContractSteps, Passes
  <2> QED BY <1>2, <2>1, <2>2, ActiveFiles, FileNames
          DEF Reach, InstrumentInvariant, HarnessRight, ToolRight
<1> QED BY <1>1, <1>2

\* So does starting a tool, which may tear the file it writes.
LEMMA StartToolWorks ==
    ASSUME InstrumentInvariant, NEW h \in Harnesses, StartTool(h)
    PROVE  Works(h)
<1> USE DEF InstrumentInvariant
<1>1. Active(h) /\ at[h] \in Passes /\ tool[h] = NoTool
  BY DEF StartTool
<1>2. /\ StepRight(h) /\ FilesRight(h) /\ result[h] = "running" /\ files \in [Files -> Content]
      /\ files[TmpFile(h)] = Absent
  BY <1>1, ActiveFiles, FileNames DEF HarnessRight
<1>3. CASE Fail(h) /\ UNCHANGED files
  BY <1>1, <1>2, <1>3, FailWorks DEF FilesFrame
<1>4. ASSUME NEW file \in {Target(h), TmpFile(h)}, tool' = [tool EXCEPT ![h] = file],
             UNCHANGED <<setting, at, tries, result>>, files' \in [Files -> Content],
             \A f \in Files : f # TmpFile(h) => files'[f] = files[f],
             file = TmpFile(h) => Windows /\ files'[TmpFile(h)] = files[Target(h)],
             file # TmpFile(h) => files' = files
      PROVE  Works(h)
  <2>1. tool'[h] = file /\ DOMAIN tool' = Harnesses
           /\ \A k \in Harnesses : k # h => tool'[k] = tool[k]
    BY <1>4 DEF Shape
  <2>2. Frame(h)
    BY <1>4, <2>1 DEF Frame, Reach, Shape
  <2>3. StepRight(h)'
    BY <1>1, <1>2, <1>4 DEF StepRight, Windows, Contract, Loops
  <2>4. files'[Target(h)] = files[Target(h)]
    BY <1>1, <1>4, TargetRight
  <2>5. Target(h)' = Target(h) /\ TmpFile(h)' = TmpFile(h)
    BY <1>4 DEF Target, TmpFile, GotoFile, ShortFile, Windows
  <2>6. ToolRight(h)'
    BY <1>1, <1>2, <1>4, <2>1, <2>4, <2>5, FileNames DEF ToolRight, Windows
  <2>7. InSection(h)' <=> InSection(h)
    BY <1>4 DEF InSection, Windows
  <2>8. /\ files'[GotoFile(h)] = files[GotoFile(h)] /\ files'[ShortFile] = files[ShortFile]
        /\ files'[BackupFile] = files[BackupFile]
    BY <1>4, FileNames
  <2>9. FilesRight(h)'
    BY <1>2, <1>4, <2>1, <2>5, <2>7, <2>8 DEF FilesRight, GotoFile, ShortFile, BackupFile
  <2>10. Owned(h)
    BY <1>2, <1>4, <2>7, <2>8 DEF Owned
  <2> QED BY <2>2, <2>3, <2>6, <2>9, <2>10 DEF Works, HarnessRight
<1>5. CASE /\ Windows /\ files' = [files EXCEPT ![TmpFile(h)] = files[Target(h)]]
           /\ tool' = [tool EXCEPT ![h] = TmpFile(h)]
           /\ UNCHANGED <<setting, at, tries, result>>
  <2>1. /\ files' \in [Files -> Content] /\ files'[TmpFile(h)] = files[Target(h)]
        /\ \A f \in Files : f # TmpFile(h) => files'[f] = files[f]
    BY <1>1, <1>2, <1>5, FileNames, TargetRight
  <2> QED BY <1>4, <1>5, <2>1
<1>6. CASE tool' = [tool EXCEPT ![h] = Target(h)] /\ UNCHANGED <<setting, files, at, tries, result>>
  BY <1>1, <1>2, <1>4, <1>6, TargetRight
<1> QED BY <1>3, <1>5, <1>6 DEF StartTool

\* So does a tool that ends well: the model it leaves has the pass.
LEMMA ToolSucceedsWorks ==
    ASSUME InstrumentInvariant, NEW h \in Harnesses, ToolSucceeds(h)
    PROVE  Works(h)
<1> DEFINE s == NextStep(h, at[h])
           new == Applied(Input(h), Pass(h))
           gone == (IF InPlace(h) THEN {} ELSE {tool[h]})
                     \cup (IF Windows /\ at[h] = "enforce" THEN {BackupFile} ELSE {})
<1>1. /\ Active(h) /\ tool[h] # NoTool /\ Accepts(h, Pass(h), Input(h)) /\ Advance(h)
      /\ files' = Without([files EXCEPT ![Target(h)] = new], gone)
  BY DEF ToolSucceeds, Tooling
<1>2. /\ StepRight(h) /\ at[h] \in Passes /\ files \in [Files -> Content]
      /\ Fit(setting, h, at[h], files[GotoFile(h)])
      /\ at[h] \in Steps \ {"end"}
  BY <1>1, ActiveFiles
<1>3. Input(h) = files[Target(h)] /\ Input(h) # Torn /\ Fit(setting, h, at[h], Input(h))
  BY <1>1, <1>2, TargetRight DEF Input, Accepts
<1>4. Fit(setting, h, s, new)
  BY <1>2, <1>3, FitApplied
<1>5. tool[h] \in {Target(h), TmpFile(h)} /\ (InPlace(h) <=> tool[h] = Target(h))
  BY <1>1 DEF InstrumentInvariant, HarnessRight, ToolRight, InPlace
<1>6. tool[h] # TmpFile(h) => files[TmpFile(h)] = Absent
  BY <1>1, ActiveFiles
<1>7. gone \subseteq {TmpFile(h), BackupFile} /\ (BackupFile \in gone <=> Windows /\ at[h] = "enforce")
         /\ (tool[h] = TmpFile(h) => TmpFile(h) \in gone)
  BY <1>1, <1>5, FileNames, TargetRight
<1> HIDE DEF s, new, gone
<1>8. new \in Content
  BY <1>4, FitContent
<1>9. /\ files' \in [Files -> Content]
      /\ \A f \in Files : files'[f] = IF f \in gone THEN Absent
                                      ELSE IF f = Target(h) THEN new ELSE files[f]
  <2> DEFINE fs == [files EXCEPT ![Target(h)] = new]
  <2>1. fs \in [Files -> Content] /\ \A f \in Files : fs[f] = IF f = Target(h) THEN new ELSE files[f]
    BY <1>2, <1>8
  <2>2. files' = Without(fs, gone)
    BY <1>1
  <2> HIDE DEF fs
  <2> QED BY <2>1, <2>2, WithoutRight
<1>10. files'[Target(h)] = new /\ files'[TmpFile(h)] = Absent
  BY <1>1, <1>6, <1>7, <1>9, TargetRight, FileNames
<1>11. CASE Target(h) = ShortFile /\ Windows /\ at[h] \in {"dfcc", "enforce"} /\ InSection(h)
  <2>1. s \in {"backup", "copy-out"}
    BY <1>2, <1>11, Transitions DEF s
  <2>2. Sharing(h)
    BY <1>1, <1>11, ActiveFiles DEF ContractSteps
  <2>3. FilesFrame(h)
    BY <1>7, <1>9, <1>11, <2>2 DEF FilesFrame, Reach
  <2>4. files'[GotoFile(h)] = files[GotoFile(h)]
    BY <1>7, <1>9, <1>11, FileNames
  <2>5. Fit(setting, h, s, files'[GotoFile(h)])
    BY <1>2, <1>11, <2>4, FitKept DEF s, ContractSteps
  <2>6. files'[BackupFile] = Absent \/ (at[h] # "enforce" /\ files'[BackupFile] = files[BackupFile])
    BY <1>7, <1>9, <1>11, FileNames
  <2> QED BY <1>1, <1>4, <1>10, <1>11, <2>1, <2>3, <2>5, <2>6, AdvanceWorks
          DEF s, ContractSteps
<1>12. CASE /\ Target(h) = GotoFile(h) /\ ~(Windows /\ at[h] \in {"dfcc", "enforce"})
            /\ ~InSection(h)
  <2>1. ~(Windows /\ s \in ContractSteps \ {"copy-in"})
    BY <1>2, <1>12, Transitions DEF s, ContractSteps, Passes, CopySteps, Steps
  <2>2. FilesFrame(h)
    BY <1>7, <1>9, <1>12 DEF FilesFrame, Reach
  <2>3. files'[ShortFile] = files[ShortFile] /\ files'[BackupFile] = files[BackupFile]
    BY <1>7, <1>9, <1>12, FileNames
  <2>4. ~(Windows /\ s = "enforce")
    BY <2>1 DEF ContractSteps
  <2>5. Fit(setting, h, s, files'[GotoFile(h)])
    BY <1>4, <1>10, <1>12
  <2>6. s = NextStep(h, at[h])
    BY DEF s
  <2> QED BY <1>1, <1>10, <1>12, <2>1, <2>2, <2>3, <2>4, <2>5, <2>6, AdvanceWorks
<1> QED BY <1>1, <1>2, <1>11, <1>12, TargetRight

\* What a failing tool leaves: the files of others are untouched, a private copy is
\* gone, and the model is as it was or torn.
LEMMA WreckRight ==
    ASSUME InstrumentInvariant, NEW h \in Harnesses, Tooling(h), NEW w \in Wreckage(h)
    PROVE  /\ w \in [Files -> Content]
           /\ \A f \in Files : f \notin {Target(h), TmpFile(h)} => w[f] = files[f]
           /\ Fit(setting, h, at[h], w[Target(h)]) /\ w[TmpFile(h)] = Absent
<1>1. /\ Active(h) /\ tool[h] # NoTool /\ at[h] \in Passes /\ at[h] # "end"
      /\ files \in [Files -> Content]
      /\ tool[h] # TmpFile(h) => files[TmpFile(h)] = Absent
  BY ActiveFiles DEF Tooling
<1>2. tool[h] \in {Target(h), TmpFile(h)} /\ (InPlace(h) <=> tool[h] = Target(h))
  BY <1>1 DEF InstrumentInvariant, HarnessRight, ToolRight, InPlace
<1>3. /\ Fit(setting, h, at[h], files[Target(h)]) /\ files[tool[h]] = files[Target(h)]
      /\ Target(h) \in Files /\ Target(h) # TmpFile(h) /\ TmpFile(h) \in Files
  BY <1>1, TargetRight, FileNames
<1>4. files[Target(h)] # Absent
  BY <1>3, FitContent
<1>5. CASE InPlace(h)
  <2>1. w = files \/ w = [files EXCEPT ![Target(h)] = Torn]
    BY <1>2, <1>3, <1>4, <1>5 DEF Wreckage
  <2>2. CASE w = files
    BY <2>2, <1>1, <1>2, <1>3, <1>5
  <2>3. CASE w = [files EXCEPT ![Target(h)] = Torn]
    <3>1. Torn \in Content /\ Fit(setting, h, at[h], Torn)
      BY <1>1 DEF Content, Fit
    <3>2. /\ w \in [Files -> Content] /\ w[Target(h)] = Torn
          /\ \A f \in Files : f # Target(h) => w[f] = files[f]
      BY <2>3, <1>1, <1>3, <3>1
    <3> QED BY <3>1, <3>2, <1>1, <1>2, <1>3, <1>5
  <2> QED BY <2>1, <2>2, <2>3
<1>6. CASE ~InPlace(h)
  <2>1. w = Without(files, {TmpFile(h)})
    BY <1>2, <1>6 DEF Wreckage
  <2> QED BY <2>1, <1>1, <1>3, WithoutRight
<1> QED BY <1>5, <1>6

\* What is removed after a failure are files of the harness, or of the section it
\* is in.
LEMMA CleanupReach ==
    ASSUME InstrumentInvariant, NEW h \in Harnesses, Active(h)
    PROVE  Cleanup(h) \subseteq Reach(h)
<1>1. CASE Windows /\ at[h] \in {"dfcc", "enforce"}
  BY <1>1, ActiveFiles DEF Cleanup, Reach, ContractSteps
<1>2. CASE ~(Windows /\ at[h] \in {"dfcc", "enforce"})
  BY <1>2 DEF Cleanup
<1> QED BY <1>1, <1>2

\* A tool that fails for good works on the harness only, whatever it leaves behind.
LEMMA GiveUpWorks ==
    ASSUME InstrumentInvariant, NEW h \in Harnesses, GiveUp(h)
    PROVE  Works(h)
<1>1. Tooling(h) /\ Active(h) /\ Fail(h)
  BY DEF GiveUp, Tooling
<1>2. PICK w \in Wreckage(h) : files' = Without(w, Cleanup(h))
  BY DEF GiveUp
<1>3. /\ w \in [Files -> Content]
      /\ \A f \in Files : f \notin {Target(h), TmpFile(h)} => w[f] = files[f]
  BY <1>1, WreckRight
<1>4. FilesFrame(h)
  BY <1>1, <1>2, <1>3, WithoutRight, CleanupReach, TargetRight DEF FilesFrame, Reach
<1> QED BY <1>1, <1>4, FailWorks

\* So does a result that cannot be copied back.
LEMMA CopyBackFailsWorks ==
    ASSUME InstrumentInvariant, NEW h \in Harnesses, CopyBackFails(h)
    PROVE  Works(h)
<1> DEFINE gone == Cleanup(h) \cup IF at[h] = "specialize" THEN {Target(h)} ELSE {}
<1>1. Active(h) /\ Fail(h) /\ files' = Without(files, gone) /\ files \in [Files -> Content]
  BY ActiveFiles DEF CopyBackFails, Tooling
<1>2. gone \subseteq Reach(h)
  BY <1>1, CleanupReach, TargetRight
<1> HIDE DEF gone
<1>3. FilesFrame(h)
  BY <1>1, <1>2, WithoutRight DEF FilesFrame
<1> QED BY <1>1, <1>3, FailWorks

\* So does dfcc instrumentation that is skipped after a failure.
LEMMA SkipWorks ==
    ASSUME InstrumentInvariant, NEW h \in Harnesses, Skip(h)
    PROVE  Works(h)
<1> DEFINE s == NextStep(h, at[h])
<1>1. /\ Tooling(h) /\ Active(h) /\ Windows /\ at[h] = "dfcc" /\ files' \in Wreckage(h)
      /\ Advance(h)
  BY DEF Skip, Tooling
<1>2. /\ StepRight(h) /\ Sharing(h) /\ Fit(setting, h, at[h], files[GotoFile(h)])
      /\ at[h] \in Steps \ {"end"}
  BY <1>1, ActiveFiles DEF ContractSteps
<1>3. s = NextStep(h, at[h]) /\ s \in {"backup", "copy-out"}
  BY <1>1, <1>2, Transitions
<1>4. Target(h) = ShortFile
  BY <1>1 DEF Target
<1>5. /\ files' \in [Files -> Content]
      /\ \A f \in Files : f \notin {ShortFile, TmpFile(h)} => files'[f] = files[f]
      /\ Fit(setting, h, at[h], files'[ShortFile]) /\ files'[TmpFile(h)] = Absent
  BY <1>1, <1>4, WreckRight
<1> HIDE DEF s
<1>6. FilesFrame(h)
  BY <1>2, <1>5 DEF FilesFrame, Reach
<1>7. files'[GotoFile(h)] = files[GotoFile(h)] /\ files'[BackupFile] = files[BackupFile]
  BY <1>5, FileNames
<1>8. Fit(setting, h, s, files'[GotoFile(h)]) /\ Fit(setting, h, s, files'[ShortFile])
  BY <1>1, <1>2, <1>3, <1>5, <1>7, FitKept DEF ContractSteps
<1> QED BY <1>1, <1>3, <1>5, <1>6, <1>7, <1>8, AdvanceWorks DEF ContractSteps

\* Trying the same step again.
LEMMA RetryWorks ==
    ASSUME InstrumentInvariant, NEW h \in Harnesses, Active(h), Windows,
           at[h] \in {"enforce", "bodies"}, NEW n, tries' = [tries EXCEPT ![h] = n],
           tool' = [tool EXCEPT ![h] = NoTool], UNCHANGED <<setting, at, result>>,
           FilesFrame(h), Fit(setting, h, at[h], files'[GotoFile(h)]),
           files'[TmpFile(h)] = Absent,
           IF at[h] = "enforce"
           THEN /\ Fit(setting, h, at[h], files'[ShortFile])
                /\ Fit(setting, h, at[h], files'[BackupFile])
           ELSE files'[ShortFile] = files[ShortFile] /\ files'[BackupFile] = files[BackupFile]
    PROVE  Works(h)
<1> USE DEF InstrumentInvariant
<1>1. /\ tool'[h] = NoTool /\ at'[h] = at[h] /\ result'[h] = result[h] /\ result[h] = "running"
      /\ \A k \in Harnesses : k # h => tool'[k] = tool[k] /\ tries'[k] = tries[k]
      /\ DOMAIN tool' = Harnesses /\ DOMAIN tries' = Harnesses
  BY DEF Shape, Active
<1>2. Frame(h)
  BY <1>1 DEF Frame, FilesFrame, Shape
<1>3. StepRight(h)
  BY DEF HarnessRight
<1>4. StepRight(h)'
  BY <1>1, <1>3 DEF StepRight, Windows, Contract, Loops
<1>5. ToolRight(h)'
  BY <1>1, FileNames DEF ToolRight, TmpFile
<1>6. (InSection(h)' <=> InSection(h)) /\ (InSection(h) <=> at[h] = "enforce")
  BY <1>1 DEF InSection, Windows, ContractSteps
<1>7. FilesRight(h)'
  BY <1>1, <1>6, FileNames DEF FilesRight, GotoFile, TmpFile, ShortFile, BackupFile
<1>8. Owned(h)
  BY <1>1, <1>6 DEF Owned
<1> QED BY <1>2, <1>4, <1>5, <1>7, <1>8 DEF Works, HarnessRight

\* So does the retry that only drops unused functions.
LEMMA RetryDropWorks ==
    ASSUME InstrumentInvariant, NEW h \in Harnesses, RetryDrop(h)
    PROVE  Works(h)
<1>1. /\ Tooling(h) /\ Active(h) /\ Windows /\ at[h] = "bodies" /\ files' \in Wreckage(h)
      /\ tries' = [tries EXCEPT ![h] = 1] /\ tool' = [tool EXCEPT ![h] = NoTool]
      /\ UNCHANGED <<setting, at, result>>
  BY DEF RetryDrop, Tooling
<1>2. Target(h) = GotoFile(h)
  BY <1>1 DEF Target
<1>3. /\ files' \in [Files -> Content]
      /\ \A f \in Files : f \notin {GotoFile(h), TmpFile(h)} => files'[f] = files[f]
      /\ Fit(setting, h, at[h], files'[GotoFile(h)]) /\ files'[TmpFile(h)] = Absent
  BY <1>1, <1>2, WreckRight
<1>4. FilesFrame(h)
  BY <1>3 DEF FilesFrame, Reach
<1>5. files'[ShortFile] = files[ShortFile] /\ files'[BackupFile] = files[BackupFile]
  BY <1>3, FileNames
<1> QED BY <1>1, <1>3, <1>4, <1>5, RetryWorks

\* So does the fallback of --enforce-contract, the model restored from its backup.
LEMMA RetryEnforceWorks ==
    ASSUME InstrumentInvariant, NEW h \in Harnesses, RetryEnforce(h)
    PROVE  Works(h)
<1> DEFINE s == NextStep(h, at[h])
<1>1. Tooling(h) /\ Active(h) /\ Windows /\ at[h] = "enforce"
  BY DEF RetryEnforce, Tooling
<1>2. /\ StepRight(h) /\ Sharing(h) /\ Fit(setting, h, at[h], files[GotoFile(h)])
      /\ Fit(setting, h, at[h], files[BackupFile]) /\ at[h] \in Steps \ {"end"}
  BY <1>1, ActiveFiles DEF ContractSteps
<1>3. s = NextStep(h, at[h]) /\ s = "copy-out"
  BY <1>1, <1>2, Transitions
<1>4. Target(h) = ShortFile
  BY <1>1 DEF Target
<1> DEFINE Restored(w) == [w EXCEPT ![ShortFile] = w[BackupFile]]
<1>5. PICK w \in Wreckage(h) :
         \/ /\ files' = Restored(w) /\ tries' = [tries EXCEPT ![h] = @ + 1]
            /\ tool' = [tool EXCEPT ![h] = NoTool] /\ UNCHANGED <<setting, at, result>>
         \/ files' = Without(Restored(w), {BackupFile}) /\ Advance(h)
         \/ files' = Without(w, {BackupFile, ShortFile}) /\ Fail(h)
  BY DEF RetryEnforce
<1>6. /\ w \in [Files -> Content] /\ w[TmpFile(h)] = Absent
      /\ \A f \in Files : f \notin {ShortFile, TmpFile(h)} => w[f] = files[f]
  BY <1>1, <1>4, WreckRight
<1>7. w[GotoFile(h)] = files[GotoFile(h)] /\ w[BackupFile] = files[BackupFile]
  BY <1>6, FileNames
<1> DEFINE r == Restored(w)
<1>8. /\ r \in [Files -> Content] /\ r[ShortFile] = files[BackupFile]
      /\ \A f \in Files : f # ShortFile => r[f] = w[f]
  BY <1>6, <1>7, FileNames
<1> HIDE DEF s
<1>9. Fit(setting, h, s, files[GotoFile(h)]) /\ Fit(setting, h, s, files[BackupFile])
  BY <1>1, <1>2, <1>3, FitKept DEF ContractSteps
<1>10. CASE /\ files' = r /\ tries' = [tries EXCEPT ![h] = @ + 1]
            /\ tool' = [tool EXCEPT ![h] = NoTool] /\ UNCHANGED <<setting, at, result>>
  <2>1. /\ files'[GotoFile(h)] = files[GotoFile(h)] /\ files'[ShortFile] = files[BackupFile]
        /\ files'[BackupFile] = files[BackupFile] /\ files'[TmpFile(h)] = Absent
        /\ files' \in [Files -> Content]
        /\ \A f \in Files : f \notin {ShortFile, TmpFile(h)} => files'[f] = files[f]
    BY <1>6, <1>7, <1>8, <1>10, FileNames
  <2>2. FilesFrame(h)
    BY <1>2, <2>1 DEF FilesFrame, Reach
  <2>3. tries' = [tries EXCEPT ![h] = tries[h] + 1]
    BY <1>10
  <2> QED BY <1>1, <1>2, <1>10, <2>1, <2>2, <2>3, RetryWorks
<1>11. CASE files' = Without(r, {BackupFile}) /\ Advance(h)
  <2>1. files' \in [Files -> Content]
          /\ \A f \in Files : files'[f] = IF f = BackupFile THEN Absent ELSE r[f]
    BY <1>8, <1>11, WithoutRight
  <2>2. /\ files'[GotoFile(h)] = files[GotoFile(h)] /\ files'[ShortFile] = files[BackupFile]
        /\ files'[BackupFile] = Absent /\ files'[TmpFile(h)] = Absent
        /\ \A f \in Files : f \notin {ShortFile, BackupFile, TmpFile(h)} => files'[f] = files[f]
    BY <1>6, <1>7, <1>8, <2>1, FileNames
  <2>3. FilesFrame(h)
    BY <1>2, <2>1, <2>2 DEF FilesFrame, Reach
  <2> QED BY <1>1, <1>3, <1>9, <1>11, <2>2, <2>3, AdvanceWorks DEF ContractSteps
<1>12. CASE files' = Without(w, {BackupFile, ShortFile}) /\ Fail(h)
  <2>1. FilesFrame(h)
    BY <1>2, <1>6, <1>12, WithoutRight DEF FilesFrame, Reach
  <2> QED BY <1>1, <1>12, <2>1, FailWorks
<1> QED BY <1>5, <1>10, <1>11, <1>12

-----------------------------------------------------------------------------
(* The workers *)

\* So does returning to the worker.
LEMMA ReturnWorks ==
    ASSUME InstrumentInvariant, NEW h \in Harnesses, Return(h)
    PROVE  Works(h)
<1> USE DEF InstrumentInvariant
<1>1. /\ result[h] = "running" /\ at[h] = "end" /\ result' = [result EXCEPT ![h] = "ok"]
      /\ UNCHANGED <<setting, files, at, tool, tries>>
  BY DEF Return
<1>2. /\ result'[h] = "ok" /\ DOMAIN result' = Harnesses
      /\ \A k \in Harnesses : k # h => result'[k] = result[k]
  BY <1>1 DEF Shape
<1>3. StepRight(h) /\ ToolRight(h) /\ FilesRight(h)
  BY DEF HarnessRight
<1>4. tool[h] = NoTool
  BY <1>1, <1>3 DEF ToolRight, Passes
<1>5. StepRight(h)' /\ ToolRight(h)'
  BY <1>1, <1>2, <1>3, <1>4, FileNames DEF StepRight, ToolRight, TmpFile, Windows, Contract, Loops
<1>6. ~InSection(h) /\ ~InSection(h)'
  BY <1>1, <1>2 DEF InSection, ContractSteps
<1>7. FilesRight(h)'
  BY <1>1, <1>2, <1>3, <1>6 DEF FilesRight, GotoFile, TmpFile, ShortFile, BackupFile
<1>8. Frame(h) /\ Owned(h)
  BY <1>1, <1>2, <1>6 DEF Frame, Owned, Shape
<1> QED BY <1>5, <1>7, <1>8 DEF Works, HarnessRight

\* So does taking the harness.
LEMMA BeginWorks ==
    ASSUME InstrumentInvariant, NEW h \in Harnesses, Begin(h)
    PROVE  Works(h)
<1> USE DEF InstrumentInvariant
<1>1. /\ result[h] = "none" /\ result' = [result EXCEPT ![h] = "running"]
      /\ UNCHANGED <<setting, files, at, tool, tries>>
  BY DEF Begin
<1>2. /\ result'[h] = "running" /\ DOMAIN result' = Harnesses
      /\ \A k \in Harnesses : k # h => result'[k] = result[k]
  BY <1>1 DEF Shape
<1>3. StepRight(h) /\ ToolRight(h) /\ FilesRight(h)
  BY DEF HarnessRight
<1>4. tool[h] = NoTool /\ at[h] = "specialize"
  BY <1>1, <1>3 DEF StepRight
<1>5. StepRight(h)' /\ ToolRight(h)'
  BY <1>1, <1>2, <1>3, <1>4, FileNames DEF StepRight, ToolRight, TmpFile, Windows, Contract, Loops
<1>6. ~InSection(h) /\ ~InSection(h)'
  BY <1>1, <1>2, <1>4 DEF InSection, ContractSteps
<1>7. FilesRight(h)'
  BY <1>1, <1>2, <1>3, <1>6 DEF FilesRight, GotoFile, TmpFile, ShortFile, BackupFile
<1>8. Frame(h) /\ Owned(h)
  BY <1>1, <1>2, <1>6 DEF Frame, Owned, Shape
<1> QED BY <1>5, <1>7, <1>8 DEF Works, HarnessRight

\* With one job, a worker takes a harness only when none is being instrumented.
LEMMA BeginAlone ==
    ASSUME InstrumentInvariant, NEW h \in Harnesses, Begin(h)
    PROVE  OneAtATime'
<1> DEFINE R == {k \in Harnesses : result[k] = "running"}
<1>1. IsFiniteSet(R)
  BY FS_Subset, HarnessesAssumption
<1>2. CASE Windows /\ Jobs = 1
  <2>1. Cardinality(R) < 1 /\ Cardinality(R) \in Nat
    BY <1>1, <1>2, FS_CardinalityType DEF Begin
  <2>2. R = {}
    BY <1>1, <2>1, FS_EmptySet
  <2>3. \A k \in Harnesses : result'[k] = "running" => k = h
    BY <2>2 DEF Begin, InstrumentInvariant, Shape
  <2> QED BY <2>3 DEF OneAtATime
<1>3. CASE ~(Windows /\ Jobs = 1)
  BY <1>3 DEF Begin, OneAtATime, Windows, Jobs
<1> QED BY <1>2, <1>3

\* No other step starts a harness.
LEMMA OthersAlone ==
    ASSUME InstrumentInvariant, NEW h \in Harnesses, setting' = setting,
           \/ result' = result \/ result' = [result EXCEPT ![h] = "err"]
           \/ result' = [result EXCEPT ![h] = "ok"]
    PROVE  OneAtATime'
<1>1. \A k \in Harnesses : result'[k] = "running" => result[k] = "running"
  BY DEF InstrumentInvariant, Shape
<1> QED BY <1>1 DEF InstrumentInvariant, OneAtATime, Windows, Jobs

\* Every step keeps the invariant.
LEMMA InstrumentStep ==
    ASSUME Exclusive(setting), InstrumentInvariant, [Next]_vars
    PROVE  InstrumentInvariant'
<1>1. ASSUME NEW h \in Harnesses, Begin(h) PROVE InstrumentInvariant'
  BY <1>1, BeginWorks, BeginAlone, WorkKeeps
<1>2. ASSUME NEW h \in Harnesses, FileStep(h) PROVE InstrumentInvariant'
  <2>1. CASE CopyIn(h) \/ Backup(h) \/ CopyOut(h) \/ RemoveShort(h)
    <3>1. OneAtATime'
      BY <2>1, OthersAlone
         DEF CopyIn, Backup, CopyOut, RemoveShort, CopyStep, Advance, Fail
    <3> QED BY <2>1, <3>1, CopyInWorks, BackupWorks, CopyOutWorks, RemoveShortWorks, WorkKeeps
  <2>2. CASE StartTool(h)
    <3>1. OneAtATime'
      BY <2>2, OthersAlone DEF StartTool, Fail
    <3> QED BY <2>2, <3>1, StartToolWorks, WorkKeeps
  <2>3. CASE Return(h)
    <3>1. OneAtATime'
      BY <2>3, OthersAlone DEF Return
    <3> QED BY <2>3, <3>1, ReturnWorks, WorkKeeps
  <2> QED BY <1>2, <2>1, <2>2, <2>3 DEF FileStep
<1>3. ASSUME NEW h \in Harnesses, ToolSucceeds(h) PROVE InstrumentInvariant'
  <2>1. OneAtATime'
    BY <1>3, OthersAlone DEF ToolSucceeds, Advance
  <2> QED BY <1>3, <2>1, ToolSucceedsWorks, WorkKeeps
<1>4. ASSUME NEW h \in Harnesses, CopyBackFails(h) PROVE InstrumentInvariant'
  <2>1. OneAtATime'
    BY <1>4, OthersAlone DEF CopyBackFails, Fail
  <2> QED BY <1>4, <2>1, CopyBackFailsWorks, WorkKeeps
<1>5. ASSUME NEW h \in Harnesses, GiveUp(h) PROVE InstrumentInvariant'
  <2>1. OneAtATime'
    BY <1>5, OthersAlone DEF GiveUp, Fail
  <2> QED BY <1>5, <2>1, GiveUpWorks, WorkKeeps
<1>6. ASSUME NEW h \in Harnesses, RetryEnforce(h) PROVE InstrumentInvariant'
  <2>1. OneAtATime'
    BY <1>6, OthersAlone DEF RetryEnforce, Advance, Fail
  <2> QED BY <1>6, <2>1, RetryEnforceWorks, WorkKeeps
<1>7. ASSUME NEW h \in Harnesses, Skip(h) PROVE InstrumentInvariant'
  <2>1. OneAtATime'
    BY <1>7, OthersAlone DEF Skip, Advance
  <2> QED BY <1>7, <2>1, SkipWorks, WorkKeeps
<1>8. ASSUME NEW h \in Harnesses, RetryDrop(h) PROVE InstrumentInvariant'
  <2>1. OneAtATime'
    BY <1>8, OthersAlone DEF RetryDrop
  <2> QED BY <1>8, <2>1, RetryDropWorks, WorkKeeps
<1>9. CASE UNCHANGED vars
  BY <1>9 DEF vars, InstrumentInvariant, Shape, OneAtATime, Unowned, HarnessRight, StepRight,
     ToolRight, FilesRight, InSection, Windows, Jobs, Contract, Loops, Target, TmpFile,
     GotoFile, ShortFile, BackupFile
<1> QED
  BY <1>1, <1>2, <1>3, <1>4, <1>5, <1>6, <1>7, <1>8, <1>9
     DEF Next, ToolEnds, ToolFails, ToolTimesOut, Terminated

\* The invariant holds before any harness is taken.
LEMMA InstrumentInit == Init => InstrumentInvariant
<1> SUFFICES ASSUME Init PROVE InstrumentInvariant
  OBVIOUS
<1> DEFINE Fresh(f) == IF f[1] = "goto" THEN [of |-> f[2], done |-> {}] ELSE Absent
<1>1. files = [f \in Files |-> Fresh(f)]
  BY DEF Init
<1>2. \A h \in Harnesses : [of |-> h, done |-> {}] \in Model
  BY DEF Model
<1>3. ASSUME NEW f \in Files PROVE Fresh(f) \in Content
  <2>1. CASE f \in {GotoFile(h) : h \in Harnesses}
    BY <2>1, <1>2 DEF GotoFile, Content
  <2>2. CASE f \in Temporaries
    BY <2>2 DEF Temporaries, ShortFile, BackupFile, Content
  <2> QED BY <2>1, <2>2 DEF Files
<1>4. /\ files \in [Files -> Content]
      /\ \A h \in Harnesses : files[GotoFile(h)] = [of |-> h, done |-> {}]
      /\ \A h \in Harnesses : files[TmpFile(h)] = Absent
      /\ files[ShortFile] = Absent /\ files[BackupFile] = Absent
      /\ files[<<"tmp", Process>>] = Absent
  <2> HIDE DEF Fresh
  <2>1. files \in [Files -> Content] /\ \A f \in Files : files[f] = Fresh(f)
    BY <1>1, <1>3
  <2>2. {ShortFile, BackupFile, <<"tmp", Process>>} \subseteq Files
    BY DEF Files, Temporaries
  <2>3. \A h \in Harnesses : {GotoFile(h), TmpFile(h)} \subseteq Files
    BY FileNames
  <2>4. \A h \in Harnesses : files[GotoFile(h)] = Fresh(GotoFile(h)) /\ files[TmpFile(h)] = Fresh(TmpFile(h))
    BY <2>1, <2>3
  <2>5. \A h \in Harnesses : Fresh(GotoFile(h)) = [of |-> h, done |-> {}] /\ Fresh(TmpFile(h)) = Absent
    BY DEF Fresh, GotoFile, TmpFile
  <2>6. Fresh(ShortFile) = Absent /\ Fresh(BackupFile) = Absent /\ Fresh(<<"tmp", Process>>) = Absent
    BY DEF Fresh, ShortFile, BackupFile
  <2> QED BY <2>1, <2>2, <2>4, <2>5, <2>6
<1>5. ASSUME NEW h \in Harnesses PROVE HarnessRight(h)
  <2>1. at[h] = "specialize" /\ tool[h] = NoTool /\ tries[h] = 0 /\ result[h] = "none"
    BY DEF Init
  <2>2. StepRight(h) /\ ToolRight(h)
    BY <2>1, FileNames DEF StepRight, ToolRight, Steps, Passes, CopySteps, ContractSteps
  <2>3. Fit(setting, h, "specialize", [of |-> h, done |-> {}])
    BY <1>2 DEF Fit, DoneAt, AfterContracts
  <2>4. FilesRight(h)
    BY <1>4, <2>1, <2>3 DEF FilesRight, InSection
  <2> QED BY <2>2, <2>4 DEF HarnessRight
<1>6. Shape /\ OneAtATime /\ Unowned
  BY <1>4 DEF Shape, OneAtATime, Unowned, Init
<1> QED BY <1>5, <1>6 DEF InstrumentInvariant

\* A harness that returns Ok has the fully instrumented model of that harness.
LEMMA InvariantSuffices == InstrumentInvariant => SuccessMeansModel
<1> SUFFICES ASSUME InstrumentInvariant PROVE SuccessMeansModel
  OBVIOUS
<1>1. ASSUME NEW h \in Harnesses, Succeeded(h)
      PROVE  /\ at[h] = "end" /\ tool[h] = NoTool /\ ~InSection(h)
             /\ Fit(setting, h, "end", files[GotoFile(h)])
             /\ files[TmpFile(h)] = Absent
  BY <1>1, FileNames DEF Succeeded, InstrumentInvariant, HarnessRight, StepRight, FilesRight, InSection
<1>2. ASSUME NEW h \in Harnesses, Succeeded(h)
      PROVE  LET c == files[GotoFile(h)]
             IN  c \in Model /\ c.of = h /\ DoneAt(setting, h, "end", c.done)
  BY <1>1, <1>2 DEF Fit
<1>3. ModelOfHarness
  BY <1>2 DEF ModelOfHarness
<1>4. PassesApplied
  BY <1>2 DEF PassesApplied, DoneAt, AfterContracts, Windows, Contract
<1>5. NoLeftovers
  <2> SUFFICES ASSUME \A h \in Harnesses : Succeeded(h), NEW f \in Temporaries
               PROVE  files[f] = Absent
    BY DEF NoLeftovers
  <2>1. files[ShortFile] = Absent /\ files[BackupFile] = Absent
    BY <1>1 DEF InstrumentInvariant, Unowned, Succeeded
  <2>2. ASSUME NEW h \in Harnesses PROVE files[<<"tmp", h>>] = Absent
    BY <1>1 DEF TmpFile
  <2>3. files[<<"tmp", Process>>] = Absent
    BY <2>2 DEF InstrumentInvariant, Unowned
  <2> QED BY <2>1, <2>2, <2>3 DEF Temporaries
<1> QED BY <1>3, <1>4, <1>5 DEF SuccessMeansModel

\* instrument_model keeps its promise to CBMC for any number of harnesses, workers
\* and retries and whatever tool fails, hangs or tears a file: where it returns
\* success, the goto file is a whole model of that harness with every pass that was
\* asked for, and no temporary file is left when all succeed.  On Windows this holds
\* as long as two harnesses with contracts are not instrumented at the same time.
THEOREM InstrumentSound == Spec => [](Exclusive(setting) => SuccessMeansModel)
<1> DEFINE I == Exclusive(setting) => InstrumentInvariant
<1>1. Init => I
  BY InstrumentInit
<1>2. I /\ [Next]_vars => I'
  <2> SUFFICES ASSUME I, [Next]_vars, Exclusive(setting)' PROVE InstrumentInvariant'
    OBVIOUS
  <2>1. setting' = setting
    BY DEF Next, vars, Begin, FileStep, CopyIn, Backup, CopyOut, RemoveShort, CopyStep, StartTool,
       Return, ToolEnds, ToolSucceeds, CopyBackFails, ToolFails, GiveUp, RetryEnforce,
       ToolTimesOut, Skip, RetryDrop, Advance, Fail, Terminated
  <2>2. Exclusive(setting)
    BY <2>1 DEF Exclusive
  <2> QED BY <2>2, InstrumentStep
<1>3. I => (Exclusive(setting) => SuccessMeansModel)
  BY InvariantSuffices
<1> QED BY <1>1, <1>2, <1>3, PTL DEF Spec

\* On Unix, where a tool rewrites the goto file of its harness and no other file, any
\* number of workers can instrument any harnesses at the same time.
COROLLARY InstrumentSoundOnUnix ==
    ASSUME \A s \in Settings : ~s.windows
    PROVE  Spec => []SuccessMeansModel
<1>1. Init => setting \in Settings
  BY DEF Init
<1>2. setting \in Settings /\ [Next]_vars => (setting \in Settings)'
  BY DEF Next, vars, Begin, FileStep, CopyIn, Backup, CopyOut, RemoveShort, CopyStep, StartTool,
       Return, ToolEnds, ToolSucceeds, CopyBackFails, ToolFails, GiveUp, RetryEnforce,
       ToolTimesOut, Skip, RetryDrop, Advance, Fail, Terminated
<1>3. setting \in Settings => Exclusive(setting)
  BY DEF Exclusive
<1> QED BY <1>1, <1>2, <1>3, InstrumentSound, PTL DEF Spec
=============================================================================
