------------------------ MODULE FileWritingPoolProofs ------------------------
(***************************************************************************)
(* Proofs about FileWritingPool, for every number of harnesses, of cpus    *)
(* and of artifacts, and for every assignment of names to harnesses.       *)
(***************************************************************************)
EXTENDS FileWritingPool, TLAPS

\* Threads are numbered from Main, so that worker joined + 1 is a thread.
LEMMA PoolSizeNat == PoolSize \in Nat
BY NAssumption, ParallelismAssumption, ExportThreadsAssumption DEF PoolSize, Lesser

\* get_or_intern: the name gets a symbol, and every symbol that was there
\* keeps its meaning.
LEMMA InternExtends ==
    ASSUME NEW in \in Seq(Strings), NEW s \in Strings
    PROVE  /\ Intern(in, s) \in Seq(Strings)
           /\ Len(in) <= Len(Intern(in, s))
           /\ \A i \in DOMAIN in : i \in DOMAIN Intern(in, s) /\ Intern(in, s)[i] = in[i]
           /\ SymbolOf(Intern(in, s), s) \in DOMAIN Intern(in, s)
           /\ Intern(in, s)[SymbolOf(Intern(in, s), s)] = s
<1>1. CASE s \in Elems(in)
  <2>1. \E i \in DOMAIN in : in[i] = s
    BY <1>1 DEF Elems
  <2>2. Intern(in, s) = in
    BY <1>1 DEF Intern
  <2>3. SymbolOf(in, s) \in DOMAIN in /\ in[SymbolOf(in, s)] = s
    BY <2>1 DEF SymbolOf
  <2> QED BY <2>2, <2>3
<1>2. CASE s \notin Elems(in)
  <2> DEFINE out == Append(in, s)
  <2>1. Intern(in, s) = out
    BY <1>2 DEF Intern
  <2>2. /\ out \in Seq(Strings) /\ Len(out) = Len(in) + 1 /\ out[Len(in) + 1] = s
        /\ \A i \in DOMAIN in : i \in DOMAIN out /\ out[i] = in[i]
    OBVIOUS
  <2>3. \E i \in DOMAIN out : out[i] = s
    BY <2>2
  <2>4. SymbolOf(out, s) \in DOMAIN out /\ out[SymbolOf(out, s)] = s
    BY <2>3 DEF SymbolOf
  <2> HIDE DEF out
  <2> QED BY <2>1, <2>2, <2>4
<1> QED BY <1>1, <1>2

\* Symbols that resolve in an interner resolve alike in any that extends it.
LEMMA ResolveExtends ==
    ASSUME NEW in \in Seq(Strings), NEW out \in Seq(Strings),
           \A i \in DOMAIN in : i \in DOMAIN out /\ out[i] = in[i],
           NEW symbols \in SUBSET Nat, symbols \subseteq DOMAIN in
    PROVE  symbols \subseteq DOMAIN out /\ Resolve(out, symbols) = Resolve(in, symbols)
BY DEF Resolve

\* The initial state is well typed.
LEMMA TypeInit == Init => TypeOK
<1> USE PoolSizeNat, NAssumption DEF Threads, Workers, Main, Harnesses
<1> SUFFICES ASSUME Init PROVE TypeOK
  OBVIOUS
<1>1. 1 \in Steps /\ NoFile \in File
  BY ArtifactsAssumption DEF Steps, NoFile, File
<1> HIDE DEF Work, Idle, NoFile, File
<1>2. disk \in [Harnesses -> [Steps -> File]]
  BY <1>1 DEF Init
<1>3. interner \in [Threads -> Seq(Strings)] /\ queue \in Seq(Work)
  BY DEF Init
<1>4. job \in [Threads -> Work \cup {Idle}] /\ step \in [Threads -> Steps]
  BY <1>1 DEF Init
<1>5. /\ tpc \in [Threads -> {"codegen", "recv"}] /\ tpc[Main] = "codegen"
      /\ \A w \in Workers : tpc[w] = "recv"
  BY DEF Init
<1>6. cur \in 1..(N + 1) /\ pos \in Nat \ {0} /\ syms \in SUBSET Nat /\ joined \in 0..PoolSize
  BY DEF Init
<1>7. open \in BOOLEAN /\ metadata \in {"none", "cut", "full"}
  BY DEF Init
<1> HIDE DEF Threads, Workers, Main, Harnesses
<1> QED BY <1>2, <1>3, <1>4, <1>5, <1>6, <1>7 DEF TypeOK

\* Every step of main, of a worker or of a file being written keeps the types.
LEMMA TypeNext == TypeOK /\ [Next]_vars => TypeOK'
<1> USE PoolSizeNat, NAssumption DEF Threads, Workers, Main, Harnesses
<1> SUFFICES ASSUME TypeOK, [Next]_vars PROVE TypeOK'
  OBVIOUS
<1> USE DEF TypeOK
<1>1. CASE CodegenName
  <2> DEFINE s == Names[cur][pos]
             in == Intern(interner[Main], s)
  <2>1. s \in Strings
    BY <1>1, NamesAssumption DEF CodegenName
  <2>2. in \in Seq(Strings) /\ SymbolOf(in, s) \in Nat
    <3>1. interner[Main] \in Seq(Strings)
      OBVIOUS
    <3> HIDE DEF s
    <3>2. in \in Seq(Strings) /\ SymbolOf(in, s) \in DOMAIN in
      BY <2>1, <3>1, InternExtends
    <3> QED BY <3>2
  <2> HIDE DEF in, s
  <2>3. interner' \in [Threads -> Seq(Strings)] /\ syms' \in SUBSET Nat
    BY <1>1, <2>2 DEF CodegenName, in, s
  <2> QED BY <1>1, <2>3 DEF CodegenName
<1>2. CASE SendWork
  <2>1. cur \in Harnesses /\ WithCurrentInterner \in Work
    BY <1>2 DEF SendWork, WithCurrentInterner, Work
  <2> HIDE DEF Work
  <2>2. 1 \in Steps
    BY ArtifactsAssumption DEF Steps
  <2>3. CASE PoolSize = 0
    <3>1. WithCurrentInterner.interner = interner[Main]
      BY DEF WithCurrentInterner
    <3> HIDE DEF WithCurrentInterner
    <3> QED BY <1>2, <2>1, <2>2, <2>3, <3>1 DEF SendWork, IntoInner
  <2>4. CASE PoolSize > 0
    <3> HIDE DEF WithCurrentInterner
    <3>0. queue' = Append(queue, WithCurrentInterner)
      BY <1>2, <2>4 DEF SendWork
    <3>1. queue' \in Seq(Work) /\ UNCHANGED <<tpc, interner, job, step, open, disk, metadata, joined>>
      <4>1. queue' \in Seq(Work)
        BY <2>1, <3>0
      <4> QED BY <1>2, <2>4, <4>1 DEF SendWork
    <3>2. cur' \in 1..(N + 1) /\ pos' \in Nat \ {0} /\ syms' \in SUBSET Nat
      BY <1>2, <2>1 DEF SendWork
    <3> QED BY <3>1, <3>2
  <2> QED BY <1>2, <2>3, <2>4 DEF SendWork
<1>3. CASE WriteMetadata
  BY <1>3 DEF WriteMetadata
<1>4. CASE MetadataFails
  BY <1>4 DEF MetadataFails
<1>5. CASE CloseQueue
  BY <1>5 DEF CloseQueue
<1>6. CASE JoinNext
  <2>1. CASE tpc[joined + 1] = "exited" /\ joined' = joined + 1 /\ UNCHANGED tpc
    BY <1>6, <2>1 DEF JoinNext
  <2>2. CASE tpc' = [tpc EXCEPT ![Main] = "panicked"] /\ UNCHANGED joined
    BY <1>6, <2>2 DEF JoinNext
  <2> QED BY <1>6, <2>1, <2>2 DEF JoinNext
<1>7. CASE Report
  BY <1>7 DEF Report
<1>8. ASSUME NEW w \in Workers, Recv(w) PROVE TypeOK'
  <2>1. Head(queue) \in Work /\ Tail(queue) \in Seq(Work)
    BY <1>8 DEF Recv
  <2>2. Head(queue).interner \in Seq(Strings)
    BY <2>1 DEF Work
  <2>3. 1 \in Steps
    BY ArtifactsAssumption DEF Steps
  <2> HIDE DEF Work
  <2> QED BY <1>8, <2>1, <2>2, <2>3 DEF Recv, IntoInner
<1>9. ASSUME NEW w \in Workers, RecvDisconnected(w) PROVE TypeOK'
  BY <1>9 DEF RecvDisconnected
<1>10. ASSUME NEW t \in Threads, WriteArtifact(t) PROVE TypeOK'
  <2> DEFINE full == Full(Resolve(interner[t], job[t].syms))
             in == Intern(interner[t], IrepName)
  <2>1. in \in Seq(Strings)
    BY IrepNameAssumption, InternExtends
  <2>2. full \in File /\ Cut \in File
    BY <1>10 DEF Full, Cut, File, Resolve, WriteArtifact
  <2> HIDE DEF in, full
  <2>3. interner' \in [Threads -> Seq(Strings)]
    BY <1>10, <2>1 DEF WriteArtifact, in
  <2>4. disk' \in [Harnesses -> [Steps -> File]]
    <3>1. PICK left \in {full, Cut} :
             disk' = [disk EXCEPT ![job[t].harness] = [@ EXCEPT ![step[t]] = left]]
      BY <1>10 DEF WriteArtifact, full
    <3> HIDE DEF File
    <3>2. left \in File
      BY <2>2, <3>1
    <3> QED BY <3>1, <3>2
  <2>5. 1 \in Steps
    BY ArtifactsAssumption DEF Steps
  <2>6. step' \in [Threads -> Steps]
    <3>1. \/ step[t] < Len(Artifacts) /\ step' = [step EXCEPT ![t] = @ + 1]
          \/ step' = [step EXCEPT ![t] = 1]
      BY <1>10 DEF WriteArtifact
    <3>2. step[t] < Len(Artifacts) => step[t] + 1 \in Steps
      BY ArtifactsAssumption DEF Steps
    <3> QED BY <2>5, <3>1, <3>2
  <2> HIDE DEF Work
  <2>7. job' \in [Threads -> Work \cup {Idle}]
    BY <1>10 DEF WriteArtifact
  <2>8. /\ tpc' \in [Threads -> {"codegen", "write", "close", "join", "report",
                                  "recv", "exited", "panicked"}]
        /\ tpc'[Main] \notin {"recv", "exited"}
        /\ \A w \in Workers : tpc'[w] \in {"recv", "write", "exited", "panicked"}
    <3>1. \/ tpc' = tpc
          \/ tpc' = [tpc EXCEPT ![t] = IF t = Main THEN "codegen" ELSE "recv"]
      BY <1>10 DEF WriteArtifact
    <3>2. CASE tpc' = tpc
      BY <3>2
    <3>3. CASE tpc' = [tpc EXCEPT ![t] = IF t = Main THEN "codegen" ELSE "recv"]
      <4>1. CASE t = Main
        BY <3>3, <4>1
      <4>2. CASE t # Main
        BY <3>3, <4>2
      <4> QED BY <4>1, <4>2
    <3> QED BY <3>1, <3>2, <3>3
  <2>9. UNCHANGED <<cur, pos, syms, queue, open, metadata, joined>>
    BY <1>10 DEF WriteArtifact
  <2> HIDE DEF File, Idle
  <2> QED BY <2>3, <2>4, <2>6, <2>7, <2>8, <2>9
<1>11. ASSUME NEW t \in Threads, WritePanics(t) PROVE TypeOK'
  <2>1. NoFile \in File /\ Partial \in File
    BY DEF NoFile, Partial, File
  <2>2. PICK left \in {NoFile, Partial} :
           disk' = [disk EXCEPT ![job[t].harness] = [@ EXCEPT ![step[t]] = left]]
    BY <1>11 DEF WritePanics
  <2> HIDE DEF File
  <2>3. left \in File
    BY <2>1, <2>2
  <2>4. disk' \in [Harnesses -> [Steps -> File]]
    BY <2>2, <2>3
  <2> QED BY <1>11, <2>4 DEF WritePanics
<1>12. CASE UNCHANGED vars
  BY <1>12 DEF vars
<1> QED BY <1>1, <1>2, <1>3, <1>4, <1>5, <1>6, <1>7, <1>8, <1>9, <1>10, <1>11, <1>12
      DEF Next, MainStep, WorkerStep, HandleFile

\* Every variable keeps its type.
THEOREM TypeCorrect == Spec => []TypeOK
BY TypeInit, TypeNext, PTL DEF Spec

\* The invariant holds before any work is done.
LEMMA PoolInvariantInit == Init => PoolInvariant
<1> SUFFICES ASSUME Init PROVE PoolInvariant
  OBVIOUS
<1> USE PoolSizeNat, NAssumption DEF Init, Threads, Workers, Main
<1>1. MainDataCoherent
  BY NamesAssumption DEF MainDataCoherent, Coherent, Resolve, FirstNames
<1>2. QueueCoherent /\ InternerCoherence /\ WrittenSoFar
  BY DEF QueueCoherent, InternerCoherence, WrittenSoFar
<1>3. Accounted
  BY DEF Accounted
<1>4. ShutdownOrder
  BY DEF ShutdownOrder
<1> QED BY <1>1, <1>2, <1>3, <1>4 DEF PoolInvariant

\* A step that only moves control, away from writing, without touching the
\* data, the channel or the disk.
ControlStep ==
    /\ UNCHANGED <<cur, pos, syms, interner, queue, job, step, disk>>
    /\ \A t \in Threads : (tpc'[t] = "write" <=> tpc[t] = "write")
    /\ \A t \in Threads : tpc[t] = "panicked" => tpc'[t] = "panicked"

\* A control step keeps every part of the invariant but the shutdown order.
LEMMA ControlStepKeeps ==
    ASSUME TypeOK, PoolInvariant, ControlStep
    PROVE  MainDataCoherent' /\ QueueCoherent' /\ InternerCoherence' /\ WrittenSoFar' /\ Accounted'
<1> USE DEF ControlStep, PoolInvariant
<1>1. MainDataCoherent'
  BY DEF MainDataCoherent, Coherent
<1>2. QueueCoherent'
  BY DEF QueueCoherent, Coherent
<1>3. InternerCoherence'
  BY DEF InternerCoherence
<1>4. SomePanic => SomePanic'
  BY DEF SomePanic
<1>5. WrittenSoFar'
  BY <1>4 DEF WrittenSoFar
<1>6. \A h : (Written(h) => Written(h)') /\ (Queued(h) => Queued(h)')
             /\ (BeingWritten(h) => BeingWritten(h)')
  BY DEF Written, Queued, BeingWritten
<1>7. Accounted'
  BY <1>4, <1>6 DEF Accounted
<1> QED BY <1>1, <1>2, <1>3, <1>5, <1>7

\* Every step of the pool keeps the invariant.
LEMMA PoolInvariantNext == TypeOK /\ PoolInvariant /\ [Next]_vars => PoolInvariant'
<1> SUFFICES ASSUME TypeOK, PoolInvariant, [Next]_vars PROVE PoolInvariant'
  OBVIOUS
<1> USE PoolSizeNat, NAssumption DEF Threads, Workers, Main
<1>1. CASE CodegenName
  <2> DEFINE s == Names[cur][pos]
             in == interner[0]
             out == Intern(in, s)
  <2>1. cur \in 1..N /\ pos \in 1..Len(Names[cur]) /\ s \in Strings /\ in \in Seq(Strings)
    BY <1>1, NamesAssumption DEF CodegenName, TypeOK
  <2>2. /\ out \in Seq(Strings)
        /\ \A i \in DOMAIN in : i \in DOMAIN out /\ out[i] = in[i]
        /\ SymbolOf(out, s) \in DOMAIN out /\ out[SymbolOf(out, s)] = s
    <3> HIDE DEF s, in
    <3> QED BY <2>1, InternExtends
  <2>3. /\ interner' = [interner EXCEPT ![0] = out]
        /\ syms' = syms \cup {SymbolOf(out, s)} /\ pos' = pos + 1
        /\ UNCHANGED <<tpc, cur, queue, open, job, step, disk, metadata, joined>>
    BY <1>1 DEF CodegenName
  <2>4. tpc[0] = "codegen" /\ interner'[0] = out /\ \A t \in Threads \ {0} : interner'[t] = interner[t]
    BY <1>1, <2>3 DEF CodegenName, TypeOK
  <2>5. MainDataCoherent'
    <3>1. /\ syms \subseteq DOMAIN in /\ Resolve(in, syms) = FirstNames(cur, pos - 1)
      BY <2>1 DEF PoolInvariant, MainDataCoherent, Coherent
    <3> HIDE DEF in, out, s
    <3>2. syms \subseteq DOMAIN out /\ Resolve(out, syms) = FirstNames(cur, pos - 1)
      BY <3>1, <2>1, <2>2, ResolveExtends DEF TypeOK
    <3>3. Resolve(out, syms') = Resolve(out, syms) \cup {s}
      BY <2>2, <2>3 DEF Resolve
    <3>4. FirstNames(cur, pos) = FirstNames(cur, pos - 1) \cup {s}
      BY <2>1 DEF s, FirstNames
    <3>5. syms' \subseteq DOMAIN out
      BY <3>2, <2>2, <2>3
    <3>6. Coherent(out, syms', FirstNames(cur, pos))
      BY <3>2, <3>3, <3>4, <3>5 DEF Coherent
    <3>7. pos + 1 <= Len(Names[cur]) + 1
      BY <2>1, NamesAssumption
    <3>8. cur' = cur /\ pos' = pos + 1 /\ interner'[Main] = out
      <4>1. interner'[Main] = out
        BY <2>4
      <4> QED BY <2>3, <4>1
    <3>10. pos' - 1 = pos
      BY <2>1, <3>8
    <3>11. FirstNames(cur', pos' - 1) = FirstNames(cur, pos)
      BY <3>8, <3>10
    <3>9. Coherent(interner'[Main], syms', FirstNames(cur', pos' - 1))
      BY <3>6, <3>8, <3>11
    <3>12. pos' <= Len(Names[cur']) + 1
      BY <3>7, <3>8
    <3> QED BY <3>9, <3>12 DEF MainDataCoherent, Coherent
  <2> HIDE DEF in, out, s
  <2>6. QueueCoherent' /\ WrittenSoFar' /\ Accounted' /\ ShutdownOrder'
    BY <2>3 DEF PoolInvariant, QueueCoherent, Coherent, WrittenSoFar, Accounted, ShutdownOrder,
                SomePanic, Written, Queued, BeingWritten
  <2>7. InternerCoherence'
    BY <2>3, <2>4 DEF PoolInvariant, InternerCoherence
  <2> QED BY <2>5, <2>6, <2>7 DEF PoolInvariant
<1>2. CASE SendWork
  <2> DEFINE work == WithCurrentInterner
  <2>1. /\ cur \in 1..N /\ tpc[0] = "codegen" /\ pos = Len(Names[cur]) + 1
        /\ cur' = cur + 1 /\ pos' = 1 /\ syms' = {}
        /\ UNCHANGED <<open, disk, metadata, joined>>
    BY <1>2, NamesAssumption DEF SendWork, TypeOK, PoolInvariant, MainDataCoherent
  <2>2. /\ work \in Work /\ work.harness = cur /\ work.syms = syms
        /\ work.interner = interner[0]
    BY <2>1 DEF WithCurrentInterner, Work, TypeOK, Harnesses
  <2> HIDE DEF work
  <2>3. Coherent(work.interner, work.syms, NamesOf(work.harness))
    <3>1. FirstNames(cur, pos - 1) = NamesOf(cur)
      BY <2>1, NamesAssumption DEF NamesOf, Elems, FirstNames
    <3>2. Coherent(interner[0], syms, FirstNames(cur, pos - 1))
      BY <2>1 DEF PoolInvariant, MainDataCoherent
    <3> QED BY <2>2, <3>1, <3>2
  <2>4. CASE PoolSize = 0 /\ IntoInner(0, work) /\ UNCHANGED queue
    <3>1. interner' = interner
      BY <2>2, <2>4 DEF IntoInner, TypeOK
    <3>2. /\ tpc' = [tpc EXCEPT ![0] = "write"] /\ job'[0] = work /\ step'[0] = 1
          /\ tpc'[0] = "write" /\ Threads = {0}
      BY <2>4 DEF IntoInner, TypeOK
    <3>3. MainDataCoherent'
      BY <2>1, NamesAssumption DEF MainDataCoherent, Coherent, Resolve, FirstNames
    <3>4. QueueCoherent'
      BY <2>4 DEF PoolInvariant, QueueCoherent, Coherent
    <3>5. InternerCoherence'
      BY <2>2, <2>3, <3>1, <3>2 DEF InternerCoherence, Coherent
    <3>8. WrittenSoFar'
      <4>1. 1..(step'[0] - 1) = {}
        BY <3>2
      <4> QED BY <2>2, <3>2, <4>1 DEF WrittenSoFar
    <3>6. Accounted'
      <4> SUFFICES ASSUME NEW h \in 1..(cur' - 1)
                   PROVE  SomePanic' \/ Written(h)' \/ Queued(h)' \/ BeingWritten(h)'
        BY DEF Accounted
      <4>1. CASE h = cur
        BY <2>2, <3>2, <4>1 DEF BeingWritten
      <4>2. CASE h # cur
        <5>0. h \in 1..(cur - 1)
          BY <2>1, <4>2
        <5>1. h \in 1..(cur - 1) /\ ~SomePanic /\ ~BeingWritten(h)
          <6>1. \A t \in Threads : tpc[t] = "codegen"
            BY <2>1, <3>2
          <6> QED BY <5>0, <6>1 DEF SomePanic, BeingWritten
        <5>2. Written(h) \/ Queued(h)
          BY <5>1 DEF PoolInvariant, Accounted
        <5> QED BY <5>2, <2>1, <2>4 DEF Written, Queued
      <4> QED BY <4>1, <4>2
    <3>7. ShutdownOrder'
      BY <2>1, <2>4, <3>2 DEF PoolInvariant, ShutdownOrder, TypeOK
    <3> QED BY <3>3, <3>4, <3>5, <3>6, <3>7, <3>8 DEF PoolInvariant
  <2>5. CASE PoolSize > 0 /\ queue' = Append(queue, work) /\ UNCHANGED <<tpc, interner, job, step>>
    <3>1. /\ \A i \in DOMAIN queue : i \in DOMAIN queue' /\ queue'[i] = queue[i]
          /\ \A i \in DOMAIN queue' : (i \in DOMAIN queue /\ queue'[i] = queue[i]) \/ queue'[i] = work
          /\ \E i \in DOMAIN queue' : queue'[i] = work
      <4>1. queue \in Seq(Work) /\ queue' = Append(queue, work)
        BY <2>5 DEF TypeOK
      <4>2. queue'[Len(queue) + 1] = work /\ Len(queue) + 1 \in DOMAIN queue'
        BY <4>1, <2>2
      <4> QED BY <4>1, <4>2, <2>2
    <3>2. MainDataCoherent'
      BY <2>1, NamesAssumption DEF MainDataCoherent, Coherent, Resolve, FirstNames
    <3>3. QueueCoherent'
      <4> SUFFICES ASSUME NEW i \in DOMAIN queue'
                   PROVE  Coherent(queue'[i].interner, queue'[i].syms, NamesOf(queue'[i].harness))
        BY DEF QueueCoherent, Coherent
      <4> QED BY <2>3, <3>1 DEF PoolInvariant, QueueCoherent
    <3>4. InternerCoherence' /\ WrittenSoFar'
      BY <2>1, <2>5 DEF PoolInvariant, InternerCoherence, WrittenSoFar, SomePanic
    <3>5. Accounted'
      <4> SUFFICES ASSUME NEW h \in 1..(cur' - 1)
                   PROVE  SomePanic' \/ Written(h)' \/ Queued(h)' \/ BeingWritten(h)'
        BY DEF Accounted
      <4>1. CASE h = cur
        BY <2>2, <3>1, <4>1 DEF Queued
      <4>2. CASE h # cur
        <5>1. h \in 1..(cur - 1)
          BY <2>1, <4>2
        <5>2. SomePanic \/ Written(h) \/ Queued(h) \/ BeingWritten(h)
          BY <5>1 DEF PoolInvariant, Accounted
        <5>3. Queued(h) => Queued(h)'
          BY <3>1 DEF Queued
        <5> QED BY <5>2, <5>3, <2>1, <2>5 DEF Written, SomePanic, BeingWritten
      <4> QED BY <4>1, <4>2
    <3>6. ShutdownOrder'
      BY <2>1, <2>5 DEF PoolInvariant, ShutdownOrder
    <3> QED BY <3>2, <3>3, <3>4, <3>5, <3>6 DEF PoolInvariant
  <2> QED BY <1>2, <2>4, <2>5 DEF SendWork, work
<1>3. CASE WriteMetadata
  <2>1. ControlStep /\ ShutdownOrder'
    BY <1>3 DEF WriteMetadata, ControlStep, TypeOK, PoolInvariant, ShutdownOrder
  <2> QED BY <2>1, ControlStepKeeps DEF PoolInvariant
<1>4. CASE MetadataFails
  <2>1. ControlStep /\ ShutdownOrder'
    BY <1>4 DEF MetadataFails, ControlStep, TypeOK, PoolInvariant, ShutdownOrder
  <2> QED BY <2>1, ControlStepKeeps DEF PoolInvariant
<1>5. CASE CloseQueue
  <2>1. ControlStep /\ ShutdownOrder'
    BY <1>5 DEF CloseQueue, ControlStep, TypeOK, PoolInvariant, ShutdownOrder
  <2> QED BY <2>1, ControlStepKeeps DEF PoolInvariant
<1>6. CASE JoinNext
  <2>1. ControlStep
    BY <1>6 DEF JoinNext, ControlStep, TypeOK
  <2>2. ShutdownOrder'
    <3>1. CASE tpc[joined + 1] = "exited" /\ joined' = joined + 1 /\ UNCHANGED tpc
      <4>1. \A v \in 1..(joined + 1) : tpc[v] = "exited"
        BY <3>1 DEF TypeOK, PoolInvariant, ShutdownOrder
      <4> QED BY <1>6, <3>1, <4>1 DEF JoinNext, PoolInvariant, ShutdownOrder
    <3>2. CASE tpc' = [tpc EXCEPT ![Main] = "panicked"] /\ UNCHANGED joined
      <4>1. tpc'[0] = "panicked" /\ \A v \in 1..PoolSize : tpc'[v] = tpc[v]
        BY <3>2 DEF TypeOK
      <4>2. 1..joined \subseteq 1..PoolSize
        BY DEF TypeOK
      <4> QED BY <1>6, <3>2, <4>1, <4>2 DEF JoinNext, PoolInvariant, ShutdownOrder
    <3> QED BY <1>6, <3>1, <3>2 DEF JoinNext
  <2> QED BY <2>1, <2>2, ControlStepKeeps DEF PoolInvariant
<1>7. CASE Report
  <2>1. ControlStep /\ ShutdownOrder'
    BY <1>7 DEF Report, ControlStep, TypeOK, PoolInvariant, ShutdownOrder
  <2> QED BY <2>1, ControlStepKeeps DEF PoolInvariant
<1>8. ASSUME NEW w \in Workers, Recv(w) PROVE PoolInvariant'
  <2> DEFINE work == Head(queue)
  <2>1. /\ tpc[w] = "recv" /\ queue # <<>> /\ queue \in Seq(Work) /\ work \in Work
        /\ queue' = Tail(queue)
        /\ UNCHANGED <<cur, pos, syms, open, disk, metadata, joined>>
    BY <1>8 DEF Recv, TypeOK
  <2>2. /\ \A i \in DOMAIN queue : queue[i] = work \/ \E j \in DOMAIN queue' : queue'[j] = queue[i]
        /\ \A j \in DOMAIN queue' : j + 1 \in DOMAIN queue /\ queue'[j] = queue[j + 1]
        /\ 1 \in DOMAIN queue /\ work = queue[1]
    <3>1. /\ Len(queue) \in Nat \ {0} /\ DOMAIN queue = 1..Len(queue) /\ work = queue[1]
          /\ DOMAIN queue' = 1..(Len(queue) - 1)
          /\ \A j \in 1..(Len(queue) - 1) : queue'[j] = queue[j + 1]
      BY <2>1
    <3> HIDE DEF work
    <3>2. ASSUME NEW i \in DOMAIN queue, queue[i] # work
          PROVE  \E j \in DOMAIN queue' : queue'[j] = queue[i]
      <4>1. i - 1 \in DOMAIN queue' /\ queue'[i - 1] = queue[i]
        BY <3>1, <3>2
      <4> QED BY <4>1
    <3> QED BY <3>1, <3>2
  <2>3. Coherent(work.interner, work.syms, NamesOf(work.harness))
    BY <2>2 DEF PoolInvariant, QueueCoherent
  <2> HIDE DEF work
  <2>4. /\ tpc' = [tpc EXCEPT ![w] = "write"] /\ job' = [job EXCEPT ![w] = work]
        /\ interner' = [interner EXCEPT ![w] = work.interner] /\ step' = [step EXCEPT ![w] = 1]
    BY <1>8 DEF Recv, IntoInner, work
  <2>5. /\ tpc'[w] = "write" /\ job'[w] = work /\ interner'[w] = work.interner /\ step'[w] = 1
        /\ \A t \in Threads \ {w} : tpc'[t] = tpc[t] /\ job'[t] = job[t]
                                    /\ interner'[t] = interner[t] /\ step'[t] = step[t]
    BY <2>4 DEF TypeOK
  <2>6. MainDataCoherent'
    BY <2>1, <2>5 DEF PoolInvariant, MainDataCoherent, Coherent
  <2>7. QueueCoherent'
    BY <2>2 DEF PoolInvariant, QueueCoherent, Coherent
  <2>8. InternerCoherence'
    BY <2>3, <2>5 DEF PoolInvariant, InternerCoherence, Coherent
  <2>9. SomePanic => SomePanic'
    BY <2>1, <2>5 DEF SomePanic
  <2>10. WrittenSoFar'
    BY <2>1, <2>5, <2>9 DEF PoolInvariant, WrittenSoFar
  <2>11. Accounted'
    <3> SUFFICES ASSUME NEW h \in 1..(cur - 1)
                 PROVE  SomePanic' \/ Written(h)' \/ Queued(h)' \/ BeingWritten(h)'
      BY <2>1 DEF Accounted
    <3>1. SomePanic \/ Written(h) \/ Queued(h) \/ BeingWritten(h)
      BY DEF PoolInvariant, Accounted
    <3>2. Queued(h) => Queued(h)' \/ BeingWritten(h)'
      BY <2>2, <2>5 DEF Queued, BeingWritten
    <3>3. BeingWritten(h) => BeingWritten(h)'
      BY <2>1, <2>5 DEF BeingWritten
    <3>4. Written(h) => Written(h)'
      BY <2>1 DEF Written
    <3> QED BY <3>1, <3>2, <3>3, <3>4, <2>9
  <2>12. ShutdownOrder'
    <3>1. \A v \in 1..PoolSize : tpc[v] # "exited" /\ tpc'[v] # "exited"
      BY <2>1, <2>5 DEF PoolInvariant, ShutdownOrder
    <3>2. 1..joined \subseteq 1..PoolSize /\ PoolSize # 0
      BY DEF TypeOK
    <3>3. tpc'[0] = tpc[0]
      BY <2>5
    <3> QED BY <2>1, <3>1, <3>2, <3>3 DEF PoolInvariant, ShutdownOrder
  <2> QED BY <2>6, <2>7, <2>8, <2>10, <2>11, <2>12 DEF PoolInvariant
<1>9. ASSUME NEW w \in Workers, RecvDisconnected(w) PROVE PoolInvariant'
  <2>1. ControlStep
    BY <1>9 DEF RecvDisconnected, ControlStep, TypeOK
  <2>2. ShutdownOrder'
    <3>1. tpc'[w] = "exited" /\ \A t \in Threads \ {w} : tpc'[t] = tpc[t]
      BY <1>9 DEF RecvDisconnected, TypeOK
    <3>2. 1..joined \subseteq 1..PoolSize
      BY DEF TypeOK
    <3>3. UNCHANGED <<cur, queue, open, metadata, joined>> /\ queue = <<>> /\ ~open
      BY <1>9 DEF RecvDisconnected
    <3> QED BY <3>1, <3>2, <3>3 DEF PoolInvariant, ShutdownOrder
  <2> QED BY <2>1, <2>2, ControlStepKeeps DEF PoolInvariant
<1>10. ASSUME NEW t \in Threads, WriteArtifact(t) PROVE PoolInvariant'
  <2> DEFINE h == job[t].harness
             out == IF Artifacts[step[t]] = "SymTabGoto" THEN Intern(interner[t], IrepName)
                    ELSE interner[t]
  <2>1. /\ tpc[t] = "write" /\ job[t] \in Work /\ h \in 1..N /\ step[t] \in Steps
        /\ job[t].syms \in SUBSET Nat /\ interner[t] \in Seq(Strings)
        /\ job[t].syms \subseteq DOMAIN interner[t]
        /\ Resolve(interner[t], job[t].syms) = NamesOf(h)
    BY <1>10 DEF WriteArtifact, TypeOK, PoolInvariant, WrittenSoFar, InternerCoherence, Work, Harnesses
  <2>2. /\ out \in Seq(Strings)
        /\ \A i \in DOMAIN interner[t] : i \in DOMAIN out /\ out[i] = interner[t][i]
    BY <2>1, IrepNameAssumption, InternExtends
  <2>3. /\ UNCHANGED <<cur, pos, syms, queue, open, metadata, joined>>
        /\ interner' = [interner EXCEPT ![t] = out]
    BY <1>10, <2>1 DEF WriteArtifact
  <2> HIDE DEF out
  <2>4. interner'[t] = out /\ \A u \in Threads \ {t} : interner'[u] = interner[u]
    BY <2>3 DEF TypeOK
  <2>5. ASSUME NEW u \in Threads, NEW symbols \in SUBSET Nat, NEW names,
               Coherent(interner[u], symbols, names)
        PROVE  Coherent(interner'[u], symbols, names)
    <3>1. CASE u = t
      BY <3>1, <2>1, <2>2, <2>4, <2>5, ResolveExtends DEF Coherent
    <3>2. CASE u # t
      BY <3>2, <2>4, <2>5
    <3> QED BY <3>1, <3>2
  <2>6. MainDataCoherent'
    <3> SUFFICES ASSUME cur <= N
                 PROVE  /\ pos <= Len(Names[cur]) + 1
                        /\ Coherent(interner'[0], syms, FirstNames(cur, pos - 1))
      BY <2>3 DEF MainDataCoherent, Coherent
    <3>1. /\ pos <= Len(Names[cur]) + 1
          /\ Coherent(interner[0], syms, FirstNames(cur, pos - 1))
      BY DEF PoolInvariant, MainDataCoherent
    <3> QED BY <3>1, <2>5 DEF TypeOK
  <2>7. QueueCoherent'
    BY <2>3 DEF PoolInvariant, QueueCoherent, Coherent
  <2>8. /\ \A u \in Threads \ {t} : tpc'[u] = tpc[u] /\ job'[u] = job[u] /\ step'[u] = step[u]
        /\ \/ tpc'[t] = "write" /\ job'[t] = job[t] /\ step'[t] = step[t] + 1 /\ step[t] < Len(Artifacts)
           \/ tpc'[t] = (IF t = 0 THEN "codegen" ELSE "recv") /\ step[t] = Len(Artifacts)
    BY <1>10 DEF WriteArtifact, TypeOK
  <2>9. ASSUME NEW u \in Threads, tpc'[u] = "write"
        PROVE  tpc[u] = "write" /\ job'[u] = job[u]
    BY <2>1, <2>8, <2>9
  <2>10. InternerCoherence'
    <3> SUFFICES ASSUME NEW u \in Threads, tpc'[u] = "write"
                 PROVE  Coherent(interner'[u], job'[u].syms, NamesOf(job'[u].harness))
      BY DEF InternerCoherence, Coherent
    <3>1. tpc[u] = "write" /\ job'[u] = job[u] /\ job[u] \in Work
      BY <2>9 DEF PoolInvariant, WrittenSoFar
    <3>2. Coherent(interner[u], job[u].syms, NamesOf(job[u].harness)) /\ job[u].syms \in SUBSET Nat
      BY <3>1 DEF PoolInvariant, InternerCoherence, Coherent, Work
    <3> QED BY <2>5, <3>1, <3>2
  <2>11. /\ disk'[h][step[t]] \in Ended(h)
         /\ \A g \in 1..N, i \in Steps : disk'[g][i] = disk[g][i]
                                         \/ (g = h /\ i = step[t] /\ disk'[g][i] \in Ended(g))
    <3>1. disk \in [1..N -> [Steps -> File]]
      BY DEF TypeOK, Harnesses
    <3>2. PICK left \in Ended(h) : disk' = [disk EXCEPT ![h] = [disk[h] EXCEPT ![step[t]] = left]]
      BY <1>10, <2>1 DEF WriteArtifact, Ended
    <3> HIDE DEF h
    <3>3. disk'[h] = [disk[h] EXCEPT ![step[t]] = left] /\ disk[h] \in [Steps -> File]
      BY <2>1, <3>1, <3>2
    <3>4. \A g \in 1..N : g # h => disk'[g] = disk[g]
      BY <3>1, <3>2
    <3>5. disk'[h][step[t]] = left /\ \A i \in Steps : i # step[t] => disk'[h][i] = disk[h][i]
      BY <2>1, <3>3
    <3> QED BY <3>2, <3>4, <3>5
  <2>12. SomePanic => SomePanic'
    BY <2>1, <2>8 DEF SomePanic
  <2>13. WrittenSoFar'
    <3> SUFFICES ASSUME NEW u \in Threads, tpc'[u] = "write", ~SomePanic',
                        NEW i \in 1..(step'[u] - 1)
                 PROVE  disk'[job'[u].harness][i] \in Ended(job'[u].harness)
      <4>1. \A u \in Threads : tpc'[u] = "write" => job'[u] \in Work
        BY <2>9 DEF PoolInvariant, WrittenSoFar
      <4> QED BY <4>1 DEF WrittenSoFar
    <3>1. /\ tpc[u] = "write" /\ job'[u] = job[u] /\ job[u].harness \in 1..N
          /\ \A j \in 1..(step[u] - 1) : disk[job[u].harness][j] \in Ended(job[u].harness)
      BY <2>9, <2>12 DEF PoolInvariant, WrittenSoFar, Work, Harnesses
    <3>2. i \in Steps /\ (i \in 1..(step[u] - 1) \/ (u = t /\ i = step[t]))
      <4>1. step[u] \in 1..Len(Artifacts) /\ Len(Artifacts) \in Nat
        BY ArtifactsAssumption DEF TypeOK, Steps
      <4>2. CASE u = t
        <5>1. step'[t] = step[t] + 1 /\ step[t] < Len(Artifacts)
          BY <2>8, <4>2
        <5> QED BY <4>1, <4>2, <5>1 DEF Steps
      <4>3. CASE u # t
        BY <2>8, <4>1, <4>3 DEF Steps
      <4> QED BY <4>2, <4>3
    <3> QED BY <2>11, <3>1, <3>2
  <2>14. Accounted'
    <3> SUFFICES ASSUME NEW g \in 1..(cur - 1), ~SomePanic', ~Queued(g), ~BeingWritten(g)'
                 PROVE  Written(g)'
      BY <2>3 DEF Accounted, Queued
    <3>1. g \in 1..N /\ (Written(g) \/ BeingWritten(g))
      BY <2>12 DEF PoolInvariant, Accounted, TypeOK
    <3>2. CASE Written(g)
      BY <2>11, <3>1, <3>2 DEF Written
    <3>3. CASE BeingWritten(g) /\ ~Written(g)
      <4>1. g = h /\ step[t] = Len(Artifacts)
        BY <2>1, <2>8, <3>3 DEF BeingWritten
      <4>2. \A i \in 1..(step[t] - 1) : disk[h][i] \in Ended(h)
        BY <2>1, <2>12 DEF PoolInvariant, WrittenSoFar
      <4>3. \A i \in Steps : i = step[t] \/ i \in 1..(step[t] - 1)
        BY <4>1, ArtifactsAssumption DEF Steps
      <4> QED BY <2>11, <3>1, <4>1, <4>2, <4>3 DEF Written
    <3> QED BY <3>1, <3>2, <3>3
  <2>15. ShutdownOrder'
    <3>1. 1..joined \subseteq 1..PoolSize
      BY DEF TypeOK
    <3>2. \A v \in 1..PoolSize : tpc'[v] = "exited" <=> tpc[v] = "exited"
      BY <2>1, <2>8
    <3>3. tpc'[0] = tpc[0] \/ (tpc[0] = "write" /\ tpc'[0] \in {"write", "codegen"})
      BY <2>1, <2>8
    <3> QED BY <2>3, <3>1, <3>2, <3>3 DEF PoolInvariant, ShutdownOrder
  <2> QED BY <2>6, <2>7, <2>10, <2>13, <2>14, <2>15 DEF PoolInvariant
<1>11. ASSUME NEW t \in Threads, WritePanics(t) PROVE PoolInvariant'
  <2>1. /\ tpc[t] = "write" /\ tpc' = [tpc EXCEPT ![t] = "panicked"]
        /\ UNCHANGED <<cur, pos, syms, interner, queue, open, job, step, metadata, joined>>
    BY <1>11 DEF WritePanics
  <2>2. tpc'[t] = "panicked" /\ \A u \in Threads \ {t} : tpc'[u] = tpc[u]
    BY <2>1 DEF TypeOK
  <2>3. SomePanic'
    BY <2>2 DEF SomePanic
  <2>4. MainDataCoherent' /\ QueueCoherent'
    BY <2>1 DEF PoolInvariant, MainDataCoherent, QueueCoherent, Coherent
  <2>5. InternerCoherence'
    BY <2>1, <2>2 DEF PoolInvariant, InternerCoherence
  <2>6. WrittenSoFar' /\ Accounted'
    BY <2>1, <2>2, <2>3 DEF PoolInvariant, WrittenSoFar, Accounted
  <2>7. ShutdownOrder'
    <3>1. 1..joined \subseteq 1..PoolSize
      BY DEF TypeOK
    <3> QED BY <2>1, <2>2, <3>1 DEF PoolInvariant, ShutdownOrder
  <2> QED BY <2>4, <2>5, <2>6, <2>7 DEF PoolInvariant
<1>12. CASE UNCHANGED vars
  <2>1. ControlStep /\ ShutdownOrder'
    BY <1>12 DEF vars, ControlStep, PoolInvariant, ShutdownOrder
  <2> QED BY <2>1, ControlStepKeeps DEF PoolInvariant
<1> QED BY <1>1, <1>2, <1>3, <1>4, <1>5, <1>6, <1>7, <1>8, <1>9, <1>10, <1>11, <1>12
      DEF Next, MainStep, WorkerStep, HandleFile

\* The inductive invariant of the pool is an invariant.
THEOREM PoolInvariantHolds == Spec => []PoolInvariant
BY TypeInit, TypeNext, PoolInvariantInit, PoolInvariantNext, PTL DEF Spec

\* With every worker joined, every artifact of every harness has been written.
LEMMA JoinedComplete ==
    ASSUME TypeOK, PoolInvariant, tpc[Main] \in {"join", "report"}, joined = PoolSize
    PROVE  metadata # "none" /\ \A h \in Harnesses : Written(h)
<1> USE PoolSizeNat, NAssumption DEF Threads, Workers, Main
<1>1. metadata # "none" /\ cur = N + 1
  BY DEF PoolInvariant, ShutdownOrder
<1>2. \A w \in 1..PoolSize : tpc[w] = "exited"
  BY DEF PoolInvariant, ShutdownOrder
<1>3. queue = <<>>
  BY <1>2 DEF PoolInvariant, ShutdownOrder
<1>4. ~SomePanic /\ \A h : ~BeingWritten(h) /\ ~Queued(h)
  BY <1>2, <1>3 DEF SomePanic, BeingWritten, Queued
<1>5. \A h \in 1..N : Written(h)
  BY <1>1, <1>4 DEF PoolInvariant, Accounted
<1> QED BY <1>1, <1>5 DEF Harnesses

\* join_all lets the compiler go on only when every artifact of every harness
\* has been written with the names its codegen meant: no panic of a worker is
\* lost and no interner is mixed up, whatever the number of threads.  Only the
\* flush in the drop of a BufWriter fails unseen, and costs the end of its file.
THEOREM ExportComplete == Spec => []ReportedComplete
<1>1. TypeOK /\ PoolInvariant => ReportedComplete
  BY JoinedComplete DEF ReportedComplete, PoolInvariant, ShutdownOrder
<1> QED BY <1>1, TypeCorrect, PoolInvariantHolds, PTL

\* A thread that writes a file reads its symbols as codegen meant them.
THEOREM SymbolsKeepMeaning == Spec => []InternerCoherence
<1>1. PoolInvariant => InternerCoherence
  BY DEF PoolInvariant
<1> QED BY <1>1, PoolInvariantHolds, PTL

\* No step, not even one that replaces the interner of the main thread, makes
\* a symbol of the main thread mean something else.
THEOREM MainSymbolsStable == Spec => MainInternerGrows
<1> DEFINE Grows == /\ Len(interner[Main]) <= Len(interner'[Main])
                    /\ \A i \in DOMAIN interner[Main] : interner'[Main][i] = interner[Main][i]
<1>1. TypeOK /\ [Next]_vars => Grows \/ UNCHANGED vars
  <2> SUFFICES ASSUME TypeOK, [Next]_vars PROVE Grows \/ UNCHANGED vars
    OBVIOUS
  <2> USE PoolSizeNat, NAssumption DEF Threads, Workers, Main
  <2>1. interner[0] \in Seq(Strings) /\ Len(interner[0]) \in Nat
    BY DEF TypeOK
  <2>2. CASE interner'[0] = interner[0]
    BY <2>1, <2>2
  <2>3. CASE CodegenName
    <3>1. Names[cur][pos] \in Strings
      BY <2>3, NamesAssumption DEF CodegenName, TypeOK
    <3>2. interner'[0] = Intern(interner[0], Names[cur][pos])
      BY <2>3 DEF CodegenName, TypeOK
    <3> HIDE DEF Main
    <3>3. /\ Len(interner[0]) <= Len(Intern(interner[0], Names[cur][pos]))
          /\ \A i \in DOMAIN interner[0] : Intern(interner[0], Names[cur][pos])[i] = interner[0][i]
      BY <2>1, <3>1, InternExtends
    <3> QED BY <3>2, <3>3 DEF Main
  <2>4. CASE SendWork
    <3>1. interner'[0] = interner[0]
      BY <2>4 DEF SendWork, IntoInner, WithCurrentInterner, TypeOK
    <3> QED BY <2>2, <3>1
  <2>5. ASSUME NEW w \in Workers, Recv(w) PROVE Grows
    <3>1. interner'[0] = interner[0]
      BY <2>5 DEF Recv, IntoInner, TypeOK
    <3> QED BY <2>2, <3>1
  <2>6. ASSUME NEW t \in Threads, WriteArtifact(t) PROVE Grows
    <3>1. \/ interner'[0] = interner[0]
          \/ interner'[0] = Intern(interner[0], IrepName)
      BY <2>6 DEF WriteArtifact, TypeOK
    <3>2. /\ Len(interner[0]) <= Len(Intern(interner[0], IrepName))
          /\ \A i \in DOMAIN interner[0] : Intern(interner[0], IrepName)[i] = interner[0][i]
      BY <2>1, InternExtends, IrepNameAssumption
    <3>3. CASE interner'[0] = Intern(interner[0], IrepName)
      BY <3>2, <3>3
    <3> QED BY <2>2, <3>1, <3>3
  <2>7. CASE WriteMetadata \/ MetadataFails \/ CloseQueue \/ JoinNext \/ Report
             \/ (\E w \in Workers : RecvDisconnected(w)) \/ (\E t \in Threads : WritePanics(t))
             \/ UNCHANGED vars
    <3>1. interner' = interner
      BY <2>7 DEF WriteMetadata, MetadataFails, CloseQueue, JoinNext, Report, RecvDisconnected,
                  WritePanics, vars
    <3> QED BY <2>2, <3>1
  <2> QED BY <2>3, <2>4, <2>5, <2>6, <2>7 DEF Next, MainStep, WorkerStep, HandleFile
<1>2. TypeOK /\ [Next]_vars => [Grows]_vars
  BY <1>1
<1> QED BY <1>2, TypeCorrect, PTL DEF Spec, MainInternerGrows
-----------------------------------------------------------------------------
(* Every artifact is written once, and the refinement of AtomicExport.     *)

\* Writing one artifact changes that artifact only.
LEMMA OneArtifact ==
    ASSUME TypeOK, NEW t \in Threads, job[t] \in Work, NEW left,
           disk' = [disk EXCEPT ![job[t].harness] = [@ EXCEPT ![step[t]] = left]]
    PROVE  /\ disk'[job[t].harness][step[t]] = left
           /\ \A g \in Harnesses, i \in Steps :
                 g # job[t].harness \/ i # step[t] => disk'[g][i] = disk[g][i]
<1> DEFINE h == job[t].harness
<1>1. h \in Harnesses /\ step[t] \in Steps /\ disk \in [Harnesses -> [Steps -> File]]
  BY DEF Work, TypeOK
<1>2. disk' = [disk EXCEPT ![h] = [disk[h] EXCEPT ![step[t]] = left]]
  OBVIOUS
<1> HIDE DEF h
<1>3. disk'[h] = [disk[h] EXCEPT ![step[t]] = left] /\ \A g \in Harnesses : g # h => disk'[g] = disk[g]
  BY <1>1, <1>2
<1>4. disk'[h][step[t]] = left /\ \A i \in Steps : i # step[t] => disk'[h][i] = disk[h][i]
  BY <1>1, <1>3
<1> QED BY <1>3, <1>4 DEF h

\* A file that is missing, or that a panic cut short, was not written to its end.
LEMMA MissingIsNotEnded == \A h : NoFile \notin Ended(h) /\ Partial \notin Ended(h)
<1> SUFFICES ASSUME NEW h PROVE NoFile \notin Ended(h) /\ Partial \notin Ended(h)
  OBVIOUS
<1>1. /\ NoFile.state = "none" /\ Partial.state = "partial" /\ Cut.state = "cut"
      /\ Full(NamesOf(h)).state = "full"
  BY DEF NoFile, Partial, Cut, Full
<1> QED BY <1>1 DEF Ended

\* What is in the channel is work; what a thread holds is work or nothing.
LEMMA Places ==
    ASSUME TypeOK
    PROVE  /\ \A i \in DOMAIN queue : queue[i] \in Work /\ queue[i].harness \in 1..N
           /\ \A t \in Threads : job[t].harness \in 0..N
           /\ \A t \in Threads : job[t] \in Work <=> job[t].harness # 0
           /\ \A t \in Threads : job[t] = Idle <=> job[t].harness = 0
<1>1. queue \in Seq(Work) /\ job \in [Threads -> Work \cup {Idle}]
  BY DEF TypeOK
<1>2. Idle.harness = 0 /\ \A work \in Work : work.harness \in 1..N
  BY DEF Work, Idle, Harnesses
<1> QED BY <1>1, <1>2, NAssumption

\* Nothing is anywhere at the start.
LEMMA OnceInit == Init => OnceInvariant
<1> SUFFICES ASSUME Init PROVE OnceInvariant
  OBVIOUS
<1> USE PoolSizeNat, NAssumption DEF Init, Threads, Workers, Main
<1>1. JobHeld
  BY DEF JobHeld, Idle
<1>2. InOnePlace
  BY DEF InOnePlace, Idle
<1>3. WrittenInTurn
  BY DEF WrittenInTurn, Untouched
<1>4. MetadataLast
  BY DEF MetadataLast
<1> QED BY <1>1, <1>2, <1>3, <1>4 DEF OnceInvariant

\* Main alone panics without work.
QuietStep == ControlStep /\ \A t \in Threads : tpc'[t] = "panicked" => tpc[t] = "panicked" \/ (t = Main /\ job[t] = Idle)

\* A step that only moves control leaves every harness where it is.
LEMMA QuietStepKeeps ==
    ASSUME TypeOK, OnceInvariant, QuietStep
    PROVE  JobHeld' /\ InOnePlace' /\ WrittenInTurn'
<1> USE DEF OnceInvariant, QuietStep, ControlStep
<1>1. JobHeld'
  BY DEF JobHeld
<1>2. InOnePlace'
  BY DEF InOnePlace
<1>3. \A h : (Untouched(h)' <=> Untouched(h)) /\ (Written(h)' <=> Written(h))
  BY DEF Untouched, Written
<1>4. Idle \notin Work
  BY NAssumption DEF Idle, Work, Harnesses
<1>5. WrittenInTurn'
  BY <1>3, <1>4 DEF WrittenInTurn
<1> QED BY <1>1, <1>2, <1>5

\* No step takes a harness to a second place or writes an artifact again.
LEMMA OnceNext == TypeOK /\ PoolInvariant /\ OnceInvariant /\ [Next]_vars => OnceInvariant'
<1> SUFFICES ASSUME TypeOK, PoolInvariant, OnceInvariant, [Next]_vars PROVE OnceInvariant'
  OBVIOUS
<1> USE PoolSizeNat, NAssumption DEF Threads, Workers, Main
<1>1. CASE CodegenName \/ UNCHANGED vars
  <2>1. UNCHANGED <<tpc, cur, queue, job, step, disk, metadata>>
    BY <1>1 DEF CodegenName, vars
  <2>2. JobHeld' /\ InOnePlace' /\ MetadataLast'
    BY <2>1 DEF OnceInvariant, JobHeld, InOnePlace, MetadataLast
  <2>3. WrittenInTurn'
    BY <2>1 DEF OnceInvariant, WrittenInTurn, Untouched, Written
  <2> QED BY <2>2, <2>3 DEF OnceInvariant
<1>2. CASE SendWork
  <2> DEFINE work == WithCurrentInterner
  <2>1. /\ cur \in 1..N /\ tpc[0] = "codegen" /\ cur' = cur + 1
        /\ UNCHANGED <<disk, metadata>> /\ metadata = "none"
    BY <1>2 DEF SendWork, TypeOK, OnceInvariant, MetadataLast
  <2>2. work.harness = cur /\ Untouched(cur) /\ work \in Work
    BY <2>1 DEF WithCurrentInterner, OnceInvariant, WrittenInTurn, Harnesses, Work, TypeOK
  <2> HIDE DEF work
  <2>3. MetadataLast'
    BY <2>1 DEF MetadataLast
  <2>4. \A h : Untouched(h)' <=> Untouched(h)
    BY <2>1 DEF Untouched
  <2>5. CASE PoolSize = 0 /\ IntoInner(0, work) /\ UNCHANGED queue
    <3>1. /\ tpc'[0] = "write" /\ job'[0] = work /\ step'[0] = 1 /\ Threads = {0}
          /\ queue = <<>> /\ queue' = <<>>
      BY <2>5 DEF IntoInner, TypeOK, PoolInvariant, ShutdownOrder
    <3>2. JobHeld'
      BY <2>1, <2>2, <3>1 DEF JobHeld
    <3>3. InOnePlace'
      <4>1. DOMAIN queue' = {}
        BY <3>1
      <4> QED BY <3>1, <4>1 DEF InOnePlace
    <3>4. WrittenInTurn'
      <4>1. \A h \in Harnesses : h >= cur' => Untouched(h)'
        BY <2>1, <2>4 DEF OnceInvariant, WrittenInTurn, Harnesses
      <4>2. \A i \in Steps : disk'[work.harness][i] = NoFile
        BY <2>1, <2>2 DEF Untouched
      <4>3. (\A t \in Threads : tpc[t] = "write" =>
                \A i \in Steps : i >= step[t] => disk[job[t].harness][i] = NoFile)'
        BY <3>1, <4>2
      <4>4. DOMAIN queue' = {} /\ \A t \in Threads : tpc'[t] # "panicked"
        BY <3>1
      <4> QED BY <4>1, <4>3, <4>4 DEF WrittenInTurn
    <3> QED BY <2>3, <3>2, <3>3, <3>4 DEF OnceInvariant
  <2>6. CASE PoolSize > 0 /\ queue' = Append(queue, work) /\ UNCHANGED <<tpc, interner, job, step>>
    <3>1. /\ DOMAIN queue = 1..Len(queue) /\ Len(queue) \in Nat /\ queue'[Len(queue) + 1] = work
          /\ DOMAIN queue' = 1..(Len(queue) + 1) /\ \A i \in 1..Len(queue) : queue'[i] = queue[i]
      BY <2>6, <2>2 DEF TypeOK
    <3>2. \A i \in DOMAIN queue' : i \in DOMAIN queue \/ (i = Len(queue) + 1 /\ queue'[i].harness = cur)
      BY <2>2, <3>1
    <3>3. JobHeld'
      <4>1. \A t \in Threads : job[t].harness < cur + 1
        <5>1. \A t \in Threads : job[t].harness < cur /\ job[t].harness \in Int
          BY Places DEF OnceInvariant, JobHeld
        <5> QED BY <2>1, <5>1
      <4> QED BY <2>1, <2>6, <4>1 DEF OnceInvariant, JobHeld
    <3>4. InOnePlace'
      <4>1. \A i \in DOMAIN queue : queue[i].harness < cur /\ queue[i].harness \in 1..N
        BY Places DEF OnceInvariant, InOnePlace
      <4>2. \A t \in Threads : job[t].harness < cur /\ job[t].harness \in Int
        BY Places DEF OnceInvariant, JobHeld
      <4>3. \A i, j \in DOMAIN queue' : queue'[i].harness = queue'[j].harness => i = j
        BY <2>1, <3>1, <3>2, <4>1 DEF OnceInvariant, InOnePlace
      <4>4. \A t \in Threads, i \in DOMAIN queue' : job'[t].harness # queue'[i].harness
        BY <2>1, <2>6, <3>1, <3>2, <4>2 DEF OnceInvariant, InOnePlace
      <4>5. \A i \in DOMAIN queue' : queue'[i].harness < cur'
        BY <2>1, <3>1, <3>2, <4>1
      <4> QED BY <2>6, <4>3, <4>4, <4>5 DEF OnceInvariant, InOnePlace
    <3>5. WrittenInTurn'
      <4>1. \A i \in DOMAIN queue', k \in Steps : disk'[queue'[i].harness][k] = NoFile
        <5>1. \A k \in Steps : disk[cur][k] = NoFile
          BY <2>2 DEF Untouched
        <5>2. \A i \in DOMAIN queue, k \in Steps : disk[queue[i].harness][k] = NoFile
          BY DEF OnceInvariant, WrittenInTurn, Untouched
        <5> QED BY <2>1, <3>1, <3>2, <5>1, <5>2
      <4>2. \A h \in Harnesses : h >= cur' => Untouched(h)'
        BY <2>1, <2>4 DEF OnceInvariant, WrittenInTurn, Harnesses
      <4>4. (\A i \in DOMAIN queue : Untouched(queue[i].harness))'
        BY <4>1 DEF Untouched
      <4>5. /\ (\A t \in Threads : tpc[t] = "write" =>
                    \A i \in Steps : i >= step[t] => disk[job[t].harness][i] = NoFile)'
            /\ (\A t \in Threads : tpc[t] = "panicked" /\ job[t] \in Work => ~Written(job[t].harness))'
        BY <2>1, <2>6 DEF OnceInvariant, WrittenInTurn, Written
      <4> QED BY <4>2, <4>4, <4>5 DEF WrittenInTurn
    <3> QED BY <2>3, <3>3, <3>4, <3>5 DEF OnceInvariant
  <2> QED BY <1>2, <2>5, <2>6 DEF SendWork, work
<1>3. CASE WriteMetadata \/ CloseQueue \/ Report \/ MetadataFails \/ JoinNext
           \/ \E w \in Workers : RecvDisconnected(w)
  <2>1. ControlStep
    BY <1>3 DEF WriteMetadata, CloseQueue, Report, MetadataFails, JoinNext, RecvDisconnected,
                ControlStep, TypeOK
  <2>2. QuietStep
    <3>1. job[0] = Idle \/ tpc[0] \in {"write", "panicked"}
      BY DEF OnceInvariant, JobHeld
    <3>2. \A t \in Threads : tpc'[t] = "panicked" => tpc[t] = "panicked" \/ (t = 0 /\ tpc[0] \in {"codegen", "join"})
      BY <1>3 DEF WriteMetadata, CloseQueue, Report, MetadataFails, JoinNext, RecvDisconnected, TypeOK
    <3> QED BY <2>1, <3>1, <3>2 DEF QuietStep
  <2>3. MetadataLast'
    BY <1>3 DEF WriteMetadata, CloseQueue, Report, MetadataFails, JoinNext, RecvDisconnected,
                OnceInvariant, MetadataLast, TypeOK
  <2> QED BY <2>2, <2>3, QuietStepKeeps DEF OnceInvariant
<1>4. ASSUME NEW w \in Workers, Recv(w) PROVE OnceInvariant'
  <2> DEFINE work == Head(queue)
  <2>1. /\ tpc[w] = "recv" /\ queue' = Tail(queue) /\ queue # <<>>
        /\ UNCHANGED <<cur, disk, metadata>>
    BY <1>4 DEF Recv
  <2>2. /\ Len(queue) \in Nat \ {0} /\ DOMAIN queue = 1..Len(queue) /\ work = queue[1] /\ work \in Work
        /\ DOMAIN queue' = 1..(Len(queue) - 1)
        /\ \A j \in 1..(Len(queue) - 1) : queue'[j] = queue[j + 1] /\ j + 1 \in DOMAIN queue
    BY <2>1 DEF TypeOK
  <2> HIDE DEF work
  <2>3. /\ tpc'[w] = "write" /\ job'[w] = work /\ step'[w] = 1
        /\ \A t \in Threads \ {w} : tpc'[t] = tpc[t] /\ job'[t] = job[t] /\ step'[t] = step[t]
    BY <1>4 DEF Recv, IntoInner, work, TypeOK
  <2>4. JobHeld'
    BY <2>1, <2>2, <2>3 DEF OnceInvariant, JobHeld, InOnePlace
  <2>5. InOnePlace'
    <3>1. \A t \in Threads : job[t].harness # work.harness
      BY <2>2 DEF OnceInvariant, InOnePlace
    <3>2. \A j \in DOMAIN queue' : queue'[j].harness # work.harness
      BY <2>2 DEF OnceInvariant, InOnePlace
    <3>3. \A t, u \in Threads : job'[t].harness = job'[u].harness => t = u \/ job'[t].harness = 0
      BY <2>3, <3>1 DEF OnceInvariant, InOnePlace
    <3>4. \A i, j \in DOMAIN queue' : queue'[i].harness = queue'[j].harness => i = j
      <4> SUFFICES ASSUME NEW i \in DOMAIN queue', NEW j \in DOMAIN queue',
                          queue'[i].harness = queue'[j].harness
                   PROVE  i = j
        OBVIOUS
      <4>1. i + 1 \in DOMAIN queue /\ j + 1 \in DOMAIN queue /\ i \in Int /\ j \in Int
            /\ queue[i + 1].harness = queue[j + 1].harness
        BY <2>2
      <4>2. i + 1 = j + 1
        BY <4>1 DEF OnceInvariant, InOnePlace
      <4> QED BY <4>1, <4>2
    <3>5. \A t \in Threads, i \in DOMAIN queue' : job'[t].harness # queue'[i].harness
      <4> SUFFICES ASSUME NEW t \in Threads, NEW i \in DOMAIN queue'
                   PROVE  job'[t].harness # queue'[i].harness
        OBVIOUS
      <4>1. i + 1 \in DOMAIN queue /\ queue'[i] = queue[i + 1]
        BY <2>2
      <4>2. CASE t = w
        BY <2>3, <3>2, <4>2
      <4>3. CASE t # w
        BY <2>3, <4>1, <4>3 DEF OnceInvariant, InOnePlace
      <4> QED BY <4>2, <4>3
    <3>6. \A i \in DOMAIN queue' : queue'[i].harness < cur'
      BY <2>1, <2>2 DEF OnceInvariant, InOnePlace
    <3> QED BY <3>3, <3>4, <3>5, <3>6 DEF InOnePlace
  <2>6. WrittenInTurn'
    <3>1. \A h : (Untouched(h)' <=> Untouched(h)) /\ (Written(h)' <=> Written(h))
      BY <2>1 DEF Untouched, Written
    <3>2. \A i \in Steps : disk'[work.harness][i] = NoFile
      BY <2>1, <2>2 DEF OnceInvariant, WrittenInTurn, Untouched
    <3> QED BY <2>1, <2>2, <2>3, <3>1, <3>2 DEF OnceInvariant, WrittenInTurn
  <2>7. MetadataLast'
    BY <2>1, <2>3 DEF OnceInvariant, MetadataLast
  <2> QED BY <2>4, <2>5, <2>6, <2>7 DEF OnceInvariant
<1>5. ASSUME NEW t \in Threads, tpc[t] = "write", NEW left,
             disk' = [disk EXCEPT ![job[t].harness] = [@ EXCEPT ![step[t]] = left]],
             UNCHANGED <<cur, queue, metadata>>,
             \A u \in Threads \ {t} : tpc'[u] = tpc[u] /\ job'[u] = job[u] /\ step'[u] = step[u],
             \/ tpc'[t] = "write" /\ job'[t] = job[t] /\ step'[t] = step[t] + 1
             \/ tpc'[t] = (IF t = 0 THEN "codegen" ELSE "recv") /\ job'[t] = Idle
             \/ tpc'[t] = "panicked" /\ job'[t] = job[t] /\ left \in {NoFile, Partial}
      PROVE  OnceInvariant'
  <2> DEFINE h == job[t].harness
  <2>1. job[t] \in Work /\ h \in 1..N /\ step[t] \in Steps
    BY <1>5 DEF PoolInvariant, WrittenSoFar, Work, Harnesses, TypeOK
  <2>2. /\ disk'[h][step[t]] = left
        /\ \A g \in Harnesses, i \in Steps : g # h \/ i # step[t] => disk'[g][i] = disk[g][i]
    BY <1>5, <2>1, OneArtifact
  <2>3. \A g \in Harnesses : g # h => (Untouched(g)' <=> Untouched(g)) /\ (Written(g)' <=> Written(g))
    BY <2>2 DEF Untouched, Written
  <2>4. \A u \in Threads \ {t} : job[u].harness # h
    BY <2>1 DEF OnceInvariant, InOnePlace
  <2>5. Idle.harness = 0 /\ Idle \notin Work
    BY DEF Idle, Work, Harnesses
  <2>6. JobHeld'
    <3>1. 0 < cur
      BY DEF TypeOK
    <3> QED BY <1>5, <2>1, <2>5, <3>1 DEF OnceInvariant, JobHeld
  <2>7. InOnePlace'
    <3>1. job'[t].harness \in {h, 0} /\ \A i \in DOMAIN queue : queue[i].harness # 0
      BY <1>5, <2>5, Places
    <3>2. \A u, v \in Threads : job'[u].harness = job'[v].harness => u = v \/ job'[u].harness = 0
      BY <1>5, <2>4, <3>1 DEF OnceInvariant, InOnePlace
    <3>3. \A u \in Threads, i \in DOMAIN queue : job'[u].harness # queue[i].harness
      BY <1>5, <3>1 DEF OnceInvariant, InOnePlace
    <3> QED BY <1>5, <3>2, <3>3 DEF OnceInvariant, InOnePlace
  <2>8. WrittenInTurn'
    <3>1. \A g \in Harnesses : g >= cur' => Untouched(g)'
      BY <1>5, <2>1, <2>3 DEF OnceInvariant, WrittenInTurn, JobHeld, Harnesses, TypeOK
    <3>2. (\A i \in DOMAIN queue : Untouched(queue[i].harness))'
      <4>1. \A i \in DOMAIN queue : queue[i].harness \in Harnesses /\ queue[i].harness # h
        BY Places DEF OnceInvariant, InOnePlace, Harnesses
      <4>2. \A i \in DOMAIN queue, k \in Steps : disk[queue[i].harness][k] = NoFile
        BY DEF OnceInvariant, WrittenInTurn, Untouched
      <4>3. \A i \in DOMAIN queue, k \in Steps : disk'[queue[i].harness][k] = NoFile
        BY <2>2, <4>1, <4>2
      <4> QED BY <1>5, <4>3 DEF Untouched
    <3>3. ASSUME NEW u \in Threads, tpc'[u] = "write", NEW i \in Steps, i >= step'[u]
          PROVE  disk'[job'[u].harness][i] = NoFile
      <4>0. tpc[u] = "write" /\ job'[u] = job[u]
            /\ step'[u] = (IF u = t THEN step[u] + 1 ELSE step[u])
        BY <1>5, <3>3
      <4>1. tpc[u] = "write" /\ job'[u] = job[u] /\ i >= step[u]
            /\ job[u].harness \in Harnesses /\ (u = t => i # step[t])
        <5>1. i \in Int /\ step[u] \in Int
          BY ArtifactsAssumption DEF Steps, TypeOK
        <5>2. job[u].harness \in Harnesses
          BY <4>0 DEF PoolInvariant, WrittenSoFar, Work
        <5> QED BY <3>3, <4>0, <5>1, <5>2
      <4> QED BY <2>2, <2>4, <4>1 DEF OnceInvariant, WrittenInTurn
    <3>4. ASSUME NEW u \in Threads, tpc'[u] = "panicked", job'[u] \in Work
          PROVE  \E i \in Steps : disk'[job'[u].harness][i] \notin Ended(job'[u].harness)
      <4>1. CASE u = t
        <5>1. left \in {NoFile, Partial} /\ job'[u] = job[t]
          BY <1>5, <3>4, <4>1
        <5>2. left \notin Ended(h)
          BY <5>1, MissingIsNotEnded
        <5> QED BY <2>1, <2>2, <5>1, <5>2
      <4>2. CASE u # t
        <5>1. tpc[u] = "panicked" /\ job'[u] = job[u] /\ job[u].harness \in Harnesses
          BY <1>5, <3>4, <4>2 DEF Work
        <5>2. PICK i \in Steps : disk[job[u].harness][i] \notin Ended(job[u].harness)
          BY <3>4, <5>1 DEF OnceInvariant, WrittenInTurn, Written
        <5>3. disk'[job[u].harness][i] = disk[job[u].harness][i]
          BY <2>2, <2>4, <4>2, <5>1
        <5> QED BY <5>1, <5>2, <5>3
      <4> QED BY <4>1, <4>2
    <3>5. (\A u \in Threads : tpc[u] = "panicked" /\ job[u] \in Work => ~Written(job[u].harness))'
      BY <3>4 DEF Written
    <3> QED BY <3>1, <3>2, <3>3, <3>5 DEF WrittenInTurn
  <2>9. MetadataLast'
    BY <1>5 DEF OnceInvariant, MetadataLast
  <2> QED BY <2>6, <2>7, <2>8, <2>9 DEF OnceInvariant
<1>6. ASSUME NEW t \in Threads, WriteArtifact(t) PROVE OnceInvariant'
  <2>1. /\ \A u \in Threads \ {t} : tpc'[u] = tpc[u] /\ job'[u] = job[u] /\ step'[u] = step[u]
        /\ \/ tpc'[t] = "write" /\ job'[t] = job[t] /\ step'[t] = step[t] + 1
           \/ tpc'[t] = (IF t = 0 THEN "codegen" ELSE "recv") /\ job'[t] = Idle
    BY <1>6 DEF WriteArtifact, TypeOK
  <2> QED BY <1>5, <1>6, <2>1 DEF WriteArtifact
<1>7. ASSUME NEW t \in Threads, WritePanics(t) PROVE OnceInvariant'
  <2>1. PICK left \in {NoFile, Partial} :
           disk' = [disk EXCEPT ![job[t].harness] = [@ EXCEPT ![step[t]] = left]]
    BY <1>7 DEF WritePanics
  <2>2. /\ tpc'[t] = "panicked" /\ job'[t] = job[t]
        /\ \A u \in Threads \ {t} : tpc'[u] = tpc[u] /\ job'[u] = job[u] /\ step'[u] = step[u]
    BY <1>7 DEF WritePanics, TypeOK
  <2> QED BY <1>5, <1>7, <2>1, <2>2 DEF WritePanics
<1> QED BY <1>1, <1>2, <1>3, <1>4, <1>6, <1>7 DEF Next, MainStep, WorkerStep, HandleFile

\* Every harness is in one place, and every artifact is written in its turn.
THEOREM WrittenOnce == Spec => []OnceInvariant
BY TypeInit, TypeNext, PoolInvariantInit, PoolInvariantNext, OnceInit, OnceNext, PTL DEF Spec

-----------------------------------------------------------------------------

ExportedOf == {h \in Harnesses : Complete(h)}
DamagedOf == {h \in Harnesses : Written(h) /\ ~Complete(h)}
OutcomeOf ==
    CASE tpc[Main] = "report" -> "reported" [] tpc[Main] = "panicked" -> "aborted" [] OTHER -> "running"

\* The outcome, for provers without CASE.
LEMMA OutcomeIs ==
    /\ OutcomeOf = IF tpc[Main] = "report" THEN "reported"
                   ELSE IF tpc[Main] = "panicked" THEN "aborted" ELSE "running"
    /\ OutcomeOf' = IF tpc'[Main] = "report" THEN "reported"
                    ELSE IF tpc'[Main] = "panicked" THEN "aborted" ELSE "running"
BY DEF OutcomeOf

\* A step that AtomicExport does not see.
LEMMA StutterStep ==
    ASSUME ExportedOf' = ExportedOf, DamagedOf' = DamagedOf, Failed' = Failed,
           metadata' = metadata, OutcomeOf' = OutcomeOf
    PROVE  UNCHANGED Promise!vars
BY DEF Promise!vars, ExportedOf, DamagedOf, OutcomeOf

\* Control alone changes no file, and a panic without work is no failed harness.
LEMMA QuietFiles ==
    ASSUME TypeOK, TypeOK', QuietStep
    PROVE  ExportedOf' = ExportedOf /\ DamagedOf' = DamagedOf /\ Failed' = Failed
<1>1. disk' = disk /\ job' = job /\ DOMAIN tpc = Threads /\ DOMAIN tpc' = Threads
  BY DEF QuietStep, ControlStep, TypeOK
<1>2. ExportedOf' = ExportedOf /\ DamagedOf' = DamagedOf
  BY <1>1 DEF ExportedOf, DamagedOf, Complete, Written
<1>3. Idle.harness \notin Harnesses
  BY NAssumption DEF Idle, Harnesses
<1>4. Failed = {h \in Harnesses : \E t \in Threads : tpc[t] = "panicked" /\ job[t].harness = h}
  BY <1>1 DEF Failed
<1>5. Failed' = {h \in Harnesses : \E t \in Threads : tpc'[t] = "panicked" /\ job[t].harness = h}
  BY <1>1 DEF Failed
<1>6. \A t \in Threads : tpc[t] = "panicked" => tpc'[t] = "panicked"
  BY DEF QuietStep, ControlStep
<1>7. \A t \in Threads : tpc'[t] = "panicked" => tpc[t] = "panicked" \/ job[t] = Idle
  BY DEF QuietStep
<1> QED BY <1>2, <1>3, <1>4, <1>5, <1>6, <1>7

\* While a file is being written the crate is not reported, and the harness is
\* neither complete nor failed.
LEMMA WritingIsPending ==
    ASSUME TypeOK, PoolInvariant, OnceInvariant, NEW t \in Threads, tpc[t] = "write"
    PROVE  /\ job[t] \in Work /\ job[t].harness \in Harnesses
           /\ OutcomeOf # "reported"
           /\ job[t].harness \notin ExportedOf \cup DamagedOf \cup Failed
<1> USE PoolSizeNat, NAssumption DEF Threads, Workers, Main
<1>1. job[t] \in Work /\ job[t].harness \in Harnesses
  BY DEF PoolInvariant, WrittenSoFar, Work
<1>2. tpc[0] # "report"
  <2>1. ASSUME tpc[0] = "report" PROVE \A w \in 1..PoolSize : tpc[w] = "exited"
    BY <2>1 DEF PoolInvariant, ShutdownOrder
  <2> QED BY <2>1
<1>3. job[t].harness \notin ExportedOf \cup DamagedOf
  <2>1. step[t] \in Steps /\ step[t] >= step[t]
    BY ArtifactsAssumption DEF TypeOK, Steps
  <2>2. disk[job[t].harness][step[t]] = NoFile
    BY <2>1 DEF OnceInvariant, WrittenInTurn
  <2> QED BY <2>1, <2>2, MissingIsNotEnded DEF ExportedOf, DamagedOf, Complete, Written, Ended
<1>4. job[t].harness \notin Failed
  <2>1. DOMAIN tpc = Threads /\ job[t].harness # 0
    BY <1>1 DEF TypeOK, Harnesses
  <2>2. \A u \in Threads : job[u].harness = job[t].harness => u = t
    BY <2>1 DEF OnceInvariant, InOnePlace
  <2> QED BY <2>1, <2>2 DEF Failed
<1> QED BY <1>1, <1>2, <1>3, <1>4, OutcomeIs

SameFiles(g) == (g \in ExportedOf' <=> g \in ExportedOf) /\ (g \in DamagedOf' <=> g \in DamagedOf)

\* Writing an artifact completes at most the harness it belongs to.
LEMMA WriteFiles ==
    ASSUME TypeOK, NEW t \in Threads, job[t] \in Work, NEW left,
           disk' = [disk EXCEPT ![job[t].harness] = [@ EXCEPT ![step[t]] = left]]
    PROVE  \A g \in Harnesses : g # job[t].harness => SameFiles(g)
<1>1. \A g \in Harnesses, i \in Steps :
         g # job[t].harness \/ i # step[t] => disk'[g][i] = disk[g][i]
  BY OneArtifact
<1> QED BY <1>1 DEF SameFiles, ExportedOf, DamagedOf, Complete, Written

\* Every step of the pool is one that AtomicExport allows, or is not seen there.
LEMMA StepImplements ==
    TypeOK /\ PoolInvariant /\ OnceInvariant /\ TypeOK' /\ [Next]_vars
        => [Promise!Next]_(Promise!vars)
<1> SUFFICES ASSUME TypeOK, PoolInvariant, OnceInvariant, TypeOK', [Next]_vars
             PROVE  Promise!Next \/ UNCHANGED Promise!vars
  OBVIOUS
<1> USE PoolSizeNat, NAssumption DEF Threads, Workers, Main
<1>1. CASE CodegenName \/ UNCHANGED vars
  <2>1. UNCHANGED <<tpc, job, disk, metadata>>
    BY <1>1 DEF CodegenName, vars
  <2>2. ExportedOf' = ExportedOf /\ DamagedOf' = DamagedOf /\ Failed' = Failed /\ OutcomeOf' = OutcomeOf
    BY <2>1, OutcomeIs DEF ExportedOf, DamagedOf, Complete, Written, Failed
  <2> QED BY <2>1, <2>2, StutterStep
<1>2. ASSUME NEW t \in Threads, NEW work, IntoInner(t, work), disk' = disk, metadata' = metadata,
             tpc[t] \in {"codegen", "recv"}
      PROVE  UNCHANGED Promise!vars
  <2>1. /\ tpc'[t] = "write" /\ DOMAIN tpc = Threads /\ DOMAIN tpc' = Threads
        /\ \A u \in Threads \ {t} : tpc'[u] = tpc[u] /\ job'[u] = job[u]
    BY <1>2 DEF IntoInner, TypeOK
  <2>2. ExportedOf' = ExportedOf /\ DamagedOf' = DamagedOf
    BY <1>2 DEF ExportedOf, DamagedOf, Complete, Written
  <2>3. Failed' = Failed
    BY <1>2, <2>1 DEF Failed
  <2>4. OutcomeOf' = OutcomeOf
    BY <1>2, <2>1, OutcomeIs
  <2> QED BY <1>2, <2>2, <2>3, <2>4, StutterStep
<1>3. CASE SendWork
  <2>1. tpc[0] = "codegen" /\ disk' = disk /\ metadata' = metadata
    BY <1>3 DEF SendWork
  <2>2. CASE IntoInner(0, WithCurrentInterner)
    BY <1>2, <2>1, <2>2
  <2>3. CASE UNCHANGED <<tpc, interner, job, step>>
    <3>1. ExportedOf' = ExportedOf /\ DamagedOf' = DamagedOf /\ Failed' = Failed /\ OutcomeOf' = OutcomeOf
      BY <2>1, <2>3, OutcomeIs DEF ExportedOf, DamagedOf, Complete, Written, Failed
    <3> QED BY <2>1, <3>1, StutterStep
  <2> QED BY <1>3, <2>2, <2>3 DEF SendWork
<1>4. ASSUME NEW w \in Workers, Recv(w) PROVE UNCHANGED Promise!vars
  BY <1>2, <1>4 DEF Recv
<1>5. CASE WriteMetadata \/ CloseQueue \/ Report \/ MetadataFails \/ JoinNext
           \/ \E w \in Workers : RecvDisconnected(w)
  <2>1. ControlStep
    BY <1>5 DEF WriteMetadata, CloseQueue, Report, MetadataFails, JoinNext, RecvDisconnected,
                ControlStep, TypeOK
  <2>2. QuietStep
    <3>1. job[0] = Idle \/ tpc[0] \in {"write", "panicked"}
      BY DEF OnceInvariant, JobHeld
    <3>2. \A t \in Threads : tpc'[t] = "panicked" => tpc[t] = "panicked" \/ (t = 0 /\ tpc[0] \in {"codegen", "join"})
      BY <1>5 DEF WriteMetadata, CloseQueue, Report, MetadataFails, JoinNext, RecvDisconnected, TypeOK
    <3> QED BY <2>1, <3>1, <3>2 DEF QuietStep
  <2>3. ExportedOf' = ExportedOf /\ DamagedOf' = DamagedOf /\ Failed' = Failed
    BY <2>2, QuietFiles
  <2>4. CASE WriteMetadata
    <3>1. /\ tpc[0] = "codegen" /\ tpc'[0] = "close" /\ metadata = "none" /\ metadata' \in {"full", "cut"}
      BY <2>4 DEF WriteMetadata, OnceInvariant, MetadataLast, TypeOK
    <3>2. OutcomeOf = "running" /\ OutcomeOf' = OutcomeOf
      BY <3>1, OutcomeIs
    <3>3. Promise!WriteMetadata
      BY <2>3, <3>1, <3>2 DEF Promise!WriteMetadata, ExportedOf, DamagedOf, OutcomeOf
    <3> QED BY <3>3 DEF Promise!Next
  <2>5. CASE MetadataFails
    <3>1. /\ tpc[0] = "codegen" /\ tpc'[0] = "panicked" /\ metadata = "none" /\ metadata' = metadata
      BY <2>5 DEF MetadataFails, OnceInvariant, MetadataLast, TypeOK
    <3>2. OutcomeOf = "running" /\ OutcomeOf' = "aborted"
      BY <3>1, OutcomeIs
    <3>3. Promise!Abort
      BY <2>3, <3>1, <3>2 DEF Promise!Abort, ExportedOf, DamagedOf, OutcomeOf
    <3> QED BY <3>3 DEF Promise!Next
  <2>6. CASE JoinNext
    <3>1. tpc[0] = "join" /\ metadata' = metadata /\ joined + 1 \in 1..PoolSize
      BY <2>6 DEF JoinNext, TypeOK
    <3>2. CASE tpc' = tpc
      <4>1. OutcomeOf' = OutcomeOf
        BY <3>2, OutcomeIs
      <4> QED BY <2>3, <3>1, <4>1, StutterStep
    <3>3. CASE tpc[joined + 1] = "panicked" /\ tpc'[0] = "panicked"
      <4>1. OutcomeOf = "running" /\ OutcomeOf' = "aborted"
        BY <3>1, <3>3, OutcomeIs
      <4>2. joined + 1 \in Threads /\ joined + 1 # 0 /\ DOMAIN tpc = Threads
        BY <3>1 DEF TypeOK
      <4>3. job[joined + 1] \in Work
        BY <3>3, <4>2 DEF OnceInvariant, JobHeld
      <4>4. job[joined + 1].harness \in Failed
        BY <3>3, <4>2, <4>3 DEF Failed, Work
      <4>5. Promise!Abort
        BY <2>3, <3>1, <4>1, <4>4 DEF Promise!Abort, ExportedOf, DamagedOf, OutcomeOf
      <4> QED BY <4>5 DEF Promise!Next
    <3> QED BY <2>6, <3>2, <3>3 DEF JoinNext, TypeOK
  <2>7. CASE Report
    <3>1. tpc[0] = "join" /\ joined = PoolSize /\ tpc'[0] = "report" /\ metadata' = metadata
      BY <2>7 DEF Report, TypeOK
    <3>2. metadata # "none" /\ ExportedOf \cup DamagedOf = Harnesses
      BY <3>1, JoinedComplete DEF ExportedOf, DamagedOf
    <3>3. OutcomeOf = "running" /\ OutcomeOf' = "reported"
      BY <3>1, OutcomeIs
    <3>4. Promise!Report
      BY <2>3, <3>1, <3>2, <3>3 DEF Promise!Report, ExportedOf, DamagedOf, OutcomeOf
    <3> QED BY <3>4 DEF Promise!Next
  <2>8. CASE CloseQueue \/ \E w \in Workers : RecvDisconnected(w)
    <3>1. /\ metadata' = metadata
          /\ tpc'[0] = tpc[0] \/ (tpc[0] = "close" /\ tpc'[0] = "join")
      BY <2>8 DEF CloseQueue, RecvDisconnected, TypeOK
    <3>2. OutcomeOf' = OutcomeOf
      BY <3>1, OutcomeIs
    <3> QED BY <2>3, <3>1, <3>2, StutterStep
  <2> QED BY <1>5, <2>4, <2>5, <2>6, <2>7, <2>8
<1>6. ASSUME NEW t \in Threads, WriteArtifact(t) PROVE Promise!Next \/ UNCHANGED Promise!vars
  <2> DEFINE h == job[t].harness
  <2>1. tpc[t] = "write" /\ metadata' = metadata
    BY <1>6 DEF WriteArtifact
  <2>2. job[t] \in Work /\ h \in Harnesses /\ OutcomeOf # "reported" /\ h \notin ExportedOf \cup DamagedOf \cup Failed
    BY <2>1, WritingIsPending
  <2>3. \A g \in Harnesses : g # h => SameFiles(g)
    <3>1. PICK left : disk' = [disk EXCEPT ![job[t].harness] = [@ EXCEPT ![step[t]] = left]]
      BY <1>6 DEF WriteArtifact
    <3> QED BY <2>2, <3>1, WriteFiles
  <2>4. /\ tpc'[t] \in {"write", "codegen", "recv"} /\ DOMAIN tpc = Threads /\ DOMAIN tpc' = Threads
        /\ \A u \in Threads \ {t} : tpc'[u] = tpc[u] /\ job'[u] = job[u]
    BY <1>6 DEF WriteArtifact, TypeOK
  <2>5. Failed' = Failed
    BY <2>1, <2>4 DEF Failed
  <2>6. OutcomeOf' = OutcomeOf
    BY <2>1, <2>4, OutcomeIs
  <2> HIDE DEF h
  <2>7. ExportedOf \cup DamagedOf \subseteq Harnesses /\ ExportedOf' \cup DamagedOf' \subseteq Harnesses
    BY DEF ExportedOf, DamagedOf
  <2>8. CASE h \in ExportedOf'
    <3>1. h \notin DamagedOf'
      BY <2>8 DEF ExportedOf, DamagedOf
    <3>2. ExportedOf' = ExportedOf \cup {h} /\ DamagedOf' = DamagedOf
      BY <2>2, <2>3, <2>7, <2>8, <3>1 DEF SameFiles
    <3>3. Promise!Export(h)
      BY <2>1, <2>2, <2>5, <2>6, <3>2 DEF Promise!Export, Promise!Settled, ExportedOf, DamagedOf, OutcomeOf
    <3> QED BY <2>2, <3>3 DEF Promise!Next
  <2>9. CASE h \in DamagedOf'
    <3>1. h \notin ExportedOf'
      BY <2>9 DEF ExportedOf, DamagedOf
    <3>2. DamagedOf' = DamagedOf \cup {h} /\ ExportedOf' = ExportedOf
      BY <2>2, <2>3, <2>7, <2>9, <3>1 DEF SameFiles
    <3>3. Promise!Export(h)
      BY <2>1, <2>2, <2>5, <2>6, <3>2 DEF Promise!Export, Promise!Settled, ExportedOf, DamagedOf, OutcomeOf
    <3> QED BY <2>2, <3>3 DEF Promise!Next
  <2>10. CASE h \notin ExportedOf' \cup DamagedOf'
    <3>1. ExportedOf' = ExportedOf /\ DamagedOf' = DamagedOf
      BY <2>2, <2>3, <2>7, <2>10 DEF SameFiles
    <3> QED BY <2>1, <2>5, <2>6, <3>1, StutterStep
  <2> QED BY <2>8, <2>9, <2>10
<1>7. ASSUME NEW t \in Threads, WritePanics(t) PROVE Promise!Next
  <2> DEFINE h == job[t].harness
  <2>1. tpc[t] = "write" /\ metadata' = metadata /\ job' = job
    BY <1>7 DEF WritePanics
  <2>2. job[t] \in Work /\ h \in Harnesses /\ OutcomeOf # "reported" /\ h \notin ExportedOf \cup DamagedOf \cup Failed
    BY <2>1, WritingIsPending
  <2>3. PICK left \in {NoFile, Partial} :
           disk' = [disk EXCEPT ![job[t].harness] = [@ EXCEPT ![step[t]] = left]]
    BY <1>7 DEF WritePanics
  <2>4. \A g \in Harnesses : g # h => SameFiles(g)
    BY <2>2, <2>3, WriteFiles
  <2>5. h \notin ExportedOf' \cup DamagedOf'
    <3>1. disk'[h][step[t]] = left /\ step[t] \in Steps
      BY <2>2, <2>3, OneArtifact DEF TypeOK
    <3> QED BY <2>3, <3>1, MissingIsNotEnded DEF ExportedOf, DamagedOf, Complete, Written, Ended
  <2>6. /\ tpc'[t] = "panicked" /\ DOMAIN tpc = Threads /\ DOMAIN tpc' = Threads
        /\ \A u \in Threads \ {t} : tpc'[u] = tpc[u]
    BY <1>7 DEF WritePanics, TypeOK
  <2>7. Failed' = Failed \cup {h}
    BY <2>1, <2>2, <2>6 DEF Failed
  <2>8. OutcomeOf' \in {OutcomeOf, "aborted"}
    BY <2>1, <2>6, OutcomeIs
  <2> HIDE DEF h
  <2>9. ExportedOf' = ExportedOf /\ DamagedOf' = DamagedOf
    <3>1. ExportedOf \cup DamagedOf \subseteq Harnesses /\ ExportedOf' \cup DamagedOf' \subseteq Harnesses
      BY DEF ExportedOf, DamagedOf
    <3> QED BY <2>2, <2>4, <2>5, <3>1 DEF SameFiles
  <2>10. Promise!Fail(h)
    BY <2>1, <2>2, <2>7, <2>8, <2>9 DEF Promise!Fail, Promise!Settled, ExportedOf, DamagedOf, OutcomeOf
  <2> QED BY <2>2, <2>10 DEF Promise!Next
<1> QED BY <1>1, <1>3, <1>4, <1>5, <1>6, <1>7 DEF Next, MainStep, WorkerStep, HandleFile

\* The pool starts where AtomicExport does.
LEMMA InitImplements == Init => Promise!Init
<1> SUFFICES ASSUME Init PROVE Promise!Init
  OBVIOUS
<1> USE PoolSizeNat, NAssumption DEF Threads, Workers, Main
<1>1. 1 \in Steps
  BY ArtifactsAssumption DEF Steps
<1>2. \A h \in Harnesses : disk[h][1] = NoFile
  BY <1>1 DEF Init
<1>3. ExportedOf = {} /\ DamagedOf = {}
  BY <1>1, <1>2, MissingIsNotEnded DEF ExportedOf, DamagedOf, Complete, Written, Ended
<1>4. Failed = {}
  BY DEF Init, Failed
<1>5. OutcomeOf = "running" /\ metadata = "none"
  BY OutcomeIs DEF Init
<1> QED BY <1>3, <1>4, <1>5 DEF Promise!Init, ExportedOf, DamagedOf, OutcomeOf

\* The pool keeps the promise of AtomicExport, its fairness aside: for every number
\* of harnesses, threads and files, and however the writes interleave, the files of
\* a harness appear once and stay, lacking at most the end a lost flush cost; the crate is reported only with all of
\* them and its metadata, and given up only for a failure.
THEOREM PoolImplements == Spec => Promise!Init /\ [][Promise!Next]_(Promise!vars)
<1>1. Spec => [](TypeOK /\ PoolInvariant /\ OnceInvariant)
  BY TypeCorrect, PoolInvariantHolds, WrittenOnce, PTL
<1> QED BY <1>1, StepImplements, InitImplements, PTL DEF Spec
=============================================================================
