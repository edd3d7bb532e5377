--------------------------- MODULE FileWritingPool ---------------------------
(***************************************************************************)
(* The export of goto files by kani-compiler.  The main compiler thread    *)
(* generates the symbol table of one harness after the other              *)
(* (codegen_items), packages each with a snapshot of its thread-local      *)
(* string interner (WithInterner) and sends it to a pool of file-writing   *)
(* threads, or writes it itself when the pool is empty.  Then it writes    *)
(* the metadata of the crate, closes the channel and joins the pool.       *)
(*                                                                         *)
(* A name is an element of Strings, a symbol (InternedString) is an index  *)
(* into the interner of the thread that reads it.                          *)
(***************************************************************************)
EXTENDS Integers, Sequences

CONSTANTS
    N,                     \* number of harnesses of the crate
    AvailableParallelism,  \* std::thread::available_parallelism()
    MaxExportThreads,      \* MAX_SENSIBLE_FILE_EXPORT_THREADS
    Strings,               \* the names a symbol can stand for
    Names,                 \* Names[h]: the names codegen interns for harness h
    IrepName,              \* a name that only serialization interns
    Artifacts              \* the files handle_file writes, in its order

ASSUME NAssumption == N \in Nat
ASSUME ParallelismAssumption == AvailableParallelism \in Nat \ {0}
ASSUME ExportThreadsAssumption == MaxExportThreads \in Nat
ASSUME NamesAssumption == Names \in [1..N -> Seq(Strings)]
ASSUME IrepNameAssumption == IrepName \in Strings
ASSUME ArtifactsAssumption == Artifacts \in Seq(STRING) /\ Len(Artifacts) > 0

VARIABLES
    tpc,       \* control state of every thread
    cur,       \* main: the harness being generated
    pos,       \* main: the next name of Names[cur] to intern
    syms,      \* main: the symbols the data of harness cur refers to
    interner,  \* the thread-local INTERNER of every thread
    queue,     \* the channel: work sent and not yet received
    open,      \* whether the channel still has its sender
    job,       \* the work a thread is writing
    step,      \* the artifact of job a thread writes next
    disk,      \* what is on disk, for each harness and artifact
    metadata,  \* what write_metadata has left of the crate metadata
    joined     \* how many workers main has joined

vars == <<tpc, cur, pos, syms, interner, queue, open, job, step, disk,
          metadata, joined>>

-----------------------------------------------------------------------------

Lesser(a, b) == IF a < b THEN a ELSE b

\* thread_pool_size: one of the threads that can be of use is the main thread.
PoolSize ==
    LET maxTotal == Lesser(AvailableParallelism, N)
        saturatingSub == IF maxTotal = 0 THEN 0 ELSE maxTotal - 1
    IN  Lesser(saturatingSub, MaxExportThreads)

Main == 0
Workers == 1..PoolSize
Threads == {Main} \cup Workers
Harnesses == 1..N
Steps == 1..Len(Artifacts)

Elems(seq) == {seq[i] : i \in DOMAIN seq}
NamesOf(h) == Elems(Names[h])

\* InternedString::from: get_or_intern in the interner of the current thread.
Intern(in, s) == IF s \in Elems(in) THEN in ELSE Append(in, s)
SymbolOf(in, s) == CHOOSE i \in DOMAIN in : in[i] = s

\* InternedString::map: what symbols stand for in a given interner.
Resolve(in, symbols) == {in[i] : i \in symbols}

Work == [harness : Harnesses, syms : SUBSET Nat, interner : Seq(Strings)]
Idle == [harness |-> 0, syms |-> {}, interner |-> <<>>]

\* What a file may hold.  Partial is what a panic leaves.  Cut is what a lost
\* flush leaves: the BufWriter is dropped without flush(), and its drop throws
\* away the error of writing the last buffer, so nothing panics.
NoFile == [state |-> "none", names |-> {}]
Partial == [state |-> "partial", names |-> {}]
Cut == [state |-> "cut", names |-> {}]
Full(names) == [state |-> "full", names |-> names]

\* Mutant: the work is packaged with an interner that was never filled.
WithEmptyInterner == [harness |-> cur, syms |-> syms, interner |-> <<>>]

\* WithInterner::new_with_current
WithCurrentInterner == [harness |-> cur, syms |-> syms, interner |-> interner[Main]]

\* WithInterner::into_inner on thread t
IntoInner(t, work) ==
    /\ interner' = [interner EXCEPT ![t] = work.interner]
    /\ job' = [job EXCEPT ![t] = work]
    /\ step' = [step EXCEPT ![t] = 1]
    /\ tpc' = [tpc EXCEPT ![t] = "write"]

-----------------------------------------------------------------------------

\* add_workers: the channel is open and every worker waits for work.
Init ==
    /\ tpc = [t \in Threads |-> IF t = Main THEN "codegen" ELSE "recv"]
    /\ cur = 1 /\ pos = 1 /\ syms = {}
    /\ interner = [t \in Threads |-> <<>>]
    /\ queue = <<>> /\ open = TRUE
    /\ job = [t \in Threads |-> Idle]
    /\ step = [t \in Threads |-> 1]
    /\ disk = [h \in Harnesses |-> [i \in Steps |-> NoFile]]
    /\ metadata = "none" /\ joined = 0

\* codegen_items, generating code: one more name of the harness is interned.
CodegenName ==
    /\ tpc[Main] = "codegen" /\ cur <= N
    /\ pos <= Len(Names[cur])
    /\ LET s == Names[cur][pos]
           in == Intern(interner[Main], s)
       IN  /\ interner' = [interner EXCEPT ![Main] = in]
           /\ syms' = syms \cup {SymbolOf(in, s)}
    /\ pos' = pos + 1
    /\ UNCHANGED <<tpc, cur, queue, open, job, step, disk, metadata, joined>>

\* The end of codegen_items: the data is packaged and given to send_work,
\* which handles it on the spot when the pool has no worker.
SendWork ==
    /\ tpc[Main] = "codegen" /\ cur <= N
    /\ pos > Len(Names[cur])
    /\ cur' = cur + 1 /\ pos' = 1 /\ syms' = {}
    /\ \/ /\ PoolSize = 0
          /\ IntoInner(Main, WithCurrentInterner)
          /\ UNCHANGED queue
       \/ /\ PoolSize > 0
          /\ queue' = Append(queue, WithCurrentInterner)
          /\ UNCHANGED <<tpc, interner, job, step>>
    /\ UNCHANGED <<open, disk, metadata, joined>>

\* The units are exhausted: units.write_metadata, before the pool is joined.
\* Its last flush may be lost too.
WriteMetadata ==
    /\ tpc[Main] = "codegen" /\ cur > N
    /\ metadata' \in {"full", "cut"}
    /\ tpc' = [tpc EXCEPT ![Main] = "close"]
    /\ UNCHANGED <<cur, pos, syms, interner, queue, open, job, step, disk, joined>>

\* write_metadata fails: the unwrap of the file creation panics.
MetadataFails ==
    /\ tpc[Main] = "codegen" /\ cur > N
    /\ tpc' = [tpc EXCEPT ![Main] = "panicked"]
    /\ UNCHANGED <<cur, pos, syms, interner, queue, open, job, step, disk,
                   metadata, joined>>

\* Mutant: the sender is kept while the workers are joined.
JoinWithoutClosing ==
    /\ tpc[Main] = "close"
    /\ tpc' = [tpc EXCEPT ![Main] = "join"]
    /\ UNCHANGED <<cur, pos, syms, interner, queue, open, job, step, disk, metadata, joined>>

\* join_all drops the sender, which disconnects the channel.
CloseQueue ==
    /\ tpc[Main] = "close"
    /\ open' = FALSE
    /\ tpc' = [tpc EXCEPT ![Main] = "join"]
    /\ UNCHANGED <<cur, pos, syms, interner, queue, job, step, disk, metadata, joined>>

\* Mutant: the result of join is dropped, a panicked worker counts as joined.
JoinIgnoringPanics ==
    /\ tpc[Main] = "join" /\ joined < PoolSize
    /\ tpc[joined + 1] \in {"exited", "panicked"}
    /\ joined' = joined + 1
    /\ UNCHANGED <<tpc, cur, pos, syms, interner, queue, open, job, step, disk, metadata>>

\* handle.join().unwrap(), in the order of join_handles.
JoinNext ==
    /\ tpc[Main] = "join" /\ joined < PoolSize
    /\ \/ /\ tpc[joined + 1] = "exited"
          /\ joined' = joined + 1
          /\ UNCHANGED tpc
       \/ /\ tpc[joined + 1] = "panicked"
          /\ tpc' = [tpc EXCEPT ![Main] = "panicked"]
          /\ UNCHANGED joined
    /\ UNCHANGED <<cur, pos, syms, interner, queue, open, job, step, disk, metadata>>

\* Every worker is joined: codegen_crate reports and the driver may go on.
Report ==
    /\ tpc[Main] = "join" /\ joined = PoolSize
    /\ tpc' = [tpc EXCEPT ![Main] = "report"]
    /\ UNCHANGED <<cur, pos, syms, interner, queue, open, job, step, disk,
                   metadata, joined>>

-----------------------------------------------------------------------------

\* worker_loop receives work; into_inner replaces the interner of the worker.
Recv(w) ==
    /\ tpc[w] = "recv" /\ queue # <<>>
    /\ queue' = Tail(queue)
    /\ IntoInner(w, Head(queue))
    /\ UNCHANGED <<cur, pos, syms, open, disk, metadata, joined>>

\* recv returns an error: nothing is left and the sender is gone.
RecvDisconnected(w) ==
    /\ tpc[w] = "recv" /\ queue = <<>> /\ ~open
    /\ tpc' = [tpc EXCEPT ![w] = "exited"]
    /\ UNCHANGED <<cur, pos, syms, interner, queue, open, job, step, disk,
                   metadata, joined>>

\* handle_file writes its next artifact, whose end may be lost without a word.
\* Serializing the goto binary interns names of its own in the interner of the
\* thread that does it.
WriteArtifact(t) ==
    /\ tpc[t] = "write"
    /\ job[t].syms \subseteq DOMAIN interner[t]
    /\ \E left \in {Full(Resolve(interner[t], job[t].syms)), Cut} :
          disk' = [disk EXCEPT ![job[t].harness] = [@ EXCEPT ![step[t]] = left]]
    /\ interner' = [interner EXCEPT ![t] =
                      IF Artifacts[step[t]] = "SymTabGoto" THEN Intern(@, IrepName) ELSE @]
    /\ \/ /\ step[t] < Len(Artifacts)
          /\ step' = [step EXCEPT ![t] = @ + 1]
          /\ UNCHANGED <<tpc, job>>
       \/ /\ step[t] = Len(Artifacts)
          /\ step' = [step EXCEPT ![t] = 1]
          /\ job' = [job EXCEPT ![t] = Idle]
          /\ tpc' = [tpc EXCEPT ![t] = IF t = Main THEN "codegen" ELSE "recv"]
    /\ UNCHANGED <<cur, pos, syms, queue, open, metadata, joined>>

\* An unwrap in handle_file panics (the file cannot be created or written, or
\* a symbol does not resolve); the file is missing or cut short.
WritePanics(t) ==
    /\ tpc[t] = "write"
    /\ \E left \in {NoFile, Partial} :
          disk' = [disk EXCEPT ![job[t].harness] = [@ EXCEPT ![step[t]] = left]]
    /\ tpc' = [tpc EXCEPT ![t] = "panicked"]
    /\ UNCHANGED <<cur, pos, syms, interner, queue, open, job, step, metadata, joined>>

-----------------------------------------------------------------------------

MainStep ==
    CodegenName \/ SendWork \/ WriteMetadata \/ MetadataFails \/ CloseQueue \/ JoinNext \/ Report

WorkerStep(w) == Recv(w) \/ RecvDisconnected(w)

HandleFile(t) == WriteArtifact(t) \/ WritePanics(t)

\* The process is over: main has reported or panicked.
Terminated == tpc[Main] \in {"report", "panicked"}

Next ==
    \/ MainStep
    \/ \E w \in Workers : WorkerStep(w)
    \/ \E t \in Threads : HandleFile(t)
    \/ Terminated /\ UNCHANGED vars

\* Threads of the operating system: each one that can take a step takes it.
Fairness ==
    /\ WF_vars(MainStep)
    /\ \A w \in Workers : WF_vars(WorkerStep(w))
    /\ \A t \in Threads : WF_vars(HandleFile(t))

Spec == Init /\ [][Next]_vars
FairSpec == Spec /\ Fairness

-----------------------------------------------------------------------------

File == [state : {"none", "partial", "cut", "full"}, names : SUBSET Strings]

\* Every variable has its type.
TypeOK ==
    /\ tpc \in [Threads -> {"codegen", "write", "close", "join", "report",
                            "recv", "exited", "panicked"}]
    /\ tpc[Main] \notin {"recv", "exited"}
    /\ \A w \in Workers : tpc[w] \in {"recv", "write", "exited", "panicked"}
    /\ cur \in 1..(N + 1) /\ pos \in Nat \ {0} /\ syms \in SUBSET Nat
    /\ interner \in [Threads -> Seq(Strings)]
    /\ queue \in Seq(Work) /\ open \in BOOLEAN
    /\ job \in [Threads -> Work \cup {Idle}]
    /\ step \in [Threads -> Steps]
    /\ disk \in [Harnesses -> [Steps -> File]]
    /\ metadata \in {"none", "cut", "full"} /\ joined \in 0..PoolSize

\* What a write that returned leaves of a file of harness h.
Ended(h) == {Full(NamesOf(h)), Cut}

Complete(h) == \A i \in Steps : disk[h][i] = Full(NamesOf(h))
Written(h) == \A i \in Steps : disk[h][i] \in Ended(h)

\* When codegen_crate gets past join_all ("to ensure all goto files have been
\* written before moving on to verification"), every artifact of every harness
\* has been written to its end and says what the code generated for that harness
\* said, whichever thread wrote it and whatever that thread had written before.
\* One thing may be missing then, and nothing else: the end of a file whose
\* BufWriter met an error in its drop (write_file, write_goto_binary_file never
\* flush), of which the report says nothing.
ReportedComplete ==
    tpc[Main] = "report" => metadata # "none" /\ \A h \in Harnesses : Written(h)

\* The interner handed over with the work makes the symbols of the work mean
\* the same names in the thread that writes it as in the thread that made it,
\* although the two interners have grown differently in the meantime.
InternerCoherence ==
    \A t \in Threads : tpc[t] = "write" =>
        /\ job[t].syms \subseteq DOMAIN interner[t]
        /\ Resolve(interner[t], job[t].syms) = NamesOf(job[t].harness)

Coherent(in, symbols, names) ==
    symbols \subseteq DOMAIN in /\ Resolve(in, symbols) = names

FirstNames(h, n) == {Names[h][k] : k \in 1..n}

\* What codegen_items has interned for the current harness so far.
MainDataCoherent ==
    cur <= N =>
        /\ pos <= Len(Names[cur]) + 1
        /\ Coherent(interner[Main], syms, FirstNames(cur, pos - 1))

QueueCoherent ==
    \A i \in DOMAIN queue :
        Coherent(queue[i].interner, queue[i].syms, NamesOf(queue[i].harness))

SomePanic == \E t \in Threads : tpc[t] = "panicked"
Queued(h) == \E i \in DOMAIN queue : queue[i].harness = h
BeingWritten(h) == \E t \in Threads : tpc[t] = "write" /\ job[t].harness = h

\* The artifacts before step are the ones the thread has written.
WrittenSoFar ==
    \A t \in Threads : tpc[t] = "write" =>
        /\ job[t] \in Work
        /\ \/ SomePanic
           \/ \A i \in 1..(step[t] - 1) :
                  disk[job[t].harness][i] \in Ended(job[t].harness)

\* No harness main has sent is forgotten, unless some thread has panicked.
Accounted ==
    \A h \in 1..(cur - 1) : SomePanic \/ Written(h) \/ Queued(h) \/ BeingWritten(h)

\* How far main is, and what the state of the channel tells about it.
ShutdownOrder ==
    /\ tpc[Main] \in {"codegen", "write", "close"} => open
    /\ tpc[Main] \in {"join", "report"} => ~open
    /\ tpc[Main] \in {"close", "join", "report"} => cur = N + 1 /\ metadata # "none"
    /\ \A w \in Workers : tpc[w] = "exited" => queue = <<>> /\ ~open
    /\ \A w \in 1..joined : tpc[w] = "exited"
    /\ tpc[Main] = "report" => joined = PoolSize
    /\ PoolSize = 0 => queue = <<>>

\* The inductive invariant behind ReportedComplete: every harness sent to the
\* pool is written, in the channel or with a thread that writes it,
\* with an interner in which its symbols mean what they meant to codegen.
PoolInvariant ==
    /\ MainDataCoherent /\ QueueCoherent /\ InternerCoherence
    /\ WrittenSoFar /\ Accounted /\ ShutdownOrder

\* A symbol the main thread has handed out keeps its meaning: into_inner on
\* the main thread (empty pool) may replace its interner, but only by one that
\* extends what was there.
MainInternerGrows ==
    [][ /\ Len(interner[Main]) <= Len(interner'[Main])
        /\ \A i \in DOMAIN interner[Main] : interner'[Main][i] = interner[Main][i] ]_vars

\* The harnesses one of whose files some thread could not write.
Failed == {h \in Harnesses : \E t \in DOMAIN tpc : tpc[t] = "panicked" /\ job[t].harness = h}

\* The pool promises what AtomicExport says: seen from outside the files of a
\* harness appear at once and stay, whole or with the end of one of them lost,
\* whichever thread writes them and however the writes of several harnesses
\* interleave; the compiler reports success only with all of them, gives up only
\* for a failure, and ends: join_all never waits for ever on a worker that waits
\* for work.
Promise == INSTANCE AtomicExport WITH
    exported <- {h \in Harnesses : Complete(h)},
    damaged <- {h \in Harnesses : Written(h) /\ ~Complete(h)},
    failed <- Failed,
    outcome <- CASE tpc[Main] = "report" -> "reported"
                 [] tpc[Main] = "panicked" -> "aborted"
                 [] OTHER -> "running"
ExportsAtomically == Promise!Spec

Untouched(h) == \A i \in Steps : disk[h][i] = NoFile

\* A thread has work exactly while it writes it or once it has panicked over it.
JobHeld ==
    \A t \in Threads :
        /\ tpc[t] \notin {"write", "panicked"} => job[t] = Idle
        /\ tpc[t] = "panicked" /\ t # Main => job[t] \in Work
        /\ job[t].harness < cur

\* No harness is with two threads, twice in the channel, or both.
InOnePlace ==
    /\ \A t, u \in Threads : job[t].harness = job[u].harness => t = u \/ job[t].harness = 0
    /\ \A i, j \in DOMAIN queue : queue[i].harness = queue[j].harness => i = j
    /\ \A t \in Threads, i \in DOMAIN queue : job[t].harness # queue[i].harness
    /\ \A i \in DOMAIN queue : queue[i].harness < cur

\* Nothing is written of a harness before its turn, no artifact before the step
\* that writes it, and the files that a thread panicked over are not all written.
WrittenInTurn ==
    /\ \A h \in Harnesses : h >= cur => Untouched(h)
    /\ \A i \in DOMAIN queue : Untouched(queue[i].harness)
    /\ \A t \in Threads : tpc[t] = "write" =>
          \A i \in Steps : i >= step[t] => disk[job[t].harness][i] = NoFile
    /\ \A t \in Threads : tpc[t] = "panicked" /\ job[t] \in Work => ~Written(job[t].harness)

\* The metadata is written when main has generated everything.
MetadataLast == tpc[Main] \in {"codegen", "write"} => metadata = "none"

\* What the refinement needs beyond PoolInvariant: every artifact is written once.
OnceInvariant == JobHeld /\ InOnePlace /\ WrittenInTurn /\ MetadataLast
=============================================================================
