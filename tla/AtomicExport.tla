---------------------------- MODULE AtomicExport ----------------------------
(***************************************************************************)
(* What the export of goto files promises the rest of kani-compiler, with  *)
(* no threads, channel or interner in sight: the files of a harness appear *)
(* at once or fail, once; the crate is reported only with the files of all *)
(* harnesses and its metadata in place, and given up only for a failure.   *)
(* What is in place may lack its end: the last buffer of a file whose      *)
(* writer is dropped may be lost, and nobody is told.                      *)
(* Module FileWritingPool is the implementation.                           *)
(***************************************************************************)
CONSTANT Harnesses

VARIABLES
    exported,  \* the harnesses whose files are all there, and right
    damaged,   \* the harnesses whose files are all there, one without its end
    failed,    \* the harnesses one of whose files could not be written
    metadata,  \* the metadata of the crate: none, whole, or without its end
    outcome    \* what codegen_crate came to

vars == <<exported, damaged, failed, metadata, outcome>>

Init ==
    /\ exported = {} /\ damaged = {} /\ failed = {}
    /\ metadata = "none" /\ outcome = "running"

\* The harnesses the compiler is done with.
Settled == exported \cup damaged \cup failed

\* The files of h appear, one of them possibly without its end.
Export(h) ==
    /\ h \notin Settled /\ outcome # "reported"
    /\ \/ exported' = exported \cup {h} /\ UNCHANGED damaged
       \/ damaged' = damaged \cup {h} /\ UNCHANGED exported
    /\ UNCHANGED <<failed, metadata, outcome>>

\* The compiler goes on with the other harnesses, or stops.
Fail(h) ==
    /\ h \notin Settled /\ outcome # "reported"
    /\ failed' = failed \cup {h}
    /\ outcome' \in {outcome, "aborted"}
    /\ UNCHANGED <<exported, damaged, metadata>>

WriteMetadata ==
    /\ outcome = "running" /\ metadata = "none"
    /\ metadata' \in {"full", "cut"}
    /\ UNCHANGED <<exported, damaged, failed, outcome>>

Report ==
    /\ outcome = "running" /\ metadata # "none"
    /\ exported \cup damaged = Harnesses
    /\ outcome' = "reported"
    /\ UNCHANGED <<exported, damaged, failed, metadata>>

Abort ==
    /\ outcome = "running" /\ (failed # {} \/ metadata = "none")
    /\ outcome' = "aborted"
    /\ UNCHANGED <<exported, damaged, failed, metadata>>

Next == (\E h \in Harnesses : Export(h) \/ Fail(h)) \/ WriteMetadata \/ Report \/ Abort

\* The compilation ends.
Spec == Init /\ [][Next]_vars /\ WF_vars(outcome = "running" /\ Next)
=============================================================================
