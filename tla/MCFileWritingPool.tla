-------------------------- MODULE MCFileWritingPool --------------------------
(* FileWritingPool with two workers, and with none because there is one cpu  *)
(* only.  Every harness but the first uses a name that all share and a name  *)
(* of its own, so that the same name gets its symbol while generating one    *)
(* harness and is used again by another.  Of the files of a harness two stand *)
(* for the rest: the one whose writing interns names, and one after it.      *)
EXTENDS FileWritingPool

MCStrings == {<<"irep", 0>>, <<"shared", 0>>} \cup {<<"own", h>> : h \in 1..N}
MCNames == [h \in 1..N |-> IF h = 1 THEN <<<<"own", h>>>>
                           ELSE <<<<"shared", 0>>, <<"own", h>>>>]
MCIrepName == <<"irep", 0>>
MCArtifacts == <<"SymTabGoto", "TypeMap">>

\* The same compiler on a machine with one cpu: the main thread writes.
Sync == INSTANCE FileWritingPool WITH AvailableParallelism <- 1

HasWorkers == DOMAIN tpc = Threads

MCInit == Init \/ Sync!Init
MCNext == (HasWorkers /\ Next) \/ (~HasWorkers /\ Sync!Next)
MCFairness ==
    /\ WF_vars(HasWorkers /\ MainStep)
    /\ \A w \in Workers : WF_vars(HasWorkers /\ WorkerStep(w))
    /\ \A t \in Threads : WF_vars(HasWorkers /\ HandleFile(t))
    /\ WF_vars(~HasWorkers /\ Sync!MainStep)
    /\ \A t \in Sync!Threads : WF_vars(~HasWorkers /\ Sync!HandleFile(t))

MCSpec == MCInit /\ [][MCNext]_vars /\ MCFairness
=============================================================================
