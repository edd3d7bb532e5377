--------------------------- MODULE KaniSetupProofs ---------------------------
(* What an undisturbed setup tells about the disk, for any number of          *)
(* processes, faults and command lines.                                       *)
EXTENDS KaniSetup, TLAPS

\* Some other setup went wrong while this one ran: it was cut off, or it failed
\* and has not returned yet.
Trouble == cutOff \/ \E q \in Procs : pc[q] = "failed" /\ ~alone[q]

\* Nobody installs, and nothing is known to have gone wrong.
Settled == ~Trouble /\ \A q \in Procs : pc[q] \notin Installing

FilesWhole == \A f \in Files : file[f] = "own"

\* The unpacked files are whole, there is a link and the driver is patched.
Good == FilesWhole /\ link # "none" /\ (NixOS => patched)

\* Process p has company, and some of it went wrong.
Excuse(p) == ~alone[p] /\ Trouble

AfterUnpacking == {"rmbundle", "readver", "rustup", "unlink", "remove", "link", "patch"}

\* A process that runs alone has no company.
AloneIsAlone ==
    \A p, q \in Procs : alone[p] /\ pc[p] # "idle" /\ q # p => pc[q] = "idle"

\* Without the tarball of another version there are only files, links and
\* toolchains of this one.
OwnVersion ==
    /\ bundles["other"] = "absent"
    /\ \A f \in Files : file[f] # "other"
    /\ link # "other" /\ toolchains \subseteq {"own"}
    /\ link = "own" => "own" \in toolchains

\* What a process installs, from where, and that the directory is there.
PlanOfProcess ==
    \A p \in Procs :
        /\ pc[p] \in {"scan", "cleanup", "exec", "ok", "running"} \cup Installing => dir
        /\ pc[p] \in {"scan", "cleanup", "exec", "running"} => kind[p] = "default"
        /\ pc[p] # "idle" =>
              /\ source[p] \in {"download", "local", "own"}
              /\ source[p] = "own" => kind[p] = "default"
              /\ source[p] = "local" => kind[p] # "default"
              /\ UsesLocalToolchain(p) => localDir
        /\ pc[p] = "cleanup" => source[p] = "own"
        /\ pc[p] \in {"download", "downloading", "rmbundle"} => source[p] = "download"
        /\ pc[p] = "rustup" => target[p] = "own"
        /\ pc[p] \in {"unlink", "remove", "link"} =>
              \/ target[p] = "own" /\ "own" \in toolchains
              \/ target[p] = "local" /\ UsesLocalToolchain(p)

\* A tarball that is not whole is being downloaded, or its setup was cut off.
PartialIsKnown ==
    bundles["own"] = "partial" => cutOff \/ \E q \in Procs : pc[q] = "downloading"

\* The tarball of a process that nobody disturbs is there, and whole unless the
\* setup it comes from was cut off.
TarballOfAlone ==
    \A p \in Procs : alone[p] =>
        /\ pc[p] \in {"open", "untar", "rmbundle"} /\ source[p] = "download" =>
              bundles["own"] = "complete"
        /\ pc[p] = "patch" /\ source[p] = "download" => bundles["own"] = "absent"
        /\ pc[p] \in AfterUnpacking \ {"rmbundle"} /\ source[p] = "download" =>
              bundles["own"] = "absent"
        /\ pc[p] \in {"mkdir", "open", "untar"} /\ source[p] = "own" =>
              bundles["own"] # "absent"

\* What a process has unpacked stays whole but for the trouble of others.
FilesKept ==
    \A p \in Procs :
        /\ pc[p] = "untar" => Excuse(p) \/ \A f \in Files : f \notin todo[p] => file[f] = "own"
        /\ pc[p] \in AfterUnpacking => Excuse(p) \/ FilesWhole

\* The link is removed only where it resolves, and is then made again.
LinkKept ==
    \A p \in Procs :
        /\ pc[p] = "remove" => ~DanglingLink
        /\ pc[p] = "remove" /\ alone[p] => link # "none"
        /\ pc[p] = "link" /\ alone[p] => link = "none" \/ DanglingLink
        /\ pc[p] = "patch" => \/ Excuse(p) \/ link # "none"
                              \/ \E q \in Procs : pc[q] = "link"
        /\ pc[p] = "patch" /\ alone[p] => LinkResolves

\* A disk on which nobody works is empty, installed, or has a whole tarball to resume from.
DiskSettled == Settled => ~dir \/ bundles["own"] = "complete" \/ Good \/ DanglingLink

\* Who is done with setup leaves an installation.
DoneSettled ==
    \A p \in Procs : pc[p] \in {"cleanup", "exec", "ok", "running"} /\ Settled => Good \/ DanglingLink

SetupInvariant ==
    /\ TypeOK /\ AloneIsAlone /\ OwnVersion /\ PlanOfProcess /\ PartialIsKnown
    /\ TarballOfAlone /\ FilesKept /\ LinkKept /\ DiskSettled /\ DoneSettled
    /\ SetupOkMeansInstalled /\ FailsOnlyOnFault
-----------------------------------------------------------------------------
(* One lemma for each operation.                                              *)

\* A process that starts is alone only among idle ones, and ends the solitude of the others.
LEMMA StartStep ==
    ASSUME SetupInvariant, Leftover = FALSE, NEW p \in Procs, NEW k \in Kinds, Start(p, k)
    PROVE  SetupInvariant'
<1> USE DEF SetupInvariant, Start, GoTo, disk
<1>1. TypeOK'
    BY SetupAssumption DEF TypeOK, Versions, AllKinds, Files, Steps, Ended, BundleVersion,
                           AfterSetup
<1>2. AloneIsAlone'
    BY DEF AloneIsAlone, TypeOK
<1>3. OwnVersion'
    BY DEF OwnVersion, TypeOK
<1>4. PlanOfProcess'
    BY DEF PlanOfProcess, UsesLocalToolchain, Installing, Steps, TypeOK
<1>5. PartialIsKnown'
    BY DEF PartialIsKnown, TypeOK
<1>6. TarballOfAlone'
    BY DEF TarballOfAlone, AfterUnpacking, TypeOK
<1>7. FilesKept'
    BY DEF FilesKept, Excuse, Trouble, AfterUnpacking, FilesWhole, TypeOK
<1>8. LinkKept'
    BY DEF LinkKept, Excuse, Trouble, DanglingLink, LinkResolves, TypeOK
<1>9. DiskSettled'
    BY DEF DiskSettled, Settled, Trouble, Installing, Steps, Good, FilesWhole, DanglingLink, TypeOK
<1>10. DoneSettled'
    BY DEF DoneSettled, Settled, Trouble, Installing, Steps, Good, FilesWhole, DanglingLink, TypeOK
<1>11. SetupOkMeansInstalled'
    BY DEF SetupOkMeansInstalled, Installed, Whole, LinkResolves, TypeOK
<1>12. FailsOnlyOnFault'
    BY DEF FailsOnlyOnFault, DanglingLink, TypeOK
<1>13. QED BY <1>1, <1>2, <1>3, <1>4, <1>5, <1>6, <1>7, <1>8, <1>9, <1>10, <1>11, <1>12

\* Without a tarball on a settled disk the installation is there.
LEMMA AppearsIncompleteStep ==
    ASSUME SetupInvariant, Leftover = FALSE, NEW p \in Procs, AppearsIncomplete(p)
    PROVE  SetupInvariant'
<1> USE DEF SetupInvariant, AppearsIncomplete, GoTo, disk
<1>1. TypeOK'
    BY DEF TypeOK, Versions, AllKinds, Files, Steps, Ended, BundleVersion, AfterSetup, Candidates
<1>2. AloneIsAlone'
    BY DEF AloneIsAlone, TypeOK
<1>3. OwnVersion'
    BY DEF OwnVersion, TypeOK
<1>4. PlanOfProcess'
    BY DEF PlanOfProcess, OwnVersion, UsesLocalToolchain, Installing, Steps, AfterSetup, Ended,
           Versions, Candidates, AllKinds, AloneIsAlone, TypeOK
<1>5. PartialIsKnown'
    BY DEF PartialIsKnown, TypeOK
<1>6. TarballOfAlone'
    BY DEF TarballOfAlone, AfterUnpacking, AloneIsAlone, PlanOfProcess, Candidates, AfterSetup,
           Versions, Ended, Installing, Steps, TypeOK
<1>7. FilesKept'
    BY DEF FilesKept, Excuse, Trouble, AfterUnpacking, FilesWhole, TypeOK
<1>8. LinkKept'
    BY DEF LinkKept, Excuse, Trouble, DanglingLink, LinkResolves, TypeOK
<1>9. DiskSettled'
    BY DEF DiskSettled, Settled, Trouble, Installing, Steps, Good, FilesWhole, DanglingLink, TypeOK
<1>10. DoneSettled'
    BY DEF DoneSettled, DiskSettled, Settled, Trouble, Installing, Steps, Good, FilesWhole,
           DanglingLink, AloneIsAlone, Ended, AfterSetup, FilesKept, LinkKept, Excuse,
           AfterUnpacking, Candidates, Versions, PlanOfProcess, TypeOK
<1>11. SetupOkMeansInstalled'
    BY DEF SetupOkMeansInstalled, Installed, Whole, LinkResolves, TypeOK
<1>12. FailsOnlyOnFault'
    BY DEF FailsOnlyOnFault, DanglingLink, TypeOK
<1>13. QED BY <1>1, <1>2, <1>3, <1>4, <1>5, <1>6, <1>7, <1>8, <1>9, <1>10, <1>11, <1>12

\* The tarball of a setup that was resumed goes when the installation is there.
LEMMA CleanupStep ==
    ASSUME SetupInvariant, Leftover = FALSE, NEW p \in Procs, Cleanup(p)
    PROVE  SetupInvariant'
<1> USE DEF SetupInvariant, Cleanup, GoTo, disk
<1>1. TypeOK'
    BY DEF TypeOK, Steps, Ended
<1>2. AloneIsAlone'
    BY DEF AloneIsAlone, TypeOK
<1>3. OwnVersion'
    BY DEF OwnVersion, TypeOK
<1>4. PlanOfProcess'
    BY DEF PlanOfProcess, UsesLocalToolchain, Installing, Steps, TypeOK
<1>5. PartialIsKnown'
    BY DEF PartialIsKnown, TypeOK
<1>6. TarballOfAlone'
    BY DEF TarballOfAlone, AfterUnpacking, TypeOK, AloneIsAlone, PlanOfProcess, Ended
<1>7. FilesKept'
    BY DEF FilesKept, Excuse, Trouble, AfterUnpacking, FilesWhole, TypeOK
<1>8. LinkKept'
    BY DEF LinkKept, Excuse, Trouble, DanglingLink, LinkResolves, TypeOK
<1>9. DiskSettled'
    BY DEF DiskSettled, Settled, Trouble, Installing, Steps, Good, FilesWhole, DanglingLink,
           TypeOK, AloneIsAlone, DoneSettled, Ended
<1>10. DoneSettled'
    BY DEF DoneSettled, Settled, Trouble, Installing, Steps, Good, FilesWhole, DanglingLink, TypeOK
<1>11. SetupOkMeansInstalled'
    BY DEF SetupOkMeansInstalled, Installed, Whole, LinkResolves, TypeOK
<1>12. FailsOnlyOnFault'
    BY DEF FailsOnlyOnFault, DanglingLink, TypeOK
<1>13. QED BY <1>1, <1>2, <1>3, <1>4, <1>5, <1>6, <1>7, <1>8, <1>9, <1>10, <1>11, <1>12

\* A file is missing only from a disk on which a setup was cut off.
LEMMA ExecStep ==
    ASSUME SetupInvariant, Leftover = FALSE, NEW p \in Procs, Exec(p)
    PROVE  SetupInvariant'
<1> USE DEF SetupInvariant, Exec, GoTo, disk
<1>1. TypeOK'
    BY DEF TypeOK, Steps, Ended
<1>2. AloneIsAlone'
    BY DEF AloneIsAlone, TypeOK
<1>3. OwnVersion'
    BY DEF OwnVersion, TypeOK
<1>4. PlanOfProcess'
    BY DEF PlanOfProcess, UsesLocalToolchain, Installing, Steps, TypeOK
<1>5. PartialIsKnown'
    BY DEF PartialIsKnown, TypeOK
<1>6. TarballOfAlone'
    BY DEF TarballOfAlone, AfterUnpacking, TypeOK
<1>7. FilesKept'
    BY DEF FilesKept, Excuse, Trouble, AfterUnpacking, FilesWhole, TypeOK
<1>8. LinkKept'
    BY DEF LinkKept, Excuse, Trouble, DanglingLink, LinkResolves, TypeOK
<1>9. DiskSettled'
    BY DEF DiskSettled, Settled, Trouble, Installing, Steps, Good, FilesWhole, DanglingLink, TypeOK
<1>10. DoneSettled'
    BY DEF DoneSettled, Settled, Trouble, Installing, Steps, Good, FilesWhole, DanglingLink, TypeOK
<1>11. SetupOkMeansInstalled'
    BY DEF SetupOkMeansInstalled, Installed, Whole, LinkResolves, TypeOK
<1>12. FailsOnlyOnFault'
    BY DEF FailsOnlyOnFault, DanglingLink, AloneIsAlone, Ended, AfterSetup, FilesKept, LinkKept,
           TarballOfAlone, PartialIsKnown, PlanOfProcess, OwnVersion, FilesWhole, Excuse,
           AfterUnpacking, DoneSettled, Settled, Trouble, Good, Truncated, BundleVersion,
           Versions, Files, UsesLocalToolchain, Installing, Steps, TypeOK
<1>13. QED BY <1>1, <1>2, <1>3, <1>4, <1>5, <1>6, <1>7, <1>8, <1>9, <1>10, <1>11, <1>12

\* From here on the process installs.
LEMMA CreateDirStep ==
    ASSUME SetupInvariant, Leftover = FALSE, NEW p \in Procs, CreateDir(p)
    PROVE  SetupInvariant'
<1> USE DEF SetupInvariant, CreateDir, GoTo, disk
<1>1. TypeOK'
    BY DEF TypeOK, Steps, Ended
<1>2. AloneIsAlone'
    BY DEF AloneIsAlone, TypeOK
<1>3. OwnVersion'
    BY DEF OwnVersion, TypeOK
<1>4. PlanOfProcess'
    BY DEF PlanOfProcess, UsesLocalToolchain, Installing, Steps, TypeOK
<1>5. PartialIsKnown'
    BY DEF PartialIsKnown, TypeOK
<1>6. TarballOfAlone'
    BY DEF TarballOfAlone, AfterUnpacking, TypeOK
<1>7. FilesKept'
    BY DEF FilesKept, Excuse, Trouble, AfterUnpacking, FilesWhole, TypeOK
<1>8. LinkKept'
    BY DEF LinkKept, Excuse, Trouble, DanglingLink, LinkResolves, TypeOK
<1>9. DiskSettled'
    BY DEF DiskSettled, Settled, Trouble, Installing, Steps, Good, FilesWhole, DanglingLink, TypeOK
<1>10. DoneSettled'
    BY DEF DoneSettled, Settled, Trouble, Installing, Steps, Good, FilesWhole, DanglingLink, TypeOK
<1>11. SetupOkMeansInstalled'
    BY DEF SetupOkMeansInstalled, Installed, Whole, LinkResolves, TypeOK
<1>12. FailsOnlyOnFault'
    BY DEF FailsOnlyOnFault, DanglingLink, TypeOK
<1>13. QED BY <1>1, <1>2, <1>3, <1>4, <1>5, <1>6, <1>7, <1>8, <1>9, <1>10, <1>11, <1>12

\* The tarball is not whole, but it is being downloaded.
LEMMA CurlCreatesStep ==
    ASSUME SetupInvariant, Leftover = FALSE, NEW p \in Procs, CurlCreates(p)
    PROVE  SetupInvariant'
<1> USE DEF SetupInvariant, CurlCreates, GoTo, disk
<1>1. TypeOK'
    BY DEF TypeOK, Steps, Ended
<1>2. AloneIsAlone'
    BY DEF AloneIsAlone, TypeOK
<1>3. OwnVersion'
    BY DEF OwnVersion, TypeOK
<1>4. PlanOfProcess'
    BY DEF PlanOfProcess, UsesLocalToolchain, Installing, Steps, TypeOK
<1>5. PartialIsKnown'
    BY DEF PartialIsKnown, TypeOK
<1>6. TarballOfAlone'
    BY DEF TarballOfAlone, AfterUnpacking, TypeOK, AloneIsAlone, PlanOfProcess, Ended
<1>7. FilesKept'
    BY DEF FilesKept, Excuse, Trouble, AfterUnpacking, FilesWhole, TypeOK
<1>8. LinkKept'
    BY DEF LinkKept, Excuse, Trouble, DanglingLink, LinkResolves, TypeOK
<1>9. DiskSettled'
    BY DEF DiskSettled, Settled, Trouble, Installing, Steps, Good, FilesWhole, DanglingLink, TypeOK
<1>10. DoneSettled'
    BY DEF DoneSettled, Settled, Trouble, Installing, Steps, Good, FilesWhole, DanglingLink, TypeOK
<1>11. SetupOkMeansInstalled'
    BY DEF SetupOkMeansInstalled, Installed, Whole, LinkResolves, TypeOK
<1>12. FailsOnlyOnFault'
    BY DEF FailsOnlyOnFault, DanglingLink, TypeOK
<1>13. QED BY <1>1, <1>2, <1>3, <1>4, <1>5, <1>6, <1>7, <1>8, <1>9, <1>10, <1>11, <1>12

\* The tarball is whole until somebody else touches it.
LEMMA CurlEndsStep ==
    ASSUME SetupInvariant, Leftover = FALSE, NEW p \in Procs, CurlEnds(p)
    PROVE  SetupInvariant'
<1> USE DEF SetupInvariant, CurlEnds, GoTo, disk
<1>1. TypeOK'
    BY DEF TypeOK, Steps, Ended
<1>2. AloneIsAlone'
    BY DEF AloneIsAlone, TypeOK
<1>3. OwnVersion'
    BY DEF OwnVersion, TypeOK
<1>4. PlanOfProcess'
    BY DEF PlanOfProcess, UsesLocalToolchain, Installing, Steps, TypeOK
<1>5. PartialIsKnown'
    BY DEF PartialIsKnown, PlanOfProcess, TarballOfAlone, AloneIsAlone, Installing, Steps,
           Versions, Candidates, Ended, TypeOK
<1>6. TarballOfAlone'
    BY DEF TarballOfAlone, AfterUnpacking, AloneIsAlone, PlanOfProcess, Candidates, AfterSetup,
           Versions, Ended, Installing, Steps, TypeOK
<1>7. FilesKept'
    BY DEF FilesKept, Excuse, Trouble, AfterUnpacking, FilesWhole, TypeOK
<1>8. LinkKept'
    BY DEF LinkKept, Excuse, Trouble, DanglingLink, LinkResolves, TypeOK
<1>9. DiskSettled'
    BY DEF DiskSettled, Settled, Trouble, Installing, Steps, Good, FilesWhole, DanglingLink, TypeOK
<1>10. DoneSettled'
    BY DEF DoneSettled, Settled, Trouble, Installing, Steps, Good, FilesWhole, DanglingLink, TypeOK
<1>11. SetupOkMeansInstalled'
    BY DEF SetupOkMeansInstalled, Installed, Whole, LinkResolves, TypeOK
<1>12. FailsOnlyOnFault'
    BY DEF FailsOnlyOnFault, DanglingLink, TypeOK
<1>13. QED BY <1>1, <1>2, <1>3, <1>4, <1>5, <1>6, <1>7, <1>8, <1>9, <1>10, <1>11, <1>12

\* The tarball of an undisturbed process is there.
LEMMA OpenBundleStep ==
    ASSUME SetupInvariant, Leftover = FALSE, NEW p \in Procs, OpenBundle(p)
    PROVE  SetupInvariant'
<1> USE DEF SetupInvariant, OpenBundle, GoTo, disk
<1>1. TypeOK'
    BY DEF TypeOK, Steps, Ended
<1>2. AloneIsAlone'
    BY DEF AloneIsAlone, TypeOK
<1>3. OwnVersion'
    BY DEF OwnVersion, TypeOK
<1>4. PlanOfProcess'
    BY DEF PlanOfProcess, UsesLocalToolchain, Installing, Steps, TypeOK
<1>5. PartialIsKnown'
    BY DEF PartialIsKnown, TypeOK
<1>6. TarballOfAlone'
    BY DEF TarballOfAlone, AfterUnpacking, TypeOK
<1>7. FilesKept'
    BY DEF FilesKept, Excuse, Trouble, AfterUnpacking, FilesWhole, TypeOK
<1>8. LinkKept'
    BY DEF LinkKept, Excuse, Trouble, DanglingLink, LinkResolves, TypeOK
<1>9. DiskSettled'
    BY DEF DiskSettled, Settled, Trouble, Installing, Steps, Good, FilesWhole, DanglingLink,
           DoneSettled, AloneIsAlone, Ended, TypeOK, TarballOfAlone, PlanOfProcess,
           BundleVersion, Versions
<1>10. DoneSettled'
    BY DEF DoneSettled, Settled, Trouble, Installing, Steps, Good, FilesWhole, DanglingLink,
           TypeOK, AloneIsAlone, DiskSettled, PlanOfProcess, Ended, AfterSetup
<1>11. SetupOkMeansInstalled'
    BY DEF SetupOkMeansInstalled, Installed, Whole, LinkResolves, TypeOK
<1>12. FailsOnlyOnFault'
    BY DEF FailsOnlyOnFault, DanglingLink, AloneIsAlone, Ended, AfterSetup, FilesKept, LinkKept,
           TarballOfAlone, PartialIsKnown, PlanOfProcess, OwnVersion, FilesWhole, Excuse,
           AfterUnpacking, DoneSettled, Settled, Trouble, Good, Truncated, BundleVersion,
           Versions, Files, UsesLocalToolchain, Installing, Steps, TypeOK
<1>13. QED BY <1>1, <1>2, <1>3, <1>4, <1>5, <1>6, <1>7, <1>8, <1>9, <1>10, <1>11, <1>12

\* Only a tarball that is not whole leaves a torn file, and the process fails.
LEMMA UntarStep ==
    ASSUME SetupInvariant, Leftover = FALSE, NEW p \in Procs, Untar(p)
    PROVE  SetupInvariant'
<1> USE DEF SetupInvariant, Untar, GoTo, disk
<1>1. TypeOK'
    <2>1. BundleVersion(p) \in Versions
        BY DEF BundleVersion, Versions
    <2>2. file' \in [Files -> Versions \cup {"none", "torn"}]
        BY <2>1 DEF TypeOK
    <2>3. todo' \in [Procs -> SUBSET Files]
        BY DEF TypeOK
    <2>4. patched' \in BOOLEAN
        BY DEF TypeOK
    <2>5. pc' \in [Procs -> Steps \cup Ended \cup {"idle"}]
        BY DEF TypeOK, Ended
    <2>6. QED BY <2>2, <2>3, <2>4, <2>5 DEF TypeOK
<1>2. AloneIsAlone'
    BY DEF AloneIsAlone, TypeOK
<1>3. OwnVersion'
    BY DEF OwnVersion, TypeOK, PlanOfProcess, BundleVersion, Versions
<1>4. PlanOfProcess'
    BY DEF PlanOfProcess, UsesLocalToolchain, Installing, Steps, TypeOK
<1>5. PartialIsKnown'
    BY DEF PartialIsKnown, TypeOK
<1>6. TarballOfAlone'
    BY DEF TarballOfAlone, AfterUnpacking, TypeOK
<1>7. FilesKept'
    BY DEF FilesKept, Excuse, Trouble, AfterUnpacking, FilesWhole, AloneIsAlone, PlanOfProcess,
           Ended, AfterSetup, BundleVersion, Truncated, TypeOK, Versions
<1>8. LinkKept'
    BY DEF LinkKept, Excuse, Trouble, DanglingLink, LinkResolves, TypeOK
<1>9. DiskSettled'
    BY DEF DiskSettled, Settled, Trouble, Installing, Steps, Good, FilesWhole, DanglingLink,
           DoneSettled, AloneIsAlone, Ended, TypeOK, TarballOfAlone, PlanOfProcess,
           BundleVersion, Versions, Truncated, PartialIsKnown
<1>10. DoneSettled'
    BY DEF DoneSettled, Settled, Trouble, Installing, Steps, Good, FilesWhole, DanglingLink,
           TypeOK, AloneIsAlone, DiskSettled, PlanOfProcess, Ended, AfterSetup
<1>11. SetupOkMeansInstalled'
    BY DEF SetupOkMeansInstalled, Installed, Whole, LinkResolves, TypeOK, AloneIsAlone, Ended,
           AfterSetup
<1>12. FailsOnlyOnFault'
    BY DEF FailsOnlyOnFault, DanglingLink, AloneIsAlone, Ended, AfterSetup, FilesKept, LinkKept,
           TarballOfAlone, PartialIsKnown, PlanOfProcess, OwnVersion, FilesWhole, Excuse,
           AfterUnpacking, DoneSettled, Settled, Trouble, Good, Truncated, BundleVersion,
           Versions, Files, UsesLocalToolchain, Installing, Steps, TypeOK
<1>13. QED BY <1>1, <1>2, <1>3, <1>4, <1>5, <1>6, <1>7, <1>8, <1>9, <1>10, <1>11, <1>12

\* All files are unpacked.
LEMMA UnpackedStep ==
    ASSUME SetupInvariant, Leftover = FALSE, NEW p \in Procs, Unpacked(p)
    PROVE  SetupInvariant'
<1> USE DEF SetupInvariant, Unpacked, GoTo, disk
<1>1. TypeOK'
    BY DEF TypeOK, Steps, Ended
<1>2. AloneIsAlone'
    BY DEF AloneIsAlone, TypeOK
<1>3. OwnVersion'
    BY DEF OwnVersion, TypeOK
<1>4. PlanOfProcess'
    BY DEF PlanOfProcess, UsesLocalToolchain, Installing, Steps, TypeOK
<1>5. PartialIsKnown'
    BY DEF PartialIsKnown, TypeOK
<1>6. TarballOfAlone'
    BY DEF TarballOfAlone, AfterUnpacking, TypeOK
<1>7. FilesKept'
    BY DEF FilesKept, Excuse, Trouble, AfterUnpacking, FilesWhole, TypeOK
<1>8. LinkKept'
    BY DEF LinkKept, Excuse, Trouble, DanglingLink, LinkResolves, TypeOK
<1>9. DiskSettled'
    BY DEF DiskSettled, Settled, Trouble, Installing, Steps, Good, FilesWhole, DanglingLink, TypeOK
<1>10. DoneSettled'
    BY DEF DoneSettled, Settled, Trouble, Installing, Steps, Good, FilesWhole, DanglingLink, TypeOK
<1>11. SetupOkMeansInstalled'
    BY DEF SetupOkMeansInstalled, Installed, Whole, LinkResolves, TypeOK
<1>12. FailsOnlyOnFault'
    BY DEF FailsOnlyOnFault, DanglingLink, TypeOK
<1>13. QED BY <1>1, <1>2, <1>3, <1>4, <1>5, <1>6, <1>7, <1>8, <1>9, <1>10, <1>11, <1>12

\* The tarball of an undisturbed process is still there.
LEMMA RemoveBundleStep ==
    ASSUME SetupInvariant, Leftover = FALSE, NEW p \in Procs, RemoveBundle(p)
    PROVE  SetupInvariant'
<1> USE DEF SetupInvariant, RemoveBundle, GoTo, disk
<1>1. TypeOK'
    BY DEF TypeOK, Steps, Ended
<1>2. AloneIsAlone'
    BY DEF AloneIsAlone, TypeOK
<1>3. OwnVersion'
    BY DEF OwnVersion, TypeOK
<1>4. PlanOfProcess'
    BY DEF PlanOfProcess, UsesLocalToolchain, Installing, Steps, TypeOK
<1>5. PartialIsKnown'
    BY DEF PartialIsKnown, TypeOK
<1>6. TarballOfAlone'
    BY DEF TarballOfAlone, AfterUnpacking, AloneIsAlone, PlanOfProcess, Candidates, AfterSetup,
           Versions, Ended, Installing, Steps, TypeOK
<1>7. FilesKept'
    BY DEF FilesKept, Excuse, Trouble, AfterUnpacking, FilesWhole, TypeOK
<1>8. LinkKept'
    BY DEF LinkKept, Excuse, Trouble, DanglingLink, LinkResolves, TypeOK
<1>9. DiskSettled'
    BY DEF DiskSettled, Settled, Trouble, Installing, Steps, Good, FilesWhole, DanglingLink,
           DoneSettled, AloneIsAlone, Ended, TypeOK, TarballOfAlone, PlanOfProcess
<1>10. DoneSettled'
    BY DEF DoneSettled, Settled, Trouble, Installing, Steps, Good, FilesWhole, DanglingLink,
           TypeOK, AloneIsAlone, DiskSettled, PlanOfProcess, Ended, AfterSetup
<1>11. SetupOkMeansInstalled'
    BY DEF SetupOkMeansInstalled, Installed, Whole, LinkResolves, TypeOK
<1>12. FailsOnlyOnFault'
    BY DEF FailsOnlyOnFault, DanglingLink, AloneIsAlone, Ended, AfterSetup, FilesKept, LinkKept,
           TarballOfAlone, PartialIsKnown, PlanOfProcess, OwnVersion, FilesWhole, Excuse,
           AfterUnpacking, DoneSettled, Settled, Trouble, Good, Truncated, BundleVersion,
           Versions, Files, UsesLocalToolchain, Installing, Steps, TypeOK
<1>13. QED BY <1>1, <1>2, <1>3, <1>4, <1>5, <1>6, <1>7, <1>8, <1>9, <1>10, <1>11, <1>12

\* The version file of an undisturbed process is whole.
LEMMA ReadVersionStep ==
    ASSUME SetupInvariant, Leftover = FALSE, NEW p \in Procs, ReadVersion(p)
    PROVE  SetupInvariant'
<1> USE DEF SetupInvariant, ReadVersion, GoTo, disk
<1>1. TypeOK'
    BY DEF TypeOK, Steps, Ended
<1>2. AloneIsAlone'
    BY DEF AloneIsAlone, TypeOK
<1>3. OwnVersion'
    BY DEF OwnVersion, TypeOK
<1>4. PlanOfProcess'
    BY DEF PlanOfProcess, OwnVersion, UsesLocalToolchain, Installing, Steps, AfterSetup, Ended,
           Versions, Candidates, AllKinds, AloneIsAlone, TypeOK, Files
<1>5. PartialIsKnown'
    BY DEF PartialIsKnown, TypeOK
<1>6. TarballOfAlone'
    BY DEF TarballOfAlone, AfterUnpacking, TypeOK
<1>7. FilesKept'
    BY DEF FilesKept, Excuse, Trouble, AfterUnpacking, FilesWhole, TypeOK
<1>8. LinkKept'
    BY DEF LinkKept, Excuse, Trouble, DanglingLink, LinkResolves, TypeOK
<1>9. DiskSettled'
    BY DEF DiskSettled, Settled, Trouble, Installing, Steps, Good, FilesWhole, DanglingLink,
           DoneSettled, AloneIsAlone, Ended, TypeOK, FilesKept, Excuse, AfterUnpacking,
           Versions, PlanOfProcess, UsesLocalToolchain, Files
<1>10. DoneSettled'
    BY DEF DoneSettled, Settled, Trouble, Installing, Steps, Good, FilesWhole, DanglingLink,
           TypeOK, AloneIsAlone, DiskSettled, PlanOfProcess, Ended, AfterSetup
<1>11. SetupOkMeansInstalled'
    BY DEF SetupOkMeansInstalled, Installed, Whole, LinkResolves, TypeOK
<1>12. FailsOnlyOnFault'
    BY DEF FailsOnlyOnFault, DanglingLink, AloneIsAlone, Ended, AfterSetup, FilesKept, LinkKept,
           TarballOfAlone, PartialIsKnown, PlanOfProcess, OwnVersion, FilesWhole, Excuse,
           AfterUnpacking, DoneSettled, Settled, Trouble, Good, Truncated, BundleVersion,
           Versions, Files, UsesLocalToolchain, Installing, Steps, TypeOK
<1>13. QED BY <1>1, <1>2, <1>3, <1>4, <1>5, <1>6, <1>7, <1>8, <1>9, <1>10, <1>11, <1>12

\* The toolchain is there before anything links to it.
LEMMA RustupInstallStep ==
    ASSUME SetupInvariant, Leftover = FALSE, NEW p \in Procs, RustupInstall(p)
    PROVE  SetupInvariant'
<1> USE DEF SetupInvariant, RustupInstall, GoTo, disk
<1>1. TypeOK'
    BY DEF TypeOK, Versions, AllKinds, Files, Steps, Ended, BundleVersion, AfterSetup, PlanOfProcess
<1>2. AloneIsAlone'
    BY DEF AloneIsAlone, TypeOK
<1>3. OwnVersion'
    BY DEF OwnVersion, TypeOK, PlanOfProcess, BundleVersion, Versions
<1>4. PlanOfProcess'
    BY DEF PlanOfProcess, UsesLocalToolchain, Installing, Steps, TypeOK
<1>5. PartialIsKnown'
    BY DEF PartialIsKnown, TypeOK
<1>6. TarballOfAlone'
    BY DEF TarballOfAlone, AfterUnpacking, TypeOK
<1>7. FilesKept'
    BY DEF FilesKept, Excuse, Trouble, AfterUnpacking, FilesWhole, TypeOK
<1>8. LinkKept'
    BY DEF LinkKept, Excuse, Trouble, DanglingLink, LinkResolves, TypeOK
<1>9. DiskSettled'
    BY DEF DiskSettled, Settled, Trouble, Installing, Steps, Good, FilesWhole, DanglingLink, TypeOK
<1>10. DoneSettled'
    BY DEF DoneSettled, Settled, Trouble, Installing, Steps, Good, FilesWhole, DanglingLink, TypeOK
<1>11. SetupOkMeansInstalled'
    BY DEF SetupOkMeansInstalled, Installed, Whole, LinkResolves, TypeOK
<1>12. FailsOnlyOnFault'
    BY DEF FailsOnlyOnFault, DanglingLink, TypeOK
<1>13. QED BY <1>1, <1>2, <1>3, <1>4, <1>5, <1>6, <1>7, <1>8, <1>9, <1>10, <1>11, <1>12

\* A link that does not resolve is dangling.
LEMMA TestLinkStep ==
    ASSUME SetupInvariant, Leftover = FALSE, NEW p \in Procs, TestLink(p)
    PROVE  SetupInvariant'
<1> USE DEF SetupInvariant, TestLink, GoTo, disk
<1>1. TypeOK'
    BY DEF TypeOK, Steps, Ended
<1>2. AloneIsAlone'
    BY DEF AloneIsAlone, TypeOK
<1>3. OwnVersion'
    BY DEF OwnVersion, TypeOK
<1>4. PlanOfProcess'
    BY DEF PlanOfProcess, UsesLocalToolchain, Installing, Steps, TypeOK
<1>5. PartialIsKnown'
    BY DEF PartialIsKnown, TypeOK
<1>6. TarballOfAlone'
    BY DEF TarballOfAlone, AfterUnpacking, TypeOK
<1>7. FilesKept'
    BY DEF FilesKept, Excuse, Trouble, AfterUnpacking, FilesWhole, TypeOK
<1>8. LinkKept'
    BY DEF LinkKept, Excuse, Trouble, DanglingLink, LinkResolves, NeedsRemoval, AloneIsAlone,
           PlanOfProcess, OwnVersion, Ended, AfterSetup, UsesLocalToolchain, Installing, Steps,
           TypeOK, Versions
<1>9. DiskSettled'
    BY DEF DiskSettled, Settled, Trouble, Installing, Steps, Good, FilesWhole, DanglingLink, TypeOK
<1>10. DoneSettled'
    BY DEF DoneSettled, Settled, Trouble, Installing, Steps, Good, FilesWhole, DanglingLink, TypeOK
<1>11. SetupOkMeansInstalled'
    BY DEF SetupOkMeansInstalled, Installed, Whole, LinkResolves, TypeOK
<1>12. FailsOnlyOnFault'
    BY DEF FailsOnlyOnFault, DanglingLink, TypeOK
<1>13. QED BY <1>1, <1>2, <1>3, <1>4, <1>5, <1>6, <1>7, <1>8, <1>9, <1>10, <1>11, <1>12

\* Who removes the link makes it again or fails.
LEMMA RemoveLinkStep ==
    ASSUME SetupInvariant, Leftover = FALSE, NEW p \in Procs, RemoveLink(p)
    PROVE  SetupInvariant'
<1> USE DEF SetupInvariant, RemoveLink, GoTo, disk
<1>1. TypeOK'
    BY DEF TypeOK, Steps, Ended
<1>2. AloneIsAlone'
    BY DEF AloneIsAlone, TypeOK
<1>3. OwnVersion'
    BY DEF OwnVersion, TypeOK
<1>4. PlanOfProcess'
    BY DEF PlanOfProcess, UsesLocalToolchain, Installing, Steps, TypeOK
<1>5. PartialIsKnown'
    BY DEF PartialIsKnown, TypeOK
<1>6. TarballOfAlone'
    BY DEF TarballOfAlone, AfterUnpacking, TypeOK
<1>7. FilesKept'
    BY DEF FilesKept, Excuse, Trouble, AfterUnpacking, FilesWhole, TypeOK
<1>8. LinkKept'
    BY DEF LinkKept, Excuse, Trouble, DanglingLink, LinkResolves, TypeOK, AloneIsAlone,
           PlanOfProcess, OwnVersion, Ended, AfterSetup
<1>9. DiskSettled'
    BY DEF DiskSettled, Settled, Trouble, Installing, Steps, Good, FilesWhole, DanglingLink,
           DoneSettled, AloneIsAlone, Ended, TypeOK, LinkKept
<1>10. DoneSettled'
    BY DEF DoneSettled, Settled, Trouble, Installing, Steps, Good, FilesWhole, DanglingLink,
           TypeOK, AloneIsAlone, DiskSettled, PlanOfProcess, Ended, AfterSetup
<1>11. SetupOkMeansInstalled'
    BY DEF SetupOkMeansInstalled, Installed, Whole, LinkResolves, TypeOK, AloneIsAlone, Ended,
           AfterSetup
<1>12. FailsOnlyOnFault'
    BY DEF FailsOnlyOnFault, DanglingLink, AloneIsAlone, Ended, AfterSetup, FilesKept, LinkKept,
           TarballOfAlone, PartialIsKnown, PlanOfProcess, OwnVersion, FilesWhole, Excuse,
           AfterUnpacking, DoneSettled, Settled, Trouble, Good, Truncated, BundleVersion,
           Versions, Files, UsesLocalToolchain, Installing, Steps, TypeOK
<1>13. QED BY <1>1, <1>2, <1>3, <1>4, <1>5, <1>6, <1>7, <1>8, <1>9, <1>10, <1>11, <1>12

\* An undisturbed process fails here only for a dangling link.
LEMMA MakeLinkStep ==
    ASSUME SetupInvariant, Leftover = FALSE, NEW p \in Procs, MakeLink(p)
    PROVE  SetupInvariant'
<1> USE DEF SetupInvariant, MakeLink, GoTo, disk
<1>1. TypeOK'
    BY DEF TypeOK, Steps, Ended
<1>2. AloneIsAlone'
    BY DEF AloneIsAlone, TypeOK
<1>3. OwnVersion'
    BY DEF OwnVersion, TypeOK, PlanOfProcess, BundleVersion, Versions
<1>4. PlanOfProcess'
    BY DEF PlanOfProcess, UsesLocalToolchain, Installing, Steps, TypeOK
<1>5. PartialIsKnown'
    BY DEF PartialIsKnown, TypeOK
<1>6. TarballOfAlone'
    BY DEF TarballOfAlone, AfterUnpacking, TypeOK
<1>7. FilesKept'
    BY DEF FilesKept, Excuse, Trouble, AfterUnpacking, FilesWhole, TypeOK
<1>8. LinkKept'
    BY DEF LinkKept, Excuse, Trouble, DanglingLink, LinkResolves, TypeOK, AloneIsAlone,
           PlanOfProcess, OwnVersion, Ended, AfterSetup
<1>9. DiskSettled'
    BY DEF DiskSettled, Settled, Trouble, Installing, Steps, Good, FilesWhole, DanglingLink,
           DoneSettled, AloneIsAlone, Ended, TypeOK, LinkKept
<1>10. DoneSettled'
    BY DEF DoneSettled, Settled, Trouble, Installing, Steps, Good, FilesWhole, DanglingLink,
           TypeOK, AloneIsAlone, DiskSettled, PlanOfProcess, Ended, AfterSetup
<1>11. SetupOkMeansInstalled'
    BY DEF SetupOkMeansInstalled, Installed, Whole, LinkResolves, TypeOK
<1>12. FailsOnlyOnFault'
    BY DEF FailsOnlyOnFault, DanglingLink, AloneIsAlone, Ended, AfterSetup, FilesKept, LinkKept,
           TarballOfAlone, PartialIsKnown, PlanOfProcess, OwnVersion, FilesWhole, Excuse,
           AfterUnpacking, DoneSettled, Settled, Trouble, Good, Truncated, BundleVersion,
           Versions, Files, UsesLocalToolchain, Installing, Steps, TypeOK
<1>13. QED BY <1>1, <1>2, <1>3, <1>4, <1>5, <1>6, <1>7, <1>8, <1>9, <1>10, <1>11, <1>12

\* The end of a setup: its files and its link are there.
LEMMA OsHacksStep ==
    ASSUME SetupInvariant, Leftover = FALSE, NEW p \in Procs, OsHacks(p)
    PROVE  SetupInvariant'
<1> USE DEF SetupInvariant, OsHacks, GoTo, disk
<1>1. TypeOK'
    BY DEF TypeOK, Steps, Ended, Versions, AllKinds, Files, AfterSetup
<1>2. AloneIsAlone'
    BY DEF AloneIsAlone, TypeOK
<1>3. OwnVersion'
    BY DEF OwnVersion, TypeOK
<1>4. PlanOfProcess'
    BY DEF PlanOfProcess, UsesLocalToolchain, Installing, Steps, TypeOK, OwnVersion, AfterSetup,
           Ended, AloneIsAlone
<1>5. PartialIsKnown'
    BY DEF PartialIsKnown, TypeOK, PlanOfProcess, TarballOfAlone, Installing, Steps, Ended
<1>6. TarballOfAlone'
    BY DEF TarballOfAlone, AfterUnpacking, AloneIsAlone, PlanOfProcess, Candidates, AfterSetup,
           Versions, Ended, Installing, Steps, TypeOK
<1>7. FilesKept'
    BY DEF FilesKept, Excuse, Trouble, AfterUnpacking, FilesWhole, TypeOK
<1>8. LinkKept'
    BY DEF LinkKept, Excuse, Trouble, DanglingLink, LinkResolves, TypeOK, AloneIsAlone,
           PlanOfProcess, OwnVersion, Ended, AfterSetup
<1>9. DiskSettled'
    BY DEF DiskSettled, Settled, Trouble, Installing, Steps, Good, FilesWhole, DanglingLink,
           DoneSettled, AloneIsAlone, Ended, TypeOK, FilesKept, LinkKept, Excuse,
           AfterUnpacking, AfterSetup, TarballOfAlone
<1>10. DoneSettled'
    BY DEF DoneSettled, DiskSettled, Settled, Trouble, Installing, Steps, Good, FilesWhole,
           DanglingLink, AloneIsAlone, Ended, AfterSetup, FilesKept, LinkKept, Excuse,
           AfterUnpacking, Candidates, Versions, PlanOfProcess, TypeOK
<1>11. SetupOkMeansInstalled'
    BY DEF SetupOkMeansInstalled, Installed, Whole, LinkResolves, AloneIsAlone, Ended,
           AfterSetup, FilesKept, LinkKept, Excuse, AfterUnpacking, PlanOfProcess, OwnVersion,
           FilesWhole, Installing, Steps, TypeOK
<1>12. FailsOnlyOnFault'
    BY DEF FailsOnlyOnFault, DanglingLink, TypeOK, AloneIsAlone, Ended, AfterSetup
<1>13. QED BY <1>1, <1>2, <1>3, <1>4, <1>5, <1>6, <1>7, <1>8, <1>9, <1>10, <1>11, <1>12

\* A failure in company is remembered as a setup cut off.
LEMMA ReturnStep ==
    ASSUME SetupInvariant, Leftover = FALSE, NEW p \in Procs, Return(p)
    PROVE  SetupInvariant'
<1> USE DEF SetupInvariant, Return, GoTo, disk
<1>1. TypeOK'
    BY DEF TypeOK, Steps, Ended
<1>2. AloneIsAlone'
    BY DEF AloneIsAlone, TypeOK
<1>3. OwnVersion'
    BY DEF OwnVersion, TypeOK
<1>4. PlanOfProcess'
    BY DEF PlanOfProcess, UsesLocalToolchain, Installing, Steps, TypeOK
<1>5. PartialIsKnown'
    BY DEF PartialIsKnown, TypeOK, PlanOfProcess, TarballOfAlone, Installing, Steps, Ended
<1>6. TarballOfAlone'
    BY DEF TarballOfAlone, AfterUnpacking, TypeOK
<1>7. FilesKept'
    BY DEF FilesKept, Excuse, Trouble, AfterUnpacking, FilesWhole, TypeOK
<1>8. LinkKept'
    BY DEF LinkKept, Excuse, Trouble, DanglingLink, LinkResolves, NeedsRemoval, AloneIsAlone,
           PlanOfProcess, OwnVersion, Ended, AfterSetup, UsesLocalToolchain, Installing, Steps,
           TypeOK
<1>9. DiskSettled'
    BY DEF DiskSettled, Settled, Trouble, Installing, Steps, Good, FilesWhole, DanglingLink,
           TypeOK, AloneIsAlone, DoneSettled, Ended
<1>10. DoneSettled'
    BY DEF DoneSettled, Settled, Trouble, Installing, Steps, Good, FilesWhole, DanglingLink,
           TypeOK, AloneIsAlone, DiskSettled, PlanOfProcess, Ended, AfterSetup
<1>11. SetupOkMeansInstalled'
    BY DEF SetupOkMeansInstalled, Installed, Whole, LinkResolves, TypeOK
<1>12. FailsOnlyOnFault'
    BY DEF FailsOnlyOnFault, DanglingLink, TypeOK
<1>13. QED BY <1>1, <1>2, <1>3, <1>4, <1>5, <1>6, <1>7, <1>8, <1>9, <1>10, <1>11, <1>12

\* A setup that meets a fault leaves a whole tarball or is cut off.
LEMMA FaultStep ==
    ASSUME SetupInvariant, Leftover = FALSE, NEW p \in Procs, Fault(p)
    PROVE  SetupInvariant'
<1> USE DEF SetupInvariant, Fault, GoTo, disk
<1>1. TypeOK'
    BY SetupAssumption DEF TypeOK, Versions, AllKinds, Files, Steps, Ended, BundleVersion,
                           AfterSetup
<1>2. AloneIsAlone'
    BY SetupAssumption DEF AloneIsAlone, Ended, TypeOK, Steps
<1>3. OwnVersion'
    BY DEF OwnVersion, TypeOK
<1>4. PlanOfProcess'
    BY SetupAssumption DEF PlanOfProcess, OwnVersion, UsesLocalToolchain, Installing, Steps,
                           AfterSetup, Ended, Versions, Candidates, AllKinds, AloneIsAlone,
                           TypeOK
<1>5. PartialIsKnown'
    BY DEF PartialIsKnown, TypeOK, PlanOfProcess, TarballOfAlone, Installing, Steps, Ended
<1>6. TarballOfAlone'
    BY DEF TarballOfAlone, AfterUnpacking, TypeOK
<1>7. FilesKept'
    BY DEF FilesKept, Excuse, Trouble, AfterUnpacking, FilesWhole, TypeOK, AloneIsAlone, Ended,
           AfterSetup
<1>8. LinkKept'
    BY DEF LinkKept, Excuse, Trouble, DanglingLink, LinkResolves, TypeOK, AloneIsAlone,
           PlanOfProcess, OwnVersion, Ended, AfterSetup
<1>9. DiskSettled'
    BY DEF DiskSettled, Settled, Trouble, Installing, Steps, Good, FilesWhole, DanglingLink, TypeOK
<1>10. DoneSettled'
    BY DEF DoneSettled, Settled, Trouble, Installing, Steps, Good, FilesWhole, DanglingLink,
           TypeOK, AloneIsAlone, DiskSettled, PlanOfProcess, Ended, AfterSetup
<1>11. SetupOkMeansInstalled'
    BY DEF SetupOkMeansInstalled, Installed, Whole, LinkResolves, TypeOK, AloneIsAlone, Ended,
           AfterSetup
<1>12. FailsOnlyOnFault'
    BY DEF FailsOnlyOnFault, DanglingLink, TypeOK
<1>13. QED BY <1>1, <1>2, <1>3, <1>4, <1>5, <1>6, <1>7, <1>8, <1>9, <1>10, <1>11, <1>12

\* The local toolchain is deleted while nobody runs.
LEMMA DeleteStep ==
    ASSUME SetupInvariant, DeleteLocalToolchain
    PROVE  SetupInvariant'
<1> USE DEF SetupInvariant, DeleteLocalToolchain, proc
<1>1. TypeOK' /\ AloneIsAlone' /\ OwnVersion' /\ PartialIsKnown'
    BY DEF TypeOK, AloneIsAlone, OwnVersion, PartialIsKnown
<1>2. PlanOfProcess' /\ TarballOfAlone' /\ FilesKept' /\ LinkKept'
    BY DEF PlanOfProcess, TarballOfAlone, FilesKept, LinkKept, AfterUnpacking, Installing, Steps
<1>3. DiskSettled'
    BY DEF DiskSettled, Settled, Trouble, Good, FilesWhole, DanglingLink
<1>4. DoneSettled' /\ SetupOkMeansInstalled' /\ FailsOnlyOnFault'
    BY DEF DoneSettled, SetupOkMeansInstalled, FailsOnlyOnFault
<1>5. QED BY <1>1, <1>2, <1>3, <1>4

\* Nothing is installed and nobody runs.
LEMMA SetupInit == ASSUME Leftover = FALSE, Init PROVE SetupInvariant
<1> USE SetupAssumption DEF Init
<1>1. /\ bundles \in [Versions -> {"absent", "partial", "complete"}]
      /\ file \in [Files -> Versions \cup {"none", "torn"}]
      /\ pc \in [Procs -> Steps \cup Ended \cup {"idle"}] /\ kind \in [Procs -> AllKinds]
      /\ source \in [Procs -> Versions \cup {"download", "local"}] /\ todo \in [Procs -> SUBSET Files]
      /\ target \in [Procs -> Versions \cup {"none", "local"}]
      /\ toolchains \subseteq Versions /\ link \in Versions \cup {"none", "local"}
    BY DEF AllKinds
<1>2. TypeOK
    <2>1. faulted \in [Procs -> BOOLEAN] /\ alone \in [Procs -> BOOLEAN]
        OBVIOUS
    <2>2. faults \in 0..MaxFaults
        OBVIOUS
    <2>3. dir \in BOOLEAN /\ patched \in BOOLEAN /\ localDir \in BOOLEAN /\ cutOff \in BOOLEAN
        OBVIOUS
    <2>4. QED BY <1>1, <2>1, <2>2, <2>3 DEF TypeOK
<1>3. AloneIsAlone /\ OwnVersion /\ PartialIsKnown
    BY DEF AloneIsAlone, OwnVersion, PartialIsKnown, Versions
<1>4. PlanOfProcess /\ TarballOfAlone /\ FilesKept /\ LinkKept
    BY DEF PlanOfProcess, TarballOfAlone, FilesKept, LinkKept, AfterUnpacking, Installing, Steps
<1>5. DiskSettled /\ DoneSettled /\ SetupOkMeansInstalled /\ FailsOnlyOnFault
    BY DEF DiskSettled, DoneSettled, SetupOkMeansInstalled, FailsOnlyOnFault
<1>6. QED BY <1>2, <1>3, <1>4, <1>5 DEF SetupInvariant

\* Every step keeps the invariant.
LEMMA SetupStep ==
    ASSUME Leftover = FALSE, SetupInvariant, [Next]_vars
    PROVE  SetupInvariant'
<1>1. ASSUME NEW p \in Procs, Step(p) PROVE SetupInvariant'
    BY <1>1, AppearsIncompleteStep, CleanupStep, ExecStep, CreateDirStep, CurlCreatesStep, CurlEndsStep,
       OpenBundleStep, UntarStep, UnpackedStep, RemoveBundleStep, ReadVersionStep, RustupInstallStep,
       TestLinkStep, RemoveLinkStep, MakeLinkStep, OsHacksStep, ReturnStep DEF Step
<1>2. CASE UNCHANGED vars
    BY <1>2 DEF vars, SetupInvariant, TypeOK, AloneIsAlone, OwnVersion, PlanOfProcess, UsesLocalToolchain,
       PartialIsKnown, TarballOfAlone, FilesKept, LinkKept, Excuse, Trouble, FilesWhole, LinkResolves,
       DanglingLink, DiskSettled, DoneSettled, Settled, Good, SetupOkMeansInstalled, Installed, Whole,
       FailsOnlyOnFault
<1>3. QED BY <1>1, <1>2, StartStep, FaultStep, DeleteStep DEF Next

-----------------------------------------------------------------------------

\* For any number of processes and faults, and without the tarball of another
\* version in the base directory: an invocation that nobody disturbs ends well only
\* with a whole installation, and fails only for a fault of its own, a link to a
\* toolchain that was deleted, or a setup that was cut off before.
THEOREM UndisturbedSetup ==
    ASSUME Leftover = FALSE PROVE Spec => []UndisturbedOutcome
<1>1. SetupInvariant => UndisturbedOutcome
    <2> SUFFICES ASSUME SetupInvariant PROVE DriverIsComplete
        BY DEF SetupInvariant, UndisturbedOutcome
    <2> SUFFICES ASSUME NEW p \in Procs, pc[p] = "running", alone[p], ~cutOff, ~DanglingLink
                 PROVE  Installed
        BY DEF DriverIsComplete
    <2>1. \A q \in Procs : q # p => pc[q] = "idle"
        BY DEF SetupInvariant, AloneIsAlone
    <2>2. Settled
        BY <2>1 DEF Settled, Trouble, Installing, Steps
    <2>3. Good /\ dir
        BY <2>2 DEF SetupInvariant, DoneSettled, PlanOfProcess
    <2>4. link \in {"own", "local"} /\ LinkResolves
        BY <2>3 DEF SetupInvariant, TypeOK, OwnVersion, Good, DanglingLink, LinkResolves, Versions
    <2>5. QED BY <2>3, <2>4 DEF Installed, Whole, Good, FilesWhole
<1>2. Init => SetupInvariant
    BY SetupInit
<1>3. SetupInvariant /\ [Next]_vars => SetupInvariant'
    BY SetupStep
<1>4. QED BY <1>1, <1>2, <1>3, PTL DEF Spec

\* The types of the state, for any number of processes and faults.
THEOREM SetupTypes == ASSUME Leftover = FALSE PROVE Spec => []TypeOK
<1>1. SetupInvariant => TypeOK
    BY DEF SetupInvariant
<1>2. SetupInvariant /\ [Next]_vars => SetupInvariant'
    BY SetupStep
<1>3. QED BY <1>1, <1>2, SetupInit, PTL DEF Spec
-----------------------------------------------------------------------------
(* Two invocations at once, no fault: the disk that both leave behind.        *)

\* There are at most two processes.
AtMostTwo == \A p, q, r \in Procs : p = q \/ q = r \/ p = r

\* Every file is there, whole or not.
NoneMissing == \A f \in Files : file[f] # "none"

\* Process q is going to write the file f from a whole tarball.
Rewrites(q, f) ==
    \/ pc[q] = "downloading"
    \/ pc[q] = "open" /\ (source[q] = "local" \/ bundles["own"] = "complete")
    \/ pc[q] = "untar" /\ f \in todo[q] /\ ~Truncated(q)

\* Process q is going to make the link, if nobody does before it.
WillLink(q) ==
    \/ /\ pc[q] \in {"downloading", "open", "untar", "rmbundle"}
       /\ source[q] = "local" \/ bundles["own"] # "absent"
    \/ pc[q] \in {"readver", "rustup", "unlink", "link"}

\* A tarball that is not whole is being downloaded.
PartialIsDownloaded ==
    bundles["own"] = "partial" => \E q \in Procs : pc[q] = "downloading"

\* What a process has unpacked stays whole, and the driver is run only with all
\* files there; a tarball that is gone was unpacked by the other process.
UnpackedStays ==
    \A p \in Procs :
        /\ pc[p] = "untar" => \A f \in Files : f \notin todo[p] => file[f] = "own"
        /\ pc[p] \in AfterUnpacking \cup {"cleanup", "ok"} => FilesWhole
        /\ pc[p] = "running" => NoneMissing
        /\ pc[p] = "untar" /\ source[p] # "local" /\ bundles["own"] = "absent" => NoneMissing

\* A file that the end of a truncated tarball tore is going to be written again.
TornIsRewritten == \A f \in Files : file[f] = "torn" => \E q \in Procs : Rewrites(q, f)

\* The link is there, or will be made, once the files are.
LinkMade ==
    /\ \A p \in Procs : pc[p] \in {"patch", "cleanup", "ok"} =>
            link # "none" \/ \E q \in Procs : pc[q] = "link"
    /\ NoneMissing /\ link = "none" => \E q \in Procs : WillLink(q)

PairInvariant ==
    faults = 0 => PartialIsDownloaded /\ UnpackedStays /\ TornIsRewritten /\ LinkMade

\* The other process is not touched by one that starts.
LEMMA StartPair ==
    ASSUME SetupInvariant, PartialIsDownloaded, UnpackedStays, TornIsRewritten,
           LinkMade, NEW p \in Procs, NEW k \in Kinds, Start(p, k)
    PROVE  PartialIsDownloaded' /\ UnpackedStays' /\ TornIsRewritten' /\ LinkMade'
<1> USE DEF SetupInvariant, Start, GoTo, disk
<1>1. PartialIsDownloaded'
    BY DEF PartialIsDownloaded, TypeOK
<1>2. UnpackedStays'
    BY DEF UnpackedStays, AfterUnpacking, FilesWhole, NoneMissing
<1>3. TornIsRewritten'
    BY DEF TornIsRewritten, Rewrites, Truncated, BundleVersion
<1>4. LinkMade'
    BY DEF LinkMade, WillLink, NoneMissing
<1>5. QED BY <1>1, <1>2, <1>3, <1>4

\* Looking for a tarball changes nothing.
LEMMA AppearsIncompletePair ==
    ASSUME SetupInvariant, PartialIsDownloaded, UnpackedStays, TornIsRewritten,
           LinkMade, NEW p \in Procs, AppearsIncomplete(p)
    PROVE  PartialIsDownloaded' /\ UnpackedStays' /\ TornIsRewritten' /\ LinkMade'
<1> USE DEF SetupInvariant, AppearsIncomplete, GoTo, disk
<1>1. PartialIsDownloaded'
    BY DEF PartialIsDownloaded, TypeOK
<1>2. UnpackedStays'
    BY DEF UnpackedStays, AfterUnpacking, FilesWhole, NoneMissing, TypeOK
<1>3. TornIsRewritten'
    BY DEF TornIsRewritten, Rewrites, Truncated, BundleVersion, TypeOK
<1>4. LinkMade'
    BY DEF LinkMade, WillLink, NoneMissing, TypeOK
<1>5. QED BY <1>1, <1>2, <1>3, <1>4

\* The tarball goes when its files are unpacked and the link is made.
LEMMA CleanupPair ==
    ASSUME SetupInvariant, PartialIsDownloaded, UnpackedStays, TornIsRewritten,
           LinkMade, NEW p \in Procs, Cleanup(p)
    PROVE  PartialIsDownloaded' /\ UnpackedStays' /\ TornIsRewritten' /\ LinkMade'
<1> USE DEF SetupInvariant, Cleanup, GoTo, disk
<1>1. PartialIsDownloaded'
    BY DEF PartialIsDownloaded, TypeOK
<1>2. UnpackedStays'
    BY DEF UnpackedStays, AfterUnpacking, FilesWhole, NoneMissing
<1>3. TornIsRewritten'
    BY DEF TornIsRewritten, Rewrites, Truncated, BundleVersion, Versions,
           UnpackedStays, AfterUnpacking, FilesWhole, PlanOfProcess, TypeOK
<1>4. LinkMade'
    BY DEF LinkMade, WillLink, NoneMissing
<1>5. QED BY <1>1, <1>2, <1>3, <1>4

\* The driver is run only with all files there.
LEMMA ExecPair ==
    ASSUME SetupInvariant, PartialIsDownloaded, UnpackedStays, TornIsRewritten,
           LinkMade, NEW p \in Procs, Exec(p)
    PROVE  PartialIsDownloaded' /\ UnpackedStays' /\ TornIsRewritten' /\ LinkMade'
<1> USE DEF SetupInvariant, Exec, GoTo, disk
<1>1. PartialIsDownloaded'
    BY DEF PartialIsDownloaded, TypeOK
<1>2. UnpackedStays'
    BY DEF UnpackedStays, AfterUnpacking, FilesWhole, NoneMissing
<1>3. TornIsRewritten'
    BY DEF TornIsRewritten, Rewrites, Truncated, BundleVersion
<1>4. LinkMade'
    BY DEF LinkMade, WillLink, NoneMissing
<1>5. QED BY <1>1, <1>2, <1>3, <1>4

\* The directory is there; nothing else changes.
LEMMA CreateDirPair ==
    ASSUME SetupInvariant, PartialIsDownloaded, UnpackedStays, TornIsRewritten,
           LinkMade, NEW p \in Procs, CreateDir(p)
    PROVE  PartialIsDownloaded' /\ UnpackedStays' /\ TornIsRewritten' /\ LinkMade'
<1> USE DEF SetupInvariant, CreateDir, GoTo, disk
<1>1. PartialIsDownloaded'
    BY DEF PartialIsDownloaded, TypeOK
<1>2. UnpackedStays'
    BY DEF UnpackedStays, AfterUnpacking, FilesWhole, NoneMissing
<1>3. TornIsRewritten'
    BY DEF TornIsRewritten, Rewrites, Truncated, BundleVersion
<1>4. LinkMade'
    BY DEF LinkMade, WillLink, NoneMissing
<1>5. QED BY <1>1, <1>2, <1>3, <1>4

\* The tarball is no longer whole, and this process downloads it.
LEMMA CurlCreatesPair ==
    ASSUME SetupInvariant, PartialIsDownloaded, UnpackedStays, TornIsRewritten,
           LinkMade, NEW p \in Procs, CurlCreates(p)
    PROVE  PartialIsDownloaded' /\ UnpackedStays' /\ TornIsRewritten' /\ LinkMade'
<1> USE DEF SetupInvariant, CurlCreates, GoTo, disk
<1>1. PartialIsDownloaded'
    BY DEF PartialIsDownloaded, TypeOK
<1>2. UnpackedStays'
    BY DEF UnpackedStays, AfterUnpacking, FilesWhole, NoneMissing
<1>3. TornIsRewritten'
    BY DEF TornIsRewritten, Rewrites, Truncated, BundleVersion, TypeOK
<1>4. LinkMade'
    BY DEF LinkMade, WillLink, NoneMissing
<1>5. QED BY <1>1, <1>2, <1>3, <1>4

\* The tarball is whole, and this process unpacks it next.
LEMMA CurlEndsPair ==
    ASSUME SetupInvariant, PartialIsDownloaded, UnpackedStays, TornIsRewritten,
           LinkMade, NEW p \in Procs, CurlEnds(p)
    PROVE  PartialIsDownloaded' /\ UnpackedStays' /\ TornIsRewritten' /\ LinkMade'
<1> USE DEF SetupInvariant, CurlEnds, GoTo, disk
<1>1. PartialIsDownloaded'
    BY DEF PartialIsDownloaded, TypeOK, Versions
<1>2. UnpackedStays'
    BY DEF UnpackedStays, AfterUnpacking, FilesWhole, NoneMissing
<1>3. TornIsRewritten'
    BY DEF TornIsRewritten, Rewrites, Truncated, BundleVersion, TypeOK, Versions
<1>4. LinkMade'
    BY DEF LinkMade, WillLink, NoneMissing
<1>5. QED BY <1>1, <1>2, <1>3, <1>4

\* Only a process that finds no tarball fails, and it was not needed.
LEMMA OpenBundlePair ==
    ASSUME SetupInvariant, PartialIsDownloaded, UnpackedStays, TornIsRewritten,
           LinkMade, NEW p \in Procs, OpenBundle(p)
    PROVE  PartialIsDownloaded' /\ UnpackedStays' /\ TornIsRewritten' /\ LinkMade'
<1> USE DEF SetupInvariant, OpenBundle, GoTo, disk
<1>1. PartialIsDownloaded'
    BY DEF PartialIsDownloaded, TypeOK
<1>2. UnpackedStays'
    BY DEF UnpackedStays, PartialIsDownloaded, AfterUnpacking,
           FilesWhole, NoneMissing, TypeOK, PlanOfProcess, Truncated, BundleVersion, Versions
<1>3. TornIsRewritten'
    BY DEF TornIsRewritten, Rewrites, Truncated, BundleVersion, Versions,
           PlanOfProcess, TypeOK
<1>4. LinkMade'
    BY DEF LinkMade, WillLink, NoneMissing, UnpackedStays, PartialIsDownloaded,
           AfterUnpacking, FilesWhole, PlanOfProcess, OwnVersion, TypeOK, Truncated,
           BundleVersion, Versions
<1>5. QED BY <1>1, <1>2, <1>3, <1>4

\* A process that meets the end of a truncated tarball leaves the files to the other
\* one, which downloads it.
LEMMA UntarPair ==
    ASSUME SetupInvariant, AtMostTwo, PartialIsDownloaded, UnpackedStays, TornIsRewritten,
           LinkMade, NEW p \in Procs, Untar(p)
    PROVE  PartialIsDownloaded' /\ UnpackedStays' /\ TornIsRewritten' /\ LinkMade'
<1> USE DEF SetupInvariant, Untar, GoTo, disk
<1>1. PartialIsDownloaded'
    BY DEF PartialIsDownloaded, TypeOK
<1>2. UnpackedStays'
    BY DEF UnpackedStays, PartialIsDownloaded, AtMostTwo, AfterUnpacking,
           FilesWhole, NoneMissing, TypeOK, PlanOfProcess, Truncated, BundleVersion,
           Versions, Files
<1>3. TornIsRewritten'
    BY DEF TornIsRewritten, Rewrites, Truncated, BundleVersion, Versions,
           UnpackedStays, PartialIsDownloaded, AfterUnpacking, FilesWhole,
           PlanOfProcess, OwnVersion, TypeOK
<1>4. LinkMade'
    BY DEF LinkMade, WillLink, NoneMissing, UnpackedStays, PartialIsDownloaded,
           AfterUnpacking, FilesWhole, PlanOfProcess, OwnVersion, TypeOK, Truncated,
           BundleVersion, Versions
<1>5. QED BY <1>1, <1>2, <1>3, <1>4

\* A process with nothing left to write has all files in place.
LEMMA UnpackedPair ==
    ASSUME SetupInvariant, PartialIsDownloaded, UnpackedStays, TornIsRewritten,
           LinkMade, NEW p \in Procs, Unpacked(p)
    PROVE  PartialIsDownloaded' /\ UnpackedStays' /\ TornIsRewritten' /\ LinkMade'
<1> USE DEF SetupInvariant, Unpacked, GoTo, disk
<1>1. PartialIsDownloaded'
    BY DEF PartialIsDownloaded, TypeOK
<1>2. UnpackedStays'
    BY DEF UnpackedStays, AfterUnpacking, FilesWhole, NoneMissing
<1>3. TornIsRewritten'
    BY DEF TornIsRewritten, Rewrites, Truncated, BundleVersion
<1>4. LinkMade'
    BY DEF LinkMade, WillLink, NoneMissing
<1>5. QED BY <1>1, <1>2, <1>3, <1>4

\* Who removes the tarball goes on to make the link; who finds none leaves that to
\* the other one.
LEMMA RemoveBundlePair ==
    ASSUME SetupInvariant, PartialIsDownloaded, UnpackedStays, TornIsRewritten,
           LinkMade, NEW p \in Procs, RemoveBundle(p)
    PROVE  PartialIsDownloaded' /\ UnpackedStays' /\ TornIsRewritten' /\ LinkMade'
<1> USE DEF SetupInvariant, RemoveBundle, GoTo, disk
<1>1. PartialIsDownloaded'
    BY DEF PartialIsDownloaded, TypeOK
<1>2. UnpackedStays'
    BY DEF UnpackedStays, AfterUnpacking, FilesWhole, NoneMissing
<1>3. TornIsRewritten'
    BY DEF TornIsRewritten, Rewrites, Truncated, BundleVersion, Versions,
           UnpackedStays, AfterUnpacking, FilesWhole, PlanOfProcess, TypeOK
<1>4. LinkMade'
    BY DEF LinkMade, WillLink, NoneMissing, PlanOfProcess, TypeOK, Versions
<1>5. QED BY <1>1, <1>2, <1>3, <1>4

\* The version file of a process that has unpacked is whole: this step does not fail.
LEMMA ReadVersionPair ==
    ASSUME SetupInvariant, PartialIsDownloaded, UnpackedStays, TornIsRewritten,
           LinkMade, NEW p \in Procs, ReadVersion(p)
    PROVE  PartialIsDownloaded' /\ UnpackedStays' /\ TornIsRewritten' /\ LinkMade'
<1> USE DEF SetupInvariant, ReadVersion, GoTo, disk
<1>1. PartialIsDownloaded'
    BY DEF PartialIsDownloaded, TypeOK
<1>2. UnpackedStays'
    BY DEF UnpackedStays, AfterUnpacking, FilesWhole, NoneMissing
<1>3. TornIsRewritten'
    BY DEF TornIsRewritten, Rewrites, Truncated, BundleVersion
<1>4. LinkMade'
    BY DEF LinkMade, WillLink, NoneMissing, UnpackedStays, PartialIsDownloaded,
           AfterUnpacking, FilesWhole, PlanOfProcess, OwnVersion, TypeOK,
           UsesLocalToolchain, Versions, Files
<1>5. QED BY <1>1, <1>2, <1>3, <1>4

\* The toolchain is there before the link to it.
LEMMA RustupInstallPair ==
    ASSUME SetupInvariant, PartialIsDownloaded, UnpackedStays, TornIsRewritten,
           LinkMade, NEW p \in Procs, RustupInstall(p)
    PROVE  PartialIsDownloaded' /\ UnpackedStays' /\ TornIsRewritten' /\ LinkMade'
<1> USE DEF SetupInvariant, RustupInstall, GoTo, disk
<1>1. PartialIsDownloaded'
    BY DEF PartialIsDownloaded, TypeOK
<1>2. UnpackedStays'
    BY DEF UnpackedStays, AfterUnpacking, FilesWhole, NoneMissing
<1>3. TornIsRewritten'
    BY DEF TornIsRewritten, Rewrites, Truncated, BundleVersion
<1>4. LinkMade'
    BY DEF LinkMade, WillLink, NoneMissing
<1>5. QED BY <1>1, <1>2, <1>3, <1>4

\* The link is removed only where there is one.
LEMMA TestLinkPair ==
    ASSUME SetupInvariant, PartialIsDownloaded, UnpackedStays, TornIsRewritten,
           LinkMade, NEW p \in Procs, TestLink(p)
    PROVE  PartialIsDownloaded' /\ UnpackedStays' /\ TornIsRewritten' /\ LinkMade'
<1> USE DEF SetupInvariant, TestLink, GoTo, disk
<1>1. PartialIsDownloaded'
    BY DEF PartialIsDownloaded, TypeOK
<1>2. UnpackedStays'
    BY DEF UnpackedStays, AfterUnpacking, FilesWhole, NoneMissing
<1>3. TornIsRewritten'
    BY DEF TornIsRewritten, Rewrites, Truncated, BundleVersion
<1>4. LinkMade'
    BY DEF LinkMade, WillLink, NoneMissing, TypeOK, NeedsRemoval, LinkResolves,
           Versions
<1>5. QED BY <1>1, <1>2, <1>3, <1>4

\* Who removes the link makes it again; who finds none leaves that to the other one.
LEMMA RemoveLinkPair ==
    ASSUME SetupInvariant, PartialIsDownloaded, UnpackedStays, TornIsRewritten,
           LinkMade, NEW p \in Procs, RemoveLink(p)
    PROVE  PartialIsDownloaded' /\ UnpackedStays' /\ TornIsRewritten' /\ LinkMade'
<1> USE DEF SetupInvariant, RemoveLink, GoTo, disk
<1>1. PartialIsDownloaded'
    BY DEF PartialIsDownloaded, TypeOK
<1>2. UnpackedStays'
    BY DEF UnpackedStays, AfterUnpacking, FilesWhole, NoneMissing
<1>3. TornIsRewritten'
    BY DEF TornIsRewritten, Rewrites, Truncated, BundleVersion
<1>4. LinkMade'
    BY DEF LinkMade, WillLink, NoneMissing, TypeOK
<1>5. QED BY <1>1, <1>2, <1>3, <1>4

\* After this step there is a link, whoever made it.
LEMMA MakeLinkPair ==
    ASSUME SetupInvariant, PartialIsDownloaded, UnpackedStays, TornIsRewritten,
           LinkMade, NEW p \in Procs, MakeLink(p)
    PROVE  PartialIsDownloaded' /\ UnpackedStays' /\ TornIsRewritten' /\ LinkMade'
<1> USE DEF SetupInvariant, MakeLink, GoTo, disk
<1>1. PartialIsDownloaded'
    BY DEF PartialIsDownloaded, TypeOK
<1>2. UnpackedStays'
    BY DEF UnpackedStays, AfterUnpacking, FilesWhole, NoneMissing
<1>3. TornIsRewritten'
    BY DEF TornIsRewritten, Rewrites, Truncated, BundleVersion
<1>4. LinkMade'
    BY DEF LinkMade, WillLink, NoneMissing, PlanOfProcess, TypeOK
<1>5. QED BY <1>1, <1>2, <1>3, <1>4

\* The end of a setup.
LEMMA OsHacksPair ==
    ASSUME SetupInvariant, PartialIsDownloaded, UnpackedStays, TornIsRewritten,
           LinkMade, NEW p \in Procs, OsHacks(p)
    PROVE  PartialIsDownloaded' /\ UnpackedStays' /\ TornIsRewritten' /\ LinkMade'
<1> USE DEF SetupInvariant, OsHacks, GoTo, disk
<1>1. PartialIsDownloaded'
    BY DEF PartialIsDownloaded, TypeOK
<1>2. UnpackedStays'
    BY DEF UnpackedStays, AfterUnpacking, FilesWhole, NoneMissing
<1>3. TornIsRewritten'
    BY DEF TornIsRewritten, Rewrites, Truncated, BundleVersion
<1>4. LinkMade'
    BY DEF LinkMade, WillLink, NoneMissing
<1>5. QED BY <1>1, <1>2, <1>3, <1>4

\* A process that has ended is not needed.
LEMMA ReturnPair ==
    ASSUME SetupInvariant, PartialIsDownloaded, UnpackedStays, TornIsRewritten,
           LinkMade, NEW p \in Procs, Return(p)
    PROVE  PartialIsDownloaded' /\ UnpackedStays' /\ TornIsRewritten' /\ LinkMade'
<1> USE DEF SetupInvariant, Return, GoTo, disk
<1>1. PartialIsDownloaded'
    BY DEF PartialIsDownloaded, TypeOK, Ended
<1>2. UnpackedStays'
    BY DEF UnpackedStays, AfterUnpacking, FilesWhole, NoneMissing, TypeOK
<1>3. TornIsRewritten'
    BY DEF TornIsRewritten, Rewrites, Truncated, BundleVersion, TypeOK, Ended
<1>4. LinkMade'
    BY DEF LinkMade, WillLink, NoneMissing, TypeOK, Ended
<1>5. QED BY <1>1, <1>2, <1>3, <1>4

\* Nothing is on the disk at the start.
LEMMA PairInit == ASSUME Init PROVE PairInvariant
BY DEF Init, PairInvariant, PartialIsDownloaded, UnpackedStays, TornIsRewritten, LinkMade,
       NoneMissing, AfterUnpacking, Versions, Files

\* Every step of two processes keeps the invariant; a fault ends what it speaks about.
LEMMA PairStep ==
    ASSUME AtMostTwo, SetupInvariant, PairInvariant, [Next]_vars
    PROVE  PairInvariant'
<1> SUFFICES ASSUME faults' = 0
             PROVE  PartialIsDownloaded' /\ UnpackedStays' /\ TornIsRewritten' /\ LinkMade'
    BY DEF PairInvariant
<1>1. ASSUME NEW p \in Procs, Fault(p) PROVE FALSE
    BY <1>1 DEF Fault, SetupInvariant, TypeOK
<1>2. faults = 0
    BY <1>1 DEF Next, Step, Start, AppearsIncomplete, Cleanup, Exec, CreateDir, CurlCreates, CurlEnds,
                OpenBundle, Untar, Unpacked, RemoveBundle, ReadVersion, RustupInstall, TestLink,
                RemoveLink, MakeLink, OsHacks, Return, DeleteLocalToolchain, proc, vars
<1>3. PartialIsDownloaded /\ UnpackedStays /\ TornIsRewritten /\ LinkMade
    BY <1>2 DEF PairInvariant
<1>4. ASSUME NEW p \in Procs, Step(p)
      PROVE  PartialIsDownloaded' /\ UnpackedStays' /\ TornIsRewritten' /\ LinkMade'
    BY <1>3, <1>4, AppearsIncompletePair, CleanupPair, ExecPair, CreateDirPair, CurlCreatesPair,
       CurlEndsPair, OpenBundlePair, UntarPair, UnpackedPair, RemoveBundlePair, ReadVersionPair,
       RustupInstallPair, TestLinkPair, RemoveLinkPair, MakeLinkPair, OsHacksPair, ReturnPair DEF Step
<1>5. CASE DeleteLocalToolchain \/ UNCHANGED vars
    BY <1>3, <1>5 DEF DeleteLocalToolchain, proc, vars, PartialIsDownloaded, UnpackedStays, FilesWhole,
                      TornIsRewritten, Rewrites, Truncated, BundleVersion, LinkMade, WillLink, NoneMissing
<1>6. QED BY <1>1, <1>3, <1>4, <1>5, StartPair DEF Next

\* For at most two processes, any command lines and without the tarball of another
\* version: when both have ended without a fault and one of them ended well, the
\* installation is whole, however their steps were interleaved and however often
\* they ran and failed before.
THEOREM PairInstalls ==
    ASSUME Leftover = FALSE, AtMostTwo PROVE Spec => []QuiescentInstalled
<1>1. SetupInvariant /\ PairInvariant => QuiescentInstalled
    <2> SUFFICES ASSUME SetupInvariant, PairInvariant, faults = 0, \A q \in Procs : pc[q] \in Ended,
                        NEW p \in Procs, pc[p] # "failed", ~DanglingLink
                 PROVE  Whole
        BY DEF QuiescentInstalled
    <2>1. pc[p] \in {"ok", "running"}
        BY DEF Ended
    <2>2. dir /\ NoneMissing
        BY <2>1 DEF SetupInvariant, PlanOfProcess, PairInvariant, UnpackedStays, FilesWhole, NoneMissing
    <2>3. \A q \in Procs : ~WillLink(q) /\ \A f \in Files : ~Rewrites(q, f)
        BY DEF Ended, WillLink, Rewrites
    <2>4. FilesWhole
        BY <2>2, <2>3 DEF PairInvariant, TornIsRewritten, NoneMissing, FilesWhole, SetupInvariant, TypeOK,
                          OwnVersion, Versions
    <2>5. link # "none"
        BY <2>2, <2>3 DEF PairInvariant, LinkMade
    <2>6. link \in {"own", "local"} /\ LinkResolves
        BY <2>5 DEF SetupInvariant, TypeOK, OwnVersion, DanglingLink, LinkResolves, Versions
    <2>7. QED BY <2>2, <2>4, <2>6 DEF Whole, FilesWhole
<1>2. Init => SetupInvariant
    BY SetupInit
<1>3. Init => PairInvariant
    BY PairInit
<1>4. SetupInvariant /\ [Next]_vars => SetupInvariant'
    BY SetupStep
<1>5. SetupInvariant /\ PairInvariant /\ [Next]_vars => PairInvariant'
    BY PairStep
<1>6. QED BY <1>1, <1>2, <1>3, <1>4, <1>5, PTL DEF Spec
=============================================================================
