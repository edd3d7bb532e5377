----------------------------- MODULE KaniSetup -----------------------------
(***************************************************************************)
(* The installer behind the two proxy binaries `kani` and `cargo-kani`     *)
(* (src/src/lib.rs, src/src/setup.rs, src/src/os_hacks.rs).                *)
(*                                                                         *)
(* An invocation either installs explicitly (`cargo kani setup`, with or   *)
(* without a local bundle and a local toolchain) or, by default, installs  *)
(* when the installation looks missing or interrupted and then runs the    *)
(* driver.  What survives an invocation is the disk: the directory         *)
(* kani-VERSION with the unpacked files, the tarballs beside it, the       *)
(* toolchains of rustup and the `toolchain` link.  Every invocation may    *)
(* be killed, and every command it starts may fail, between two of its     *)
(* effects on the disk; several invocations may run at once.               *)
(***************************************************************************)
EXTENDS Naturals, FiniteSets

CONSTANTS
    Procs,          \* processes that run the proxies
    Kinds,          \* the command lines they are given
    FaultPoints,    \* the steps at which a process may be killed or fail
    MaxFaults,      \* bound: how many times that happens
    NixOS,          \* the host needs patchelf (os_hacks.rs)
    Leftover        \* another version's tarball lies in the base directory

AllKinds == {"default", "setup", "setup_bundle", "setup_toolchain", "setup_both"}

Steps == {"scan", "mkdir", "download", "downloading", "open", "untar", "rmbundle",
          "readver", "rustup", "unlink", "remove", "link", "patch", "cleanup", "exec"}

ASSUME SetupAssumption ==
    /\ Kinds \subseteq AllKinds
    /\ FaultPoints \subseteq Steps
    /\ MaxFaults \in Nat
    /\ {NixOS, Leftover} \subseteq BOOLEAN

(* VERSION of this proxy, and of the one another Kani left a tarball of.   *)
Versions == {"own", "other"}

(* The files of the bundle that the proxy itself reads or runs: the two    *)
(* version files, taken as one, and the driver.                            *)
Files == {"rust-toolchain-version", "kani-driver"}

VARIABLES
    dir,        \* kani_dir exists
    bundles,    \* the tarballs in its parent, by version
    file,       \* what each unpacked file holds
    patched,    \* patchelf was applied to the driver
    toolchains, \* the toolchains rustup has installed
    localDir,   \* the user's own toolchain directory exists
    link,       \* target of kani_dir/toolchain
    pc,         \* the next step of each process, or how it ended
    kind,       \* its command line
    source,     \* the bundle it installs: "download", "local", or a tarball
    todo,       \* the files tar has still to write
    target,     \* the toolchain it links
    faulted,    \* its current invocation met a fault
    alone,      \* no other invocation has run at the same time
    faults,     \* faults so far
    cutOff      \* a setup ended early with no whole tarball of its own to resume from

disk == <<dir, bundles, file, patched, toolchains, localDir, link>>
proc == <<pc, kind, source, todo, target, faulted, alone, faults, cutOff>>
vars == <<dir, bundles, file, patched, toolchains, localDir, link,
          pc, kind, source, todo, target, faulted, alone, faults, cutOff>>

Ended == {"failed", "ok", "running"}

(* Every state component is of its kind.                                   *)
TypeOK ==
    /\ dir \in BOOLEAN
    /\ bundles \in [Versions -> {"absent", "partial", "complete"}]
    /\ file \in [Files -> Versions \cup {"none", "torn"}]
    /\ patched \in BOOLEAN
    /\ toolchains \subseteq Versions
    /\ localDir \in BOOLEAN
    /\ link \in Versions \cup {"none", "local"}
    /\ pc \in [Procs -> Steps \cup Ended \cup {"idle"}]
    /\ kind \in [Procs -> AllKinds]
    /\ source \in [Procs -> Versions \cup {"download", "local"}]
    /\ todo \in [Procs -> SUBSET Files]
    /\ target \in [Procs -> Versions \cup {"none", "local"}]
    /\ faulted \in [Procs -> BOOLEAN]
    /\ alone \in [Procs -> BOOLEAN]
    /\ faults \in 0..MaxFaults
    /\ cutOff \in BOOLEAN

Init ==
    /\ dir = FALSE
    /\ bundles = [v \in Versions |->
                    IF v = "other" /\ Leftover THEN "complete" ELSE "absent"]
    /\ file = [f \in Files |-> "none"]
    /\ patched = FALSE
    /\ toolchains = {}
    /\ localDir = TRUE
    /\ link = "none"
    /\ pc = [p \in Procs |-> "idle"]
    /\ kind = [p \in Procs |-> "default"]
    /\ source = [p \in Procs |-> "download"]
    /\ todo = [p \in Procs |-> {}]
    /\ target = [p \in Procs |-> "none"]
    /\ faulted = [p \in Procs |-> FALSE]
    /\ alone = [p \in Procs |-> TRUE]
    /\ faults = 0 /\ cutOff = FALSE

GoTo(p, step) == pc' = [pc EXCEPT ![p] = step]

(* Path::exists follows the link: a link to a removed directory does not   *)
(* "exist".                                                                *)
LinkResolves == link \in toolchains \/ (link = "local" /\ localDir)

-----------------------------------------------------------------------------
(* The proxy.                                                              *)

(* proxy() up to its first decision: appears_setup() is whether kani_dir   *)
(* exists, whatever is in it.  A user who names a local toolchain has one. *)
Start(p, k) ==
    /\ pc[p] = "idle"
    /\ k \in Kinds
    /\ k \in {"setup_toolchain", "setup_both"} => localDir
    /\ kind' = [kind EXCEPT ![p] = k]
    /\ source' = [source EXCEPT ![p] =
                    IF k \in {"setup_bundle", "setup_both"} THEN "local" ELSE "download"]
    /\ faulted' = [faulted EXCEPT ![p] = FALSE]
    /\ alone' = [q \in Procs |-> IF q = p THEN \A r \in Procs \ {p} : pc[r] = "idle"
                                 ELSE alone[q] /\ pc[q] = "idle"]
    /\ GoTo(p, IF k = "default" /\ dir THEN "scan" ELSE "mkdir")
    /\ UNCHANGED <<disk, todo, target, faults, cutOff>>

\* Mutant: an unpacked bundle is taken for a finished setup.
UnlessUnpacked == {v \in Versions : bundles[v] # "absent" /\ \E f \in Files : file[f] = "none"}

(* appears_incomplete(): the first *.tar.gz of the parent directory, of    *)
(* whatever version, is taken for the bundle of an interrupted setup.      *)
Candidates == {v \in Versions : bundles[v] # "absent"}

AppearsIncomplete(p) ==
    /\ pc[p] = "scan"
    /\ \/ \E v \in Candidates : /\ source' = [source EXCEPT ![p] = v]
                                /\ GoTo(p, "mkdir")
       \/ Candidates = {} /\ GoTo(p, "exec") /\ UNCHANGED source
    /\ UNCHANGED <<disk, kind, todo, target, faulted, alone, faults, cutOff>>

(* The bundle of a recovered setup is removed; an error is ignored.        *)
Cleanup(p) ==
    /\ pc[p] = "cleanup"
    /\ bundles' = [bundles EXCEPT ![source[p]] = "absent"]
    /\ GoTo(p, "exec")
    /\ UNCHANGED <<dir, file, patched, toolchains, localDir, link,
                   kind, source, todo, target, faulted, alone, faults, cutOff>>

(* exec(): reads rust-toolchain-version for RUSTUP_TOOLCHAIN and runs the  *)
(* driver; a missing file ends it with an error, anything else runs.       *)
Exec(p) ==
    /\ pc[p] = "exec"
    /\ GoTo(p, IF \E f \in Files : file[f] = "none" THEN "failed" ELSE "running")
    /\ UNCHANGED <<disk, kind, source, todo, target, faulted, alone, faults, cutOff>>

-----------------------------------------------------------------------------
(* setup().                                                                *)

CreateDir(p) ==
    /\ pc[p] = "mkdir"
    /\ dir' = TRUE
    /\ GoTo(p, IF source[p] = "download" THEN "download" ELSE "open")
    /\ UNCHANGED <<bundles, file, patched, toolchains, localDir, link,
                   kind, source, todo, target, faulted, alone, faults, cutOff>>

(* curl creates the file, and writes it until it is whole.                 *)
CurlCreates(p) ==
    /\ pc[p] = "download"
    /\ bundles' = [bundles EXCEPT !["own"] = "partial"]
    /\ GoTo(p, "downloading")
    /\ UNCHANGED <<dir, file, patched, toolchains, localDir, link,
                   kind, source, todo, target, faulted, alone, faults, cutOff>>

CurlEnds(p) ==
    /\ pc[p] = "downloading"
    /\ bundles' = [bundles EXCEPT !["own"] = "complete"]
    /\ GoTo(p, "open")
    /\ UNCHANGED <<dir, file, patched, toolchains, localDir, link,
                   kind, source, todo, target, faulted, alone, faults, cutOff>>

(* The tarball that process p unpacks; the user's own bundle is a build of *)
(* this version.                                                           *)
BundleVersion(p) == IF source[p] \in Versions THEN source[p] ELSE "own"

OpenBundle(p) ==
    /\ pc[p] = "open"
    /\ IF source[p] # "local" /\ bundles[BundleVersion(p)] = "absent"
         THEN GoTo(p, "failed") /\ UNCHANGED todo
         ELSE GoTo(p, "untar") /\ todo' = [todo EXCEPT ![p] = Files]
    /\ UNCHANGED <<disk, kind, source, target, faulted, alone, faults, cutOff>>

(* tar writes one file, in the order of the archive; it stops with an      *)
(* error at the end of a truncated archive, inside some file.              *)
Truncated(p) == source[p] # "local" /\ bundles[BundleVersion(p)] = "partial"

\* Mutant: the exit status of tar is not looked at.
UntarUnchecked(p) ==
    /\ pc[p] = "untar"
    /\ \E f \in todo[p] :
         /\ file' = [file EXCEPT ![f] = IF Truncated(p) THEN "torn" ELSE BundleVersion(p)]
         /\ patched' = (patched /\ f # "kani-driver")
         /\ todo' = [todo EXCEPT ![p] = IF Truncated(p) THEN {} ELSE @ \ {f}]
    /\ UNCHANGED <<dir, bundles, toolchains, localDir, link, pc, kind, source, target,
                   faulted, alone, faults, cutOff>>

Untar(p) ==
    /\ pc[p] = "untar"
    /\ \E f \in todo[p] :
         IF Truncated(p)
           THEN /\ file' = [file EXCEPT ![f] = "torn"]
                /\ GoTo(p, "failed")
                /\ UNCHANGED <<patched, todo>>
           ELSE /\ file' = [file EXCEPT ![f] = BundleVersion(p)]
                /\ patched' = (patched /\ f # "kani-driver")
                /\ todo' = [todo EXCEPT ![p] = @ \ {f}]
                /\ UNCHANGED pc
    /\ UNCHANGED <<dir, bundles, toolchains, localDir, link, kind, source, target,
                   faulted, alone, faults, cutOff>>

(* The downloaded bundle is removed as soon as it is unpacked; a local one *)
(* and that of an interrupted setup are left alone.                        *)
Unpacked(p) ==
    /\ pc[p] = "untar"
    /\ todo[p] = {}
    /\ GoTo(p, IF source[p] = "download" THEN "rmbundle" ELSE "readver")
    /\ UNCHANGED <<disk, kind, source, todo, target, faulted, alone, faults, cutOff>>

RemoveBundle(p) ==
    /\ pc[p] = "rmbundle"
    /\ bundles' = [bundles EXCEPT !["own"] = "absent"]
    /\ GoTo(p, IF bundles["own"] = "absent" THEN "failed" ELSE "readver")
    /\ UNCHANGED <<dir, file, patched, toolchains, localDir, link,
                   kind, source, todo, target, faulted, alone, faults, cutOff>>

(* setup_rust_toolchain reads the version files of the bundle.  A local    *)
(* toolchain is linked only when its rustc is the bundle's.                *)
UsesLocalToolchain(p) == kind[p] \in {"setup_toolchain", "setup_both"}

ReadVersion(p) ==
    /\ pc[p] = "readver"
    /\ LET version == file["rust-toolchain-version"]
           fails == \/ version \notin Versions
                    \/ UsesLocalToolchain(p) /\ (version # "own" \/ ~localDir)
       IN  /\ target' = [target EXCEPT ![p] =
                           IF fails THEN @
                           ELSE IF UsesLocalToolchain(p) THEN "local" ELSE version]
           /\ GoTo(p, IF fails THEN "failed"
                      ELSE IF UsesLocalToolchain(p) THEN "unlink" ELSE "rustup")
    /\ UNCHANGED <<disk, kind, source, todo, faulted, alone, faults, cutOff>>

RustupInstall(p) ==
    /\ pc[p] = "rustup"
    /\ toolchains' = toolchains \cup {target[p]}
    /\ GoTo(p, "unlink")
    /\ UNCHANGED <<dir, bundles, file, patched, localDir, link,
                   kind, source, todo, target, faulted, alone, faults, cutOff>>

(* symlink_rust_toolchain: test, remove, link.                             *)
NeedsRemoval == LinkResolves

TestLink(p) ==
    /\ pc[p] = "unlink"
    /\ GoTo(p, IF NeedsRemoval THEN "remove" ELSE "link")
    /\ UNCHANGED <<disk, kind, source, todo, target, faulted, alone, faults, cutOff>>

RemoveLink(p) ==
    /\ pc[p] = "remove"
    /\ link' = "none"
    /\ GoTo(p, IF link = "none" THEN "failed" ELSE "link")
    /\ UNCHANGED <<dir, bundles, file, patched, toolchains, localDir,
                   kind, source, todo, target, faulted, alone, faults, cutOff>>

MakeLink(p) ==
    /\ pc[p] = "link"
    /\ link' = IF link = "none" THEN target[p] ELSE link
    /\ GoTo(p, IF link = "none" THEN "patch" ELSE "failed")
    /\ UNCHANGED <<dir, bundles, file, patched, toolchains, localDir,
                   kind, source, todo, target, faulted, alone, faults, cutOff>>

(* setup_os_hacks, the last step of setup(), and what the caller does      *)
(* next.                                                                   *)
AfterSetup(p) ==
    IF kind[p] # "default" THEN "ok"
    ELSE IF source[p] = "download" THEN "exec" ELSE "cleanup"

OsHacks(p) ==
    /\ pc[p] = "patch"
    /\ patched' = (patched \/ NixOS)
    /\ GoTo(p, AfterSetup(p))
    /\ cutOff' = (cutOff /\ ~(source[p] = "download" /\ alone[p]))
    /\ UNCHANGED <<dir, bundles, file, toolchains, localDir, link,
                   kind, source, todo, target, faulted, alone, faults>>

-----------------------------------------------------------------------------
(* Kill, failed command, end of the invocation, the user.                  *)

(* Between the creation of the directory and the end of setup().           *)
Installing == Steps \ {"scan", "mkdir", "cleanup", "exec"}

(* A kill, or an error that `?` returns.  tar may leave a file torn.       *)
Fault(p) ==
    /\ pc[p] \in FaultPoints
    /\ faults < MaxFaults
    /\ faults' = faults + 1
    /\ faulted' = [faulted EXCEPT ![p] = TRUE]
    /\ GoTo(p, "failed")
    /\ \/ UNCHANGED file
       \/ \E f \in todo[p] : pc[p] = "untar" /\ file' = [file EXCEPT ![f] = "torn"]
    /\ cutOff' = (cutOff \/ (pc[p] \in Installing /\ bundles["own"] # "complete"))
    /\ UNCHANGED <<dir, bundles, patched, toolchains, localDir, link,
                   kind, source, todo, target, alone>>

Return(p) ==
    /\ pc[p] \in Ended
    /\ GoTo(p, "idle")
    /\ todo' = [todo EXCEPT ![p] = {}]
    /\ cutOff' = (cutOff \/ (pc[p] = "failed" /\ ~alone[p]))
    /\ UNCHANGED <<disk, kind, source, target, faulted, alone, faults>>

DeleteLocalToolchain ==
    /\ localDir
    /\ \A p \in Procs : pc[p] = "idle"
    /\ localDir' = FALSE
    /\ UNCHANGED <<dir, bundles, file, patched, toolchains, link, proc>>

Step(p) ==
    \/ AppearsIncomplete(p) \/ Cleanup(p) \/ Exec(p)
    \/ CreateDir(p) \/ CurlCreates(p) \/ CurlEnds(p)
    \/ OpenBundle(p) \/ Untar(p) \/ Unpacked(p) \/ RemoveBundle(p)
    \/ ReadVersion(p) \/ RustupInstall(p)
    \/ TestLink(p) \/ RemoveLink(p) \/ MakeLink(p)
    \/ OsHacks(p) \/ Return(p)

Next ==
    \/ \E p \in Procs : Step(p) \/ Fault(p) \/ \E k \in Kinds : Start(p, k)
    \/ DeleteLocalToolchain

Spec == Init /\ [][Next]_vars

-----------------------------------------------------------------------------

(* What a finished setup leaves behind: the whole bundle of this version,  *)
(* the toolchain it needs, and binaries the host can run.                  *)
Whole ==
    /\ dir
    /\ \A f \in Files : file[f] = "own"
    /\ link \in {"own", "local"} /\ LinkResolves

Installed == Whole /\ (NixOS => patched)

(* `cargo kani setup` reports success only for a whole installation, from  *)
(* whatever state earlier interrupted or failed or concurrent setups left  *)
(* the disk in (setup.rs setup(): each step's error is returned).          *)
SetupOkMeansInstalled == \A p \in Procs : pc[p] = "ok" /\ alone[p] => Installed

DanglingLink == link = "local" /\ ~localDir

(* setup() is idempotent (setup.rs symlink_rust_toolchain: "We want setup  *)
(* to be idempotent"): on any disk an earlier setup left, an undisturbed   *)
(* `cargo kani setup` fails only if one of its own commands does, and the  *)
(* same holds of `cargo kani` unless a setup was cut off without a whole   *)
(* tarball.  The exception is a link to a local toolchain that is gone,    *)
(* which Path::exists does not see and symlink trips over.                 *)
FailsOnlyOnFault ==
    \A p \in Procs : pc[p] = "failed" /\ alone[p] =>
        faulted[p] \/ DanglingLink \/ (kind[p] = "default" /\ cutOff)

(* An undisturbed `kani` or `cargo kani` runs the driver only on a whole   *)
(* installation of its own release: the setup that was interrupted is      *)
(* resumed first (lib.rs proxy()), if a whole tarball was there to resume  *)
(* from.                                                                   *)
DriverIsComplete ==
    \A p \in Procs : pc[p] = "running" /\ alone[p] => Installed \/ DanglingLink \/ cutOff

(* What an invocation that nobody disturbed tells about the disk, whatever *)
(* setups were cut off before it: success and a running driver stand for a *)
(* whole installation, and failure for a fault of its own.                 *)
UndisturbedOutcome == SetupOkMeansInstalled /\ FailsOnlyOnFault /\ DriverIsComplete

(* Whatever the order of the steps of two concurrent invocations, once     *)
(* both have ended and at least one of them ended well, the installation   *)
(* is whole: the fixed names of the tarball, the directory and the link    *)
(* make one of them fail, not the result.  (Binaries that one of them      *)
(* unpacks last may lack the patch for NixOS.)  With a third invocation it *)
(* does not hold: one resumes from the tarball of another while the third  *)
(* creates it again.                                                       *)
QuiescentInstalled ==
    (/\ faults = 0
     /\ \A p \in Procs : pc[p] \in Ended
     /\ \E p \in Procs : pc[p] # "failed") => Whole \/ DanglingLink

(* The driver that is run is the one of the proxy's own release (lib.rs    *)
(* exec(), setup.rs kani_dir()).                                           *)
RunsOwnVersion == \A p \in Procs : pc[p] = "running" => file["kani-driver"] = "own"

=============================================================================
