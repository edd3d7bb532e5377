----------------------------- MODULE CargoBuild -----------------------------
(***************************************************************************)
(* What is built and which harnesses come out of it: the packages and      *)
(* targets that cargo-kani builds, cargo's messages, the project with its  *)
(* harnesses and artifacts, and the lists of the list command (kani-driver:*)
(* call_cargo.rs, project.rs, metadata.rs, list/; kani_metadata:           *)
(* harness.rs).                                                            *)
(*                                                                         *)
(* A package is [name, targets]; a target is [name, plain, kinds, crate,   *)
(* harnesses, fns, contracted, compiles], where plain is the name with     *)
(* underscores, harnesses and fns name the proof harnesses and the other   *)
(* functions, and compiles says what the compiler makes of it.             *)
(***************************************************************************)
EXTENDS CbmcOutputParser

CONSTANTS
    Workspace,       \* the packages of the workspace, in cargo's order
    DefaultMembers,  \* the names of the default members
    Dependencies,    \* names of packages outside of the workspace
    StdTargets,      \* the targets that cargo builds for the standard library
    SingleFiles,     \* the crate in each file that kani can be given
    Harness          \* the harnesses of the program text, by name

PackageNames == {Workspace[i].name : i \in DOMAIN Workspace}

-----------------------------------------------------------------------------
(* Packages and targets.                                                   *)

\* cargo pkgid knows the packages of the workspace and their dependencies.
to_package_ids(names) ==
    [ok |-> Range(names) \subseteq PackageNames \cup Dependencies, ids |-> Range(names)]

Texts(values) == [i \in DOMAIN values |-> values[i].s]
PackagesIn(names) == SelectSeq(Workspace, LAMBDA p : p.name \in names)

packages_to_verify(a) ==
    LET wanted == Texts(All(a, "package"))
        excluded == Texts(All(a, "exclude"))
        chosen == PackagesIn(to_package_ids(wanted).ids)
    IN  CASE wanted # <<>> ->
                [ok |-> to_package_ids(wanted).ok /\ Len(chosen) >= Len(wanted), packages |-> chosen]
          [] wanted = <<>> /\ excluded # <<>> ->
                [ok |-> to_package_ids(excluded).ok,
                 packages |-> PackagesIn(PackageNames \ to_package_ids(excluded).ids)]
          [] OTHER -> [ok |-> TRUE,
                       packages |-> IF has(a, "workspace") THEN Workspace ELSE PackagesIn(DefaultMembers)]

LibKinds == {"lib", "rlib", "cdylib", "dylib", "staticlib"}
VerificationTarget(kind, target) == [kind |-> kind, target |-> target]
to_args(v) == CASE v.kind = "Test" -> <<Opt("test", Text(v.target.name))>>
                [] v.kind = "Bin" -> <<Opt("bin", Text(v.target.name))>>
                [] OTHER -> <<On("lib")>>

\* One entry for every kind of executable; a library counts once, and not at
\* all when it is a procedural macro too.
TargetsOf(a, target) ==
    LET Of(kind) ==
            CASE kind = "bin" /\ include_bin(a, target.name) -> <<VerificationTarget("Bin", target)>>
              [] kind = "test" /\ include_tests(a) /\ has(a, "tests") -> <<VerificationTarget("Test", target)>>
              [] OTHER -> <<>>
        isLib == include_lib(a) /\ Range(target.kinds) \cap LibKinds # {} /\ "proc-macro" \notin Range(target.kinds)
    IN  FlattenSeq([i \in DOMAIN target.kinds |-> Of(target.kinds[i])])
          \o (IF isLib THEN <<VerificationTarget("Lib", target)>> ELSE <<>>)

package_targets(a, package) == FlattenSeq([i \in DOMAIN package.targets |-> TargetsOf(a, package.targets[i])])

\* The targets in the order in which cargo_build builds them.
AllTargets(a) ==
    LET packages == packages_to_verify(a).packages
    IN  FlattenSeq([i \in DOMAIN packages |-> package_targets(a, packages[i])])

-----------------------------------------------------------------------------
(* External: the messages of one cargo call, and how it ends.              *)

Artifact(target, files) == [k |-> "artifact", level |-> "", target |-> target, files |-> files]
CompilerMessage(level) == [k |-> "message", level |-> level, target |-> <<>>, files |-> <<>>]
BuildScript == [name |-> "build-script-build", plain |-> "build_script_build", kinds |-> <<"custom-build">>]
Named(t) == [name |-> t.plain, plain |-> t.plain, kinds |-> t.kinds]
FilesOf(t) == IF Range(t.kinds) \cap LibKinds # {} THEN <<"rlib", "rmeta">> ELSE <<"exe">>
CargoMessages(t) ==
    <<Artifact(BuildScript, <<"exe">>), CompilerMessage("warning")>>
      \o (CASE t.compiles = "error" -> <<CompilerMessage("error")>>
            [] t.compiles = "ice" -> <<CompilerMessage("ice"), CompilerMessage("error")>>
            [] OTHER -> <<Artifact(Named(t), FilesOf(t))>>)
CargoStatus(t) == IF t.compiles = "ok" THEN 0 ELSE 101

-----------------------------------------------------------------------------
(* run_build and what becomes of the artifacts.                            *)

\* An internal compiler error ends the loop.
run_build(messages, status) ==
    LET ice == \E i \in DOMAIN messages : messages[i].level = "ice"
    IN  [ok |-> ~ice /\ status = 0,
         artifacts |-> IF ice THEN <<>> ELSE SelectSeq(messages, LAMBDA m : m.k = "artifact")]

\* Names are compared without their dashes too.
same_target(t1, t2) == t1.plain = t2.plain /\ t1.kinds = t2.kinds

\* The metadata file: none of a build script, and none through an rlib.
map_kani_artifact(artifact) ==
    "custom-build" \notin Range(artifact.target.kinds) /\ \E i \in DOMAIN artifact.files : artifact.files[i] # "rlib"

run_build_target(t) ==
    LET built == run_build(CargoMessages(t), CargoStatus(t))
    IN  [ok |-> built.ok,
         found |-> \E i \in DOMAIN built.artifacts :
                        same_target(built.artifacts[i].target, t) /\ map_kani_artifact(built.artifacts[i])]

\* cargo_build_std: one call, and the metadata of every library of it.
cargo_build_std_ok == \A i \in DOMAIN StdTargets : StdTargets[i].compiles = "ok"
StdLibs == SelectSeq(StdTargets, LAMBDA t : Range(t.kinds) \cap {"lib", "rlib"} # {})

-----------------------------------------------------------------------------
(* The harnesses of a crate, and the compiler's choice of them.            *)

Substring(s, t) == \E i \in 1..(Len(s) - Len(t) + 1) : SubSeq(s, i, i + Len(t) - 1) = t

find_proof_harnesses(filters, all, exact) ==
    SelectSeq(all, LAMBDA h : ~h.auto /\ (\/ h.name \in filters
                                          \/ ~exact /\ h.short \in filters
                                          \/ ~exact /\ \E f \in filters : Substring(h.name, f)))

\* The lines of a harness are those it has in its file when it is compiled.
LineOf(file, text) == CHOOSE i \in DOMAIN file : file[i].text = text
Located(h, files) ==
    [h EXCEPT !.start = LineOf(files[h.file], "fn " \o h.name), !.end = LineOf(files[h.file], "} " \o h.name)]

\* determine_targets and automatic_harness_partition of the compiler, see
\* module CodegenUnits.
Flags(flags, name) == {flags[i].value.s : i \in {j \in DOMAIN flags : flags[j].name = name}}
ManualHarnesses(names, flags) ==
    LET all == [i \in DOMAIN names |-> Harness[names[i]]]
        filters == Flags(flags, "harness")
    IN  IF filters = {} THEN all ELSE find_proof_harnesses(filters, all, On("exact") \in Range(flags))
Chosen(names, flags) ==
    LET include == Flags(flags, "autoharness-include-pattern")
        exclude == Flags(flags, "autoharness-exclude-pattern")
    IN  SelectSeq(names, LAMBDA f : /\ include = {} \/ \E p \in include : Substring(f, p)
                                    /\ ~\E p \in exclude : Substring(f, p))
AutomaticHarnesses(names, flags) ==
    LET chosen == IF Flags(flags, "reachability") = {"all_fns"} THEN Chosen(names, flags) ELSE <<>>
    IN  [i \in DOMAIN chosen |-> Harness[chosen[i]]]

\* KaniMetadata, as the compiler writes it for the crate of a target
KaniMetadata(t, flags, files) ==
    LET hs == ManualHarnesses(t.harnesses, flags) \o AutomaticHarnesses(t.fns, flags)
    IN  [crate |-> t.crate, harnesses |-> [i \in DOMAIN hs |-> Located(hs[i], files)], contracted |-> t.contracted]

-----------------------------------------------------------------------------
(* Project and the harnesses to verify.                                    *)

get_all_harnesses(metadata) == FlattenSeq([i \in DOMAIN metadata |-> metadata[i].harnesses])

\* Artifacts are the goto files of the harnesses that were linked.
get_harness_artifact(artifacts, h) == h.name \in artifacts

\* FALSE: some filter has no harness.
determine_targets(a, harnesses) == ~(has(a, "exact") /\ Len(harnesses) < Len(All(a, "harness")))

\* Mutant: from the top of the file down.
sort_harnesses_by_locAscending(harnesses) ==
    SortSeq(harnesses, LAMBDA x, y : x.start < y.start)

\* Files one after another, and in each from the last harness to the first.
sort_harnesses_by_loc(harnesses) ==
    LET files == {harnesses[i].file : i \in DOMAIN harnesses}
        Of(f) == SelectSeq(harnesses, LAMBDA h : h.file = f)
        order == SetToSeq(files)
    IN  FlattenSeq([i \in DOMAIN order |-> SortSeq(Of(order[i]), LAMBDA x, y : x.start > y.start)])

-----------------------------------------------------------------------------
(* The list command: ListMetadata of a crate has the harnesses by file.    *)

ByFile(hs) == [f \in {hs[i].file : i \in DOMAIN hs} |-> {hs[i].name : i \in {j \in DOMAIN hs : hs[j].file = f}}]
ListMetadata(md) ==
    LET Of(kind) == SelectSeq(md.harnesses, LAMBDA h : h.kind = kind)
    IN  [crate |-> md.crate,
         standard_harnesses |-> ByFile(Of("Proof")), standard_harnesses_count |-> Len(Of("Proof")),
         contract_harnesses |-> ByFile(Of("ProofForContract")),
         contract_harnesses_count |-> Len(Of("ProofForContract")),
         contracted_functions |-> md.contracted]

process_metadata(metadata) == {ListMetadata(metadata[i]) : i \in DOMAIN metadata}

\* A file of two crates keeps the harnesses of the later one.
Merge(acc, item) ==
    [crate |-> acc.crate,
     standard_harnesses |-> item.standard_harnesses @@ acc.standard_harnesses,
     standard_harnesses_count |-> acc.standard_harnesses_count + item.standard_harnesses_count,
     contract_harnesses |-> item.contract_harnesses @@ acc.contract_harnesses,
     contract_harnesses_count |-> acc.contract_harnesses_count + item.contract_harnesses_count,
     contracted_functions |-> acc.contracted_functions \cup item.contracted_functions]

merge_list_metadata(list) == LET s == SetToSeq(list) IN FoldLeft(Merge, s[1], Tail(s))

\* The tables of `pretty` and `markdown`: their rows and their last lines.
construct_contracts_table(list) ==
    LET s == SetToSeq(list)
    IN  [rows |-> UNION {{<<md.crate, f>> : f \in md.contracted_functions} : md \in list},
         functions |-> FoldLeft(LAMBDA n, md : n + Cardinality(md.contracted_functions), 0, s),
         harnesses |-> FoldLeft(LAMBDA n, md : n + md.contract_harnesses_count, 0, s)]

construct_standard_table(list) ==
    LET Rows(md) == UNION {{<<md.crate, f, h>> : h \in md.standard_harnesses[f]} : f \in DOMAIN md.standard_harnesses}
        rows == UNION {Rows(md) : md \in list}
    IN  [rows |-> rows, total |-> Cardinality(rows)]

\* What output_list_results says: how many of each there are, and which.
Listing(standard, contract, functions, names) ==
    [standard |-> standard, contract |-> contract, functions |-> functions, names |-> names]
pretty(list) ==
    Listing(construct_standard_table(list).total, construct_contracts_table(list).harnesses,
            construct_contracts_table(list).functions, {row[3] : row \in construct_standard_table(list).rows})
json(list) ==
    LET md == merge_list_metadata(list)
    IN  Listing(md.standard_harnesses_count, md.contract_harnesses_count, Cardinality(md.contracted_functions),
                UNION Range(md.standard_harnesses))
\* json expects that there is some crate.
output_list_results(list, format) ==
    IF format # "json" THEN <<pretty(list)>> ELSE IF list = {} THEN <<>> ELSE <<json(list)>>
=============================================================================
