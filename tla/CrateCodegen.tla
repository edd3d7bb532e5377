---------------------------- MODULE CrateCodegen ----------------------------
(***************************************************************************)
(* The back end of kani-compiler (codegen_crate): it groups the harnesses  *)
(* of a crate into units, and for each harness of a unit collects the      *)
(* items reachable from it in the transformed bodies, runs the global      *)
(* passes, collects again where they changed a body, and generates a       *)
(* model.  The bodies of a unit are transformed once and shared.           *)
(*                                                                         *)
(* Hash maps and hash sets are visited in any order.  The items a body     *)
(* mentions come from a hash set: they are visited in any order, but the   *)
(* ones that were found last come first.                                   *)
(***************************************************************************)
EXTENDS CodegenUnits

CONSTANT Programs  \* the crates, with the attributes of their harnesses

\* Bodies mention functions and statics; functions can be stubbed, by functions, and
\* have contracts; the ones of Kani's own memory model are not among those of the
\* crate, and a harness for a contract names one that has a contract
\* (handle_proof_for_contract reports any other as an error).
ASSUME ProgramsAssumption ==
    \A p \in Programs :
        /\ IsFiniteSet(p.fns) /\ IsFiniteSet(p.statics) /\ p.fns \cap p.statics = {}
        /\ "mem_init" \notin p.fns /\ None \notin p.fns
        /\ p.contract \subseteq p.fns /\ p.opts.pub \subseteq p.fns
        /\ \A x \in p.fns \cup p.statics : p.refs[x] \subseteq p.fns \cup p.statics
        /\ \A h \in DOMAIN p.stubs :
              /\ h \in p.fns /\ p.check[h] \in p.contract \cup {None}
              /\ DOMAIN p.stubs[h] \cup Range(p.stubs[h]) \subseteq p.fns

VARIABLES
    prog,      \* the crate that is compiled
    phase,     \* what the compiler is doing
    grouped,   \* harnesses already in a unit
    units,     \* CodegenUnits::units, each with the key it was found by
    errors,    \* whether an error was reported that is not yet fatal
    unit,      \* the unit being compiled, its harnesses not yet compiled
    pending,   \*   in order
    cache,     \* BodyTransformation::cache, and the initializers of statics
    unused,    \* FunctionWithContractPass::unused_closures
    roots,     \* starting points not yet collected
    queue,     \* MonoItemsCollector::queue, as a set
    stack,     \*   and in the sets in which its items were added, not yet visited
    collected, \* MonoItemsCollector::collected
    again,     \* whether this is the second collection
    models,    \* the model of each harness: the bodies of its items
    assigns,   \* modifies_instances: the wrapper the assigns clause is put on
    metadata   \* the harnesses of the metadata file

vars == <<prog, phase, grouped, units, errors, unit, pending, cache, unused, roots,
          queue, stack, collected, again, models, assigns, metadata>>

collectorVars == <<roots, queue, stack, collected, again>>
unitVars == <<unit, pending, cache, unused>>
outputVars == <<models, assigns, metadata>>

NoUnit == [key |-> None, harnesses |-> <<>>, stubs |-> [f \in {} |-> None]]
Empty == [i \in {} |-> None]

Init ==
    /\ prog \in Programs
    /\ phase = "group" /\ grouped = {} /\ units = {} /\ errors = FALSE
    /\ unit = NoUnit /\ pending = <<>> /\ cache = Empty /\ unused = {}
    /\ roots = {} /\ queue = {} /\ stack = <<>> /\ collected = {} /\ again = FALSE
    /\ models = Empty /\ assigns = Empty /\ metadata = {}

-----------------------------------------------------------------------------
(* CodegenUnits::new *)

\* One iteration of group_by_stubs; an automatic harness is a unit of its own.
Group(h) ==
    LET key == IF h[1] = "fn" THEN Key(prog, h) ELSE <<h>>
        same == {u \in units : u.key = key}
        stubs == StubsOf(prog, h)
    IN  /\ phase = "group" /\ h \notin grouped
        /\ grouped' = grouped \cup {h}
        /\ IF same # {}
           THEN /\ units' = (units \ same) \cup
                      {[u EXCEPT !.harnesses = Append(@, h)] : u \in same}
                /\ UNCHANGED errors
           ELSE /\ units' = units \cup
                      {[key |-> key, harnesses |-> <<h>>,
                        stubs |-> ApplyTransitivity(stubs)]}
                /\ errors' = (errors \/ HasCycle(stubs))
        /\ UNCHANGED <<prog, phase, unitVars, collectorVars, outputVars>>

\* validate_units
Validate ==
    /\ phase = "group" /\ grouped = AllHarnesses(prog)
    /\ phase' = IF errors \/ \E u \in units : UnitInvalid(prog, u)
                THEN "aborted" ELSE "units"
    /\ UNCHANGED <<prog, grouped, units, errors, unitVars, collectorVars, outputVars>>

-----------------------------------------------------------------------------
(* codegen_crate: the loop over units and harnesses *)

\* BodyTransformation::new: an empty cache for each unit.
StartUnit(u) ==
    /\ phase = "units" /\ pending = <<>> /\ u \in units
    /\ units' = units \ {u}
    /\ unit' = u /\ pending' = u.harnesses
    /\ cache' = Empty /\ unused' = {}
    /\ UNCHANGED <<prog, phase, grouped, errors, collectorVars, outputVars>>

StartHarness ==
    /\ phase = "units" /\ pending # <<>>
    /\ phase' = "collect"
    /\ roots' = Roots(prog, Head(pending))
    /\ queue' = {} /\ stack' = <<>> /\ collected' = {} /\ again' = FALSE
    /\ UNCHANGED <<prog, grouped, units, errors, unitVars, outputVars>>

-----------------------------------------------------------------------------
(* MonoItemsCollector *)

\* collect
CollectRoot(r) ==
    /\ phase = "collect" /\ queue = {} /\ r \in roots
    /\ roots' = roots \ {r} /\ queue' = {r} /\ stack' = <<{r}>>
    /\ UNCHANGED <<prog, phase, grouped, units, errors, unitVars, collected, again,
                   outputVars>>

\* The sets of a stack without the items of S.
Without(s, S) == SelectSeq([n \in DOMAIN s |-> s[n] \ S], LAMBDA batch : batch # {})

\* One iteration of reachable_items that finds an item not yet collected, with visit_fn
\* or visit_static.
Visit(i) ==
    LET known == i \in DOMAIN cache
        body == IF known THEN cache[i] ELSE Transform(prog, unit, unused, i)
    IN  /\ phase = "collect" /\ i \in queue /\ i \in stack[Len(stack)]
        /\ IF ~known /\ Panics(prog, unit, i)
           THEN phase' = "aborted" /\ UNCHANGED <<queue, stack, collected, cache, unused, errors>>
           ELSE /\ collected' = collected \cup {i}
                /\ queue' = (queue \cup NextItems(prog, body)) \ collected'
                /\ stack' = Without(Append(stack, NextItems(prog, body)), collected')
                /\ cache' = [j \in DOMAIN cache \cup {i} |->
                                IF j = i THEN body ELSE cache[j]]
                /\ unused' = IF known THEN unused ELSE MarkUnused(prog, unit, unused, i)
                /\ errors' = (errors \/ (~known /\ Reports(prog, unit, unused, i)))
                /\ UNCHANGED phase
        /\ UNCHANGED <<prog, grouped, units, unit, pending, roots, again, outputVars>>

\* collect_reachable_items ends with abort_if_errors.
AbortIfErrors ==
    /\ phase = "collect" /\ queue = {} /\ roots = {} /\ errors
    /\ phase' = "aborted"
    /\ UNCHANGED <<prog, grouped, units, errors, unitVars, collectorVars, outputVars>>

-----------------------------------------------------------------------------
(* codegen_items, after the collection *)

Functions == {i \in collected : ~IsStatic(i)}

\* The functions, of those collected, that the analysis from the harness h goes through.
Followed(h) == {i \in Functions \cap Analyzed(prog, h) : i[1] = "fn"}

\* Mutant: the analysis starts from the first harness of the unit.
AnalysisOfFirst == Followed(unit.harnesses[1])

\* DelayedUbPass::transform looks for targets, and follows pointers from them, in the
\* bodies before any pass.
Analysis == Followed(Head(pending))
HasTarget == prog.opts.uninit /\ \E i \in Analysis : i[2] \in prog.targets

\* It instruments the transformed bodies, by the locals of the original ones.  So it
\* instruments a function that is as written where it has to; of the body of a stub,
\* what has the number of a local that the function itself would have used.
Instrumented ==
    {i \in Analysis : HasTarget /\ i[2] \in prog.tracked /\ cache[i].src = i}
Misread ==
    {i \in Analysis : HasTarget /\ i[2] \in prog.tracked /\ cache[i].src # i}

\* Mutant: no second collection.
GlobalPassNoRecollect ==
    /\ phase = "collect" /\ queue = {} /\ roots = {} /\ ~again /\ ~errors
    /\ cache' = [i \in DOMAIN cache |->
                   IF i \in Instrumented
                   THEN [cache[i] EXCEPT !.tracked = TRUE, !.own = @ \cup {MemInitFn}]
                   ELSE cache[i]]
    /\ again' = TRUE
    /\ UNCHANGED <<prog, phase, grouped, units, errors, unit, pending, unused, roots, queue,
                   stack, collected, outputVars>>

\* run_global_passes, and the second collection where a body was modified.
GlobalPass ==
    /\ phase = "collect" /\ queue = {} /\ roots = {} /\ ~again /\ ~errors
    /\ \E odd \in SUBSET Misread :
          LET modified == Instrumented \cup odd
          IN  /\ cache' = [i \in DOMAIN cache |->
                             IF i \in modified
                             THEN [cache[i] EXCEPT !.tracked = TRUE,
                                                   !.own = @ \cup {MemInitFn}]
                             ELSE cache[i]]
              /\ IF modified # {}
                 THEN roots' = Roots(prog, Head(pending)) /\ collected' = {}
                 ELSE UNCHANGED <<roots, collected>>
    /\ again' = TRUE
    /\ UNCHANGED <<prog, phase, grouped, units, errors, unit, pending, unused, queue,
                   stack, outputVars>>

\* check_reachable_items: the target of a contract harness is reachable.
TargetMissing(h) ==
    h[1] = "fn" /\ CheckFn(prog, h) # None /\ <<"fn", CheckFn(prog, h)>> \notin collected

\* Mutant: the wrapper of the check closure also where recursion is checked.
ModifiesOfCheck(h) == <<"modifies", ContractTarget(prog, h)>>

\* handle_check_contract, find_modifies
Modifies(h) ==
    LET f == ContractTarget(prog, h)
    IN  <<IF f \in prog.recursive THEN "rec_modifies" ELSE "modifies", f>>

\* find_recursion_tracker asserts that there is up to one.
TwoTrackers(h) ==
    /\ ContractTarget(prog, h) # None
    /\ \E i, j \in collected : i[1] = "REENTRY" /\ j[1] = "REENTRY" /\ i # j

\* Declares and generates every item, looks for the wrapper and the recursion tracker
\* of a contract, and sends the model to the export pool.
CodegenItems ==
    LET h == Head(pending)
    IN  /\ phase = "collect" /\ queue = {} /\ roots = {} /\ again /\ ~errors
        /\ IF TargetMissing(h) \/ TwoTrackers(h)
           THEN phase' = "aborted" /\ UNCHANGED <<pending, models, assigns>>
           ELSE /\ phase' = "units"
                /\ pending' = Tail(pending)
                /\ models' = [g \in DOMAIN models \cup {h} |->
                                IF g = h THEN [i \in collected |-> cache[i]] ELSE models[g]]
                /\ assigns' = IF ContractTarget(prog, h) = None THEN assigns
                              ELSE [g \in DOMAIN assigns \cup {h} |->
                                      IF g = h THEN Modifies(h) ELSE assigns[g]]
        /\ UNCHANGED <<prog, grouped, units, errors, unit, cache, unused, collectorVars,
                       metadata>>

\* write_metadata
WriteMetadata ==
    /\ phase = "units" /\ units = {} /\ pending = <<>>
    /\ phase' = "done"
    /\ metadata' = grouped \ {PubFns}
    /\ UNCHANGED <<prog, grouped, units, errors, unitVars, collectorVars, models, assigns>>

Next ==
    \/ \E h \in AllHarnesses(prog) : Group(h)
    \/ Validate
    \/ \E u \in units : StartUnit(u)
    \/ StartHarness
    \/ \E r \in roots : CollectRoot(r)
    \/ \E i \in queue : Visit(i)
    \/ AbortIfErrors
    \/ GlobalPass
    \/ CodegenItems
    \/ WriteMetadata

\* One thread runs all of it and never waits.
Spec == Init /\ [][Next]_vars /\ WF_vars(Next)

-----------------------------------------------------------------------------
(* Properties *)

\* What a body runs: the closure of its mode, or its own code.
Runs(b) ==
    IF b.mode \in Closures THEN {<<b.mode, b.src[2]>>} ELSE b.own \ {MemInitFn}

\* The code that runs in the model of a harness.
LiveItems(p, h, bodies) ==
    LET bound == Cardinality(DOMAIN bodies)
        reach[n \in 0..bound] ==
            IF n = 0 THEN Roots(p, h)
            ELSE UNION {{i} \cup IF i \in DOMAIN bodies
                                 THEN {j \in Runs(bodies[i]) : ShouldCollect(p, j)}
                                 ELSE {} : i \in reach[n - 1]}
    IN  reach[bound]
LiveCode(h) ==
    [i \in LiveItems(prog, h, models[h]) |->
        IF i \in DOMAIN models[h]
        THEN [code |-> models[h][i].src, use |-> models[h][i].mode]
        ELSE [code |-> None, use |-> None]]

\* The compiler promises what CrateModel says: whatever the order of the hash maps,
\* whichever harnesses share a unit and its cached bodies, the model of a harness
\* runs the code that its own stubs and contracts ask for, the crate is rejected
\* only for a reason, and the compiler ends.
Promise == INSTANCE CrateModel WITH
    Harnesses <- AllHarnesses,
    meaning <- [h \in DOMAIN models |-> LiveCode(h)],
    outcome <- CASE phase = "done" -> "done"
                 [] phase = "aborted" -> "rejected"
                 [] OTHER -> "running"
Refinement == Promise!Spec

\* A model is closed: everything that a body in it mentions and that has a body is
\* an item of the model, the functions that instrumentation calls included, so that
\* code generation never looks up a symbol that was not declared.
ClosedModel ==
    \A h \in DOMAIN models : \A i \in DOMAIN models[h] :
        NextItems(prog, models[h][i]) \subseteq DOMAIN models[h]

\* The functions of a model that run as they are written: reached from the harness
\* through calls that neither a stub nor a contract replaced.
CallsKept(p, i, b) == IF b.src = i THEN Runs(b) \cap CallsWritten(p, i) ELSE {}
ReachedAsWritten(p, h, bodies) ==
    LET bound == Cardinality(DOMAIN bodies)
        reach[n \in 0..bound] ==
            IF n = 0 THEN Roots(p, h)
            ELSE UNION {{i} \cup IF i \in DOMAIN bodies THEN CallsKept(p, i, bodies[i])
                                 ELSE {} : i \in reach[n - 1]}
    IN  reach[bound]
Written(h) ==
    {i \in ReachedAsWritten(prog, h, models[h]) \cap DOMAIN models[h] :
        i[1] = "fn" /\ models[h][i].src = i}

\* Where the code that a model runs as it is written contains a source of delayed
\* undefined behaviour, all of that code which touches the memory involved is
\* instrumented, also the bodies that were cached for another harness of the unit or
\* were found untouched for it.  (Nothing is promised for the other code: the bodies
\* of stubs and contracts, what is only reached through them, and all of an automatic
\* harness, because the pass reads the bodies from before the transformation.)
UbTracked ==
    \A h \in DOMAIN models :
        prog.opts.uninit /\ (\E i \in Written(h) : i[2] \in prog.targets)
            => \A i \in Written(h) : i[2] \in prog.tracked => models[h][i].tracked

\* The metadata names the harnesses that were selected, each with a model, and
\* the wrapper that the assigns clause of a contract harness is attached to is an
\* item of its model with a body.
MetadataRight ==
    phase = "done" =>
        /\ metadata = AllHarnesses(prog) \ {PubFns} /\ DOMAIN models = AllHarnesses(prog)
        /\ \A h \in metadata :
              ContractTarget(prog, h) # None =>
                  h \in DOMAIN assigns /\ assigns[h] \in DOMAIN models[h]
=============================================================================
