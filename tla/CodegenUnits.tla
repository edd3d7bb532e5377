---------------------------- MODULE CodegenUnits ----------------------------
(***************************************************************************)
(* What kani-compiler decides about a crate before it generates code:      *)
(* which harnesses to compile, with which stubs and contracts, and which   *)
(* of them may share the transformed bodies of one unit.  Also the bodies  *)
(* that the passes of one unit produce (BodyTransformation).               *)
(*                                                                         *)
(* A program p is a record:                                                *)
(*   fns, statics   its function definitions and static variables          *)
(*   kind[f]        "item", "foreign" (no body), "intrinsic" (no body to   *)
(*                  fall back on) or "virtual" (a method of a trait object)*)
(*   refs[i]        the functions and statics that the body of a function, *)
(*                  or the initializer of a static, mentions               *)
(*   sig[f]         arity, number of generic parameters and types          *)
(*   contract       the functions with a contract, recursive of them those *)
(*                  with #[kani::recursion]                                *)
(*   unfit          the stubs whose bodies do not meet the bounds of their *)
(*                  generic parameters where they are used                 *)
(*   noArbitrary    the functions with a contract some of whose results or *)
(*                  modified objects have no kani::Arbitrary               *)
(*   skip[f]        the facts that exclude f from automatic harnesses      *)
(*   stubs[h], check[h], replace[h]   attributes of the manual harnesses   *)
(*   targets, tracked   the functions that may cause delayed undefined     *)
(*                  behaviour, and those that touch the memory involved    *)
(*   opts           the options of the compiler                            *)
(* An item is a pair <<what, f>>: a function, a static, or a closure that  *)
(* the contract macros generate inside f.                                  *)
(***************************************************************************)
EXTENDS Integers, Sequences, FiniteSets, Functions

None == "none"

Item(p, x) == IF x \in p.statics THEN <<"static", x>> ELSE <<"fn", x>>
AutoHarness(f) == <<"auto", f>>
PubFns == <<"pub", "crate">>  \* the one model of a crate without harnesses
MemInitFn == <<"fn", "mem_init">>

\* The closures a function with contract consists of, besides its original code.
Closures == {"recursion", "check", "replace", "assert"}
HasBody(p, f) == p.kind[f] = "item"

-----------------------------------------------------------------------------
(* Harness selection and grouping *)

\* harness_stub_map, stub_def: the stubs of a harness; none for an automatic one.
StubsOf(p, h) == IF h[1] = "fn" THEN p.stubs[h[2]] ELSE [f \in {} |-> None]

\* apply_transitivity: follows the stubs of the stubs, as often as there are stubs.
Iterate(once, f, times) ==
    LET to[n \in 0..times] == IF n = 0 THEN f ELSE once[to[n - 1]] IN to[times]
Follow(stubs, f) ==
    LET once == [g \in Range(stubs) |-> IF g \in DOMAIN stubs THEN stubs[g] ELSE g]
    IN  Iterate(once, stubs[f], Cardinality(DOMAIN stubs))

HasCycle(stubs) == \E f \in DOMAIN stubs : Follow(stubs, f) \in DOMAIN stubs

ApplyTransitivity(stubs) == [f \in DOMAIN stubs |-> Follow(stubs, f)]

\* check_compatibility: only stubs and originals that have a body are compared.
Compatible(p, old, new) ==
    HasBody(p, old) /\ HasBody(p, new) => p.sig[old] = p.sig[new]

\* validate_units
UnitInvalid(p, unit) ==
    \E f \in DOMAIN unit.stubs : ~Compatible(p, f, unit.stubs[f])

\* interpret_for_contract_attribute; the function itself for automatic harnesses,
\* and nothing where there is no harness.
CheckFn(p, h) ==
    CASE h[1] = "auto" -> h[2] [] h[1] = "fn" -> p.check[h[2]] [] OTHER -> None
ReplaceFns(p, h) == IF h[1] = "fn" THEN p.replace[h[2]] ELSE {}

\* extract_contracts
Contracts(p, h) ==
    {<<"check", f>> : f \in {CheckFn(p, h)} \ {None}}
        \cup {<<"stub", f>> : f \in ReplaceFns(p, h)}

\* Mutant: harnesses grouped by their stubs only.
KeyOfStubs(p, h) == <<{}, StubsOf(p, h)>>

\* The key of per_stubs in group_by_stubs.
Key(p, h) == <<Contracts(p, h), StubsOf(p, h)>>

\* autoharness_filtered_out, skip_reason: the first reason not to verify f, if any.
SkipReason(p, f) ==
    LET reasons == <<"KaniImpl", "GenericFn", "NoBody", "proof", "UserFilter",
                     "MissingArbitraryImpl">>
        holds == {n \in DOMAIN reasons :
                    \/ reasons[n] \in p.skip[f]
                    \/ reasons[n] = "NoBody" /\ ~HasBody(p, f)}
    IN  IF holds = {} THEN None
        ELSE reasons[CHOOSE n \in holds : \A m \in holds : n <= m]

\* get_all_manual_harnesses, determine_targets
ManualHarnesses(p) ==
    LET all == {<<"fn", h>> : h \in DOMAIN p.stubs}
    IN  IF p.opts.filter = {} THEN all ELSE {h \in all : h[2] \in p.opts.filter}

\* automatic_harness_partition, get_all_automatic_harnesses
AutomaticHarnesses(p) ==
    {AutoHarness(f) : f \in {g \in p.fns : SkipReason(p, g) = None}}

\* CodegenUnits::new: automatic harnesses are added under AllFns.
AllHarnesses(p) ==
    CASE p.opts.reachability = "Harnesses" -> ManualHarnesses(p)
      [] p.opts.reachability = "AllFns" ->
            ManualHarnesses(p) \cup AutomaticHarnesses(p)
      [] OTHER -> {PubFns}

\* Where the model of a harness starts: filter_crate_items under PubFns.
Roots(p, h) == IF h = PubFns THEN {<<"fn", f>> : f \in p.opts.pub} ELSE {h}

\* target_if_contract_harness
ContractTarget(p, h) ==
    LET f == CheckFn(p, h)
    IN  IF h[1] = "auto" /\ f \notin p.contract THEN None ELSE f

-----------------------------------------------------------------------------
(* Body transformation *)

\* FunctionWithContractPass::contract_mode, for a unit whose first harness is h.
ContractMode(p, h, f) ==
    IF f \notin p.contract THEN None
    ELSE IF f = CheckFn(p, h) THEN IF f \in p.recursive THEN "recursion" ELSE "check"
    ELSE IF f \in ReplaceFns(p, h) THEN "replace"
    ELSE IF p.opts.assertContracts /\ h # PubFns THEN "assert"
    ELSE "original"

\* What the source of an item mentions: own code, and the closures it registers.
\* A recursion closure keeps its state in a static REENTRY and holds the other
\* two; a check closure holds the wrapper that CBMC's assigns clause is put on.
Original(p, i) ==
    LET own == IF i = MemInitFn THEN {} ELSE {Item(p, x) : x \in p.refs[i[2]]}
        body(calls, closures) ==
            [src |-> i, own |-> calls, closures |-> closures, mode |-> None,
             tracked |-> FALSE]
    IN  CASE i[1] = "fn" ->
                body(own, {<<c, i[2]>> : c \in {d \in Closures : i[2] \in p.contract}})
          [] i[1] = "recursion" ->
                body({<<"REENTRY", i[2]>>, <<"rec_check", i[2]>>,
                      <<"rec_replace", i[2]>>}, {})
          [] i[1] = "check" -> body({<<"modifies", i[2]>>}, {})
          [] i[1] = "rec_check" -> body({<<"rec_modifies", i[2]>>}, {})
          [] i[1] \in {"static", "modifies", "rec_modifies", "assert"} -> body(own, {})
          [] OTHER -> body({}, {})

\* MutableBody::clear_body
Cleared(b) == [b EXCEPT !.own = {}, !.closures = {}]

\* AutomaticHarnessPass: the dummy body becomes a call of the function to verify.
AutomaticHarness(p, i, b) ==
    IF i[1] = "auto" THEN [b EXCEPT !.own = {Item(p, i[2])}] ELSE b

\* The functions that FnStubPass stubs, by FnStubPass::new.
HasFnStub(p, unit, i) ==
    /\ i[1] = "fn" /\ i[2] \in DOMAIN unit.stubs
    /\ HasBody(p, i[2]) /\ HasBody(p, unit.stubs[i[2]])

\* FnStubPass: the body of the stub, where it is valid, instead of the body of the
\* function (FnStubValidator, validate_stub_const).
FnStub(p, unit, i, b) ==
    IF HasFnStub(p, unit, i) /\ unit.stubs[i[2]] \notin p.unfit
    THEN Original(p, <<"fn", unit.stubs[i[2]]>>)
    ELSE b

\* ExternFnStubPass: where one of the two has no body, the calls are replaced.
ExternFnStub(p, unit, b) ==
    LET redirect(c) ==
            IF /\ c[1] = "fn" /\ c[2] \in DOMAIN unit.stubs
               /\ ~(HasBody(p, c[2]) /\ HasBody(p, unit.stubs[c[2]]))
            THEN <<"fn", unit.stubs[c[2]]>> ELSE c
    IN  [b EXCEPT !.own = {redirect(c) : c \in @}]

\* FunctionWithContractPass::transform: sets the mode of a function with contract
\* and clears the closures found unused before.
FunctionWithContract(p, unit, unused, i, b) ==
    IF i[1] = "fn" THEN [b EXCEPT !.mode = ContractMode(p, unit.harnesses[1], i[2])]
    ELSE IF i \in unused THEN Cleared(b) ELSE b

\* mark_unused: all closures but the one of the mode.
MarkUnused(p, unit, unused, i) ==
    LET mode == ContractMode(p, unit.harnesses[1], i[2])
    IN  IF i[1] = "fn" /\ mode # None
        THEN unused \cup {<<c, i[2]>> : c \in Closures \ {mode}} ELSE unused

\* find_closure fails on a function with contract whose body another pass replaced.
ClosureMissing(p, unit, i) ==
    /\ i[1] = "fn" /\ i[2] \in p.contract
    /\ FnStub(p, unit, i, Original(p, i)).src[2] # i[2]

\* The closures of a contract are called through kani_register_contract, which gets
\* the body of run_contract_fn.  A pass that was made without a harness has none.
NoRunContract(p, unit, i) ==
    unit.harnesses[1] = PubFns /\ i[1] = "fn" /\ i[2] \in p.contract

\* The passes stop the compiler at once.
Panics(p, unit, i) == ClosureMissing(p, unit, i) \/ NoRunContract(p, unit, i)

\* The passes report an error and go on: a stub that is not valid, and a call of
\* kani::any for a type that has no Arbitrary (AnyModifiesPass::any_body; the calls
\* are in the closures that replace a function).
Reports(p, unit, unused, i) ==
    \/ HasFnStub(p, unit, i) /\ unit.stubs[i[2]] \in p.unfit
    \/ i[1] \in {"replace", "rec_replace"} /\ i \notin unused /\ i[2] \in p.noArbitrary

\* BodyTransformation::body_ref, when the body of i is not in the cache: the
\* stubbing passes in the order of BodyTransformation::new.  The initializer of a
\* static is what rustc evaluated: no pass sees it (visit_static).
IsStatic(i) == i[1] \in {"static", "REENTRY"}
Transform(p, unit, unused, i) ==
    LET b1 == AutomaticHarness(p, i, Original(p, i))
        b2 == FnStub(p, unit, i, b1)
        b3 == ExternFnStub(p, unit, b2)
    IN  IF IsStatic(i) THEN Original(p, i)
        ELSE FunctionWithContract(p, unit, unused, i, b3)

\* collect_instance, should_codegen_locally: what is followed of what a body
\* mentions.
ShouldCollect(p, i) == i[1] = "fn" /\ i # MemInitFn => p.kind[i[2]] = "item"
NextItems(p, b) == {i \in b.own \cup b.closures : ShouldCollect(p, i)}

-----------------------------------------------------------------------------
(* The points-to analysis of DelayedUbPass *)

\* run_points_to_analysis follows the calls of the bodies as they are written, before
\* any pass: neither stubs nor the closures of contracts, and nothing from the dummy
\* body of an automatic harness.
CallsWritten(p, i) ==
    IF i[1] = "fn" THEN {j \in Original(p, i).own : j[1] = "fn" /\ HasBody(p, j[2])}
    ELSE {}
Analyzed(p, h) ==
    LET bound == Cardinality(p.fns)
        reach[n \in 0..bound] ==
            IF n = 0 THEN Roots(p, h)
            ELSE UNION {{i} \cup CallsWritten(p, i) : i \in reach[n - 1]}
    IN  reach[bound]
=============================================================================
