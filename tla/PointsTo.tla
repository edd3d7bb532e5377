------------------------------- MODULE PointsTo -------------------------------
(***************************************************************************)
(* The points-to analysis (kani_middle/points_to): which memory locations  *)
(* a location may hold pointers to, over all the ways through a function   *)
(* and the functions it calls.  A location is a local of a function, the   *)
(* heap memory of an allocation site, or a static; fields are not told     *)
(* apart.                                                                  *)
(***************************************************************************)
EXTENDS Mir

CONSTANT Fns   \* the bodies of the functions besides the harness

Stack(f, n) == [k |-> "Stack", f |-> f, n |-> n]
Heap(f, bb) == [k |-> "Heap", f |-> f, n |-> bb]
Static(s) == [k |-> "Static", f |-> s, n |-> 0]

\* The graph is the set of its edges; ancestors are successors read backwards.
EmptyGraph == {}
successors(g, nodes) == {e[2] : e \in {d \in g : d[1] \in nodes}}
ancestors(g, nodes) == {e[1] : e \in {d \in g : d[2] \in nodes}}
extend(g, from, to) == g \cup {<<a, b>> : a \in from, b \in to}
join(g, h) == g \cup h

\* Only dereferences matter: fields and elements are part of their object.
resolve_place(g, f, place) ==
    FoldLeft(LAMBDA nodes, elem : IF elem.p = "Deref" THEN successors(g, nodes) ELSE nodes,
             {Stack(f, place.local)}, place.proj)

RECURSIVE Reached(_, _)
Reached(g, nodes) ==
    LET more == nodes \cup successors(g, nodes)
    IN  IF more = nodes THEN nodes ELSE Reached(g, more)
transitive_closure(g, targets) ==
    LET reached == Reached(g, targets \cup {s \in {e[1] : e \in g} : s.k = "Static"})
    IN  {e \in g : e[1] \in reached}

-----------------------------------------------------------------------------
(* The effect of one instruction.                                          *)

StaticOf(op) == {Static(op.static[i]) : i \in DOMAIN op.static}
successors_for_operand(g, f, op) ==
    IF op.k = "Copy" THEN successors(g, resolve_place(g, f, op.place)) ELSE StaticOf(op)
successors_for_deref(g, f, op) ==
    IF op.k = "Copy" THEN resolve_place(g, f, Proj(op.place, Deref)) ELSE StaticOf(op)

Comparisons == {"Eq", "Lt", "Le", "Ne", "Ge", "Gt", "Cmp"}

successors_for_rvalue(g, f, rv) ==
    CASE rv.k \in {"Use", "Cast"} -> successors_for_operand(g, f, rv.op)
      [] rv.k \in {"Ref", "AddressOf"} -> resolve_place(g, f, rv.place)
      [] rv.k = "BinaryOp" ->
            IF rv.binop = "Offset" THEN successors_for_operand(g, f, rv.l)
            ELSE IF rv.binop \in Comparisons THEN {}
            ELSE successors_for_operand(g, f, rv.l) \cup successors_for_operand(g, f, rv.r)
      [] rv.k = "Aggregate" -> UNION {successors_for_operand(g, f, rv.ops[i]) : i \in DOMAIN rv.ops}
      [] rv.k = "CopyForDeref" -> successors(g, resolve_place(g, f, rv.place))
      [] rv.k = "ThreadLocalRef" -> {Static(rv.static)}

apply_copy_effect(g, f, from, to) ==
    extend(g, successors_for_deref(g, f, to), successors(g, successors_for_deref(g, f, from)))

apply_primary_statement_effect(g, f, stmt) ==
    CASE stmt.k = "Assign" ->
            extend(g, resolve_place(g, f, stmt.place), successors_for_rvalue(g, f, stmt.rvalue))
      [] stmt.k = "Copy" -> apply_copy_effect(g, f, stmt.src, stmt.dst)
      [] OTHER -> g

\* Representatives of the intrinsics whose result is made of their arguments.
is_identity_aliasing_intrinsic(name) ==
    name \in {"black_box", "arith_offset", "transmute", "write_bytes", "compare_bytes", "simd_add",
              "atomic_fence", "size_of_val"}
AtomicExchange == {"atomic_xchg", "atomic_xadd"}
AtomicCompare == {"atomic_cxchg"}

\* What was in dst gets to dest, and the source's targets to dst.
Exchange(g, dest, dst, src) == extend(extend(g, dest, successors(g, dst)), dst, src)
AlsoInto(g, x, y) == extend(g, y, successors(g, x))
Swapped(g, x, y) == AlsoInto(extend(g, x, successors(g, y)), x, y)

IntrinsicEffect(g, f, term) ==
    LET name == term.func.name
        arg == term.args
        dest == resolve_place(g, f, term.dest)
    IN  CASE is_identity_aliasing_intrinsic(name) ->
                extend(g, dest, UNION {successors_for_operand(g, f, arg[i]) : i \in DOMAIN arg})
          [] name \in AtomicCompare -> Exchange(g, dest, successors_for_deref(g, f, arg[1]), successors_for_operand(g, f, arg[3]))
          [] name \in AtomicExchange -> Exchange(g, dest, successors_for_deref(g, f, arg[1]), successors_for_operand(g, f, arg[2]))
          [] name \in {"atomic_load", "volatile_load"} ->
                extend(g, dest, successors(g, successors_for_deref(g, f, arg[1])))
          [] name \in {"atomic_store", "volatile_store"} ->
                extend(g, successors_for_deref(g, f, arg[1]), successors_for_operand(g, f, arg[2]))
          [] name = "copy" -> apply_copy_effect(g, f, arg[1], arg[2])
          [] name = "volatile_copy_memory" -> apply_copy_effect(g, f, arg[2], arg[1])
          [] name = "typed_swap" ->
                Swapped(g, successors_for_deref(g, f, arg[1]), successors_for_deref(g, f, arg[2]))

\* The callee starts from what its arguments and the statics reach, and with
\* its parameters pointing where the arguments point.  Arguments that are
\* constants add nothing, not even the statics.
InitialGraph(g, f, term) ==
    LET callee == term.func.name
        Reach(i) == IF term.args[i].k = "Copy"
                    THEN transitive_closure(g, resolve_place(g, f, term.args[i].place)) ELSE EmptyGraph
        reach == FoldLeftDomain(LAMBDA h, i : join(h, Reach(i)), EmptyGraph, term.args)
        Bind(h, n, arg) == extend(h, {Stack(callee, n)}, successors_for_operand(g, f, arg))
    IN  IF term.func.k = "Closure"
        \* the captured state and a tuple of all arguments
        THEN FoldLeftDomain(LAMBDA h, i : Bind(h, i, term.args[2]), Bind(reach, 1, term.args[1]),
                            [i \in 1..Fns[callee].args |-> i])
        ELSE FoldLeftDomain(LAMBDA h, i : Bind(h, i, term.args[i]), reach, term.args)

\* Mutant: what the callee did is left out of the caller's graph.
AfterCallReturnOnly(g, f, term, result) ==
    extend(g, resolve_place(g, f, term.dest), successors(result, {Stack(term.func.name, 0)}))

AfterCall(g, f, term, result) ==
    LET both == join(g, result)
    IN  extend(both, resolve_place(both, f, term.dest), successors(both, {Stack(term.func.name, 0)}))

TargetsOf(term) ==
    CASE term.k \in Targeted -> {term.target}
      [] term.k = "Switch" -> {term.targets[i] : i \in DOMAIN term.targets}
      [] OTHER -> {}

RECURSIVE run(_, _, _), Fixpoint(_, _, _)

apply_primary_terminator_effect(g, f, bb, term) ==
    CASE term.k # "Call" -> g
      [] term.k = "Call" /\ term.func.k = "Intrinsic" -> IntrinsicEffect(g, f, term)
      [] term.k = "Call" /\ term.func.k = "Foreign" ->
            IF term.func.name \in {"__rust_alloc", "__rust_alloc_zeroed"}
            THEN extend(g, resolve_place(g, f, term.dest), {Heap(f, bb)}) ELSE g
      [] OTHER -> AfterCall(g, f, term,
                            run(term.func.name, Fns[term.func.name], InitialGraph(g, f, term)))

BlockEnd(f, block, bb, g) ==
    apply_primary_terminator_effect(
        FoldLeft(LAMBDA h, stmt : apply_primary_statement_effect(h, f, stmt), g, block.stmts),
        f, bb, block.term)

\* Rust's dataflow framework: the entry states of all blocks, until they are
\* stable.  A block that is not reached has no entry state yet.
Into(body, entry, bb) == {p \in DOMAIN entry : bb \in TargetsOf(body.blocks[p].term)}
EntriesAfter(body, entry, ends) ==
    [bb \in DOMAIN entry \cup UNION {TargetsOf(body.blocks[p].term) : p \in DOMAIN entry} |->
        join(IF bb \in DOMAIN entry THEN entry[bb] ELSE EmptyGraph,
             UNION {ends[p] : p \in Into(body, entry, bb)})]

Settled(f, body, entry, ends, next) == IF next = entry THEN ends ELSE Fixpoint(f, body, next)
WithEnds(f, body, entry, ends) == Settled(f, body, entry, ends, EntriesAfter(body, entry, ends))
Fixpoint(f, body, entry) ==
    WithEnds(f, body, entry, [bb \in DOMAIN entry |-> BlockEnd(f, body.blocks[bb], bb, entry[bb])])

\* The graphs at the ends of the blocks that return.
Returned(body, ends) ==
    UNION {ends[bb] : bb \in {b \in DOMAIN ends : body.blocks[b].term.k = "Return"}}

run(f, body, initial) == Returned(body, Fixpoint(f, body, [bb \in {1} |-> initial]))

run_points_to_analysis(f, body) == run(f, body, EmptyGraph)
=============================================================================
