----------------------------- MODULE UninitChecks -----------------------------
(***************************************************************************)
(* Where the compiler inserts the memory-initialization checks: around     *)
(* every use of raw pointers and unions (check_uninit/ptr_uninit), and, for*)
(* memory whose bytes can become uninitialized through a pointer cast,     *)
(* around every access that may touch it (check_uninit/delayed_ub, from    *)
(* the points-to graph).  An operation is a record; operand is what it is  *)
(* about, a pointer or, for the ..Ref operations, a place.                 *)
(***************************************************************************)
EXTENDS PointsTo

Check(operand) == [op |-> "Check", operand |-> operand]
CheckRef(place) == [op |-> "CheckRef", operand |-> Copy(place)]
CheckSliceChunk(operand, count) == [op |-> "CheckSliceChunk", operand |-> operand, count |-> count]
Set(operand, value, position) == [op |-> "Set", operand |-> operand, value |-> value, position |-> position]
SetRef(place, value, position) ==
    [op |-> "SetRef", operand |-> Copy(place), value |-> value, position |-> position]
SetSliceChunk(operand, count, value) ==
    [op |-> "SetSliceChunk", operand |-> operand, count |-> count, value |-> value, position |-> "After"]
CopyOp(from, to, count) == [op |-> "Copy", operand |-> from, to |-> to, count |-> count]
AssignUnion(lvalue, rvalue) == [op |-> "AssignUnion", operand |-> Copy(lvalue), rvalue |-> rvalue]
CreateUnion(place, field) == [op |-> "CreateUnion", operand |-> Copy(place), field |-> field, value |-> TRUE]
StoreArgument(operand, n) == [op |-> "StoreArgument", operand |-> operand, argument |-> n]
LoadArgument(place, n) == [op |-> "LoadArgument", operand |-> Copy(place), argument |-> n]
Unsupported == [op |-> "Unsupported"]
TriviallyUnsafe == [op |-> "TriviallyUnsafe"]
Panic == [op |-> "Panic"]   \* the compiler panics here
Hang == [op |-> "Hang"]     \* and here it does not end

position(op) ==
    CASE op.op \in {"Set", "SetRef", "SetSliceChunk"} -> op.position
      [] op.op \in {"Copy", "AssignUnion", "CreateUnion"} -> "After"
      [] OTHER -> "Before"

-----------------------------------------------------------------------------
(* CheckUninitVisitor: the operations an instruction asks for, in order.   *)

Prefix(place, n) == [place EXCEPT !.proj = SubSeq(@, 1, n)]
ContainsDeref(place) == \E i \in DOMAIN place.proj : place.proj[i].p = "Deref"

\* Mutant: the first projection of a place is skipped.
visit_placeFromSecond(locals, place, mutating) ==
    FlattenSeq([i \in DOMAIN place.proj |->
        LET base == Prefix(place, i - 1)
            ty == PlaceTy(locals, base)
        IN  IF place.proj[i].p = "Deref" /\ i > 1 /\ is_raw_ptr(ty) THEN <<Check(Copy(base))>> ELSE <<>>])

visit_place(locals, place, mutating) ==
    FlattenSeq([i \in DOMAIN place.proj |->
        LET base == Prefix(place, i - 1)
            ty == PlaceTy(locals, base)
        IN  CASE place.proj[i].p = "Deref" -> IF is_raw_ptr(ty) THEN <<Check(Copy(base))>> ELSE <<>>
              [] place.proj[i].p = "Field" ->
                    IF is_union(ty) /\ ~mutating
                    THEN (IF ContainsDeref(place) THEN <<Unsupported>> ELSE <<>>) \o <<CheckRef(place)>>
                    ELSE <<>>])

visit_operand(locals, op) ==
    IF op.k = "Copy" THEN visit_place(locals, op.place, FALSE)
    ELSE IF op.static # <<>> /\ is_raw_ptr(op.ty) THEN <<Set(op, TRUE, "Before")>> ELSE <<>>

visit_operands(locals, ops) == FlattenSeq([i \in DOMAIN ops |-> visit_operand(locals, ops[i])])

CastOps(locals, rv) ==
    LET from == OperandTy(locals, rv.op)
        to == rv.ty
    IN  CASE rv.kind = "Unsize" -> IF is_raw_ptr(to) /\ to.ty.k = "Dynamic" THEN <<Unsupported>> ELSE <<>>
          [] rv.kind = "Transmute" ->
                (CASE ~tys_layout_compatible_to_size(from, to) -> <<TriviallyUnsafe>>
                   [] from.k = "Ref" /\ to.k = "Ref" ->
                        IF tys_layout_compatible_to_size(from.ty, to.ty) THEN <<>> ELSE <<TriviallyUnsafe>>
                   [] from.k = "RawPtr" /\ to.k = "Ref" -> <<Check(rv.op)>>
                   [] OTHER -> <<>>)
          [] OTHER -> <<>>

visit_rvalue(locals, rv) ==
    (IF rv.k = "Cast" THEN CastOps(locals, rv) ELSE <<>>) \o
    (CASE rv.k \in {"Use", "Cast"} -> visit_operand(locals, rv.op)
       [] rv.k = "AddressOf" -> visit_place(locals, rv.place, TRUE)
       [] rv.k \in {"Ref", "CopyForDeref"} -> visit_place(locals, rv.place, FALSE)
       [] rv.k = "Aggregate" -> visit_operands(locals, rv.ops)
       [] rv.k = "BinaryOp" -> visit_operands(locals, <<rv.l, rv.r>>)
       [] OTHER -> <<>>)

EndsInDeref(place) == place.proj # <<>> /\ Last(place.proj).p = "Deref"
UnionOnPath(locals, place) ==
    \E i \in 0..(Len(place.proj) - (IF place.proj = <<>> THEN 0 ELSE 1)) :
        is_union(PlaceTy(locals, Prefix(place, i)))

\* An assignment to *ptr: the pointers on the way are checked, the pointee is set.
WriteOps(locals, place) ==
    IF ~EndsInDeref(place) THEN <<>>
    ELSE LET ptr == Prefix(place, Len(place.proj) - 1)
         IN  FlattenSeq([i \in DOMAIN ptr.proj |->
                LET base == Prefix(ptr, i - 1)
                IN  IF ptr.proj[i].p = "Deref" /\ is_raw_ptr(PlaceTy(locals, base))
                    THEN <<Check(Copy(base))>> ELSE <<>>])
             \o (IF is_raw_ptr(PlaceTy(locals, ptr)) THEN <<Set(Copy(ptr), TRUE, "After")>> ELSE <<>>)

UnionOps(locals, place, rv) ==
    CASE ~UnionOnPath(locals, place) -> <<>>
      [] rv.k = "Use" -> IF is_union(PlaceTy(locals, place)) THEN <<AssignUnion(place, rv.op)>>
                         ELSE <<SetRef(place, TRUE, "After")>>
      [] rv.k = "Aggregate" -> IF is_union(rv.ty) THEN <<CreateUnion(place, rv.field)>> ELSE <<>>
      [] OTHER -> <<Unsupported>>

\* An assignment whose type contains a union ends the visit of the statement
\* before its operations are recorded.
HasUnionField(locals, stmt) ==
    stmt.k = "Assign" /\ PointeeInfo(PlaceTy(locals, stmt.place)).err = "UnionAsField"

visit_statement(locals, stmt) ==
    CASE stmt.k = "Copy" -> visit_operands(locals, <<stmt.src, stmt.dst, stmt.count>>)
                              \o <<CopyOp(stmt.src, stmt.dst, stmt.count)>>
      [] stmt.k = "Assign" ->
            visit_rvalue(locals, stmt.rvalue)
              \o WriteOps(locals, stmt.place)
              \o (IF is_raw_ptr(PlaceTy(locals, stmt.place)) /\ stmt.rvalue.k = "AddressOf"
                  THEN <<Set(Copy(stmt.place), TRUE, "After")>> ELSE <<>>)
              \o UnionOps(locals, stmt.place, stmt.rvalue)
      [] OTHER -> <<>>

can_skip_intrinsic(name) == name \in {"black_box", "arith_offset", "size_of_val", "simd_add", "atomic_fence"}
AtomicIntrinsics == {"atomic_load", "atomic_store", "atomic_xchg", "atomic_xadd", "atomic_cxchg"}

IntrinsicOps(name, arg) ==
    CASE can_skip_intrinsic(name) -> <<>>
      [] name \in AtomicIntrinsics -> <<Check(arg[1])>>
      [] name = "compare_bytes" -> <<CheckSliceChunk(arg[1], arg[3]), CheckSliceChunk(arg[2], arg[3])>>
      [] name = "copy" -> <<CopyOp(arg[1], arg[2], arg[3])>>
      [] name = "volatile_copy_memory" -> <<CopyOp(arg[2], arg[1], arg[3])>>
      [] name = "typed_swap" -> <<Check(arg[1]), Check(arg[2])>>
      [] name = "volatile_load" -> <<Check(arg[1])>>
      [] name = "volatile_store" -> <<Set(arg[1], TRUE, "After")>>
      [] name = "write_bytes" -> <<SetSliceChunk(arg[1], arg[3], TRUE)>>
      [] OTHER -> <<Unsupported>>

visit_terminator(locals, term) ==
    CASE term.k = "Call" ->
            LET func == term.func
            IN  visit_operands(locals, term.args) \o visit_place(locals, term.dest, TRUE) \o
                (CASE func.k = "Intrinsic" -> IntrinsicOps(func.name, term.args)
                   [] func.k = "Foreign" ->
                        (CASE func.name = "__rust_alloc_zeroed" ->
                                <<SetSliceChunk(Copy(term.dest), term.args[1], TRUE)>>
                           [] func.name = "__rust_dealloc" -> <<SetSliceChunk(term.args[1], term.args[2], FALSE)>>
                           [] OTHER -> <<>>)
                   [] func.k = "Item" ->
                        FlattenSeq([i \in DOMAIN term.args |->
                            IF is_union(OperandTy(locals, term.args[i]))
                            THEN <<StoreArgument(term.args[i], i)>> ELSE <<>>])
                   [] OTHER -> <<>>)
      [] term.k = "Drop" ->
            LET ty == PlaceTy(locals, term.place)
            IN  visit_place(locals, term.place, TRUE)
                  \o (IF ty.k \in {"Adt", "Dynamic"} THEN <<SetRef(term.place, TRUE, "Before")>> ELSE <<>>)
                  \o (IF is_raw_ptr(ty) THEN <<Set(Copy(term.place), FALSE, "After")>> ELSE <<>>)
      [] OTHER -> <<>>

\* A call through a function pointer returns early: its operations are lost.
TerminatorLost(term) == term.k = "Call" /\ term.func.k = "Pointer"

ArgumentLoads(body) ==
    FlattenSeq([i \in 1..body.args |->
        IF is_union(body.locals[i + 1]) THEN <<LoadArgument(Local(i), i)>> ELSE <<>>])

\* The visit of a block: the recorded targets and the one being filled.
AddOps(target, ops) == [target EXCEPT !.ops = @ \o ops]
FirstTarget(body, bb) ==
    [source |-> IF body.blocks[bb].stmts # <<>> THEN AtStatement(1, bb) ELSE AtTerminator(bb),
     ops |-> IF bb = 1 THEN ArgumentLoads(body) ELSE <<>>]
Record(s, filled, bb) ==
    [done |-> Append(s.done, filled), cur |-> [source |-> AtStatement(s.cur.source.idx + 1, bb), ops |-> <<>>]]
VisitStatement(locals, s, stmt, bb) ==
    IF HasUnionField(locals, stmt) THEN [s EXCEPT !.cur = AddOps(@, visit_rvalue(locals, stmt.rvalue) \o <<Unsupported>>)]
    ELSE Record(s, AddOps(s.cur, visit_statement(locals, stmt)), bb)
VisitTerminator(locals, s, term, bb) ==
    IF TerminatorLost(term) THEN s.done
    ELSE Append(s.done, AddOps(IF s.cur.source.k = "Statement" THEN [source |-> AtTerminator(bb), ops |-> <<>>]
                               ELSE s.cur,
                               visit_terminator(locals, term)))
VisitBlock(body, bb) ==
    VisitTerminator(body.locals,
        FoldLeft(LAMBDA s, stmt : VisitStatement(body.locals, s, stmt, bb),
                 [done |-> <<>>, cur |-> FirstTarget(body, bb)], body.blocks[bb].stmts),
        body.blocks[bb].term, bb)

find_all(body) == FlattenSeq([bb \in DOMAIN body.blocks |-> VisitBlock(body, bb)])

-----------------------------------------------------------------------------
(* UninitInstrumenter: an operation becomes a call of the library, with    *)
(* the layout of the pointee, or a check that fails.                       *)

PtrOps == {"Check", "Set", "CheckSliceChunk", "SetSliceChunk", "Copy"}

\* operand_ty, without the pointer around it
PointeeTy(locals, op) ==
    IF op.op \in PtrOps THEN OperandTy(locals, op.operand).ty ELSE PlaceTy(locals, op.operand.place)

build_get_and_check(op, info) ==
    IF info.val.k \in {"Sized", "Slice"} THEN op @@ [mask |-> info.val.layouts[1]] ELSE Unsupported
build_set(op, info) ==
    CASE op.op = "CreateUnion" -> op @@ [mask |-> info.val.layouts[op.field]]
      [] info.val.k \in {"Sized", "Slice"} -> op @@ [mask |-> info.val.layouts[1]]
      [] info.val.k = "Union" -> Unsupported
      [] OTHER -> Panic
\* build_copy, build_argument_operation and build_assign_union only need the size.
build_sized(op, ty, info) == IF info.val.k = "TraitObject" THEN Panic ELSE op @@ [size |-> SizeOf(ty)]
BuildWith(op, ty, info) ==
    CASE info.err # "none" -> Unsupported
      [] op.op \in {"Check", "CheckRef", "CheckSliceChunk"} -> build_get_and_check(op, info)
      [] op.op \in {"Set", "SetRef", "SetSliceChunk", "CreateUnion"} -> build_set(op, info)
      [] OTHER -> build_sized(op, ty, info)
build_check_for_operation(locals, op) ==
    IF op.op \in {"Unsupported", "TriviallyUnsafe", "Hang"} THEN op
    ELSE BuildWith(op, PointeeTy(locals, op), PointeeInfo(PointeeTy(locals, op)))

\* Checks that fail outright and copies end a block; other calls get their own.
insert_built(edit, pos, built) ==
    IF built.op \in {"Unsupported", "TriviallyUnsafe", "Copy"}
    THEN insert_terminator(edit.blocks, edit.source, pos, built)
    ELSE insert_bb(edit.blocks, edit.source, pos, built)
insert_operation(body, edit, op) == insert_built(edit, position(op), build_check_for_operation(body.locals, op))

build_check_for_instruction(body, blocks, target) ==
    FoldLeft(LAMBDA edit, op : insert_operation(body, edit, op), Edit(blocks, target.source),
             SelectSeq(target.ops, LAMBDA op : position(op) = "Before")
               \o SelectSeq(target.ops, LAMBDA op : position(op) = "After")).blocks

\* From the last target to the first, so that sources stay where they are.
instrument(body, targets) ==
    [body EXCEPT !.blocks =
        FoldLeft(LAMBDA blocks, t : build_check_for_instruction(body, blocks, t), @, Reverse(targets))]

UninitPass(body) == instrument(body, find_all(body))

-----------------------------------------------------------------------------
(* DelayedUbPass.                                                          *)

\* A target place with projections is no node of the graph.
push_operand(f, op) ==
    IF op.k = "Copy"
    THEN {IF op.place.proj = <<>> THEN Stack(f, op.place.local)
          ELSE [k |-> "Projected", f |-> f, n |-> op.place.local]}
    ELSE StaticOf(op)

CastTargets(f, locals, rv) ==
    IF /\ rv.k = "Cast" /\ rv.kind \in {"Transmute", "PtrToPtr"}
       /\ is_any_ptr(OperandTy(locals, rv.op)) /\ is_any_ptr(rv.ty)
       /\ ~tys_layout_equal_to_size(OperandTy(locals, rv.op).ty, rv.ty.ty)
    THEN push_operand(f, rv.op) ELSE {}

InitialTargets(f, body) ==
    UNION {LET block == body.blocks[bb]
               Stmt(i) == CASE block.stmts[i].k = "Assign" -> CastTargets(f, body.locals, block.stmts[i].rvalue)
                            [] block.stmts[i].k = "Copy" -> push_operand(f, block.stmts[i].dst)
                            [] OTHER -> {}
               term == block.term
           IN  UNION {Stmt(i) : i \in DOMAIN block.stmts} \cup
               (IF term.k # "Call" \/ term.func.k # "Intrinsic" THEN {}
                ELSE CASE term.func.name = "copy" -> push_operand(f, term.args[2])
                       [] term.func.name = "volatile_copy_memory" -> push_operand(f, term.args[1])
                       [] OTHER -> {})
           : bb \in DOMAIN body.blocks}

needs_get(g, f, targets, place) == resolve_place(g, f, place) \cap targets # {}

\* Whether the place and a target have a common ancestor of the same level.
\* Where the walk comes back to where it was, it would go on forever.
RECURSIVE CommonAncestor(_, _, _, _)
CommonAncestor(g, self, target, seen) ==
    IF self = {} /\ target = {} THEN "no"
    ELSE IF self \cap target # {} THEN "yes"
    ELSE IF <<self, target>> \in seen THEN "hang"
    ELSE CommonAncestor(g, ancestors(g, self), ancestors(g, target), seen \cup {<<self, target>>})

needs_set(g, f, targets, place) == CommonAncestor(g, resolve_place(g, f, place), targets, {})

DelayedPlace(g, f, targets, place, mutating) ==
    LET set == needs_set(g, f, targets, place)
    IN  CASE set = "hang" -> <<Hang>>
          [] set = "yes" /\ mutating -> <<SetRef(place, TRUE, "After")>>
          [] set # "hang" /\ ~mutating /\ needs_get(g, f, targets, place) -> <<CheckRef(place)>>
          [] OTHER -> <<>>

\* The places an instruction mentions, with whether it writes them.
Reads(ops) == FlattenSeq([i \in DOMAIN ops |-> IF ops[i].k = "Copy" THEN <<<<ops[i].place, FALSE>>>> ELSE <<>>])
RvaluePlaces(rv) ==
    CASE rv.k \in {"Use", "Cast"} -> Reads(<<rv.op>>)
      [] rv.k = "Aggregate" -> Reads(rv.ops)
      [] rv.k = "BinaryOp" -> Reads(<<rv.l, rv.r>>)
      [] rv.k = "CopyForDeref" -> <<<<rv.place, FALSE>>>>
      [] OTHER -> <<>>    \* Ref and AddressOf are not visited
StatementPlaces(stmt) ==
    CASE stmt.k = "Assign" -> <<<<stmt.place, TRUE>>>> \o RvaluePlaces(stmt.rvalue)
      [] stmt.k = "Copy" -> Reads(<<stmt.src, stmt.dst, stmt.count>>)
      [] OTHER -> <<>>
TerminatorPlaces(term) ==
    CASE term.k = "Call" -> Reads(term.args) \o <<<<term.dest, TRUE>>>>
      [] term.k = "Drop" -> <<<<term.place, TRUE>>>>
      [] term.k = "Op" ->
            (CASE term.op.op = "Copy" -> Reads(<<term.op.operand, term.op.to>>)
               [] term.op.op \in PtrOps -> Reads(<<term.op.operand>>)
               [] OTHER -> <<>>)
      [] OTHER -> <<>>

DelayedTargets(g, f, targets, body) ==
    LET Ops(places) == FlattenSeq([i \in DOMAIN places |->
                            DelayedPlace(g, f, targets, places[i][1], places[i][2])])
        OfBlock(bb) ==
            LET block == body.blocks[bb]
            IN  [i \in DOMAIN block.stmts |->
                    [source |-> AtStatement(i, bb), ops |-> Ops(StatementPlaces(block.stmts[i]))]]
                \o <<[source |-> AtTerminator(bb), ops |-> Ops(TerminatorPlaces(block.term))]>>
    IN  FlattenSeq([bb \in DOMAIN body.blocks |-> OfBlock(bb)])

\* Bodies that the pass gets are already instrumented by UninitPass.
InstrumentFor(bodies, graph, targets) ==
    IF targets = {} THEN bodies
    ELSE [f \in DOMAIN bodies |->
            instrument(bodies[f], DelayedTargets(graph, f, successors(graph, targets), bodies[f]))]
DelayedUbPass(bodies, original, graph) ==
    InstrumentFor(bodies, graph, UNION {InitialTargets(f, original[f]) : f \in DOMAIN original})

\* try_resolve_instance(..).unwrap(): no call may go through a function pointer
CallsPointer(body) == \E bb \in DOMAIN body.blocks : TerminatorLost(body.blocks[bb].term)

-----------------------------------------------------------------------------
(***************************************************************************)
(* Where the compiler inserts the checks that a value is valid for its     *)
(* type (check_values.rs): before dereferences of raw pointers, transmutes,*)
(* mutable pointer casts, writes to the first field of a restricted struct *)
(* and write_bytes.  In every basic block only the first such instruction  *)
(* gets its checks.                                                        *)
(***************************************************************************)

BytesValidity(ty, rvalue, ranges) ==
    [op |-> "BytesValidity", ty |-> ty, rvalue |-> rvalue, ranges |-> ranges]
DerefValidity(ty, pointer, ranges) ==
    [op |-> "DerefValidity", ty |-> ty, operand |-> pointer, ranges |-> ranges]
Repeat(op, n, ty) == [k |-> "Repeat", op |-> op, count |-> n, ty |-> ty]

\* The check that a computed validity asks for.
Checked(validity, check) ==
    CASE validity.err = "Panic" -> <<Panic>>
      [] validity.err # "none" -> <<Unsupported>>
      [] OTHER -> IF validity.val = <<>> THEN <<>> ELSE <<[check EXCEPT !.ranges = validity.val]>>

\* A field is looked at only when its own type is a union, and a union has no
\* validity of its own: reading a union field is never checked.
PlaceChecks(locals, place) ==
    FlattenSeq([i \in DOMAIN place.proj |->
        LET base == Prefix(place, i - 1)
            ty == PlaceTy(locals, base)
        IN  IF place.proj[i].p = "Deref" /\ is_raw_ptr(ty)
            THEN Checked(ty_validity_per_offset(ty.ty, 0), DerefValidity(ty.ty, Copy(base), <<>>))
            ELSE <<>>])
OperandChecks(locals, ops) ==
    FlattenSeq([i \in DOMAIN ops |->
        IF ops[i].k = "Copy" THEN PlaceChecks(locals, ops[i].place) ELSE <<>>])

\* The field that restrictions of the whole struct are about: the first in memory with a size.
SizedFields(ty) == {i \in DOMAIN Adts[ty.name].variants[1] : SizeOf(Adts[ty.name].variants[1][i].ty) > 0}
first_sized_field_idx(ty) ==
    IF ~is_struct(ty) THEN {}
    ELSE LET fields == Adts[ty.name].variants[1]
         IN  {i \in SizedFields(ty) : \A j \in SizedFields(ty) : fields[i].offset <= fields[j].offset}

\* Casting a *mut T to a *mut U that may be written with other values.
WithinValidity(src, dst) ==
    CASE src.err # "none" -> <<Unsupported>>
      [] src.val = <<>> -> <<>>
      [] OTHER -> IF dst.err = "none" /\ dst.val = src.val THEN <<>> ELSE <<Unsupported>>
MutCastChecks(from, to) ==
    CASE ~to.mut \/ to.ty.k = "Unit" -> <<>>
      [] from.ty.k = "Unit" -> <<Unsupported>>
      [] OTHER -> WithinValidity(ty_validity_per_offset(from.ty, 0), ty_validity_per_offset(to.ty, 0))

AggregateChecks(locals, rv) ==
    LET req == TyReq(rv.ty, 0)
        first == CHOOSE i \in first_sized_field_idx(rv.ty) : TRUE
    IN  IF ~is_struct(rv.ty) \/ req = <<>> THEN <<>>
        ELSE IF contains(req[1], try_from_ty(OperandTy(locals, rv.ops[first]))[1]) THEN <<>>
        ELSE <<BytesValidity(rv.ty, Use(rv.ops[first]), req)>>

\* What the rvalue itself asks for.
ValueMade(locals, rv) ==
    CASE rv.k = "Cast" /\ rv.kind = "PtrToPtr" -> MutCastChecks(OperandTy(locals, rv.op), rv.ty)
      [] rv.k = "Cast" /\ rv.kind = "Transmute" ->
            Checked(ty_validity_per_offset(rv.ty, 0), BytesValidity(rv.ty, rv, <<>>))
      [] rv.k = "Aggregate" -> AggregateChecks(locals, rv)
      [] OTHER -> <<>>

\* The operands that are looked at: of a pointer cast only when it is a
\* mutable one between sized types.
OperandsVisited(locals, rv) ==
    CASE rv.k = "Cast" /\ rv.kind = "PtrToPtr" ->
            IF rv.ty.mut /\ rv.ty.ty.k # "Unit" /\ OperandTy(locals, rv.op).ty.k # "Unit" THEN <<rv.op>> ELSE <<>>
      [] rv.k \in {"Use", "Cast"} -> <<rv.op>>
      [] rv.k = "Aggregate" -> rv.ops
      [] rv.k \in {"Ref", "AddressOf", "CopyForDeref"} -> <<Copy(rv.place)>>
      [] rv.k = "BinaryOp" -> <<rv.l, rv.r>>
      [] OTHER -> <<>>

RvalueChecks(locals, rv) == ValueMade(locals, rv) \o OperandChecks(locals, OperandsVisited(locals, rv))

\* The requirements of the structs whose first field is being assigned.
assignment_check_points(locals, place, rvalue_ty) ==
    LET value == try_from_ty(rvalue_ty)
        Follow(s, elem) ==
            LET req == TyReq(s.ty, 0)
                Restricted == /\ elem.i \in first_sized_field_idx(s.ty)
                              /\ req # <<>> /\ req[1].size = value[1].size
                ranges == CASE elem.p = "Deref" -> s.ranges
                            [] elem.p = "Field" /\ ~Restricted -> <<>>
                            [] OTHER -> IF contains(req[1], value[1]) THEN s.ranges
                                        ELSE Append(s.ranges, req[1])
            IN  [ty |-> TyOfElem(s.ty, elem), ranges |-> ranges]
    IN  IF value = <<>> THEN <<>>
        ELSE FoldLeft(Follow, [ty |-> locals[place.local + 1], ranges |-> <<>>], place.proj).ranges

StatementChecks(locals, stmt) ==
    CASE stmt.k = "Copy" -> <<Unsupported>>
      [] stmt.k = "Assign" ->
            PlaceChecks(locals, stmt.place) \o RvalueChecks(locals, stmt.rvalue)
              \o Checked(Ok(assignment_check_points(locals, stmt.place, RvalueTy(locals, stmt.rvalue))),
                         BytesValidity(locals[stmt.place.local + 1], stmt.rvalue, <<>>))
      [] OTHER -> <<>>

TerminatorChecks(locals, term) ==
    CASE term.k = "Call" ->
            OperandChecks(locals, term.args) \o PlaceChecks(locals, term.dest) \o
            (IF term.func.k = "Intrinsic" /\ term.func.name = "write_bytes"
             THEN LET ty == OperandTy(locals, term.args[1]).ty
                  IN  Checked(ty_validity_per_offset(ty, 0),
                              BytesValidity(ty, Repeat(term.args[2], SizeOf(ty), ty), <<>>))
             ELSE <<>>)
      [] term.k = "Drop" -> PlaceChecks(locals, term.place)
      [] OTHER -> <<>>

\* The first instruction of a block that needs checks, with its checks.
FirstChecked(bb, stmts, last) ==
    LET first == SelectInSeq(stmts, LAMBDA ops : ops # <<>>)
    IN  CASE first # 0 -> <<[source |-> AtStatement(first, bb), ops |-> stmts[first]]>>
          [] first = 0 /\ last # <<>> -> <<[source |-> AtTerminator(bb), ops |-> last]>>
          [] OTHER -> <<>>
find_next(locals, block, bb) ==
    FirstChecked(bb, [i \in DOMAIN block.stmts |-> StatementChecks(locals, block.stmts[i])],
                 TerminatorChecks(locals, block.term))

build_check(blocks, target) ==
    IF target = <<>> THEN blocks
    ELSE FoldLeft(LAMBDA edit, op : insert_terminator(edit.blocks, edit.source, "Before", op),
                  Edit(blocks, target[1].source), target[1].ops).blocks

\* The range of blocks is computed once, before any block is split.
ValidValuePass(body) ==
    [body EXCEPT !.blocks =
        FoldLeftDomain(LAMBDA blocks, bb : build_check(blocks, find_next(body.locals, blocks[bb], bb)), @, @)]
=============================================================================
