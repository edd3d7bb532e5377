------------------------------- MODULE UbChecks -------------------------------
(***************************************************************************)
(* The undefined-behaviour checks of kani_middle/transform at work.  A     *)
(* harness is put together from the instructions of a scenario, the passes *)
(* instrument it and the functions it calls, and the instrumented program  *)
(* runs, byte by byte, next to the shadow memory that the inserted calls   *)
(* maintain.  The run tells what the language says of every access, which  *)
(* is what the checks are compared with.                                   *)
(*                                                                         *)
(* The shadow memory has a bit for every byte: that the library gets by    *)
(* with a single one is shown in MemInit.  A run ends at the first check   *)
(* that fails.                                                             *)
(***************************************************************************)
EXTENDS UninitChecks

CONSTANTS
    Scenarios,  \* sequence of [locals, prelude, menu, length, pass]
    StaticTys,  \* the statics, with their types
    MaxSteps    \* bound on the instructions that a run executes

VARIABLES
    scen,       \* the scenario of this harness
    items,      \* the instructions chosen from its menu
    phase,      \* "build", "run", "done", or "failed": the compiler did not get through
    graph,      \* the points-to graph of the harness
    bodies,     \* the instrumented bodies
    mem,        \* memory: the bytes of every object
    shadow,     \* what the instrumentation believes to be initialized
    arguments,  \* shadow of the union arguments on their way to a callee
    stack,      \* the functions being executed, the innermost last
    steps,
    ub,         \* uninitialized memory was read as a value
    invalid,    \* an invalid value was made by an instruction that gets checks
    masked,     \* uninitialized memory was declared initialized, see Masks
    partial,    \* objects with a field written through a raw pointer
    unseen,     \* objects that the statics led to where the analysis forgot it, see ItemCall
    alarm       \* the check that failed: "real", "false", "unsupported", or "none"

vars == <<scen, items, phase, graph, bodies, mem, shadow, arguments, stack, steps,
          ub, invalid, masked, partial, unseen, alarm>>

-----------------------------------------------------------------------------
(* The harness.  Instructions that end a block go on in the next one; of a *)
(* branch, 0 stands for the next block, -1 for the last.                   *)

IsTerminator(item) == item.k \in {"Call", "Goto", "Switch", "Drop"}

\* copy_nonoverlapping is a statement [k |-> "Copy"], like every other item
HarnessBlocks(list) ==
    LET Place(blocks, item) ==
            IF IsTerminator(item) THEN Append([blocks EXCEPT ![Len(blocks)].term = item], Block(<<>>, Return))
            ELSE [blocks EXCEPT ![Len(blocks)].stmts = Append(@, item)]
        blocks == FoldLeft(Place, <<Block(<<>>, Return)>>, list)
        Resolve(bb, t) == CASE t = 0 -> bb + 1 [] t = -1 -> Len(blocks) [] OTHER -> t
        Close(bb) ==
            LET term == blocks[bb].term
            IN  CASE term.k = "Return" -> blocks[bb]
                  [] term.k = "Switch" ->
                        [blocks[bb] EXCEPT !.term.targets = [i \in DOMAIN @ |-> Resolve(bb, @[i])]]
                  [] OTHER -> [blocks[bb] EXCEPT !.term.target = bb + 1]
    IN  FoldLeftDomain(LAMBDA done, bb : Append(done, Close(bb)), <<>>, blocks)

Scenario == Scenarios[scen]
Chosen == Scenario.prelude \o [i \in DOMAIN items |-> Scenario.menu[items[i]]]
Main == [locals |-> Scenario.locals, args |-> 0, blocks |-> HarnessBlocks(Chosen)]
Program == Fns @@ [main |-> Main]

-----------------------------------------------------------------------------
(* The machine.                                                            *)

Uninit == [k |-> "u"]
Pointer(obj, off) == [k |-> "p", obj |-> obj, off |-> off]
StackObj(f, n, c) == [k |-> "Stack", f |-> f, n |-> n, c |-> c]
HeapObj(f, bb, c) == [k |-> "Heap", f |-> f, n |-> bb, c |-> c]
StaticObj(s) == [k |-> "Static", f |-> s, n |-> 0, c |-> 0]
Abs(obj) == [k |-> obj.k, f |-> obj.f, n |-> obj.n]

Frame == Last(stack)
BodyOf(frame) == bodies[frame.f]
LocalsOf(frame) == BodyOf(frame).locals

\* Where a place is; obj is <<>> when it goes through something that is no pointer.
Nowhere == [obj |-> <<>>, off |-> 0, ty |-> Unit]
Target(cell, ty) ==
    IF cell.k = "p" /\ cell.obj \in DOMAIN mem
    THEN [obj |-> <<cell.obj>>, off |-> cell.off, ty |-> ty.ty] ELSE Nowhere
Follow(addr, elem) ==
    CASE addr.obj = <<>> -> Nowhere
      [] elem.p = "Field" ->
            LET field == Adts[addr.ty.name].variants[1][elem.i]
            IN  [addr EXCEPT !.off = @ + field.offset, !.ty = field.ty]
      [] OTHER -> Target(mem[addr.obj[1]][addr.off + 1], addr.ty)
Address(frame, place) ==
    FoldLeft(Follow, [obj |-> <<StackObj(frame.f, place.local, frame.c)>>, off |-> 0,
                      ty |-> LocalsOf(frame)[place.local + 1]], place.proj)
\* The memory for n values of the type is there.
InBounds(addr, n) ==
    addr.obj # <<>> /\ addr.off + n * SizeOf(addr.ty) <= Len(mem[addr.obj[1]])

Load(m, addr, len) == SubSeq(m[addr.obj[1]], addr.off + 1, addr.off + len)
Store(m, addr, new) ==
    [m EXCEPT ![addr.obj[1]] = [b \in DOMAIN @ |->
        IF b \in (addr.off + 1)..(addr.off + Len(new)) THEN new[b - addr.off] ELSE @[b]]]

\* Copying a value at its type loses the padding.
Typed(ty, cells) ==
    IF ty.k = "Adt" /\ Adts[ty.name].kind \in {"union", "enum"} THEN cells
    ELSE [b \in DOMAIN cells |-> IF DataAt(ty, b - 1) THEN cells[b] ELSE Uninit]
LoadTyped(addr) == Typed(addr.ty, Load(mem, addr, SizeOf(addr.ty)))

OperandValue(frame, op) ==
    CASE op.k = "Copy" -> LoadTyped(Address(frame, op.place))
      [] op.static # <<>> -> <<Pointer(StaticObj(op.static[1]), 0)>>
      [] OTHER -> op.cells

\* The target of a pointer operand.
PointeeOf(frame, op) ==
    Target(OperandValue(frame, op)[1], OperandTy(LocalsOf(frame), op))
CountOf(frame, op) == OperandValue(frame, op)[1].v

RvalueValue(frame, rv) ==
    CASE rv.k = "Use" -> OperandValue(frame, rv.op)
      [] rv.k = "Cast" -> Typed(rv.ty, OperandValue(frame, rv.op))
      [] rv.k = "Repeat" -> [i \in 1..rv.count |-> OperandValue(frame, rv.op)[1]]
      [] rv.k \in {"Ref", "AddressOf"} ->
            LET addr == Address(frame, rv.place) IN <<Pointer(addr.obj[1], addr.off)>>
      [] rv.k = "CopyForDeref" -> LoadTyped(Address(frame, rv.place))
      [] rv.k = "ThreadLocalRef" -> <<Pointer(StaticObj(rv.static), 0)>>
      [] rv.k = "BinaryOp" ->
            IF rv.binop = "Offset"
            THEN LET p == OperandValue(frame, rv.l)[1] IN <<[p EXCEPT !.off = @ + CountOf(frame, rv.r)]>>
            ELSE <<[k |-> "i", v |-> 0]>>
      [] rv.k = "Aggregate" ->
            LET fields == Adts[rv.ty.name].variants[1]
                At(i) == fields[IF is_union(rv.ty) THEN rv.field ELSE i]
                Holds(i, b) == b > At(i).offset /\ b <= At(i).offset + SizeOf(At(i).ty)
                of(b) == CHOOSE i \in DOMAIN rv.ops : Holds(i, b)
            IN  [b \in 1..SizeOf(rv.ty) |->
                    IF \E i \in DOMAIN rv.ops : Holds(i, b)
                    THEN OperandValue(frame, rv.ops[of(b)])[b - At(of(b)).offset] ELSE Uninit]

-----------------------------------------------------------------------------
(* What the language says of an instruction.                               *)

PlacesRead(places) == {places[i][1] : i \in {j \in DOMAIN places : ~places[j][2]}}
PlacesWritten(places) == {places[i][1] : i \in {j \in DOMAIN places : places[j][2]}}
PlacesOf(instr) ==
    IF instr.k \in {"Assign", "Copy", "Nop"} THEN StatementPlaces(instr) ELSE TerminatorPlaces(instr)
RefPlaces(instr) ==
    IF instr.k = "Assign" /\ instr.rvalue.k \in {"Ref", "AddressOf"} THEN {instr.rvalue.place} ELSE {}

UninitAt(addr) == ~Initialized(addr.ty, Load(mem, addr, SizeOf(addr.ty)))

\* An instruction reads uninitialized data at a place.
UninitRead(frame, instr) == \E p \in PlacesRead(PlacesOf(instr)) : UninitAt(Address(frame, p))

\* An instruction that makes an uninitialized value out of initialized ones.
UninitMade(frame, stmt) ==
    /\ stmt.k = "Assign"
    /\ ~Initialized(RvalueTy(LocalsOf(frame), stmt.rvalue), RvalueValue(frame, stmt.rvalue))

ThroughRaw(frame, place) ==
    \E i \in DOMAIN place.proj :
        place.proj[i].p = "Deref" /\ is_raw_ptr(PlaceTy(LocalsOf(frame), Prefix(place, i - 1)))
ThroughUnion(frame, place) ==
    \E i \in DOMAIN place.proj : is_union(PlaceTy(LocalsOf(frame), Prefix(place, i - 1)))

InvalidAt(addr) == ~ValidValue(addr.ty, Load(mem, addr, SizeOf(addr.ty)))

\* An invalid value comes from memory behind a raw pointer, or is made by a
\* transmute, an aggregate, or an assignment to a part of a restricted type.
InvalidAssigned(frame, stmt, cells, whole) ==
    \/ /\ stmt.rvalue.k \in {"Cast", "Aggregate"}
       /\ ~ValidValue(RvalueTy(LocalsOf(frame), stmt.rvalue), cells)
    \/ /\ stmt.place.proj # <<>> /\ stmt.place.proj[1].p = "Field"
       /\ Address(frame, stmt.place).obj = whole.obj
       /\ ~InvalidAt(whole)
       /\ ~ValidValue(whole.ty, Load(Store(mem, Address(frame, stmt.place), cells), whole, SizeOf(whole.ty)))
InvalidMade(frame, stmt) ==
    \/ \E p \in PlacesRead(PlacesOf(stmt)) :
          ThroughRaw(frame, p) /\ ~ThroughUnion(frame, p) /\ InvalidAt(Address(frame, p))
    \/ /\ stmt.k = "Assign"
       /\ InvalidAssigned(frame, stmt, RvalueValue(frame, stmt.rvalue),
                          Address(frame, Local(stmt.place.local)))

\* Taking an address, mentioning a static's address and creating a union
\* anew declare memory initialized, whatever was written to it before.
HasUninit(obj) == \E b \in DOMAIN mem[obj] : ~IsInit(mem[obj][b])
StaticsIn(instr) ==
    LET ops == CASE instr.k = "Assign" ->
                      (CASE instr.rvalue.k \in {"Use", "Cast"} -> <<instr.rvalue.op>>
                         [] instr.rvalue.k = "Aggregate" -> instr.rvalue.ops
                         [] OTHER -> <<>>)
                 [] instr.k = "Call" -> instr.args
                 [] OTHER -> <<>>
    IN  {StaticObj(ops[i].static[1]) : i \in {j \in DOMAIN ops : ops[j].k = "Const" /\ ops[j].static # <<>>}}
Masks(frame, instr) ==
    \/ \E o \in StaticsIn(instr) : HasUninit(o)
    \/ /\ instr.k = "Assign" /\ instr.rvalue.k = "AddressOf"
       /\ HasUninit(Address(frame, instr.rvalue.place).obj[1])
    \/ /\ instr.k = "Assign" /\ instr.rvalue.k = "Aggregate" /\ is_union(instr.rvalue.ty)
       /\ LET addr == Address(frame, instr.place)
              field == Adts[instr.rvalue.ty.name].variants[1][instr.rvalue.field].ty
              rest == SubSeq(Load(mem, addr, SizeOf(addr.ty)), SizeOf(field) + 1, SizeOf(addr.ty))
          IN  \E b \in DOMAIN rest : IsInit(rest[b])

PartialWrites(frame, instr) ==
    {Address(frame, p).obj[1] : p \in {q \in PlacesWritten(PlacesOf(instr)) :
        ThroughRaw(frame, q) /\ ~EndsInDeref(q)}}

-----------------------------------------------------------------------------

Init ==
    /\ scen \in DOMAIN Scenarios
    /\ items = <<>> /\ phase = "build"
    /\ graph = EmptyGraph /\ bodies = <<>>
    /\ mem = <<>> /\ shadow = <<>> /\ arguments = <<>> /\ stack = <<>> /\ steps = 0
    /\ ub = FALSE /\ invalid = FALSE /\ masked = FALSE /\ partial = {} /\ unseen = {} /\ alarm = "none"

\* The harness gets another instruction.
Emit(i) ==
    /\ phase = "build" /\ Len(items) < Scenario.length
    /\ items' = Append(items, i)
    /\ UNCHANGED <<scen, phase, graph, bodies, mem, shadow, arguments, stack, steps,
                   ub, invalid, masked, partial, unseen, alarm>>

NewFrame(f, c) == [f |-> f, c |-> c, bb |-> 1, idx |-> 1, at |-> 1, viaOp |-> FALSE]
Fresh(locals, f, c) ==
    [o \in {StackObj(f, n, c) : n \in 0..(Len(locals) - 1)} |->
        [b \in 1..SizeOf(locals[o.n + 1]) |-> Uninit]]
StaticMem == [o \in {StaticObj(s) : s \in DOMAIN StaticTys} |->
                [b \in 1..SizeOf(StaticTys[o.f]) |-> [k |-> "i", v |-> 0]]]
AllFalse(m) == [o \in DOMAIN m |-> [b \in DOMAIN m[o] |-> FALSE]]

Fatal(p) == \E f \in DOMAIN p : \E bb \in DOMAIN p[f].blocks :
                p[f].blocks[bb].term.k = "Op" /\ p[f].blocks[bb].term.op.op \in {"Panic", "Hang"}

\* The whole-program pass cannot resolve a call through a function pointer.
CompileFails ==
    /\ phase = "build" /\ Len(items) = Scenario.length
    /\ Scenario.pass = "uninit" /\ \E f \in DOMAIN Program : CallsPointer(Program[f])
    /\ phase' = "failed"
    /\ UNCHANGED <<scen, items, graph, bodies, mem, shadow, arguments, stack, steps,
                   ub, invalid, masked, partial, unseen, alarm>>

Transformed(program, g) ==
    IF Scenario.pass = "validity" THEN [f \in DOMAIN program |-> ValidValuePass(program[f])]
    ELSE DelayedUbPass([f \in DOMAIN program |-> UninitPass(program[f])], program, g)

\* The compiler runs: the passes on every body, then the whole-program pass.
Compile ==
    /\ phase = "build" /\ Len(items) = Scenario.length
    /\ Scenario.pass = "uninit" => \A f \in DOMAIN Program : ~CallsPointer(Program[f])
    /\ graph' = run_points_to_analysis("main", Main)
    /\ bodies' = Transformed(Program, graph')
    /\ phase' = IF Fatal(bodies') THEN "failed" ELSE "run"
    /\ mem' = StaticMem @@ Fresh(Scenario.locals, "main", 1)
    /\ shadow' = AllFalse(mem')
    /\ stack' = <<NewFrame("main", 1)>>
    /\ UNCHANGED <<scen, items, arguments, steps, ub, invalid, masked, partial, unseen, alarm>>

Running == phase = "run" /\ alarm = "none" /\ steps < MaxSteps
BlockNow == BodyOf(Frame).blocks[Frame.bb]
AtStmt == Running /\ Frame.idx <= Len(BlockNow.stmts)
AtTerm == Running /\ Frame.idx > Len(BlockNow.stmts)

\* The original block that a target belongs to: the first parts of split blocks keep their numbers.
Jump(frame, target, viaOp) ==
    [frame EXCEPT !.bb = target, !.idx = 1, !.viaOp = viaOp,
                  !.at = IF target <= Len(Program[frame.f].blocks) THEN target ELSE @]
GoTo(target, viaOp) == stack' = [stack EXCEPT ![Len(stack)] = Jump(@, target, viaOp)]

\* Every place the instruction mentions exists; otherwise the program is
\* stopped by other checks.
Feasible(instr) ==
    \A p \in PlacesRead(PlacesOf(instr)) \cup PlacesWritten(PlacesOf(instr)) \cup RefPlaces(instr) :
        InBounds(Address(Frame, p), 1)

\* The instruction is not behind the one of its block that got the checks.
Guarded == ~Frame.viaOp \/ Frame.idx = 1

Judge(instr) ==
    /\ ub' = (ub \/ UninitRead(Frame, instr) \/ UninitMade(Frame, instr))
    /\ invalid' = (invalid \/ (Guarded /\ InvalidMade(Frame, instr)))
    /\ masked' = (masked \/ Masks(Frame, instr))
    /\ partial' = partial \cup PartialWrites(Frame, instr) /\ UNCHANGED unseen

CopyMemory(src, dst, n) ==
    /\ InBounds(src, n) /\ InBounds(dst, n)
    /\ mem' = Store(mem, dst, Load(mem, src, n * SizeOf(src.ty)))

Statement ==
    /\ AtStmt
    /\ LET stmt == BlockNow.stmts[Frame.idx]
       IN  /\ Feasible(stmt) /\ Judge(stmt)
           /\ CASE stmt.k = "Assign" ->
                     mem' = Store(mem, Address(Frame, stmt.place), RvalueValue(Frame, stmt.rvalue))
                [] stmt.k = "Copy" ->
                     CopyMemory(PointeeOf(Frame, stmt.src), PointeeOf(Frame, stmt.dst), CountOf(Frame, stmt.count))
                [] OTHER -> mem' = mem
    /\ stack' = [stack EXCEPT ![Len(stack)].idx = @ + 1]
    /\ steps' = steps + 1
    /\ UNCHANGED <<scen, items, phase, graph, bodies, shadow, arguments, alarm>>

\* Goto and SwitchInt; what is switched on is not modelled.
Branch ==
    /\ AtTerm /\ BlockNow.term.k \in {"Goto", "Switch"}
    /\ \E t \in TargetsOf(BlockNow.term) : GoTo(t, FALSE)
    /\ steps' = steps + 1
    /\ UNCHANGED <<scen, items, phase, graph, bodies, mem, shadow, arguments, ub, invalid, masked,
                   partial, unseen, alarm>>

\* The memory effect of an intrinsic or an allocation function.
Effect(term, at, to, value, dest, n) ==
    CASE term.func.name \in {"volatile_load", "atomic_load"} -> Store(mem, dest, LoadTyped(at))
      [] term.func.name \in {"volatile_store", "atomic_store"} -> Store(mem, at, value)
      [] term.func.name = "atomic_xchg" -> Store(Store(mem, dest, LoadTyped(at)), at, value)
      [] term.func.name = "write_bytes" -> Store(mem, at, [i \in 1..(n * SizeOf(at.ty)) |-> value[1]])
      [] term.func.name = "copy" -> Store(mem, to, Load(mem, at, n * SizeOf(at.ty)))
      [] term.func.name = "typed_swap" -> Store(Store(mem, at, LoadTyped(to)), to, LoadTyped(at))
      [] term.func.name = "black_box" -> Store(mem, dest, OperandValue(Frame, term.args[1]))

\* The pointees that an intrinsic reads at their type.
TypedReads(term) ==
    {PointeeOf(Frame, term.args[i]) :
        i \in CASE term.func.name \in {"volatile_load", "atomic_load", "atomic_xchg"} -> {1}
               [] term.func.name = "typed_swap" -> {1, 2}
               [] OTHER -> {}}
Counted(term) ==
    IF term.func.name \in {"copy", "write_bytes"} THEN CountOf(Frame, term.args[3]) ELSE 1

IntrinsicCall ==
    /\ AtTerm /\ BlockNow.term.k = "Call" /\ BlockNow.term.func.k = "Intrinsic"
    /\ LET term == BlockNow.term
       IN  /\ Feasible(term)
           /\ \A i \in DOMAIN term.args :
                is_raw_ptr(OperandTy(LocalsOf(Frame), term.args[i])) /\ term.func.name # "black_box" =>
                    InBounds(PointeeOf(Frame, term.args[i]), Counted(term))
           /\ ub' = (ub \/ UninitRead(Frame, term) \/ \E addr \in TypedReads(term) : UninitAt(addr))
           /\ mem' = Effect(term, PointeeOf(Frame, term.args[1]), PointeeOf(Frame, term.args[2]),
                            OperandValue(Frame, term.args[2]), Address(Frame, term.dest), Counted(term))
           /\ masked' = (masked \/ Masks(Frame, term))
           /\ GoTo(term.target, FALSE)
    /\ steps' = steps + 1
    /\ UNCHANGED <<scen, items, phase, graph, bodies, shadow, arguments, invalid, partial, unseen, alarm>>

\* __rust_alloc, __rust_alloc_zeroed, __rust_dealloc
ForeignCall ==
    /\ AtTerm /\ BlockNow.term.k = "Call" /\ BlockNow.term.func.k = "Foreign"
    /\ LET term == BlockNow.term
           new == HeapObj(Frame.f, Frame.at, steps)
           cell == IF term.func.name = "__rust_alloc" THEN Uninit ELSE [k |-> "i", v |-> 0]
           m == mem @@ (new :> [b \in 1..CountOf(Frame, term.args[1]) |-> cell])
       IN  /\ Feasible(term)
           /\ mem' = Store(m, Address(Frame, term.dest), <<Pointer(new, 0)>>)
           /\ shadow' = shadow @@ (new :> [b \in DOMAIN m[new] |-> FALSE])
           /\ GoTo(term.target, FALSE)
    /\ steps' = steps + 1
    /\ UNCHANGED <<scen, items, phase, graph, bodies, arguments, ub, invalid, masked, partial, unseen, alarm>>

\* A callee whose arguments are all constants is analyzed without the statics.
PointerEdges == UNION {{<<o, mem[o][b].obj>> : b \in {c \in DOMAIN mem[o] : mem[o][c].k = "p"}} : o \in DOMAIN mem}
BehindStatics == Reached(PointerEdges, successors(PointerEdges, {StaticObj(s) : s \in DOMAIN StaticTys}))
ItemCall ==
    /\ AtTerm /\ BlockNow.term.k = "Call" /\ BlockNow.term.func.k \in {"Item", "Closure"}
    /\ LET term == BlockNow.term
           f == term.func.name
           c == Len(stack) + 1
           params == [n \in DOMAIN term.args |-> OperandValue(Frame, term.args[n])]
       IN  /\ Feasible(term)
           /\ ub' = (ub \/ UninitRead(Frame, term))
           /\ masked' = (masked \/ Masks(Frame, term))
           /\ mem' = [o \in {StackObj(f, n, c) : n \in DOMAIN term.args} |-> params[o.n]]
                        @@ Fresh(bodies[f].locals, f, c) @@ mem
           /\ shadow' = AllFalse(Fresh(bodies[f].locals, f, c)) @@ shadow
           /\ stack' = Append(stack, NewFrame(f, c))
           /\ unseen' = IF \E n \in DOMAIN term.args : term.args[n].k = "Copy" THEN unseen ELSE unseen \cup BehindStatics
    /\ steps' = steps + 1
    /\ UNCHANGED <<scen, items, phase, graph, bodies, arguments, invalid, partial, alarm>>

\* The callee's locals are gone; the return value is stored.
ReturnTo ==
    /\ AtTerm /\ BlockNow.term.k = "Return" /\ Len(stack) > 1
    /\ LET caller == stack[Len(stack) - 1]
           term == bodies[caller.f].blocks[caller.bb].term
           value == mem[StackObj(Frame.f, 0, Frame.c)]
           Alive(m) == [o \in {x \in DOMAIN m : ~(x.k = "Stack" /\ x.c = Frame.c)} |-> m[o]]
       IN  /\ mem' = Store(Alive(mem), Address(caller, term.dest), value)
           /\ shadow' = Alive(shadow)
           /\ stack' = Append(SubSeq(stack, 1, Len(stack) - 2), Jump(caller, term.target, FALSE))
    /\ steps' = steps + 1
    /\ UNCHANGED <<scen, items, phase, graph, bodies, arguments, ub, invalid, masked, partial, unseen, alarm>>

ReturnLast ==
    /\ AtTerm /\ BlockNow.term.k = "Return" /\ Len(stack) = 1
    /\ phase' = "done"
    /\ UNCHANGED <<scen, items, graph, bodies, mem, shadow, arguments, stack, steps, ub, invalid,
                   masked, partial, unseen, alarm>>

-----------------------------------------------------------------------------
(* The inserted calls.                                                     *)

Op == BlockNow.term.op
OpAddress(op) ==
    IF op.op \in PtrOps THEN PointeeOf(Frame, op.operand) ELSE Address(Frame, op.operand.place)
OpCount(op) == IF op.op \in {"CheckSliceChunk", "SetSliceChunk", "Copy"} THEN CountOf(Frame, op.count) ELSE 1
OpFeasible(op) ==
    /\ op.op \in PtrOps /\ op.operand.k = "Copy" => InBounds(Address(Frame, op.operand.place), 1)
    /\ InBounds([OpAddress(op) EXCEPT !.ty = Unit], 1)

\* The mask of the layout, for each of the elements.
MaskFor(op) == FlattenSeq([i \in 1..OpCount(op) |-> op.mask])

\* The following instruction of the program makes a value out of padding.
RECURSIVE NextStatement(_)
NextStatement(bb) ==
    LET block == BodyOf(Frame).blocks[bb]
    IN  IF block.stmts # <<>> THEN block.stmts[1]
        ELSE IF block.term.k \in {"Op", "Goto"} THEN NextStatement(block.term.target) ELSE Nop

\* A check of the shadow memory that fails is right when the memory really is
\* uninitialized there.
Masked(addr, mask) == {b \in 1..Len(mem[addr.obj[1]]) : b - addr.off \in DOMAIN mask /\ mask[b - addr.off]}
CheckBytes(obj, bytes) ==
    CASE \A b \in bytes : shadow[obj][b] -> "none"
      [] \E b \in bytes : ~IsInit(mem[obj][b]) -> "real"
      [] OTHER -> IF obj \in partial THEN "real" ELSE "false"
CheckShadow(addr, mask) == CheckBytes(addr.obj[1], Masked(addr, mask))

ShadowCheck ==
    /\ AtTerm /\ BlockNow.term.k = "Op" /\ Op.op \in {"Check", "CheckRef", "CheckSliceChunk"}
    /\ OpFeasible(Op)
    /\ alarm' = CheckShadow(OpAddress(Op), MaskFor(Op))
    /\ GoTo(BlockNow.term.target, TRUE)
    /\ steps' = steps + 1
    /\ UNCHANGED <<scen, items, phase, graph, bodies, mem, shadow, arguments, ub, invalid, masked, partial, unseen>>

Copied(m, from, to, len) == Store(m, to, Load(m, from, len))
OpEffect(op, addr) ==
    \/ /\ op.op \in {"Set", "SetRef", "SetSliceChunk", "CreateUnion"}
       /\ shadow' = Store(shadow, addr, [i \in DOMAIN MaskFor(op) |-> MaskFor(op)[i] /\ op.value])
       /\ UNCHANGED arguments
    \/ /\ op.op = "Copy"
       /\ shadow' = Copied(shadow, addr, PointeeOf(Frame, op.to), OpCount(op) * op.size)
       /\ UNCHANGED arguments
    \/ /\ op.op = "AssignUnion"
       /\ shadow' = Copied(shadow, Address(Frame, op.rvalue.place), addr, op.size)
       /\ UNCHANGED arguments
    \/ /\ op.op = "StoreArgument"
       /\ arguments' = (op.argument :> Load(shadow, addr, op.size)) @@ arguments
       /\ UNCHANGED shadow
    \/ /\ op.op = "LoadArgument"
       /\ shadow' = Store(shadow, addr, IF op.argument \in DOMAIN arguments THEN arguments[op.argument]
                                        ELSE [b \in 1..op.size |-> TRUE])
       /\ UNCHANGED arguments

ShadowUpdate ==
    /\ AtTerm /\ BlockNow.term.k = "Op"
    /\ Op.op \in {"Set", "SetRef", "SetSliceChunk", "CreateUnion", "Copy", "AssignUnion",
                  "StoreArgument", "LoadArgument"}
    /\ OpFeasible(Op)
    /\ OpEffect(Op, OpAddress(Op))
    /\ GoTo(BlockNow.term.target, TRUE)
    /\ steps' = steps + 1
    /\ UNCHANGED <<scen, items, phase, graph, bodies, mem, ub, invalid, masked, partial, unseen, alarm>>

\* Checks that fail whenever they are reached.  A transmute is trivially
\* unsafe when it takes padding for data.
FailingCheck ==
    /\ AtTerm /\ BlockNow.term.k = "Op" /\ Op.op \in {"Unsupported", "TriviallyUnsafe"}
    /\ alarm' = LET stmt == NextStatement(BlockNow.term.target)
                IN  CASE Op.op = "Unsupported" -> "unsupported"
                      [] stmt.k = "Assign" /\ UninitMade(Frame, stmt) -> "real"
                      [] OTHER -> "false"
    /\ GoTo(BlockNow.term.target, TRUE)
    /\ steps' = steps + 1
    /\ UNCHANGED <<scen, items, phase, graph, bodies, mem, shadow, arguments, ub, invalid, masked, partial, unseen>>

Known(cells) == \A b \in DOMAIN cells : IsInit(cells[b])
PaddedTo(size, cells) == cells \o [b \in 1..(size - Len(cells)) |-> Uninit]
Verdict(op, cells) ==
    IF Known(cells) /\ \A i \in DOMAIN op.ranges : build_limits(op.ranges[i], cells) THEN "none"
    ELSE IF ~Known(cells) \/ ~ValidValue(op.ty, PaddedTo(SizeOf(op.ty), cells)) THEN "real" ELSE "false"

\* A check of a value's ranges that fails is right when the value is invalid.
ValueCheck ==
    /\ AtTerm /\ BlockNow.term.k = "Op" /\ Op.op \in {"BytesValidity", "DerefValidity"}
    /\ Op.op = "DerefValidity" => OpFeasible([Op EXCEPT !.op = "Check"]) /\ InBounds(PointeeOf(Frame, Op.operand), 1)
    /\ alarm' = Verdict(Op, IF Op.op = "BytesValidity" THEN RvalueValue(Frame, Op.rvalue)
                            ELSE Load(mem, PointeeOf(Frame, Op.operand), SizeOf(Op.ty)))
    /\ GoTo(BlockNow.term.target, TRUE)
    /\ steps' = steps + 1
    /\ UNCHANGED <<scen, items, phase, graph, bodies, mem, shadow, arguments, ub, invalid, masked, partial, unseen>>

Next ==
    \/ phase = "build" /\ \E i \in DOMAIN Scenario.menu : Emit(i)
    \/ Compile \/ CompileFails
    \/ Statement \/ Branch \/ IntrinsicCall \/ ForeignCall \/ ItemCall \/ ReturnTo \/ ReturnLast
    \/ ShadowCheck \/ ShadowUpdate \/ FailingCheck \/ ValueCheck

Spec == Init /\ [][Next]_vars

-----------------------------------------------------------------------------

\* The points-to graph is sound: wherever the instrumented program keeps a
\* pointer, in a local, in a static or on the heap, in the harness or in a
\* function it calls, the graph has the edge (points_to_analysis.rs).  Exception:
\* the comment at :445 says that a callee's graph has the statics, but without a
\* place among the arguments it starts empty (:447-456), and what the statics
\* then point to may be unknown where the callee brings it.
PointsToSound ==
    \A o \in DOMAIN mem : \A b \in DOMAIN mem[o] :
        mem[o][b].k = "p" => <<Abs(o), Abs(mem[o][b].obj)>> \in graph \/ mem[o][b].obj \in unseen

\* What a program does wrong is caught by a check before it does it.  No program
\* reads uninitialized memory without a check failing first, unless it was
\* declared initialized before, by taking its address again, naming a static or
\* creating its union anew; and an instruction that makes an invalid value is
\* reached only after its check failed, as long as it is the first unsafe
\* instruction of its basic block.
UbCaught == (ub => masked) /\ (Scenario.pass = "validity" => ~invalid)

\* A check fails only for a program that does something wrong: a
\* memory-initialization check only where memory is uninitialized (unless a part
\* of it was written through a raw pointer, which the shadow memory is not told),
\* a validity check only for a value that its type does not have.
NoSpuriousCheck == alarm # "false"
=============================================================================
