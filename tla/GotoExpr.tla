------------------------------- MODULE GotoExpr -------------------------------
(***************************************************************************)
(* Expressions and statements of the goto program (cprover_bindings/src/   *)
(* goto_program/expr.rs, stmt.rs).  An expression is a tree of records     *)
(*   op     the variant of ExprValue,                                      *)
(*   t      its type,                                                      *)
(*   args   the expressions it is made of,                                 *)
(*   x      what else the variant holds: a constant, an operator, a field. *)
(* AssertionsHold(e) is what the constructor of e asserts of its operands. *)
(* What CBMC makes of an expression is the module GotoMachine.             *)
(***************************************************************************)
EXTENDS GotoType

Node(op, t, args, x) == [op |-> op, t |-> t, args |-> args, x |-> x]
Leaf(op, t, x) == Node(op, t, <<>>, x)
Nothing == "nothing"
Num(b) == IF b THEN 1 ELSE 0

(* A symbol of the program, with the value it holds, a temporary by name,  *)
(* and a part of the local that is being built.                            *)
symbol_expression(v, t) == Leaf("Symbol", t, v)
Temp(n, t) == Leaf("Temp", t, n)
LocalPart(p) == Leaf("LocalPart", p.t, p)

bool_constant(b) == Leaf("BoolConstant", bool_ty, b)
c_bool_constant(b) == Leaf("CBoolConstant", c_bool, Num(b))
int_constant(i, t) == Leaf("IntConstant", t, i)
pointer_constant(a, t) == Leaf("PointerConstant", t, a)
nondet(t) == Leaf("Nondet", t, Nothing)
max_int_expr(t) == int_constant(max_int(native_width(t), is_signed(t)), t)
min_int_expr(t) == int_constant(min_int(native_width(t), is_signed(t)), t)
ZeroOf(t, kind) ==
    CASE kind \in IntegerKinds -> int_constant(0, t)
      [] kind = "Bool" -> bool_constant(FALSE)
      [] kind = "Pointer" -> pointer_constant(0, t)
      [] OTHER -> Leaf("DoubleConstant", t, 0)
zero(t) == ZeroOf(t, unwrap_typedef(t).k)
one(t) == int_constant(1, t)

(* These always have a side effect; any other expression has one when a    *)
(* part of it does.                                                        *)
RECURSIVE is_side_effect(_)
is_side_effect(e) ==
    \/ e.op \in {"FunctionCall", "Nondet", "StatementExpression"}
    \/ \E i \in DOMAIN e.args : is_side_effect(e.args[i])

-------------------------------------------------------------------------------
(* Operators.                                                              *)

arithmetic_overflow_result_type(t) == struct_tag(<<"overflow_result", t>>)
OverflowPair == {"OverflowResultPlus", "OverflowResultMinus", "OverflowResultMult"}
OverflowFlag == {"OverflowPlus", "OverflowMinus", "OverflowMult"}
Predicates == {"And", "Implies", "Or", "Xor", "Ge", "Gt", "Le", "Lt", "Equal", "Notequal",
               "IeeeFloatEqual", "IeeeFloatNotequal", "ROk"} \cup OverflowFlag
binop_return_type(op, l, r) ==
    CASE op = "Minus" /\ is_pointer(l) /\ is_pointer(r) -> ssize_t
      [] op \in OverflowPair -> arithmetic_overflow_result_type(l)
      [] op \in Predicates -> bool_ty
      [] OTHER -> l
binop(l, op, r) == Node("BinOp", binop_return_type(op, l.t, r.t), <<l, r>>, op)

neq(l, r) == binop(l, "Notequal", r)
cast_to(e, t) ==
    CASE e.t = t -> e
      [] is_bool(t) -> neq(e, zero(e.t))
      [] OTHER -> Node("Typecast", t, <<e>>, Nothing)

plus(l, r) == binop(l, "Plus", r)
sub(l, r) == binop(l, "Minus", r)
mul(l, r) == binop(l, "Mult", r)
lt(l, r) == binop(l, "Lt", r)
le(l, r) == binop(l, "Le", r)
gt(l, r) == binop(l, "Gt", r)
ge(l, r) == binop(l, "Ge", r)
eq(l, r) == binop(l, "Equal", r)
and(l, r) == binop(cast_to(l, bool_ty), "And", cast_to(r, bool_ty))
or(l, r) == binop(cast_to(l, bool_ty), "Or", cast_to(r, bool_ty))
implies(l, r) == binop(cast_to(l, bool_ty), "Implies", cast_to(r, bool_ty))

unop_return_type(op, t) ==
    CASE op \in {"Bitnot", "BitReverse", "Bswap", "UnaryMinus"} -> t
      [] op \in {"Popcount", "Clz", "ClzNonZero", "Ctz", "CtzNonZero"} -> unsigned_int(MachineModel.int_width)
      [] op \in {"ObjectSize", "PointerObject"} -> size_t
      [] op = "PointerOffset" -> ssize_t
      [] op \in {"IsDynamicObject", "IsFinite", "Not"} -> bool_ty
unop(op, e) == Node("UnOp", unop_return_type(op, e.t), <<e>>, op)
not(e) == unop("Not", cast_to(e, bool_ty))
neg(e) == unop("UnaryMinus", e)
bitnot(e) == unop("Bitnot", e)
pointer_offset(e) == unop("PointerOffset", cast_to(e, void_pointer))
same_object(a, b) == eq(unop("PointerObject", a), unop("PointerObject", b))

(* Derived operations; Asserted adds what a method asserts first.          *)
Asserted(e, cond) == Node("Asserted", e.t, <<e>>, cond)
is_negative(e) == Asserted(lt(e, zero(e.t)), is_numeric(e.t))
is_non_negative(e) == Asserted(ge(e, zero(e.t)), is_numeric(e.t))
is_zero(e) == Asserted(eq(e, zero(e.t)), is_numeric(e.t) \/ is_pointer(e.t))
is_nonnull(e) == Asserted(neq(e, zero(e.t)), is_pointer(e.t))
ternary(c, t, e) == Node("If", t.t, <<cast_to(c, bool_ty), t, e>>, Nothing)
min(a, b) == Asserted(ternary(lt(a, b), a, b), ~is_side_effect(a) /\ ~is_side_effect(b))
max(a, b) == Asserted(ternary(gt(a, b), a, b), ~is_side_effect(a) /\ ~is_side_effect(b))
add_overflow(a, b) == [result |-> plus(a, b), overflowed |-> binop(a, "OverflowPlus", b)]
sub_overflow(a, b) == [result |-> sub(a, b), overflowed |-> binop(a, "OverflowMinus", b)]
mul_overflow(a, b) == [result |-> mul(a, b), overflowed |-> binop(a, "OverflowMult", b)]
Saturating(res, saturating_val, a, b) ==
    Asserted(ternary(res.overflowed, saturating_val, res.result), is_integer(a.t) /\ a.t = b.t)
saturating_add(a, b) ==
    Saturating(add_overflow(a, b), ternary(is_negative(a), min_int_expr(a.t), max_int_expr(a.t)), a, b)
saturating_sub(a, b) ==
    Saturating(sub_overflow(a, b), ternary(is_negative(b), max_int_expr(a.t), min_int_expr(a.t)), a, b)

(* Aggregates and memory.  The padding of a struct is nondet(): every bit  *)
(* of it reads as fill.                                                    *)
member(e, f) == Node("Member", lookup_field_type(e.t, f), <<e>>, f)
PaddedStruct(t, values, fill) == Node("Struct", t, values, fill)
struct_expr_from_values(t, values) == PaddedStruct(t, values, 0)
union_expr(t, f, e) == Node("Union", t, <<e>>, f)
array_expr(t, elems) == Node("Array", t, elems, Nothing)
vector_expr(t, elems) == Node("Vector", t, elems, Nothing)
index_array(a, i) == Node("Index", base_type(a.t), <<a, i>>, Nothing)
transmute_to(e, t) == Node("ByteExtract", t, <<e>>, 0)
vector_cmp(l, op, r, rt) == Node("VectorCmp", rt, <<l, r>>, op)
shuffle_vector(v1, v2, indexes, t) == Node("ShuffleVector", t, <<v1, v2, indexes>>, Nothing)
dereference(e) == Node("Dereference", base_type(e.t), <<e>>, Nothing)
call(fn, args, t) == Node("FunctionCall", t, args, fn)
statement_expression(stmts, e) == Node("StatementExpression", e.t, <<e>>, stmts)

-------------------------------------------------------------------------------
(* Statements.                                                             *)

Statement(k, es, x) == [k |-> k, es |-> es, x |-> x]
assert(cond, class) == Statement("Assert", <<cond>>, class)
decl(name, value) == Statement("Decl", <<value>>, name)
(* The left side is a part of the local, an element of a temporary or a    *)
(* dereference.                                                            *)
assign(lhs, rhs) == Statement("Assign", <<rhs>> \o lhs.args, lhs)
if_then_else(cond, then) == Statement("Ifthenelse", <<cond>>, then)
as_stmt(e) == Statement("Expression", <<e>>, Nothing)

-------------------------------------------------------------------------------
(* The assertions of the constructors.                                     *)

Overflowing == {"OverflowPlus", "OverflowMult", "OverflowResultPlus", "OverflowResultMult"}
VectorOf(kinds) == kinds \cup {"Vector"}
PointerAnd(kinds) == kinds \cup {"Pointer"}
KindsOk(op, same, l, r) ==
    CASE op \in {"Minus", "OverflowMinus", "OverflowResultMinus"} ->
            (same /\ l \in PointerAnd(VectorOf(NumericKinds))) \/ (l = "Pointer" /\ r \in IntegerKinds)
      [] op \in {"Plus"} \cup Overflowing ->
            (same /\ l \in VectorOf(NumericKinds)) \/ (l = "Pointer" /\ r \in IntegerKinds)
      [] op \in {"Div", "Mod", "Mult"} -> same /\ l \in VectorOf(NumericKinds)
      [] op \in {"Ashr", "Lshr", "Shl"} ->
            (l \in IntegerKinds /\ r \in IntegerKinds) \/ (same /\ l = "Vector")
      [] op \in {"Rol", "Ror"} -> l \in IntegerKinds /\ r \in IntegerKinds
      [] op \in {"And", "Implies", "Or", "Xor"} -> l = "Bool" /\ r = "Bool"
      [] op \in {"Bitand", "Bitor", "Bitxor"} -> same /\ l \in VectorOf(IntegerKinds)
      [] op = "Bitnand" -> same /\ l \in IntegerKinds
      [] op \in {"Ge", "Gt", "Le", "Lt"} -> same /\ l \in PointerAnd(NumericKinds)
      [] op \in {"Equal", "Notequal"} -> same /\ l \in PointerAnd(IntegerKinds)
      [] op \in {"IeeeFloatEqual", "IeeeFloatNotequal"} -> same /\ l \in FloatKinds
typecheck_binop_args(op, l, r) ==
    IF op = "ROk" THEN is_pointer(l) /\ is_c_size_t(r)
    ELSE KindsOk(op, l = r, unwrap_typedef(l).k, unwrap_typedef(r).k)
typecheck_unop_arg(op, t) ==
    CASE op \in {"Bitnot", "BitReverse", "Bswap", "Popcount", "Clz", "ClzNonZero", "Ctz", "CtzNonZero"} -> is_integer(t)
      [] op \in {"IsDynamicObject", "ObjectSize", "PointerObject"} -> is_pointer(t)
      [] op = "PointerOffset" -> t = void_pointer
      [] op = "Not" -> is_bool(t)
      [] op = "IsFinite" -> is_floating_point(t)
      [] op = "UnaryMinus" -> is_numeric(t)
CastKinds(from, to) ==
    CASE from = to -> TRUE
      [] to.k = "Bool" -> from.k \in PointerAnd(IntegerKinds)
      [] CKind(to, {"Bool"}) -> from.k \in PointerAnd(IntegerKinds) \cup {"Bool"}
      [] to.k \in IntegerKinds -> from.k \in PointerAnd(NumericKinds) \cup {"Bool"}
      [] to.k \in FloatKinds -> from.k \in NumericKinds
      [] to.k = "Pointer" -> from.k \in PointerAnd(IntegerKinds)
      [] OTHER -> to.k = "Empty"
can_cast_from(s, t) == CastKinds(unwrap_typedef(s), unwrap_typedef(t))
RealFields(t) == SelectSeq(lookup_components(t), LAMBDA f : ~is_padding(f))
TypesAre(es, fields) == Len(es) = Len(fields) /\ \A i \in DOMAIN es : es[i].t = fields[i].typ
ElementsOf(es, t) == t.size = Len(es) /\ \A i \in DOMAIN es : es[i].t = t.typ
HasSize(t) == t.k \notin {"Bool", "Integer", "InfiniteArray"}
typecheck_vector_cmp_expr(l, r, rt) ==
    is_vector(l) /\ l = r /\ l.size = rt.size /\ is_integer(base_type(rt))
typecheck_call(params, args) ==
    Len(params) = Len(args) /\ \A i \in DOMAIN params : params[i] = args[i].t
BuiltinParams ==
    [memcpy |-> <<void_pointer, void_pointer, size_t>>, memmove |-> <<void_pointer, void_pointer, size_t>>,
     memset |-> <<void_pointer, CInteger("Int"), size_t>>, memcmp |-> <<void_pointer, void_pointer, size_t>>]

AssertionsHold(e, a) ==
    CASE e.op = "BinOp" -> typecheck_binop_args(e.x, a[1].t, a[2].t)
      [] e.op = "UnOp" -> typecheck_unop_arg(e.x, a[1].t)
      [] e.op = "Typecast" -> can_cast_from(a[1].t, e.t)
      [] e.op = "If" -> a[2].t = a[3].t
      [] e.op = "IntConstant" -> is_integer(e.t) \/ e.t.k = "CBitField"
      [] e.op = "PointerConstant" -> is_pointer(e.t)
      [] e.op = "DoubleConstant" -> is_floating_point(e.t)
      [] e.op = "LocalPart" -> e.x.ok
      [] e.op = "Asserted" -> e.x
      [] e.op = "Member" -> OneOf(a[1].t, {"StructTag", "UnionTag"})
      [] e.op = "Struct" -> is_struct_tag(e.t) /\ TypesAre(a, RealFields(e.t))
      [] e.op = "Union" -> is_union_tag(e.t) /\ lookup_field_type(e.t, e.x) = a[1].t
      [] e.op \in {"Array", "Vector"} -> e.t.k = e.op /\ ElementsOf(a, e.t)
      [] e.op = "Index" -> is_integer(a[2].t) /\ is_array_like(a[1].t)
      [] e.op = "ByteExtract" ->
            HasSize(a[1].t) /\ HasSize(e.t) /\ sizeof_in_bits(a[1].t) = sizeof_in_bits(e.t)
      [] e.op = "VectorCmp" -> typecheck_vector_cmp_expr(a[1].t, a[2].t, e.t)
      [] e.op = "ShuffleVector" -> a[1].t = a[2].t /\ e.t.size = a[3].t.size /\ e.t.typ = base_type(a[1].t)
      [] e.op = "Dereference" -> is_pointer(a[1].t)
      [] e.op = "FunctionCall" -> typecheck_call(BuiltinParams[e.x], a)
      [] OTHER -> TRUE
===============================================================================
