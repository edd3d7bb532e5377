------------------------------ MODULE Intrinsic ------------------------------
(***************************************************************************)
(* The intrinsics of codegen_cprover_gotoc/codegen/intrinsic.rs.  A scalar *)
(* or vector intrinsic is the expression stored in its place; a memory     *)
(* intrinsic is code [stmts, e], statements that end in that expression.   *)
(***************************************************************************)
EXTENDS Rvalue

Code(stmts, e) == [stmts |-> stmts, e |-> e]
UnitValue == symbol_expression(<<>>, unit)

-------------------------------------------------------------------------------
(* Arithmetic intrinsics.                                                  *)

dividend_is_int_min(a) == IF is_signed(a.t) THEN eq(a, min_int_expr(a.t)) ELSE bool_constant(FALSE)
divisor_is_minus_one(b) == IF is_signed(b.t) THEN eq(b, neg(one(b.t))) ELSE bool_constant(FALSE)
div_does_not_overflow(a, b) == not(and(dividend_is_int_min(a), divisor_is_minus_one(b)))
codegen_op_with_div_overflow_check(op, a, b) ==
    statement_expression(<<codegen_assert_assume(div_does_not_overflow(a, b), "ArithmeticOverflow")>>, binop(a, op, b))
codegen_exact_div(a, b) ==
    statement_expression(
        <<codegen_assert_assume(eq(binop(a, "Mod", b), zero(a.t)), "ExactDiv"),
          codegen_assert_assume(neq(b, zero(b.t)), "ExactDiv"),
          codegen_assert_assume(div_does_not_overflow(a, b), "ExactDiv")>>, binop(a, "Div", b))
codegen_ctpop(a) == Asserted(unop("Popcount", a), is_integer(a.t))
codegen_count_intrinsic(name, a) == unop(name, a)

OverflowOp == [AddWithOverflow |-> "OverflowResultPlus", SubWithOverflow |-> "OverflowResultMinus",
               MulWithOverflow |-> "OverflowResultMult"]
PlainOp == [WrappingAdd |-> "Plus", WrappingSub |-> "Minus", WrappingMul |-> "Mult",
            RotateLeft |-> "Rol", RotateRight |-> "Ror"]
CountOp == [Ctlz |-> "Clz", CtlzNonZero |-> "ClzNonZero", Cttz |-> "Ctz", CttzNonZero |-> "CtzNonZero"]
ScalarIntrinsic(name, a, b, ret_ty) ==
    CASE name \in DOMAIN OverflowOp -> codegen_binop_with_overflow(OverflowOp[name], a, b, codegen_ty(ret_ty))
      [] name \in DOMAIN PlainOp -> binop(a, PlainOp[name], b)
      [] name = "SaturatingAdd" -> saturating_add(a, b)
      [] name = "SaturatingSub" -> saturating_sub(a, b)
      [] name = "ExactDiv" -> codegen_exact_div(a, b)
      [] name \in {"UncheckedDiv", "UncheckedRem"} ->
            codegen_op_with_div_overflow_check(IF name = "UncheckedDiv" THEN "Div" ELSE "Mod", a, b)
      [] name = "Ctpop" -> codegen_ctpop(a)
      [] name \in DOMAIN CountOp -> codegen_count_intrinsic(CountOp[name], a)
      [] name = "Bitreverse" -> unop("BitReverse", a)
      [] name = "Bswap" -> unop("Bswap", a)
      [] name \in {"BlackBox", "Likely", "Unlikely"} -> a
codegen_intrinsic(name, args, ret_ty) == ScalarIntrinsic(name, args[1], args[2], ret_ty)

-------------------------------------------------------------------------------
(* Vector intrinsics.                                                      *)

Lane(a, i) == index_array(a, int_constant(i - 1, ssize_t))
Lanes(a) == 1 .. a.t.size
AnyOf(conds) == FoldLeft(or, bool_constant(FALSE), conds)
NoneOf(conds) == codegen_assert_assume(not(AnyOf(conds)), "ArithmeticOverflow")
codegen_simd_op_with_overflow(op, overflowed, a, b) ==
    statement_expression(<<NoneOf(overflowed)>>, binop(a, op, b))
codegen_simd_div_with_overflow(op, a, b, t) ==
    IF is_integer(t) /\ is_signed(t)
    THEN codegen_simd_op_with_overflow(op,
            [i \in Lanes(a) |-> and(eq(Lane(a, i), min_int_expr(t)), eq(Lane(b, i), int_constant(-1, t)))], a, b)
    ELSE binop(a, op, b)
codegen_simd_cmp(op, a, b, ret_ty) == vector_cmp(a, op, b, codegen_ty(ret_ty))
ExcessiveLanes(distances, width) == [i \in Lanes(distances) |-> ge(Lane(distances, i), width)]
NegativeLanes(distances) == [i \in Lanes(distances) |-> is_negative(Lane(distances, i))]
ShiftLanes(op, values, distances, distance_type) ==
    statement_expression(
        <<NoneOf(ExcessiveLanes(distances, int_constant(sizeof_in_bits(base_type(values.t)), distance_type)))>>
            \o (IF is_signed(distance_type) THEN <<NoneOf(NegativeLanes(distances))>> ELSE <<>>),
        binop(values, CASE op = "SimdShl" -> "Shl" [] is_signed(distance_type) -> "Ashr" [] OTHER -> "Lshr", distances))
codegen_simd_shift_with_distance_check(op, values, distances) ==
    ShiftLanes(op, values, distances, base_type(distances.t))
codegen_intrinsic_simd_extract(vec, index, ret_ty) ==
    Asserted(index_array(vec, index), codegen_ty(ret_ty) = base_type(vec.t))
VectorTemp(vec) == Temp("vec", vec.t)
codegen_intrinsic_simd_insert(vec, index, newval) ==
    Asserted(statement_expression(
                <<decl("vec", vec), assign(index_array(VectorTemp(vec), index), cast_to(newval, base_type(vec.t)))>>,
                VectorTemp(vec)), newval.t = base_type(vec.t))
codegen_intrinsic_simd_shuffle(vec1, vec2, indexes, ret_ty) == shuffle_vector(vec1, vec2, indexes, codegen_ty(ret_ty))

SimdOverflow == [SimdAdd |-> <<"Plus", "OverflowPlus">>, SimdSub |-> <<"Minus", "OverflowMinus">>,
                 SimdMul |-> <<"Mult", "OverflowMult">>]
SimdBits == [SimdAnd |-> "Bitand", SimdOr |-> "Bitor", SimdXor |-> "Bitxor"]
SimdCmp == [SimdEq |-> "Equal", SimdNe |-> "Notequal", SimdLt |-> "Lt", SimdLe |-> "Le",
            SimdGt |-> "Gt", SimdGe |-> "Ge"]
codegen_simd(name, a, b, ret_ty) ==
    CASE name \in DOMAIN SimdOverflow ->
            codegen_simd_op_with_overflow(SimdOverflow[name][1],
                [i \in Lanes(a) |-> binop(Lane(a, i), SimdOverflow[name][2], Lane(b, i))], a, b)
      [] name \in {"SimdDiv", "SimdRem"} ->
            codegen_simd_div_with_overflow(IF name = "SimdDiv" THEN "Div" ELSE "Mod", a, b, base_type(a.t))
      [] name \in DOMAIN SimdBits -> binop(a, SimdBits[name], b)
      [] name \in {"SimdShl", "SimdShr"} -> codegen_simd_shift_with_distance_check(name, a, b)
      [] name \in DOMAIN SimdCmp -> codegen_simd_cmp(SimdCmp[name], a, b, ret_ty)

-------------------------------------------------------------------------------
(* Memory intrinsics.                                                      *)

codegen_atomic_load(ptr) == Code(<<>>, dereference(ptr))
AtomicOp == [AtomicAnd |-> "Bitand", AtomicNand |-> "Bitnand", AtomicOr |-> "Bitor", AtomicXor |-> "Bitxor",
             AtomicXadd |-> "Plus", AtomicXsub |-> "Minus"]
Apply(name, x, arg) ==
    CASE name \in {"AtomicMax", "AtomicUmax"} -> max(x, arg)
      [] name \in {"AtomicMin", "AtomicUmin"} -> min(x, arg)
      [] OTHER -> binop(x, AtomicOp[name], arg)
(* An operation on a pointer is one on its address.                        *)
op_expr(name, var1, arg) ==
    IF is_pointer(var1.t) THEN cast_to(Apply(name, cast_to(var1, size_t), arg), var1.t) ELSE Apply(name, var1, arg)
Previous(var1) == Temp("tmp", var1.t)
WithPrevious(var1, update) == Code(<<decl("tmp", var1), update>>, Previous(var1))
UpdateAtomic(name, var1, arg) == WithPrevious(var1, assign(var1, op_expr(name, var1, arg)))
codegen_atomic_binop(name, ptr, arg) == UpdateAtomic(name, dereference(ptr), arg)
StoreAtomic(var1, arg) == WithPrevious(var1, assign(var1, arg))
codegen_atomic_store(ptr, arg) == StoreAtomic(dereference(ptr), arg)
ExchangeAtomic(var1, old, new, ret) ==
    Code(<<decl("tmp", var1), if_then_else(eq(var1, old), <<assign(var1, new)>>)>>,
         struct_expr_from_values(ret, <<Previous(var1), c_bool_constant(TRUE)>>))
codegen_atomic_cxchg(ptr, old, new, ret_ty) == ExchangeAtomic(dereference(ptr), old, new, codegen_ty(ret_ty))

is_ptr_aligned(pointee, ptr) ==
    eq(binop(cast_to(ptr, size_t), "Mod", int_constant(AlignOf(pointee), size_t)), zero(size_t))
align_check(pointee, ptr) == codegen_assert_assume(is_ptr_aligned(pointee, ptr), "SafetyCheck")
InBytes(r) == [result |-> r.result, check |-> codegen_assert_assume(not(r.overflowed), "ArithmeticOverflow")]
count_in_bytesUnchecked(count, pointee) ==
    [InBytes(mul_overflow(count, int_constant(SizeOf(pointee), size_t))) EXCEPT
        !.check = codegen_assert_assume(bool_constant(TRUE), "ArithmeticOverflow")]
count_in_bytes(count, pointee) == InBytes(mul_overflow(count, int_constant(SizeOf(pointee), size_t)))

CopyBytes(builtin, src, dst, n, pointee) ==
    Code(<<align_check(pointee, src), align_check(pointee, dst), n.check,
           as_stmt(ternary(is_zero(n.result), dst, call(builtin, <<dst, src, n.result>>, void_pointer)))>>, UnitValue)
codegen_copy(is_non_overlapping, src, dst, count, pointee) ==
    CopyBytes(IF is_non_overlapping THEN "memcpy" ELSE "memmove", cast_to(src, void_pointer), cast_to(dst, void_pointer),
              count_in_bytes(count, pointee), pointee)
SetMemory(dst, val, count, n, pointee) ==
    Code(<<if_then_else(gt(count, int_constant(0, count.t)),
                        <<align_check(pointee, dst), n.check, as_stmt(call("memset", <<dst, val, n.result>>, void_pointer))>>)>>,
         UnitValue)
codegen_write_bytes(dst, val, count, pointee) ==
    SetMemory(cast_to(dst, void_pointer), cast_to(val, CInteger("Int")), count, count_in_bytes(count, pointee), pointee)
should_skip_pointer_checks(len, lhs, rhs) == and(and(is_zero(len), is_nonnull(lhs)), is_nonnull(rhs))
CompareAs(t, lhs, rhs, len) ==
    ternary(should_skip_pointer_checks(len, lhs, rhs), int_constant(0, t),
            cast_to(call("memcmp", <<lhs, rhs, len>>, CInteger("Int")), t))
codegen_compare_bytes(lhs, rhs, len, ret_ty) ==
    Code(<<decl("len", len), decl("lhs", cast_to(lhs, void_pointer)), decl("rhs", cast_to(rhs, void_pointer))>>,
         CompareAs(codegen_ty(ret_ty), Temp("lhs", void_pointer), Temp("rhs", void_pointer), Temp("len", len.t)))
BitsAt(p, bv_type) == dereference(cast_to(cast_to(p, void_pointer), to_pointer(bv_type)))
codegen_intrinsic_raw_eq(lhs, rhs, pointee) ==
    Code(<<>>, IF SizeOf(pointee) = 0 THEN int_constant(1, c_bool)
               ELSE cast_to(eq(BitsAt(lhs, unsigned_int(SizeOf(pointee) * ByteBits)),
                               BitsAt(rhs, unsigned_int(SizeOf(pointee) * ByteBits))), c_bool))
codegen_ptr_guaranteed_cmp(a, b, ret_ty) == ternary(eq(a, b), one(codegen_ty(ret_ty)), zero(codegen_ty(ret_ty)))
codegen_arith_offset(ptr, offset) == plus(ptr, offset)
codegen_volatile_load(ptr, pointee) == Code(<<align_check(pointee, ptr)>>, dereference(ptr))
codegen_volatile_store(ptr, arg, pointee) ==
    Code(<<align_check(pointee, ptr)>> \o (IF is_zst(pointee) THEN <<>> ELSE <<assign(dereference(ptr), arg)>>), UnitValue)
NextAfter(p) == plus(p, int_constant(1, CInteger("Int")))
non_overlapping(x, y) == or(le(NextAfter(x), y), le(NextAfter(y), x))
codegen_swap(x, y, pointee) ==
    IF is_zst(pointee) THEN Code(<<>>, UnitValue)
    ELSE Code(<<if_then_else(same_object(x, y), <<codegen_assert_assume(non_overlapping(x, y), "SafetyCheck")>>),
                decl("t", dereference(y)), assign(dereference(y), dereference(x)),
                assign(dereference(x), Temp("t", base_type(y.t)))>>, UnitValue)

(* The size and alignment of the value behind a wide pointer.  A struct    *)
(* that ends in an unsized field asks for those of the field.              *)
SizeAlign(size, align) == [size |-> size, align |-> align]
Rounded(size, align) ==
    SizeAlign(binop(plus(size, sub(align, one(size_t))), "Bitand", neg(align)), align)
WithTail(offset, sized_align, tail_size, tail_align) ==
    Rounded(plus(int_constant(offset, size_t), tail_size),
            ternary(ge(sized_align, tail_align), sized_align, tail_align))
WithTailOf(d, sized_align, tail) ==
    WithTail(Last(d.variants[1].fields).offset, sized_align, tail.size, IF d.packed THEN sized_align ELSE tail.align)
FromVtable(vtable) == SizeAlign(member(vtable, "size"), member(vtable, "align"))
SliceSize(unit_t, arg) ==
    SizeAlign(mul(int_constant(SizeOf(unit_t), size_t), member(arg, "len")), int_constant(AlignOf(unit_t), size_t))
RECURSIVE size_and_align_of_dst(_, _)
size_and_align_of_dst(ty, arg) ==
    CASE ty.k = "Dynamic" -> FromVtable(dereference(member(arg, "vtable")))
      [] ty.k \in {"Slice", "Str"} -> SliceSize(IF ty.k = "Slice" THEN ty.ty ELSE UintTy(ByteBits), arg)
      [] ty.k = "Adt" /\ is_unsized(ty) ->
            WithTailOf(Adts[ty.name], int_constant(Adts[ty.name].align, size_t),
                       size_and_align_of_dst(Last(Adts[ty.name].variants[1].fields).ty, arg))
      [] OTHER -> SizeAlign(int_constant(SizeOf(ty), size_t), int_constant(AlignOf(ty), size_t))
===============================================================================
