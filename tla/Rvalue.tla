-------------------------------- MODULE Rvalue --------------------------------
(***************************************************************************)
(* MIR rvalues (codegen_cprover_gotoc/codegen/rvalue.rs), the places they  *)
(* read (place.rs), the discriminant statements of statement.rs and the    *)
(* checks of assert.rs.  An operand is the goto expression its place or    *)
(* constant lowers to.                                                     *)
(***************************************************************************)
EXTENDS CodegenTy

Operand(ty, v) == symbol_expression(v, codegen_ty(ty))

(* assert.rs: a check, and the assumption that keeps a failed check from   *)
(* causing others after it.                                                *)
codegen_assert(cond, class) == assert(cond, class)
codegen_assert_assume(cond, class) == assert(cond, class)
codegen_assert_assume_false(class) == assert(bool_constant(FALSE), class)

-------------------------------------------------------------------------------
(* Comparisons.                                                            *)

Ordering == Adt("Ordering")
CmpOp == [Eq |-> "Equal", Ne |-> "Notequal", Lt |-> "Lt", Le |-> "Le", Gt |-> "Gt", Ge |-> "Ge"]
compare(op, l, r) == binop(l, CmpOp[op], r)
SignedByte == signed_int(ByteBits)
comparison_expr(op, l, r) ==
    IF op # "Cmp" THEN compare(op, l, r)
    ELSE transmute_to(sub(cast_to(gt(l, r), SignedByte), cast_to(lt(l, r), SignedByte)), codegen_ty(Ordering))
get_strict_operatorSame(op) == op
get_strict_operator(op) == CASE op = "Le" -> "Lt" [] op = "Ge" -> "Gt" [] OTHER -> op

(* (MIR has no three-way comparison of pointers.)                          *)
CompareMembers(op, l, r, f) == compare(op, member(l, f), member(r, f))
CompareFat(op, data_cmp, metadata_cmp, data_eq, strict) ==
    CASE op = "Eq" -> and(data_cmp, metadata_cmp)
      [] op = "Ne" -> or(data_cmp, metadata_cmp)
      [] OTHER -> or(strict, and(data_eq, metadata_cmp))
codegen_comparison_fat_ptr(op, ty, l, r) ==
    IF is_vtable_fat_pointer(ty)
    THEN statement_expression(<<codegen_assert_assume_false("SafetyCheck")>>, nondet(bool_ty))
    ELSE CompareFat(op, CompareMembers(op, l, r, "data"), CompareMembers(op, l, r, "len"),
                    CompareMembers("Eq", l, r, "data"), CompareMembers(get_strict_operator(op), l, r, "data"))

-------------------------------------------------------------------------------
(* Arithmetic.                                                             *)

shr(ty) == IF is_signed_mir(ty) THEN "Ashr" ELSE "Lshr"
codegen_unchecked_scalar_binop(op, ty, l, r) ==
    binop(l, CASE op = "BitAnd" -> "Bitand" [] op = "BitOr" -> "Bitor" [] op = "BitXor" -> "Bitxor"
               [] op = "Div" -> "Div" [] op = "Rem" -> "Mod"
               [] op = "ShlUnchecked" -> "Shl" [] op = "ShrUnchecked" -> shr(ty), r)
codegen_scalar_binop(op, ty, l, r) ==
    binop(l, CASE op = "Add" -> "Plus" [] op = "Sub" -> "Minus" [] op = "Mul" -> "Mult"
               [] op = "Shl" -> "Shl" [] op = "Shr" -> shr(ty), r)

Unchecked == [AddUnchecked |-> "OverflowResultPlus", SubUnchecked |-> "OverflowResultMinus",
              MulUnchecked |-> "OverflowResultMult"]
overflow_res(t) == Temp("overflow", arithmetic_overflow_result_type(t))
codegen_binop_with_overflow_check(op, l, r) ==
    statement_expression(
        <<decl("overflow", binop(l, Unchecked[op], r)),
          codegen_assert(not(cast_to(member(overflow_res(l.t), "overflowed"), c_bool)), "ArithmeticOverflow")>>,
        member(overflow_res(l.t), "result"))
codegen_binop_with_overflow(bin_op, l, r, expected_typ) ==
    statement_expression(<<decl("overflow", binop(l, bin_op, r))>>,
        struct_expr_from_values(expected_typ,
            <<member(overflow_res(l.t), "result"), cast_to(member(overflow_res(l.t), "overflowed"), c_bool)>>))

OverflowResult == [Add |-> "OverflowResultPlus", Sub |-> "OverflowResultMinus", Mul |-> "OverflowResultMult"]
shift_max(l) == int_constant(native_width(l.t) - 1, l.t)
codegen_rvalue_checked_binary_op(op, ty, l, r, res_ty) ==
    IF op \in DOMAIN OverflowResult THEN codegen_binop_with_overflow(OverflowResult[op], l, r, codegen_ty(res_ty))
    ELSE struct_expr_from_values(codegen_ty(res_ty),
            <<binop(l, IF op = "Shl" THEN "Shl" ELSE shr(ty), r), cast_to(gt(cast_to(r, l.t), shift_max(l)), c_bool)>>)

div_overflow_expr(dividend, divisor) ==
    and(eq(dividend, min_int_expr(dividend.t)), eq(divisor, int_constant(-1, divisor.t)))
check_div_overflow(ty, dividend, divisor) ==
    (IF is_signed_mir(ty)
     THEN <<codegen_assert_assume(not(div_overflow_expr(dividend, divisor)), "ArithmeticOverflow")>> ELSE <<>>)
    \o <<codegen_assert_assume(not(is_zero(divisor)), "ArithmeticOverflow")>>
check_unchecked_shift_distanceUpper(value, distance) ==
    <<codegen_assert_assume(lt(distance, int_constant(sizeof_in_bits(value.t), distance.t)), "ArithmeticOverflow")>>
check_unchecked_shift_distance(value, distance) ==
    (IF is_signed(distance.t)
     THEN <<codegen_assert_assume(is_non_negative(distance), "ArithmeticOverflow")>> ELSE <<>>)
    \o <<codegen_assert_assume(lt(distance, int_constant(sizeof_in_bits(value.t), distance.t)), "ArithmeticOverflow")>>

Checks(op, ty, l, r) ==
    CASE op \in {"ShlUnchecked", "ShrUnchecked"} -> check_unchecked_shift_distance(l, r)
      [] op \in {"Div", "Rem"} /\ is_integral(ty) -> check_div_overflow(ty, l, r)
      [] OTHER -> <<>>
codegen_rvalue_binary_op(op, ty, l, r) ==
    CASE op \in {"Add", "Sub", "Mul", "Shl", "Shr"} -> codegen_scalar_binop(op, ty, l, r)
      [] op \in {"AddUnchecked", "SubUnchecked", "MulUnchecked"} ->
            codegen_binop_with_overflow_check(op, l, r)
      [] op \in {"ShlUnchecked", "ShrUnchecked", "Div", "Rem", "BitXor", "BitAnd", "BitOr"} ->
            statement_expression(Checks(op, ty, l, r), codegen_unchecked_scalar_binop(op, ty, l, r))
      [] op \in {"Eq", "Lt", "Le", "Ne", "Ge", "Gt", "Cmp"} ->
            IF is_fat_pointer(ty) THEN codegen_comparison_fat_ptr(op, ty, l, r)
            ELSE comparison_expr(op, l, r)
      [] op = "Offset" -> plus(l, r)

codegen_unary(op, ty, e) ==
    CASE op = "Not" -> IF ty.k = "Bool" THEN not(e) ELSE bitnot(e)
      [] op = "Neg" -> neg(e)
      [] op = "PtrMetadata" -> member(e, "len")

-------------------------------------------------------------------------------
(* Casts.                                                                  *)

slice_fat_ptr(t, data, len) == struct_expr_from_values(t, <<data, len>>)
CastFat(e, t, meta) ==
    struct_expr_from_values(t, <<cast_to(member(e, "data"), lookup_field_type(t, "data")),
                                 cast_to(member(e, meta), lookup_field_type(t, meta))>>)
CastFatTo(e, t) == CastFat(e, t, IF HasField(t, "vtable") THEN "vtable" ELSE "len")
codegen_fat_ptr_to_fat_ptr_cast(e, dst_ty) == CastFatTo(e, codegen_ty(dst_ty))
codegen_fat_ptr_to_thin_ptr_cast(e, dst_ty) == cast_to(member(e, "data"), codegen_ty(dst_ty))

(* An array pointer becomes a slice pointer with the length of its type.   *)
UnsizeTo(e, src_ty, src, dst_ty, dst) ==
    Asserted(slice_fat_ptr(codegen_ty(dst_ty),
                           cast_to(e, to_pointer(codegen_ty(IF src_ty.ty.k = "Array" THEN src.ty ELSE dst_ty.ty))),
                           int_constant(src.len, size_t)),
             src.k = "Array" /\ dst.k = "Slice" /\ src.ty = dst.ty)
codegen_cast_to_fat_pointer(e, src_ty, dst_ty) ==
    UnsizeTo(e, src_ty, UnsizedTail(src_ty.ty), dst_ty, UnsizedTail(dst_ty.ty))

codegen_transmute(e, src_ty, dst_ty) ==
    IF SizeOf(src_ty) # SizeOf(dst_ty)
    THEN statement_expression(<<codegen_assert_assume_false("SafetyCheck")>>, nondet(codegen_ty(dst_ty)))
    ELSE transmute_to(e, codegen_ty(dst_ty))

-------------------------------------------------------------------------------
(* Places inside the local that is being built: the members a projection   *)
(* goes through, and where in the local they lie, in bits.                 *)

VariantPath(d, v) ==
    CASE d.kind = "coroutine" -> <<v.name>>
      [] d.tagging.k = "Direct" -> <<"cases", v.name>>
      [] d.tagging.k = "Niche" -> <<v.name>>
      [] OTHER -> <<>>
ProjectionIn(d, v, field) == Append(VariantPath(d, v), v.fields[field].name)
projection(ty, variant, field) == ProjectionIn(Adts[ty.name], Adts[ty.name].variants[variant], field)
OffsetIn(cs, f) == FoldSeq(+, 0, [j \in 1 .. IndexIn(cs, f) - 1 |-> sizeof_in_bits(cs[j].typ)])
FieldOffset(t, f) == IF is_union_tag(t) THEN 0 ELSE OffsetIn(lookup_components(t), f)
Part(t, off) == [t |-> t, off |-> off, ok |-> TRUE]
Local(ty) == Part(codegen_ty(ty), 0)
codegen_field(p, f) ==
    IF p.ok /\ HasField(p.t, f) THEN Part(lookup_field_type(p.t, f), p.off + FieldOffset(p.t, f))
    ELSE [p EXCEPT !.ok = FALSE]
codegen_place(ty, path) == FoldLeft(codegen_field, Local(ty), path)

-------------------------------------------------------------------------------
(* Discriminants.                                                          *)

codegen_discriminant_field(ty) ==
    codegen_place(ty, IF Adts[ty.name].kind = "coroutine" THEN <<"direct_fields", "case">> ELSE <<"case">>)
codegen_get_niche(tagging) == Part(codegen_ty(tagging.tag), tagging.offset * ByteBits)
AsUnsigned(e) == IF is_pointer(e.t) THEN e ELSE cast_to(e, to_unsigned(e.t))
SubConstant(e, constant) == IF constant = 0 THEN e ELSE sub(e, int_constant(constant, e.t))
wrapping_sub(e, constant) == SubConstant(AsUnsigned(e), constant)

(* A niche holds one of the variants lo..hi from the value start on.       *)
NicheDiscriminant(g, relative_discr, relative_max, result_type) ==
    ternary(IF relative_max = 0 THEN is_zero(relative_discr)
            ELSE le(relative_discr, int_constant(relative_max, relative_discr.t)),
            plus(IF relative_max = 0 THEN zero(result_type) ELSE cast_to(relative_discr, result_type),
                 int_constant(g.lo, result_type)),
            int_constant(g.untagged - 1, result_type))
DiscriminantOf(d, ty, g, t) ==
    CASE g.k = "Single" -> int_constant(d.variants[1].discr, t)
      [] g.k = "Direct" -> cast_to(LocalPart(codegen_discriminant_field(ty)), t)
      [] g.k = "Niche" ->
            NicheDiscriminant(g, wrapping_sub(LocalPart(codegen_get_niche(g)), g.start), g.hi - g.lo, t)
codegen_get_discriminant(ty, res_ty) ==
    DiscriminantOf(Adts[ty.name], ty, Adts[ty.name].tagging, codegen_ty(res_ty))

(* SetDiscriminant (statement.rs): variant i of the sequence is rustc's    *)
(* variant index i - 1.                                                    *)
NicheValue(n, t) == IF n = 0 /\ is_pointer(t) THEN zero(t) ELSE int_constant(n, t)
SetTag(d, ty, g, i, t) ==
    CASE g.k = "Direct" ->
            <<assign(LocalPart(codegen_discriminant_field(ty)), cast_to(int_constant(d.variants[i].discr, t), t))>>
      [] g.k = "Niche" /\ g.untagged # i ->
            <<assign(LocalPart(codegen_get_niche(g)), NicheValue((i - 1) - g.lo + g.start, t))>>
      [] OTHER -> <<>>
codegen_set_discriminant(ty, i) ==
    SetTag(Adts[ty.name], ty, Adts[ty.name].tagging, i, codegen_ty(Adts[ty.name].tagging.tag))

(* The operands in the order of the fields in memory; fill is the padding  *)
(* CBMC chooses.                                                           *)
InOrder(order, operands) == [j \in DOMAIN order |-> operands[order[j]]]
MemoryOrder(v, operands) == InOrder(index_by_increasing_offset(v.fields), operands)
Initialize(p, values, fill) == <<assign(LocalPart(p), PaddedStruct(p.t, values, fill))>>
(* An enum aggregate: the case is assigned first, its padding included,    *)
(* the discriminant after it.                                              *)
AssignCase(fill, ty, d, v, operands) ==
    IF operands = <<>> THEN <<>>
    ELSE Initialize(codegen_place(ty, VariantPath(d, v)), MemoryOrder(v, operands), fill)
codegen_rvalue_enum_aggregateTagFirst(fill, ty, i, operands) ==
    codegen_set_discriminant(ty, i) \o AssignCase(fill, ty, Adts[ty.name], Adts[ty.name].variants[i], operands)
(* A variant that rustc left out, because it cannot be built, is nondet.   *)
LeftOut(d, i) == d.tagging.k = "Single" /\ i # 1
codegen_rvalue_enum_aggregate(fill, ty, i, operands) ==
    IF operands # <<>> /\ LeftOut(Adts[ty.name], i) THEN <<assign(LocalPart(Local(ty)), nondet(codegen_ty(ty)))>>
    ELSE AssignCase(fill, ty, Adts[ty.name], Adts[ty.name].variants[i], operands) \o codegen_set_discriminant(ty, i)

(* A new coroutine holds what it captures and the first state.             *)
CoroutineIn(t, fields, values) ==
    union_expr(t, "direct_fields",
               struct_expr_from_values(lookup_field_type(t, "direct_fields"),
                                       InOrder(index_by_increasing_offset(fields), values)))
codegen_rvalue_coroutine(ty, operands) ==
    CoroutineIn(codegen_ty(ty), DirectFields(Adts[ty.name]).fields,
                Append(operands, int_constant(0, codegen_ty(Adts[ty.name].tagging.tag))))

(* What a rvalue assigns to the local it is built in.                      *)
AggregateIn(fill, ty, i, operands, d, here) ==
    CASE d.kind = "union" -> <<assign(LocalPart(here), union_expr(here.t, d.variants[1].fields[i].name, operands[1]))>>
      [] d.kind = "enum" -> codegen_rvalue_enum_aggregate(fill, ty, i, operands)
      [] d.kind = "coroutine" -> <<assign(LocalPart(here), codegen_rvalue_coroutine(ty, operands))>>
      [] OTHER -> Initialize(here, MemoryOrder(d.variants[1], operands), fill)
codegen_rvalue_aggregate(fill, ty, i, operands) == AggregateIn(fill, ty, i, operands, Adts[ty.name], Local(ty))

(* The local is the enum when its discriminant is cast.                    *)
codegen_misc_cast(e, src_ty, dst_ty) ==
    CASE is_fat_pointer(src_ty) /\ is_fat_pointer(dst_ty) -> codegen_fat_ptr_to_fat_ptr_cast(e, dst_ty)
      [] is_fat_pointer(src_ty) /\ ~is_fat_pointer(dst_ty) -> codegen_fat_ptr_to_thin_ptr_cast(e, dst_ty)
      [] src_ty.k = "Adt" -> codegen_get_discriminant(src_ty, dst_ty)
      [] OTHER -> cast_to(e, codegen_ty(dst_ty))

(* The statement that stores a rvalue: a Boolean goes back to C's bool.    *)
AsStored(ty, e) == IF ty.k = "Bool" THEN cast_to(e, c_bool) ELSE e
TypedAs(e, t) == Asserted(e, e.t = t)
codegen_expr_to_place(ty, e) == TypedAs(AsStored(ty, e), codegen_ty(ty))
===============================================================================
