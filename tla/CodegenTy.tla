------------------------------ MODULE CodegenTy ------------------------------
(***************************************************************************)
(* From MIR types to goto types (codegen_cprover_gotoc/codegen/typ.rs) and *)
(* from MIR places to goto places (codegen/place.rs).  A MIR type is a     *)
(* record whose field k names its kind; an algebraic type (struct, tuple,  *)
(* closure, union, enum or coroutine) is [k |-> "Adt", name |-> n] with    *)
(* its declaration and the layout rustc chose for it in Adts[n]:           *)
(*   kind      "struct", "tuple", "union", "enum" or "coroutine",          *)
(*   size, align      in bytes,                                            *)
(*   variants  a sequence of [name, discr, size, align, fields], a field   *)
(*             being [name, ty, offset], the offset from the type's start, *)
(*   tagging   [k |-> "Empty" | "Single"] (the first variant, the others   *)
(*             being uninhabited) or [k |-> "Direct" | "Niche", tag,       *)
(*             offset, untagged, lo, hi, start],                           *)
(*   direct    the fields of the values that a coroutine captures,         *)
(*   packed    whether the declaration says repr(packed).                  *)
(* The layout is rustc's and external; LegalLayout says what it promises.  *)
(***************************************************************************)
EXTENDS GotoExpr

CONSTANT Adts

IntTy(w) == [k |-> "Int", width |-> w]
UintTy(w) == [k |-> "Uint", width |-> w]
Isize == [k |-> "Isize"]
Usize == [k |-> "Usize"]
Bool == [k |-> "Bool"]
Char == [k |-> "Char"]
Str == [k |-> "Str"]
Never == [k |-> "Never"]
Unit == [k |-> "Unit"]
Adt(n) == [k |-> "Adt", name |-> n]
RawPtr(t) == [k |-> "RawPtr", ty |-> t]
Slice(t) == [k |-> "Slice", ty |-> t]
ArrayTy(t, n) == [k |-> "Array", ty |-> t, len |-> n]
Simd(t, n) == [k |-> "Simd", ty |-> t, len |-> n]
Dynamic(tr) == [k |-> "Dynamic", trait |-> tr]

is_signed_mir(ty) == ty.k \in {"Int", "Isize"}
is_integral(ty) == ty.k \in {"Int", "Uint", "Isize", "Usize"}

(* Pointers: the metadata of a pointee decides how wide a pointer to it is.*)
UnsizedTail(ty) ==
    IF ty.k # "Adt" \/ Adts[ty.name].tagging.k # "Single" \/ Adts[ty.name].variants[1].fields = <<>>
    THEN ty ELSE Last(Adts[ty.name].variants[1].fields).ty
use_slice_fat_pointer(ty) == UnsizedTail(ty).k \in {"Slice", "Str"}
use_vtable_fat_pointer(ty) == UnsizedTail(ty).k = "Dynamic"
use_thin_pointer(ty) == ~use_slice_fat_pointer(ty) /\ ~use_vtable_fat_pointer(ty)
is_fat_pointer(ty) == ty.k = "RawPtr" /\ ~use_thin_pointer(ty.ty)
is_vtable_fat_pointer(ty) == ty.k = "RawPtr" /\ use_vtable_fat_pointer(ty.ty)

codegen_iint(w) == signed_int(w)
codegen_uint(w) == unsigned_int(w)
unit == struct_tag(<<"Unit">>)

is_union_layout(d) ==
    \/ d.kind \in {"union", "coroutine"}
    \/ d.tagging.k = "Niche" /\ Cardinality({i \in DOMAIN d.variants : d.variants[i].size > 0}) > 1

RECURSIVE codegen_ty(_)
codegen_ty(ty) ==
    CASE ty.k = "Int" -> codegen_iint(ty.width)
      [] ty.k = "Uint" -> codegen_uint(ty.width)
      [] ty.k = "Isize" -> ssize_t
      [] ty.k = "Usize" -> size_t
      [] ty.k = "Bool" -> c_bool
      [] ty.k = "Char" -> signed_int(MachineModel.int_width)
      [] ty.k = "Adt" -> IF is_union_layout(Adts[ty.name]) THEN union_tag(<<"adt", ty.name>>)
                         ELSE struct_tag(<<"adt", ty.name>>)
      [] ty.k = "Simd" -> vector_ty(codegen_ty(ty.ty), ty.len)
      [] ty.k = "Array" -> array_of(codegen_ty(ty.ty), ty.len)
      [] ty.k = "Slice" -> [k |-> "FlexibleArray", typ |-> codegen_ty(ty.ty)]
      [] ty.k = "Str" -> [k |-> "FlexibleArray", typ |-> unsigned_int(ByteBits)]
      [] ty.k = "Dynamic" -> [k |-> "TypeDef", typ |-> unit]
      [] ty.k = "Never" -> struct_tag(<<"Never">>)
      [] ty.k = "Unit" -> unit
      [] ty.k = "RawPtr" -> IF use_thin_pointer(ty.ty) THEN to_pointer(codegen_ty(ty.ty))
                            ELSE struct_tag(<<"fatptr", ty.ty>>)

(* The two words of a fat pointer.                                         *)
FatData(ty) == CASE ty.k = "Slice" -> codegen_ty(ty.ty) [] ty.k = "Str" -> unsigned_int(ByteBits)
                 [] OTHER -> codegen_ty(ty)
codegen_fat_ptr(ty) ==
    IF use_slice_fat_pointer(ty)
    THEN <<Field("data", to_pointer(FatData(ty))), Field("len", size_t)>>
    ELSE <<Field("data", to_pointer(codegen_ty(ty))),
           Field("vtable", to_pointer(struct_tag(<<"vtable", UnsizedTail(ty)>>)))>>
common_vtable_fields(drop_in_place) ==
    <<Field("drop", drop_in_place), Field("size", size_t), Field("align", size_t)>>
trait_vtable_drop_type(ty) == to_pointer(code(<<to_pointer(codegen_ty(ty))>>, unit))

is_rust_slice_fat_ptr(t) ==
    t.k = "StructTag" /\ LET cs == lookup_components(t) IN
    /\ Len(cs) = 2
    /\ \E i \in 1 .. 2 : cs[i].name = "data" /\ is_pointer(cs[i].typ)
    /\ \E i \in 1 .. 2 : cs[i].name = "len" /\ is_integer(cs[i].typ)
is_rust_trait_fat_ptr(t) ==
    t.k = "StructTag" /\ LET cs == lookup_components(t) IN
    /\ Len(cs) = 2
    /\ \E i \in 1 .. 2 : cs[i].name = "data" /\ is_pointer(cs[i].typ)
    /\ \E i \in 1 .. 2 : cs[i].name = "vtable" /\ is_pointer(cs[i].typ)
is_rust_fat_ptr(t) == is_rust_slice_fat_ptr(t) \/ is_rust_trait_fat_ptr(t)

-------------------------------------------------------------------------------
(* rustc's layout.                                                         *)

RECURSIVE SizeOf(_), AlignOf(_)
Bytes(bits) == bits \div ByteBits
PtrBytes == Bytes(MachineModel.pointer_width)
SizeOf(ty) ==
    CASE ty.k \in {"Int", "Uint"} -> Bytes(ty.width)
      [] ty.k \in {"Isize", "Usize"} -> PtrBytes
      [] ty.k = "Bool" -> 1
      [] ty.k = "Char" -> Bytes(MachineModel.int_width)
      [] ty.k = "Adt" -> Adts[ty.name].size
      [] ty.k \in {"Array", "Simd"} -> SizeOf(ty.ty) * ty.len
      [] ty.k = "RawPtr" -> IF use_thin_pointer(ty.ty) THEN PtrBytes ELSE 2 * PtrBytes
      [] OTHER -> 0
AlignOf(ty) ==
    CASE ty.k \in {"Array", "Slice"} -> AlignOf(ty.ty)
      [] ty.k = "Adt" -> Adts[ty.name].align
      [] ty.k = "RawPtr" -> PtrBytes
      [] ty.k \in {"Str", "Dynamic", "Unit", "Never"} -> 1
      [] OTHER -> SizeOf(ty)
is_zst(ty) == SizeOf(ty) = 0
is_unsized(ty) == ~use_thin_pointer(ty)
AlignUp(n, a) == ((n + a - 1) \div a) * a

FieldEnd(f) == f.offset + SizeOf(f.ty)
Disjoint(f, g) == FieldEnd(f) <= g.offset \/ FieldEnd(g) <= f.offset
VariantEnd(v, d) ==
    LET tag == IF d.tagging.k = "Direct" THEN d.tagging.offset + SizeOf(d.tagging.tag) ELSE 0
        ends == {tag} \cup {FieldEnd(v.fields[i]) : i \in DOMAIN v.fields}
                      \cup {FieldEnd(d.direct[i]) : i \in DOMAIN d.direct}
    IN CHOOSE e \in ends : \A x \in ends : x <= e
LegalVariant(v, d) ==
    /\ \A i \in DOMAIN v.fields : d.packed \/ v.fields[i].offset % AlignOf(v.fields[i].ty) = 0
    /\ \A i \in DOMAIN v.fields, j \in DOMAIN d.direct : Disjoint(v.fields[i], d.direct[j])
    /\ \A i, j \in DOMAIN v.fields :
         i # j /\ d.kind # "union" => Disjoint(v.fields[i], v.fields[j])
    /\ v.size <= d.size /\ v.align <= d.align
    /\ v.size % v.align = 0
    /\ VariantEnd(v, d) <= v.size /\ v.size - VariantEnd(v, d) < v.align
LegalLayout(d) ==
    /\ d.size % d.align = 0
    /\ \A i \in DOMAIN d.variants : LegalVariant(d.variants[i], d)
    /\ d.tagging.k \in {"Direct", "Niche"} =>
         \A i \in DOMAIN d.variants : \A j \in DOMAIN d.variants[i].fields :
           (d.tagging.k = "Niche" => i # d.tagging.untagged) =>
             Disjoint(d.variants[i].fields[j], [ty |-> d.tagging.tag, offset |-> d.tagging.offset])
ASSUME LayoutAssumption == \A n \in DOMAIN Adts : LegalLayout(Adts[n])

-------------------------------------------------------------------------------
(* Struct fields in memory order with the padding between them spelled out *)

PadName == <<"$pad0", "$pad1", "$pad2", "$pad3", "$pad4", "$pad5", "$pad6">>
(* (Padding below zero is what the assertion of the code refuses.)         *)
codegen_struct_padding(current_offset, next_offset, idx) ==
    IF current_offset # next_offset
    THEN <<Padding(PadName[idx + 1], (next_offset - current_offset) * ByteBits)>> ELSE <<>>
codegen_alignment_paddingNone(size, align, idx) == <<>>
codegen_alignment_padding(size, align, idx) ==
    LET overhang == size % align IN
    IF overhang # 0 THEN codegen_struct_padding(size, size + align - overhang, idx) ELSE <<>>
Before(f, g) == f.offset < g.offset \/ (f.offset = g.offset /\ FieldEnd(f) < FieldEnd(g))
index_by_increasing_offset(fields) ==
    SortSeq([i \in DOMAIN fields |-> i], LAMBDA i, j : Before(fields[i], fields[j]))
codegen_struct_fields(fields, align, initial_offset) ==
    LET add(acc, i) ==
            LET f == fields[i] IN
            [done |-> acc.done \o codegen_struct_padding(acc.offset, f.offset, Len(acc.done))
                               \o <<Field(f.name, codegen_ty(f.ty))>>,
             offset |-> FieldEnd(f)]
        all == FoldLeft(add, [done |-> <<>>, offset |-> initial_offset],
                        index_by_increasing_offset(fields))
    IN all.done \o codegen_alignment_padding(all.offset, align, Len(all.done))
codegen_variant_struct_fields(v, initial_offset) == codegen_struct_fields(v.fields, v.align, initial_offset)

codegen_union(d, n) ==
    LET padded(f) == d.size - SizeOf(f.ty) IN
    [i \in DOMAIN d.variants[1].fields |->
        LET f == d.variants[1].fields[i] IN
        UnionField(f.name, codegen_ty(f.ty), (SizeOf(f.ty) + padded(f)) * ByteBits)]

(* Enums: a tag followed by the union of the variants, or, for a niche,    *)
(* the variants laid over each other.                                      *)
variant_min_offset(variants) ==
    LET first == {variants[i].fields[index_by_increasing_offset(variants[i].fields)[1]].offset :
                    i \in {j \in DOMAIN variants : variants[j].fields # <<>>}}
    IN IF first = {} THEN -1 ELSE CHOOSE o \in first : \A p \in first : o <= p
EnumInitialOffset(d) ==
    IF variant_min_offset(d.variants) = -1 THEN SizeOf(d.tagging.tag) ELSE variant_min_offset(d.variants)
codegen_enum_cases(d, n) ==
    LET cases == SelectSeq([i \in DOMAIN d.variants |-> i], LAMBDA i : d.variants[i].fields # <<>>)
    IN [j \in DOMAIN cases |-> Field(d.variants[cases[j]].name, struct_tag(<<"case", n, cases[j]>>))]
codegen_enum_direct(d, n) ==
    LET discr_offset == SizeOf(d.tagging.tag)
        pad == codegen_struct_padding(discr_offset, EnumInitialOffset(d), 0)
        fields == <<Field("case", codegen_ty(d.tagging.tag))>> \o pad
                    \o <<Field("cases", union_tag(<<"cases", n>>))>>
        sizes == {d.variants[i].size : i \in DOMAIN d.variants} \cup {discr_offset}
        max_variant_size == CHOOSE s \in sizes : \A o \in sizes : o <= s
    IN fields \o codegen_alignment_padding(max_variant_size, d.align, Len(fields))

(* A coroutine: a union of the struct of the direct fields (the tag among  *)
(* them) and one struct per suspension state.  Padding is numbered by the  *)
(* field it precedes.                                                      *)
codegen_coroutine_variant_struct(v) ==
    LET add(acc, i) ==
            LET f == v.fields[i] IN
            [done |-> acc.done \o codegen_struct_padding(acc.offset, f.offset, i - 1)
                               \o <<Field(f.name, codegen_ty(f.ty))>>,
             offset |-> FieldEnd(f)]
        all == FoldLeft(add, [done |-> <<>>, offset |-> 0], index_by_increasing_offset(v.fields))
    IN all.done \o codegen_alignment_padding(all.offset, v.align, Len(all.done))
codegen_ty_coroutine(d, n) ==
    <<Field("direct_fields", struct_tag(<<"direct", n>>))>>
        \o [i \in DOMAIN d.variants |-> Field(d.variants[i].name, struct_tag(<<"case", n, i>>))]
DirectFields(d) ==
    [fields |-> Append(d.direct, [name |-> "case", ty |-> d.tagging.tag, offset |-> d.tagging.offset]),
     align |-> d.align]

(* What the symbol table declares under a tag.                             *)
components_of(tag) ==
    LET d == Adts[tag[2]] IN
    CASE tag[1] \in {"Unit", "Never"} -> <<>>
      [] tag[1] = "overflow_result" -> <<Field("result", tag[2]), Field("overflowed", bool_ty)>>
      [] tag[1] = "fatptr" -> codegen_fat_ptr(tag[2])
      [] tag[1] = "vtable" -> common_vtable_fields(trait_vtable_drop_type(tag[2]))
      [] tag[1] = "cases" -> codegen_enum_cases(d, tag[2])
      [] tag[1] = "direct" -> codegen_coroutine_variant_struct(DirectFields(d))
      [] tag[1] = "case" /\ d.kind = "coroutine" -> codegen_coroutine_variant_struct(d.variants[tag[3]])
      [] tag[1] = "case" ->
            codegen_variant_struct_fields(d.variants[tag[3]],
                IF d.tagging.k = "Direct" THEN EnumInitialOffset(d) ELSE 0)
      [] tag[1] = "adt" ->
            CASE d.kind = "union" -> codegen_union(d, tag[2])
              [] d.kind = "coroutine" -> codegen_ty_coroutine(d, tag[2])
              [] d.tagging.k = "Empty" -> <<>>
              [] d.tagging.k = "Single" -> codegen_variant_struct_fields(d.variants[1], 0)
              [] d.tagging.k = "Direct" -> codegen_enum_direct(d, tag[2])
              [] d.tagging.k = "Niche" -> codegen_enum_cases(d, tag[2])
===============================================================================
