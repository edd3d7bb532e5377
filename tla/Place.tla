-------------------------------- MODULE Place --------------------------------
(***************************************************************************)
(* MIR places as goto expressions (codegen_cprover_gotoc/codegen/place.rs).*)
(* A ProjectedPlace is a record:                                           *)
(*   goto   the goto expression: its type t, and at, the pointer to the    *)
(*          object it denotes, or, when ptr holds, its own pointer value;  *)
(*          zst says that it is a symbol of size zero or a member of one,  *)
(*          and it has an address unless it is a struct expression,        *)
(*   mir    [k |-> "Type", ty], [k |-> "Variant", ty, i],                  *)
(*   fat    the fat pointer that was followed to get here, or NoFat, and   *)
(*   fat_ty its MIR type,                                                  *)
(*   ok     no assertion of the code failed,                               *)
(*   unimplemented   the code gave up (a failing check is generated).      *)
(***************************************************************************)
EXTENDS Intrinsic, GotoMachine

NoFat == [k |-> "no fat pointer"]
IsType(ty) == [k |-> "Type", ty |-> ty]
IsVariant(ty, i) == [k |-> "Variant", ty |-> ty, i |-> i]
Lv(t, at, zst) == [t |-> t, at |-> at, ptr |-> FALSE, zst |-> zst]
Ptr(t, at) == [t |-> t, at |-> at, ptr |-> TRUE, zst |-> FALSE]

(* A slice, str or trait object stands for a pointer to its first byte.    *)
StandsFor(t, ty, from_mir) ==
    \/ t = from_mir
    \/ ty.k \in {"Slice", "Str"} /\ is_pointer(t) /\ base_type(t) = base_type(from_mir)
    \/ ty.k = "Dynamic" /\ is_pointer(t) /\ base_type(t) = from_mir
check_expr_typ_mismatch(e, mir) == mir.k = "Type" /\ ~StandsFor(e.t, mir.ty, codegen_ty(mir.ty))
check_fat_ptr_typ(fat, fat_ty) ==
    fat # NoFat => is_rust_fat_ptr(fat.t) /\ fat.t = codegen_ty(fat_ty)
try_new(e, mir, fat, fat_ty, ok) ==
    [goto |-> e, mir |-> mir, fat |-> fat, fat_ty |-> fat_ty,
     ok |-> ok /\ check_fat_ptr_typ(fat, fat_ty), unimplemented |-> check_expr_typ_mismatch(e, mir)]

(* A local variable: o is the object that holds it.                        *)
LocalOf(ty, t, o) == try_new(Lv(t, [obj |-> o, off |-> 0], sizeof_in_bits(t) = 0), IsType(ty), NoFat, ty, TRUE)
codegen_local(ty, o) == LocalOf(ty, codegen_ty(ty), o)

Moved(p, bits) == [p EXCEPT !.off = @ + bits \div ByteBits]
LvMember(e, f) == Lv(lookup_field_type(e.t, f), Moved(e.at, FieldOffset(e.t, f)), e.zst)
HasMembers(e, path) ==
    /\ HasField(e.t, path[1])
    /\ Len(path) = 2 => HasField(lookup_field_type(e.t, path[1]), path[2])
Members(e, path) == FoldLeft(LvMember, e, path)
LvIndex(e, i) == Lv(base_type(e.t), Moved(e.at, i * sizeof_in_bits(base_type(e.t))), FALSE)

(* Deref: value is what the pointer place holds; a fat pointer is followed *)
(* to its data and kept.  (rustc has replaced the dereferences of boxes,   *)
(* and opaque casts, before it hands out the MIR of an instance.)          *)
Followed(inner, t, data) ==
    IF inner.k \in {"Slice", "Str", "Dynamic"} THEN Ptr(lookup_field_type(t, "data"), data)
    ELSE Lv(codegen_ty(inner), data, FALSE)
ThinDeref(p, inner, value) ==
    try_new(Followed(inner, value.t, value.x), IsType(inner), p.fat, p.fat_ty, p.fat # NoFat => is_rust_fat_ptr(p.fat.t))
FatDeref(p, inner, value) ==
    try_new(Followed(inner, value.t, value.x[1]), IsType(inner), value, p.mir.ty, is_rust_fat_ptr(value.t))
ProjectDeref(p, value) ==
    IF use_thin_pointer(p.mir.ty.ty) THEN ThinDeref(p, p.mir.ty.ty, value) ELSE FatDeref(p, p.mir.ty.ty, value)

FieldPathIn(d, mir, j) ==
    IF mir.k = "Type" /\ d.kind = "coroutine" THEN <<"direct_fields", DirectFields(d).fields[j].name>>
    ELSE <<d.variants[IF mir.k = "Variant" THEN mir.i ELSE 1].fields[j].name>>
ProjectMembers(p, path, mir) ==
    IF path = <<>> \/ HasMembers(p.goto, path) THEN try_new(Members(p.goto, path), mir, p.fat, p.fat_ty, p.ok)
    ELSE [p EXCEPT !.ok = FALSE]
(* A vector is declared as lanes or as one array of them: the type of the  *)
(* field tells which.                                                      *)
codegen_simd_field(p, j, ty) ==
    IF ty.k = "Array" THEN try_new(Lv(codegen_ty(ty), p.goto.at, FALSE), IsType(ty), p.fat, p.fat_ty, p.ok /\ j = 1)
    ELSE try_new(LvIndex(p.goto, j - 1), IsType(ty), p.fat, p.fat_ty, p.ok)
ProjectField(p, j, ty) ==
    IF p.mir.ty.k = "Simd" THEN codegen_simd_field(p, j, ty)
    ELSE ProjectMembers(p, FieldPathIn(Adts[p.mir.ty.name], p.mir, j), IsType(ty))

(* codegen_idx_array, and index of a pointer or an array.                  *)
ElementAt(p, idx, ok) == try_new(LvIndex(p.goto, idx), IsType(p.mir.ty.ty), p.fat, p.fat_ty, p.ok /\ ok)
Indexable(t) == is_pointer(t) \/ is_array_like(t)
ProjectIndex(p, i) ==
    ElementAt(p, i, Indexable(p.goto.t) /\ (p.mir.ty.k = "Array" => is_array_like(p.goto.t)))

(* (A fat pointer that is followed further is a symbol of the program.)    *)
LengthOf(p) == IF p.mir.ty.k = "Array" THEN p.mir.ty.len ELSE p.fat.x[2]
FromEnd(length, offset) == Low(length - offset, MachineModel.pointer_width)
codegen_constant_indexOffByOne(p, offset, min_length, from_end) ==
    ElementAt(p, IF from_end THEN FromEnd(LengthOf(p), offset + 1) ELSE offset, TRUE)
codegen_constant_index(p, offset, min_length, from_end) ==
    ElementAt(p, IF from_end THEN FromEnd(LengthOf(p), offset) ELSE offset,
              IF p.mir.ty.k = "Array" THEN LengthOf(p) >= min_length /\ is_array_like(p.goto.t)
              ELSE is_pointer(p.goto.t))

(* Subslice: the place is the fat pointer to the part.                     *)
SubsliceLen(p, from, to, from_end) ==
    IF from_end THEN sub(member(p.fat, "len"), int_constant(to + from, size_t)) ELSE int_constant(to - from, size_t)
AddressOf(e) == symbol_expression(e.at, to_pointer(e.t))
FatPlace(p, ptr_ty, fat_ptr) ==
    try_new(Lv(fat_ptr.t, NullPtr, FALSE), IsType(ptr_ty), fat_ptr, ptr_ty, p.ok)
PartOf(p, ptr_ty, from, len) ==
    FatPlace(p, ptr_ty, slice_fat_ptr(codegen_ty(ptr_ty), AddressOf(LvIndex(p.goto, from)), len))
ProjectSubslice(p, from, to, from_end) ==
    IF p.mir.ty.k = "Array" THEN [p EXCEPT !.unimplemented = TRUE]
    ELSE PartOf(p, RawPtr(p.mir.ty), from, SubsliceLen(p, from, to, from_end))

DowncastPath(d, v) ==
    CASE d.tagging.k \in {"Empty", "Single"} -> <<>>
      [] d.tagging.k = "Direct" /\ d.kind # "coroutine" -> <<"cases", v.name>>
      [] OTHER -> <<v.name>>
ProjectDowncast(p, i) ==
    ProjectMembers(p, DowncastPath(Adts[p.mir.ty.name], Adts[p.mir.ty.name].variants[i]), IsVariant(p.mir.ty, i))

codegen_projection(p, elem, value) ==
    CASE p.unimplemented -> p
      [] elem.k = "Deref" -> ProjectDeref(p, value)
      [] elem.k = "Field" -> ProjectField(p, elem.j, elem.ty)
      [] elem.k = "Index" -> ProjectIndex(p, elem.i)
      [] elem.k = "ConstantIndex" -> codegen_constant_index(p, elem.offset, elem.min_length, elem.from_end)
      [] elem.k = "Subslice" -> ProjectSubslice(p, elem.from, elem.to, elem.from_end)
      [] elem.k = "Downcast" -> ProjectDowncast(p, elem.i)

(* Taking a reference.  A place inside a local of size zero need not be an *)
(* object: chosen is the address CBMC assumes for it.                      *)
is_zst_object(e) == e.zst
ZstAddress(a, ty) == a # 0 /\ a % AlignOf(ty) = 0
projection_data_ptr(p) ==
    CASE is_pointer(p.goto.t) -> symbol_expression(p.goto.at, p.goto.t)
      [] is_array_like(p.goto.t) -> symbol_expression(p.goto.at, to_pointer(base_type(p.goto.t)))
      [] OTHER -> Asserted(AddressOf(p.goto), p.goto.at # NullPtr)
dynamic_fat_ptr(t, data, vtable) == struct_expr_from_values(t, <<data, vtable>>)
ReferTo(p, place_ty, place_type, data) ==
    IF use_vtable_fat_pointer(place_ty) THEN dynamic_fat_ptr(place_type, data, member(p.fat, "vtable"))
    ELSE slice_fat_ptr(place_type, data, member(p.fat, "len"))
codegen_place_ref(p, place_ty, local_ty, chosen) ==
    CASE p.unimplemented -> Asserted(nondet(codegen_ty(RawPtr(place_ty))), FALSE)
      [] use_thin_pointer(place_ty) ->
            symbol_expression(IF is_zst_object(p.goto) THEN PointerTo(chosen) ELSE p.goto.at, to_pointer(p.goto.t))
      [] local_ty.k = "RawPtr" /\ place_ty = local_ty.ty -> p.fat
      [] OTHER -> ReferTo(p, place_ty, codegen_ty(RawPtr(place_ty)), projection_data_ptr(p))

-----------------------------------------------------------------------------
(***************************************************************************)
(* Constants, statics and the memory behind them (codegen/operand.rs,      *)
(* codegen/static_var.rs, context/goto_ctx.rs).  Allocs[id] is an          *)
(* allocation of rustc:                                                    *)
(*   kind   "Memory", "Static", "Anon" (the memory a static's initializer  *)
(*          borrows mutably), "Function" or "VTable",                      *)
(*   content   [mut, words]: a word is a byte [k |-> "byte", v], v being   *)
(*          Undef where nothing was written, or a pointer                  *)
(*          [k |-> "ptr", to, off] to byte off of allocation to,           *)
(*   interior   the type of the static has interior mutability,            *)
(*   vtable     the allocation with the contents of a vtable.              *)
(* The state g of the code generator is                                    *)
(*   symbols    the globals of the symbol table: [init, value, const],     *)
(*   alloc_map  content -> the global that holds it,                       *)
(*   count      global_var_count.                                          *)
(***************************************************************************)

CONSTANT Allocs

Undef == -1
NoName == <<"no name">>
Declared == [init |-> FALSE, value |-> <<>>, const |-> FALSE]
NoGlobals == [symbols |-> <<>>, alloc_map |-> <<>>, count |-> 0]
StaticName(id) == <<"static", id>>
AllocName(id) == <<"alloc", id>>
FnName(id) == <<"fn", id>>

ensure_global_var(g, name) == IF name \in DOMAIN g.symbols THEN g ELSE [g EXCEPT !.symbols = Put(@, name, Declared)]
(* The constant flag is set either way, the value only the first time.     *)
SetValue(g, name, const, value, sym) ==
    [g EXCEPT !.symbols[name] = [init |-> TRUE, value |-> IF sym.init THEN sym.value ELSE value, const |-> const]]
InitIn(g, name, const, value) == SetValue(g, name, const, value, g.symbols[name])
ensure_global_var_init(g, name, const, value) == InitIn(ensure_global_var(g, name), name, const, value)
declare_static(g, id) == ensure_global_var(g, StaticName(id))
Pointing(g, name) == [g |-> g, ptr |-> [sym |-> name, off |-> 0]]
codegen_instance_pointer(g, id) == Pointing(ensure_global_var(g, StaticName(id)), StaticName(id))

RECURSIVE codegen_alloc_in_memory(_, _, _, _, _)
RECURSIVE codegen_const_allocation(_, _, _, _)
RECURSIVE codegen_alloc_pointer(_, _, _)

(* A pointer to byte offset of the allocation, which is generated if need  *)
(* be.                                                                     *)
At(base, offset) == [base EXCEPT !.ptr.off = @ + offset]
codegen_alloc_pointer(g, id, offset) ==
    At(CASE Allocs[id].kind = "Function" -> Pointing(g, FnName(id))
         [] Allocs[id].kind = "Static" -> codegen_instance_pointer(g, id)
         [] OTHER ->
               codegen_const_allocation(g, Allocs[IF Allocs[id].kind = "VTable" THEN Allocs[id].vtable ELSE id].content,
                                        AllocName(id), FALSE), offset)

(* The bytes as they are, and for each pointer the offset its bytes hold.  *)
AddByte(acc, v) == [acc EXCEPT !.value = Append(@, IF v = Undef THEN 0 ELSE v)]
AddPointer(acc, p) == [g |-> p.g, value |-> Append(acc.value, p.ptr)]
AddWord(acc, w) == IF w.k = "byte" THEN AddByte(acc, w.v) ELSE AddPointer(acc, codegen_alloc_pointer(acc.g, w.to, w.off))
codegen_allocation_data(g, words) == FoldLeft(AddWord, [g |-> g, value |-> <<>>], words)

Remember(g, content, name) == [g EXCEPT !.alloc_map = Put(@, content, name)]
StoreData(data, content, name, const) ==
    Remember(ensure_global_var_init(data.g, name, const, data.value), content, name)
codegen_alloc_in_memoryNoCells(g, content, name, interior, definitely_const) ==
    StoreData(codegen_allocation_data(g, content.words), content, name, definitely_const \/ ~content.mut)
codegen_alloc_in_memory(g, content, name, interior, definitely_const) ==
    StoreData(codegen_allocation_data(g, content.words), content, name, (definitely_const \/ ~content.mut) /\ ~interior)

(* The map is asked before the nested allocations are generated.           *)
NewAllocation(g, content, name, definitely_const) ==
    Pointing(codegen_alloc_in_memory(g, content, name, FALSE, definitely_const), name)
codegen_const_allocation(g, content, name, definitely_const) ==
    CASE content \in DOMAIN g.alloc_map -> Pointing(g, g.alloc_map[content])
      [] name = NoName -> NewAllocation([g EXCEPT !.count = @ + 1], content, <<"global", g.count>>, definitely_const)
      [] OTHER -> NewAllocation(g, content, name, definitely_const)

codegen_static(g, id) ==
    codegen_alloc_in_memory(g, Allocs[id].content, StaticName(id), Allocs[id].interior, FALSE)

-------------------------------------------------------------------------------
(* Constants in the program.  A constant is [ty, content]; ty is Scalar,   *)
(* Float, TypeId, Thin, Fat (a string or slice whose elements are size     *)
(* bytes), CStr (a pointer to one), Tuple1 around inner, Struct with its   *)
(* fields, Zst being one without data, and their order in memory, or Other.*)

Pointers(words) == SelectSeq(words, LAMBDA w : w.k = "ptr")
(* The place where the pointer is stored in the constant, not the offset   *)
(* it holds, is what is passed on.                                         *)
StoredAt(words) == (CHOOSE i \in DOMAIN words : words[i].k = "ptr") - 1
WithLen(r, len) == [g |-> r.g, ptr |-> r.ptr, len |-> len, ok |-> TRUE]
ConstTarget(g, c, target, data) ==
    IF c.ty.k = "Fat" THEN WithLen(codegen_const_allocation(g, data, NoName, FALSE), Len(data.words) \div c.ty.size)
    ELSE WithLen(codegen_alloc_pointer(g, target, StoredAt(c.content.words)), 0)
PtrToConst(g, c, target) == ConstTarget(g, c, target, Allocs[target].content)
codegen_const_ptr(g, c) == PtrToConst(g, c, Pointers(c.content.words)[1].to)

(* A scalar is a literal, read from bytes that must all be there.          *)
Bits(words) == FoldSeq(+, 0, [i \in DOMAIN words |-> words[i].v * 2 ^ ((i - 1) * ByteBits)])
Literal(n, t) == IF is_bool(t) THEN n # 0 ELSE Wrap(n, t)
ReadAs(g, words, v) == [g |-> g, v |-> v, ok |-> \A i \in DOMAIN words : words[i].v # Undef]

(* The data of a struct is a literal where one field has all of it.  Its   *)
(* values come in the order of declaration, which the constructor compares *)
(* with the order in memory.                                               *)
NoLiteral == [k |-> "no literal"]
DataFields(ty) == {j \in DOMAIN ty.fields : ty.fields[j].k # "Zst"}
DataField(ty) == ty.fields[CHOOSE j \in DataFields(ty) : TRUE]
MarkersMoved(ty) == \E j \in DOMAIN ty.fields : ty.fields[ty.order[j]] # ty.fields[j]
InStruct(ty, r) == IF r = NoLiteral THEN r ELSE [r EXCEPT !.ok = @ /\ ~MarkersMoved(ty)]
RECURSIVE try_codegen_constant(_, _)
try_codegen_constant(g, c) ==
    LET words == c.content.words
        inner(ty) == try_codegen_constant(g, [c EXCEPT !.ty = ty])
    IN CASE c.ty.k = "Scalar" -> ReadAs(g, words, Literal(Bits(words), c.ty.t))
         [] c.ty.k \in {"Float", "TypeId"} -> ReadAs(g, words, Bits(words))
         [] c.ty.k \in {"Thin", "Fat"} /\ Pointers(words) # <<>> -> codegen_const_ptr(g, c)
         [] c.ty.k = "Thin" -> ReadAs(g, words, PointerTo(Bits(words)))
         [] c.ty.k = "CStr" -> [g |-> g, unimplemented |-> TRUE, ok |-> TRUE]
         [] c.ty.k = "Tuple1" -> inner(c.ty.inner)
         [] c.ty.k = "Struct" /\ Cardinality(DataFields(c.ty)) = 1 -> InStruct(c.ty, inner(DataField(c.ty)))
         [] OTHER -> NoLiteral
InMemory(g, c, literal) == IF literal # NoLiteral THEN literal ELSE codegen_const_allocation(g, c.content, NoName, TRUE)
codegen_allocation(g, c) == InMemory(g, c, try_codegen_constant(g, c))
=============================================================================
