------------------------------- MODULE GotoType -------------------------------
(***************************************************************************)
(* The types of the goto program (cprover_bindings/src/goto_program/typ.rs *)
(* and machine_model.rs): the variants of `Type', the questions the rest   *)
(* of the compiler asks of a type, and the assertions of its constructors. *)
(* A type is a record whose field k names the variant.  MachineModel holds *)
(* the widths of the C types, SymbolTable[tag] the components declared     *)
(* under a tag.                                                            *)
(***************************************************************************)
EXTENDS Integers, Sequences, FiniteSets, SequencesExt

CONSTANTS MachineModel, SymbolTable

ByteBits == MachineModel.char_width

bool_ty == [k |-> "Bool"]
empty_ty == [k |-> "Empty"]
float_ty(w) == [k |-> w]
CInteger(c) == [k |-> "CInteger", c |-> c]
c_bool == CInteger("Bool")
size_t == CInteger("SizeT")
ssize_t == CInteger("SSizeT")
signed_int(w) == [k |-> "Signedbv", width |-> w]
unsigned_int(w) == [k |-> "Unsignedbv", width |-> w]
to_pointer(t) == [k |-> "Pointer", typ |-> t]
void_pointer == to_pointer(empty_ty)
struct_tag(n) == [k |-> "StructTag", tag |-> n]
union_tag(n) == [k |-> "UnionTag", tag |-> n]
array_of(t, n) == [k |-> "Array", typ |-> t, size |-> n]
vector_ty(t, n) == [k |-> "Vector", typ |-> t, size |-> n]
code(params, ret) == [k |-> "Code", parameters |-> params, return_type |-> ret]

(* A component of a struct or union: a field, explicit padding, or a union *)
(* field with the padded type that gives the union its size.               *)
Field(n, t) == [c |-> "Field", name |-> n, typ |-> t, bits |-> 0]
Padding(n, b) == [c |-> "Padding", name |-> n, typ |-> unsigned_int(b), bits |-> b]
UnionField(n, t, b) == [c |-> "UnionField", name |-> n, typ |-> t, bits |-> b]
is_padding(c) == c.c = "Padding"

RECURSIVE unwrap_typedef(_)
unwrap_typedef(t) == IF t.k = "TypeDef" THEN unwrap_typedef(t.typ) ELSE t

OneOf(t, kinds) == unwrap_typedef(t).k \in kinds
CKind(u, c) == u.k = "CInteger" /\ u.c \in c
IsC(t, c) == CKind(unwrap_typedef(t), c)
FloatKinds == {"Double", "Float", "Float16", "Float128"}
IntegerKinds == {"CInteger", "Integer", "Signedbv", "Unsignedbv"}
NumericKinds == {"Double", "Float", "Float16", "Float128", "CInteger", "Integer", "Signedbv", "Unsignedbv"}

is_bool(t) == OneOf(t, {"Bool"})
is_c_bool(t) == IsC(t, {"Bool"})
is_c_size_t(t) == IsC(t, {"SizeT"})
is_empty(t) == OneOf(t, {"Empty"})
is_pointer(t) == OneOf(t, {"Pointer"})
is_vector(t) == OneOf(t, {"Vector"})
is_array_like(t) == OneOf(t, {"Array", "FlexibleArray", "Vector"})
is_floating_point(t) == OneOf(t, FloatKinds)
is_integer(t) == OneOf(t, IntegerKinds)
is_numeric(t) == OneOf(t, NumericKinds)
is_struct_tag(t) == OneOf(t, {"StructTag"})
is_union_tag(t) == OneOf(t, {"UnionTag"})
is_struct_like(t) == OneOf(t, {"IncompleteStruct", "Struct", "StructTag"})
is_union_like(t) == OneOf(t, {"IncompleteUnion", "Union", "UnionTag"})
is_code(t) == t.k = "Code"
is_variadic_code(t) == t.k = "VariadicCode"

is_scalar(t) ==
    OneOf(t, {"Bool", "CBitField", "CInteger", "Double", "Empty", "Float",
              "Float16", "Float128", "Integer", "Pointer", "Signedbv", "Unsignedbv"})

(* What a field of a datatype, an element of an array and an lvalue may be *)
Storable == {"Array", "Bool", "CBitField", "CInteger", "Double", "Float", "Float16",
             "Float128", "Integer", "Pointer", "Signedbv", "Struct", "StructTag",
             "Union", "UnionTag", "Unsignedbv", "Vector"}
typecheck_array_elem(t) == OneOf(t, Storable)
can_be_lvalue(t) == OneOf(t, Storable)
typecheck_datatype_field(t) == OneOf(t, Storable \cup {"FlexibleArray"})

SignedKind(u) ==
    \/ u.k = "Signedbv"
    \/ CKind(u, {"Int", "LongInt", "SSizeT"} \cup (IF MachineModel.char_is_unsigned THEN {} ELSE {"Char"}))
is_signed(t) == SignedKind(unwrap_typedef(t))
is_unsigned(t) ==
    \/ OneOf(t, {"Unsignedbv"})
    \/ IsC(t, {"Bool", "SizeT"})
    \/ IsC(t, {"Char"}) /\ MachineModel.char_is_unsigned

CIntWidth(c) ==
    [Bool |-> MachineModel.bool_width, Char |-> MachineModel.char_width,
     Int |-> MachineModel.int_width, LongInt |-> MachineModel.long_int_width,
     SizeT |-> MachineModel.pointer_width, SSizeT |-> MachineModel.pointer_width][c]

NoWidth == -1

WidthOfKind(c) ==
    CASE c.k \in {"Signedbv", "Unsignedbv"} -> c.width
      [] c.k = "CInteger" -> CIntWidth(c.c)
      [] c.k = "Pointer" -> MachineModel.pointer_width
      [] OTHER -> NoWidth
native_width(t) == WidthOfKind(unwrap_typedef(t))

is_equal_on_machine(a, b) ==
    \/ unwrap_typedef(a) = unwrap_typedef(b)
    \/ native_width(a) = native_width(b) /\ is_signed(a) = is_signed(b)

base_type(t) == unwrap_typedef(t).typ

to_signed(t) ==
    CASE IsC(t, {"SizeT"}) -> ssize_t
      [] OneOf(t, {"Unsignedbv"}) -> signed_int(unwrap_typedef(t).width)
      [] OTHER -> t
to_unsigned(t) ==
    CASE IsC(t, {"SSizeT"}) -> size_t
      [] OneOf(t, {"Signedbv"}) -> unsigned_int(unwrap_typedef(t).width)
      [] OTHER -> t

max_int(width, signed) == 2 ^ (IF signed THEN width - 1 ELSE width) - 1
min_int(width, signed) == IF signed THEN -max_int(width, TRUE) - 1 ELSE 0

-------------------------------------------------------------------------------
(* Aggregates: the components behind a tag.                                *)

ComponentsOf(c) == IF c.k \in {"StructTag", "UnionTag"} THEN SymbolTable[c.tag] ELSE <<>>
lookup_components(t) == ComponentsOf(unwrap_typedef(t))
Declares(cs, f) == \E i \in DOMAIN cs : cs[i].name = f
IndexIn(cs, f) == CHOOSE i \in DOMAIN cs : cs[i].name = f
FieldTypeIn(cs, f) == cs[IndexIn(cs, f)].typ
HasField(t, f) == Declares(lookup_components(t), f)
FieldIndex(t, f) == IndexIn(lookup_components(t), f)
lookup_field_type(t, f) == FieldTypeIn(lookup_components(t), f)

RECURSIVE sizeof_in_bits(_)
ComponentBits(c) == IF c.c = "Field" THEN sizeof_in_bits(c.typ) ELSE c.bits
(* The components of a struct follow, those of a union cover each other.   *)
Together(union, x, y) == IF ~union THEN x + y ELSE IF x > y THEN x ELSE y
AggregateBits(union, cs) ==
    FoldSeq(LAMBDA c, n : Together(union, IF union \/ c.c = "Field" THEN ComponentBits(c)
                                         ELSE sizeof_in_bits(c.typ), n), 0, cs)
BitsOfKind(c) ==
    CASE c.k \in {"Array", "Vector"} -> sizeof_in_bits(c.typ) * c.size
      [] c.k \in {"Code", "Empty", "FlexibleArray"} -> 0
      [] c.k \in {"Signedbv", "Unsignedbv", "CInteger", "Pointer"} -> WidthOfKind(c)
      [] c.k \in {"StructTag", "UnionTag"} -> AggregateBits(c.k = "UnionTag", ComponentsOf(c))
      [] c.k = "Float" -> MachineModel.float_width
      [] c.k = "Double" -> MachineModel.double_width
sizeof_in_bits(t) == BitsOfKind(unwrap_typedef(t))

get_non_empty_components(t) == SelectSeq(lookup_components(t), LAMBDA c : ComponentBits(c) # 0)

(* A struct or union with exactly one component that takes space stands    *)
(* for that component; "none" when the type is not transparent.            *)
NotTransparent == [k |-> "none"]
RECURSIVE unwrap_transparent_type(_)
unwrap_transparent_type(t) ==
    LET cs == get_non_empty_components(t) IN
    CASE is_struct_like(t) \/ is_union_like(t) ->
            IF Len(cs) = 1 /\ ~is_padding(cs[1])
            THEN unwrap_transparent_type(unwrap_typedef(cs[1].typ)) ELSE NotTransparent
      [] is_scalar(t) -> t
      [] OTHER -> NotTransparent

RECURSIVE is_structurally_equivalent_to(_, _)
is_structurally_equivalent_to(a, b) ==
    LET s == unwrap_typedef(a)
        o == unwrap_typedef(b)
        cs == get_non_empty_components(s)
        co == get_non_empty_components(o)
    IN /\ sizeof_in_bits(s) = sizeof_in_bits(o)
       /\ \/ is_scalar(s) /\ is_scalar(o) /\ s = o
          \/ is_struct_like(s) /\ is_scalar(o) /\ unwrap_transparent_type(s) = o
          \/ is_scalar(s) /\ is_struct_like(o) /\ unwrap_transparent_type(o) = s
          \/ /\ is_struct_like(s) /\ is_struct_like(o)
             /\ Len(cs) = Len(co)
             /\ \A i \in DOMAIN cs :
                  \/ is_padding(cs[i]) /\ is_padding(co[i]) /\ cs[i].bits = co[i].bits
                  \/ /\ ~is_padding(cs[i]) /\ ~is_padding(co[i])
                     /\ is_structurally_equivalent_to(cs[i].typ, co[i].typ)

(* The assertions of Type::struct_type and Type::union_type.               *)
components_are_unique(cs) == \A i, j \in DOMAIN cs : cs[i].name = cs[j].name => i = j
components_are_not_flexible_array(cs) == \A i \in DOMAIN cs : cs[i].typ.k # "FlexibleArray"
components_in_valid_order_for_struct(cs) ==
    \A i \in DOMAIN cs : cs[i].typ.k = "FlexibleArray" => i = Len(cs)
StructTypeOk(cs) ==
    /\ components_are_unique(cs)
    /\ components_in_valid_order_for_struct(cs)
    /\ \A i \in DOMAIN cs : typecheck_datatype_field(cs[i].typ)
UnionTypeOk(cs) ==
    /\ components_are_unique(cs)
    /\ components_are_not_flexible_array(cs)
    /\ \A i \in DOMAIN cs : typecheck_datatype_field(cs[i].typ)
===============================================================================
