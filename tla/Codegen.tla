------------------------------- MODULE Codegen -------------------------------
(***************************************************************************)
(* The code generator as it meets one MIR instruction after another: each  *)
(* action takes an instruction with its operands, and out is the goto code *)
(* generated for it, as a rule statements that end in the value stored.    *)
(* The properties run the code on the machine of GotoMachine and compare   *)
(* the outcome with what Rust says the instruction means: arithmetic on    *)
(* mathematical integers, rustc's layout of a type, memory byte by byte.   *)
(***************************************************************************)
EXTENDS Place

CONSTANTS
    IntTys,         \* the integer types instructions are typed with
    WideValues,     \* operands of the types that are too wide to enumerate
    Fills,          \* what nondeterministic padding may read as: 0, 1
    Patterns,       \* the bytes memory may hold before an instruction
    VtableObject,   \* the object, of the machine's, that is a vtable
    LocalTys,       \* the types of the locals a place starts from
    MaxPath,        \* how many projections a place has at most
    Consts,         \* the constants the program mentions
    MaxConsts       \* how many of them are generated, one after another

VARIABLES instr, out
vars == <<instr, out>>

None == [k |-> "none"]

-------------------------------------------------------------------------------
(* Rust's own reading of types and values.                                 *)

WidthOf(ty) == SizeOf(ty) * ByteBits
RangeIn(w, signed) == IF signed THEN -(2 ^ (w - 1)) .. 2 ^ (w - 1) - 1 ELSE 0 .. 2 ^ w - 1
RangeOf(ty) == RangeIn(WidthOf(ty), is_signed_mir(ty))
ValuesOf(ty) == IF WidthOf(ty) <= 4 THEN RangeOf(ty) ELSE RangeOf(ty) \cap WideValues
Fits(n, ty) == n \in RangeOf(ty)
Truncated(n, ty) == CHOOSE v \in RangeOf(ty) : (v - n) % 2 ^ WidthOf(ty) = 0
BitSet(n, w) == {i \in 0 .. w - 1 : (n \div 2 ^ i) % 2 = 1}
OfBits(bits, ty) == CHOOSE v \in RangeOf(ty) : BitSet(v, WidthOf(ty)) = bits
EuclidFree(l, r) == CHOOSE q \in -(Abs(l)) .. Abs(l) :
                       Abs(l - q * r) < Abs(r) /\ (l - q * r) * l >= 0
Overflows(l, r, ty) == r = 0 \/ ~Fits(EuclidFree(l, r), ty)

(* The result of a binary operation where it is defined, and where Rust    *)
(* leaves it undefined.                                                    *)
RustBitwise(op, a, b) ==
    CASE op = "BitAnd" -> a \cap b [] op = "BitOr" -> a \cup b [] op = "BitXor" -> (a \cup b) \ (a \cap b)
RustBinary(op, ty, l, r) ==
    CASE op \in {"Add", "AddUnchecked"} -> Truncated(l + r, ty)
      [] op \in {"Sub", "SubUnchecked"} -> Truncated(l - r, ty)
      [] op \in {"Mul", "MulUnchecked"} -> Truncated(l * r, ty)
      [] op = "Div" -> EuclidFree(l, r)
      [] op = "Rem" -> l - r * EuclidFree(l, r)
      [] op \in {"Shl", "ShlUnchecked"} -> Truncated(l * 2 ^ r, ty)
      [] op \in {"Shr", "ShrUnchecked"} -> l \div 2 ^ r
      [] op \in {"BitAnd", "BitOr", "BitXor"} ->
            OfBits(RustBitwise(op, BitSet(l, WidthOf(ty)), BitSet(r, WidthOf(ty))), ty)
      [] op = "Eq" -> Num(l = r) [] op = "Ne" -> Num(l # r)
      [] op = "Lt" -> Num(l < r) [] op = "Le" -> Num(l <= r)
      [] op = "Gt" -> Num(l > r) [] op = "Ge" -> Num(l >= r)
      [] op = "Cmp" -> CASE l < r -> -1 [] l = r -> 0 [] l > r -> 1
RustUndefined(op, ty, l, r) ==
    CASE op = "AddUnchecked" -> ~Fits(l + r, ty)
      [] op = "SubUnchecked" -> ~Fits(l - r, ty)
      [] op = "MulUnchecked" -> ~Fits(l * r, ty)
      [] op \in {"Div", "Rem"} -> Overflows(l, r, ty)
      [] op \in {"ShlUnchecked", "ShrUnchecked"} -> r \notin 0 .. WidthOf(ty) - 1
      [] OTHER -> FALSE

Nearest(n, range) == CHOOSE v \in range : \A x \in range : Abs(v - n) <= Abs(x - n)
ByteIndex(i) == i \div ByteBits
MovedBits(name, bits, r, w) ==
    CASE name = "RotateLeft" -> {(i + r) % w : i \in bits}
      [] name = "RotateRight" -> {(i - r) % w : i \in bits}
      [] name = "Bitreverse" -> {w - 1 - i : i \in bits}
      [] name = "Bswap" -> {(ByteIndex(w - 1) - ByteIndex(i)) * ByteBits + (i % ByteBits) : i \in bits}
CountedBits(name, bits, w) ==
    CASE name = "Ctpop" -> bits
      [] name \in {"Ctlz", "CtlzNonZero"} -> {i \in 0 .. w - 1 : \A j \in bits : j < i}
      [] name \in {"Cttz", "CttzNonZero"} -> {i \in 0 .. w - 1 : \A j \in bits : i < j}
RustArith == [WrappingAdd |-> "Add", WrappingSub |-> "Sub", WrappingMul |-> "Mul", ExactDiv |-> "Div",
              UncheckedDiv |-> "Div", UncheckedRem |-> "Rem"]
RustIntrinsic(name, ty, l, r) ==
    CASE name \in DOMAIN RustArith -> RustBinary(RustArith[name], ty, l, r)
      [] name \in {"SaturatingAdd", "SaturatingSub"} ->
            Nearest(IF name = "SaturatingAdd" THEN l + r ELSE l - r, RangeOf(ty))
      [] name \in {"Ctpop", "Ctlz", "CtlzNonZero", "Cttz", "CttzNonZero"} ->
            Cardinality(CountedBits(name, BitSet(l, WidthOf(ty)), WidthOf(ty)))
      [] name = "BlackBox" -> l
      [] OTHER -> OfBits(MovedBits(name, BitSet(l, WidthOf(ty)), r, WidthOf(ty)), ty)
RustIntrinsicUndefined(name, ty, l, r) ==
    CASE name \in {"UncheckedDiv", "UncheckedRem"} -> Overflows(l, r, ty)
      [] name = "ExactDiv" -> Overflows(l, r, ty) \/ l % Abs(r) # 0
      [] name \in {"CtlzNonZero", "CttzNonZero"} -> l = 0
      [] OTHER -> FALSE

-------------------------------------------------------------------------------
(* Arithmetic instructions.                                                *)

Arith == {"Add", "Sub", "Mul", "AddUnchecked", "SubUnchecked", "MulUnchecked", "Div", "Rem",
          "BitAnd", "BitOr", "BitXor", "Eq", "Ne", "Lt", "Le", "Gt", "Ge", "Cmp"}
Comparisons == {"Eq", "Ne", "Lt", "Le", "Gt", "Ge"}
ResultTy(op, ty) == CASE op = "Cmp" -> Ordering [] op \in Comparisons -> Bool [] OTHER -> ty

Emit(i, o) == instr' = i /\ out' = o
StoredIn(ty, e) == Code(<<>>, codegen_expr_to_place(ty, e))

Operands(ty) == {Operand(ty, v) : v \in ValuesOf(ty)}

(* Assign(_, BinaryOp).  The operands have one type, but for the distance  *)
(* of a shift; rustc asserts the range of a plain Shl or Shr before it.    *)
(* As in Rust, an unsigned distance can hold the width of every type and a *)
(* signed one that of its own, which leaves out some of the narrowest.     *)
Shifts == {"Shl", "Shr", "ShlUnchecked", "ShrUnchecked"}
DistanceTys(ty) == {t \in IntTys : Fits(WidthOf(IF is_signed_mir(t) THEN t ELSE ty), t)}
BinaryOp(op) ==
    \E ty \in IntTys : \E rty \in (IF op \in Shifts THEN DistanceTys(ty) ELSE {ty}) :
        \E l \in Operands(ty), r \in Operands(rty) :
             /\ op \in {"Shl", "Shr"} => r.x \in 0 .. WidthOf(ty) - 1
             /\ Emit([k |-> "binary", op |-> op, ty |-> ty, rty |-> rty, to |-> ResultTy(op, ty), l |-> l.x, r |-> r.x],
                     StoredIn(ResultTy(op, ty), codegen_rvalue_binary_op(op, ty, l, r)))

(* The checked operators, and the intrinsics of the same meaning, give the *)
(* pair of the result and the overflow bit.                                *)
IsPair(d, ty) ==
    /\ d.kind = "tuple" /\ Len(d.variants[1].fields) = 2
    /\ d.variants[1].fields[1].ty = ty /\ d.variants[1].fields[2].ty = Bool
HasPair(ty) == \E n \in DOMAIN Adts : IsPair(Adts[n], ty)
PairOf(ty) == Adt(CHOOSE n \in DOMAIN Adts : IsPair(Adts[n], ty))
WithOverflow == [Add |-> "AddWithOverflow", Sub |-> "SubWithOverflow", Mul |-> "MulWithOverflow"]
CheckedOp(op) ==
    \E ty \in {t \in IntTys : HasPair(t)}, intrinsic \in BOOLEAN : \E l, r \in Operands(ty) :
        Emit([k |-> "checked", op |-> op, ty |-> ty, to |-> PairOf(ty), l |-> l.x, r |-> r.x],
             StoredIn(PairOf(ty), IF intrinsic THEN codegen_intrinsic(WithOverflow[op], <<l, r>>, PairOf(ty))
                                  ELSE codegen_rvalue_checked_binary_op(op, ty, l, r, PairOf(ty))))
CheckedShift(op) ==
    \E ty \in {t \in IntTys : HasPair(t)} : \E rty \in DistanceTys(ty) : \E l \in Operands(ty), r \in Operands(rty) :
        Emit([k |-> "checked_shift", op |-> op, ty |-> ty, to |-> PairOf(ty), l |-> l.x, r |-> r.x],
             StoredIn(PairOf(ty), codegen_rvalue_checked_binary_op(op, ty, l, r, PairOf(ty))))

UnaryOp(op) ==
    \E ty \in IntTys : \E l \in Operands(ty) :
        Emit([k |-> "unary", op |-> op, ty |-> ty, to |-> ty, l |-> l.x], StoredIn(ty, codegen_unary(op, ty, l)))

IntToInt(ty) ==
    \E to \in IntTys : \E l \in Operands(ty) :
        Emit([k |-> "cast", op |-> "IntToInt", ty |-> ty, to |-> to, l |-> l.x],
             StoredIn(to, codegen_misc_cast(l, ty, to)))

Binary == {"WrappingAdd", "WrappingSub", "WrappingMul", "SaturatingAdd", "SaturatingSub",
           "ExactDiv", "UncheckedDiv", "UncheckedRem"}
Counting == {"Ctpop", "Ctlz", "CtlzNonZero", "Cttz", "CttzNonZero"}
Named == Binary \cup {"BlackBox", "RotateLeft", "RotateRight", "Bitreverse", "Bswap"} \cup Counting
IntrinsicTy(name, ty) == IF name \in Counting THEN UintTy(MachineModel.int_width) ELSE ty
SecondOperand(name, ty) ==
    CASE name \in Binary -> Operands(ty)
      [] name \in {"RotateLeft", "RotateRight"} -> Operands(UintTy(4))
      [] OTHER -> {Operand(ty, 0)}
IntrinsicOp(name) ==
    \E ty \in IntTys : \E l \in Operands(ty), r \in SecondOperand(name, ty) :
        Emit([k |-> "intrinsic", op |-> name, ty |-> ty, to |-> IntrinsicTy(name, ty), l |-> l.x, r |-> r.x],
             StoredIn(IntrinsicTy(name, ty), codegen_intrinsic(name, <<l, r>>, IntrinsicTy(name, ty))))

(* Lane-wise arithmetic on a vector of two lanes.                          *)
SimdArith == [SimdAdd |-> "Add", SimdSub |-> "Sub", SimdMul |-> "Mul",
              SimdDiv |-> "Div", SimdRem |-> "Rem", SimdAnd |-> "BitAnd", SimdOr |-> "BitOr",
              SimdXor |-> "BitXor", SimdShl |-> "ShlUnchecked", SimdShr |-> "ShrUnchecked",
              SimdEq |-> "Eq", SimdNe |-> "Ne", SimdLt |-> "Lt", SimdLe |-> "Le",
              SimdGt |-> "Gt", SimdGe |-> "Ge"]
Lanes2 == {-8, -1, 0, 2, 4, 15}
LanePairs(ty) == {<<a, b>> : a, b \in ValuesOf(ty) \cap Lanes2}
SimdTy(name, ty) == Simd(IF SimdArith[name] \in Comparisons THEN IntTy(4) ELSE ty, 2)
SimdOp(name) ==
    \E ty \in {IntTy(4), UintTy(4)} \cap IntTys :
    \E l, r \in {Operand(Simd(ty, 2), v) : v \in LanePairs(ty)} :
        Emit([k |-> "simd", op |-> SimdArith[name], ty |-> ty, to |-> SimdTy(name, ty), l |-> l.x, r |-> r.x],
             StoredIn(SimdTy(name, ty), codegen_simd(name, l, r, SimdTy(name, ty))))

(* Lanes read, replaced and chosen from two vectors.                       *)
SimdLane(ty) ==
    \E l, r \in {Operand(Simd(ty, 2), v) : v \in {<<1, 2>>, <<3, 0>>}}, n, m \in 0 .. 3 :
        \/ /\ n < 2 /\ m = 0
           /\ Emit([k |-> "simd_extract", to |-> ty, l |-> l.x, n |-> n],
                   StoredIn(ty, codegen_intrinsic_simd_extract(l, Operand(UintTy(4), n), ty)))
        \/ /\ n < 2
           /\ Emit([k |-> "simd_insert", to |-> Simd(ty, 2), l |-> l.x, n |-> n, m |-> m],
                   StoredIn(Simd(ty, 2), codegen_intrinsic_simd_insert(l, Operand(UintTy(4), n), Operand(ty, m))))
        \/ Emit([k |-> "simd_shuffle", to |-> Simd(ty, 2), l |-> l.x, r |-> r.x, n |-> n, m |-> m],
                StoredIn(Simd(ty, 2),
                    codegen_intrinsic_simd_shuffle(l, r, Operand(Simd(UintTy(4), 2), <<n, m>>), Simd(ty, 2))))

Observed(i, r) == IF i.to = Ordering THEN r.v[FieldIndex(codegen_ty(Ordering), "case")] ELSE r.v
FieldBits(bits, f) == Low(bits \div 2 ^ (f.offset * ByteBits), WidthOf(f.ty))
ExactFor(op, l, r) == CASE op = "Add" -> l + r [] op = "Sub" -> l - r [] op = "Mul" -> l * r
PairHolds(bits, fields, v, overflowed, ty) ==
    /\ FieldBits(bits, fields[1]) = Low(v, WidthOf(ty))
    /\ FieldBits(bits, fields[2]) = Num(overflowed)
StoredPair(i, r) == [bits |-> Encode(r.v, codegen_ty(i.to)), fields |-> Adts[i.to.name].variants[1].fields]
AddsUp(i, pair, exact) == PairHolds(pair.bits, pair.fields, Truncated(exact, i.ty), ~Fits(exact, i.ty), i.ty)
ShiftsBy(i, pair, distances) ==
    IF i.r \in distances
    THEN PairHolds(pair.bits, pair.fields, RustBinary(i.op, i.ty, i.l, i.r), FALSE, i.ty)
    ELSE FieldBits(pair.bits, pair.fields[2]) = Num(Truncated(i.r, i.ty) > WidthOf(i.ty) - 1)
Stores(r, ub, v) == (r.fails # {}) = ub /\ (~ub => r.v = v)
SimdUndefined(i) == \E j \in 1 .. 2 : RustUndefined(i.op, i.ty, i.l[j], i.r[j])
(* The false alarms: the width of the value read as a distance is negative *)
(* (rvalue.rs:482), and Rust's lanes wrap (intrinsic.rs:429, 464, 483).    *)
WidthCut(i) == i.op \in {"ShlUnchecked", "ShrUnchecked"} /\ ~Fits(WidthOf(i.ty), i.rty)
LaneOverflows(i) ==
    i.op \in {"Add", "Sub", "Mul"} /\ \E j \in 1 .. 2 : ~Fits(ExactFor(i.op, i.l[j], i.r[j]), i.ty)
RustLane(i, v) == IF i.op \in Comparisons THEN -v ELSE v
RustLanes(i) == [j \in 1 .. 2 |-> RustLane(i, RustBinary(i.op, i.ty, i.l[j], i.r[j]))]
PickLane(i, x) == IF x < 2 THEN i.l[x + 1] ELSE i.r[x - 1]
ComputesAsRust(i, r) ==
    /\ r.ok
    /\ CASE i.k = "binary" -> Stores([r EXCEPT !.v = Observed(i, r)],
                                     RustUndefined(i.op, i.ty, i.l, i.r) \/ WidthCut(i),
                                     RustBinary(i.op, i.ty, i.l, i.r))
         [] i.k = "checked" -> r.fails = {} /\ AddsUp(i, StoredPair(i, r), ExactFor(i.op, i.l, i.r))
         [] i.k = "checked_shift" -> r.fails = {} /\ ShiftsBy(i, StoredPair(i, r), 0 .. WidthOf(i.ty) - 1)
         [] i.k = "unary" -> r.v = Truncated(IF i.op = "Neg" THEN -i.l ELSE -i.l - 1, i.ty)
         [] i.k = "cast" -> Stores(r, FALSE, Truncated(i.l, i.to))
         [] i.k = "intrinsic" -> Stores(r, RustIntrinsicUndefined(i.op, i.ty, i.l, i.r),
                                        RustIntrinsic(i.op, i.ty, i.l, i.r))
         [] i.k = "simd" -> Stores(r, SimdUndefined(i) \/ LaneOverflows(i), RustLanes(i))
         [] i.k = "simd_extract" -> r.v = i.l[i.n + 1]
         [] i.k = "simd_insert" -> r.v = [i.l EXCEPT ![i.n + 1] = i.m]
         [] i.k = "simd_shuffle" -> r.v = <<PickLane(i, i.n), PickLane(i, i.m)>>

(* The value an arithmetic instruction stores is Rust's, and the checks    *)
(* around it fail where Rust leaves the result undefined: no overflow,     *)
(* division, shift distance or zero count slips through.  Two defined      *)
(* operations are rejected, and no other: lanes that wrap, and an          *)
(* unchecked shift whose distance has a type that cannot hold the width of *)
(* the value, as i8 that of u128 (LaneOverflows, WidthCut).  The flag of a *)
(* checked shift, which rustc does not ask for, is that of the distance    *)
(* cut to the value's type.  No constructor of the goto expression panics  *)
(* on its operands' types.  (rvalue.rs, intrinsic.rs)                      *)
ArithmeticExact ==
    instr.k \in {"binary", "checked", "checked_shift", "unary", "cast", "intrinsic", "simd",
                 "simd_extract", "simd_insert", "simd_shuffle"} => ComputesAsRust(instr, Run(Idle, out))

-------------------------------------------------------------------------------
(* Aggregates and discriminants.                                           *)

Sample(ty) ==
    CASE ty.k = "Bool" -> {0, 1}
      [] ty.k = "RawPtr" -> {PointerTo(a) : a \in {Objects[o].base : o \in DOMAIN Objects \ {VtableObject}}}
      [] is_integral(ty) -> ValuesOf(ty) \cap {-1, 0, 2, 5}
      [] ty.k = "Char" -> {0, 16}
      [] ty = Ordering -> {<<-1, 0>>, <<1, 0>>}
      [] OTHER -> {Decode(5 % 2 ^ WidthOf(ty), codegen_ty(ty))}
OperandsOf(fields) ==
    FoldLeft(LAMBDA chosen, f : {Append(vs, v) : vs \in chosen, v \in Sample(f.ty)}, {<<>>}, fields)
Memories(n) == {p % 2 ^ (Adts[n].size * ByteBits) : p \in Patterns}
DiscrTy == IntTy(2 * ByteBits)
MultiVariant(d) == d.kind = "enum" /\ d.tagging.k # "Empty"

Buildable ==
    {m \in DOMAIN Adts : Adts[m].kind # "union" /\ Adts[m].tagging.k # "Empty"
        /\ \A i \in DOMAIN Adts[m].variants : \A j \in DOMAIN Adts[m].variants[i].fields :
               use_thin_pointer(Adts[m].variants[i].fields[j].ty)}
(* Assign(_, Aggregate), then Discriminant of what was built.              *)
HasDiscriminant(d) == d.kind \in {"enum", "coroutine"}
ReadBack(n) == IF HasDiscriminant(Adts[n]) THEN codegen_get_discriminant(Adt(n), DiscrTy) ELSE UnitValue
OperandSeq(fields, vs) == [j \in DOMAIN vs |-> Operand(fields[j].ty, vs[j])]
BuiltFrom(d, i) == IF d.kind = "coroutine" THEN d.direct ELSE d.variants[i].fields
BuildAggregate(n) ==
    \E i \in DOMAIN Adts[n].variants, fill \in Fills, mem \in Memories(n) :
        /\ Adts[n].kind = "coroutine" => i = 1
        /\ \E vs \in OperandsOf(BuiltFrom(Adts[n], i)) :
             Emit([k |-> "aggregate", name |-> n, variant |-> i, vs |-> vs, mem |-> mem],
                  Code(codegen_rvalue_aggregate(fill, Adt(n), i, OperandSeq(BuiltFrom(Adts[n], i), vs)), ReadBack(n)))

(* A union is built from one of its fields.                                *)
BuildUnion(n) ==
    \E j \in DOMAIN Adts[n].variants[1].fields : \E v \in Sample(Adts[n].variants[1].fields[j].ty) :
        Emit([k |-> "union", name |-> n, field |-> Adts[n].variants[1].fields[j], v |-> v, mem |-> 0],
             Code(codegen_rvalue_aggregate(0, Adt(n), j, <<Operand(Adts[n].variants[1].fields[j].ty, v)>>), UnitValue))

(* SetDiscriminant of a value that held another variant.                   *)
SetDiscriminant(n) ==
    \E i \in DOMAIN Adts[n].variants, mem \in Memories(n) :
        /\ Adts[n].tagging.k = "Niche" => i # Adts[n].tagging.untagged
        /\ ~LeftOut(Adts[n], i)
        /\ Emit([k |-> "set_discriminant", name |-> n, variant |-> i, mem |-> mem],
                Code(codegen_set_discriminant(Adt(n), i), ReadBack(n)))

TagBytes(d) == IF d.tagging.k \in {"Direct", "Niche"}
               THEN d.tagging.offset .. d.tagging.offset + SizeOf(d.tagging.tag) - 1 ELSE {}
ByteAt(bits, b) == Low(bits \div 2 ^ (b * ByteBits), ByteBits)
FieldsStored(fields, vs, bits) ==
    \A j \in DOMAIN fields :
        FieldBits(bits, fields[j]) = Low(Encode(vs[j], codegen_ty(fields[j].ty)), WidthOf(fields[j].ty))
HoldsVariant(i, d, r) ==
    /\ r.ok
    /\ CASE i.k = "union" -> FieldBits(r.local, i.field) = Low(i.v, WidthOf(i.field.ty))
         [] i.k = "aggregate" ->
               ~LeftOut(d, i.variant) =>
                   /\ HasDiscriminant(d) => r.v = d.variants[i.variant].discr
                   /\ FieldsStored(BuiltFrom(d, i.variant), i.vs, r.local)
         [] i.k = "set_discriminant" ->
               /\ r.v = d.variants[i.variant].discr
               /\ \A b \in (0 .. d.size - 1) \ TagBytes(d) : ByteAt(r.local, b) = ByteAt(i.mem, b)

(* A value built as a variant is read back as that variant, and each field *)
(* of it, or value a coroutine captures, stands where rustc's layout puts  *)
(* it (unless the variant cannot be built at all), whatever the place held *)
(* before and whatever the padding reads as: the discriminant is written   *)
(* after the case whose padding may lie over it, and writing it leaves     *)
(* every other byte alone.  (rvalue.rs, statement.rs)                      *)
DiscriminantRoundTrip ==
    instr.k \in {"union", "aggregate", "set_discriminant"} =>
        HoldsVariant(instr, Adts[instr.name], Run(Machine(<<>>, instr.mem), out))

(* codegen_ty of an algebraic type and the projections into it.            *)
PlacesIn(n, d) ==
    [i \in DOMAIN d.variants |-> [j \in DOMAIN d.variants[i].fields |-> codegen_place(Adt(n), projection(Adt(n), i, j))]]
CapturesIn(n, d) == [j \in DOMAIN d.direct |-> codegen_place(Adt(n), <<"direct_fields", d.direct[j].name>>)]
ComponentsOk(d, cs) == IF is_union_layout(d) THEN UnionTypeOk(cs) ELSE StructTypeOk(cs)
(* The assertion of codegen_struct_padding, in the type and its cases.     *)
HasCase(d, i) == d.kind = "coroutine" \/ (d.tagging.k \in {"Direct", "Niche"} /\ d.variants[i].fields # <<>>)
DeclaredFor(n) ==
    {tag \in DOMAIN SymbolTable : /\ tag[1] \in {"adt", "case", "direct"} /\ tag[2] = n
                                  /\ tag[1] = "case" => HasCase(Adts[n], tag[3])}
PaddingOk(cs) == \A i \in DOMAIN cs : is_padding(cs[i]) => cs[i].bits > 0
Layout(n) ==
    Emit([k |-> "layout", name |-> n],
         [bits |-> sizeof_in_bits(codegen_ty(Adt(n))),
          ok |-> /\ ComponentsOk(Adts[n], lookup_components(codegen_ty(Adt(n))))
                 /\ \A tag \in DeclaredFor(n) : PaddingOk(SymbolTable[tag]),
          tag |-> IF Adts[n].tagging.k # "Direct" THEN Local(Adt(n)) ELSE codegen_discriminant_field(Adt(n)),
          captures |-> CapturesIn(n, Adts[n]),
          places |-> PlacesIn(n, Adts[n])])

PlacedAt(p, f) == p.ok /\ p.off = f.offset * ByteBits /\ p.t = codegen_ty(f.ty)
LayoutAsRustc(d) ==
    /\ out.ok
    /\ out.bits = d.size * ByteBits
    /\ d.tagging.k = "Direct" => out.tag.ok /\ out.tag.off = d.tagging.offset * ByteBits
    /\ \A j \in DOMAIN d.direct : PlacedAt(out.captures[j], d.direct[j])
    /\ \A i \in DOMAIN d.variants : \A j \in DOMAIN d.variants[i].fields :
         LeftOut(d, i) \/ PlacedAt(out.places[i][j], d.variants[i].fields[j])
(* Every type is as large in the goto program as in rustc's layout, and    *)
(* every field, of every variant that can be built, every captured value   *)
(* and the tag lie at rustc's offset with the type of the field: an offset *)
(* wrong by one padding member makes each pointer into the value wrong.    *)
(* (typ.rs, place.rs)                                                      *)
LayoutPreserved == instr.k = "layout" => LayoutAsRustc(Adts[instr.name])

-------------------------------------------------------------------------------
(* Pointers and memory.                                                    *)

Start == [o \in DOMAIN Objects |-> [i \in 1 .. Objects[o].size |-> (i + Len(o)) % 2 ^ ByteBits]]
PtrsIn(o) == {[obj |-> o, off |-> f] : f \in 0 .. Objects[o].size}
Vtable == [obj |-> VtableObject, off |-> 0]
DataObjects == DOMAIN Objects \ {VtableObject}
AllPtrs == UNION {PtrsIn(o) : o \in DataObjects}
Pointees == {UintTy(ByteBits), UintTy(2 * ByteBits), IntTy(2 * ByteBits), Unit}
SizedPointees == Pointees \ {Unit}
PtrTo(ty, p) == Operand(RawPtr(ty), p)
Count(n) == Operand(Usize, n)
Counts == {0, 1, 2, 2 ^ (MachineModel.pointer_width - 1)}

ByteOf(mem, p, i) == mem[p.obj][p.off + i + 1]
InBounds(p, n) == p.off >= 0 /\ p.off + n <= Objects[p.obj].size
AlignedTo(p, ty) == (Objects[p.obj].base + p.off) % AlignOf(ty) = 0
Value(mem, p, ty) ==
    CHOOSE v \in RangeOf(ty) :
        \A i \in 0 .. SizeOf(ty) - 1 :
            ByteOf(mem, p, i) = Low(v \div 2 ^ (i * ByteBits), ByteBits)
Holds(mem, p, ty, v) == \A i \in 0 .. SizeOf(ty) - 1 : ByteOf(mem, p, i) = Low(v \div 2 ^ (i * ByteBits), ByteBits)

AtomicNames == {"AtomicAnd", "AtomicNand", "AtomicOr", "AtomicXor", "AtomicXadd", "AtomicXsub",
                "AtomicMax", "AtomicMin", "AtomicUmax", "AtomicUmin"}
RustAtomicBits(name, a, b, w) ==
    CASE name = "AtomicAnd" -> a \cap b
      [] name = "AtomicNand" -> (0 .. w - 1) \ (a \cap b)
      [] name = "AtomicOr" -> a \cup b
      [] name = "AtomicXor" -> (a \cup b) \ (a \cap b)
RustAtomic(name, ty, cur, arg) ==
    CASE name = "AtomicXadd" -> Truncated(cur + arg, ty)
      [] name = "AtomicXsub" -> Truncated(cur - arg, ty)
      [] name \in {"AtomicMax", "AtomicUmax"} -> IF cur >= arg THEN cur ELSE arg
      [] name \in {"AtomicMin", "AtomicUmin"} -> IF cur <= arg THEN cur ELSE arg
      [] OTHER -> OfBits(RustAtomicBits(name, BitSet(cur, WidthOf(ty)), BitSet(arg, WidthOf(ty)), WidthOf(ty)), ty)

AtomicBinop(name) ==
    \E ty \in {t \in SizedPointees : name \in {"AtomicUmax", "AtomicUmin"} => ~is_signed_mir(t)} : \E p \in AllPtrs, arg \in ValuesOf(ty) :
        Emit([k |-> "atomic", op |-> name, ty |-> ty, p |-> p, arg |-> arg],
             codegen_atomic_binop(name, PtrTo(ty, p), Operand(ty, arg)))
AtomicLoad(ty) ==
    \E p \in AllPtrs :
        Emit([k |-> "atomic_load", ty |-> ty, p |-> p], codegen_atomic_load(PtrTo(ty, p)))
AtomicStore(ty) ==
    \E p \in AllPtrs, arg \in ValuesOf(ty) :
        Emit([k |-> "atomic_store", ty |-> ty, p |-> p, arg |-> arg],
             codegen_atomic_store(PtrTo(ty, p), Operand(ty, arg)))
AtomicCxchg(ty) ==
    \E p \in AllPtrs, old, new \in ValuesOf(ty) :
        Emit([k |-> "cxchg", ty |-> ty, p |-> p, old |-> old, new |-> new],
             codegen_atomic_cxchg(PtrTo(ty, p), Operand(ty, old), Operand(ty, new), PairOf(ty)))
VolatileLoad(ty) ==
    \E p \in AllPtrs :
        Emit([k |-> "volatile_load", ty |-> ty, p |-> p], codegen_volatile_load(PtrTo(ty, p), ty))
VolatileStore(ty) ==
    \E p \in AllPtrs, arg \in ValuesOf(ty) :
        Emit([k |-> "volatile_store", ty |-> ty, p |-> p, arg |-> arg],
             codegen_volatile_store(PtrTo(ty, p), Operand(ty, arg), ty))
Copy(ty) ==
    \E apart \in BOOLEAN, n \in Counts : \E p, q \in AllPtrs :
        Emit([k |-> "copy", ty |-> ty, apart |-> apart, p |-> p, q |-> q, n |-> n],
             codegen_copy(apart, PtrTo(ty, p), PtrTo(ty, q), Count(n), ty))
WriteBytes(ty) ==
    \E n \in Counts : \E p \in AllPtrs, b \in ValuesOf(UintTy(ByteBits)) :
        Emit([k |-> "write_bytes", ty |-> ty, p |-> p, n |-> n, b |-> b],
             codegen_write_bytes(PtrTo(ty, p), Operand(UintTy(ByteBits), b), Count(n), ty))
CompareBytesOf(n) ==
    \E p, q \in AllPtrs :
        Emit([k |-> "compare_bytes", p |-> p, q |-> q, n |-> n],
             codegen_compare_bytes(PtrTo(UintTy(ByteBits), p), PtrTo(UintTy(ByteBits), q), Count(n),
                                   IntTy(MachineModel.int_width)))
RawEq(ty) ==
    \E p, q \in AllPtrs :
        Emit([k |-> "raw_eq", ty |-> ty, p |-> p, q |-> q],
             codegen_intrinsic_raw_eq(PtrTo(ty, p), PtrTo(ty, q), ty))
Swap(ty) ==
    \E p, q \in AllPtrs :
        Emit([k |-> "swap", ty |-> ty, p |-> p, q |-> q],
             codegen_swap(PtrTo(ty, p), PtrTo(ty, q), ty))

Shared(p, q, n) == p.obj = q.obj /\ \E a, b \in 0 .. n - 1 : p.off + a = q.off + b
Atomics == {"atomic", "atomic_load", "atomic_store", "cxchg"}
Volatiles == {"volatile_load", "volatile_store"}
SizeUndefined(i, size, bytes) ==
    CASE i.k \in Atomics \cup Volatiles -> ~InBounds(i.p, size)
      [] i.k = "copy" ->
            \/ bytes >= 2 ^ MachineModel.pointer_width
            \/ bytes > 0 /\ (~InBounds(i.p, bytes) \/ ~InBounds(i.q, bytes))
            \/ i.apart /\ Shared(i.p, i.q, bytes)
      [] i.k = "write_bytes" -> i.n > 0 /\ (bytes >= 2 ^ MachineModel.pointer_width \/ ~InBounds(i.p, bytes))
      [] i.k = "compare_bytes" -> i.n > 0 /\ (~InBounds(i.p, i.n) \/ ~InBounds(i.q, i.n))
      [] i.k = "raw_eq" -> size > 0 /\ (~InBounds(i.p, size) \/ ~InBounds(i.q, size))
      [] i.k = "swap" -> size > 0 /\ (~InBounds(i.p, size) \/ ~InBounds(i.q, size) \/ Shared(i.p, i.q, size))
BadRegion(i) == SizeUndefined(i, SizeOf(i.ty), i.n * SizeOf(i.ty))
Misaligned(i) ==
    /\ i.k # "compare_bytes"
    /\ ~AlignedTo(i.p, i.ty) \/ (i.k \in {"copy", "raw_eq", "swap"} /\ ~AlignedTo(i.q, i.ty))
MemoryUndefined(i) == BadRegion(i) \/ Misaligned(i)
(* Alignment is not looked at: by the atomics, a raw comparison and a swap *)
(* (intrinsic.rs:791-914, 1082, 1788), nor when no byte is to be written,  *)
(* although the doc of write_bytes asks for it (intrinsic.rs:1695).        *)
AlignmentUnseen(i) == i.k \in Atomics \cup {"raw_eq", "swap"} \/ (i.k = "write_bytes" /\ i.n = 0)
FirstDifference(p, q, n) == {i \in 0 .. n - 1 : /\ ByteOf(Start, p, i) # ByteOf(Start, q, i)
                                               /\ \A j \in 0 .. i - 1 : ByteOf(Start, p, j) = ByteOf(Start, q, j)}

MemoryKinds == {"atomic", "atomic_load", "atomic_store", "cxchg", "volatile_load", "volatile_store",
                "copy", "write_bytes", "compare_bytes", "raw_eq", "swap"}
Written(now, p, size) == [b \in 0 .. size - 1 |-> ByteOf(now, p, b)]
SameElsewhere(now, ps, size) ==
    \A o \in DOMAIN Objects : \A b \in DOMAIN Start[o] :
        (\A p \in ps : o # p.obj \/ b - 1 - p.off \notin 0 .. size - 1) => now[o][b] = Start[o][b]
Updates(now, p, ty, v) == Holds(now, p, ty, v) /\ SameElsewhere(now, {p}, SizeOf(ty))
OrderOf(v, at, p, q) ==
    \/ v = 0 /\ at = {}
    \/ \E b \in at : (v < 0) = (ByteOf(Start, p, b) < ByteOf(Start, q, b)) /\ v # 0
RustMemory(i, now, v, was, size) ==
    CASE i.k = "atomic" -> v = was /\ Updates(now, i.p, i.ty, RustAtomic(i.op, i.ty, was, i.arg))
      [] i.k \in {"atomic_load", "volatile_load"} -> v = was /\ now = Start
      [] i.k \in {"atomic_store", "volatile_store"} -> Updates(now, i.p, i.ty, i.arg)
      [] i.k = "cxchg" -> /\ v[1] = was /\ (was = i.old => v[2] = Num(TRUE))
                          /\ Updates(now, i.p, i.ty, IF was = i.old THEN i.new ELSE was)
      [] i.k = "copy" ->
            Written(now, i.q, i.n * size) = Written(Start, i.p, i.n * size) /\ SameElsewhere(now, {i.q}, i.n * size)
      [] i.k = "write_bytes" ->
            /\ Written(now, i.p, i.n * size) = [b \in 0 .. i.n * size - 1 |-> i.b]
            /\ SameElsewhere(now, {i.p}, i.n * size)
      [] i.k = "compare_bytes" -> now = Start /\ OrderOf(v, FirstDifference(i.p, i.q, i.n), i.p, i.q)
      [] i.k = "raw_eq" -> now = Start /\ v = Num(FirstDifference(i.p, i.q, size) = {})
      [] i.k = "swap" -> /\ Written(now, i.p, size) = Written(Start, i.q, size)
                         /\ Written(now, i.q, size) = Written(Start, i.p, size)
                         /\ SameElsewhere(now, {i.p, i.q}, size)
ChangesAsRust(i, r, undefined) ==
    /\ r.ok
    /\ r.fails # {} => undefined
    /\ undefined => r.fails # {} \/ (AlignmentUnseen(i) /\ ~BadRegion(i))
    /\ ~undefined => RustMemory(i, r.mem, r.v, Value(Start, i.p, i.ty), SizeOf(i.ty))

(* A memory intrinsic changes the bytes Rust says it changes and no other, *)
(* gives the value that was there before it, and its checks fail exactly   *)
(* on a pointer that is out of bounds or misaligned, on regions that       *)
(* overlap where they must not, and on a byte count that overflows; a      *)
(* count or a type of size zero touches nothing.  Two things are missed:   *)
(* a misaligned pointer where AlignmentUnseen says so, and a compare-      *)
(* exchange that does not find the expected value, whose flag says that it *)
(* succeeded (intrinsic.rs:839; the doc at :808 takes a sequential program *)
(* always to succeed).  (intrinsic.rs)                                     *)
MemoryExact ==
    instr.k \in MemoryKinds => ChangesAsRust(instr, Run(Machine(Start, 0), out), MemoryUndefined(instr))

-------------------------------------------------------------------------------
(* Pointers as values: comparisons, casts, offsets and metadata.           *)

SliceTy == Slice(UintTy(2 * ByteBits))
SlicePtrs == {Operand(RawPtr(SliceTy), v) : v \in {[obj |-> o, off |-> f] : o \in DataObjects, f \in {0, 2}} \X {0, 1, 2}}
Cells == RawPtr(ArrayTy(UintTy(2 * ByteBits), 2))

ComparePtrs(op) ==
    \E l, r \in SlicePtrs :
        Emit([k |-> "fat_cmp", op |-> op, l |-> l.x, r |-> r.x], 
             StoredIn(Bool, codegen_rvalue_binary_op(op, RawPtr(SliceTy), l, r)))
(* Casts between wide and thin pointers, and the unsizing of an array.     *)
CastPtr(to) ==
    \/ \E l \in SlicePtrs :
         Emit([k |-> "ptr_cast", to |-> to, l |-> l.x], StoredIn(to, codegen_misc_cast(l, RawPtr(SliceTy), to)))
    \/ \E p \in AllPtrs :
         /\ to = RawPtr(SliceTy)
         /\ Emit([k |-> "unsize", p |-> p], StoredIn(to, codegen_cast_to_fat_pointer(Operand(Cells, p), Cells, to)))
PtrMetadata ==
    \E l \in SlicePtrs :
        Emit([k |-> "metadata", l |-> l.x], StoredIn(Usize, codegen_unary("PtrMetadata", RawPtr(SliceTy), l)))
OffsetPtr(ty) ==
    \E p \in AllPtrs, n \in -2 .. 2, wrapping \in BOOLEAN :
        Emit([k |-> "offset", ty |-> ty, p |-> p, n |-> n],
             StoredIn(RawPtr(ty), IF wrapping THEN codegen_arith_offset(PtrTo(ty, p), Operand(Isize, n))
                                  ELSE codegen_rvalue_binary_op("Offset", RawPtr(ty), PtrTo(ty, p), Operand(Isize, n))))
GuaranteedCmp ==
    \E p, q \in AllPtrs :
        Emit([k |-> "guaranteed_cmp", p |-> p, q |-> q],
             StoredIn(UintTy(ByteBits),
                 codegen_ptr_guaranteed_cmp(PtrTo(UintTy(ByteBits), p), PtrTo(UintTy(ByteBits), q), UintTy(ByteBits))))
(* size_of_val and align_of_val of what a wide pointer points to.          *)
SizeOfVal(ty) ==
    /\ use_slice_fat_pointer(ty)
    /\ \E n \in 0 .. 3, what \in {"size", "align"} :
        Emit([k |-> "size_of_val", what |-> what, ty |-> ty, n |-> n],
             StoredIn(Usize, size_and_align_of_dst(ty, Operand(RawPtr(ty), <<NullPtr, n>>))[what]))
(* Of a trait object, by its vtable, which holds the size and alignment of *)
(* the type behind it.                                                     *)
SizeOfDyn(ty) ==
    /\ use_vtable_fat_pointer(ty)
    /\ \E align \in {1, 2, 4}, n \in 0 .. 2, what \in {"size", "align"} :
           Emit([k |-> "size_of_dyn", what |-> what, ty |-> ty, size |-> n * align, align |-> align],
                StoredIn(Usize, size_and_align_of_dst(ty, Operand(RawPtr(ty), <<NullPtr, Vtable>>))[what]))
Vtable_memory(i) ==
    IF i.k # "size_of_dyn" THEN <<>>
    ELSE (Vtable.obj :> [b \in 1 .. 3 * PtrBytes |->
            LET word == <<0, i.size, i.align>>[((b - 1) \div PtrBytes) + 1]
            IN  Low(word \div 2 ^ (((b - 1) % PtrBytes) * ByteBits), ByteBits)])
Transmute(n) ==
    \E to \in IntTys, bits \in Memories(n) :
        Emit([k |-> "transmute", name |-> n, to |-> to, bits |-> bits],
             StoredIn(to, codegen_transmute(Operand(Adt(n), Decode(bits, codegen_ty(Adt(n)))), Adt(n), to)))

TailOffset(ty) == IF ty.k = "Adt" THEN Last(Adts[ty.name].variants[1].fields).offset ELSE 0
TailElem(ty) == IF UnsizedTail(ty).k = "Str" THEN UintTy(ByteBits) ELSE UnsizedTail(ty).ty
Before2(l, r) == Address(l[1]) < Address(r[1]) \/ (Address(l[1]) = Address(r[1]) /\ l[2] < r[2])
Same2(l, r) == Address(l[1]) = Address(r[1]) /\ l[2] = r[2]
RustPtrCompare(op, l, r) ==
    CASE op = "Eq" -> Same2(l, r) [] op = "Ne" -> ~Same2(l, r)
      [] op = "Lt" -> Before2(l, r) [] op = "Ge" -> ~Before2(l, r)
      [] op = "Gt" -> Before2(r, l) [] op = "Le" -> ~Before2(r, l)
Packed(ty) == ty.k = "Adt" /\ Adts[ty.name].packed
Larger(a, b) == IF a >= b THEN a ELSE b
AlignWith(ty, align) == IF Packed(ty) THEN AlignOf(ty) ELSE Larger(AlignOf(ty), align)
RustAlign(ty) == AlignWith(ty, AlignOf(TailElem(ty)))
(* The tail of a struct starts at the next multiple of its alignment.      *)
RustDynSize(ty, size, align) == AlignUp(AlignUp(TailOffset(ty), align) + size, AlignWith(ty, align))
RustSize(ty, n, align) == AlignUp(TailOffset(ty) + n * SizeOf(TailElem(ty)), align)
PointerAsRust(i, r) ==
    /\ r.ok
    /\ (r.fails # {}) = (i.k = "transmute" /\ SizeOf(i.to) # Adts[i.name].size)
    /\ CASE i.k = "fat_cmp" -> r.v = Num(RustPtrCompare(i.op, i.l, i.r))
         [] i.k = "ptr_cast" -> r.v = IF is_fat_pointer(i.to) THEN i.l ELSE i.l[1]
         [] i.k = "unsize" -> r.v = <<i.p, 2>>
         [] i.k = "metadata" -> r.v = i.l[2]
         [] i.k = "offset" -> Address(r.v) = Address(i.p) + i.n * SizeOf(i.ty)
         [] i.k = "guaranteed_cmp" -> r.v = Num(Address(i.p) = Address(i.q))
         [] i.k = "size_of_val" ->
               r.v = IF i.what = "align" THEN RustAlign(i.ty) ELSE RustSize(i.ty, i.n, RustAlign(i.ty))
         [] i.k = "size_of_dyn" ->
               r.v = IF i.what = "align" THEN AlignWith(i.ty, i.align) ELSE RustDynSize(i.ty, i.size, i.align)
         [] i.k = "transmute" -> r.fails = {} => Low(r.v, WidthOf(i.to)) = i.bits

(* Wide pointers are compared by address and then by length, keep both     *)
(* through every cast, and give the size of what they point to, by their   *)
(* length or vtable, rounded to its alignment, which packing takes from    *)
(* its tail; an offset counts elements, and a transmute keeps the bits or, *)
(* when the sizes differ, fails.  (rvalue.rs, intrinsic.rs)                *)
PointersExact ==
    instr.k \in {"fat_cmp", "ptr_cast", "unsize", "metadata", "offset", "guaranteed_cmp", "size_of_val", "size_of_dyn",
                 "transmute"}
        => PointerAsRust(instr, Run(Machine(Vtable_memory(instr), 0), out))

-------------------------------------------------------------------------------
(* Places.  instr holds the place as Rust sees it: the address, the type,  *)
(* and the length of the slice it ends in.                                 *)

LocalObject == CHOOSE o \in DataObjects : \A x \in DataObjects : Objects[o].size >= Objects[x].size
Wide(ty) == is_fat_pointer(ty)
PointerValues(ty) ==
    LET ends == {p \in AllPtrs : p.off < Objects[p.obj].size /\ AlignedTo(p, ty.ty)} IN
    IF Wide(ty) THEN ends \X (IF use_slice_fat_pointer(ty.ty) THEN {1, 2, 3} ELSE {NullPtr}) ELSE ends

StartPlace(ty) ==
        Emit([k |-> "place", local |-> ty, ty |-> ty, var |-> 0, at |-> [obj |-> LocalObject, off |-> 0],
              len |-> 0, path |-> 0, tail |-> FALSE, pattern |-> FALSE, zst |-> SizeOf(ty) = 0],
             codegen_local(ty, LocalObject))

(* What may follow a place: a pointer is followed first or not at all, and *)
(* a variant is named only to reach a field of it.                         *)
Elems(i) ==
    LET d == Adts[i.ty.name]
        len == IF i.ty.k = "Array" THEN i.ty.len ELSE i.len
        v == IF i.var = 0 THEN 1 ELSE i.var
    IN CASE i.ty.k = "Adt" /\ i.var = 0 /\ d.kind \in {"enum", "coroutine"} ->
                {[k |-> "Downcast", i |-> x] : x \in {y \in DOMAIN d.variants : d.variants[y].fields # <<>> /\ ~LeftOut(d, y)}}
                \cup {[k |-> "Field", j |-> j, ty |-> d.direct[j].ty] : j \in DOMAIN d.direct}
         [] i.ty.k = "Simd" ->
                {[k |-> "Field", j |-> j, ty |-> i.ty.ty] : j \in 1 .. i.ty.len}
                \cup {[k |-> "Field", j |-> 1, ty |-> ArrayTy(i.ty.ty, i.ty.len)]}
         [] i.ty.k = "Adt" -> {[k |-> "Field", j |-> j, ty |-> d.variants[v].fields[j].ty] : j \in DOMAIN d.variants[v].fields}
         [] i.ty.k \in {"Array", "Slice"} ->
                {[k |-> "Index", i |-> n] : n \in 0 .. len - 1}
                \cup {[k |-> "ConstantIndex", offset |-> n, min_length |-> len, from_end |-> b] :
                        <<n, b>> \in {x \in (0 .. len) \X BOOLEAN : IF x[2] THEN x[1] > 0 ELSE x[1] < len}}
                \cup {[k |-> "Subslice", from |-> f, to |-> t, from_end |-> b] :
                        <<f, t, b>> \in {x \in (0 .. len) \X (0 .. len) \X BOOLEAN :
                                            IF x[3] THEN x[1] + x[2] <= len ELSE x[1] <= x[2]}}
         [] OTHER -> {}
Step(i, elem) ==
    LET at(n) == [i.at EXCEPT !.off = @ + n]
        d == Adts[i.ty.name]
        v == IF i.var = 0 THEN 1 ELSE i.var
        next(ty, p) == [i EXCEPT !.ty = ty, !.at = p, !.var = 0, !.path = @ + 1,
                                 !.pattern = i.tail /\ elem.k \in {"ConstantIndex", "Subslice"}]
        len == IF i.ty.k = "Array" THEN i.ty.len ELSE i.len
    IN CASE elem.k = "Downcast" -> [i EXCEPT !.var = elem.i, !.path = @ + 1]
         [] elem.k = "Field" ->
                next(elem.ty, at(CASE i.ty.k = "Simd" -> (elem.j - 1) * SizeOf(i.ty.ty)
                                   [] d.kind = "coroutine" /\ i.var = 0 -> d.direct[elem.j].offset
                                   [] OTHER -> d.variants[v].fields[elem.j].offset))
         [] elem.k = "Index" -> next(i.ty.ty, at(elem.i * SizeOf(i.ty.ty)))
         [] elem.k = "ConstantIndex" ->
                next(i.ty.ty, at(SizeOf(i.ty.ty) * IF elem.from_end THEN len - elem.offset ELSE elem.offset))
         [] elem.k = "Subslice" ->
                [next(i.ty, at(SizeOf(i.ty.ty) * elem.from)) EXCEPT
                    !.len = IF elem.from_end THEN len - elem.to - elem.from ELSE elem.to - elem.from,
                    !.path = MaxPath]
Deref(v) ==
    LET wide == Wide(instr.ty) IN
    Emit([instr EXCEPT !.ty = @.ty, !.at = IF wide THEN v[1] ELSE v, !.path = 1, !.zst = FALSE,
                            !.len = IF wide /\ use_slice_fat_pointer(instr.ty.ty) THEN v[2] ELSE 0,
                            !.tail = wide /\ instr.ty.ty.k = "Adt"],
              codegen_projection(out, [k |-> "Deref"], Operand(instr.ty, v)))
Project(elem) == Emit(Step(instr, elem), codegen_projection(out, elem, None))
TakeRef(chosen) ==
    /\ instr.var = 0
    /\ ZstAddress(chosen, instr.ty)
    /\ Emit([instr EXCEPT !.k = "ref"], Code(<<>>, codegen_place_ref(out, instr.ty, instr.local, chosen)))

PlaceAsRust(i, fat) ==
    /\ out.ok \/ i.pattern
    /\ out.unimplemented => i.ty.k = "Array" /\ i.path = MaxPath
    /\ ~out.unimplemented /\ ~i.zst /\ i.var = 0 /\ out.mir.ty = i.ty => out.goto.at = i.at
    /\ ~out.unimplemented /\ out.mir.ty # i.ty => fat.v = <<i.at, i.len>>
RefAsRust(i, r) ==
    /\ r.ok \/ i.ty.k = "Array" \/ i.pattern
    /\ r.ok => CASE i.zst -> r.v.off > 0 /\ Address(r.v) % AlignOf(i.ty) = 0
                [] use_thin_pointer(i.ty) -> r.v = i.at
                [] use_slice_fat_pointer(i.ty) -> r.v = <<i.at, i.len>>
                [] OTHER -> r.v[1] = i.at
DenotesAsRust(i, r) == IF i.k = "ref" THEN RefAsRust(i, r) ELSE PlaceAsRust(i, r)
(* A place Kani can express denotes the address Rust computes, with the    *)
(* type the MIR gives it, however the projections are put together, and a  *)
(* reference to it is that address with the length or vtable that goes     *)
(* with it; a reference into a local of size zero is aligned and not null. *)
(* Only the binding of a part of an array is given up on, and only a slice *)
(* pattern on the tail of an unsized struct trips an assertion.  (place.rs)*)
PlacesExact ==
    instr.k \in {"place", "ref"} => DenotesAsRust(instr, Eval(Idle, IF instr.k = "ref" THEN out.e ELSE out.fat))

-------------------------------------------------------------------------------
(* Globals: the statics are declared, then they and the constants of the   *)
(* functions are generated in the order the items come in.                 *)

Statics == {id \in DOMAIN Allocs : Allocs[id].kind = "Static"}
StartGlobals ==
    Emit([k |-> "globals", statics |-> {}, consts |-> 0, c |-> None],
         [g |-> FoldSet(LAMBDA id, g : declare_static(g, id), NoGlobals, Statics), last |-> None])
EmitStatic(id) ==
    /\ id \notin instr.statics
    /\ Emit([instr EXCEPT !.statics = @ \cup {id}, !.c = None], [g |-> codegen_static(out.g, id), last |-> None])
UseConst(c) ==
    /\ instr.consts < MaxConsts
    /\ LET e == codegen_allocation(out.g, c) IN
       Emit([instr EXCEPT !.consts = @ + 1, !.c = c], [g |-> e.g, last |-> e])

(* Where an allocation lives, once it does.                                *)
Generated(g, id) ==
    CASE Allocs[id].kind = "Function" -> TRUE
      [] Allocs[id].kind = "Static" -> g.symbols[StaticName(id)].init
      [] OTHER -> Allocs[id].content \in DOMAIN g.alloc_map
GlobalOf(g, id) ==
    CASE Allocs[id].kind = "Function" -> FnName(id)
      [] Allocs[id].kind = "Static" -> StaticName(id)
      [] OTHER -> g.alloc_map[Allocs[id].content]
TargetOf(id) == IF Allocs[id].kind = "VTable" THEN Allocs[id].vtable ELSE id
RECURSIVE Represents(_, _, _)
Represents(g, name, content) ==
    LET value == g.symbols[name].value
        stands(v, w) ==
            IF w.k = "byte" THEN v = IF w.v = Undef THEN 0 ELSE w.v
            ELSE /\ v.off = w.off
                 /\ IF Allocs[w.to].kind \in {"Static", "Function"} THEN v.sym = GlobalOf(g, w.to)
                    ELSE Represents(g, v.sym, Allocs[TargetOf(w.to)].content)
    IN /\ g.symbols[name].init
       /\ Len(value) = Len(content.words)
       /\ \A i \in DOMAIN value : stands(value[i], content.words[i])

(* What is left of a type without its wrappers.                            *)
RECURSIVE Innermost(_)
Innermost(ty) ==
    CASE ty.k = "Tuple1" -> Innermost(ty.inner)
      [] ty.k = "Struct" /\ Cardinality(DataFields(ty)) = 1 -> Innermost(DataField(ty))
      [] OTHER -> ty

(* Every global holds the bytes and the pointers of its allocation,        *)
(* whichever item asked for it first; memory that is shared because its    *)
(* content is the same is never that of a mutable static, and no mutable   *)
(* one is declared constant.  A constant has the value rustc evaluated,    *)
(* through all its wrappers, and a slice the length of its buffer.         *)
(* (The memory an initializer borrows mutably is shared all the same, a    *)
(* thin pointer loses its offset, a C string is given up on, and a struct  *)
(* with one field of data makes the compiler panic where its markers come  *)
(* earlier in memory than they are declared, or padding follows the data.) *)
(* (operand.rs, static_var.rs)                                             *)
GlobalsExact ==
    LET g == out.g
        c == instr.c
    IN instr.k = "globals" =>
        /\ \A id \in instr.statics : Represents(g, StaticName(id), Allocs[id].content)
        /\ \A content \in DOMAIN g.alloc_map : Represents(g, g.alloc_map[content], content)
        /\ \A a \in instr.statics, b \in DOMAIN Allocs :
             /\ a # b /\ Allocs[a].content.mut /\ Allocs[b].kind \notin {"Anon", "VTable"} /\ Generated(g, b)
             => GlobalOf(g, a) # GlobalOf(g, b)
        /\ \A id \in instr.statics :
             g.symbols[StaticName(id)].const => ~Allocs[id].content.mut /\ ~Allocs[id].interior
        /\ c # None =>
             LET target == TargetOf(Pointers(c.content.words)[1].to)
                 ty == Innermost(c.ty)
             IN
             CASE ty.k \in {"Other", "Struct"} -> Represents(g, out.last.ptr.sym, c.content)
               [] ~out.last.ok -> MarkersMoved(c.ty) \/ \E w \in Range(c.content.words) : w.v = Undef
               [] ty.k = "Scalar" -> (IF is_bool(ty.t) THEN Num(out.last.v) ELSE Pattern(out.last.v, ty.t)) = Bits(c.content.words)
               [] ty.k \in {"Float", "TypeId"} -> out.last.v = Bits(c.content.words)
               [] ty.k = "CStr" -> out.last.unimplemented
               [] Pointers(c.content.words) = <<>> -> Address(out.last.v) = Bits(c.content.words)
               [] OTHER -> /\ out.last.ptr.sym = GlobalOf(g, target)
                           /\ ty.k = "Fat" => out.last.len * ty.size = Len(Allocs[target].content.words)

-------------------------------------------------------------------------------
Next_instruction == instr # None /\ instr' = None /\ out' = None

Init == instr = None /\ out = None
Next ==
    \/ /\ instr = None
       /\ \/ \E op \in Arith \cup Shifts : BinaryOp(op)
          \/ \E op \in {"Add", "Sub", "Mul"} : CheckedOp(op)
          \/ \E op \in {"Shl", "Shr"} : CheckedShift(op)
          \/ \E op \in {"Not", "Neg"} : UnaryOp(op)
          \/ \E ty \in IntTys : IntToInt(ty)
          \/ \E name \in Named : IntrinsicOp(name)
          \/ \E name \in DOMAIN SimdArith : SimdOp(name)
          \/ \E n \in Buildable : BuildAggregate(n)
          \/ \E n \in {m \in DOMAIN Adts : Adts[m].kind = "union"} : BuildUnion(n)
          \/ \E ty \in {IntTy(4), UintTy(4)} : SimdLane(ty)
          \/ \E n \in {m \in DOMAIN Adts : MultiVariant(Adts[m])} : SetDiscriminant(n)
          \/ \E n \in DOMAIN Adts : Layout(n)
          \/ \E name \in AtomicNames : AtomicBinop(name)
          \/ \E ty \in {t \in SizedPointees : HasPair(t)} : AtomicCxchg(ty)
          \/ \E ty \in SizedPointees :
                AtomicLoad(ty) \/ AtomicStore(ty) \/ VolatileLoad(ty) \/ VolatileStore(ty)
          \/ \E ty \in Pointees : Copy(ty) \/ WriteBytes(ty) \/ RawEq(ty) \/ Swap(ty)
          \/ \E n \in 0 .. 3 : CompareBytesOf(n)
          \/ \E op \in Comparisons : ComparePtrs(op)
          \/ \E to \in {RawPtr(Str), RawPtr(SliceTy), RawPtr(UintTy(ByteBits))} : CastPtr(to)
          \/ PtrMetadata
          \/ \E ty \in SizedPointees : OffsetPtr(ty)
          \/ GuaranteedCmp
          \/ \E ty \in {Adt(n) : n \in {m \in DOMAIN Adts : is_unsized(Adt(m))}} \cup {SliceTy, Str, Dynamic("Tr")} :
                SizeOfVal(ty) \/ SizeOfDyn(ty)
          \/ \E n \in {m \in DOMAIN Adts : Adts[m].kind \in {"struct", "union"} /\ ~is_unsized(Adt(m))} : Transmute(n)
          \/ \E ty \in LocalTys : StartPlace(ty)
    \/ /\ instr.k = "place"
       /\ \/ instr.path = 0 /\ instr.ty.k = "RawPtr" /\ \E v \in PointerValues(instr.ty) : Deref(v)
          \/ instr.path < MaxPath /\ \E elem \in Elems(instr) : Project(elem)
          \/ \E chosen \in {1, 2, 6} : TakeRef(chosen)
    \/ instr = None /\ StartGlobals
    \/ instr.k = "globals" /\ ((\E id \in Statics : EmitStatic(id)) \/ \E c \in Consts : UseConst(c))
    \/ Next_instruction
Spec == Init /\ [][Next]_vars
===============================================================================
