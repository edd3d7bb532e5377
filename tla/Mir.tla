--------------------------------- MODULE Mir ---------------------------------
(***************************************************************************)
(* Types and bodies as the passes of kani_middle/transform see them: which *)
(* bytes of a type are data and which are padding                          *)
(* (check_uninit/ty_layout.rs), which values of its scalars are valid      *)
(* (check_values.rs), and how a pass inserts instructions (body.rs).       *)
(*                                                                         *)
(* A type is a record whose field k names its kind; an algebraic type is   *)
(* [k |-> "Adt", name |-> n], with the layout rustc chose in Adts[n]:      *)
(*   kind      "struct", "tuple", "enum" or "union",                       *)
(*   size      in bytes,                                                   *)
(*   variants  a sequence of sequences of fields [ty, offset],             *)
(*   tagging   "Empty", "Single", "Direct" or "Niche", tag its size,       *)
(*   scalar    the ABI's first scalar <<[size, lo, hi]>>, or <<>>,         *)
(*   allowed   the tags of its variants, <<>> when the type has no tag.    *)
(* Layouts are rustc's and external.  A byte of memory is a record: [k |-> *)
(* "u"] uninitialized, [k |-> "i", v] a number below Base, or [k |-> "p"]  *)
(* a pointer, which takes one byte in this scaled-down machine.            *)
(***************************************************************************)
EXTENDS Integers, Sequences, FiniteSets, SequencesExt

CONSTANTS
    Adts,      \* the algebraic types
    Base,      \* how many values a byte has
    CharLow,   \* the ranges of char: 0..CharLow and CharHigh..CharMax
    CharHigh,
    CharMax

Uint(n) == [k |-> "Uint", size |-> n]
Bool == [k |-> "Bool"]
Char == [k |-> "Char"]
Unit == [k |-> "Unit"]
Str == [k |-> "Str"]
Dynamic == [k |-> "Dynamic"]
FnPtr == [k |-> "FnPtr"]
Adt(n) == [k |-> "Adt", name |-> n]
RawPtr(t) == [k |-> "RawPtr", ty |-> t, mut |-> TRUE]
ConstPtr(t) == [k |-> "RawPtr", ty |-> t, mut |-> FALSE]
Ref(t) == [k |-> "Ref", ty |-> t]
Slice(t) == [k |-> "Slice", ty |-> t]
Array(t, n) == [k |-> "Array", ty |-> t, len |-> n]
Pat(t, lo, hi) == [k |-> "Pat", ty |-> t, lo |-> lo, hi |-> hi]

is_union(ty) == ty.k = "Adt" /\ Adts[ty.name].kind = "union"
is_struct(ty) == ty.k = "Adt" /\ Adts[ty.name].kind = "struct"
is_raw_ptr(ty) == ty.k = "RawPtr"
is_any_ptr(ty) == ty.k \in {"RawPtr", "Ref"}
is_sized(ty) == ty.k \notin {"Slice", "Str", "Dynamic"}
is_fat(ty) == is_any_ptr(ty) /\ ~is_sized(ty.ty)

RECURSIVE SizeOf(_)
SizeOf(ty) ==
    CASE ty.k = "Uint" -> ty.size
      [] ty.k \in {"Bool", "Char", "FnPtr"} -> 1
      [] is_any_ptr(ty) -> IF is_fat(ty) THEN 2 ELSE 1
      [] ty.k = "Adt" -> Adts[ty.name].size
      [] ty.k = "Array" -> ty.len * SizeOf(ty.ty)
      [] ty.k = "Pat" -> SizeOf(ty.ty)
      [] ty.k = "Unit" -> 0

MaxOf(size) == Base ^ size - 1

-----------------------------------------------------------------------------
(* ty_layout.rs: the data bytes of a type.  A result is [err, val].        *)

Ok(v) == [err |-> "none", val |-> v]
Err(e) == [err |-> e, val |-> {}]

\* The bytes of several parts, or the first part's error.
FirstError(results) == SelectInSeq(results, LAMBDA r : r.err # "none")
AllOf(results) ==
    IF \E i \in DOMAIN results : results[i].err # "none" THEN results[FirstError(results)]
    ELSE Ok(UNION {results[i].val : i \in DOMAIN results})

Chunk(off, size) == off..(off + size - 1)

\* The elements of an array, from the bytes of the first one.
Elements(elem, size, len) ==
    IF elem.err # "none" THEN elem ELSE Ok({b + i * size : b \in elem.val, i \in 0..(len - 1)})

\* The tag and the variants' fields, when they leave the same padding.
Variants(tag, fields) ==
    CASE AllOf(fields).err # "none" -> AllOf(fields)
      [] \E v \in DOMAIN fields : fields[v].val # fields[1].val -> Err("EnumWithMultiplePaddingVariants")
      [] OTHER -> Ok(tag \cup fields[1].val)

RECURSIVE data_bytes_for_ty(_, _)
data_bytes_for_ty(ty, off) ==
    CASE ty.k \in {"Uint", "Bool", "Char"} \/ is_any_ptr(ty) -> Ok(Chunk(off, SizeOf(ty)))
      [] ty.k = "Unit" -> Ok({})
      [] ty.k = "Array" ->
            IF ty.len = 0 THEN Ok({}) ELSE Elements(data_bytes_for_ty(ty.ty, off), SizeOf(ty.ty), ty.len)
      [] ty.k = "Pat" -> data_bytes_for_ty(ty.ty, 0)
      [] ty.k \in {"FnPtr", "Dynamic"} -> Err("UnsupportedType")
      [] ty.k = "Adt" ->
            LET d == Adts[ty.name]
                Fields(v) == AllOf([i \in DOMAIN d.variants[v] |->
                                data_bytes_for_ty(d.variants[v][i].ty, off + d.variants[v][i].offset)])
            IN  CASE d.kind = "union" -> Err("UnionAsField")
                  [] d.kind = "enum" /\ d.tagging = "Empty" -> Ok({})
                  [] d.kind = "enum" /\ d.tagging = "Niche" -> Err("EnumWithNicheEncoding")
                  [] d.kind = "enum" /\ d.tagging = "Direct" ->
                        Variants(Chunk(off, d.tag), [v \in DOMAIN d.variants |-> Fields(v)])
                  [] OTHER -> Fields(1)

generate_byte_mask(size, data) == [i \in 1..size |-> (i - 1) \in data]

WithMask(size, data) == IF data.err # "none" THEN data ELSE Ok(generate_byte_mask(size, data.val))
MaskOf(ty) == WithMask(SizeOf(ty), data_bytes_for_ty(ty, 0))

\* PointeeInfo::from_ty: the layouts that a pointee is written and read with.
PointeeParts(ty) ==
    CASE is_union(ty) -> FoldLeft(LAMBDA done, f : Append(done, f.ty), <<>>, Adts[ty.name].variants[1])
      [] ty.k = "Slice" -> <<ty.ty>>
      [] ty.k = "Str" -> <<Uint(1)>>
      [] ty.k = "Dynamic" -> <<>>
      [] OTHER -> <<ty>>
PointeeKind(ty) ==
    CASE is_union(ty) -> "Union"
      [] ty.k \in {"Slice", "Str"} -> "Slice"
      [] ty.k = "Dynamic" -> "TraitObject"
      [] OTHER -> "Sized"
PointeeLayout(kind, masks) ==
    IF \E i \in DOMAIN masks : masks[i].err # "none" THEN masks[FirstError(masks)]
    ELSE Ok([k |-> kind, layouts |-> FoldLeft(LAMBDA done, m : Append(done, m.val), <<>>, masks)])
MasksOf(parts) == FoldLeft(LAMBDA done, ty : Append(done, MaskOf(ty)), <<>>, parts)
PointeeInfo(ty) == PointeeLayout(PointeeKind(ty), MasksOf(PointeeParts(ty)))

\* Comparing the layouts of two pointees byte by byte, up to the shorter one.
Comparable(info) == info.err = "none" /\ info.val.k \in {"Sized", "Slice"}
tys_layout_cmp_to_size(f, t, equal) ==
    /\ Comparable(f) /\ Comparable(t)
    /\ Len(t.val.layouts[1]) <= Len(f.val.layouts[1])
    /\ \A i \in DOMAIN t.val.layouts[1] :
          IF equal THEN f.val.layouts[1][i] = t.val.layouts[1][i]
          ELSE t.val.layouts[1][i] => f.val.layouts[1][i]
tys_layout_equal_to_size(from, to) == tys_layout_cmp_to_size(PointeeInfo(from), PointeeInfo(to), TRUE)
tys_layout_compatible_to_size(from, to) == tys_layout_cmp_to_size(PointeeInfo(from), PointeeInfo(to), FALSE)

-----------------------------------------------------------------------------
(* check_values.rs: the valid values of a type's scalars.                  *)

WrappingRange(lo, hi) == [lo |-> lo, hi |-> hi]
wraps_around(r) == r.lo > r.hi
range_is_full(r, size) == r.lo = (r.hi + 1) % (Base ^ size)

\* The scalar rustc's layout gives for the value ABI of a type.
FirstScalar(ty) ==
    CASE ty.k = "Uint" -> <<[size |-> ty.size, lo |-> 0, hi |-> MaxOf(ty.size)]>>
      [] ty.k = "Bool" -> <<[size |-> 1, lo |-> 0, hi |-> 1]>>
      [] ty.k = "Char" -> <<[size |-> 1, lo |-> 0, hi |-> CharMax]>>
      [] ty.k = "RawPtr" -> <<[size |-> 1, lo |-> 0, hi |-> MaxOf(1)]>>
      [] ty.k \in {"Ref", "FnPtr"} -> <<[size |-> 1, lo |-> 1, hi |-> MaxOf(1)]>>
      [] ty.k = "Pat" -> <<[size |-> SizeOf(ty.ty), lo |-> ty.lo, hi |-> ty.hi]>>
      [] ty.k = "Adt" -> Adts[ty.name].scalar
      [] OTHER -> <<>>

\* ValidValueReq::try_from_ty, at an offset; <<>> is None
Req(off, size, ranges) == [offset |-> off, size |-> size, ranges |-> ranges]
ScalarReqs(scalars) ==
    [i \in DOMAIN scalars |-> Req(0, scalars[i].size, <<WrappingRange(scalars[i].lo, scalars[i].hi)>>)]

try_from_ty(ty) ==
    IF ty.k = "Char" THEN <<Req(0, 1, <<WrappingRange(0, CharLow), WrappingRange(CharHigh, CharMax)>>)>>
    ELSE ScalarReqs(FirstScalar(ty))
is_full(req) == Len(req.ranges) = 1 /\ range_is_full(req.ranges[1], req.size)

range_contains(r1, r2, size) ==
    CASE wraps_around(r1) = wraps_around(r2) -> r1.lo <= r2.lo /\ r1.hi >= r2.hi
      [] wraps_around(r1) /\ ~wraps_around(r2) -> r1.lo <= r2.lo \/ r1.hi >= r2.hi
      [] ~wraps_around(r1) /\ wraps_around(r2) -> range_is_full(r1, size)

\* Every range of the other lies in one of this requirement's ranges.
contains(this, other) ==
    \A j \in DOMAIN other.ranges : \E i \in DOMAIN this.ranges :
        range_contains(this.ranges[i], other.ranges[j], this.size)

Restricting(reqs, off) ==
    IF reqs # <<>> /\ ~is_full(reqs[1]) THEN <<[reqs[1] EXCEPT !.offset = off]>> ELSE <<>>
TyReq(ty, off) == Restricting(try_from_ty(ty), off)

\* Requirements of several parts in order, or the first part's error.
Concat(results) ==
    IF \E i \in DOMAIN results : results[i].err # "none" THEN results[FirstError(results)]
    ELSE Ok(FlattenSeq([i \in DOMAIN results |-> results[i].val]))
Behind(reqs, rest) == IF rest.err # "none" THEN rest ELSE Ok(reqs \o rest.val)
EachElement(elem, size, len) ==
    IF elem.err # "none" THEN elem
    ELSE Ok(FlattenSeq([i \in 1..len |-> [j \in DOMAIN elem.val |->
            [elem.val[j] EXCEPT !.offset = @ + (i - 1) * size]]]))
TagOnly(reqs, fields) ==
    CASE fields.err # "none" -> fields
      [] fields.val = <<>> -> Ok(reqs)
      [] OTHER -> Err("Unsupported")

RECURSIVE ty_validity_per_offset(_, _)
ty_validity_per_offset(ty, off) ==
    CASE ty.k \in {"Uint", "Bool", "Char"} \/ is_any_ptr(ty) -> Ok(TyReq(ty, off))
      [] ty.k = "Unit" -> Ok(<<>>)
      [] ty.k = "Array" ->
            IF ty.len = 0 THEN Ok(<<>>)
            ELSE EachElement(ty_validity_per_offset(ty.ty, off), SizeOf(ty.ty), ty.len)
      [] ty.k = "Pat" -> Behind(TyReq(ty, off), ty_validity_per_offset(ty.ty, 0))
      [] ty.k \in {"FnPtr", "Dynamic"} -> Err("Unsupported")
      [] ty.k = "Adt" ->
            LET d == Adts[ty.name]
                Fields(v) == Concat([i \in DOMAIN d.variants[v] |->
                                ty_validity_per_offset(d.variants[v][i].ty, off + d.variants[v][i].offset)])
            IN  CASE d.kind = "union" -> Ok(<<>>)
                  [] d.kind = "enum" /\ d.tagging = "Empty" -> Ok(<<>>)
                  [] d.kind = "enum" /\ d.tagging = "Niche" -> Err("Unsupported")
                  [] d.kind = "enum" /\ d.tagging = "Direct" ->
                        \* a second field's offset is looked up among the enum's own, of which there is one
                        IF \E v \in DOMAIN d.variants : Len(d.variants[v]) > 1 THEN Err("Panic")
                        ELSE TagOnly(TyReq(ty, off), Concat([v \in DOMAIN d.variants |-> Fields(v)]))
                  [] OTHER -> Behind(IF d.kind = "struct" THEN TyReq(ty, off) ELSE <<>>, Fields(1))

\* build_limits: the condition that the inserted check computes on the bytes.
Number(cells, req) ==
    LET at(i) == cells[req.offset + i]
        Digit(i) == IF at(i).k = "p" THEN 1 ELSE at(i).v
    IN  FoldLeftDomain(LAMBDA acc, i : acc + Digit(i) * Base ^ (i - 1), 0, [i \in 1..req.size |-> i])
\* Mutant: a range that wraps around is taken for an interval.
build_single_limitNoWrap(r, v) == v >= r.lo /\ v <= r.hi
build_single_limit(r, v) ==
    IF wraps_around(r) THEN v >= r.lo \/ v <= r.hi ELSE v >= r.lo /\ v <= r.hi
build_limits(req, cells) ==
    \E i \in DOMAIN req.ranges : build_single_limit(req.ranges[i], Number(cells, req))

-----------------------------------------------------------------------------
(* What the language says of a type, for reference.                        *)

\* A byte is data of a type when a scalar that every value has lies on it.
RECURSIVE DataAt(_, _)
DataAt(ty, b) ==
    CASE ty.k = "Array" -> b < SizeOf(ty) /\ DataAt(ty.ty, b % SizeOf(ty.ty))
      [] ty.k = "Pat" -> DataAt(ty.ty, b)
      [] ty.k = "Adt" ->
            LET d == Adts[ty.name]
                InField(v) == \E i \in DOMAIN d.variants[v] :
                    LET f == d.variants[v][i]
                    IN  b >= f.offset /\ b < f.offset + SizeOf(f.ty) /\ DataAt(f.ty, b - f.offset)
            IN  CASE d.kind = "union" -> FALSE
                  [] OTHER -> \/ d.tagging \in {"Direct", "Niche"} /\ b < d.tag
                              \/ d.variants # <<>> /\ \A v \in DOMAIN d.variants : InField(v)
      [] OTHER -> b < SizeOf(ty)

IsInit(c) == c.k # "u"
Initialized(ty, cells) == \A b \in 0..(SizeOf(ty) - 1) : DataAt(ty, b) => IsInit(cells[b + 1])

RECURSIVE ValidValue(_, _)
ValidValue(ty, cells) ==
    LET int(c) == IF c.k = "i" THEN c.v ELSE 1
    IN  CASE ty.k = "Bool" -> cells[1].k = "i" /\ cells[1].v \in {0, 1}
          [] ty.k = "Char" -> cells[1].k = "i" /\ cells[1].v \in (0..CharLow) \cup (CharHigh..CharMax)
          [] ty.k = "Ref" -> int(cells[1]) # 0
          [] ty.k = "Pat" -> cells[1].k = "i" /\ cells[1].v \in ty.lo..ty.hi
          [] ty.k = "Array" -> \A i \in 0..(ty.len - 1) :
                ValidValue(ty.ty, SubSeq(cells, i * SizeOf(ty.ty) + 1, (i + 1) * SizeOf(ty.ty)))
          [] ty.k = "Adt" ->
                LET d == Adts[ty.name]
                    FieldsOk(v) == \A i \in DOMAIN d.variants[v] :
                        LET f == d.variants[v][i]
                        IN  ValidValue(f.ty, SubSeq(cells, f.offset + 1, f.offset + SizeOf(f.ty)))
                IN  CASE d.kind = "union" -> TRUE
                      [] d.kind = "enum" /\ d.tagging = "Direct" ->
                            \E v \in DOMAIN d.variants : int(cells[1]) = d.allowed[v] /\ FieldsOk(v)
                      [] d.kind = "enum" /\ d.tagging = "Niche" -> TRUE
                      [] OTHER -> /\ d.allowed # <<>> => int(cells[1]) \in ToSet(d.allowed)
                                  /\ FieldsOk(1)
          [] OTHER -> TRUE

-----------------------------------------------------------------------------
(* Bodies.  A body is [locals, args, blocks]: the types of its locals      *)
(* (local n at n + 1, local 0 the return place), the number of arguments   *)
(* and its blocks [stmts, term].  The calls that the checks consist of are *)
(* terminators [k |-> "Op", op, target].                                   *)

Deref == [p |-> "Deref", i |-> 0]
Field(i) == [p |-> "Field", i |-> i]
Local(n) == [local |-> n, proj |-> <<>>]
Proj(place, elem) == [place EXCEPT !.proj = Append(@, elem)]
DerefOf(n) == Proj(Local(n), Deref)

Copy(place) == [k |-> "Copy", place |-> place]
Const(ty, cells) == [k |-> "Const", ty |-> ty, cells |-> cells, static |-> <<>>]
StaticPtr(ty, s) == [k |-> "Const", ty |-> ty, cells |-> <<>>, static |-> <<s>>]

Use(op) == [k |-> "Use", op |-> op]
Cast(kind, op, ty) == [k |-> "Cast", kind |-> kind, op |-> op, ty |-> ty]
AddressOf(place) == [k |-> "AddressOf", place |-> place]
RefOf(place) == [k |-> "Ref", place |-> place]
Aggregate(ty, field, ops) == [k |-> "Aggregate", ty |-> ty, field |-> field, ops |-> ops]
BinaryOp(op, l, r) == [k |-> "BinaryOp", binop |-> op, l |-> l, r |-> r]
CopyForDeref(place) == [k |-> "CopyForDeref", place |-> place]
ThreadLocalRef(s, ty) == [k |-> "ThreadLocalRef", static |-> s, ty |-> ty]

Assign(place, rvalue) == [k |-> "Assign", place |-> place, rvalue |-> rvalue]
CopyNonOverlapping(src, dst, count) == [k |-> "Copy", src |-> src, dst |-> dst, count |-> count]
Nop == [k |-> "Nop"]

Intrinsic(name) == [k |-> "Intrinsic", name |-> name]
Item(name) == [k |-> "Item", name |-> name]
Foreign(name) == [k |-> "Foreign", name |-> name]
ClosureFn(name) == [k |-> "Closure", name |-> name]
FnPointer == [k |-> "Pointer", name |-> "none"]
Call(func, args, dest, target) ==
    [k |-> "Call", func |-> func, args |-> args, dest |-> dest, target |-> target]
Drop(place, target) == [k |-> "Drop", place |-> place, target |-> target]
Goto(target) == [k |-> "Goto", target |-> target]
Switch(targets) == [k |-> "Switch", targets |-> targets]
Return == [k |-> "Return"]
OpTerm(op, target) == [k |-> "Op", op |-> op, target |-> target]

TyOfElem(ty, elem) ==
    IF elem.p = "Deref" THEN ty.ty ELSE Adts[ty.name].variants[1][elem.i].ty
PlaceTy(locals, place) == FoldLeft(TyOfElem, locals[place.local + 1], place.proj)
OperandTy(locals, op) == IF op.k = "Copy" THEN PlaceTy(locals, op.place) ELSE op.ty
RvalueTy(locals, rv) ==
    CASE rv.k = "Use" -> OperandTy(locals, rv.op)
      [] rv.k = "AddressOf" -> RawPtr(PlaceTy(locals, rv.place))
      [] rv.k = "Ref" -> Ref(PlaceTy(locals, rv.place))
      [] rv.k = "BinaryOp" -> IF rv.binop = "Offset" THEN OperandTy(locals, rv.l) ELSE Bool
      [] rv.k = "CopyForDeref" -> PlaceTy(locals, rv.place)
      [] OTHER -> rv.ty

-----------------------------------------------------------------------------
(* Sources: the instruction that operations are inserted around.           *)

AtStatement(idx, bb) == [k |-> "Statement", idx |-> idx, bb |-> bb]
AtTerminator(bb) == [k |-> "Terminator", idx |-> 0, bb |-> bb]
Edit(blocks, source) == [blocks |-> blocks, source |-> source]
Block(stmts, term) == [stmts |-> stmts, term |-> term]

Targeted == {"Call", "Drop", "Goto", "Op"}   \* get_mut_target_ref: others are unimplemented!()

split_bb_before(blocks, source, new_term) ==
    LET new == Len(blocks) + 1
        old == blocks[source.bb]
        idx == IF source.k = "Statement" THEN source.idx ELSE Len(old.stmts) + 1
    IN  Edit([blocks EXCEPT ![source.bb] = Block(SubSeq(old.stmts, 1, idx - 1), new_term)]
               \o <<Block(SubSeq(old.stmts, idx, Len(old.stmts)), old.term)>>,
             IF source.k = "Statement" THEN AtStatement(1, new) ELSE AtTerminator(new))

split_bb_after(blocks, source, new_term) ==
    LET new == Len(blocks) + 1
        old == blocks[source.bb]
    IN  IF source.k = "Statement"
        THEN Edit([blocks EXCEPT ![source.bb] = Block(SubSeq(old.stmts, 1, source.idx), new_term)]
                    \o <<Block(SubSeq(old.stmts, source.idx + 1, Len(old.stmts)), old.term)>>,
                  AtTerminator(source.bb))
        ELSE Edit([blocks EXCEPT ![source.bb].term.target = new_term.target]
                    \o <<Block(<<>>, [new_term EXCEPT !.target = old.term.target])>>,
                  AtTerminator(new))

split_bb(blocks, source, position, new_term) ==
    IF position = "Before" THEN split_bb_before(blocks, source, new_term)
    ELSE split_bb_after(blocks, source, new_term)

\* insert_terminator; insert_check and insert_call target the block split off
insert_terminator(blocks, source, position, op) ==
    split_bb(blocks, source, position, OpTerm(op, Len(blocks) + 1))

\* insert_bb: a block of its own between the two halves
insert_bb(blocks, source, position, op) ==
    LET split == Len(blocks) + 1
        r == split_bb(blocks, source, position, Goto(split + 1))
    IN  Edit(Append(r.blocks, Block(<<>>, OpTerm(op, split))), r.source)
=============================================================================
