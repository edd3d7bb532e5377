----------------------------- MODULE GotoMachine ------------------------------
(***************************************************************************)
(* What CBMC makes of the goto program, as far as the code generator       *)
(* relies on it: fixed-width arithmetic, a memory of objects, the checks   *)
(* of divisions, dereferences and library calls, and the execution of the  *)
(* statements around an expression.  A value is an integer, a Boolean, a   *)
(* pointer [obj, off], or the sequence of the components of an aggregate;  *)
(* that of a union is its bit pattern.  Objects gives each object its base *)
(* address and size.  The state m of the machine is                        *)
(*   mem     the bytes of every object,                                    *)
(*   tmp     the temporaries by name,                                      *)
(*   local   the bits of the local that is being built,                    *)
(*   ok      no constructor of what was executed failed an assertion,      *)
(*   fails   the classes of the checks that did not hold.                  *)
(***************************************************************************)
EXTENDS GotoExpr, Bitwise

CONSTANT Objects

Unspecified == "unspecified"

Low(n, w) == n % (2 ^ w)
Signed(u, w) == IF u >= 2 ^ (w - 1) THEN u - 2 ^ w ELSE u
WrapTo(n, w, signed) == IF signed THEN Signed(Low(n, w), w) ELSE Low(n, w)
WrapKind(n, c) == WrapTo(n, WidthOfKind(c), SignedKind(c))
Wrap(n, t) == WrapKind(n, unwrap_typedef(t))
Pattern(n, t) == Low(n, native_width(t))
Abs(n) == IF n < 0 THEN -n ELSE n
TruncDiv(a, b) == IF (a < 0) = (b < 0) THEN Abs(a) \div Abs(b) ELSE -(Abs(a) \div Abs(b))
Bit(n, i) == (n \div 2 ^ i) % 2

NullPtr == [obj |-> "null", off |-> 0]
Address(p) == IF p.obj = "null" THEN p.off ELSE Objects[p.obj].base + p.off
Within(a, o) == a \in Objects[o].base .. Objects[o].base + Objects[o].size
PointerInto(a, o) == [obj |-> o, off |-> a - Objects[o].base]
PointerTo(a) ==
    IF \E o \in DOMAIN Objects : Within(a, o) THEN PointerInto(a, CHOOSE o \in DOMAIN Objects : Within(a, o))
    ELSE [obj |-> "null", off |-> a]
BytesOf(t) == sizeof_in_bits(t) \div ByteBits
Readable(p, n) == p.obj # "null" /\ p.off >= 0 /\ p.off + n <= Objects[p.obj].size

-------------------------------------------------------------------------------
(* Operators on values.                                                    *)

Exact(op, l, r) ==
    CASE op \in {"Plus", "OverflowPlus", "OverflowResultPlus"} -> l + r
      [] op \in {"Minus", "OverflowMinus", "OverflowResultMinus"} -> l - r
      [] op \in {"Mult", "OverflowMult", "OverflowResultMult"} -> l * r
RotateBy(p, d, w) == Low(p * 2 ^ d, w) + p \div 2 ^ (w - d)
Rotate(p, k, w) == RotateBy(p, Low(k, 30) % w, w)
Comparing == {"Lt", "Le", "Gt", "Ge", "Equal", "Notequal"}
Compare(op, l, r) ==
    CASE op = "Lt" -> l < r [] op = "Le" -> l <= r [] op = "Gt" -> l > r
      [] op = "Ge" -> l >= r [] op = "Equal" -> l = r [] op = "Notequal" -> l # r

(* From the sum of two patterns and the bits they have in common.          *)
BitwiseOp(op, total, both, w) ==
    CASE op = "Bitand" -> both
      [] op = "Bitor" -> total - both
      [] op = "Bitxor" -> total - 2 * both
      [] op = "Bitnand" -> 2 ^ w - 1 - both

(* An integer operation before its result is cut to the width w; p and q   *)
(* are the patterns of l and r.                                            *)
Unbounded(op, l, r, p, q, w) ==
    CASE op \in {"Plus", "Minus", "Mult"} \cup OverflowFlag \cup OverflowPair -> Exact(op, l, r)
      [] op = "Div" -> IF r = 0 THEN 0 ELSE TruncDiv(l, r)
      [] op = "Mod" -> IF r = 0 THEN 0 ELSE l - r * TruncDiv(l, r)
      [] op \in {"Shl", "Ashr", "Lshr"} ->
            IF r \notin 0 .. w - 1 THEN 0
            ELSE (CASE op = "Shl" -> p * 2 ^ r [] op = "Ashr" -> l \div 2 ^ r [] op = "Lshr" -> p \div 2 ^ r)
      [] op = "Rol" -> Rotate(p, q, w)
      [] op = "Ror" -> Rotate(p, w - (q % w), w)
      [] OTHER -> BitwiseOp(op, p + q, p & q, w)
CutTo(op, exact, cut) ==
    CASE op \in OverflowFlag -> exact # cut
      [] op \in OverflowPair -> <<cut, exact # cut>>
      [] OTHER -> cut
WithExact(op, exact, t) == CutTo(op, exact, Wrap(exact, t))
IntBinary(op, l, r, t, rt) ==
    IF op \in Comparing THEN Compare(op, l, r)
    ELSE WithExact(op, Unbounded(op, l, r, Pattern(l, t), Pattern(r, rt), native_width(t)), t)

StepSize(bytes) == IF bytes = 0 THEN 1 ELSE bytes
PtrBinary(op, l, r, rt, step) ==
    CASE op = "Plus" -> [l EXCEPT !.off = @ + r * step]
      [] op = "Minus" /\ is_pointer(rt) -> TruncDiv(l.off - r.off, step)
      [] op = "Minus" -> [l EXCEPT !.off = @ - r * step]
      [] op = "ROk" -> Readable(l, r)
      [] OTHER -> Compare(op, Address(l), Address(r))
BoolBinary(op, l, r) ==
    CASE op = "And" -> l /\ r [] op = "Or" -> l \/ r
      [] op = "Implies" -> l => r [] op = "Xor" -> l # r
RECURSIVE BinaryValue(_, _, _, _, _)
BinaryValue(op, l, r, t, rt) ==
    CASE is_bool(t) -> BoolBinary(op, l, r)
      [] is_pointer(t) -> PtrBinary(op, l, r, rt, StepSize(BytesOf(t.typ)))
      [] is_vector(t) -> [i \in DOMAIN l |-> BinaryValue(op, l[i], r[i], t.typ, rt.typ)]
      [] OTHER -> IntBinary(op, l, r, t, rt)

Ones(p, w) == {i \in 0 .. w - 1 : Bit(p, i) = 1}
Reversed(p, w, size) ==
    FoldSeq(+, 0, [i \in 1 .. w \div size |-> Low(p \div 2 ^ ((i - 1) * size), size) * 2 ^ (w - i * size)])
BitsUnary(op, p, w) ==
    CASE op = "Bitnot" -> 2 ^ w - 1 - p
      [] op = "UnaryMinus" -> 2 ^ w - p
      [] OTHER -> Reversed(p, w, IF op = "Bswap" THEN ByteBits ELSE 1)
CountUnary(op, ones, w) ==
    CASE op = "Popcount" -> Cardinality(ones)
      [] op \in {"Ctz", "CtzNonZero"} -> CHOOSE n \in 0 .. w : (0 .. n - 1) \cap ones = {} /\ (n = w \/ n \in ones)
      [] op \in {"Clz", "ClzNonZero"} ->
            CHOOSE n \in 0 .. w : (w - n .. w - 1) \cap ones = {} /\ (n = w \/ w - 1 - n \in ones)
UnaryValue(op, v, t) ==
    CASE op = "Not" -> ~v
      [] op = "PointerObject" -> IF v.obj = "null" THEN 0 ELSE Objects[v.obj].base
      [] op = "PointerOffset" -> v.off
      [] op = "ObjectSize" -> Objects[v.obj].size
      [] op \in {"IsDynamicObject", "IsFinite"} -> Unspecified
      [] op \in {"Bitnot", "UnaryMinus", "BitReverse", "Bswap"} ->
            Wrap(BitsUnary(op, Pattern(v, t), native_width(t)), t)
      [] OTHER -> CountUnary(op, Ones(v, native_width(t)), native_width(t))

(* The value of a Typecast.                                                *)
AsNumber(v, from) == CASE from = "Bool" -> Num(v) [] from = "Pointer" -> Address(v) [] OTHER -> v
NonZero(v, from) == CASE from = "Bool" -> v [] from = "Pointer" -> v # NullPtr [] OTHER -> v # 0
ConvertKind(v, from, to) ==
    CASE to.k = "Empty" -> v
      [] to.k = "Pointer" -> IF from.k = "Pointer" THEN v ELSE PointerTo(v)
      [] CKind(to, {"Bool"}) -> Num(NonZero(v, from.k))
      [] OTHER -> WrapKind(AsNumber(v, from.k), to)
Convert(v, from, to) == ConvertKind(v, unwrap_typedef(from), unwrap_typedef(to))

(* The bit pattern of a value and back.                                    *)
RECURSIVE Encode(_, _), Decode(_, _)
TypesOf(fields) == [i \in DOMAIN fields |-> fields[i].typ]
PartTypes(t) == IF t.k = "StructTag" THEN TypesOf(lookup_components(t)) ELSE [i \in 1 .. t.size |-> t.typ]
EncodePart(acc, bits, width) == [bits |-> acc.bits + bits * 2 ^ acc.shift, shift |-> acc.shift + width]
EncodeParts(v, ts) ==
    FoldLeftDomain(LAMBDA acc, i : EncodePart(acc, Encode(v[i], ts[i]), sizeof_in_bits(ts[i])),
                   [bits |-> 0, shift |-> 0], ts).bits
DecodePart(acc, t, bits) ==
    [vs |-> Append(acc.vs, Decode(Low(acc.rest, bits), t)), rest |-> acc.rest \div 2 ^ bits]
DecodeParts(n, ts) ==
    FoldLeft(LAMBDA acc, t : DecodePart(acc, t, sizeof_in_bits(t)), [vs |-> <<>>, rest |-> n], ts).vs
Encode(v, t) ==
    IF t.k \in {"StructTag", "Array", "Vector"} THEN EncodeParts(v, PartTypes(t))
    ELSE CASE is_pointer(t) -> Address(v) [] t.k = "UnionTag" -> v [] OTHER -> Pattern(v, t)
Decode(n, t) ==
    IF t.k \in {"StructTag", "Array", "Vector"} THEN DecodeParts(n, PartTypes(t))
    ELSE CASE is_pointer(t) -> PointerTo(n) [] t.k = "UnionTag" -> n [] OTHER -> Wrap(n, t)

-------------------------------------------------------------------------------
(* Memory and its library.                                                 *)

Byte(mem, p, i) == mem[p.obj][p.off + i + 1]
LoadBits(mem, p, n) == FoldSeq(+, 0, [i \in 1 .. n |-> Byte(mem, p, i - 1) * 2 ^ ((i - 1) * ByteBits)])
StoreBits(mem, p, n, bits) ==
    [mem EXCEPT ![p.obj] = [i \in DOMAIN @ |->
        IF i - 1 - p.off \in 0 .. n - 1 THEN Low(bits \div 2 ^ ((i - 1 - p.off) * ByteBits), ByteBits)
        ELSE @[i]]]
SetBytes(mem, p, b, n) ==
    [mem EXCEPT ![p.obj] = [i \in DOMAIN @ |-> IF i - 1 - p.off \in 0 .. n - 1 THEN Low(b, ByteBits) ELSE @[i]]]
Differ(mem, l, r, n) == {i \in 0 .. n - 1 : Byte(mem, l, i) # Byte(mem, r, i)}
DifferenceAt(mem, l, r, at) ==
    IF at = {} THEN 0
    ELSE LET i == CHOOSE i \in at : \A j \in at : i <= j IN Byte(mem, l, i) - Byte(mem, r, i)
Overlap(p, q, n) == p.obj = q.obj /\ p.off < q.off + n /\ q.off < p.off + n

(* memcpy, memmove, memset and memcmp check their regions themselves; r is *)
(* what their arguments evaluate to.                                       *)
RegionsOk(fn, r) ==
    /\ Readable(r[1].v, r[3].v)
    /\ fn = "memset" \/ Readable(r[2].v, r[3].v)
    /\ fn = "memcpy" => ~Overlap(r[1].v, r[2].v, r[3].v)
MemoryAfter(mem, fn, r) ==
    CASE ~RegionsOk(fn, r) \/ fn = "memcmp" -> mem
      [] fn = "memset" -> SetBytes(mem, r[1].v, r[2].v, r[3].v)
      [] OTHER -> StoreBits(mem, r[1].v, r[3].v, LoadBits(mem, r[2].v, r[3].v))
CallValue(mem, fn, r) ==
    CASE fn # "memcmp" -> r[1].v
      [] RegionsOk(fn, r) -> DifferenceAt(mem, r[1].v, r[2].v, Differ(mem, r[1].v, r[2].v, r[3].v))
      [] OTHER -> 0

-------------------------------------------------------------------------------
(* Expressions: [v, ok, fails].  r holds the results of the parts.         *)

Machine(mem, local) == [mem |-> mem, tmp |-> <<>>, local |-> local, ok |-> TRUE, fails |-> {}]
Idle == Machine(<<>>, 0)

IsPad(f) == is_padding(f)
StructValue(fields, r, fill) ==
    [i \in DOMAIN fields |->
        IF IsPad(fields[i]) THEN fill * (2 ^ fields[i].bits - 1)
        ELSE r[Cardinality({j \in 1 .. i : ~IsPad(fields[j])})].v]
LocalBits(m, p) == Low(m.local \div 2 ^ p.off, sizeof_in_bits(p.t))
Loaded(mem, p, n) == IF Readable(p, n) THEN LoadBits(mem, p, n) ELSE 0
(* The bits an expression takes from elsewhere, to be read as its type.    *)
Reinterprets(e, a) ==
    e.op \in {"LocalPart", "ByteExtract", "Dereference"} \/ (e.op = "Member" /\ is_union_tag(a[1].t))
BitsRead(m, e, a, r) ==
    CASE e.op = "LocalPart" -> LocalBits(m, e.x)
      [] e.op = "ByteExtract" -> Encode(r[1].v, a[1].t)
      [] e.op = "Dereference" -> Loaded(m.mem, r[1].v, BytesOf(e.t))
      [] e.op = "Member" -> Low(r[1].v, sizeof_in_bits(e.t))
ValueOf(m, e, a, r) ==
    CASE Reinterprets(e, a) -> Decode(BitsRead(m, e, a, r), e.t)
      [] e.op \in {"Symbol", "BoolConstant", "CBoolConstant", "DoubleConstant"} -> e.x
      [] e.op = "Temp" -> m.tmp[e.x]
      [] e.op = "IntConstant" -> Wrap(e.x, e.t)
      [] e.op = "PointerConstant" -> PointerTo(e.x)
      [] e.op = "BinOp" -> BinaryValue(e.x, r[1].v, r[2].v, a[1].t, a[2].t)
      [] e.op = "UnOp" -> UnaryValue(e.x, r[1].v, a[1].t)
      [] e.op = "Typecast" -> Convert(r[1].v, a[1].t, e.t)
      [] e.op = "If" -> IF r[1].v THEN r[2].v ELSE r[3].v
      [] e.op = "Asserted" -> r[1].v
      [] e.op = "Member" -> r[1].v[FieldIndex(a[1].t, e.x)]
      [] e.op = "Struct" -> StructValue(lookup_components(e.t), r, e.x)
      [] e.op = "Union" -> Encode(r[1].v, a[1].t)
      [] e.op \in {"Array", "Vector"} -> [i \in DOMAIN r |-> r[i].v]
      [] e.op = "Index" -> r[1].v[r[2].v + 1]
      [] e.op = "VectorCmp" ->
            [i \in DOMAIN r[1].v |-> Wrap(-Num(Compare(e.x, r[1].v[i], r[2].v[i])), e.t.typ)]
      [] e.op = "ShuffleVector" -> [i \in DOMAIN r[3].v |-> (r[1].v \o r[2].v)[r[3].v[i] + 1]]
      [] e.op = "FunctionCall" -> CallValue(m.mem, e.x, r)
      [] OTHER -> Unspecified

HasZero(v, t) == IF is_vector(t) THEN \E i \in DOMAIN v : v[i] = 0 ELSE v = 0
OwnFails(m, e, a, r) ==
    CASE e.op = "BinOp" /\ e.x \in {"Div", "Mod"} -> IF HasZero(r[2].v, a[2].t) THEN {"division-by-zero"} ELSE {}
      [] e.op = "UnOp" /\ e.x \in {"ClzNonZero", "CtzNonZero"} -> IF r[1].v = 0 THEN {"bit_count"} ELSE {}
      [] e.op = "Dereference" -> IF Readable(r[1].v, BytesOf(e.t)) THEN {} ELSE {"pointer_dereference"}
      [] e.op = "FunctionCall" -> IF RegionsOk(e.x, r) THEN {} ELSE {"pointer_dereference"}
      [] OTHER -> {}
(* Of the branches of a conditional only the one taken is checked.         *)
PartsFail(e, r) ==
    IF e.op = "If" THEN r[1].fails \cup (IF r[1].v THEN r[2].fails ELSE r[3].fails)
    ELSE UNION {r[i].fails : i \in DOMAIN r}
(* The memory a call leaves behind.                                        *)
MemoryOf(mem, e, r) ==
    CASE e.op = "FunctionCall" -> MemoryAfter(mem, e.x, r)
      [] e.op = "If" -> IF r[1].v THEN r[2].mem ELSE r[3].mem
      [] OTHER -> mem
Result(m, e, r, ok) ==
    IF ok THEN [ok |-> TRUE, v |-> ValueOf(m, e, e.args, r), mem |-> MemoryOf(m.mem, e, r),
                fails |-> PartsFail(e, r) \cup OwnFails(m, e, e.args, r)]
    ELSE [ok |-> FALSE, v |-> Unspecified, mem |-> m.mem, fails |-> {}]
Meaning(m, e, r) == Result(m, e, r, (\A i \in DOMAIN r : r[i].ok) /\ AssertionsHold(e, e.args))

-------------------------------------------------------------------------------
(* Statements.  A failed check does not stop the machine: whoever looks at *)
(* the outcome ignores what follows one.  r holds the results of the       *)
(* statement's expressions.  A place that nondet() is assigned to keeps    *)
(* what it held, which is anything.                                        *)

Put(f, x, v) == [y \in DOMAIN f \cup {x} |-> IF y = x THEN v ELSE f[y]]
Note(m, ok, fails) == [m EXCEPT !.ok = @ /\ ok, !.fails = @ \cup fails]
SetLocal(m, p, bits) == [m EXCEPT !.local = @ + (bits - LocalBits(m, p)) * 2 ^ p.off]
StoreAt(m, p, n, bits) ==
    IF Readable(p, n) THEN [m EXCEPT !.mem = StoreBits(@, p, n, bits)] ELSE Note(m, TRUE, {"pointer_dereference"})
(* lhs is a part of the local, an element of a temporary or a dereference. *)
AssignTo(m, lhs, r, bits) ==
    CASE lhs.op = "LocalPart" -> Note(SetLocal(m, lhs.x, bits), lhs.x.ok, {})
      [] lhs.op = "Index" -> [m EXCEPT !.tmp[lhs.args[1].x][r[3].v + 1] = r[1].v]
      [] OTHER -> StoreAt(m, r[2].v, BytesOf(lhs.t), bits)
Did(m, s, r) ==
    CASE s.k = "Assert" -> Note(m, is_bool(s.es[1].t), IF r[1].v THEN {} ELSE {s.x})
      [] s.k = "Decl" -> [m EXCEPT !.tmp = Put(@, s.x, r[1].v)]
      [] s.k = "Assign" /\ s.es[1].op = "Nondet" -> Note(m, s.x.t = s.es[1].t, {})
      [] s.k = "Assign" /\ s.x.t = s.es[1].t -> AssignTo(m, s.x, r, Encode(r[1].v, s.x.t))
      [] s.k = "Assign" /\ s.x.t # s.es[1].t -> Note(m, FALSE, {})
      [] s.k = "Expression" -> [m EXCEPT !.mem = r[1].mem]
      [] OTHER -> m
Executed(m, s, r) ==
    IF \E i \in DOMAIN r : ~r[i].ok THEN Note(m, FALSE, {})
    ELSE Did(Note(m, TRUE, UNION {r[i].fails : i \in DOMAIN r}), s, r)

RECURSIVE Eval(_, _), EvalAll(_, _), ExecAll(_, _)
EvalAll(m, es) == IF es = <<>> THEN <<>> ELSE <<Eval(m, Head(es))>> \o EvalAll(m, Tail(es))
After(m, r) == [ok |-> m.ok /\ r.ok, v |-> r.v, mem |-> m.mem, fails |-> m.fails \cup r.fails]
Resume(m, e) == After(m, Eval(m, e))
Eval(m, e) ==
    IF e.op = "StatementExpression" THEN Resume(ExecAll([m EXCEPT !.fails = {}], e.x), e.args[1])
    ELSE Meaning(m, e, EvalAll(m, e.args))
(* The statements under a condition come before the rest when it holds.    *)
Then(s, r) == IF s.k = "Ifthenelse" /\ r[1].ok /\ r[1].v THEN s.x ELSE <<>>
Proceed(m, s, r, rest) == ExecAll(Executed(m, s, r), Then(s, r) \o rest)
ExecAll(m, ss) ==
    IF ss = <<>> THEN m ELSE Proceed(m, Head(ss), EvalAll(m, Head(ss).es), Tail(ss))

(* Code [stmts, e] ends in the value stored in its place.                  *)
Finished(m) == [mem |-> m.mem, local |-> m.local, v |-> m.tmp["result"], ok |-> m.ok, fails |-> m.fails]
Run(m, c) == Finished(ExecAll([m EXCEPT !.tmp = [result |-> Unspecified]], Append(c.stmts, decl("result", c.e))))
===============================================================================
