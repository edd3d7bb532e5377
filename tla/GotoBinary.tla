------------------------------ MODULE GotoBinary ------------------------------
(***************************************************************************)
(* A symbol table on its way to CBMC: it is filled by the code generator   *)
(* (cprover_bindings/src/goto_program/symbol_table.rs, symbol.rs), turned  *)
(* into ireps and written as a goto binary, with every text and every irep *)
(* in full only where it first occurs, and read back                       *)
(* (cprover_bindings/src/irep/goto_binary_serde.rs).  A lost flush is in   *)
(* FileWritingPool; here the bytes reach the disk.                         *)
(*                                                                         *)
(* A text is a name; Chars gives the code points of its characters and     *)
(* TextOf the text of a sequence of code points.                           *)
(***************************************************************************)
EXTENDS GotoIrep

CONSTANTS
    EnvSymbols,     \* the symbols every table starts with
    Declared,       \* the symbols code generation declares with ensure
    Completions,    \* the complete struct and union symbols
    Bodies,         \* the bodies a function may get: <<name, statement>>
    Contracts,      \* the contracts that may be attached: <<name, lambdas>>
    Consts,         \* the statics that may turn out to be constant
    MaxAssigns,     \* at most this many assigns clauses of one function
    Vocabulary,     \* the texts of one character
    Spelled         \* text |-> code points, for the texts with special characters

VARIABLES
    table,          \* symbol_table: name |-> symbol
    phase,          \* "build", "panic", "write", "written" or "read"
    todo,           \* the irep symbols that are not yet written
    done,           \* the irep symbols that are, in order
    w,              \* the serializer
    file,           \* the bytes on disk
    result          \* what read_goto_binary_file made of them
vars == <<table, phase, todo, done, w, file, result>>

-------------------------------------------------------------------------------
(* Numbers for texts and ireps.  A number counts from 0; the irep with     *)
(* number n starts at index[n + 1] of the flat vector keys.                *)

Numbering == [strings |-> <<>>, cache |-> <<>>, index |-> <<>>, keys |-> <<>>]

number_string(n, s) ==
    IF \E i \in DOMAIN n.strings : n.strings[i] = s
    THEN [n |-> n, num |-> (CHOOSE i \in DOMAIN n.strings : n.strings[i] = s) - 1]
    ELSE [n |-> [n EXCEPT !.strings = Append(@, s)], num |-> Len(n.strings)]

IrepKey(id, sub, named) == <<id, Len(sub)>> \o sub \o <<Len(named)>> \o FlattenSeq(named)

add_key(n, key) ==
    [n EXCEPT !.index = Append(@, Len(n.keys) + 1), !.keys = @ \o key, !.cache = Append(@, key)]
get_or_insertAlways(n, key) == [n |-> add_key(n, key), num |-> Len(n.index)]
get_or_insert(n, key) ==
    IF \E i \in DOMAIN n.cache : n.cache[i] = key
    THEN [n |-> n, num |-> (CHOOSE i \in DOMAIN n.cache : n.cache[i] = key) - 1]
    ELSE [n |-> add_key(n, key), num |-> Len(n.index)]

RECURSIVE number_irep(_, _)
RECURSIVE number_subs(_, _, _)
RECURSIVE number_named(_, _, _)
number_subs(n, ireps, nums) ==
    IF Len(nums) = Len(ireps) THEN [n |-> n, nums |-> nums]
    ELSE LET r == number_irep(n, ireps[Len(nums) + 1]) IN number_subs(r.n, ireps, Append(nums, r.num))
number_named(n, pairs, nums) ==
    IF Len(nums) = Len(pairs) THEN [n |-> n, nums |-> nums]
    ELSE LET p == pairs[Len(nums) + 1]
             k == number_string(n, p[1])
             r == number_irep(k.n, p[2])
         IN number_named(r.n, pairs, Append(nums, <<k.num, r.num>>))
number_irep(n, irep) ==
    LET id == number_string(n, irep.id)
        subs == number_subs(id.n, irep.sub, <<>>)
        named == number_named(subs.n, irep.named, <<>>)
    IN get_or_insert(named.n, IrepKey(id.num, subs.nums, named.nums))

(* Reading the flat vector: where an irep starts, its id and its operands. *)
Start(n, num) == n.index[num + 1]
id_of(n, num) == n.keys[Start(n, num)]
nof_sub(n, num) == n.keys[Start(n, num) + 1]
sub_of(n, num, i) == n.keys[Start(n, num) + i + 2]
nof_named_sub(n, num) == n.keys[Start(n, num) + nof_sub(n, num) + 2]
named_sub_of(n, num, i) ==
    LET start == Start(n, num) + nof_sub(n, num) + 2 * i + 3 IN <<n.keys[start], n.keys[start + 1]>>

-------------------------------------------------------------------------------
(* The writer: `out' the bytes, `strings' and `ireps' the numbers that     *)
(* have been written in full, `full' how often an irep was.                *)

Serializer == [n |-> Numbering, out |-> <<>>, strings |-> {}, ireps |-> {}, full |-> 0]
Position(t) == CHOOSE i \in DOMAIN Vocabulary : Vocabulary[i] = t
Chars(t) == IF t \in DOMAIN Spelled THEN Spelled[t] ELSE <<255 + Position(t)>>
IsAscii(c) == c < 128
Backslash == 92
EncodeUtf8(c) == <<192 + c \div 64, 128 + (c % 64)>>

write_u8(s, byte) == [s EXCEPT !.out = Append(@, byte)]
RECURSIVE Varenc(_)
Varenc(u) == IF u < 128 THEN <<u>> ELSE <<(u % 128) + 128>> \o Varenc(u \div 128)
write_usize_varenc(s, u) == [s EXCEPT !.out = @ \o Varenc(u)]

EncodeCharOnlyZero(c) ==
    CASE c = 48 -> <<Backslash, c>>
      [] IsAscii(c) -> <<c>>
      [] OTHER -> EncodeUtf8(c)

(* A backslash goes before a backslash and before the digit 0.             *)
EncodeChar(c) ==
    CASE c \in {48, Backslash} -> <<Backslash, c>>
      [] IsAscii(c) -> <<c>>
      [] OTHER -> EncodeUtf8(c)
write_numbered_string_ref(s, num) ==
    LET r == write_usize_varenc(s, num)
        cs == Chars(s.n.strings[num + 1])
    IN IF num \in s.strings THEN r
       ELSE [r EXCEPT !.strings = @ \cup {num},
                      !.out = @ \o FlattenSeq([i \in DOMAIN cs |-> EncodeChar(cs[i])]) \o <<0>>]

RECURSIVE write_numbered_irep_ref(_, _)
RECURSIVE write_subs(_, _, _)
RECURSIVE write_named(_, _, _)
write_subs(s, num, i) ==
    IF i = nof_sub(s.n, num) THEN s
    ELSE write_subs(write_numbered_irep_ref(write_u8(s, 83), sub_of(s.n, num, i)), num, i + 1)
write_named(s, num, i) ==
    IF i = nof_named_sub(s.n, num) THEN s
    ELSE LET p == named_sub_of(s.n, num, i)
             k == write_numbered_string_ref(write_u8(s, 78), p[1])
         IN write_named(write_numbered_irep_ref(k, p[2]), num, i + 1)
write_numbered_irep_ref(s, num) ==
    LET r == write_usize_varenc(s, num)
        id == write_numbered_string_ref([r EXCEPT !.ireps = @ \cup {num}, !.full = @ + 1],
                                        id_of(s.n, num))
    IN IF num \in s.ireps THEN r ELSE write_u8(write_named(write_subs(id, num, 0), num, 0), 0)

write_string_ref(s, t) ==
    LET r == number_string(s.n, t) IN write_numbered_string_ref([s EXCEPT !.n = r.n], r.num)
write_irep_ref(s, irep) ==
    LET r == number_irep(s.n, irep) IN write_numbered_irep_ref([s EXCEPT !.n = r.n], r.num)

FlagBits(flags) ==
    FoldLeft(LAMBDA a, f : 2 * a + (IF f \in flags THEN 1 ELSE 0), 0, Flags)
write_names(s, sym) ==
    LET texts == FoldLeft(write_string_ref, s, sym.names)
    IN write_usize_varenc(write_u8(texts, 0), FlagBits(sym.flags))
(* `t' is the writer after the three trees, the five names and the flags.  *)
write_symbol(s, sym, t) ==
    \E typ \in {write_irep_ref(s, sym.typ)} :
        \E value \in {write_irep_ref(typ, sym.value)} :
            \E location \in {write_irep_ref(value, sym.location)} : t = write_names(location, sym)
write_header(s) == write_usize_varenc([s EXCEPT !.out = @ \o <<127, 71, 66, 70>>], 6)
write_function_map(s) == write_usize_varenc(s, 0)

-------------------------------------------------------------------------------
(* The reader: `in' the bytes left, `smap' and `imap' the numbers of the   *)
(* file as numbers of its own, `got' the last value read, `err' whether an *)
(* error was returned (or, in the header, the process panicked).           *)

Deserializer(bytes) ==
    [in |-> bytes, n |-> Numbering, smap |-> <<>>, imap |-> <<>>, got |-> 0, err |-> FALSE]
Failed(r) == [r EXCEPT !.err = TRUE]

read_u8(r) ==
    IF r.err \/ r.in = <<>> THEN Failed(r)
    ELSE [r EXCEPT !.in = Tail(@), !.got = Head(r.in)]
RECURSIVE read_usize_varenc(_)
HighBits(low, rest) == [rest EXCEPT !.got = low + 128 * @]
VarencFrom(b) == IF b.err \/ b.got < 128 THEN b ELSE HighBits(b.got - 128, read_usize_varenc(b))
read_usize_varenc(r) == VarencFrom(read_u8(r))
expect(r, value) == IF r.err \/ r.got # value THEN Failed(r) ELSE r

(* The characters up to the terminator: r.got becomes their code points.   *)
RECURSIVE read_chars(_, _)
Escaped(c, bytes) == IF c.err THEN c ELSE read_chars(c, Append(bytes, c.got))
CharFrom(b, bytes) ==
    CASE b.err -> b
      [] ~b.err /\ b.got = 0 -> [b EXCEPT !.got = bytes]
      [] ~b.err /\ b.got = Backslash -> Escaped(read_u8(b), bytes)
      [] OTHER -> read_chars(b, Append(bytes, b.got))
read_chars(r, bytes) == CharFrom(read_u8(r), bytes)
RECURSIVE from_utf8(_)
from_utf8(bytes) ==
    CASE bytes = <<>> -> <<>>
      [] bytes # <<>> /\ Head(bytes) < 128 -> <<Head(bytes)>> \o from_utf8(Tail(bytes))
      [] OTHER -> <<(bytes[1] - 192) * 64 + bytes[2] - 128>> \o from_utf8(SubSeq(bytes, 3, Len(bytes)))
TextOf(cs) ==
    IF \E t \in DOMAIN Spelled : Spelled[t] = cs THEN CHOOSE t \in DOMAIN Spelled : Spelled[t] = cs
    ELSE IF Len(cs) = 1 /\ cs[1] - 255 \in DOMAIN Vocabulary THEN Vocabulary[cs[1] - 255]
    ELSE ToString(cs)

OwnString(r, num, own) == [r EXCEPT !.n = own.n, !.got = own.num, !.smap = @ @@ (num :> own.num)]
NewString(cs, num) ==
    IF cs.err THEN cs ELSE OwnString(cs, num, number_string(cs.n, TextOf(from_utf8(cs.got))))
StringFrom(num) ==
    CASE num.err -> num
      [] ~num.err /\ num.got \in DOMAIN num.smap -> [num EXCEPT !.got = num.smap[num.got]]
      [] OTHER -> NewString(read_chars(num, <<>>), num.got)
read_numbered_string_ref(r) == StringFrom(read_usize_varenc(r))

RECURSIVE read_numbered_irep_ref(_)
RECURSIVE read_operands(_)
OwnIrep(r, own) == [r EXCEPT !.n = own.n, !.got = own.num]
Operands(id) == [r |-> id, id |-> id.got, sub |-> <<>>, named |-> <<>>, done |-> FALSE]
Ended(x, r) == [x EXCEPT !.r = r, !.done = TRUE]
WithSub(x, s) ==
    IF x.named # <<>> \/ s.err THEN Ended(x, Failed(s)) ELSE [x EXCEPT !.r = s, !.sub = Append(@, s.got)]
WithNamed(x, key, v) ==
    IF v.err THEN Ended(x, v) ELSE [x EXCEPT !.r = v, !.named = Append(@, <<key, v.got>>)]
WithKey(x, k) == WithNamed(x, k.got, read_numbered_irep_ref(k))
OperandStep(x, c) ==
    CASE c.err -> Ended(x, c)
      [] ~c.err /\ c.got = 83 -> WithSub(x, read_numbered_irep_ref(c))
      [] ~c.err /\ c.got = 78 -> WithKey(x, read_numbered_string_ref(c))
      [] ~c.err /\ c.got = 0 -> Ended(x, OwnIrep(c, get_or_insert(c.n, IrepKey(x.id, x.sub, x.named))))
      [] OTHER -> Ended(x, Failed(c))
read_operands(x) == IF x.done THEN x.r ELSE read_operands(OperandStep(x, read_u8(x.r)))
NewIrep(num, all) == IF all.err THEN all ELSE [all EXCEPT !.imap = @ @@ (num :> all.got)]
IrepFrom(num) ==
    CASE num.err -> num
      [] ~num.err /\ num.got \in DOMAIN num.imap -> [num EXCEPT !.got = num.imap[num.got]]
      [] OTHER -> NewIrep(num.got, read_operands(Operands(read_numbered_string_ref(num))))
read_numbered_irep_ref(r) == IrepFrom(read_usize_varenc(r))

(* The irep and the symbol that the reader's local variables stand for.    *)
RECURSIVE IrepOf(_, _)
IrepOf(n, num) ==
    Irep(n.strings[id_of(n, num) + 1],
         [i \in 1 .. nof_sub(n, num) |-> IrepOf(n, sub_of(n, num, i - 1))],
         [i \in 1 .. nof_named_sub(n, num) |->
             LET p == named_sub_of(n, num, i - 1) IN <<n.strings[p[1] + 1], IrepOf(n, p[2])>>])
FlagsOf(bits) == {Flags[i] : i \in {j \in DOMAIN Flags : (bits \div 2 ^ (Len(Flags) - j)) % 2 = 1}}

Took(x, r) == [r |-> r, vs |-> Append(x.vs, r.got)]
(* A bit from 16 on is refused.                                            *)
KnownBits(r) == IF r.err \/ r.got >= 2 ^ 16 THEN Failed(r) ELSE r
read_flags(r) == KnownBits(read_usize_varenc(expect(read_u8(r), 0)))
(* Three trees, five names and the flags.                                  *)
RECURSIVE read_members(_)
read_members(x) ==
    CASE x.r.err \/ Len(x.vs) = 9 -> x
      [] ~x.r.err /\ Len(x.vs) < 3 -> read_members(Took(x, read_numbered_irep_ref(x.r)))
      [] ~x.r.err /\ Len(x.vs) \in 3 .. 7 -> read_members(Took(x, read_numbered_string_ref(x.r)))
      [] OTHER -> read_members(Took(x, read_flags(x.r)))
SymbolOf(n, vs) ==
    [typ |-> IrepOf(n, vs[1]), value |-> IrepOf(n, vs[2]), location |-> IrepOf(n, vs[3]),
     names |-> [i \in 1 .. 5 |-> n.strings[vs[3 + i] + 1]], flags |-> FlagsOf(vs[9])]
AddSymbol(a, x) ==
    IF x.r.err THEN [a EXCEPT !.r = Failed(@)]
    ELSE [r |-> x.r, syms |-> Append(a.syms, SymbolOf(x.r.n, x.vs))]
read_symbol(a) == AddSymbol(a, read_members([r |-> a.r, vs |-> <<>>]))
read_header(r) ==
    expect(read_usize_varenc(FoldLeft(LAMBDA x, b : expect(read_u8(x), b), r, <<127, 71, 66, 70>>)), 6)
RECURSIVE ReadSymbols(_, _)
ReadSymbols(a, len) ==
    IF a.r.err \/ Len(a.syms) = len THEN a ELSE ReadSymbols(read_symbol(a), len)
read_symbols(len) == ReadSymbols([r |-> len, syms |-> <<>>], len.got)
Program(read) ==
    IF expect(read_usize_varenc(read.r), 0).err THEN [ok |-> FALSE, syms |-> <<>>]
    ELSE [ok |-> TRUE, syms |-> read.syms]
read_file(bytes) == Program(read_symbols(read_usize_varenc(read_header(Deserializer(bytes)))))

-------------------------------------------------------------------------------
(* Filling the table.  An assertion of the code is a guard: the call that  *)
(* would fail it is not made.                                              *)

Init ==
    /\ table = [n \in {EnvSymbols[i].name : i \in DOMAIN EnvSymbols} |->
                 EnvSymbols[CHOOSE i \in DOMAIN EnvSymbols : EnvSymbols[i].name = n]]
    /\ phase = "build" /\ todo = {} /\ done = <<>> /\ w = Serializer /\ file = <<>>
    /\ result = [ok |-> FALSE, syms |-> <<>>]

is_function_declaration(s) == s.typ.k \in {"Code", "VariadicCode"} /\ s.value = <<"None">>
completes(new, old) ==
    /\ \/ old.k = "IncompleteStruct" /\ new.k = "Struct"
       \/ old.k = "IncompleteUnion" /\ new.k = "Union"
    /\ old.tag = new.tag

ensure(s) ==
    /\ s.name \notin DOMAIN table
    /\ table' = table @@ (s.name :> s)
    /\ UNCHANGED <<phase, todo, done, w, file, result>>
replace_with_completion(s) ==
    /\ s.name \in DOMAIN table
    /\ completes(s.typ, table[s.name].typ)
    /\ table' = [table EXCEPT ![s.name] = s]
    /\ UNCHANGED <<phase, todo, done, w, file, result>>
(* The body is built first: an assertion at the location of a built-in     *)
(* function panics.                                                        *)
RECURSIVE Panics(_)
Panics(s) == s.loc = PanicLocation \/ \E i \in DOMAIN s.body : Panics(s.body[i])
update_fn_declaration_with_definition(name, body) ==
    /\ name \in DOMAIN table
    /\ is_function_declaration(table[name])
    /\ IF Panics(body) THEN phase' = "panic" /\ UNCHANGED table
       ELSE table' = [table EXCEPT ![name].value = <<"Stmt", body>>] /\ UNCHANGED phase
    /\ UNCHANGED <<todo, done, w, file, result>>
attach_contract(name, assigns) ==
    /\ name \in DOMAIN table
    /\ table[name].typ.k = "Code"
    /\ Len(FlattenSeq(table[name].contract)) < MaxAssigns
    /\ table' = [table EXCEPT ![name].contract = IF @ = <<>> THEN <<assigns>> ELSE <<@[1] \o assigns>>]
    /\ UNCHANGED <<phase, todo, done, w, file, result>>
set_is_static_const(name) ==
    /\ name \in DOMAIN table
    /\ table' = [table EXCEPT ![name].is_static_const = TRUE]
    /\ UNCHANGED <<phase, todo, done, w, file, result>>

(* write_goto_binary_file: the header and the number of symbols, then the  *)
(* symbols in the order of the interner, then the empty function map.      *)
StartFile ==
    /\ phase = "build" /\ phase' = "write"
    /\ todo' = {symbol_to_irep(table[n]) : n \in DOMAIN table}
    /\ w' = write_usize_varenc(write_header(w), Cardinality(DOMAIN table))
    /\ UNCHANGED <<table, done, file, result>>
WriteSymbol(s) ==
    /\ phase = "write"
    /\ todo' = todo \ {s} /\ done' = Append(done, s)
    /\ write_symbol(w, s, w')
    /\ UNCHANGED <<table, phase, file, result>>
EndFile ==
    /\ phase = "write" /\ todo = {}
    /\ phase' = "written"
    /\ w' = write_function_map(w)
    /\ file' = w'.out
    /\ UNCHANGED <<table, todo, done, result>>
read_goto_binary_file ==
    /\ phase = "written" /\ phase' = "read"
    /\ result' = read_file(file)
    /\ UNCHANGED <<table, todo, done, w, file>>

Building == phase = "build"
Next ==
    \/ \E i \in DOMAIN Declared : Building /\ ensure(Declared[i])
    \/ \E i \in DOMAIN Completions : Building /\ replace_with_completion(Completions[i])
    \/ \E i \in DOMAIN Bodies :
          Building /\ update_fn_declaration_with_definition(Bodies[i][1], Bodies[i][2])
    \/ \E i \in DOMAIN Contracts : Building /\ attach_contract(Contracts[i][1], Contracts[i][2])
    \/ \E n \in Consts : Building /\ set_is_static_const(n)
    \/ StartFile
    \/ \E s \in todo : WriteSymbol(s)
    \/ EndFile
    \/ read_goto_binary_file
Spec == Init /\ [][Next]_vars

-------------------------------------------------------------------------------
(* What CBMC makes of an irep: a number of its text, the bits of a type    *)
(* (the components behind a tag are those of the symbol of that name), and *)
(* the class and message of every assertion in a tree.                     *)

Decimal(t) == CHOOSE n \in 0 .. 256 : from_int(n) = t
Hexadecimal(t) == CHOOSE n \in 0 .. 256 : Hex(n) = t
Named(irep, key) == lookup(irep, key)[1][2]
RECURSIVE CbmcBits(_, _)
CbmcBits(syms, t) ==
    LET tagged == {i \in DOMAIN syms : syms[i].names[1] = Named(t, "Identifier").id}
        parts == Named(t, "Components").sub
        bits == [i \in DOMAIN parts |-> CbmcBits(syms, Named(parts[i], "Type"))]
    IN CASE t.id \in {"Code", "Empty", "Nil"} -> 0
         [] t.id \in {"Array", "Vector"} ->
               Hexadecimal(Named(Named(t, "Size"), "Value").id) * CbmcBits(syms, t.sub[1])
         [] t.id \in {"StructTag", "UnionTag"} -> CbmcBits(syms, syms[CHOOSE i \in tagged : TRUE].typ)
         [] t.id = "Struct" -> FoldSeq(+, 0, bits)
         [] t.id = "Union" -> FoldSeq(LAMBDA x, y : IF x > y THEN x ELSE y, 0, bits)
         [] OTHER -> Decimal(Named(t, "Width").id)

SymbolBits(s) ==
    CASE s.typ.k = "Struct" -> sizeof_in_bits(struct_tag(s.name))
      [] s.typ.k = "Union" -> sizeof_in_bits(union_tag(s.name))
      [] OTHER -> sizeof_in_bits(s.typ)
ConstantKept(e, irep) ==
    LET text == Named(irep, "Value").id
        width == native_width(e.t)
    IN e.e = "IntConstant" =>
         IF width = NoWidth THEN Decimal(text) = e.v
         ELSE Hexadecimal(text) = (IF e.v < 0 THEN e.v + 2 ^ width ELSE e.v)

RECURSIVE CbmcChecks(_)
CbmcChecks(irep) ==
    LET here == IF irep.id = "Code" /\ lookup(irep, "Statement") # <<>>
                   /\ Named(irep, "Statement").id = "Assert"
                THEN LET loc == Named(irep, "CSourceLocation")
                     IN <<<<Named(loc, "PropertyClass").id, Named(loc, "Comment").id>>>>
                ELSE <<>>
    IN here \o FlattenSeq([i \in DOMAIN irep.sub |-> CbmcChecks(irep.sub[i])])
RECURSIVE ExprChecks(_)
RECURSIVE Checks(_)
ExprChecks(e) ==
    FlattenSeq([i \in DOMAIN e.sub |-> ExprChecks(e.sub[i])])
    \o (IF e.e = "StatementExpression" THEN Checks(e.v) ELSE <<>>)
Checks(s) ==
    (IF s.s # "Assert" THEN <<>>
     ELSE IF HasProperty(s.v.given) THEN <<<<s.v.given.property_class, s.v.given.comment>>>>
     ELSE <<<<s.v.class, s.v.msg>>>>)
    \o FlattenSeq([i \in DOMAIN s.sub |-> ExprChecks(s.sub[i])])
    \o FlattenSeq([i \in DOMAIN s.body |-> Checks(s.body[i])])

RECURSIVE SubIreps(_)
SubIreps(irep) ==
    {irep} \cup UNION {SubIreps(irep.sub[i]) : i \in DOMAIN irep.sub}
           \cup UNION {SubIreps(irep.named[i][2]) : i \in DOMAIN irep.named}

-------------------------------------------------------------------------------
(* Reading the file gives back, for every symbol and in the same order,    *)
(* the trees, names and flags that were written: the numbers that stand    *)
(* for what occurred before, the escapes and the variable-length numbers   *)
(* are undone exactly.  It fails for a text with a NUL, and for no other:  *)
(* write_numbered_string_ref escapes the digit '0' in place of the byte 0  *)
(* that its comment names (:459), so the reader ends the text there.       *)
HasNul(t) == t \in DOMAIN Spelled /\ 0 \in Range(Spelled[t])
RoundTrip ==
    phase = "read" => (result.ok /\ result.syms = done <=> ~\E t \in Range(w.n.strings) : HasNul(t))

(* Every distinct irep is written in full exactly once, whatever the order *)
(* of the symbols, and no two numbers stand for the same text.             *)
Sharing ==
    /\ IsInjective(w.n.strings)
    /\ w.full = Cardinality(UNION {SubIreps(done[i].typ) \cup SubIreps(done[i].value)
                                    \cup SubIreps(done[i].location) : i \in DOMAIN done})

(* CBMC finds in the file what the code generator put into the table: the  *)
(* size of every complete type, the value of every integer constant, and   *)
(* every assertion with its class and message, which reach CBMC only       *)
(* through the location of the statement.  An assertion at a location that *)
(* has a property already is found with that one's class and message in    *)
(* place of its own.                                                       *)
MeaningKept ==
    phase = "read" /\ result.ok =>
        \A i \in DOMAIN result.syms :
            LET irep == result.syms[i]
                s == table[irep.names[1]]
            IN /\ s.typ.k \notin {"Integer", "InfiniteArray", "IncompleteStruct", "IncompleteUnion"}
                     => CbmcBits(result.syms, irep.typ) = SymbolBits(s)
               /\ s.value[1] = "Expr" => ConstantKept(s.value[2], irep.value)
               /\ s.value[1] = "Stmt" =>
                     LET put == Checks(s.value[2])
                         found == CbmcChecks(irep.value)
                     IN Len(put) = Len(found) /\ ToSet(put) = ToSet(found)
===============================================================================
