------------------------------- MODULE GotoIrep -------------------------------
(***************************************************************************)
(* The translation of a goto program into CBMC's uniform tree, the irep    *)
(* (cprover_bindings/src/irep/to_irep.rs, irep.rs, irep_id.rs), and the    *)
(* constructors of the statements, locations and symbols it starts from.   *)
(*                                                                         *)
(* An irep has an id (its text), operands `sub' and, in the order they     *)
(* were added, named operands.  An expression, statement, location or      *)
(* symbol is a record whose first field names the variant; an Option is a  *)
(* sequence of at most one element.  An IrepId variant stands for its text.*)
(***************************************************************************)
EXTENDS GotoType, TLC

Irep(id, sub, named) == [id |-> id, sub |-> sub, named |-> named]
just_id(id) == Irep(id, <<>>, <<>>)
nil == just_id("Nil")
one_irep == just_id("1")
zero_irep == just_id("0")
just_sub(ireps) == Irep("", ireps, <<>>)
just_named_sub(pairs) == Irep("", <<>>, pairs)
tuple(ireps) == Irep("Tuple", ireps, <<<<"Type", just_id("Tuple")>>>>)
lookup(irep, key) == SelectSeq(irep.named, LAMBDA p : p[1] = key)

(* A nil value is not added; a key that is there keeps its place.          *)
with_named_sub(irep, key, value) ==
    CASE value.id = "Nil" -> irep
      [] lookup(irep, key) # <<>> ->
            [irep EXCEPT !.named = [i \in DOMAIN irep.named |->
                 IF irep.named[i][1] = key THEN <<key, value>> ELSE irep.named[i]]]
      [] OTHER -> [irep EXCEPT !.named = Append(@, <<key, value>>)]
with_named_sub_option(irep, key, value) ==
    IF value = <<>> THEN irep ELSE with_named_sub(irep, key, value[1])

-------------------------------------------------------------------------------
(* Numbers become text: decimal for an integer, hexadecimal for the bits.  *)

two_complement(i, width) == max_int(width, FALSE) - (-i - 1)
HexDigits == <<"0", "1", "2", "3", "4", "5", "6", "7", "8", "9", "A", "B", "C", "D", "E", "F">>
RECURSIVE Hex(_)
Hex(n) == IF n < 16 THEN HexDigits[n + 1] ELSE Hex(n \div 16) \o HexDigits[(n % 16) + 1]
from_int(i) == ToString(i)
just_int_id(i) == just_id(from_int(i))
bitpattern_from_int(i, width) == Hex(IF i < 0 THEN two_complement(i, width) ELSE i)
just_bitpattern_id(i, width) == just_id(bitpattern_from_int(i, width))

-------------------------------------------------------------------------------
(* Locations.                                                              *)

LocNone == [l |-> "None"]
Loc(file, function, line, col, pragmas) ==
    [l |-> "Loc", file |-> file, function |-> function, line |-> line, col |-> col,
     pragmas |-> pragmas]
builtin_location(name, line) == [l |-> "BuiltinFunction", function_name |-> name, line |-> line]

create_location_with_propertySwapped(comment, class, loc) ==
    CASE loc.l = "Loc" ->
            [l |-> "Property", file |-> loc.file, function |-> loc.function, line |-> loc.line,
             col |-> loc.col, comment |-> comment, property_class |-> class, pragmas |-> loc.pragmas]
      [] loc.l = "None" ->
            [l |-> "PropertyUnknownLocation", comment |-> class, property_class |-> comment]
      [] loc.l = "BuiltinFunction" -> [l |-> "panic"]
      [] OTHER -> loc

(* The location of a check carries its class and its message; one that     *)
(* already does keeps them.  property_location unwraps the file, which a   *)
(* built-in function does not have.                                        *)
PanicLocation == [l |-> "panic"]
HasProperty(loc) == loc.l \in {"Property", "PropertyUnknownLocation"}
create_location_with_property(comment, class, loc) ==
    CASE loc.l = "Loc" ->
            [l |-> "Property", file |-> loc.file, function |-> loc.function, line |-> loc.line,
             col |-> loc.col, comment |-> comment, property_class |-> class,
             pragmas |-> loc.pragmas]
      [] loc.l = "None" ->
            [l |-> "PropertyUnknownLocation", comment |-> comment, property_class |-> class]
      [] loc.l = "BuiltinFunction" -> PanicLocation
      [] HasProperty(loc) -> loc

Option(o, Op(_)) == [i \in DOMAIN o |-> Op(o[i])]
PragmaIrep(pragmas) == just_named_sub([i \in DOMAIN pragmas |-> <<pragmas[i], just_id("")>>])
location_to_irep(loc) ==
    LET place == with_named_sub_option(with_named_sub_option(
                    just_named_sub(<<<<"File", just_id(loc.file)>>,
                                     <<"Line", just_int_id(loc.line)>>>>),
                    "Column", Option(loc.col, just_int_id)),
                    "Function", Option(loc.function, just_id))
    IN CASE loc.l = "None" -> nil
         [] loc.l = "BuiltinFunction" ->
               with_named_sub_option(
                   just_named_sub(<<<<"File", just_id("<builtin-library-" \o loc.function_name \o ">")>>,
                                    <<"Function", just_id(loc.function_name)>>>>),
                   "Line", Option(loc.line, just_int_id))
         [] loc.l = "Loc" -> with_named_sub(place, "Pragma", PragmaIrep(loc.pragmas))
         [] loc.l = "Property" ->
               with_named_sub(with_named_sub(with_named_sub(place,
                   "Comment", just_id(loc.comment)),
                   "PropertyClass", just_id(loc.property_class)),
                   "Pragma", PragmaIrep(loc.pragmas))
         [] loc.l = "PropertyUnknownLocation" ->
               just_named_sub(<<<<"Comment", just_id(loc.comment)>>,
                                <<"PropertyClass", just_id(loc.property_class)>>>>)
with_location(irep, loc) ==
    IF loc.l = "None" THEN irep ELSE with_named_sub(irep, "CSourceLocation", location_to_irep(loc))

-------------------------------------------------------------------------------
(* Expressions: e the variant, t the type, sub the operands, v what else   *)
(* the variant carries (a number, a name, an operator, a type).            *)

ExprAt(e, t, sub, v, loc) ==
    [e |-> e, t |-> t, sub |-> sub, v |-> v, loc |-> loc, size_of |-> <<>>]
Node(e, t, sub, v) == ExprAt(e, t, sub, v, LocNone)
IntConstant(i, t) == Node("IntConstant", t, <<>>, i)
bool_true == Node("BoolConstant", bool_ty, <<>>, TRUE)
SymbolExpr(name, t) == Node("Symbol", t, <<>>, name)
with_size_of_annotation(e, t) == [e EXCEPT !.size_of = <<t>>]

(* Variants whose operands are the operands of the irep.                   *)
Plain == {"AddressOf", "Array", "ArrayOf", "Dereference", "If", "Index", "Struct", "Typecast",
          "Vector", "EmptyUnion"}
FloatWidth(e) == CASE e = "FloatConstant" -> MachineModel.float_width
                   [] e = "DoubleConstant" -> MachineModel.double_width
                   [] e = "Float16Constant" -> 16
                   [] e = "Float128Constant" -> 128
Floats == {"FloatConstant", "DoubleConstant", "Float16Constant", "Float128Constant"}
ValueConstant(value) == Irep("Constant", <<>>, <<<<"Value", value>>>>)
code_irep(kind, ops) == Irep("Code", ops, <<<<"Statement", just_id(kind)>>>>)
side_effect_irep(kind, ops) == Irep("SideEffect", ops, <<<<"Statement", just_id(kind)>>>>)
symbol_irep(name) == Irep("Symbol", <<>>, <<<<"Identifier", just_id(name)>>>>)
BitsPerByte == <<"BitsPerByte", just_int_id(8)>>

RECURSIVE type_to_irep(_)
RECURSIVE expr_to_irep(_)
RECURSIVE stmt_to_irep(_)

Exprs(es) == [i \in DOMAIN es |-> expr_to_irep(es[i])]
arguments_irep(args) == Irep("Arguments", Exprs(args), <<>>)

expr_value_to_irep(x, ops) ==
    CASE x.e \in Plain -> Irep(x.e, ops, <<>>)
      [] x.e = "BinOp" -> Irep(x.v, ops, <<>>)
      [] x.e = "ReadOk" -> Irep("ROk", ops, <<>>)
      [] x.e = "UnOp" ->
            Irep(x.v.op, ops, CASE x.v.op = "Bswap" -> <<BitsPerByte>>
                                [] x.v.op \in {"CountLeadingZeros", "CountTrailingZeros"} ->
                                     <<<<"CBoundsCheck", IF x.v.allow_zero THEN zero_irep ELSE one_irep>>>>
                                [] OTHER -> <<>>)
      [] x.e = "BoolConstant" -> ValueConstant(just_id(IF x.v THEN "True" ELSE "False"))
      [] x.e = "CBoolConstant" ->
            ValueConstant(just_bitpattern_id(IF x.v THEN 1 ELSE 0, MachineModel.bool_width))
      [] x.e \in Floats -> ValueConstant(just_bitpattern_id(x.v, FloatWidth(x.e)))
      [] x.e = "PointerConstant" ->
            ValueConstant(IF x.v = 0 THEN just_id("NULL")
                          ELSE just_bitpattern_id(x.v, MachineModel.pointer_width))
      [] x.e = "StringConstant" -> Irep("StringConstant", <<>>, <<<<"Value", just_id(x.v)>>>>)
      [] x.e = "Symbol" -> symbol_irep(x.v)
      [] x.e = "ByteExtract" ->
            Irep(IF MachineModel.is_big_endian THEN "ByteExtractBigEndian" ELSE "ByteExtractLittleEndian",
                 Append(ops, expr_to_irep(IntConstant(x.v, ssize_t))), <<BitsPerByte>>)
      [] x.e = "Member" ->
            Irep("Member", ops, <<<<"CLvalue", one_irep>>, <<"ComponentName", just_id(x.v)>>>>)
      [] x.e = "Union" -> Irep("Union", ops, <<<<"ComponentName", just_id(x.v)>>>>)
      [] x.e \in {"Forall", "Exists"} -> Irep(x.e, <<Irep("Tuple", <<ops[1]>>, <<>>), ops[2]>>, <<>>)
      [] x.e = "ShuffleVector" ->
            Irep("ShuffleVector", <<ops[1], ops[2], just_sub(SubSeq(ops, 3, Len(ops)))>>, <<>>)
      [] x.e \in {"Assign", "Nondet"} -> side_effect_irep(x.e, ops)
      [] x.e = "SelfOp" -> side_effect_irep(x.v, ops)
      [] x.e = "FunctionCall" ->
            side_effect_irep("FunctionCall", <<ops[1], arguments_irep(Tail(x.sub))>>)
      [] x.e = "StatementExpression" -> side_effect_irep("StatementExpression", <<stmt_to_irep(x.v)>>)

(* An integer constant needs its type for its text; an annotated one says  *)
(* the size of which type it is.                                           *)
IntText(i, width) ==
    ValueConstant(IF width # NoWidth THEN just_bitpattern_id(i, width) ELSE just_int_id(i))
expr_to_irep(x) ==
    with_named_sub_option(
        with_named_sub(
            with_location(IF x.e = "IntConstant" THEN IntText(x.v, native_width(x.t))
                          ELSE expr_value_to_irep(x, Exprs(x.sub)), x.loc),
            "Type", type_to_irep(x.t)),
        "CCSizeofType", Option(x.size_of, type_to_irep))

-------------------------------------------------------------------------------
(* Types.                                                                  *)

component_to_irep(c) ==
    IF c.c = "Padding"
    THEN just_named_sub(<<<<"CIsPadding", one_irep>>, <<"Name", just_id(c.name)>>,
                          <<"Type", type_to_irep(unsigned_int(c.bits))>>>>)
    ELSE just_named_sub(<<<<"Name", just_id(c.name)>>, <<"CPrettyName", just_id(c.name)>>,
                          <<"Type", type_to_irep(IF c.c = "UnionField" THEN c.padded_typ
                                                 ELSE c.typ)>>>>)
parameter_to_irep(p) ==
    with_named_sub_option(with_named_sub_option(
        Irep("Parameter", <<>>, <<<<"Type", type_to_irep(p.typ)>>>>),
        "CIdentifier", Option(p.identifier, just_id)), "CBaseName", Option(p.base_name, just_id))
Sized(id, width) == Irep(id, <<>>, <<<<"Width", just_int_id(width)>>>>)
ArrayIrep(id, t, size) == Irep(id, <<type_to_irep(t)>>, <<<<"Size", size>>>>)
FloatIrep(f, width, ctype) ==
    Irep("Floatbv", <<>>, <<<<"F", just_int_id(f)>>, <<"Width", just_int_id(width)>>,
                            <<"CCType", just_id(ctype)>>>>)
Components(cs) == just_sub([i \in DOMAIN cs |-> component_to_irep(cs[i])])
CodeIrep(t, params) ==
    Irep("Code", <<>>, <<<<"Parameters", params>>, <<"ReturnType", type_to_irep(t.return_type)>>>>)
Parameters(t) == just_sub([i \in DOMAIN t.parameters |-> parameter_to_irep(t.parameters[i])])

type_to_irep(t) ==
    CASE t.k \in {"Array", "Vector", "FlexibleArray"} ->
            ArrayIrep(IF t.k = "Vector" THEN t.k ELSE "Array", t.typ,
                      expr_to_irep(IntConstant(IF t.k = "FlexibleArray" THEN 0 ELSE t.size, ssize_t)))
      [] t.k = "InfiniteArray" ->
            ArrayIrep("Array", t.typ,
                      with_named_sub(just_id("Infinity"), "Type", type_to_irep(ssize_t)))
      [] t.k = "CBitField" -> Irep("CBitField", <<type_to_irep(t.typ)>>,
                                   <<<<"Width", just_int_id(t.width)>>>>)
      [] t.k \in {"Bool", "Constructor", "Empty", "Integer"} -> just_id(t.k)
      [] t.k = "CInteger" ->
            Sized(CASE t.c = "Bool" -> "CBool"
                    [] t.c = "SizeT" \/ (t.c = "Char" /\ MachineModel.char_is_unsigned) -> "Unsignedbv"
                    [] OTHER -> "Signedbv", CIntWidth(t.c))
      [] t.k \in {"Signedbv", "Unsignedbv"} -> Sized(t.k, t.width)
      [] t.k = "Float" -> FloatIrep(23, 32, "Float")
      [] t.k = "Double" -> FloatIrep(52, 64, "Double")
      [] t.k = "Float16" -> FloatIrep(10, 16, "Float16")
      [] t.k = "Float128" -> FloatIrep(112, 128, "Float128")
      [] t.k = "Pointer" -> Irep("Pointer", <<type_to_irep(t.typ)>>,
                                 <<<<"Width", just_int_id(MachineModel.pointer_width)>>>>)
      [] t.k = "Code" -> CodeIrep(t, Parameters(t))
      [] t.k = "VariadicCode" -> CodeIrep(t, with_named_sub(Parameters(t), "Ellipsis", one_irep))
      [] t.k = "IncompleteStruct" -> Irep("Struct", <<>>, <<<<"Tag", just_id(t.tag)>>, <<"Incomplete", one_irep>>>>)
      [] t.k = "IncompleteUnion" -> Irep("Union", <<>>, <<<<"Tag", just_id(t.tag)>>, <<"Incomplete", one_irep>>>>)
      [] t.k \in {"Struct", "Union"} ->
            Irep(t.k, <<>>, <<<<"Tag", just_id(t.tag)>>, <<"Components", Components(t.components)>>>>)
      [] t.k \in {"StructTag", "UnionTag"} -> Irep(t.k, <<>>, <<<<"Identifier", just_id(t.tag)>>>>)
      [] t.k = "TypeDef" -> with_named_sub(type_to_irep(t.typ), "CTypedef", just_id(t.name))

-------------------------------------------------------------------------------
(* Statements: s the variant, sub its expressions, body its statements.    *)

StmtAt(s, sub, body, v, loc) == [s |-> s, sub |-> sub, body |-> body, v |-> v, loc |-> loc]
(* `given' is for the properties only.                                     *)
assert_stmt(cond, class, msg, loc) ==
    StmtAt("Assert", <<cond>>, <<>>, [class |-> class, msg |-> msg, given |-> loc],
           create_location_with_property(msg, class, loc))
goto_stmt(dest, inv, modifies, loc) ==
    StmtAt("Goto", <<>>, <<>>, [dest |-> dest, inv |-> inv, modifies |-> modifies], loc)

OptExpr(o) == IF o = <<>> THEN nil ELSE expr_to_irep(o[1])
OptStmt(o) == IF o = <<>> THEN nil ELSE stmt_to_irep(o[1])
Stmts(ss) == [i \in DOMAIN ss |-> stmt_to_irep(ss[i])]
switch_case_irep(case, body) ==
    with_location(code_irep("SwitchCase", <<expr_to_irep(case), stmt_to_irep(body)>>), body.loc)
switch_default_irep(body) ==
    with_location(with_named_sub(code_irep("SwitchCase", <<nil, stmt_to_irep(body)>>),
                                 "Default", one_irep), body.loc)

stmt_body_to_irep(x, ops, body) ==
       CASE x.s \in {"Assign", "Assert", "Assume", "Dead", "Decl", "Expression", "Break", "Continue",
                     "Skip"} -> code_irep(x.s, ops)
         [] x.s = "Block" -> code_irep("Block", body)
         [] x.s = "AtomicBlock" ->
               code_irep("Block", <<code_irep("AtomicBegin", <<>>)>> \o body
                                  \o <<code_irep("AtomicEnd", <<>>)>>)
         [] x.s = "For" -> code_irep("For", <<body[1], ops[1], body[2], body[3]>>)
         [] x.s = "While" -> code_irep("While", <<ops[1], body[1]>>)
         [] x.s = "FunctionCall" ->
               code_irep("FunctionCall", <<OptExpr(x.v), ops[1], arguments_irep(Tail(x.sub))>>)
         [] x.s = "Ifthenelse" -> code_irep("Ifthenelse", <<ops[1], body[1], OptStmt(Tail(x.body))>>)
         [] x.s = "Return" -> code_irep("Return", <<OptExpr(x.sub)>>)
         [] x.s = "Label" -> with_named_sub(code_irep("Label", body), "Label", just_id(x.v))
         [] x.s = "Goto" ->
               with_named_sub_option(with_named_sub_option(
                   with_named_sub(code_irep("Goto", <<>>), "Destination", just_id(x.v.dest)),
                   "CSpecLoopInvariant",
                   Option(x.v.inv, LAMBDA e : expr_to_irep(Node("BinOp", bool_ty, <<e, bool_true>>, "And")))),
                   "CSpecAssigns",
                   Option(x.v.modifies, LAMBDA es : just_sub(<<just_sub(Exprs(es))>>)))
         [] x.s = "Switch" ->
               LET cases == [i \in DOMAIN x.v |-> switch_case_irep(x.v[i], x.body[i])]
                   default == SubSeq(x.body, Len(x.v) + 1, Len(x.body))
               IN code_irep("Switch", <<ops[1], code_irep("Block",
                      cases \o [i \in DOMAIN default |-> switch_default_irep(default[i])])>>)
stmt_to_irep(x) == with_location(stmt_body_to_irep(x, Exprs(x.sub), Stmts(x.body)), x.loc)

-------------------------------------------------------------------------------
(* Symbols.                                                                *)

Flags == <<"is_weak", "is_type", "is_property", "is_macro", "is_exported", "is_input", "is_output",
           "is_state_var", "is_parameter", "is_auxiliary", "is_binding", "is_lvalue",
           "is_static_lifetime", "is_thread_local", "is_file_local", "is_extern", "is_volatile">>
(* A value is <<"None">>, <<"Expr", e>> or <<"Stmt", s>>.                   *)
SymbolNew(name, loc, typ, value, base_name, pretty_name, flags) ==
    [name |-> name, location |-> loc, typ |-> typ, value |-> value, contract |-> <<>>,
     base_name |-> base_name, pretty_name |-> pretty_name, is_static_const |-> FALSE,
     flags |-> {"is_auxiliary"} \cup flags]
aggr_tag(tag) == "tag-" \o tag
aggr_ty(t, pretty) ==
    SymbolNew(aggr_tag(t.tag), LocNone, t, <<"None">>, <<t.tag>>, <<pretty>>, {"is_type"})
constant_symbol(name, e) ==
    SymbolNew(name, LocNone, e.t, <<"Expr", e>>, <<name>>, <<name>>, {"is_static_lifetime"})
function_symbol(name, typ, pretty, loc) ==
    SymbolNew(name, loc, typ, <<"None">>, <<name>>, <<pretty>>, {"is_lvalue"})
builtin_function(name, typ) == function_symbol(name, typ, name, builtin_location(name, <<>>))
variable(name, base, t, loc) ==
    SymbolNew(name, loc, t, <<"None">>, <<base>>, <<>>, {"is_thread_local", "is_lvalue", "is_state_var"})
static_variable(name, base, t, loc) ==
    [variable(name, base, t, loc) EXCEPT
        !.flags = (@ \ {"is_thread_local"}) \cup {"is_static_lifetime"}]
typedef(name, t) ==
    SymbolNew(name, LocNone, t, <<"None">>, <<name>>, <<name>>,
              {"is_type", "is_file_local", "is_static_lifetime"})
(* What the lambda of an assigns clause is about: the result, then the     *)
(* parameters.                                                             *)
as_contract_for(fn_ty, body) ==
    [arguments |-> <<[typ |-> fn_ty.return_type, identifier |-> <<>>, base_name |-> <<>>]>>
                   \o fn_ty.parameters, body |-> body]

lambda_to_irep(l) ==
    LET types == [i \in DOMAIN l.arguments |-> type_to_irep(l.arguments[i].typ)]
        ops == [i \in DOMAIN l.arguments |->
                  LET id == l.arguments[i].identifier
                  IN with_named_sub(symbol_irep(IF id = <<>> THEN "_modifies_" \o ToString(i - 1)
                                                ELSE id[1]), "Type", types[i])]
    IN Irep("Lambda", <<tuple(ops), expr_to_irep(l.body)>>,
            <<<<"Type", Irep("MathematicalFunction",
                             <<just_sub(types), type_to_irep(l.body.t)>>, <<>>)>>>>)

OrEmpty(o) == IF o = <<>> THEN "" ELSE o[1]
with_contract(s, typ) ==
    IF s.contract = <<>> THEN typ
    ELSE with_named_sub(typ, "CSpecAssigns",
            just_sub([i \in DOMAIN s.contract[1] |-> lambda_to_irep(s.contract[1][i])]))
with_const(s, typ) == IF s.is_static_const THEN with_named_sub(typ, "CConstant", just_int_id(1)) ELSE typ
symbol_to_irep(s) ==
       [typ |-> with_const(s, with_contract(s, type_to_irep(s.typ))),
        value |-> CASE s.value[1] = "None" -> nil
                    [] s.value[1] = "Expr" -> expr_to_irep(s.value[2])
                    [] s.value[1] = "Stmt" -> stmt_to_irep(s.value[2]),
        location |-> location_to_irep(s.location),
        names |-> <<s.name, "", OrEmpty(s.base_name), "C", OrEmpty(s.pretty_name)>>,
        flags |-> s.flags]
===============================================================================
