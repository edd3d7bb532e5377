---------------------------- MODULE MCGotoBinary ----------------------------
(***************************************************************************)
(* A small symbol table: a union, a struct with it that is declared before *)
(* it is complete, a static, and a function with one of several bodies     *)
(* that between them use every kind of statement and expression.  Messages *)
(* and file names contain the characters that are escaped, one outside     *)
(* ASCII, and a NUL.                                                       *)
(***************************************************************************)
EXTENDS GotoBinary

MCMachineModel ==
    [bool_width |-> 8, char_width |-> 8, int_width |-> 32, long_int_width |-> 64,
     pointer_width |-> 64, float_width |-> 32, double_width |-> 64, char_is_unsigned |-> FALSE,
     is_big_endian |-> FALSE]

U8 == unsigned_int(8)
I8 == signed_int(8)
SFields == <<Field("a", U8), Padding("pad", 24), Field("u", union_tag("tag-U")),
             Field("p", to_pointer(struct_tag("tag-S"))), Field("v", array_of(I8, 3))>>
UFields == <<[c |-> "UnionField", name |-> "x", typ |-> U8, bits |-> 32, padded_typ |-> unsigned_int(32)],
             [c |-> "UnionField", name |-> "y", typ |-> unsigned_int(32), bits |-> 32,
              padded_typ |-> unsigned_int(32)]>>
MCSymbolTable == [n \in {"tag-S", "tag-U"} |-> IF n = "tag-S" THEN SFields ELSE UFields]

STy == struct_tag("tag-S")
Here == Loc("C:\\src", <<"f">>, 10, <<3>>, <<"disable:bounds-check">>)
There == Loc("C:\\src", <<>>, 11, <<>>, <<>>)
FTy == code(<<[typ |-> STy, identifier |-> <<"f::s">>, base_name |-> <<"s">>],
              [typ |-> U8, identifier |-> <<>>, base_name |-> <<>>]>>, I8)

MCEnvSymbols ==
    <<aggr_ty([k |-> "Union", tag |-> "U", components |-> UFields], "U")>>
MCDeclared ==
    <<aggr_ty([k |-> "IncompleteStruct", tag |-> "S"], "S"),
      function_symbol("f", FTy, "f", Here),
      [static_variable("g", "g", I8, There) EXCEPT !.value = <<"Expr", IntConstant(-2, I8)>>]>>
MCCompletions == <<aggr_ty([k |-> "Struct", tag |-> "S", components |-> SFields], "S")>>
MCContracts == <<<<"f", <<as_contract_for(FTy, SymbolExpr("f::s", STy))>>>>>>
MCConsts == {"g"}

S == SymbolExpr("f::s", STy)
G == ExprAt("Symbol", I8, <<>>, "g", Here)
Byte(n) == IntConstant(n, I8)
Cond == Node("BinOp", bool_ty, <<Node("CBoolConstant", c_bool, <<>>, TRUE), G>>, "Lt")
Check(msg, loc) == assert_stmt(Cond, "assertion", msg, loc)
Again(msg, s) == assert_stmt(Cond, "safety", msg, s.loc)
Block(ss) == StmtAt("Block", <<>>, ss, <<>>, Here)
Unary(op) == Node("UnOp", I8, <<G>>, [op |-> op, allow_zero |-> op = "CountLeadingZeros"])
Use(e) == StmtAt("Expression", <<e>>, <<>>, <<>>, There)
Vec == vector_ty(I8, 2)

MCBodies ==
    <<<<"f", Block(<<StmtAt("Decl", <<G>>, <<>>, <<>>, Here),
                     StmtAt("Decl", <<G, Byte(0)>>, <<>>, <<>>, LocNone),
                     Check("100 \\ sure", Here), Check("plain", LocNone),
                     StmtAt("Return", <<G>>, <<>>, <<>>, Here)>>)>>,
      <<"f", Block(<<StmtAt("Switch", <<G>>, <<StmtAt("Skip", <<>>, <<>>, <<>>, Here), Check("caf\\e", There)>>,
                            <<Byte(-1)>>, Here),
                     goto_stmt("bb1", <<Cond>>, <<<<G>>>>, Here), goto_stmt("bb1", <<>>, <<>>, There),
                     StmtAt("Label", <<>>, <<StmtAt("Return", <<>>, <<>>, <<>>, Here)>>, "bb1", Here)>>)>>,
      <<"f", StmtAt("AtomicBlock", <<>>,
                    <<StmtAt("Assume", <<Cond>>, <<>>, <<>>, Here),
                      StmtAt("Ifthenelse", <<Cond>>, <<Check("plain", There), StmtAt("Break", <<>>, <<>>, <<>>, Here)>>, <<>>, Here),
                      StmtAt("Ifthenelse", <<Cond>>, <<StmtAt("Continue", <<>>, <<>>, <<>>, Here)>>, <<>>, Here),
                      StmtAt("FunctionCall", <<SymbolExpr("f", FTy), S, Byte(7)>>, <<>>, <<G>>, Here),
                      StmtAt("FunctionCall", <<SymbolExpr("f", FTy), S, Byte(7)>>, <<>>, <<>>, Here),
                      StmtAt("While", <<Cond>>, <<StmtAt("Skip", <<>>, <<>>, <<>>, Here)>>, <<>>, Here),
                      StmtAt("For", <<Cond>>, <<StmtAt("Skip", <<>>, <<>>, <<>>, Here), Check("plain", Here),
                             StmtAt("Dead", <<G>>, <<>>, <<>>, Here)>>, <<>>, Here)>>, <<>>, Here)>>,
      <<"f", Block(<<Use(Node("Member", U8, <<S>>, "a")), Use(Unary("Bswap")), Use(Unary("Not")),
                     Use(Unary("CountLeadingZeros")), Use(Unary("CountTrailingZeros")),
                     Use(with_size_of_annotation(IntConstant(8, size_t), STy)),
                     Use(Node("ByteExtract", U8, <<S>>, 2)),
                     Use(Node("Union", union_tag("tag-U"), <<IntConstant(3, U8)>>, "x")),
                     Use(Node("StatementExpression", I8, <<>>, Block(<<Check("plain", Here), Use(G)>>)))>>)>>,
      <<"f", Block(<<Use(Node("PointerConstant", void_pointer, <<>>, 0)),
                     Use(Node("PointerConstant", to_pointer([k |-> "FlexibleArray", typ |-> U8]), <<>>, 16)),
                     Use(Node("FloatConstant", float_ty("Float"), <<>>, 1)),
                     Use(Node("DoubleConstant", float_ty("Double"), <<>>, 1)),
                     Use(Node("Float16Constant", float_ty("Float16"), <<>>, 1)),
                     Use(Node("Float128Constant", float_ty("Float128"), <<>>, 1)),
                     Use(Node("StringConstant", to_pointer(CInteger("Char")), <<>>, "0")),
                     Use(Node("ReadOk", bool_ty, <<G, IntConstant(1, size_t)>>, 0)),
                     Use(Node("Forall", bool_ty, <<G, Cond>>, 0)), Use(Node("Exists", bool_ty, <<G, Cond>>, 0)),
                     Use(Node("ShuffleVector", Vec, <<Node("Vector", Vec, <<G, G>>, 0), Node("Vector", Vec, <<G, G>>, 0), Byte(1)>>, 0))>>)>>,
      <<"f", Block(<<StmtAt("Assign", <<G, Node("Nondet", I8, <<>>, 0)>>, <<>>, <<>>, Here),
                     Use(Node("Assign", I8, <<G, Byte(5)>>, 0)), Use(Node("SelfOp", I8, <<G>>, "Postincrement")),
                     Use(Node("FunctionCall", I8, <<SymbolExpr("h", [code(<<>>, empty_ty) EXCEPT !.k = "VariadicCode"]), G>>, 0)),
                     Use(Node("Typecast", [k |-> "TypeDef", name |-> "size", typ |-> size_t], <<G>>, 0)),
                     Use(Node("Typecast", [k |-> "CBitField", typ |-> U8, width |-> 3], <<bool_true>>, 0)),
                     Use(Node("EmptyUnion", [k |-> "Constructor"], <<>>, 0)),
                     Use(SymbolExpr("m", [k |-> "InfiniteArray", typ |-> U8])),
                     Use(SymbolExpr("o", [k |-> "IncompleteUnion", tag |-> "O"])),
                     assert_stmt(bool_true, "safety", "caf\\e", LocNone)>>)>>,
      <<"f", Block(<<Again("plain", Check("100 \\ sure", Here)), Again("plain", Check("100 \\ sure", LocNone))>>)>>,
      <<"f", Block(<<Check("with NUL", Here)>>)>>,
      <<"f", Block(<<Check("plain", builtin_location("f", <<1>>))>>)>> >>

MCSpelled == ("" :> <<>>) @@ ("0" :> <<48>>) @@ ("100 \\ sure" :> <<49, 48, 92, 115>>)
             @@ ("C:\\src" :> <<67, 92, 115>>) @@ ("caf\\e" :> <<99, 233>>)
             @@ ("with NUL" :> <<97, 0, 98>>)

MCVocabulary ==
    <<"8", "32", "64", "24", "3", "10", "11", "1", "2", "S", "Block", "7", "16", "5", "s",
      "a", "x", "p", "128", "u", "f", "v", "y", "o", "BitsPerByte", "size", "Components",
      "Parameters", "23", "52", "112", "Bool", "Assert", "g", "m", "F", "Empty", "Signedbv",
      "Unsignedbv", "Pointer", "StructTag", "UnionTag", "Array", "Vector", "Code", "Double",
      "Float", "Float16", "Float128", "Integer", "Struct", "Union", "CBitField", "Nil",
      "Tuple", "Type", "C", "File", "Line", "Column", "Function", "Pragma", "Comment",
      "PropertyClass", "CSourceLocation", "Symbol", "Typecast", "EmptyUnion", "Constant",
      "Value", "Statement", "SideEffect", "Identifier", "Arguments", "ROk", "Bswap",
      "CountLeadingZeros", "CountTrailingZeros", "CBoundsCheck", "True", "NULL",
      "StringConstant", "ByteExtractLittleEndian", "Member", "CLvalue", "ComponentName",
      "Forall", "Exists", "ShuffleVector", "Assign", "Nondet", "FunctionCall",
      "StatementExpression", "CCSizeofType", "CIsPadding", "Name", "CPrettyName",
      "Parameter", "CIdentifier", "CBaseName", "Width", "Size", "Floatbv", "CCType",
      "ReturnType", "Infinity", "Constructor", "CBool", "Ellipsis", "Tag", "Incomplete",
      "CTypedef", "Goto", "SwitchCase", "Default", "Assume", "Dead", "Decl", "Expression",
      "Break", "Continue", "Skip", "AtomicBegin", "AtomicEnd", "For", "While", "Ifthenelse",
      "Return", "Label", "Destination", "CSpecLoopInvariant", "And", "CSpecAssigns",
      "Switch", "Lambda", "MathematicalFunction", "CConstant", "pad", "tag-U", "tag-S",
      "disable:bounds-check", "f::s", "__CPROVER_architecture_alignment", "U", "Lt",
      "assertion", "plain", "bb1", "Not", "Postincrement", "h", "O", "safety", "FE",
      "_modifies_0", "_modifies_2", "FF">>
=============================================================================
