------------------------------ MODULE MCCodegen ------------------------------
EXTENDS Codegen

(* Bytes of two bits and words of four bytes.                              *)
MCMachineModel ==
    LET byte == 2 word == 8 IN
    [char_width |-> byte, bool_width |-> byte, int_width |-> word, long_int_width |-> word,
     pointer_width |-> word, char_is_unsigned |-> FALSE]
MCObjects ==
    LET Object(base, size) == [base |-> base, size |-> size] IN
    [o1 |-> Object(16, 6), o2 |-> Object(33, 3), vt |-> Object(48, 12)]
MCIntTys == LET widths == {2, 4} IN {IntTy(w) : w \in widths} \cup {UintTy(w) : w \in widths} \cup {Isize, Usize}
MCWideValues == {-128, -127, -1, 0, 1, 2, 7, 8, 126, 127, 128, 255}

F(n, ty, o) == [name |-> n, ty |-> ty, offset |-> o]
V(n, discr, size, align, fields) ==
    [name |-> n, discr |-> discr, size |-> size, align |-> align, fields |-> fields]
Single == [k |-> "Single"]
Direct(tag, o) == [k |-> "Direct", tag |-> tag, offset |-> o]
Niche(tag, o, untagged, lo, hi, start) ==
    [k |-> "Niche", tag |-> tag, offset |-> o, untagged |-> untagged, lo |-> lo, hi |-> hi, start |-> start]
Decl(kind, size, align, variants, tagging) ==
    [kind |-> kind, size |-> size, align |-> align, variants |-> variants, tagging |-> tagging,
     direct |-> <<>>, packed |-> FALSE]
Struct(kind, size, align, fields) == Decl(kind, size, align, <<V("v", 0, size, align, fields)>>, Single)

MCAdts ==
    LET Byte1 == UintTy(2)
        Byte2 == UintTy(4)
    IN
    [Ordering |-> Decl("enum", 1, 1, <<V("Less", -1, 1, 1, <<>>), V("Equal", 0, 1, 1, <<>>),
                                       V("Greater", 1, 1, 1, <<>>)>>, Direct(IntTy(2), 0)),
     Reordered |-> Struct("struct", 4, 2, <<F("a", Byte1, 2), F("b", Byte2, 0)>>),
     ReprC |-> Struct("struct", 4, 2, <<F("a", Byte1, 0), F("b", Byte2, 2)>>),
     Empty |-> Struct("struct", 0, 1, <<>>),
     Marked |-> Struct("struct", 2, 2, <<F("a", Byte2, 0), F("m", Adt("Empty"), 0), F("n", Adt("Empty"), 2)>>),
     Over2 |-> Struct("tuple", 2, 1, <<F("0", Byte1, 0), F("1", Bool, 1)>>),
     Over4 |-> Struct("tuple", 4, 2, <<F("0", Byte2, 0), F("1", Bool, 2)>>),
     OverI4 |-> Struct("tuple", 4, 2, <<F("0", IntTy(4), 0), F("1", Bool, 2)>>),
     Either |-> Struct("union", 2, 2, <<F("x", Byte1, 0), F("y", Byte2, 0)>>),
     Void |-> Decl("enum", 0, 1, <<>>, [k |-> "Empty"]),
     One |-> Decl("enum", 2, 2, <<V("Only", 0, 2, 2, <<F("0", Byte2, 0)>>)>>, Single),
     Shape |-> Decl("enum", 4, 2, <<V("A", 0, 1, 1, <<>>), V("B", 3, 2, 1, <<F("0", Byte1, 1)>>),
                                    V("C", 2, 4, 2, <<F("0", Byte2, 2), F("1", Byte1, 1)>>)>>, Direct(Byte1, 0)),
     Late |-> Decl("enum", 4, 2, <<V("A", 0, 4, 2, <<F("0", Byte2, 2)>>),
                                   V("B", 1, 4, 2, <<F("0", IntTy(4), 2)>>)>>, Direct(Byte1, 0)),
     Slim |-> Decl("enum", 3, 1, <<V("A", 0, 2, 1, <<F("0", Byte1, 1)>>),
                                   V("B", 1, 3, 1, <<F("0", Byte1, 1), F("1", Bool, 2)>>)>>, Direct(Byte1, 0)),
     OptPtr |-> Decl("enum", 4, 4, <<V("None", 0, 0, 1, <<>>),
                                     V("Some", 1, 4, 4, <<F("0", RawPtr(Byte1), 0)>>)>>,
                     Niche(RawPtr(Byte1), 0, 2, 0, 0, 0)),
     Flags |-> Decl("enum", 1, 1, <<V("Is", 0, 1, 1, <<F("0", Bool, 0)>>), V("No", 1, 0, 1, <<>>),
                                    V("Na", 2, 0, 1, <<>>)>>, Niche(Byte1, 0, 1, 1, 2, 2)),
     OptOrd |-> Decl("enum", 1, 1, <<V("None", 0, 0, 1, <<>>), V("Some", 1, 1, 1, <<F("0", Adt("Ordering"), 0)>>)>>,
                     Niche(IntTy(2), 0, 2, 0, 0, 2)),
     Data |-> Decl("enum", 4, 2, <<V("X", 0, 4, 2, <<F("0", Bool, 0), F("1", Byte2, 2)>>),
                                   V("Y", 1, 4, 2, <<F("0", Byte2, 2)>>), V("Z", 2, 0, 1, <<>>)>>,
                   Niche(Byte1, 0, 1, 1, 2, 2)),
     Mid |-> Decl("enum", 4, 4, <<V("A", 0, 0, 1, <<>>), V("B", 1, 4, 4, <<F("0", Char, 0)>>), V("C", 2, 0, 1, <<>>)>>,
                  Niche(UintTy(8), 0, 2, 0, 2, 17)),
     State |-> [Decl("coroutine", 4, 2, <<V("Unresumed", 0, 2, 1, <<>>), V("Returned", 1, 2, 1, <<>>),
                                          V("Suspend0", 2, 4, 2, <<F("s", Byte2, 2)>>)>>, Direct(Byte1, 0))
                EXCEPT !.direct = <<F("c", Byte1, 1)>>],
     Sure |-> Decl("enum", 2, 2, <<V("Ok", 0, 2, 2, <<F("0", Byte2, 0)>>), V("Err", 1, 0, 1, <<F("0", Adt("Void"), 0)>>)>>,
                   Single),
     Nest |-> Struct("struct", 6, 2, <<F("a", ArrayTy(Byte1, 2), 4), F("s", Adt("Shape"), 0)>>),
     Tail |-> Struct("struct", 2, 2, <<F("a", Byte1, 0), F("t", Slice(Byte2), 2)>>),
     PackedTail |-> [Struct("struct", 1, 1, <<F("a", Byte1, 0), F("t", Slice(Byte2), 1)>>) EXCEPT !.packed = TRUE],
     DynTail |-> Struct("struct", 3, 1, <<F("a", ArrayTy(Byte1, 3), 0), F("t", Dynamic("Tr"), 3)>>)]

B(n) == [k |-> "byte", v |-> n]
P(to, o) == [k |-> "ptr", to |-> to, off |-> o]
Alloc(kind, mut, words) ==
    [kind |-> kind, interior |-> FALSE, vtable |-> "none", content |-> [mut |-> mut, words |-> words]]
MCAllocs ==
    LET cell == <<B(1)>> IN
    [s1 |-> Alloc("Static", TRUE, cell),
     s2 |-> Alloc("Static", TRUE, cell),
     s3 |-> Alloc("Static", FALSE, <<P("m1", 1), B(Undef)>>),
     s4 |-> [Alloc("Static", FALSE, cell) EXCEPT !.interior = TRUE],
     s5 |-> Alloc("Static", TRUE, <<P("a1", 0), P("s2", 0)>>),
     a1 |-> Alloc("Anon", TRUE, cell),
     m1 |-> Alloc("Memory", FALSE, <<B(1), B(2)>>),
     m2 |-> Alloc("Memory", FALSE, <<B(3)>>),
     f1 |-> Alloc("Function", FALSE, <<>>),
     m3 |-> Alloc("Memory", FALSE, <<P("f1", 0), B(Undef)>>),
     vt |-> [Alloc("VTable", FALSE, <<>>) EXCEPT !.vtable = "m3"]]
Const(ty, words) == [ty |-> ty, content |-> [mut |-> FALSE, words |-> words]]
Scalar(t) == [k |-> "Scalar", t |-> t]
Fat(n) == [k |-> "Fat", size |-> n]
MCConsts ==
    LET Thin == [k |-> "Thin"]
        Other == [k |-> "Other"]
        Zst == [k |-> "Zst"]
        Wrapper(fields, order) == [k |-> "Struct", fields |-> fields, order |-> order]
    IN
    {Const(Scalar(signed_int(4)), <<B(1), B(3)>>), Const(Scalar(c_bool), <<B(1)>>),
     Const(Thin, <<P("m1", 1)>>), Const(Thin, <<P("vt", 0)>>), Const(Thin, <<P("s1", 0)>>),
     Const(Thin, <<B(0), B(1), B(0), B(0)>>), Const(Fat(1), <<P("m1", 0), B(2)>>), Const(Fat(2), <<P("m1", 0), B(1)>>),
     Const(Other, <<B(3)>>), Const(Other, <<P("m2", 0), B(Undef)>>),
     Const([k |-> "Float"], <<B(1), B(2)>>), Const([k |-> "TypeId"], <<B(3), B(0)>>), Const([k |-> "CStr"], <<P("m2", 0), B(1)>>),
     Const(Wrapper(<<Scalar(signed_int(4)), Zst>>, <<1, 2>>), <<B(1), B(3)>>),
     Const(Wrapper(<<Scalar(c_bool), Zst>>, <<2, 1>>), <<B(1)>>),
     Const(Wrapper(<<Zst, Scalar(unsigned_int(2))>>, <<1, 2>>), <<B(2), B(Undef)>>),
     Const(Wrapper(<<[k |-> "Tuple1", inner |-> Thin]>>, <<1>>), <<P("s1", 0)>>),
     Const(Wrapper(<<Other>>, <<1>>), <<B(2)>>),
     Const(Wrapper(<<Scalar(c_bool), Scalar(c_bool)>>, <<1, 2>>), <<B(1), B(0)>>)}
MCFatPointees == {Slice(UintTy(4)), Str, Dynamic("Tr"), Adt("Tail"), Adt("PackedTail"), Adt("DynTail")}
MCLocalTys ==
    LET pointees == {Adt("Nest"), Adt("Shape"), Adt("Data"), ArrayTy(UintTy(2), 3), UintTy(4)} \cup MCFatPointees IN
    {Adt(n) : n \in DOMAIN MCAdts \ {"Tail", "PackedTail", "DynTail"}} \cup {Unit, ArrayTy(UintTy(4), 3), Simd(UintTy(4), 3)} \cup {RawPtr(t) : t \in pointees}
MCSymbolTable ==
    LET tags ==
            {<<"Unit">>, <<"Never">>}
            \cup {<<"overflow_result", codegen_ty(t)>> : t \in MCIntTys}
            \cup {<<"fatptr", t>> : t \in MCFatPointees} \cup {<<"vtable", Dynamic("Tr")>>}
            \cup {<<s, n>> : s \in {"adt", "cases"}, n \in DOMAIN MCAdts}
            \cup {<<"direct", n>> : n \in {m \in DOMAIN MCAdts : MCAdts[m].kind = "coroutine"}}
            \cup UNION {{<<"case", n, i>> : i \in DOMAIN MCAdts[n].variants} : n \in DOMAIN MCAdts}
    IN [tag \in tags |-> components_of(tag)]
===============================================================================
