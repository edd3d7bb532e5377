----------------------------- MODULE MCUbChecks -----------------------------
(***************************************************************************)
(* Small harnesses for the undefined-behaviour checks: pointer casts and   *)
(* heap memory, unions, pointers to pointers with calls and loops, and     *)
(* values with restricted ranges.                                          *)
(***************************************************************************)
EXTENDS UbChecks

Of(ty, off) == [ty |-> ty, offset |-> off]
StructOf(size, fields, scalar, allowed) ==
    [kind |-> "struct", size |-> size, variants |-> <<fields>>, tagging |-> "Single", tag |-> 0,
     scalar |-> scalar, allowed |-> allowed]
Scalar(lo, hi) == <<[size |-> 1, lo |-> lo, hi |-> hi]>>

MCAdts ==
    [Padded |-> StructOf(2, <<Of(Uint(1), 0)>>, <<>>, <<>>),
     Late |-> StructOf(2, <<Of(Uint(1), 1)>>, <<>>, <<>>),
     Pair |-> StructOf(2, <<Of(RawPtr(Uint(1)), 0), Of(RawPtr(Uint(1)), 1)>>, <<>>, <<>>),
     Either |-> [kind |-> "union", size |-> 2, variants |-> <<<<Of(Uint(1), 0), Of(Uint(2), 0)>>>>,
                 tagging |-> "Single", tag |-> 0, scalar |-> <<>>, allowed |-> <<>>],
     Tagged |-> [kind |-> "enum", size |-> 2, variants |-> <<<<Of(Uint(1), 1)>>, <<Of(Uint(1), 1)>>>>,
                 tagging |-> "Direct", tag |-> 1, scalar |-> Scalar(0, 1), allowed |-> <<0, 1>>],
     NonZero |-> StructOf(1, <<Of(Uint(1), 0)>>, Scalar(1, 3), <<1, 2, 3>>),
     Outer |-> StructOf(2, <<Of(Uint(1), 1), Of(Adt("NonZero"), 0)>>, <<>>, <<>>),
     Wrapping |-> StructOf(1, <<Of(Uint(1), 0)>>, Scalar(3, 1), <<0, 1, 3>>)]

One(v) == <<[k |-> "i", v |-> v]>>
Num(n, v) == Const(Uint(n), [b \in 1..n |-> [k |-> "i", v |-> v]])
L(n) == Copy(Local(n))
Let(n, rv) == Assign(Local(n), rv)
F(n, i) == Proj(Local(n), Field(i))
CallTo(func, args, dest) == Call(func, args, Local(dest), 0)

U2 == Uint(2)
Pad == Adt("Padded")

\* put(pp, p) may store p;  recall() reads the static
MCFns ==
    [load |-> [locals |-> <<U2, RawPtr(U2)>>, args |-> 1,
               blocks |-> <<Block(<<Let(0, Use(Copy(DerefOf(1))))>>, Return)>>],
     weaken |-> [locals |-> <<Unit, RawPtr(Pad), Pad>>, args |-> 2,
                 blocks |-> <<Block(<<Assign(DerefOf(1), Use(L(2)))>>, Return)>>],
     second |-> [locals |-> <<U2, Adt("Either")>>, args |-> 1,
                 blocks |-> <<Block(<<Let(0, Use(Copy(F(1, 2))))>>, Return)>>],
     put |-> [locals |-> <<RawPtr(Uint(1)), RawPtr(RawPtr(Uint(1))), RawPtr(Uint(1))>>, args |-> 2,
              blocks |-> <<Block(<<Let(0, Use(Copy(DerefOf(1))))>>, Switch(<<2, 3>>)),
                           Block(<<Assign(DerefOf(1), Use(L(2)))>>, Return),
                           Block(<<Let(0, Use(L(2)))>>, Return)>>],
     recall |-> [locals |-> <<RawPtr(Uint(1)), RawPtr(RawPtr(Uint(1)))>>, args |-> 0,
                 blocks |-> <<Block(<<Let(1, Use(StaticPtr(RawPtr(RawPtr(Uint(1))), "S"))),
                                      Let(0, Use(Copy(DerefOf(1))))>>, Return)>>]]

Casts ==
    [locals |-> <<Unit, U2, U2, RawPtr(U2), RawPtr(Pad), Pad, RawPtr(U2), U2>>, pass |-> "uninit",
     length |-> 3,
     prelude |-> <<Let(1, Use(Num(2, 1))), Let(5, Use(Const(Pad, One(1) \o <<Uninit>>))),
                   Let(3, AddressOf(Local(1))), Let(4, Cast("PtrToPtr", L(3), RawPtr(Pad))),
                   CallTo(Foreign("__rust_alloc"), <<Num(1, 2)>>, 6)>>,
     menu |-> <<Assign(DerefOf(4), Use(L(5))),
                Let(2, Use(Copy(DerefOf(3)))),
                Let(2, Use(L(1))),
                Let(1, Use(Num(2, 2))),
                Assign(DerefOf(6), Use(Num(2, 3))),
                Let(3, AddressOf(Local(1))),
                CallTo(Intrinsic("copy"), <<L(6), L(3), Num(1, 1)>>, 0),
                CallTo(Item("load"), <<L(6)>>, 2),
                CallTo(Item("weaken"), <<L(4), L(5)>>, 0),
                Assign(Proj(DerefOf(4), Field(1)), Use(Num(1, 3))),
                CallTo(Intrinsic("volatile_load"), <<L(6)>>, 2),
                Switch(<<0, -1>>)>>]

Unions ==
    [locals |-> <<Unit, Adt("Either"), Adt("Either"), U2, Uint(1), RawPtr(Adt("Either")), Pad>>, pass |-> "uninit",
     length |-> 3,
     prelude |-> <<Let(1, Aggregate(Adt("Either"), 1, <<Num(1, 1)>>)),
                   Let(2, Aggregate(Adt("Either"), 2, <<Num(2, 1)>>)),
                   Let(6, Use(Const(Pad, One(1) \o <<Uninit>>)))>>,
     menu |-> <<Let(1, Aggregate(Adt("Either"), 1, <<Num(1, 2)>>)),
                Assign(F(1, 2), Use(Num(2, 2))),
                Assign(F(1, 1), Use(Num(1, 3))),
                Let(2, Use(L(1))),
                Let(3, Use(Copy(F(1, 2)))),
                Let(4, Use(Copy(F(2, 1)))),
                Let(3, Use(Copy(F(2, 2)))),
                CallTo(Item("second"), <<L(2)>>, 3),
                CallTo(Item("second"), <<L(1)>>, 3),
                Let(3, Cast("Transmute", L(6), U2)),
                Let(5, AddressOf(Local(1))),
                CallTo(FnPointer, <<>>, 0)>>]

Cell == Uint(1)
P1 == RawPtr(Cell)
MCStaticTys == [S |-> P1]
Aliases ==
    [locals |-> <<Unit, Cell, Cell, P1, P1, RawPtr(P1), Adt("Pair"), RawPtr(P1), Ref(P1)>>, pass |-> "uninit",
     length |-> 3,
     prelude |-> <<Let(1, Use(Num(1, 1))), Let(2, Use(Num(1, 2))), Let(3, AddressOf(Local(1))),
                   Let(4, AddressOf(Local(2))), Let(5, AddressOf(Local(3))), Let(8, RefOf(Local(4))),
                   Let(6, Aggregate(Adt("Pair"), 1, <<L(3), L(3)>>)),
                   CallTo(Foreign("__rust_alloc"), <<Num(1, 1)>>, 7)>>,
     menu |-> <<Assign(DerefOf(7), Use(L(4))),
                Let(5, Use(L(7))),
                Assign(DerefOf(5), Use(L(4))),
                Let(6, Aggregate(Adt("Pair"), 1, <<L(3), L(4)>>)),
                Let(3, Use(Copy(F(6, 2)))),
                Assign(DerefOf(8), Use(L(3))),
                Assign(DerefOf(7), Use(Copy(DerefOf(5)))),
                Let(7, Use(StaticPtr(RawPtr(P1), "S"))),
                CallTo(Item("put"), <<L(5), L(4)>>, 3),
                CallTo(Item("recall"), <<>>, 3),
                CallTo(Intrinsic("typed_swap"), <<L(5), L(7)>>, 0),
                CallTo(Intrinsic("atomic_xchg"), <<L(5), L(3)>>, 4),
                CopyNonOverlapping(L(5), L(7), Num(1, 1)),
                Switch(<<0, 2>>)>>]

B == Bool
NZ == Adt("NonZero")
Values ==
    [locals |-> <<Unit, Uint(1), B, Char, NZ, RawPtr(B), RawPtr(Uint(1)), Adt("Outer"), Adt("Wrapping"),
                  Adt("Tagged"), RawPtr(Adt("Tagged")), U2>>, pass |-> "validity",
     length |-> 3,
     prelude |-> <<Let(1, Use(Num(1, 1))), Let(2, Use(Const(B, One(1)))), Let(3, Use(Const(Char, One(0)))),
                   Let(4, Use(Const(NZ, One(2)))), Let(11, Use(Num(2, 1))),
                   Let(7, Use(Const(Adt("Outer"), One(1) \o One(1)))),
                   Let(8, Use(Const(Adt("Wrapping"), One(3)))), Let(9, Use(Const(Adt("Tagged"), One(1) \o One(3)))),
                   Let(5, AddressOf(Local(2))), Let(6, AddressOf(Local(1))), Goto(0)>>,
     menu |-> <<Let(1, Use(Num(1, 0))),
                Let(1, Use(Num(1, 2))),
                Let(2, Cast("Transmute", L(1), B)),
                Let(3, Cast("Transmute", L(1), Char)),
                Let(4, Aggregate(NZ, 1, <<L(1)>>)),
                Assign(F(4, 1), Use(L(1))),
                Assign(Proj(F(7, 2), Field(1)), Use(L(1))),
                Assign(F(7, 1), Use(Num(1, 0))),
                Assign(F(8, 1), Use(L(1))),
                Let(8, Aggregate(Adt("Wrapping"), 1, <<Copy(Proj(Local(4), Field(1)))>>)),
                Let(5, Cast("Transmute", L(6), RawPtr(B))),
                Let(2, Use(Copy(DerefOf(5)))),
                Assign(DerefOf(5), Use(L(2))),
                CallTo(Intrinsic("write_bytes"), <<L(5), L(1), Num(1, 1)>>, 0),
                Let(9, Cast("Transmute", L(11), Adt("Tagged"))),
                Let(6, Cast("PtrToPtr", L(5), RawPtr(Uint(1)))),
                Goto(0)>>]

MCScenarios == <<Casts, Unions, Aliases, Values>>
=============================================================================
