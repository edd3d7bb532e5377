--------------------------- MODULE MCCrateCodegen ---------------------------
(* Two harnesses that share callees: `a` calls the foreign `e` and `b`, which    *)
(* the second harness calls too, `b` calls `c`, which refers to a static whose   *)
(* initializer refers to `d` and to `e`, and nothing calls `f`.                  *)
EXTENDS CrateCodegen, TLC

Fns == {"h1", "h2", "a", "b", "c", "d", "e", "f"}
NoStubs == [f \in {} |-> None]

Refs == [h1 |-> {"a"}, h2 |-> {"b"}, a |-> {"b", "e"}, b |-> {"c"}, c |-> {"s"},
         d |-> {}, e |-> {}, f |-> {}, s |-> {"d", "e"}]

Sig(f) == IF f \in {"h1", "h2", "d"} THEN 0 ELSE 1

\* Chains, a circle, signatures that differ, a stub that calls what it replaces, and
\* originals and stubs without a body.
StubMaps == {NoStubs, "b" :> "c", "b" :> "a", ("a" :> "b") @@ ("b" :> "c"),
             ("a" :> "b") @@ ("b" :> "a"), "e" :> "f", "b" :> "e", "c" :> "d"}

Options(reach, uninit, assert) ==
    [reachability |-> reach, filter |-> {}, uninit |-> uninit,
     assertContracts |-> assert, pub |-> {"a", "c"}]

Program(st1, st2, contract, recursive, ch1, ch2, rep2, opts) ==
    [fns |-> Fns, statics |-> {"s"},
     kind |-> [f \in Fns |-> IF f = "e" THEN "foreign" ELSE "item"],
     refs |-> Refs, sig |-> [f \in Fns |-> Sig(f)],
     contract |-> contract, recursive |-> recursive, unfit |-> {}, noArbitrary |-> {},
     skip |-> [f \in Fns |-> IF f \in {"h1", "h2"} THEN {"proof"}
                             ELSE IF f \in {"a", "d", "f"} THEN {"UserFilter"} ELSE {}],
     stubs |-> [h1 |-> st1, h2 |-> st2],
     check |-> [h1 |-> ch1, h2 |-> ch2], replace |-> [h1 |-> {}, h2 |-> rep2],
     targets |-> {"a"}, tracked |-> {"a", "c"}, opts |-> opts]

Stubbed == {Program(st1, st2, {}, {}, None, None, {}, Options("Harnesses", u, FALSE)) :
               st1 \in StubMaps, st2 \in {NoStubs, "b" :> "c", "e" :> "f"}, u \in BOOLEAN}

Contracted ==
    {Program(NoStubs, NoStubs, {"b", "f"}, rec, ch1, "b", {}, Options("Harnesses", FALSE, assert)) :
        rec \in {{}, {"b"}}, ch1 \in {None, "b", "f"}, assert \in BOOLEAN}
    \cup {Program(st, NoStubs, {"b"}, {"b"}, None, None, {"b"}, Options("Harnesses", FALSE, TRUE)) :
              st \in {NoStubs, "a" :> "b", "b" :> "a"}}
    \cup {Program(NoStubs, NoStubs, {"b", "c"}, {}, "c", "b", {"c"},
                  Options("Harnesses", FALSE, TRUE))}

Others == {Program("b" :> "c", NoStubs, con, {}, None, None, {}, 
                  [Options(r, TRUE, TRUE) EXCEPT !.filter = {"h1"}]) :
              con \in {{}, {"b"}}, r \in {"AllFns", "PubFns"}}
          \cup {[Program(NoStubs, NoStubs, {}, {}, None, None, {},
                         Options("Harnesses", FALSE, FALSE))
                    EXCEPT !.opts.filter = {"h2"}]}

\* A contract harness whose stubs are functions with contracts of their own, a stub
\* whose bounds are not met, and contracts over values that cannot be arbitrary.
Refused ==
    LET only(h) == [Options("Harnesses", FALSE, FALSE) EXCEPT !.filter = {h}]
    IN  {Program("a" :> "b", NoStubs, {"b", "c"}, {"c"}, "c", None, {}, only("h1"))}
        \cup {[Program("b" :> "c", NoStubs, {}, {}, None, None, {},
                       Options("Harnesses", TRUE, FALSE)) EXCEPT !.unfit = {"c"}]}
        \cup {[Program("a" :> "b", NoStubs, {"b"}, {"b"}, None, c[1], c[2], only(c[3]))
                 EXCEPT !.noArbitrary = {"b"}] :
                  c \in {<<"b", {}, "h2">>, <<None, {"b"}, "h2">>, <<None, {}, "h1">>}}

MCPrograms == Stubbed \cup Contracted \cup Others \cup Refused
=============================================================================
