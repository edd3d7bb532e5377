----------------------------- MODULE CrateModel -----------------------------
(***************************************************************************)
(* What kani-compiler promises for a crate: one model for each harness,    *)
(* which means what the attributes of that harness alone say, or an error. *)
(* Units, passes, caches and the order in which anything is visited do not *)
(* occur here.                                                             *)
(***************************************************************************)
EXTENDS Integers, FiniteSets

CONSTANTS Programs,      \* the programs, as records (see CodegenUnits)
          Harnesses(_)   \* the harnesses of a program

VARIABLES prog,     \* the program
          meaning,  \* meaning[h]: the code that runs in the model of harness h
          outcome   \* "running", "done" or "rejected"

vars == <<prog, meaning, outcome>>

\* The stub that finally stands for f under harness h, f itself if there is none.
StubMap(p, h) == IF h[1] = "fn" THEN p.stubs[h[2]] ELSE [f \in {} |-> f]
Iterate(once, f, times) ==
    LET to[n \in 0..times] == IF n = 0 THEN f ELSE once[to[n - 1]] IN to[times]
FinalStub(p, h, f) ==
    LET s == StubMap(p, h)
        once == [g \in p.fns |-> IF g \in DOMAIN s THEN s[g] ELSE g]
    IN  Iterate(once, f, Cardinality(DOMAIN s) + 1)

\* A stub replaces the code of a function, or the function where code is missing.
Swapped(p, h, f) ==
    /\ FinalStub(p, h, f) # f
    /\ p.kind[f] = "item" /\ p.kind[FinalStub(p, h, f)] = "item"
Named(p, x) == IF x \in p.statics THEN <<"static", x>> ELSE <<"fn", x>>
Callee(p, h, x) ==
    IF x \in p.statics \/ Swapped(p, h, x) THEN Named(p, x)
    ELSE <<"fn", FinalStub(p, h, x)>>
Code(p, h, f) == IF Swapped(p, h, f) THEN FinalStub(p, h, f) ELSE f

\* How a contract is used by a harness.
Use(p, h, f) ==
    IF f \notin p.contract THEN "none"
    ELSE IF (h[1] = "auto" /\ f = h[2]) \/ (h[1] = "fn" /\ f = p.check[h[2]])
    THEN IF f \in p.recursive THEN "recursion" ELSE "check"
    ELSE IF h[1] = "fn" /\ f \in p.replace[h[2]] THEN "replace"
    ELSE IF h[1] \in {"fn", "auto"} /\ p.opts.assertContracts THEN "assert"
    ELSE "original"

\* What runs when the item i runs.  An initializer refers to what it was written
\* with: stubs that replace calls do not reach it.
Uses(p, h, i) ==
    LET code == {Callee(p, h, x) : x \in p.refs[Code(p, h, i[2])]}
        nested == {<<"recursion", "REENTRY">>, <<"recursion", "rec_check">>,
                   <<"recursion", "rec_replace">>, <<"check", "modifies">>,
                   <<"rec_check", "rec_modifies">>}
    IN  CASE i[1] = "fn" ->
                IF Use(p, h, i[2]) \in {"recursion", "check", "replace", "assert"}
                THEN {<<Use(p, h, i[2]), i[2]>>} ELSE code
          [] i[1] = "auto" -> {Callee(p, h, i[2])}
          [] i[1] = "static" -> {Named(p, x) : x \in p.refs[i[2]]}
          [] i[1] \in {"modifies", "rec_modifies", "assert"} ->
                {Callee(p, h, x) : x \in p.refs[i[2]]}
          [] OTHER -> {<<e[2], i[2]>> : e \in {d \in nested : d[1] = i[1]}}

Compiled(p, items) == {i \in items : i[1] = "fn" => p.kind[i[2]] = "item"}

\* All that can run: the harness, functions, statics, and the parts of contracts.
Parts(use) ==
    CASE use = "recursion" -> {"recursion", "REENTRY", "rec_check", "rec_replace", "rec_modifies"}
      [] use = "check" -> {"check", "modifies"}
      [] use \in {"replace", "assert"} -> {use}
      [] OTHER -> {}
Items(p, h) ==
    {h} \cup {<<"fn", f>> : f \in p.fns} \cup {<<"static", x>> : x \in p.statics}
        \cup UNION {{<<part, f>> : part \in Parts(Use(p, h, f))} : f \in p.contract}

\* The items that run from the given ones, in as many rounds as there are items.
Running(p, h, start) ==
    LET bound == Cardinality(Items(p, h))
        reach[n \in 0..bound] ==
            IF n = 0 THEN start
            ELSE UNION {{i} \cup Compiled(p, Uses(p, h, i)) : i \in reach[n - 1]}
    IN  reach[bound]

Start(p, h) == IF h[1] = "pub" THEN {<<"fn", f>> : f \in p.opts.pub} ELSE {h}

Meaning(p, h) ==
    [i \in Running(p, h, Start(p, h)) |->
        [code |-> IF i[1] = "fn" THEN <<"fn", Code(p, h, i[2])>> ELSE i,
         use |-> IF i[1] = "fn" THEN Use(p, h, i[2]) ELSE "none"]]

\* f is a function with contract whose code stands for another function: its contract
\* is then not under the control of the harness.
StandsIn(p, h, f) ==
    f \in p.contract /\ \E g \in DOMAIN StubMap(p, h) :
                            Swapped(p, h, g) /\ FinalStub(p, h, g) = f

\* Errors in the attributes of a harness: stubs that go in a circle, whose signatures
\* differ or whose bounds are not met, a stub for a function with contract, a contract
\* to check that the harness does not get to, or beside a stub with a contract, and a
\* contract that stands for values which cannot be arbitrary.  Without a harness, no
\* contract can be compiled.
Rejectable(p) ==
    \E h \in Harnesses(p) :
        LET s == StubMap(p, h)
            target == IF h[1] = "fn" THEN p.check[h[2]] ELSE "none"
        IN  \/ \E c \in SUBSET DOMAIN s : c # {} /\ \A f \in c : s[f] \in c
            \/ \E f \in DOMAIN s :
                  Swapped(p, h, f) /\ (p.sig[f] # p.sig[FinalStub(p, h, f)]
                                            \/ FinalStub(p, h, f) \in p.unfit
                                            \/ f \in p.contract)
            \/ target # "none" /\ <<"fn", target>> \notin Running(p, h, Start(p, h))
            \/ target # "none" /\ \E f \in p.contract : StandsIn(p, h, f)
            \/ \E f \in p.noArbitrary :
                  Use(p, h, f) \in {"replace", "recursion"} \/ StandsIn(p, h, f)
            \/ h[1] = "pub" /\ p.contract # {}

Init == prog \in Programs /\ meaning = [h \in {} |-> {}] /\ outcome = "running"

Compile(h) ==
    /\ outcome = "running" /\ h \notin DOMAIN meaning
    /\ meaning' = [g \in DOMAIN meaning \cup {h} |->
                     IF g = h THEN Meaning(prog, h) ELSE meaning[g]]
    /\ UNCHANGED <<prog, outcome>>

Finish ==
    /\ outcome = "running" /\ DOMAIN meaning = Harnesses(prog)
    /\ outcome' = "done"
    /\ UNCHANGED <<prog, meaning>>

Reject ==
    /\ outcome = "running" /\ outcome' = "rejected"
    /\ Rejectable(prog)
    /\ UNCHANGED <<prog, meaning>>

Next == (\E h \in Harnesses(prog) : Compile(h)) \/ Finish \/ Reject

Spec == Init /\ [][Next]_vars /\ WF_vars(Next)
=============================================================================
