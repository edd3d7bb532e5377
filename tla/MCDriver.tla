------------------------------ MODULE MCDriver ------------------------------
(***************************************************************************)
(* A workspace of two packages that verify in part, one whose harnesses    *)
(* share names and inputs, one with a harness inside another, one whose    *)
(* harnesses should panic and do not, a procedural macro and two packages  *)
(* that do not compile, a single file and a small standard library; the    *)
(* command lines that tell the options apart.                              *)
(***************************************************************************)
EXTENDS Driver

Check(id, class, fails, depth, upto, cex) ==
    [id |-> id, class |-> class, fails |-> fails, depth |-> depth, upto |-> upto, cex |-> cex]
Good(id, class) == Check(id, class, FALSE, 0, 0, <<>>)
H(name, short, file, checks) ==
    [name |-> name, short |-> short, file |-> file, start |-> 0, end |-> 0, auto |-> FALSE, kind |-> "Proof",
     panic |-> FALSE, unwind |-> NoValue, solver |-> "", loop |-> 0, calls |-> <<>>, checks |-> checks]

\* The inputs of `bad`: a u16, a value without size, and an array of two u8.
Calls == <<[size |-> 2, n |-> 0], [size |-> 0, n |-> 0], [size |-> 1, n |-> 2]>>
Small == <<<<7, 1>>>>
Pair == <<<<3>>, <<4>>>>

MCHarness == LET
    good == H("a::good", "good", "a.rs", <<Good(1, "assertion"), Good(2, "pointer_dereference")>>)
    bad == [H("a::bad", "bad", "a.rs", <<Check(1, "pointer_dereference", TRUE, 0, 1, <<Small>>),
                                          Check(2, "assertion", TRUE, 0, 3, <<Small, <<>>, Pair>>),
                                          Check(3, "cover", TRUE, 0, 2, <<<<<<0, 9>>>>, <<>>>>)>>) EXCEPT !.calls = Calls]
    panics == [H("a::panics", "panics", "a.rs", <<Check(1, "assertion", TRUE, 0, 0, <<>>)>>) EXCEPT !.panic = TRUE]
    loops == [H("b::loops", "loops", "b.rs", <<Check(1, "assertion", TRUE, 3, 0, <<>>), Good(2, "NaN")>>)
                EXCEPT !.loop = 3, !.unwind = Num(2)]
    adds == [H("b::adds", "adds", "b.rs", <<Good(1, "NaN")>>) EXCEPT !.kind = "ProofForContract", !.solver = "kissat"]
    nothing == H("b::nothing", "nothing", "b.rs", <<>>)
    tested == [H("t::nan", "nan", "t.rs", <<Check(1, "NaN", TRUE, 0, 0, <<>>)>>) EXCEPT !.loop = 1]
    f == [H("a::f", "f", "a.rs", <<Check(1, "assertion", TRUE, 21, 0, <<>>)>>) EXCEPT !.auto = TRUE, !.loop = 30]
    g == [H("a::g", "g", "a.rs", <<Good(1, "assertion")>>) EXCEPT !.auto = TRUE]
    single == H("single::ok", "ok", "single.rs", <<Good(1, "assertion")>>)
    core == H("core::ok", "ok", "core.rs", <<Good(1, "assertion")>>)
    One(id, cex) == Check(id, "assertion", TRUE, 0, 1, <<<<cex>>>>)
    Short(name, short, file, cexs) ==
        [H(name, short, file, [i \in DOMAIN cexs |-> One(i, cexs[i])]) EXCEPT !.calls = <<[size |-> 1, n |-> 0]>>]
    twice == Short("d::twice", "twice", "d.rs", <<<<5>>, <<6>>, <<5>>>>)
    namesakes == {Short("d::x::same", "same", "d.rs", <<<<5>>>>), Short("d::y::same", "same", "d.rs", <<<<5>>, <<6>>>>)}
    nested == {Short("n::outer", "outer", "n.rs", <<<<5>>>>), Short("n::inner", "inner", "n.rs", <<<<5>>>>)}
    calm == [H("s::calm", "calm", "s.rs", <<Good(1, "assertion")>>) EXCEPT !.panic = TRUE]
    idle == [H("s::idle", "idle", "s.rs", <<>>) EXCEPT !.panic = TRUE]
    all == {good, bad, panics, loops, adds, nothing, tested, f, g, single, core, twice, calm, idle} \cup namesakes \cup nested
    IN [n \in {h.name : h \in all} |-> CHOOSE h \in all : h.name = n]

FileOf(names) == <<SourceLine("use std")>>
                   \o FlattenSeq([i \in DOMAIN names |-> <<SourceLine("fn " \o names[i]), SourceLine("} " \o names[i])>>])
MCSourceFiles == LET
    at == [f \in {"a.rs", "b.rs", "t.rs", "d.rs", "s.rs", "single.rs", "core.rs"} |->
             CASE f = "a.rs" -> <<"a::f", "a::panics", "a::bad", "a::good", "a::g">>
               [] f = "b.rs" -> <<"b::nothing", "b::loops", "b::adds">>
               [] f = "d.rs" -> <<"d::x::same", "d::twice", "d::y::same">> [] f = "s.rs" -> <<"s::calm", "s::idle">>
               [] f = "t.rs" -> <<"t::nan">> [] f = "single.rs" -> <<"single::ok">> [] OTHER -> <<"core::ok">>]
    inside == <<SourceLine("fn n::outer")>> \o Tail(FileOf(<<"n::inner">>)) \o <<SourceLine("} n::outer")>>
    IN [f \in DOMAIN at \cup {"n.rs"} |-> IF f = "n.rs" THEN inside ELSE FileOf(at[f])]

Target(name, plain, kinds, harnesses, fns, compiles) ==
    [name |-> name, plain |-> plain, kinds |-> kinds, crate |-> plain, harnesses |-> harnesses, fns |-> fns,
     contracted |-> IF plain = "b" THEN {"b::add"} ELSE {}, compiles |-> compiles]
Package(name, targets) == [name |-> name, targets |-> targets]
MCWorkspace == LET w ==
    <<Package("a", <<Target("a-lib", "a_lib", <<"lib", "cdylib">>, <<"a::good", "a::bad", "a::panics">>, <<"a::f", "a::g">>, "ok"),
                     Target("a", "a", <<"bin">>, <<>>, <<>>, "ok")>>),
      Package("b", <<Target("b", "b", <<"lib">>, <<"b::loops", "b::adds", "b::nothing">>, <<>>, "ok"),
                     Target("t", "t", <<"test">>, <<"t::nan">>, <<>>, "ok"),
                     Target("bench", "bench", <<"bench">>, <<>>, <<>>, "ok")>>),
      Package("d", <<Target("d", "d", <<"lib">>, <<"d::x::same", "d::twice", "d::y::same">>, <<>>, "ok")>>),
      Package("n", <<Target("n", "n", <<"lib">>, <<"n::outer", "n::inner">>, <<>>, "ok")>>),
      Package("s", <<Target("s", "s", <<"lib">>, <<"s::calm", "s::idle">>, <<>>, "ok")>>),
      Package("macro", <<Target("macro", "macro", <<"proc-macro">>, <<>>, <<>>, "ok")>>),
      Package("broken", <<Target("broken", "broken", <<"lib">>, <<>>, <<>>, "error")>>),
      Package("crashing", <<Target("crashing", "crashing", <<"lib">>, <<>>, <<>>, "ice")>>)>> IN w
MCStdTargets == LET t == <<Target("core", "core", <<"lib">>, <<"core::ok">>, <<>>, "ok"),
                           Target("std", "std", <<"dylib", "rlib">>, <<>>, <<>>, "ok")>> IN t
MCSingleFiles == LET t == [f \in {"single.rs"} |-> Target("single", "single", <<"lib">>, <<"single::ok">>, <<>>, "ok")] IN t
MCPathKind == LET k == [p \in {"single.rs", "library", "out.sarif", "dir"} |->
                            CASE p = "single.rs" -> "file" [] p = "library" -> "library" [] p = "dir" -> "directory"
                              [] OTHER -> "none"] IN k

NoEntries == [x \in {} |-> NoValue]
Table(flags, unstable) == [flags |-> flags, unstable |-> unstable]
Config(w, p, k) == [t \in {"workspace", "package", "kani"} |-> IF t = "workspace" THEN w ELSE IF t = "package" THEN p ELSE k]
Empty == Table(NoEntries, NoEntries)
NoConfig == Config(Empty, Empty, Empty)
Entry(key, value) == [x \in {key} |-> value]

Cargo(tokens) == [exe |-> "cargo-kani", tokens |-> <<Word("kani")>> \o tokens, config |-> NoConfig, inProject |-> TRUE]
With(config, tokens) == [Cargo(tokens) EXCEPT !.config = config]
Kani(tokens) == [exe |-> "kani", tokens |-> tokens, config |-> NoConfig, inProject |-> FALSE]
Val(name, text) == Opt(name, Text(text))
P(package) == Val("package", package)
F(filter) == Val("harness", filter)
U == Z("unstable-options")
Without(packages) == [i \in DOMAIN packages |-> Val("exclude", packages[i])]

InPlace == <<Val("concrete-playback", "inplace"), Z("concrete-playback")>>
Inputs == <<
    \* packages and targets
    Cargo(<<>>),
    Cargo(<<On("workspace"), On("tests")>> \o Without(<<"broken", "crashing", "d", "n", "s">>)),
    Cargo(<<On("workspace")>>), Cargo(<<P("crashing")>>), Cargo(<<P("macro")>>),
    Cargo(<<P("a"), On("bins")>>), Cargo(<<P("a"), Val("bin", "a"), On("lib")>>), Cargo(<<P("b"), On("tests"), On("no-default-checks")>>),
    Cargo(<<P("serde")>>), Cargo(<<P("unheard-of")>>), Cargo(<<P("a"), On("workspace")>>), Cargo(<<P("a"), P("a")>>),
    [Cargo(<<>>) EXCEPT !.inProject = FALSE],
    \* filters
    Cargo(<<F("good")>>), Cargo(<<F("a::good"), On("exact")>>), Cargo(<<F("good"), On("exact")>>), Cargo(<<F("nowhere")>>),
    Cargo(<<P("a"), P("b"), F("panics"), F("adds"), F("nothing")>>), Cargo(<<On("exact")>>),
    \* checks and bounds
    Cargo(<<F("bad"), On("no-memory-safety-checks"), On("fail-fast")>>),
    Cargo(<<P("b"), F("loops"), Opt("unwind", Num(5))>>), Cargo(<<P("b"), F("loops"), On("no-unwinding-checks")>>),
    Cargo(<<P("b"), On("tests"), F("nan"), On("no-overflow-checks"), Opt("default-unwind", Num(1))>>),
    Cargo(<<On("synthesize-loop-contracts"), U, Opt("unwind", Num(1)), F("good")>>),
    Cargo(<<F("good"), Val("solver", "bin=missing")>>), Cargo(<<F("good"), Val("solver", "abc")>>),
    Cargo(<<F("good"), U, Opt("harness-timeout", Suffixed(5, "m"))>>), Cargo(<<F("good"), Opt("harness-timeout", Num(5))>>),
    Cargo(<<F("good"), U, On("cbmc-args"), On("object-bits"), On("no-pointer-check")>>),
    Cargo(<<F("good"), U, Opt("unwind", Num(1)), On("cbmc-args"), On("unwind")>>),
    \* output
    Cargo(<<F("panics"), Val("output-format", "old")>>), Cargo(<<F("good"), Val("output-format", "old")>>),
    Cargo(<<On("quiet"), F("bad")>>), Cargo(<<F("good"), On("only-codegen")>>), Cargo(<<U, On("no-codegen")>>), Cargo(<<U, On("no-codegen"), F("good")>>),
    Cargo(<<P("s"), F("calm")>>), Cargo(<<P("s"), F("calm"), Val("output-format", "old")>>), Cargo(<<P("s"), F("idle")>>),
    Cargo(<<F("bad"), U, Opt("harness-timeout", Num(5)), Val("output-format", "old")>>),
    Cargo(<<F("good"), Opt("jobs", Num(4))>>), Cargo(<<F("good"), Opt("jobs", Num(4)), Val("output-format", "terse")>>),
    Cargo(<<F("bad"), F("good"), Val("sarif", "out.sarif")>>), Cargo(<<Val("sarif", "dir")>>),
    Cargo(<<F("good"), U, Opt("harness-timeout", Suffixed(5, "s")), Val("sarif", "out.sarif")>>),
    \* playback
    Cargo(InPlace), Cargo(InPlace \o <<On("fail-fast")>>), Cargo(<<P("d"), F("twice")>> \o InPlace), Cargo(<<P("d"), F("same")>> \o InPlace),
    Cargo(<<P("n")>> \o InPlace),
    Cargo(<<F("bad"), Val("concrete-playback", "print"), Z("concrete-playback")>>), Cargo(<<Val("concrete-playback", "print")>>),
    Cargo(<<Word("playback"), Z("concrete-playback"), On("only-codegen")>>),
    \* the configuration
    With(Config(Table(Entry("unwind", Str(Num(1))) @@ Entry("harness", Arr(<<Text("loops")>>)), NoEntries), Table(Entry("unwind", Str(Num(4))), NoEntries), Empty),
         <<P("b")>>),
    With(Config(Empty, Table(Entry("unwind", Str(Num(1))) @@ Entry("harness", Str(Text("adds"))), NoEntries), Empty),
         <<P("b"), F("loops"), Opt("unwind", Num(5))>>),
    With(Config(Empty, Empty, Table(Entry("default-checks", Bool(FALSE)) @@ Entry("fail-fast", Bool(TRUE)), Entry("stubbing", Bool(TRUE)))),
         <<F("good")>>),
    With(Config(Table(Entry("cbmc-args", Arr(<<Text("object-bits")>>)), NoEntries), Empty, Table(NoEntries, Entry("unstable-options", Bool(TRUE)))),
         <<F("good"), On("cbmc-args"), On("no-pointer-check")>>),
    With(Config(Empty, Table(Entry("cbmc-args", Str(Text("slice"))), Entry("unstable-options", Bool(TRUE))), Empty), <<F("good"), Z("stubbing")>>),
    With(Config(Empty, Table(Entry("default-unwind", Str(Num(1))) @@ Entry("cbmc-args", Str(Text("slice"))), Entry("stubbing", Bool(TRUE))), Empty),
         <<Word("autoharness"), Z("autoharness"), U, F("good"), On("cbmc-args"), On("no-pointer-check")>>),
    With(Config(Empty, Table(Entry("cbmc-args", Str(Text("slice"))), Entry("unstable-options", Bool(TRUE))), Empty), <<Word("list")>>),
    With(Config(Empty, Table(Entry("unwind", Other), NoEntries), Empty), <<F("good")>>),
    With(Config(Empty, Table(Entry("no-codegen", Bool(FALSE)), NoEntries), Empty), <<F("good")>>),
    \* the other commands
    Cargo(<<Word("list")>>), Cargo(<<P("a"), P("b"), Word("list"), Val("format", "json")>>), Cargo(<<Word("list"), On("quiet")>>),
    Cargo(<<U, On("no-codegen"), Word("list"), Val("format", "json")>>),
    Cargo(<<Word("autoharness"), Z("autoharness"), Val("exclude-pattern", "g"), F("good")>>),
    Cargo(<<Word("autoharness"), Z("autoharness"), Val("include-pattern", "::g"), F("panics")>>),
    Cargo(<<Word("autoharness"), Z("autoharness"), On("list"), Val("format", "markdown")>>), Cargo(<<Word("autoharness")>>),
    Kani(<<Word("single.rs")>>), Kani(<<Word("single.rs"), On("lib")>>), Kani(<<Word("library")>>),
    Kani(<<Word("list"), Word("single.rs")>>), Kani(<<Word("playback"), Word("single.rs"), Z("concrete-playback")>>),
    Kani(<<Word("verify-std"), Word("library"), U>>), Kani(<<Word("verify-std"), Word("library"), U, On("coverage"), Z("source-coverage")>>),
    Kani(<<Word("autoharness"), Word("library"), Z("autoharness"), On("std")>>)
    >>
MCRustFlags == <<>>
MCCommands == LET c == {Inputs[i] : i \in DOMAIN Inputs} IN c
MCAgain == LET c == {Cargo(<<Word("playback"), Z("concrete-playback")>>)} IN c
=============================================================================
