------------------------- MODULE CrateCodegenProofs -------------------------
(* What holds of every model that the back end generates, for any crate, any   *)
(* attributes and any order of the hash maps: models are closed, delayed UB is  *)
(* tracked, the metadata is right, and the compiler implements CrateModel.      *)
EXTENDS CrateCodegen, FiniteSetTheorems, WellFoundedInduction, TLAPS

ItemsOf(s) == {s[k] : k \in 1..Len(s)}

IsBody(b) ==
    b = [src |-> b.src, own |-> b.own, closures |-> b.closures, mode |-> b.mode,
         tracked |-> b.tracked]

\* The instrumented body of a function.
Instrument(b) == [b EXCEPT !.tracked = TRUE, !.own = @ \cup {MemInitFn}]

\* The global pass instruments what it has to, and maybe a stub, and starts the second
\* collection if it did.
LEMMA GlobalPassDoes ==
    ASSUME GlobalPass
    PROVE  \E M : /\ Instrumented \subseteq M /\ M \subseteq Instrumented \cup Misread
                  /\ cache' = [i \in DOMAIN cache |->
                                  IF i \in M THEN Instrument(cache[i]) ELSE cache[i]]
                  /\ M # {} => roots' = Roots(prog, Head(pending)) /\ collected' = {}
                  /\ M = {} => roots' = roots /\ collected' = collected
<1>1. PICK odd \in SUBSET Misread :
         LET modified == Instrumented \cup odd
         IN  /\ cache' = [i \in DOMAIN cache |->
                            IF i \in modified
                            THEN [cache[i] EXCEPT !.tracked = TRUE, !.own = @ \cup {MemInitFn}]
                            ELSE cache[i]]
             /\ IF modified # {}
                THEN roots' = Roots(prog, Head(pending)) /\ collected' = {}
                ELSE UNCHANGED <<roots, collected>>
  BY DEF GlobalPass
<1>2. PICK M : M = Instrumented \cup odd
  OBVIOUS
<1>3. cache' = [i \in DOMAIN cache |-> IF i \in M THEN Instrument(cache[i]) ELSE cache[i]]
  BY <1>1, <1>2 DEF Instrument
<1>4. /\ M # {} => roots' = Roots(prog, Head(pending)) /\ collected' = {}
      /\ M = {} => roots' = roots /\ collected' = collected
  BY <1>1, <1>2
<1> QED BY <1>2, <1>3, <1>4

-----------------------------------------------------------------------------
(* Closed models *)

\* What was visited has a body in the cache, and what that body mentions was visited
\* or is about to be.
Visited ==
    phase = "collect" =>
        /\ collected \subseteq DOMAIN cache
        /\ \A i \in collected : NextItems(prog, cache[i]) \subseteq collected \cup queue

ClosedInvariant == Visited /\ ClosedModel

\* Visiting an item keeps what was visited and mentions nothing new elsewhere.
LEMMA ClosedVisit ==
    ASSUME Visited, NEW i \in queue, Visit(i)
    PROVE  Visited' /\ UNCHANGED <<prog, models>>
<1>1. CASE phase' = "aborted"
  BY <1>1 DEF Visit, Visited, outputVars
<1>2. CASE phase' # "aborted"
  <2> DEFINE body == IF i \in DOMAIN cache THEN cache[i] ELSE Transform(prog, unit, unused, i)
  <2> HIDE DEF body
  <2>1. /\ phase = "collect" /\ phase' = "collect" /\ prog' = prog /\ models' = models
        /\ collected' = collected \cup {i}
        /\ queue' = (queue \cup NextItems(prog, body)) \ collected'
        /\ cache' = [j \in DOMAIN cache \cup {i} |-> IF j = i THEN body ELSE cache[j]]
    BY <1>2 DEF Visit, body, outputVars
  <2>2. i \in DOMAIN cache => body = cache[i]
    BY DEF body
  <2>3. collected' \subseteq DOMAIN cache'
    BY <2>1 DEF Visited
  <2>4. ASSUME NEW j \in collected'
        PROVE  NextItems(prog', cache'[j]) \subseteq collected' \cup queue'
    <3>1. CASE j = i
      BY <3>1, <2>1
    <3>2. CASE j # i
      <4>1. j \in collected /\ cache'[j] = cache[j]
        BY <3>2, <2>1, <2>4 DEF Visited
      <4> QED BY <4>1, <2>1 DEF Visited
    <3> QED BY <3>1, <3>2
  <2> QED BY <2>1, <2>3, <2>4 DEF Visited
<1> QED BY <1>1, <1>2

\* The global passes change no body unless everything is collected again.
LEMMA ClosedGlobalPass ==
    ASSUME Visited, GlobalPass
    PROVE  Visited' /\ UNCHANGED <<prog, models>>
<1>1. /\ phase = "collect" /\ phase' = "collect" /\ prog' = prog /\ models' = models
      /\ queue = {} /\ queue' = {}
  BY DEF GlobalPass, outputVars
<1>p. PICK M : /\ cache' = [i \in DOMAIN cache |->
                              IF i \in M THEN Instrument(cache[i]) ELSE cache[i]]
               /\ M # {} => collected' = {}
               /\ M = {} => collected' = collected
  BY GlobalPassDoes
<1>2. CASE M # {}
  BY <1>1, <1>p, <1>2 DEF Visited
<1>3. CASE M = {}
  <2>1. collected' = collected /\ cache' = [i \in DOMAIN cache |-> cache[i]]
    BY <1>p, <1>3
  <2>2. \A i \in DOMAIN cache : cache'[i] = cache[i]
    BY <2>1
  <2> QED BY <1>1, <2>1, <2>2 DEF Visited
<1> QED BY <1>2, <1>3, <1>1

\* The model of a harness is what was visited.
LEMMA ClosedCodegenItems ==
    ASSUME Visited, ClosedModel, CodegenItems
    PROVE  ClosedInvariant'
<1> DEFINE h == Head(pending)
<1> HIDE DEF h
<1>1. phase = "collect" /\ queue = {} /\ phase' # "collect" /\ prog' = prog
  BY DEF CodegenItems
<1>2. Visited'
  BY <1>1 DEF Visited
<1>3. CASE phase' = "aborted"
  BY <1>1, <1>2, <1>3 DEF CodegenItems, ClosedModel, ClosedInvariant
<1>4. CASE phase' # "aborted"
  <2>1. models' = [g \in DOMAIN models \cup {h} |->
                     IF g = h THEN [i \in collected |-> cache[i]] ELSE models[g]]
    BY <1>4 DEF CodegenItems, h
  <2>2. ASSUME NEW g \in DOMAIN models', NEW i \in DOMAIN models'[g]
        PROVE  NextItems(prog', models'[g][i]) \subseteq DOMAIN models'[g]
    <3>1. CASE g = h
      <4>1. models'[g] = [j \in collected |-> cache[j]]
        BY <2>1, <3>1
      <4>2. DOMAIN models'[g] = collected /\ models'[g][i] = cache[i]
        BY <4>1, <2>2
      <4> QED BY <4>2, <1>1, <2>2 DEF Visited
    <3>2. CASE g # h
      <4>1. models'[g] = models[g] /\ g \in DOMAIN models
        BY <2>1, <3>2, <2>2
      <4> QED BY <4>1, <1>1, <2>2 DEF ClosedModel
    <3> QED BY <3>1, <3>2
  <2> QED BY <1>2, <2>2 DEF ClosedModel, ClosedInvariant
<1> QED BY <1>3, <1>4

\* Every step keeps the models closed.
LEMMA ClosedNext == ClosedInvariant /\ [Next]_vars => ClosedInvariant'
<1> SUFFICES ASSUME ClosedInvariant, [Next]_vars PROVE ClosedInvariant'
  OBVIOUS
<1> USE DEF ClosedInvariant
<1>1. ASSUME prog' = prog, models' = models PROVE ClosedModel'
  BY <1>1 DEF ClosedModel
<1>2. ASSUME phase' # "collect" PROVE Visited'
  BY <1>2 DEF Visited
<1>3. ASSUME NEW h \in AllHarnesses(prog), Group(h) PROVE ClosedInvariant'
  BY <1>1, <1>2, <1>3 DEF Group, outputVars
<1>4. CASE Validate
  BY <1>1, <1>2, <1>4 DEF Validate, outputVars
<1>5. ASSUME NEW u \in units, StartUnit(u) PROVE ClosedInvariant'
  BY <1>1, <1>2, <1>5 DEF StartUnit, outputVars
<1>6. CASE StartHarness
  BY <1>1, <1>6 DEF StartHarness, outputVars, Visited
<1>7. ASSUME NEW r \in roots, CollectRoot(r) PROVE ClosedInvariant'
  BY <1>1, <1>7 DEF CollectRoot, outputVars, unitVars, Visited
<1>8. ASSUME NEW i \in queue, Visit(i) PROVE ClosedInvariant'
  BY <1>1, <1>8, ClosedVisit
<1>9. CASE GlobalPass
  BY <1>1, <1>9, ClosedGlobalPass
<1>10. CASE CodegenItems
  BY <1>10, ClosedCodegenItems
<1>11. CASE WriteMetadata
  BY <1>1, <1>2, <1>11 DEF WriteMetadata
<1>12. CASE UNCHANGED vars
  BY <1>12 DEF vars, Visited, ClosedModel
<1>13. CASE AbortIfErrors
  BY <1>1, <1>2, <1>13 DEF AbortIfErrors, outputVars
<1> QED
  BY <1>3, <1>4, <1>5, <1>6, <1>7, <1>8, <1>9, <1>10, <1>11, <1>12, <1>13 DEF Next

\* codegen_items never meets the name of an item that it has not declared: whatever
\* the crate, the options and the order in which items are visited, a model holds
\* everything with a body that its bodies mention.
THEOREM ModelsAreClosed == Spec => []ClosedModel
<1>1. Init => ClosedInvariant
  BY DEF Init, ClosedInvariant, Visited, ClosedModel, Empty
<1>2. ClosedInvariant => ClosedModel
  BY DEF ClosedInvariant
<1> QED BY <1>1, <1>2, ClosedNext, PTL DEF Spec

-----------------------------------------------------------------------------
(* Units *)

HarnessKey(p, h) == IF h[1] = "fn" THEN Key(p, h) ELSE <<h>>

\* The harnesses of a unit agree on the key, and the unit has the stubs of each.
IsUnit(p, u) ==
    /\ u = [key |-> u.key, harnesses |-> u.harnesses, stubs |-> u.stubs]
    /\ u.harnesses \in Seq(AllHarnesses(p)) /\ u.harnesses # <<>>
    /\ \A k \in 1..Len(u.harnesses) :
          /\ u.key = HarnessKey(p, u.harnesses[k])
          /\ u.stubs = ApplyTransitivity(StubsOf(p, u.harnesses[k]))

\* The harnesses still to be compiled are harnesses of the unit.
UnitsRight ==
    /\ prog \in Programs
    /\ \A u \in units : IsUnit(prog, u)
    /\ unit = NoUnit \/ IsUnit(prog, unit)
    /\ pending \in Seq(ItemsOf(unit.harnesses))
    /\ phase = "collect" => pending # <<>>

HarnessesOf(U) == UNION {ItemsOf(u.harnesses) : u \in U}

\* Every harness is in a unit, waits in the unit that is compiled, or has a model.
Partition ==
    /\ grouped \subseteq AllHarnesses(prog)
    /\ phase \notin {"group", "aborted"} => grouped = AllHarnesses(prog)
    /\ grouped = DOMAIN models \cup ItemsOf(pending)
                   \cup HarnessesOf(units)
    /\ phase = "done" => units = {} /\ pending = <<>> /\ metadata = grouped \ {PubFns}

UnitInvariant == UnitsRight /\ Partition

\* One harness more in a unit.
LEMMA ItemsAppend ==
    ASSUME NEW S, NEW s \in Seq(S), NEW x
    PROVE  ItemsOf(Append(s, x)) = ItemsOf(s) \cup {x}
<1> DEFINE t == Append(s, x)
<1>1. Len(t) = Len(s) + 1 /\ Len(s) \in Nat /\ t[Len(s) + 1] = x
  OBVIOUS
<1>2. \A k \in 1..Len(s) : t[k] = s[k]
  OBVIOUS
<1> HIDE DEF t
<1>3. 1..Len(t) = 1..Len(s) \cup {Len(s) + 1}
  BY <1>1
<1>4. ItemsOf(t) = ItemsOf(s) \cup {x}
  BY <1>1, <1>2, <1>3 DEF ItemsOf
<1> QED BY <1>4 DEF t

\* The next harness of a unit, and the ones after it.
LEMMA ItemsTail ==
    ASSUME NEW S, NEW s \in Seq(S), s # <<>>
    PROVE  /\ ItemsOf(s) = {Head(s)} \cup ItemsOf(Tail(s))
           /\ Tail(s) \in Seq(S) /\ Head(s) \in S
<1> DEFINE t == Tail(s)
<1>1. Len(s) \in Nat \ {0} /\ Len(t) = Len(s) - 1 /\ Head(s) = s[1] /\ t \in Seq(S) /\ Head(s) \in S
  OBVIOUS
<1>2. \A k \in 1..Len(t) : t[k] = s[k + 1]
  OBVIOUS
<1> HIDE DEF t
<1>3. ASSUME NEW k \in 1..Len(s) PROVE s[k] \in {s[1]} \cup ItemsOf(t)
  <2>1. CASE k = 1
    BY <2>1
  <2>2. CASE k # 1
    <3>1. k - 1 \in 1..Len(t) /\ t[k - 1] = s[k]
      BY <2>2, <1>1, <1>2
    <3> QED BY <3>1 DEF ItemsOf
  <2> QED BY <2>1, <2>2
<1>4. ASSUME NEW k \in 1..Len(t) PROVE t[k] \in ItemsOf(s)
  <2>1. k + 1 \in 1..Len(s) /\ t[k] = s[k + 1]
    BY <1>1, <1>2
  <2> QED BY <2>1 DEF ItemsOf
<1>5. s[1] \in ItemsOf(s)
  BY <1>1 DEF ItemsOf
<1>6. ItemsOf(s) = {s[1]} \cup ItemsOf(t)
  BY <1>3, <1>4, <1>5 DEF ItemsOf
<1> QED BY <1>1, <1>6 DEF t

\* An empty list has no harnesses.
LEMMA ItemsEmpty == ItemsOf(<<>>) = {}
BY DEF ItemsOf

\* One more harness in a unit, or a unit for it.
LEMMA UnitsGroup ==
    ASSUME UnitInvariant, NEW h \in AllHarnesses(prog), Group(h)
    PROVE  UnitInvariant'
<1> DEFINE key == HarnessKey(prog, h)
           same == {u \in units : u.key = key}
           With(u) == [u EXCEPT !.harnesses = Append(@, h)]
           new == [key |-> key, harnesses |-> <<h>>,
                   stubs |-> ApplyTransitivity(StubsOf(prog, h))]
<1>1. /\ phase = "group" /\ phase' = "group" /\ prog' = prog
      /\ unit' = unit /\ pending' = pending /\ models' = models
      /\ grouped' = grouped \cup {h}
  BY DEF Group, unitVars, outputVars
<1>2. \/ same # {} /\ units' = (units \ same) \cup {With(u) : u \in same}
      \/ units' = units \cup {new}
  BY DEF Group, HarnessKey
<1>3. ASSUME NEW u \in same
      PROVE  /\ IsUnit(prog, With(u))
             /\ ItemsOf(With(u).harnesses) = ItemsOf(u.harnesses) \cup {h}
  <2> DEFINE s == u.harnesses
             t == Append(s, h)
  <2>1. /\ u = [key |-> u.key, harnesses |-> s, stubs |-> u.stubs]
        /\ s \in Seq(AllHarnesses(prog)) /\ s # <<>>
        /\ u.key = key
        /\ \A k \in 1..Len(s) : /\ u.key = HarnessKey(prog, s[k])
                                 /\ u.stubs = ApplyTransitivity(StubsOf(prog, s[k]))
    BY DEF UnitInvariant, UnitsRight, IsUnit
  <2>2. With(u) = [key |-> u.key, harnesses |-> t, stubs |-> u.stubs]
    BY <2>1
  <2>3. /\ t \in Seq(AllHarnesses(prog)) /\ t # <<>> /\ Len(t) = Len(s) + 1
        /\ Len(s) \in Nat \ {0} /\ t[Len(s) + 1] = h
        /\ \A k \in 1..Len(s) : t[k] = s[k]
    BY <2>1
  <2>4. u.stubs = ApplyTransitivity(StubsOf(prog, h))
    <3>1. HarnessKey(prog, s[1]) = key /\ u.stubs = ApplyTransitivity(StubsOf(prog, s[1]))
      BY <2>1, <2>3
    <3>2. StubsOf(prog, s[1]) = StubsOf(prog, h)
      BY <3>1 DEF HarnessKey, Key
    <3> QED BY <3>1, <3>2
  <2>5. ASSUME NEW k \in 1..Len(t)
        PROVE  /\ u.key = HarnessKey(prog, t[k])
               /\ u.stubs = ApplyTransitivity(StubsOf(prog, t[k]))
    BY <2>1, <2>3, <2>4, k \in 1..Len(s) \/ k = Len(s) + 1
  <2>6. ItemsOf(t) = ItemsOf(s) \cup {h}
    BY <2>1, ItemsAppend
  <2> HIDE DEF s, t
  <2> QED BY <2>2, <2>3, <2>5, <2>6 DEF IsUnit, s
<1>4. IsUnit(prog, new) /\ ItemsOf(new.harnesses) = {h}
  <2>1. <<h>> \in Seq(AllHarnesses(prog)) /\ Len(<<h>>) = 1 /\ <<h>>[1] = h
    OBVIOUS
  <2>2. ItemsOf(<<h>>) = {h}
    BY <2>1 DEF ItemsOf
  <2> QED BY <2>1, <2>2 DEF IsUnit
<1>5. \A u \in units : IsUnit(prog, u)
  BY DEF UnitInvariant, UnitsRight
<1> HIDE DEF With, new, key
<1>6. (\A u \in units' : IsUnit(prog, u)) /\ HarnessesOf(units') = HarnessesOf(units) \cup {h}
  BY <1>2, <1>3, <1>4, <1>5 DEF HarnessesOf
<1> QED BY <1>1, <1>6 DEF UnitInvariant, UnitsRight, Partition

\* Every step keeps every harness in a unit, pending, or with a model.
LEMMA UnitsNext == UnitInvariant /\ [Next]_vars => UnitInvariant'
<1> SUFFICES ASSUME UnitInvariant, [Next]_vars PROVE UnitInvariant'
  OBVIOUS
<1> USE DEF UnitInvariant
<1>1. ASSUME NEW h \in AllHarnesses(prog), Group(h) PROVE UnitInvariant'
  BY <1>1, UnitsGroup
<1>2. CASE Validate
  BY <1>2 DEF Validate, unitVars, outputVars, UnitsRight, Partition
<1>3. ASSUME NEW u \in units, StartUnit(u) PROVE UnitInvariant'
  <2>1. /\ phase = "units" /\ phase' = phase /\ pending = <<>> /\ pending' = u.harnesses
        /\ unit' = u /\ units' = units \ {u}
        /\ prog' = prog /\ models' = models /\ grouped' = grouped /\ metadata' = metadata
    BY <1>3 DEF StartUnit, outputVars
  <2>2. u.harnesses \in Seq(ItemsOf(u.harnesses))
    BY DEF UnitsRight, IsUnit, ItemsOf
  <2>3. HarnessesOf(units) = HarnessesOf(units \ {u}) \cup ItemsOf(u.harnesses)
    BY DEF HarnessesOf
  <2> QED BY <2>1, <2>2, <2>3, ItemsEmpty DEF UnitsRight, Partition
<1>4. CASE StartHarness
  BY <1>4 DEF StartHarness, unitVars, outputVars, UnitsRight, Partition
<1>5. ASSUME NEW r \in roots, CollectRoot(r) PROVE UnitInvariant'
  BY <1>5 DEF CollectRoot, unitVars, outputVars, UnitsRight, Partition
<1>6. ASSUME NEW i \in queue, Visit(i) PROVE UnitInvariant'
  <2>1. /\ phase = "collect" /\ phase' \in {"collect", "aborted"} /\ prog' = prog
        /\ grouped' = grouped /\ units' = units /\ unit' = unit /\ pending' = pending
        /\ models' = models /\ metadata' = metadata
    BY <1>6 DEF Visit, outputVars
  <2> QED BY <2>1 DEF UnitsRight, Partition
<1>7. CASE GlobalPass
  BY <1>7 DEF GlobalPass, outputVars, UnitsRight, Partition
<1>8. CASE CodegenItems
  <2>1. /\ phase = "collect" /\ phase' \in {"units", "aborted"} /\ prog' = prog
        /\ grouped' = grouped /\ units' = units /\ unit' = unit /\ metadata' = metadata
    BY <1>8 DEF CodegenItems
  <2>2. CASE pending' = pending /\ models' = models
    BY <2>1, <2>2 DEF UnitsRight, Partition
  <2>3. CASE pending' = Tail(pending) /\ DOMAIN models' = DOMAIN models \cup {Head(pending)}
    BY <2>1, <2>3, ItemsTail DEF UnitsRight, Partition
  <2> QED BY <1>8, <2>2, <2>3 DEF CodegenItems
<1>9. CASE WriteMetadata
  BY <1>9 DEF WriteMetadata, unitVars, UnitsRight, Partition
<1>10. CASE UNCHANGED vars
  BY <1>10 DEF vars, UnitsRight, Partition
<1>11. CASE AbortIfErrors
  BY <1>11 DEF AbortIfErrors, unitVars, outputVars, UnitsRight, Partition
<1> QED
  BY <1>1, <1>2, <1>3, <1>4, <1>5, <1>6, <1>7, <1>8, <1>9, <1>10, <1>11 DEF Next

\* No harness is grouped at first.
LEMMA UnitsInit == Init => UnitInvariant
<1> SUFFICES ASSUME Init PROVE UnitInvariant
  OBVIOUS
<1>1. UnitsRight
  BY DEF Init, UnitsRight, NoUnit
<1>2. HarnessesOf({}) = {}
  BY DEF HarnessesOf
<1>3. Partition
  BY <1>2, ItemsEmpty DEF Init, Partition, Empty
<1> QED BY <1>1, <1>3 DEF UnitInvariant

-----------------------------------------------------------------------------
(* The bodies of a unit *)

\* The unit u checks the contract of f, with the given kind of closure.
Checks(p, u, f, mode) ==
    /\ f \in p.contract
    /\ u.harnesses # <<>> /\ f = CheckFn(p, u.harnesses[1])
    /\ mode = IF f \in p.recursive THEN "recursion" ELSE "check"

\* The closures that check a contract of the unit are never found unused.
OnlyUnused(p, u, U) ==
    /\ \A x \in U : x[1] \in Closures
    /\ \A f \in p.contract, c \in Closures : Checks(p, u, f, c) => <<c, f>> \notin U
UsedClosures == OnlyUnused(prog, unit, unused)

\* What the passes leave in the body b of the item i.
BodyRight(p, u, i, b) ==
    /\ IsBody(b)
    /\ i = MemInitFn => NextItems(p, b) \subseteq {MemInitFn}
    /\ i[1] = "auto" /\ DOMAIN u.stubs = {} => Item(p, i[2]) \in b.own
    /\ \A f \in p.contract :
          /\ i = <<"fn", f>> => \A c \in Closures : <<c, f>> \in b.closures
          /\ i = <<"check", f>> /\ Checks(p, u, f, "check") => <<"modifies", f>> \in b.own
          /\ i = <<"recursion", f>> /\ Checks(p, u, f, "recursion") =>
                <<"rec_check", f>> \in b.own
          /\ i = <<"rec_check", f>> => <<"rec_modifies", f>> \in b.own

CacheRight == \A i \in DOMAIN cache : BodyRight(prog, unit, i, cache[i])

\* What a harness is.
LEMMA HarnessShape ==
    ASSUME NEW p, NEW h \in AllHarnesses(p)
    PROVE  \/ h = PubFns
           \/ \E x \in DOMAIN p.stubs : h = <<"fn", x>>
           \/ \E f \in p.fns : h = <<"auto", f>> /\ SkipReason(p, f) = None
<1>1. ASSUME h \in ManualHarnesses(p) PROVE \E x \in DOMAIN p.stubs : h = <<"fn", x>>
  BY <1>1 DEF ManualHarnesses
<1>2. ASSUME h \in AutomaticHarnesses(p)
      PROVE  \E f \in p.fns : h = <<"auto", f>> /\ SkipReason(p, f) = None
  <2>1. PICK f \in {g \in p.fns : SkipReason(p, g) = None} : h = AutoHarness(f)
    BY <1>2 DEF AutomaticHarnesses
  <2> QED BY <2>1 DEF AutoHarness
<1> QED BY <1>1, <1>2 DEF AllHarnesses

\* Only functions of the crate are stubbed.
LEMMA UnitStubs ==
    ASSUME NEW p \in Programs, NEW u, u = NoUnit \/ IsUnit(p, u)
    PROVE  DOMAIN u.stubs \subseteq p.fns
<1>1. CASE u = NoUnit
  BY <1>1 DEF NoUnit
<1>2. CASE IsUnit(p, u)
  <2> DEFINE h == u.harnesses[1]
  <2>1. h \in AllHarnesses(p) /\ u.stubs = ApplyTransitivity(StubsOf(p, h))
    BY <1>2 DEF IsUnit
  <2> HIDE DEF h
  <2>2. DOMAIN u.stubs = DOMAIN StubsOf(p, h)
    BY <2>1 DEF ApplyTransitivity
  <2>3. DOMAIN StubsOf(p, h) \subseteq p.fns
    BY <2>1, HarnessShape, ProgramsAssumption DEF StubsOf, PubFns
  <2> QED BY <2>2, <2>3
<1> QED BY <1>1, <1>2

\* The source of an item.
LEMMA OriginalBody ==
    ASSUME NEW p, NEW i
    PROVE  /\ IsBody(Original(p, i)) /\ Original(p, i).src = i
           /\ i = MemInitFn /\ "mem_init" \notin p.contract =>
                 Original(p, i).own = {} /\ Original(p, i).closures = {}
           /\ \A f \in p.contract :
                 i = <<"fn", f>> => \A c \in Closures : <<c, f>> \in Original(p, i).closures
           /\ \A f : i = <<"check", f>> => <<"modifies", f>> \in Original(p, i).own
           /\ \A f : i = <<"recursion", f>> => <<"rec_check", f>> \in Original(p, i).own
           /\ \A f : i = <<"rec_check", f>> => <<"rec_modifies", f>> \in Original(p, i).own
<1>1. IsBody(Original(p, i)) /\ Original(p, i).src = i
  BY DEF Original, IsBody
<1>2. i = MemInitFn /\ "mem_init" \notin p.contract =>
         Original(p, i).own = {} /\ Original(p, i).closures = {}
  BY DEF Original, MemInitFn
<1>3. ASSUME NEW f \in p.contract, i = <<"fn", f>>
      PROVE  \A c \in Closures : <<c, f>> \in Original(p, i).closures
  BY <1>3 DEF Original
<1>4. ASSUME NEW f, i = <<"check", f>> PROVE <<"modifies", f>> \in Original(p, i).own
  BY <1>4 DEF Original
<1>5. ASSUME NEW f, i = <<"recursion", f>> PROVE <<"rec_check", f>> \in Original(p, i).own
  BY <1>5 DEF Original
<1>6. ASSUME NEW f, i = <<"rec_check", f>> PROVE <<"rec_modifies", f>> \in Original(p, i).own
  BY <1>6 DEF Original
<1> QED BY <1>1, <1>2, <1>3, <1>4, <1>5, <1>6

\* The body that the passes leave in the cache.
LEMMA TransformRight ==
    ASSUME NEW p \in Programs, NEW u, u = NoUnit \/ IsUnit(p, u), NEW U, NEW i,
           OnlyUnused(p, u, U), ~ClosureMissing(p, u, i)
    PROVE  BodyRight(p, u, i, Transform(p, u, U, i))
<1>0. CASE IsStatic(i)
  <2>1. Transform(p, u, U, i) = Original(p, i)
    BY <1>0 DEF Transform
  <2>2. i[1] \in {"static", "REENTRY"}
    BY <1>0 DEF IsStatic
  <2> QED BY <2>1, <2>2, OriginalBody DEF BodyRight, MemInitFn
<1> SUFFICES ASSUME ~IsStatic(i) PROVE BodyRight(p, u, i, Transform(p, u, U, i))
  BY <1>0
<1> DEFINE b0 == Original(p, i)
           b1 == AutomaticHarness(p, i, b0)
           b2 == FnStub(p, u, i, b1)
           b3 == ExternFnStub(p, u, b2)
           b4 == FunctionWithContract(p, u, U, i, b3)
<1>1. Transform(p, u, U, i) = b4
  BY DEF Transform
<1>2. "mem_init" \notin p.contract /\ "mem_init" \notin DOMAIN u.stubs
  BY UnitStubs, ProgramsAssumption
<1> HIDE DEF b0
<1>3. /\ IsBody(b1) /\ b1.closures = b0.closures
      /\ i[1] = "auto" => b1.own = {Item(p, i[2])}
      /\ i[1] # "auto" => b1 = b0
  <2>1. IsBody(b0)
    BY OriginalBody DEF b0
  <2> QED BY <2>1 DEF AutomaticHarness, IsBody
<1>4. /\ IsBody(b2)
      /\ i[1] # "fn" => b2 = b1
      /\ i = MemInitFn => b2 = b1
      /\ \A f \in p.contract : i = <<"fn", f>> => b2 = b0
  <2>1. IsBody(b2) /\ (i[1] # "fn" => b2 = b1)
    BY <1>3, OriginalBody DEF FnStub, HasFnStub
  <2>2. i = MemInitFn => b2 = b1
    BY <1>2 DEF FnStub, HasFnStub, MemInitFn
  <2>3. ASSUME NEW f \in p.contract, i = <<"fn", f>> PROVE b2 = b0
    <3>1. FnStub(p, u, i, b0).src[2] = f
      BY <2>3 DEF ClosureMissing, b0
    <3>2. b1 = b0
      BY <2>3, <1>3
    <3>3. CASE b2 = b1
      BY <3>2, <3>3
    <3>4. CASE b2 = Original(p, <<"fn", u.stubs[i[2]]>>)
      <4>1. b2.src = <<"fn", u.stubs[f]>> /\ b2.src[2] = f
        BY <2>3, <3>1, <3>2, <3>4, OriginalBody
      <4> QED BY <2>3, <3>4, <4>1 DEF b0
    <3> QED BY <3>3, <3>4 DEF FnStub
  <2> QED BY <2>1, <2>2, <2>3
<1> HIDE DEF b1, b2
<1>5. /\ IsBody(b3) /\ b3.closures = b2.closures
      /\ b2.own = {} => b3.own = {}
      /\ \A c \in b2.own : c[1] # "fn" \/ DOMAIN u.stubs = {} => c \in b3.own
  <2> DEFINE Redirect(c) ==
               IF /\ c[1] = "fn" /\ c[2] \in DOMAIN u.stubs
                  /\ ~(HasBody(p, c[2]) /\ HasBody(p, u.stubs[c[2]]))
               THEN <<"fn", u.stubs[c[2]]>> ELSE c
  <2>1. \A c : c[1] # "fn" \/ DOMAIN u.stubs = {} => Redirect(c) = c
    OBVIOUS
  <2>2. b3 = [b2 EXCEPT !.own = {Redirect(c) : c \in b2.own}]
    BY <1>4 DEF ExternFnStub, IsBody
  <2> HIDE DEF Redirect
  <2>3. IsBody(b3) /\ b3.closures = b2.closures /\ b3.own = {Redirect(c) : c \in b2.own}
    BY <1>4, <2>2 DEF IsBody
  <2> QED BY <2>1, <2>3
<1> HIDE DEF b3
<1>6. /\ IsBody(b4)
      /\ i[1] = "fn" => b4.closures = b3.closures /\ b4.own = b3.own
      /\ i[1] # "fn" /\ i \notin U => b4 = b3
      /\ b3.own = {} => b4.own = {}
  BY <1>5 DEF FunctionWithContract, IsBody, Cleared
<1> HIDE DEF b4
<1>7. i = MemInitFn => NextItems(p, b4) \subseteq {MemInitFn}
  BY <1>2, <1>3, <1>4, <1>5, <1>6, OriginalBody DEF b0, MemInitFn, NextItems
<1>8. i[1] = "auto" /\ DOMAIN u.stubs = {} => Item(p, i[2]) \in b4.own
  BY <1>3, <1>4, <1>5, <1>6 DEF OnlyUnused, Closures
<1>9. ASSUME NEW f \in p.contract, i = <<"fn", f>>
      PROVE  \A c \in Closures : <<c, f>> \in b4.closures
  BY <1>9, <1>4, <1>5, <1>6, OriginalBody DEF b0
<1>10. ASSUME NEW f \in p.contract, i = <<"check", f>>, Checks(p, u, f, "check")
       PROVE  <<"modifies", f>> \in b4.own
  <2>1. i \notin U /\ i[1] # "fn" /\ i[1] # "auto"
    BY <1>10 DEF OnlyUnused, Closures
  <2>2. <<"modifies", f>> \in b0.own
    BY <1>10, OriginalBody DEF b0
  <2> QED BY <2>1, <2>2, <1>3, <1>4, <1>5, <1>6
<1>11. ASSUME NEW f \in p.contract, i = <<"recursion", f>>, Checks(p, u, f, "recursion")
       PROVE  <<"rec_check", f>> \in b4.own
  <2>1. i \notin U /\ i[1] # "fn" /\ i[1] # "auto"
    BY <1>11 DEF OnlyUnused, Closures
  <2>2. <<"rec_check", f>> \in b0.own
    BY <1>11, OriginalBody DEF b0
  <2> QED BY <2>1, <2>2, <1>3, <1>4, <1>5, <1>6
<1>12. ASSUME NEW f \in p.contract, i = <<"rec_check", f>>
       PROVE  <<"rec_modifies", f>> \in b4.own
  <2>1. i \notin U /\ i[1] # "fn" /\ i[1] # "auto"
    BY <1>12 DEF OnlyUnused, Closures
  <2>2. <<"rec_modifies", f>> \in b0.own
    BY <1>12, OriginalBody DEF b0
  <2> QED BY <2>1, <2>2, <1>3, <1>4, <1>5, <1>6
<1> QED BY <1>1, <1>6, <1>7, <1>8, <1>9, <1>10, <1>11, <1>12 DEF BodyRight

\* The delayed-UB pass adds a call of the memory model to a body, and nothing else
\* that is followed.
LEMMA InstrumentRight ==
    ASSUME NEW p, NEW u, NEW i, NEW b, BodyRight(p, u, i, b)
    PROVE  /\ BodyRight(p, u, i, Instrument(b))
           /\ NextItems(p, Instrument(b)) \subseteq NextItems(p, b) \cup {MemInitFn}
           /\ Instrument(b).src = b.src /\ Instrument(b).tracked
<1> DEFINE c == Instrument(b)
<1>1. IsBody(b)
  BY DEF BodyRight
<1>2. c = [b EXCEPT !.tracked = TRUE, !.own = b.own \cup {MemInitFn}]
  BY DEF Instrument
<1> HIDE DEF c
<1>3. /\ IsBody(c) /\ c.own = b.own \cup {MemInitFn} /\ c.closures = b.closures
      /\ c.src = b.src /\ c.tracked = TRUE
  <2> DEFINE o == b.own \cup {MemInitFn}
  <2> HIDE DEF o
  <2>1. c = [b EXCEPT !.tracked = TRUE, !.own = o]
    BY <1>2 DEF o
  <2>2. PICK t : t = TRUE
    OBVIOUS
  <2>3. c = [b EXCEPT !.tracked = t, !.own = o]
    BY <2>1, <2>2
  <2> DEFINE d == [b EXCEPT !.tracked = t]
  <2>4. c = [d EXCEPT !.own = o]
    BY <2>3
  <2>5. /\ IsBody(d) /\ d.own = b.own /\ d.closures = b.closures
        /\ d.src = b.src /\ d.tracked = t
    BY <1>1 DEF IsBody
  <2> HIDE DEF d
  <2>6. /\ IsBody(c) /\ c.own = o /\ c.closures = d.closures
        /\ c.src = d.src /\ c.tracked = d.tracked
    BY <2>4, <2>5 DEF IsBody
  <2> QED BY <2>2, <2>5, <2>6 DEF o
<1>4. NextItems(p, c) \subseteq NextItems(p, b) \cup {MemInitFn}
  BY <1>3 DEF NextItems
<1>5. BodyRight(p, u, i, c)
  BY <1>3, <1>4 DEF BodyRight
<1> QED BY <1>3, <1>4, <1>5 DEF c

\* A closure of the mode is not marked.
LEMMA MarkUnusedRight ==
    ASSUME NEW p, NEW u, NEW U, NEW i, OnlyUnused(p, u, U)
    PROVE  OnlyUnused(p, u, MarkUnused(p, u, U, i))
<1> DEFINE mode == ContractMode(p, u.harnesses[1], i[2])
           new == {<<c, i[2]>> : c \in Closures \ {mode}}
<1>1. \A x \in new : x[1] \in Closures
  OBVIOUS
<1>2. ASSUME NEW f \in p.contract, NEW c \in Closures, Checks(p, u, f, c), <<c, f>> \in new
      PROVE  FALSE
  <2>1. i[2] = f /\ c # mode
    BY <1>2
  <2>2. mode = c
    BY <2>1, <1>2 DEF Checks, ContractMode
  <2> QED BY <2>1, <2>2
<1>3. MarkUnused(p, u, U, i) = U \/ MarkUnused(p, u, U, i) = U \cup new
  BY DEF MarkUnused
<1> HIDE DEF new
<1> QED BY <1>1, <1>2, <1>3 DEF OnlyUnused

-----------------------------------------------------------------------------
(* The first and the second collection *)

\* Nothing that a harness starts from is lost.
RootsKept ==
    phase = "collect" => Roots(prog, Head(pending)) \subseteq roots \cup queue \cup collected

\* The functions of S that the analysis A goes through and that touch the memory
\* involved are instrumented, where they are as written.
TracksOn(p, A, S, bodies) ==
    \A i \in S \cap A : /\ i[1] = "fn" /\ i # MemInitFn /\ bodies[i].src = i
                       /\ i[2] \in p.tracked
                       => bodies[i].tracked
TargetIn(p, A, S) == p.opts.uninit /\ \E i \in S \cap A : i[1] = "fn" /\ i[2] \in p.targets

AllTracked(S) == TracksOn(prog, Analyzed(prog, Head(pending)), S, cache)
HasTargetIn(S) == TargetIn(prog, Analyzed(prog, Head(pending)), S)

\* The second collection stays within the items of the first one, all of them
\* instrumented where they have to be, and the function that instrumentation calls.
Within(S) ==
    /\ roots \cup queue \cup collected \subseteq S \cup {MemInitFn}
    /\ \A i \in S : NextItems(prog, cache[i]) \subseteq S \cup {MemInitFn}
    /\ AllTracked(S)

\* Nothing was instrumented, and nothing is collected again.
NothingToDo ==
    /\ roots = {} /\ queue = {}
    /\ HasTargetIn(collected) => AllTracked(collected)

Recollection ==
    phase = "collect" /\ again => NothingToDo \/ \E S \in SUBSET DOMAIN cache : Within(S)

\* In a model with a target, all of what the analysis goes through is instrumented.
AnalysisTracked ==
    \A h \in DOMAIN models :
        TargetIn(prog, Analyzed(prog, h), DOMAIN models[h]) =>
            TracksOn(prog, Analyzed(prog, h), DOMAIN models[h], models[h])

Finite == IsFiniteSet(collected) /\ \A h \in DOMAIN models : IsFiniteSet(DOMAIN models[h])

BodyInvariant ==
    /\ UsedClosures /\ CacheRight /\ RootsKept /\ Recollection
    /\ AnalysisTracked /\ Finite

\* Visiting an item keeps the bodies of the unit right.
LEMMA BodyVisit ==
    ASSUME UnitInvariant, BodyInvariant, NEW i \in queue, Visit(i)
    PROVE  BodyInvariant'
<1> USE DEF BodyInvariant
<1>1. /\ phase = "collect" /\ prog' = prog /\ unit' = unit /\ pending' = pending
      /\ models' = models /\ roots' = roots /\ again' = again
  BY DEF Visit, outputVars
<1>2. AnalysisTracked' /\ \A h \in DOMAIN models' : IsFiniteSet(DOMAIN models'[h])
  BY <1>1 DEF AnalysisTracked, Finite
<1>3. CASE phase' = "aborted"
  <2>1. UNCHANGED <<cache, unused, collected>>
    BY <1>1, <1>3 DEF Visit
  <2> QED BY <1>1, <1>2, <1>3, <2>1
          DEF UsedClosures, CacheRight, RootsKept, Recollection, Finite
<1>4. CASE phase' # "aborted"
  <2> DEFINE body == IF i \in DOMAIN cache THEN cache[i] ELSE Transform(prog, unit, unused, i)
  <2>1. /\ i \notin DOMAIN cache => ~ClosureMissing(prog, unit, i)
        /\ collected' = collected \cup {i}
        /\ queue' = (queue \cup NextItems(prog, body)) \ collected'
        /\ cache' = [j \in DOMAIN cache \cup {i} |-> IF j = i THEN body ELSE cache[j]]
        /\ unused' = unused \/ unused' = MarkUnused(prog, unit, unused, i)
    BY <1>4 DEF Visit, Panics
  <2>2. UsedClosures'
    BY <1>1, <2>1, MarkUnusedRight DEF UsedClosures
  <2>3. BodyRight(prog, unit, i, body)
    <3>1. CASE i \in DOMAIN cache
      BY <3>1 DEF CacheRight
    <3>2. CASE i \notin DOMAIN cache
      <4>1. BodyRight(prog, unit, i, Transform(prog, unit, unused, i))
        BY <3>2, <2>1, TransformRight DEF UsedClosures, UnitInvariant, UnitsRight
      <4> QED BY <3>2, <4>1
    <3> QED BY <3>1, <3>2
  <2>4. \A j \in DOMAIN cache : j \in DOMAIN cache' /\ cache'[j] = cache[j]
    BY <2>1
  <2> HIDE DEF body
  <2>5. CacheRight'
    BY <1>1, <2>1, <2>3 DEF CacheRight
  <2>6. RootsKept'
    BY <1>1, <2>1 DEF RootsKept
  <2>7. ASSUME NEW S \in SUBSET DOMAIN cache, Within(S)
        PROVE  S \in SUBSET DOMAIN cache' /\ Within(S)'
    <3>1. NextItems(prog, body) \subseteq S \cup {MemInitFn}
      <4>1. CASE i \in S
        BY <4>1, <2>1, <2>4, <2>7 DEF Within
      <4>2. CASE i = MemInitFn
        BY <4>2, <2>3 DEF BodyRight
      <4> QED BY <4>1, <4>2, <2>7 DEF Within
    <3>2. \A j \in S : cache'[j] = cache[j]
      BY <2>4
    <3>3. AllTracked(S)'
      BY <1>1, <3>2, <2>7 DEF AllTracked, TracksOn, Within
    <3> QED BY <1>1, <2>1, <2>4, <2>7, <3>1, <3>2, <3>3 DEF Within
  <2>8. Recollection'
    BY <1>1, <2>7 DEF Recollection, NothingToDo
  <2>9. Finite'
    BY <1>2, <2>1, FS_AddElement DEF Finite
  <2> QED BY <1>2, <2>2, <2>5, <2>6, <2>8, <2>9
<1> QED BY <1>3, <1>4

\* So does the global pass, after which the items are collected again where it
\* changed a body.
LEMMA BodyGlobalPass ==
    ASSUME ClosedInvariant, BodyInvariant, GlobalPass
    PROVE  BodyInvariant'
<1> USE DEF BodyInvariant
<1>1. /\ phase = "collect" /\ prog' = prog /\ unit' = unit /\ pending' = pending
      /\ models' = models /\ unused' = unused /\ queue = {} /\ queue' = {} /\ roots = {}
      /\ phase' = "collect" /\ DOMAIN cache' = DOMAIN cache
  BY DEF GlobalPass, outputVars
<1>p. PICK M : /\ Instrumented \subseteq M /\ M \subseteq Instrumented \cup Misread
               /\ cache' = [i \in DOMAIN cache |->
                              IF i \in M THEN Instrument(cache[i]) ELSE cache[i]]
               /\ M # {} => roots' = Roots(prog, Head(pending)) /\ collected' = {}
               /\ M = {} => roots' = roots /\ collected' = collected
  BY GlobalPassDoes
<1>2. AnalysisTracked' /\ UsedClosures' /\ Finite'
  BY <1>1, <1>p, FS_EmptySet DEF AnalysisTracked, UsedClosures, Finite
<1>3. \A i \in DOMAIN cache :
         cache'[i] = IF i \in M THEN Instrument(cache[i]) ELSE cache[i]
  BY <1>p
<1>4. CacheRight'
  BY <1>1, <1>3, InstrumentRight DEF CacheRight
<1>5. RootsKept'
  BY <1>1, <1>p DEF RootsKept
<1>6. collected \subseteq DOMAIN cache
         /\ \A i \in collected : NextItems(prog, cache[i]) \subseteq collected
  BY <1>1 DEF ClosedInvariant, Visited
<1>s. \A i \in collected :
         cache'[i].src = cache[i].src /\ (i \in M => cache'[i].tracked)
  <2>1. ASSUME NEW i \in collected
        PROVE  Instrument(cache[i]).src = cache[i].src /\ Instrument(cache[i]).tracked
    BY <1>6, InstrumentRight DEF CacheRight
  <2> QED BY <1>3, <1>6, <2>1
<1>a. \A i \in collected : /\ i \in Analyzed(prog, Head(pending)) /\ i[1] = "fn" /\ HasTarget
                           /\ i[2] \in prog.tracked /\ cache[i].src = i
                           => i \in Instrumented
  BY DEF Instrumented, Analysis, Followed, Functions, IsStatic
<1>7. CASE M = {}
  <2>1. roots' = {} /\ collected' = collected /\ \A i \in collected : cache'[i] = cache[i]
    BY <1>1, <1>3, <1>6, <1>7, <1>p
  <2>2. HasTargetIn(collected) => HasTarget
    BY DEF HasTargetIn, TargetIn, HasTarget, Analysis, Followed, Functions, IsStatic
  <2>3. HasTargetIn(collected) => AllTracked(collected)
    BY <1>7, <1>p, <1>a, <2>2 DEF AllTracked, TracksOn
  <2>4. NothingToDo'
    BY <1>1, <2>1, <2>3 DEF NothingToDo, AllTracked, TracksOn, HasTargetIn
  <2> QED BY <1>2, <1>4, <1>5, <2>4 DEF Recollection
<1>8. CASE M # {}
  <2>1. roots' = Roots(prog, Head(pending)) /\ collected' = {}
    BY <1>8, <1>p
  <2>2. HasTarget
    BY <1>8, <1>p DEF Instrumented, Misread
  <2>3. ASSUME NEW i \in collected
        PROVE  NextItems(prog', cache'[i]) \subseteq collected \cup {MemInitFn}
    <3>1. BodyRight(prog, unit, i, cache[i])
      BY <1>6 DEF CacheRight
    <3>2. NextItems(prog, Instrument(cache[i])) \subseteq
              NextItems(prog, cache[i]) \cup {MemInitFn}
      BY <3>1, InstrumentRight
    <3> QED BY <1>1, <1>3, <1>6, <3>2
  <2>4. TracksOn(prog', Analyzed(prog', Head(pending')), collected, cache')
    BY <1>1, <1>p, <1>s, <1>a, <2>2 DEF TracksOn
  <2>5. Roots(prog, Head(pending)) \subseteq collected
    BY <1>1 DEF RootsKept
  <2>6. \E S \in SUBSET DOMAIN cache' : Within(S)'
    <3>1. PICK C : C = collected
      OBVIOUS
    <3>2. C \in SUBSET DOMAIN cache'
      BY <1>1, <1>6, <3>1
    <3>3. Within(C)'
      BY <1>1, <2>1, <2>3, <2>4, <2>5, <3>1 DEF Within, AllTracked
    <3> QED BY <3>2, <3>3
  <2> QED BY <1>2, <1>4, <1>5, <2>6 DEF Recollection
<1> QED BY <1>7, <1>8

\* So does generating the model.
LEMMA BodyCodegenItems ==
    ASSUME BodyInvariant, CodegenItems
    PROVE  BodyInvariant'
<1> USE DEF BodyInvariant
<1> DEFINE h == Head(pending)
<1> HIDE DEF h
<1>1. /\ phase = "collect" /\ again /\ phase' # "collect" /\ prog' = prog
      /\ unit' = unit /\ cache' = cache /\ unused' = unused
  BY DEF CodegenItems
<1>2. UsedClosures' /\ CacheRight' /\ RootsKept' /\ Recollection'
  BY <1>1 DEF UsedClosures, CacheRight, RootsKept, Recollection
<1>3. CASE phase' = "aborted"
  BY <1>1, <1>2, <1>3 DEF CodegenItems, AnalysisTracked, Finite, collectorVars
<1>4. CASE phase' # "aborted"
  <2>1. /\ models' = [g \in DOMAIN models \cup {h} |->
                        IF g = h THEN [i \in collected |-> cache[i]] ELSE models[g]]
        /\ collected' = collected
    BY <1>4 DEF CodegenItems, h, collectorVars
  <2> DEFINE A == Analyzed(prog, h)
  <2>2. TargetIn(prog, A, collected) => TracksOn(prog, A, collected, cache)
    <3>1. ASSUME NEW S \in SUBSET DOMAIN cache, Within(S) PROVE AllTracked(collected)
      BY <3>1 DEF Within, AllTracked, TracksOn
    <3>2. HasTargetIn(collected) => AllTracked(collected)
      BY <1>1, <3>1 DEF Recollection, NothingToDo
    <3> QED BY <3>2 DEF HasTargetIn, AllTracked, h
  <2>3. PICK m : m = [i \in collected |-> cache[i]]
    OBVIOUS
  <2>4. DOMAIN m = collected /\ \A i \in collected : m[i] = cache[i]
    BY <2>3
  <2>5. TargetIn(prog, A, DOMAIN m) => TracksOn(prog, A, DOMAIN m, m)
    BY <2>2, <2>4 DEF TracksOn
  <2>6. IsFiniteSet(DOMAIN m)
    BY <2>4 DEF Finite
  <2>7. /\ DOMAIN models' = DOMAIN models \cup {h} /\ models'[h] = m
        /\ \A g \in DOMAIN models : g # h => models'[g] = models[g]
    BY <2>1, <2>3
  <2>8. AnalysisTracked'
    BY <1>1, <2>5, <2>7 DEF AnalysisTracked
  <2>9. Finite'
    BY <2>1, <2>6, <2>7 DEF Finite
  <2> QED BY <1>2, <2>8, <2>9
<1> QED BY <1>3, <1>4

\* Every step keeps the bodies of the unit right.
LEMMA BodyNext == ClosedInvariant /\ UnitInvariant /\ BodyInvariant /\ [Next]_vars => BodyInvariant'
<1> SUFFICES ASSUME ClosedInvariant, UnitInvariant, BodyInvariant, [Next]_vars
             PROVE  BodyInvariant'
  OBVIOUS
<1> USE DEF BodyInvariant
<1>1. ASSUME prog' = prog, models' = models
      PROVE  AnalysisTracked' /\ (IsFiniteSet(collected') => Finite')
  BY <1>1 DEF AnalysisTracked, Finite
<1>f. IsFiniteSet(collected)
  BY DEF Finite
<1>2. ASSUME phase' # "collect" PROVE RootsKept' /\ Recollection'
  BY <1>2 DEF RootsKept, Recollection
<1>3. ASSUME prog' = prog, unit' = unit, cache' = cache, unused' = unused
      PROVE  UsedClosures' /\ CacheRight'
  BY <1>3 DEF UsedClosures, CacheRight
<1>4. ASSUME NEW h \in AllHarnesses(prog), Group(h) PROVE BodyInvariant'
  BY <1>1, <1>f, <1>2, <1>3, <1>4 DEF Group, unitVars, collectorVars, outputVars
<1>5. CASE Validate
  BY <1>1, <1>f, <1>2, <1>3, <1>5 DEF Validate, unitVars, collectorVars, outputVars
<1>6. ASSUME NEW u \in units, StartUnit(u) PROVE BodyInvariant'
  <2>1. /\ prog' = prog /\ models' = models /\ phase' = "units" /\ cache' = Empty
        /\ unused' = {} /\ collected' = collected
    BY <1>6 DEF StartUnit, collectorVars, outputVars
  <2>2. CacheRight' /\ UsedClosures'
    BY <2>1 DEF CacheRight, UsedClosures, OnlyUnused, Empty
  <2> QED BY <1>1, <1>f, <1>2, <2>1, <2>2
<1>7. CASE StartHarness
  <2>1. /\ prog' = prog /\ models' = models /\ unit' = unit /\ cache' = cache
        /\ unused' = unused /\ roots' = Roots(prog, Head(pending)) /\ pending' = pending
        /\ again' = FALSE /\ collected' = {}
    BY <1>7 DEF StartHarness, unitVars, outputVars
  <2> QED BY <1>1, <1>3, <2>1, FS_EmptySet DEF RootsKept, Recollection
<1>8. ASSUME NEW r \in roots, CollectRoot(r) PROVE BodyInvariant'
  <2>1. /\ prog' = prog /\ models' = models /\ unit' = unit /\ cache' = cache
        /\ unused' = unused /\ roots' = roots \ {r} /\ pending' = pending /\ again' = again
        /\ queue = {} /\ queue' = {r} /\ collected' = collected /\ phase' = phase
    BY <1>8 DEF CollectRoot, unitVars, outputVars
  <2>2. ASSUME NEW S \in SUBSET DOMAIN cache, Within(S) PROVE Within(S)'
    BY <2>1, <2>2 DEF Within, AllTracked
  <2>3. Recollection'
    BY <2>1, <2>2 DEF Recollection, NothingToDo
  <2> QED BY <1>1, <1>f, <1>3, <2>1, <2>3 DEF RootsKept
<1>9. ASSUME NEW i \in queue, Visit(i) PROVE BodyInvariant'
  BY <1>9, BodyVisit
<1>10. CASE GlobalPass
  BY <1>10, BodyGlobalPass
<1>11. CASE CodegenItems
  BY <1>11, BodyCodegenItems
<1>12. CASE WriteMetadata
  BY <1>1, <1>f, <1>2, <1>3, <1>12 DEF WriteMetadata, unitVars, collectorVars
<1>14. CASE AbortIfErrors
  BY <1>1, <1>f, <1>2, <1>3, <1>14 DEF AbortIfErrors, unitVars, collectorVars, outputVars
<1>13. CASE UNCHANGED vars
  <2>1. ASSUME NEW S PROVE Within(S) => Within(S)'
    BY <1>13 DEF vars, Within, AllTracked
  <2>2. Recollection'
    BY <2>1, <1>13 DEF vars, Recollection, NothingToDo, HasTargetIn, AllTracked
  <2> QED BY <1>1, <1>f, <1>3, <1>13, <2>2 DEF vars, RootsKept
<1> QED
  BY <1>4, <1>5, <1>6, <1>7, <1>8, <1>9, <1>10, <1>11, <1>12, <1>13, <1>14 DEF Next

\* There are no bodies at first.
LEMMA BodyInit == Init => BodyInvariant
BY FS_EmptySet DEF Init, BodyInvariant, UsedClosures, OnlyUnused, CacheRight, RootsKept,
                   Recollection, AnalysisTracked, Finite, Empty

\* The invariant that all the results about bodies rest on.
CrateInvariant == ClosedInvariant /\ UnitInvariant /\ BodyInvariant

\* The invariant holds all through codegen_crate.
LEMMA CrateInvariantHolds == Spec => []CrateInvariant
<1>1. Init => CrateInvariant
  <2>1. Init => ClosedInvariant
    BY DEF Init, ClosedInvariant, Visited, ClosedModel, Empty
  <2> QED BY <2>1, UnitsInit, BodyInit DEF CrateInvariant
<1>2. CrateInvariant /\ [Next]_vars => CrateInvariant'
  BY ClosedNext, UnitsNext, BodyNext DEF CrateInvariant
<1> QED BY <1>1, <1>2, PTL DEF Spec

-----------------------------------------------------------------------------
(* The assigns clause of a contract *)

\* No automatic harness is made for a function without body.
LEMMA AutomaticHasBody ==
    ASSUME NEW p, NEW f, SkipReason(p, f) = None
    PROVE  HasBody(p, f)
<1> DEFINE reasons == <<"KaniImpl", "GenericFn", "NoBody", "proof", "UserFilter",
                        "MissingArbitraryImpl">>
           holds == {n \in DOMAIN reasons :
                       \/ reasons[n] \in p.skip[f]
                       \/ reasons[n] = "NoBody" /\ ~HasBody(p, f)}
           Least(n) == \A m \in holds : n <= m
<1> SUFFICES ASSUME ~HasBody(p, f) PROVE FALSE
  OBVIOUS
<1>1. DOMAIN reasons = 1..6 /\ \A n \in 1..6 : reasons[n] # None
  BY DEF None
<1>2. 3 \in holds /\ holds \subseteq 1..6
  BY <1>1
<1>3. SkipReason(p, f) = reasons[CHOOSE n \in holds : Least(n)]
  BY <1>2 DEF SkipReason
<1> HIDE DEF holds
<1>4. \E n \in holds : Least(n)
  <2>1. CASE 1 \in holds
    BY <2>1, <1>2
  <2>2. CASE 1 \notin holds /\ 2 \in holds
    BY <2>2, <1>2
  <2>3. CASE 1 \notin holds /\ 2 \notin holds
    BY <2>3, <1>2
  <2> QED BY <2>1, <2>2, <2>3
<1> HIDE DEF Least
<1>5. (CHOOSE n \in holds : Least(n)) \in holds
  BY <1>4
<1> HIDE DEF reasons
<1> QED BY <1>1, <1>2, <1>3, <1>5

\* The harnesses of a unit check the same contract.
LEMMA SameCheckFn ==
    ASSUME NEW p, NEW u, IsUnit(p, u), NEW h \in ItemsOf(u.harnesses)
    PROVE  /\ h \in AllHarnesses(p) /\ u.stubs = ApplyTransitivity(StubsOf(p, h))
           /\ CheckFn(p, u.harnesses[1]) = CheckFn(p, h)
<1> DEFINE g == u.harnesses[1]
<1>1. /\ h \in AllHarnesses(p) /\ u.stubs = ApplyTransitivity(StubsOf(p, h))
      /\ g \in AllHarnesses(p) /\ HarnessKey(p, g) = HarnessKey(p, h)
  BY DEF IsUnit, ItemsOf
<1> HIDE DEF g
<1>2. CASE g[1] = "fn" /\ h[1] = "fn"
  <2>1. Contracts(p, g) = Contracts(p, h)
    BY <1>1, <1>2 DEF HarnessKey, Key
  <2>2. ASSUME NEW a, NEW b, Contracts(p, a) = Contracts(p, b), CheckFn(p, a) # None
        PROVE  CheckFn(p, b) = CheckFn(p, a)
    <3>1. <<"check", CheckFn(p, a)>> \in Contracts(p, b)
      BY <2>2 DEF Contracts
    <3> QED BY <3>1 DEF Contracts
  <2>3. CheckFn(p, g) = CheckFn(p, h)
    BY <2>1, <2>2
  <2> QED BY <2>3, <1>1 DEF g
<1>3. CASE g[1] # "fn" /\ h[1] # "fn"
  <2>1. g = h
    BY <1>1, <1>3 DEF HarnessKey
  <2> QED BY <2>1, <1>1 DEF g
<1>4. ASSUME NEW a, NEW b, HarnessKey(p, a) = HarnessKey(p, b), a[1] = "fn", b[1] # "fn"
      PROVE  FALSE
  <2>1. Len(HarnessKey(p, a)) = 2 /\ Len(HarnessKey(p, b)) = 1
    BY <1>4 DEF HarnessKey, Key
  <2> QED BY <2>1, <1>4
<1> QED BY <1>1, <1>2, <1>3, <1>4

\* A closure that a visited body mentions was visited.
LEMMA NextVisited ==
    ASSUME Visited, phase = "collect", queue = {}, NEW i \in collected, NEW j,
           j \in cache[i].own \cup cache[i].closures, ShouldCollect(prog, j)
    PROVE  j \in collected
BY DEF Visited, NextItems

\* find_modifies finds the wrapper among the items that were collected.
LEMMA WrapperCollected ==
    ASSUME CrateInvariant, phase = "collect", queue = {}, roots = {}, NEW h,
           h = Head(pending), ContractTarget(prog, h) # None, ~TargetMissing(h)
    PROVE  Modifies(h) \in collected
<1> DEFINE f == ContractTarget(prog, h)
<1> USE DEF CrateInvariant, ClosedInvariant, UnitInvariant, BodyInvariant
<1>1. /\ h \in ItemsOf(unit.harnesses) /\ IsUnit(prog, unit)
  <2>1. pending \in Seq(ItemsOf(unit.harnesses)) /\ pending # <<>>
    BY DEF UnitsRight
  <2>2. h \in ItemsOf(unit.harnesses)
    BY <2>1, ItemsTail
  <2> QED BY <2>2, ItemsEmpty DEF UnitsRight, NoUnit
<1>2. /\ h \in AllHarnesses(prog) /\ unit.stubs = ApplyTransitivity(StubsOf(prog, h))
      /\ CheckFn(prog, unit.harnesses[1]) = CheckFn(prog, h)
      /\ prog \in Programs /\ unit.harnesses # <<>>
  BY <1>1, SameCheckFn DEF IsUnit, UnitsRight
<1>3. f = CheckFn(prog, h)
  BY DEF ContractTarget
<1>4. f \in prog.contract /\ <<"fn", f>> \in collected
  <2>1. CASE h = PubFns
    BY <2>1 DEF ContractTarget, CheckFn, PubFns
  <2>2. ASSUME NEW x \in DOMAIN prog.stubs, h = <<"fn", x>>
        PROVE  f \in prog.contract /\ <<"fn", f>> \in collected
    <3>1. f = prog.check[x] /\ f # None
      BY <2>2, <1>3 DEF CheckFn
    <3> QED BY <1>2, <1>3, <2>2, <3>1, ProgramsAssumption DEF TargetMissing
  <2>3. ASSUME NEW g \in prog.fns, h = <<"auto", g>>, SkipReason(prog, g) = None
        PROVE  f \in prog.contract /\ <<"fn", f>> \in collected
    <3>1. f = g /\ g \in prog.contract
      BY <2>3 DEF ContractTarget, CheckFn
    <3>2. h \in collected
      BY <2>3 DEF RootsKept, Roots, PubFns
    <3>3. DOMAIN unit.stubs = {}
      BY <1>2, <2>3 DEF ApplyTransitivity, StubsOf
    <3>4. Item(prog, g) = <<"fn", g>>
      BY <1>2, ProgramsAssumption DEF Item
    <3>5. h \in DOMAIN cache
      BY <3>2 DEF Visited
    <3>6. <<"fn", g>> \in cache[h].own
      BY <2>3, <3>3, <3>4, <3>5 DEF CacheRight, BodyRight
    <3>7. ShouldCollect(prog, <<"fn", g>>)
      BY <2>3, AutomaticHasBody DEF ShouldCollect, HasBody
    <3> QED BY <3>1, <3>2, <3>6, <3>7, NextVisited
  <2> QED BY <1>2, <2>1, <2>2, <2>3, HarnessShape
<1> HIDE DEF f
<1>5. ASSUME NEW i \in collected PROVE BodyRight(prog, unit, i, cache[i])
  BY DEF Visited, CacheRight
<1>6. \A c : c # "fn" => ShouldCollect(prog, <<c, f>>)
  BY DEF ShouldCollect
<1>7. \A c \in Closures : <<c, f>> \in collected
  BY <1>4, <1>5, <1>6, NextVisited DEF BodyRight, Closures
<1>8. CASE f \in prog.recursive
  <2>1. Checks(prog, unit, f, "recursion")
    BY <1>2, <1>3, <1>4, <1>8 DEF Checks
  <2>2. <<"recursion", f>> \in collected
    BY <1>7 DEF Closures
  <2>3. <<"rec_check", f>> \in collected
    BY <1>4, <1>5, <1>6, <2>1, <2>2, NextVisited DEF BodyRight
  <2>4. <<"rec_modifies", f>> \in collected
    BY <1>4, <1>5, <1>6, <2>3, NextVisited DEF BodyRight
  <2> QED BY <2>4, <1>8 DEF Modifies, f
<1>9. CASE f \notin prog.recursive
  <2>1. Checks(prog, unit, f, "check")
    BY <1>2, <1>3, <1>4, <1>9 DEF Checks
  <2>2. <<"check", f>> \in collected
    BY <1>7 DEF Closures
  <2>3. <<"modifies", f>> \in collected
    BY <1>4, <1>5, <1>6, <2>1, <2>2, NextVisited DEF BodyRight
  <2> QED BY <2>3, <1>9 DEF Modifies, f
<1> QED BY <1>8, <1>9

\* The wrapper of the assigns clause is in the model of every contract harness.
AllWrapped ==
    \A h \in DOMAIN models :
        ContractTarget(prog, h) # None => h \in DOMAIN assigns /\ assigns[h] \in DOMAIN models[h]

\* Every step keeps the wrapper of the assigns clause in the model of its harness.
LEMMA WrappedNext == CrateInvariant /\ AllWrapped /\ [Next]_vars => AllWrapped'
<1> SUFFICES ASSUME CrateInvariant, AllWrapped, [Next]_vars PROVE AllWrapped'
  OBVIOUS
<1>1. CASE CodegenItems /\ ~TargetMissing(Head(pending)) /\ ~TwoTrackers(Head(pending))
  <2> DEFINE h == Head(pending)
  <2>1. Modifies(h) \in collected \/ ContractTarget(prog, h) = None
    BY <1>1, WrapperCollected DEF CodegenItems
  <2>2. /\ models' = [g \in DOMAIN models \cup {h} |->
                        IF g = h THEN [i \in collected |-> cache[i]] ELSE models[g]]
        /\ assigns' = IF ContractTarget(prog, h) = None THEN assigns
                      ELSE [g \in DOMAIN assigns \cup {h} |->
                              IF g = h THEN Modifies(h) ELSE assigns[g]]
        /\ prog' = prog
    BY <1>1 DEF CodegenItems
  <2> HIDE DEF h
  <2>3. ASSUME NEW g \in DOMAIN models', ContractTarget(prog, g) # None
        PROVE  g \in DOMAIN assigns' /\ assigns'[g] \in DOMAIN models'[g]
    <3>1. CASE g = h
      <4>1. DOMAIN models'[g] = collected
        BY <2>2, <3>1
      <4>2. g \in DOMAIN assigns' /\ assigns'[g] = Modifies(h)
        BY <2>2, <2>3, <3>1
      <4> QED BY <4>1, <4>2, <2>1, <2>3, <3>1
    <3>2. CASE g # h
      <4>1. g \in DOMAIN models /\ models'[g] = models[g]
        BY <2>2, <2>3, <3>2
      <4>2. g \in DOMAIN assigns /\ assigns[g] \in DOMAIN models[g]
        BY <4>1, <2>3 DEF AllWrapped
      <4>3. g \in DOMAIN assigns' /\ assigns'[g] = assigns[g]
        BY <4>2, <2>2, <3>2
      <4> QED BY <4>1, <4>2, <4>3
    <3> QED BY <3>1, <3>2
  <2> QED BY <2>2, <2>3 DEF AllWrapped
<1>2. CASE UNCHANGED <<prog, models, assigns>>
  BY <1>2 DEF AllWrapped
<1>3. CASE UNCHANGED vars
  BY <1>2, <1>3 DEF vars
<1>4. ASSUME Next,
             ~(CodegenItems /\ ~TargetMissing(Head(pending)) /\ ~TwoTrackers(Head(pending)))
      PROVE  UNCHANGED <<prog, models, assigns>>
  <2>1. CASE CodegenItems
    BY <2>1, <1>4 DEF CodegenItems
  <2>2. CASE \E i \in queue : Visit(i)
    BY <2>2 DEF Visit, outputVars
  <2>3. CASE \E h \in AllHarnesses(prog) : Group(h)
    BY <2>3 DEF Group, outputVars
  <2> QED
    BY <1>4, <2>1, <2>2, <2>3 DEF Next, Validate, StartUnit, StartHarness, CollectRoot,
       AbortIfErrors, GlobalPass, WriteMetadata, outputVars
<1> QED BY <1>1, <1>2, <1>3, <1>4

\* The driver gets metadata it can rely on: when the compiler has ended, there is a
\* model for each selected harness and for no other, and the function that the
\* driver has goto-instrument put the assigns clause of a contract on is in the
\* model of its harness, whichever harness of the unit was compiled first.
THEOREM MetadataSound == Spec => []MetadataRight
<1>1. Init => AllWrapped
  BY DEF Init, AllWrapped, Empty
<1>2. CrateInvariant /\ AllWrapped => MetadataRight
  <2> SUFFICES ASSUME CrateInvariant, AllWrapped, phase = "done" PROVE MetadataRight
    BY DEF MetadataRight
  <2>1. HarnessesOf({}) = {}
    BY DEF HarnessesOf
  <2>2. /\ metadata = AllHarnesses(prog) \ {PubFns} /\ DOMAIN models = AllHarnesses(prog)
    BY <2>1, ItemsEmpty DEF CrateInvariant, UnitInvariant, Partition
  <2> QED BY <2>2 DEF MetadataRight, AllWrapped
<1> QED BY <1>1, <1>2, WrappedNext, CrateInvariantHolds, PTL DEF Spec


-----------------------------------------------------------------------------
(* Rounds of a search, and chains of stubs *)

\* A set of natural numbers that is not empty has a least element.
LEMMA LeastNatural ==
    ASSUME NEW B \in SUBSET Nat, B # {}
    PROVE  \E u \in B : \A v \in B : u <= v
<1> DEFINE R == OpToRel(<, Nat)
<1>1. \A x, y \in Nat : <<x, y>> \in R <=> x < y
  BY DEF OpToRel
<1> HIDE DEF R
<1>2. IsWellFoundedOn(R, Nat)
  BY NatLessThanWellFounded, Zenon DEF R
<1>3. PICK u \in B : \A v \in B : ~(<<v, u>> \in R)
  BY <1>2, WFMin
<1>4. ASSUME NEW v \in B PROVE u <= v
  <2>1. u \in Nat /\ v \in Nat
    OBVIOUS
  <2>2. ~(v < u)
    BY <1>1, <1>3, <2>1, Zenon
  <2> QED BY <2>1, <2>2
<1> QED BY <1>4

\* A set that holds 0, and the successor of what it holds up to n, holds 0..n.
LEMMA UpTo ==
    ASSUME NEW n \in Nat, NEW G, 0 \in G, \A k \in 0..(n - 1) : k \in G => k + 1 \in G
    PROVE  0..n \subseteq G
<1> DEFINE B == (0..n) \ G
<1> SUFFICES ASSUME B # {} PROVE FALSE
  OBVIOUS
<1>0. B \in SUBSET Nat
  OBVIOUS
<1>1. PICK u \in B : \A v \in B : u <= v
  <2> HIDE DEF B
  <2> QED BY <1>0, LeastNatural
<1>2. u \in Nat /\ u # 0 /\ u <= n /\ u \notin G
  OBVIOUS
<1>3. u - 1 \in 0..(n - 1)
  BY <1>2
<1>4. (u - 1) \notin B
  BY <1>1, <1>2
<1>5. u - 1 \in G /\ (u - 1) + 1 = u
  BY <1>2, <1>3, <1>4
<1> QED BY <1>2, <1>3, <1>5

\* r lists what is reached from start in each round.
IsSearch(r, start, next, rounds) ==
    /\ r = [n \in 0..rounds |-> r[n]] /\ r[0] = start
    /\ \A n \in 0..(rounds - 1) : r[n + 1] = UNION {{i} \cup next[i] : i \in r[n]}

Closed(S, next) == \A i \in S : next[i] \subseteq S

\* Nothing is reached outside of a closed set.
LEMMA SearchStays ==
    ASSUME NEW r, NEW start, NEW next, NEW rounds \in Nat, IsSearch(r, start, next, rounds),
           NEW S, start \subseteq S, Closed(S, next)
    PROVE  \A n \in 0..rounds : r[n] \subseteq S
<1> DEFINE G == {n \in 0..rounds : r[n] \subseteq S}
<1>1. 0 \in G
  BY DEF IsSearch
<1>2. ASSUME NEW k \in 0..(rounds - 1), k \in G PROVE k + 1 \in G
  <2>1. r[k + 1] = UNION {{i} \cup next[i] : i \in r[k]} /\ r[k] \subseteq S
    BY <1>2 DEF IsSearch
  <2>2. r[k + 1] \subseteq S
    BY <2>1 DEF Closed
  <2>3. k + 1 \in 0..rounds
    OBVIOUS
  <2> QED BY <2>2, <2>3
<1> HIDE DEF G
<1>3. 0..rounds \subseteq G
  BY <1>1, <1>2, UpTo
<1> QED BY <1>3 DEF G

\* After as many rounds as there are items, what is reached is closed.
LEMMA SearchCloses ==
    ASSUME NEW r, NEW start, NEW next, NEW rounds \in Nat, IsSearch(r, start, next, rounds),
           NEW S, start \subseteq S, Closed(S, next), IsFiniteSet(S), Cardinality(S) <= rounds
    PROVE  start \subseteq r[rounds] /\ Closed(r[rounds], next) /\ r[rounds] \subseteq S
<1>1. \A n \in 0..rounds : r[n] \subseteq S /\ IsFiniteSet(r[n]) /\ Cardinality(r[n]) \in Nat
  BY SearchStays, FS_Subset, FS_CardinalityType
<1>2. Cardinality(S) \in Nat
  BY FS_CardinalityType
<1> DEFINE Good(n) == start \subseteq r[n] /\ (Closed(r[n], next) \/ Cardinality(r[n]) >= n)
           G == {n \in 0..rounds : Good(n)}
<1>3. 0 \in G
  BY <1>1 DEF IsSearch
<1>4. ASSUME NEW k \in 0..(rounds - 1), k \in G PROVE k + 1 \in G
  <2>1. k \in 0..rounds /\ k + 1 \in 0..rounds
    OBVIOUS
  <2>2. r[k + 1] = UNION {{i} \cup next[i] : i \in r[k]}
    BY DEF IsSearch
  <2>3. r[k] \subseteq r[k + 1]
    BY <2>2
  <2>4. CASE Closed(r[k], next)
    <3>1. r[k + 1] = r[k]
      BY <2>2, <2>3, <2>4 DEF Closed
    <3> QED BY <1>4, <2>1, <2>4, <3>1
  <2>5. CASE ~Closed(r[k], next) /\ Cardinality(r[k]) >= k
    <3>1. PICK x : x \in r[k + 1] /\ x \notin r[k]
      BY <2>2, <2>5 DEF Closed
    <3>2. r[k + 1] # r[k]
      BY <3>1
    <3>3. Cardinality(r[k]) <= Cardinality(r[k + 1]) /\ Cardinality(r[k]) # Cardinality(r[k + 1])
      BY <1>1, <2>1, <2>3, <3>2, FS_Subset
    <3>4. Cardinality(r[k + 1]) >= k + 1
      BY <1>1, <2>1, <2>5, <3>3
    <3> QED BY <1>4, <2>1, <2>3, <3>4
  <2> QED BY <1>4, <2>4, <2>5
<1> HIDE DEF G
<1>5. rounds \in G
  BY <1>3, <1>4, UpTo
<1>6. Good(rounds) /\ r[rounds] \subseteq S
  BY <1>1, <1>5 DEF G
<1>7. CASE Cardinality(r[rounds]) >= rounds
  <2>1. Cardinality(r[rounds]) <= Cardinality(S)
    BY <1>1, FS_Subset
  <2>2. Cardinality(r[rounds]) = Cardinality(S)
    BY <1>1, <1>2, <1>7, <2>1
  <2>3. r[rounds] = S
    BY <1>6, <2>2, FS_Subset
  <2> QED BY <1>6, <2>3
<1> QED BY <1>6, <1>7

\* Two searches that agree on a closed set reach the same.
LEMMA SameSearch ==
    ASSUME NEW r, NEW t, NEW start, NEW nr, NEW nt, NEW mr \in Nat, NEW mt \in Nat,
           IsSearch(r, start, nr, mr), IsSearch(t, start, nt, mt),
           NEW S, start \subseteq S, IsFiniteSet(S), Cardinality(S) <= mr, Cardinality(S) <= mt,
           Closed(S, nr), \A i \in S : nr[i] = nt[i]
    PROVE  r[mr] = t[mt] /\ start \subseteq r[mr] /\ r[mr] \subseteq S /\ Closed(r[mr], nr)
<1>1. Closed(S, nt)
  BY DEF Closed
<1>2. start \subseteq r[mr] /\ Closed(r[mr], nr) /\ r[mr] \subseteq S
  BY SearchCloses
<1>3. start \subseteq t[mt] /\ Closed(t[mt], nt) /\ t[mt] \subseteq S
  BY <1>1, SearchCloses
<1>4. Closed(r[mr], nt) /\ Closed(t[mt], nr)
  BY <1>2, <1>3 DEF Closed
<1>5. mr \in 0..mr /\ mt \in 0..mt
  OBVIOUS
<1>6. r[mr] \subseteq t[mt]
  BY <1>3, <1>4, <1>5, SearchStays
<1>7. t[mt] \subseteq r[mr]
  BY <1>2, <1>4, <1>5, SearchStays
<1> QED BY <1>2, <1>6, <1>7

\* t lists the values of a function applied again and again.
IsIteration(t, once, x, n) == t = [k \in 0..n |-> IF k = 0 THEN x ELSE once[t[k - 1]]]

\* The values that an iteration lists.
LEMMA IterationValues ==
    ASSUME NEW once, NEW x, NEW n \in Nat, NEW t, IsIteration(t, once, x, n)
    PROVE  t[0] = x /\ \A k \in 0..(n - 1) : t[k + 1] = once[t[k]]
BY DEF IsIteration

\* Every function can be iterated.
LEMMA IterationExists ==
    ASSUME NEW once, NEW x, NEW n \in Nat
    PROVE  \E t : IsIteration(t, once, x, n)
<1> DEFINE G == {k \in Nat : \E t : IsIteration(t, once, x, k)}
<1>1. 0 \in G
  <2> DEFINE t == [k \in 0..0 |-> x]
  <2>1. IsIteration(t, once, x, 0)
    BY DEF IsIteration
  <2> QED BY <2>1
<1>2. ASSUME NEW k \in 0..(n - 1), k \in G PROVE k + 1 \in G
  <2>1. PICK t : IsIteration(t, once, x, k)
    BY <1>2
  <2> DEFINE s == [m \in 0..(k + 1) |-> IF m = k + 1 THEN once[t[k]] ELSE t[m]]
  <2>2. \A m \in 0..k : t[m] = IF m = 0 THEN x ELSE once[t[m - 1]]
    BY <2>1 DEF IsIteration
  <2>3. ASSUME NEW m \in 0..(k + 1) PROVE s[m] = IF m = 0 THEN x ELSE once[s[m - 1]]
    BY <2>2
  <2>4. IsIteration(s, once, x, k + 1)
    <3> HIDE DEF s
    <3>1. s = [m \in 0..(k + 1) |-> s[m]]
      BY DEF s
    <3> QED BY <2>3, <3>1 DEF IsIteration
  <2> QED BY <2>4
<1> HIDE DEF G
<1>3. n \in G
  BY <1>1, <1>2, UpTo
<1> QED BY <1>3 DEF G

\* An iteration stays in a set that the function maps to itself.
LEMMA IterationStays ==
    ASSUME NEW once, NEW x, NEW n \in Nat, NEW t, IsIteration(t, once, x, n),
           NEW Z, x \in Z, \A z \in Z : once[z] \in Z
    PROVE  \A k \in 0..n : t[k] \in Z
<1> DEFINE G == {k \in 0..n : t[k] \in Z}
<1>0. t[0] = x /\ \A k \in 0..(n - 1) : t[k + 1] = once[t[k]]
  BY IterationValues
<1>1. 0 \in G
  BY <1>0
<1>2. ASSUME NEW k \in 0..(n - 1), k \in G PROVE k + 1 \in G
  BY <1>0, <1>2
<1> HIDE DEF G
<1>3. 0..n \subseteq G
  BY <1>1, <1>2, UpTo
<1> QED BY <1>3 DEF G

\* Iterate, in the compiler and in what it promises, is the last value of an
\* iteration.
LEMMA IterateIs ==
    ASSUME NEW once, NEW x, NEW n \in Nat
    PROVE  \E t : IsIteration(t, once, x, n) /\ Iterate(once, x, n) = t[n]
                  /\ Promise!Iterate(once, x, n) = t[n]
<1> DEFINE t == CHOOSE u : IsIteration(u, once, x, n)
<1>1. IsIteration(t, once, x, n)
  BY IterationExists
<1>2. Iterate(once, x, n) = t[n]
  BY DEF Iterate, IsIteration
<1>3. Promise!Iterate(once, x, n) = t[n]
  BY DEF Promise!Iterate, IsIteration
<1> QED BY <1>1, <1>2, <1>3

-----------------------------------------------------------------------------
(* The two searches of the refinement *)

\* CrateModel counts as the compiler does.
LEMMA SameCardinality == \A S : Promise!Cardinality(S) = Cardinality(S)
BY DEF Promise!Cardinality, Cardinality

MeantNext(p, h, i) == Promise!Compiled(p, Promise!Uses(p, h, i))
MeantOn(p, h, S) == [i \in S |-> MeantNext(p, h, i)]
MeantStep(p, h, X) == UNION {{i} \cup MeantNext(p, h, i) : i \in X}

\* What runs, by the attributes of a harness, is found by a search.
LEMMA RunningIsSearch ==
    ASSUME NEW p, NEW h, NEW start, NEW S, start \subseteq S,
           \A i \in S : MeantNext(p, h, i) \subseteq S,
           Cardinality(Promise!Items(p, h)) \in Nat
    PROVE  \E r : /\ IsSearch(r, start, MeantOn(p, h, S),
                              Cardinality(Promise!Items(p, h)))
                  /\ Promise!Running(p, h, start) = r[Cardinality(Promise!Items(p, h))]
<1> DEFINE N == Cardinality(Promise!Items(p, h))
           Chain(r) == r = [n \in 0..N |-> IF n = 0 THEN start ELSE MeantStep(p, h, r[n - 1])]
           once == [X \in SUBSET S |-> MeantStep(p, h, X)]
           r == CHOOSE q : Chain(q)
           next == [i \in S |-> MeantNext(p, h, i)]
<1>1. Promise!Running(p, h, start) = r[N]
  <2>1. Promise!Cardinality(Promise!Items(p, h)) = N
    BY SameCardinality
  <2> HIDE DEF N
  <2> QED BY <2>1 DEF Promise!Running, MeantStep, MeantNext
<1>2. \A X \in SUBSET S : MeantStep(p, h, X) \in SUBSET S
  BY DEF MeantStep
<1> HIDE DEF N
<1>3. N \in Nat
  BY DEF N
<1>4. \E q : Chain(q)
  <2>1. PICK t : IsIteration(t, once, start, N)
    BY <1>3, IterationExists
  <2>2. \A z \in SUBSET S : once[z] \in SUBSET S
    BY <1>2
  <2>3. \A k \in 0..N : t[k] \in SUBSET S
    <3> HIDE DEF once
    <3> QED BY <1>3, <2>1, <2>2, IterationStays
  <2>4. \A k \in 0..N : k # 0 => once[t[k - 1]] = MeantStep(p, h, t[k - 1])
    BY <1>3, <2>3
  <2>5. Chain(t)
    <3> HIDE DEF once
    <3> QED BY <2>1, <2>4 DEF IsIteration
  <2> QED BY <2>5
<1>5. Chain(r)
  BY <1>4
<1> HIDE DEF r
<1>6. r = [n \in 0..N |-> r[n]] /\ r[0] = start
  BY <1>3, <1>5
<1>7. \A n \in 0..(N - 1) : r[n + 1] = MeantStep(p, h, r[n])
  BY <1>3, <1>5
<1>8. \A n \in 0..N : r[n] \subseteq S
  <2> DEFINE G == {n \in 0..N : r[n] \subseteq S}
  <2>1. 0 \in G
    BY <1>3, <1>6
  <2>2. ASSUME NEW k \in 0..(N - 1), k \in G PROVE k + 1 \in G
    BY <1>2, <1>3, <1>7, <2>2
  <2> HIDE DEF G
  <2>3. 0..N \subseteq G
    BY <1>3, <2>1, <2>2, UpTo
  <2> QED BY <2>3 DEF G
<1>9. ASSUME NEW n \in 0..(N - 1) PROVE r[n + 1] = UNION {{i} \cup next[i] : i \in r[n]}
  <2>1. \A i \in r[n] : next[i] = MeantNext(p, h, i)
    BY <1>3, <1>8
  <2> HIDE DEF next
  <2> QED BY <1>7, <2>1 DEF MeantStep
<1>10. IsSearch(r, start, next, N)
  BY <1>6, <1>9 DEF IsSearch
<1> QED BY <1>1, <1>10 DEF N, MeantOn

LiveNext(p, b) == {j \in Runs(b) : ShouldCollect(p, j)}
LiveOn(p, bodies, S) == [i \in S |-> LiveNext(p, bodies[i])]
LiveStep(p, bodies, X) ==
    UNION {{i} \cup IF i \in DOMAIN bodies THEN LiveNext(p, bodies[i]) ELSE {} : i \in X}

\* What runs in a model is found by a search.
LEMMA LiveIsSearch ==
    ASSUME NEW p, NEW h, NEW bodies, NEW S, Roots(p, h) \subseteq S, S \subseteq DOMAIN bodies,
           \A i \in S : LiveNext(p, bodies[i]) \subseteq S, Cardinality(DOMAIN bodies) \in Nat
    PROVE  \E r : /\ IsSearch(r, Roots(p, h), LiveOn(p, bodies, S),
                              Cardinality(DOMAIN bodies))
                  /\ LiveItems(p, h, bodies) = r[Cardinality(DOMAIN bodies)]
<1> DEFINE N == Cardinality(DOMAIN bodies)
           start == Roots(p, h)
           Chain(r) == r = [n \in 0..N |-> IF n = 0 THEN start ELSE LiveStep(p, bodies, r[n - 1])]
           once == [X \in SUBSET S |-> LiveStep(p, bodies, X)]
           r == CHOOSE q : Chain(q)
           next == [i \in S |-> LiveNext(p, bodies[i])]
<1>1. LiveItems(p, h, bodies) = r[N]
  BY DEF LiveItems, LiveStep, LiveNext
<1>2. \A X \in SUBSET S : LiveStep(p, bodies, X) \in SUBSET S
  BY DEF LiveStep
<1> HIDE DEF N, start
<1>3. N \in Nat /\ start \subseteq S
  BY DEF N, start
<1>4. \E q : Chain(q)
  <2>1. PICK t : IsIteration(t, once, start, N)
    BY <1>3, IterationExists
  <2>2. \A z \in SUBSET S : once[z] \in SUBSET S
    BY <1>2
  <2>3. \A k \in 0..N : t[k] \in SUBSET S
    <3> HIDE DEF once
    <3> QED BY <1>3, <2>1, <2>2, IterationStays
  <2>4. \A k \in 0..N : k # 0 => once[t[k - 1]] = LiveStep(p, bodies, t[k - 1])
    BY <1>3, <2>3
  <2>5. Chain(t)
    <3> HIDE DEF once
    <3> QED BY <2>1, <2>4 DEF IsIteration
  <2> QED BY <2>5
<1>5. Chain(r)
  BY <1>4
<1> HIDE DEF r
<1>6. r = [n \in 0..N |-> r[n]] /\ r[0] = start
  BY <1>3, <1>5
<1>7. \A n \in 0..(N - 1) : r[n + 1] = LiveStep(p, bodies, r[n])
  BY <1>3, <1>5
<1>8. \A n \in 0..N : r[n] \subseteq S
  <2> DEFINE G == {n \in 0..N : r[n] \subseteq S}
  <2>1. 0 \in G
    BY <1>3, <1>6
  <2>2. ASSUME NEW k \in 0..(N - 1), k \in G PROVE k + 1 \in G
    BY <1>2, <1>3, <1>7, <2>2
  <2> HIDE DEF G
  <2>3. 0..N \subseteq G
    BY <1>3, <2>1, <2>2, UpTo
  <2> QED BY <2>3 DEF G
<1>9. ASSUME NEW n \in 0..(N - 1) PROVE r[n + 1] = UNION {{i} \cup next[i] : i \in r[n]}
  <2>1. \A i \in r[n] : i \in DOMAIN bodies /\ next[i] = LiveNext(p, bodies[i])
    BY <1>3, <1>8
  <2> HIDE DEF next
  <2> QED BY <1>7, <2>1 DEF LiveStep
<1>10. IsSearch(r, start, next, N)
  BY <1>6, <1>9 DEF IsSearch
<1> QED BY <1>1, <1>10 DEF N, start, LiveOn

-----------------------------------------------------------------------------
(* What the analysis of delayed undefined behaviour goes through *)

AnalyzedOn(p, S) == [i \in S |-> CallsWritten(p, i)]
AnalyzedStep(p, X) == UNION {{i} \cup CallsWritten(p, i) : i \in X}

\* What the analysis goes through is found by a search.
LEMMA AnalyzedIsSearch ==
    ASSUME NEW p, NEW h, NEW S, Roots(p, h) \subseteq S,
           \A i \in S : CallsWritten(p, i) \subseteq S, Cardinality(p.fns) \in Nat
    PROVE  \E r : /\ IsSearch(r, Roots(p, h), AnalyzedOn(p, S), Cardinality(p.fns))
                  /\ Analyzed(p, h) = r[Cardinality(p.fns)]
<1> DEFINE N == Cardinality(p.fns)
           start == Roots(p, h)
           Chain(r) == r = [n \in 0..N |-> IF n = 0 THEN start ELSE AnalyzedStep(p, r[n - 1])]
           once == [X \in SUBSET S |-> AnalyzedStep(p, X)]
           r == CHOOSE q : Chain(q)
           next == [i \in S |-> CallsWritten(p, i)]
<1>1. Analyzed(p, h) = r[N]
  BY DEF Analyzed, AnalyzedStep
<1>2. \A X \in SUBSET S : AnalyzedStep(p, X) \in SUBSET S
  BY DEF AnalyzedStep
<1> HIDE DEF N, start
<1>3. N \in Nat /\ start \subseteq S
  BY DEF N, start
<1>4. \E q : Chain(q)
  <2>1. PICK t : IsIteration(t, once, start, N)
    BY <1>3, IterationExists
  <2>2. \A z \in SUBSET S : once[z] \in SUBSET S
    BY <1>2
  <2>3. \A k \in 0..N : t[k] \in SUBSET S
    <3>1. start \in SUBSET S
      BY <1>3
    <3>2. PICK Z : Z = SUBSET S
      OBVIOUS
    <3>3. start \in Z /\ \A z \in Z : once[z] \in Z
      BY <2>2, <3>1, <3>2
    <3> HIDE DEF once
    <3>4. \A k \in 0..N : t[k] \in Z
      BY <1>3, <2>1, <3>3, IterationStays
    <3> QED BY <3>2, <3>4
  <2>4. \A k \in 0..N : k # 0 => once[t[k - 1]] = AnalyzedStep(p, t[k - 1])
    BY <1>3, <2>3
  <2>5. Chain(t)
    <3> HIDE DEF once
    <3> QED BY <2>1, <2>4 DEF IsIteration
  <2> QED BY <2>5
<1>5. Chain(r)
  BY <1>4
<1> HIDE DEF r
<1>6. r = [n \in 0..N |-> r[n]] /\ r[0] = start
  BY <1>3, <1>5
<1>7. \A n \in 0..(N - 1) : r[n + 1] = AnalyzedStep(p, r[n])
  BY <1>3, <1>5
<1>8. \A n \in 0..N : r[n] \subseteq S
  <2> DEFINE G == {n \in 0..N : r[n] \subseteq S}
  <2>1. 0 \in G
    BY <1>3, <1>6
  <2>2. ASSUME NEW k \in 0..(N - 1), k \in G PROVE k + 1 \in G
    BY <1>2, <1>3, <1>7, <2>2
  <2> HIDE DEF G
  <2>3. 0..N \subseteq G
    BY <1>3, <2>1, <2>2, UpTo
  <2> QED BY <2>3 DEF G
<1>9. ASSUME NEW n \in 0..(N - 1) PROVE r[n + 1] = UNION {{i} \cup next[i] : i \in r[n]}
  <2>1. \A i \in r[n] : next[i] = CallsWritten(p, i)
    BY <1>3, <1>8
  <2> HIDE DEF next
  <2> QED BY <1>7, <2>1 DEF AnalyzedStep
<1>10. IsSearch(r, start, next, N)
  BY <1>6, <1>9 DEF IsSearch
<1> QED BY <1>1, <1>10 DEF N, start, AnalyzedOn

\* The analysis goes through the harness and all that is called in what it goes
\* through, and these are functions of the crate.
LEMMA AnalyzedCloses ==
    ASSUME NEW p \in Programs, NEW h \in AllHarnesses(p)
    PROVE  /\ Roots(p, h) \subseteq Analyzed(p, h)
           /\ \A i \in Analyzed(p, h) : CallsWritten(p, i) \subseteq Analyzed(p, h)
           /\ MemInitFn \notin Analyzed(p, h)
<1> DEFINE N == Cardinality(p.fns)
           functions == {<<"fn", f>> : f \in p.fns}
<1>1. IsFiniteSet(p.fns) /\ N \in Nat /\ "mem_init" \notin p.fns
  BY ProgramsAssumption, FS_CardinalityType
<1>2. \A i \in functions : CallsWritten(p, i) \subseteq functions
  <2> SUFFICES ASSUME NEW f \in p.fns, NEW j \in CallsWritten(p, <<"fn", f>>)
               PROVE  j \in functions
    OBVIOUS
  <2>1. j \in Original(p, <<"fn", f>>).own /\ j[1] = "fn"
    BY DEF CallsWritten
  <2>2. Original(p, <<"fn", f>>).own = {Item(p, x) : x \in p.refs[f]}
    BY <1>1 DEF Original, MemInitFn
  <2>3. PICK x \in p.refs[f] : j = Item(p, x)
    BY <2>1, <2>2
  <2>4. x \in p.fns \cup p.statics
    BY ProgramsAssumption
  <2> QED BY <2>1, <2>3, <2>4 DEF Item
<1>3. IsFiniteSet(functions) /\ Cardinality(functions) <= N
  <2> DEFINE pair == [f \in p.fns |-> <<"fn", f>>]
  <2>1. functions = {pair[f] : f \in p.fns}
    OBVIOUS
  <2> HIDE DEF functions
  <2>2. pair \in Surjection(p.fns, functions)
    BY <2>1 DEF Surjection
  <2> QED BY <1>1, <2>2, FS_Surjection
<1>4. PICK S : /\ Roots(p, h) \subseteq S /\ \A i \in S : CallsWritten(p, i) \subseteq S
               /\ IsFiniteSet(S) /\ Cardinality(S) <= N /\ MemInitFn \notin S
  <2>1. CASE h[1] = "auto"
    <3>1. PICK f \in p.fns : h = <<"auto", f>>
      BY <2>1, HarnessShape DEF PubFns
    <3>2. Roots(p, h) = {h} /\ CallsWritten(p, h) = {} /\ MemInitFn # h
      BY <3>1 DEF Roots, PubFns, CallsWritten, MemInitFn
    <3>3. IsFiniteSet({h}) /\ Cardinality({h}) = 1
      BY FS_Singleton
    <3>4. N >= 1
      BY <1>1, FS_EmptySet
    <3> QED BY <3>2, <3>3, <3>4
  <2>2. CASE h[1] # "auto"
    <3>1. Roots(p, h) \subseteq functions
      BY <2>2, HarnessShape, ProgramsAssumption DEF Roots, PubFns
    <3>2. MemInitFn \notin functions
      BY <1>1 DEF MemInitFn
    <3> QED BY <1>2, <1>3, <3>1, <3>2
  <2> QED BY <2>1, <2>2
<1>5. PICK r : IsSearch(r, Roots(p, h), AnalyzedOn(p, S), N) /\ Analyzed(p, h) = r[N]
  BY <1>1, <1>4, AnalyzedIsSearch
<1>6. Closed(S, AnalyzedOn(p, S))
  BY <1>4 DEF Closed, AnalyzedOn
<1>7. Roots(p, h) \subseteq r[N] /\ Closed(r[N], AnalyzedOn(p, S)) /\ r[N] \subseteq S
  <2> HIDE DEF N
  <2> QED BY <1>1, <1>4, <1>5, <1>6, SearchCloses
<1> QED BY <1>4, <1>5, <1>7 DEF Closed, AnalyzedOn

KeptIn(p, bodies, i) == IF i \in DOMAIN bodies THEN CallsKept(p, i, bodies[i]) ELSE {}
KeptStep(p, bodies, X) == UNION {{i} \cup KeptIn(p, bodies, i) : i \in X}

\* The code of a model that runs as it is written is code that the analysis goes through.
LEMMA WrittenAnalyzed ==
    ASSUME NEW p, NEW h, NEW bodies, NEW S, Roots(p, h) \subseteq S,
           \A i \in S : CallsWritten(p, i) \subseteq S, Cardinality(DOMAIN bodies) \in Nat
    PROVE  ReachedAsWritten(p, h, bodies) \subseteq S
<1> DEFINE N == Cardinality(DOMAIN bodies)
           start == Roots(p, h)
           Chain(r) == r = [n \in 0..N |-> IF n = 0 THEN start
                                           ELSE KeptStep(p, bodies, r[n - 1])]
           once == [X \in SUBSET S |-> KeptStep(p, bodies, X)]
           r == CHOOSE q : Chain(q)
<1>0. \A i \in S : KeptIn(p, bodies, i) \subseteq S
  BY DEF KeptIn, CallsKept
<1>1. ReachedAsWritten(p, h, bodies) = r[N]
  BY DEF ReachedAsWritten, KeptStep, KeptIn
<1>2. \A X \in SUBSET S : KeptStep(p, bodies, X) \in SUBSET S
  BY <1>0 DEF KeptStep
<1> HIDE DEF N, start
<1>3. N \in Nat /\ start \subseteq S
  BY DEF N, start
<1>4. \E q : Chain(q)
  <2>1. PICK t : IsIteration(t, once, start, N)
    BY <1>3, IterationExists
  <2>2. \A z \in SUBSET S : once[z] \in SUBSET S
    BY <1>2
  <2>3. \A k \in 0..N : t[k] \in SUBSET S
    <3>1. start \in SUBSET S
      BY <1>3
    <3>2. PICK Z : Z = SUBSET S
      OBVIOUS
    <3>3. start \in Z /\ \A z \in Z : once[z] \in Z
      BY <2>2, <3>1, <3>2
    <3> HIDE DEF once
    <3>4. \A k \in 0..N : t[k] \in Z
      BY <1>3, <2>1, <3>3, IterationStays
    <3> QED BY <3>2, <3>4
  <2>4. \A k \in 0..N : k # 0 => once[t[k - 1]] = KeptStep(p, bodies, t[k - 1])
    BY <1>3, <2>3
  <2>5. Chain(t)
    <3> HIDE DEF once
    <3> QED BY <2>1, <2>4 DEF IsIteration
  <2> QED BY <2>5
<1>5. Chain(r)
  BY <1>4
<1> HIDE DEF r
<1>6. r = [n \in 0..N |-> r[n]] /\ r[0] = start
  BY <1>3, <1>5
<1>7. \A n \in 0..(N - 1) : r[n + 1] = KeptStep(p, bodies, r[n])
  BY <1>3, <1>5
<1>8. \A n \in 0..N : r[n] \subseteq S
  <2> DEFINE G == {n \in 0..N : r[n] \subseteq S}
  <2>1. 0 \in G
    BY <1>3, <1>6
  <2>2. ASSUME NEW k \in 0..(N - 1), k \in G PROVE k + 1 \in G
    BY <1>2, <1>3, <1>7, <2>2
  <2> HIDE DEF G
  <2>3. 0..N \subseteq G
    BY <1>3, <2>1, <2>2, UpTo
  <2> QED BY <2>3 DEF G
<1> QED BY <1>1, <1>3, <1>8

\* DelayedUbPass leaves out nothing of the code that runs as it is written: whatever
\* bodies the unit had cached for the harnesses before, where that code of a model has
\* a source of delayed undefined behaviour, each of its functions that touches the
\* memory involved is instrumented.  Two facts carry it: that code is among what the
\* analysis goes through, which starts at the harness itself, and the second
\* collection finds no function that the pass has not seen, other than the one that
\* instrumentation calls.
THEOREM DelayedUbTracked == Spec => []UbTracked
<1>1. CrateInvariant => UbTracked
  <2> SUFFICES ASSUME CrateInvariant, NEW h \in DOMAIN models, prog.opts.uninit,
                      NEW t \in Written(h), t[2] \in prog.targets,
                      NEW i \in Written(h), i[2] \in prog.tracked
               PROVE  models[h][i].tracked
    BY DEF UbTracked
  <2> USE DEF CrateInvariant, UnitInvariant, BodyInvariant
  <2>1. h \in AllHarnesses(prog) /\ prog \in Programs
    BY DEF UnitsRight, Partition
  <2>2. PICK A : A = Analyzed(prog, h)
    OBVIOUS
  <2>3. /\ Roots(prog, h) \subseteq A /\ \A j \in A : CallsWritten(prog, j) \subseteq A
        /\ MemInitFn \notin A
    BY <2>1, <2>2, AnalyzedCloses
  <2>4. Cardinality(DOMAIN models[h]) \in Nat
    BY FS_CardinalityType DEF Finite
  <2>5. ReachedAsWritten(prog, h, models[h]) \subseteq A
    BY <2>3, <2>4, WrittenAnalyzed
  <2>6. \A j \in Written(h) : /\ j \in DOMAIN models[h] \cap A /\ j[1] = "fn"
                              /\ j # MemInitFn /\ models[h][j].src = j
    BY <2>3, <2>5 DEF Written
  <2>7. TargetIn(prog, A, DOMAIN models[h])
    BY <2>6 DEF TargetIn
  <2>8. TracksOn(prog, A, DOMAIN models[h], models[h])
    BY <2>2, <2>7 DEF AnalysisTracked
  <2> QED BY <2>6, <2>8 DEF TracksOn
<1> QED BY <1>1, CrateInvariantHolds, PTL

-----------------------------------------------------------------------------
(* Stubs *)

OnceOn(s, D) == [g \in D |-> IF g \in DOMAIN s THEN s[g] ELSE g]

\* The stubs of a harness are functions of the crate for functions of the crate.
LEMMA StubsShape ==
    ASSUME NEW p \in Programs, NEW h \in AllHarnesses(p), NEW s, s = StubsOf(p, h)
    PROVE  /\ Promise!StubMap(p, h) = s
           /\ DOMAIN s \subseteq p.fns /\ Range(s) \subseteq p.fns
           /\ IsFiniteSet(DOMAIN s) /\ Cardinality(DOMAIN s) \in Nat
<1>1. CASE h[1] = "fn"
  <2>1. PICK x \in DOMAIN p.stubs : h = <<"fn", x>>
    BY <1>1, HarnessShape DEF PubFns
  <2>2. s = p.stubs[x] /\ Promise!StubMap(p, h) = p.stubs[x]
    BY <2>1 DEF StubsOf, Promise!StubMap
  <2>3. DOMAIN s \subseteq p.fns /\ Range(s) \subseteq p.fns /\ IsFiniteSet(p.fns)
    BY <2>1, <2>2, ProgramsAssumption
  <2>4. IsFiniteSet(DOMAIN s)
    BY <2>3, FS_Subset
  <2> QED BY <2>2, <2>3, <2>4, FS_CardinalityType
<1>2. CASE h[1] # "fn"
  <2>1. s = [f \in {} |-> None] /\ Promise!StubMap(p, h) = [f \in {} |-> f]
    BY <1>2 DEF StubsOf, Promise!StubMap
  <2>2. DOMAIN s = {} /\ Range(s) = {}
    BY <2>1 DEF Range
  <2>3. IsFiniteSet({}) /\ Cardinality({}) = 0
    BY FS_EmptySet
  <2> QED BY <2>1, <2>2, <2>3
<1> QED BY <1>1, <1>2

\* apply_transitivity finds the stub that the attributes mean.
LEMMA FinalStubIs ==
    ASSUME NEW p \in Programs, NEW h \in AllHarnesses(p), NEW s, s = StubsOf(p, h),
           NEW f \in p.fns
    PROVE  /\ Promise!FinalStub(p, h, f) = IF f \in DOMAIN s THEN Follow(s, f) ELSE f
           /\ Promise!FinalStub(p, h, f) \in p.fns
<1> DEFINE n == Cardinality(DOMAIN s)
           a == OnceOn(s, p.fns)
           b == OnceOn(s, Range(s))
<1>1. /\ Promise!StubMap(p, h) = s /\ DOMAIN s \subseteq p.fns /\ Range(s) \subseteq p.fns
      /\ n \in Nat /\ Promise!Cardinality(DOMAIN s) = n
  BY StubsShape, SameCardinality
<1>2. Promise!FinalStub(p, h, f) = Promise!Iterate(a, f, n + 1)
  BY <1>1 DEF Promise!FinalStub, OnceOn
<1>3. Follow(s, f) = Iterate(b, s[f], n)
  BY DEF Follow, OnceOn
<1>4. /\ \A g \in p.fns : a[g] = IF g \in DOMAIN s THEN s[g] ELSE g
      /\ \A g \in Range(s) : b[g] = IF g \in DOMAIN s THEN s[g] ELSE g
  BY DEF OnceOn
<1> HIDE DEF n, a, b
<1>m. PICK m \in Nat : m = n + 1
  BY <1>1
<1>5. PICK t : IsIteration(t, a, f, m) /\ Promise!Iterate(a, f, m) = t[m]
  BY IterateIs
<1>6. t[0] = f /\ \A k \in 0..n : t[k + 1] = a[t[k]]
  <2>1. t[0] = f /\ \A k \in 0..(m - 1) : t[k + 1] = a[t[k]]
    BY <1>5, IterationValues
  <2> QED BY <1>1, <1>m, <2>1
<1>7. \A g \in DOMAIN s : s[g] \in Range(s)
  BY DEF Range
<1>8. CASE f \in DOMAIN s
  <2>1. PICK u : IsIteration(u, b, s[f], n) /\ Iterate(b, s[f], n) = u[n]
    BY <1>1, IterateIs
  <2>2. u[0] = s[f] /\ \A k \in 0..(n - 1) : u[k + 1] = b[u[k]]
    BY <1>1, <2>1, IterationValues
  <2> DEFINE G == {k \in 0..n : t[k + 1] = u[k] /\ u[k] \in Range(s)}
  <2>3. 0 \in G
    <3>1. t[0 + 1] = a[f]
      BY <1>1, <1>6
    <3> QED BY <1>1, <1>4, <1>7, <1>8, <2>2, <3>1
  <2>4. ASSUME NEW k \in 0..(n - 1), k \in G PROVE k + 1 \in G
    <3>1. k \in 0..n /\ k + 1 \in 0..n /\ t[k + 1] = u[k] /\ u[k] \in Range(s)
      BY <1>1, <2>4
    <3>2. t[(k + 1) + 1] = a[u[k]] /\ u[k + 1] = b[u[k]]
      BY <1>6, <2>2, <3>1
    <3>3. a[u[k]] = b[u[k]] /\ b[u[k]] \in Range(s)
      BY <1>1, <1>4, <1>7, <3>1
    <3> QED BY <3>1, <3>2, <3>3
  <2> HIDE DEF G
  <2>5. n \in G
    BY <1>1, <2>3, <2>4, UpTo
  <2> QED BY <1>1, <1>2, <1>3, <1>m, <1>5, <1>8, <2>1, <2>5 DEF G
<1>9. CASE f \notin DOMAIN s
  <2>1. a[f] = f
    BY <1>4, <1>9
  <2>2. \A z \in {f} : a[z] \in {f}
    BY <2>1
  <2>3. \A k \in 0..m : t[k] \in {f}
    BY <1>5, <2>2, IterationStays
  <2>4. t[m] = f
    BY <2>3
  <2> QED BY <1>2, <1>m, <1>5, <1>9, <2>4
<1> QED BY <1>8, <1>9

\* A chain of stubs that is longer than their number goes in a circle.
LEMMA CycleIsClosed ==
    ASSUME NEW s, IsFiniteSet(DOMAIN s), HasCycle(s)
    PROVE  \E c \in SUBSET DOMAIN s : c # {} /\ \A g \in c : s[g] \in c
<1> DEFINE n == Cardinality(DOMAIN s)
           b == OnceOn(s, Range(s))
<1>1. PICK f \in DOMAIN s : Follow(s, f) \in DOMAIN s
  BY DEF HasCycle
<1>2. n \in Nat /\ Follow(s, f) = Iterate(b, s[f], n)
  BY FS_CardinalityType DEF Follow, OnceOn
<1>3. \A g \in Range(s) : b[g] = IF g \in DOMAIN s THEN s[g] ELSE g
  BY DEF OnceOn
<1>4. \A g \in DOMAIN s : s[g] \in Range(s)
  BY DEF Range
<1> HIDE DEF n, b
<1>5. PICK t : IsIteration(t, b, s[f], n) /\ t[n] \in DOMAIN s
  BY <1>1, <1>2, IterateIs
<1>6. t[0] = s[f] /\ \A k \in 0..(n - 1) : t[k + 1] = b[t[k]]
  BY <1>2, <1>5, IterationValues
<1>7. \A k \in 0..n : t[k] \in Range(s)
  <2>1. \A g \in Range(s) : b[g] \in Range(s)
    BY <1>3, <1>4
  <2> QED BY <1>2, <1>4, <1>5, <2>1, IterationStays
\* The end of the chain has a stub, so has everything before it.
<1>8. \A k \in 0..n : t[k] \in DOMAIN s
  <2> DEFINE G == {k \in 0..n : t[n - k] \in DOMAIN s}
  <2>1. 0 \in G
    BY <1>2, <1>5
  <2>2. ASSUME NEW k \in 0..(n - 1), k \in G PROVE k + 1 \in G
    <3> DEFINE m == n - (k + 1)
    <3>1. m \in 0..(n - 1) /\ m + 1 = n - k /\ k + 1 \in 0..n /\ m \in 0..n
      BY <1>2
    <3>2. t[m + 1] = b[t[m]] /\ t[m + 1] \in DOMAIN s
      BY <1>6, <2>2, <3>1
    <3>3. t[m] \in DOMAIN s
      BY <1>3, <1>7, <3>1, <3>2
    <3> QED BY <3>1, <3>3
  <2> HIDE DEF G
  <2>3. 0..n \subseteq G
    BY <1>2, <2>1, <2>2, UpTo
  <2>4. ASSUME NEW k \in 0..n PROVE t[k] \in DOMAIN s
    <3>1. n - k \in G /\ n - (n - k) = k
      BY <1>2, <2>3
    <3> QED BY <3>1 DEF G
  <2> QED BY <2>4
<1>9. \A k \in 0..(n - 1) : t[k + 1] = s[t[k]]
  BY <1>2, <1>3, <1>6, <1>7, <1>8
<1>10. PICK x \in 0..n, y \in 0..n : x < y /\ t[x] = t[y]
  <2> DEFINE w == [k \in 0..n |-> t[k]]
  <2>1. w \in [0..n -> DOMAIN s]
    BY <1>8
  <2>2. IsFiniteSet(0..n) /\ Cardinality(0..n) = n + 1
    BY <1>2, FS_Interval
  <2>3. Cardinality(DOMAIN s) < Cardinality(0..n)
    BY <1>2, <2>2 DEF n
  <2> HIDE DEF w
  <2>4. PICK x, y \in 0..n : x # y /\ w[x] = w[y]
    BY <2>1, <2>2, <2>3, FS_PigeonHole
  <2>5. t[x] = t[y] /\ (x < y \/ y < x)
    BY <1>2, <2>4 DEF w
  <2> QED BY <2>5
<1> DEFINE c == {t[k] : k \in x..(y - 1)}
<1>11. c \in SUBSET DOMAIN s /\ t[x] \in c
  BY <1>2, <1>8, <1>10
<1>12. ASSUME NEW g \in c PROVE s[g] \in c
  <2>1. PICK k \in x..(y - 1) : g = t[k]
    OBVIOUS
  <2>2. k \in 0..(n - 1) /\ s[g] = t[k + 1]
    BY <1>2, <1>9, <1>10, <2>1
  <2>3. CASE k + 1 = y
    BY <1>10, <1>11, <2>2, <2>3
  <2>4. CASE k + 1 # y
    <3>1. k + 1 \in x..(y - 1)
      BY <1>2, <1>10, <2>1, <2>4
    <3> QED BY <2>2, <3>1
  <2> QED BY <2>3, <2>4
<1> HIDE DEF c
<1> QED BY <1>11, <1>12

-----------------------------------------------------------------------------
(* What a transformed body means *)

\* What the passes make of an item: the source of its body, its mode, its own code.
Redirected(p, u, c) ==
    IF /\ c[1] = "fn" /\ c[2] \in DOMAIN u.stubs
       /\ ~(HasBody(p, c[2]) /\ HasBody(p, u.stubs[c[2]]))
    THEN <<"fn", u.stubs[c[2]]>> ELSE c
RedirectAll(p, u, C) == {Redirected(p, u, c) : c \in C}
SourceOf(p, u, i) == IF HasFnStub(p, u, i) THEN <<"fn", u.stubs[i[2]]>> ELSE i
ModeOf(p, u, i) == IF i[1] = "fn" THEN ContractMode(p, u.harnesses[1], i[2]) ELSE None
CodeOf(p, u, i) == IF i[1] = "auto" THEN {Item(p, i[2])} ELSE Original(p, SourceOf(p, u, i)).own
OwnOf(p, u, i) == IF IsStatic(i) THEN CodeOf(p, u, i) ELSE RedirectAll(p, u, CodeOf(p, u, i))

\* The stub of i is one that the compiler does not accept.
StubUnfit(p, u, i) == HasFnStub(p, u, i) /\ u.stubs[i[2]] \in p.unfit

\* A closure of a contract other than the one of its mode: it never runs.
IsDead(p, u, i) == i[1] \in Closures /\ i[1] # ContractMode(p, u.harnesses[1], i[2])
DeadOnly(p, u, U) == \A x \in U : IsDead(p, u, x)

\* The body b is what the attributes of the harnesses of unit u make of item i.
BodyMeans(p, u, i, b) ==
    /\ IsBody(b) /\ ~ClosureMissing(p, u, i) /\ ~StubUnfit(p, u, i)
    /\ b.src = SourceOf(p, u, i) /\ b.mode = ModeOf(p, u, i)
    /\ ~IsDead(p, u, i) => b.own \ {MemInitFn} = OwnOf(p, u, i) \ {MemInitFn}

\* Before any pass, no contract mode is chosen.
LEMMA OriginalMode == \A p, i : Original(p, i).mode = None
BY DEF Original

\* The passes of BodyTransformation make of an item what the attributes mean.
LEMMA TransformMeans ==
    ASSUME NEW p, NEW u, NEW U, NEW i, DeadOnly(p, u, U), ~ClosureMissing(p, u, i),
           ~StubUnfit(p, u, i)
    PROVE  BodyMeans(p, u, i, Transform(p, u, U, i))
<1>0. CASE IsStatic(i)
  <2>1. Transform(p, u, U, i) = Original(p, i)
    BY <1>0 DEF Transform
  <2>2. i[1] \notin {"fn", "auto"}
    BY <1>0 DEF IsStatic
  <2>3. SourceOf(p, u, i) = i /\ ModeOf(p, u, i) = None
    BY <2>2 DEF SourceOf, HasFnStub, ModeOf
  <2>4. OwnOf(p, u, i) = Original(p, i).own
    BY <1>0, <2>2, <2>3 DEF OwnOf, CodeOf
  <2> QED BY <2>1, <2>3, <2>4, OriginalBody, OriginalMode DEF BodyMeans
<1> SUFFICES ASSUME ~IsStatic(i) PROVE BodyMeans(p, u, i, Transform(p, u, U, i))
  BY <1>0
<1> DEFINE b0 == Original(p, i)
           b1 == AutomaticHarness(p, i, b0)
           b2 == FnStub(p, u, i, b1)
           b3 == ExternFnStub(p, u, b2)
           b4 == FunctionWithContract(p, u, U, i, b3)
<1>1. Transform(p, u, U, i) = b4
  BY DEF Transform
<1>2. IsBody(b0) /\ b0.src = i /\ b0.mode = None
  BY OriginalBody, OriginalMode
<1> HIDE DEF b0
<1>3. /\ IsBody(b1) /\ b1.src = i /\ b1.mode = None
      /\ b1.own = IF i[1] = "auto" THEN {Item(p, i[2])} ELSE b0.own
  BY <1>2 DEF AutomaticHarness, IsBody
<1> HIDE DEF b1
<1>4. /\ IsBody(b2) /\ b2.src = SourceOf(p, u, i) /\ b2.mode = None
      /\ b2.own = CodeOf(p, u, i)
  <2>1. CASE SourceOf(p, u, i) = i /\ b2 = b1
    BY <1>3, <2>1 DEF CodeOf, b0
  <2>2. CASE /\ i[1] = "fn" /\ SourceOf(p, u, i) = <<"fn", u.stubs[i[2]]>>
             /\ b2 = Original(p, <<"fn", u.stubs[i[2]]>>)
    BY <2>2, OriginalBody, OriginalMode DEF CodeOf
  <2> QED BY <2>1, <2>2 DEF FnStub, SourceOf, StubUnfit, HasFnStub
<1> HIDE DEF b2
<1>5. IsBody(b3) /\ b3.src = b2.src /\ b3.mode = None /\ b3.own = OwnOf(p, u, i)
  <2>1. b3 = [b2 EXCEPT !.own = {Redirected(p, u, c) : c \in b2.own}]
    BY <1>4 DEF ExternFnStub, IsBody, Redirected
  <2>2. IsBody(b3) /\ b3.src = b2.src /\ b3.mode = b2.mode
        /\ b3.own = {Redirected(p, u, c) : c \in b2.own}
    BY <1>4, <2>1 DEF IsBody
  <2> QED BY <1>4, <2>2 DEF OwnOf, RedirectAll
<1> HIDE DEF b3
<1>6. IsBody(b4) /\ b4.src = b3.src /\ b4.mode = ModeOf(p, u, i)
      /\ (i[1] = "fn" \/ i \notin U => b4.own = b3.own)
  BY <1>5 DEF FunctionWithContract, ModeOf, IsBody, Cleared
<1>7. ~IsDead(p, u, i) => i \notin U
  BY DEF DeadOnly
<1> QED BY <1>1, <1>4, <1>5, <1>6, <1>7 DEF BodyMeans

\* Instrumentation for delayed UB does not change what a body means.
LEMMA InstrumentMeans ==
    ASSUME NEW p, NEW u, NEW i, NEW b, BodyMeans(p, u, i, b)
    PROVE  BodyMeans(p, u, i, Instrument(b))
<1> DEFINE c == Instrument(b)
<1>1. IsBody(c) /\ c.src = b.src /\ c.mode = b.mode /\ c.own = b.own \cup {MemInitFn}
  <2>1. PICK t : t = TRUE
    OBVIOUS
  <2> DEFINE d == [b EXCEPT !.tracked = t]
  <2>2. IsBody(d) /\ d.src = b.src /\ d.mode = b.mode /\ d.own = b.own
    BY DEF BodyMeans, IsBody
  <2>3. c = [d EXCEPT !.own = b.own \cup {MemInitFn}]
    BY <2>1 DEF Instrument, BodyMeans, IsBody
  <2> HIDE DEF d, c
  <2> QED BY <2>2, <2>3 DEF IsBody
<1> QED BY <1>1 DEF BodyMeans

\* mark_unused marks only closures that never run.
LEMMA MarkUnusedDead ==
    ASSUME NEW p, NEW u, NEW U, NEW i, DeadOnly(p, u, U)
    PROVE  DeadOnly(p, u, MarkUnused(p, u, U, i))
<1> DEFINE mode == ContractMode(p, u.harnesses[1], i[2])
           new == {<<c, i[2]>> : c \in Closures \ {mode}}
<1>1. MarkUnused(p, u, U, i) \subseteq U \cup new
  BY DEF MarkUnused
<1>2. ASSUME NEW x \in new PROVE IsDead(p, u, x)
  <2>1. PICK c \in Closures \ {mode} : x = <<c, i[2]>>
    OBVIOUS
  <2> QED BY <2>1 DEF IsDead
<1> QED BY <1>1, <1>2 DEF DeadOnly

\* The harnesses of a unit agree on the contracts they use.
LEMMA SameContracts ==
    ASSUME NEW p, NEW u, IsUnit(p, u), NEW h \in ItemsOf(u.harnesses)
    PROVE  /\ ReplaceFns(p, u.harnesses[1]) = ReplaceFns(p, h)
           /\ u.harnesses[1] = PubFns <=> h = PubFns
<1> DEFINE g == u.harnesses[1]
<1>1. HarnessKey(p, g) = HarnessKey(p, h)
  BY DEF IsUnit, ItemsOf
<1> HIDE DEF g
<1>2. CASE g[1] = "fn" /\ h[1] = "fn"
  <2>1. Contracts(p, g) = Contracts(p, h)
    BY <1>1, <1>2 DEF HarnessKey, Key
  <2>2. ASSUME NEW a, NEW b, Contracts(p, a) = Contracts(p, b)
        PROVE  ReplaceFns(p, a) \subseteq ReplaceFns(p, b)
    <3> SUFFICES ASSUME NEW f \in ReplaceFns(p, a) PROVE f \in ReplaceFns(p, b)
      OBVIOUS
    <3>1. <<"stub", f>> \in Contracts(p, b)
      BY <2>2 DEF Contracts
    <3> QED BY <3>1 DEF Contracts
  <2>3. ReplaceFns(p, g) = ReplaceFns(p, h)
    BY <2>1, <2>2
  <2> QED BY <1>2, <2>3 DEF g, PubFns
<1>3. CASE g[1] # "fn" /\ h[1] # "fn"
  <2>1. g = h
    BY <1>1, <1>3 DEF HarnessKey
  <2> QED BY <2>1 DEF g
<1>4. ASSUME NEW a, NEW b, HarnessKey(p, a) = HarnessKey(p, b), a[1] = "fn", b[1] # "fn"
      PROVE  FALSE
  <2>1. Len(HarnessKey(p, a)) = 2 /\ Len(HarnessKey(p, b)) = 1
    BY <1>4 DEF HarnessKey, Key
  <2> QED BY <2>1, <1>4
<1> QED BY <1>1, <1>2, <1>3, <1>4

\* contract_mode, for the first harness of a unit, is the use that each of its
\* harnesses makes of the contract.
LEMMA SameUse ==
    ASSUME NEW p \in Programs, NEW u, IsUnit(p, u), NEW h \in ItemsOf(u.harnesses),
           NEW f \in p.fns
    PROVE  ContractMode(p, u.harnesses[1], f) = Promise!Use(p, h, f)
<1> DEFINE g == u.harnesses[1]
<1>1. /\ h \in AllHarnesses(p) /\ CheckFn(p, g) = CheckFn(p, h)
      /\ ReplaceFns(p, g) = ReplaceFns(p, h) /\ (g = PubFns <=> h = PubFns)
  BY SameCheckFn, SameContracts
<1> HIDE DEF g
<1>2. f # None
  BY ProgramsAssumption
<1>3. \/ h = PubFns
      \/ \E x \in DOMAIN p.stubs : h = <<"fn", x>>
      \/ \E x \in p.fns : h = <<"auto", x>>
  BY <1>1, HarnessShape
<1>4. /\ f = CheckFn(p, h) <=> (h[1] = "auto" /\ f = h[2]) \/ (h[1] = "fn" /\ f = p.check[h[2]])
      /\ f \in ReplaceFns(p, h) <=> h[1] = "fn" /\ f \in p.replace[h[2]]
      /\ h # PubFns <=> h[1] \in {"fn", "auto"}
  BY <1>2, <1>3 DEF CheckFn, ReplaceFns, PubFns
<1>5. ContractMode(p, g, f) = Promise!Use(p, h, f)
  BY <1>1, <1>4 DEF ContractMode, Promise!Use, None
<1> QED BY <1>5 DEF g

\* The stubs of a unit are those that its harnesses mean.
LEMMA UnitStubIs ==
    ASSUME NEW p \in Programs, NEW u, IsUnit(p, u), NEW h \in ItemsOf(u.harnesses),
           NEW f \in p.fns
    PROVE  /\ f \in DOMAIN u.stubs => u.stubs[f] = Promise!FinalStub(p, h, f)
           /\ f \notin DOMAIN u.stubs => Promise!FinalStub(p, h, f) = f
           /\ Promise!FinalStub(p, h, f) \in p.fns
<1>1. h \in AllHarnesses(p) /\ u.stubs = ApplyTransitivity(StubsOf(p, h))
  BY SameCheckFn
<1>2. PICK s : s = StubsOf(p, h)
  OBVIOUS
<1>3. /\ Promise!FinalStub(p, h, f) = IF f \in DOMAIN s THEN Follow(s, f) ELSE f
      /\ Promise!FinalStub(p, h, f) \in p.fns
  BY <1>1, <1>2, FinalStubIs
<1>4. DOMAIN u.stubs = DOMAIN s /\ \A x \in DOMAIN s : u.stubs[x] = Follow(s, x)
  BY <1>1, <1>2 DEF ApplyTransitivity
<1> QED BY <1>3, <1>4

IsCode(p, j) == (\E f \in p.fns : j = <<"fn", f>>) \/ (\E x \in p.statics : j = <<"static", x>>)

\* What the stubbing passes leave in a body is what the attributes mean.
LEMMA CalleeIs ==
    ASSUME NEW p \in Programs, NEW u, IsUnit(p, u), NEW h \in ItemsOf(u.harnesses),
           NEW x \in p.fns \cup p.statics
    PROVE  /\ Redirected(p, u, Item(p, x)) = Promise!Callee(p, h, x)
           /\ IsCode(p, Promise!Callee(p, h, x))
<1>1. CASE x \in p.statics
  BY <1>1 DEF Redirected, Item, Promise!Callee, Promise!Named, IsCode
<1>2. CASE x \in p.fns /\ x \notin p.statics
  <2>1. Item(p, x) = <<"fn", x>>
    BY <1>2 DEF Item
  <2>2. /\ x \in DOMAIN u.stubs => u.stubs[x] = Promise!FinalStub(p, h, x)
        /\ x \notin DOMAIN u.stubs => Promise!FinalStub(p, h, x) = x
        /\ Promise!FinalStub(p, h, x) \in p.fns
    BY <1>2, UnitStubIs
  <2>3. Promise!Callee(p, h, x) = IF Promise!Swapped(p, h, x) THEN <<"fn", x>>
                                  ELSE <<"fn", Promise!FinalStub(p, h, x)>>
    BY <1>2 DEF Promise!Callee, Promise!Named
  <2>4. Redirected(p, u, Item(p, x)) = Promise!Callee(p, h, x)
    BY <2>1, <2>2, <2>3 DEF Redirected, HasBody, Promise!Swapped
  <2> QED BY <1>2, <2>2, <2>3, <2>4 DEF IsCode
<1> QED BY <1>1, <1>2

\* FnStubPass takes the code that the attributes mean.
LEMMA SourceIs ==
    ASSUME NEW p \in Programs, NEW u, IsUnit(p, u), NEW h \in ItemsOf(u.harnesses),
           NEW f \in p.fns
    PROVE  /\ SourceOf(p, u, <<"fn", f>>) = <<"fn", Promise!Code(p, h, f)>>
           /\ Promise!Code(p, h, f) \in p.fns
<1>1. /\ f \in DOMAIN u.stubs => u.stubs[f] = Promise!FinalStub(p, h, f)
      /\ f \notin DOMAIN u.stubs => Promise!FinalStub(p, h, f) = f
      /\ Promise!FinalStub(p, h, f) \in p.fns
  BY UnitStubIs
<1> QED BY <1>1 DEF SourceOf, HasFnStub, HasBody, Promise!Code, Promise!Swapped

Callees(p, h, X) == {Promise!Callee(p, h, x) : x \in X}
Mentioned(p, X) == {Item(p, x) : x \in X}

\* The references of a body, after stubbing.
LEMMA OwnIs ==
    ASSUME NEW p \in Programs, NEW u, IsUnit(p, u), NEW h \in ItemsOf(u.harnesses),
           NEW X \in SUBSET (p.fns \cup p.statics)
    PROVE  /\ RedirectAll(p, u, Mentioned(p, X)) = Callees(p, h, X)
           /\ \A j \in Callees(p, h, X) : IsCode(p, j)
<1>1. \A x \in X : /\ Redirected(p, u, Item(p, x)) = Promise!Callee(p, h, x)
                   /\ IsCode(p, Promise!Callee(p, h, x))
  BY CalleeIs
<1> QED BY <1>1 DEF RedirectAll, Mentioned, Callees

\* What is collected is what is compiled.
LEMMA CollectedIs ==
    ASSUME NEW p \in Programs, NEW j, IsCode(p, j) \/ j[1] \notin {"fn", "static"}
    PROVE  /\ j # MemInitFn
           /\ ShouldCollect(p, j) <=> (j[1] = "fn" => p.kind[j[2]] = "item")
<1>1. j # MemInitFn
  BY ProgramsAssumption DEF IsCode, MemInitFn
<1> QED BY <1>1 DEF ShouldCollect

\* The code of an item before any pass, by the kind of the item.
LEMMA MentionOriginal ==
    ASSUME NEW p, NEW f, NEW k \in {"fn", "static", "modifies", "rec_modifies", "assert"},
           k = "fn" => f # "mem_init"
    PROVE  Original(p, <<k, f>>).own = Mentioned(p, p.refs[f])
<1>1. <<k, f>> # MemInitFn /\ <<k, f>>[1] = k /\ <<k, f>>[2] = f
  BY DEF MemInitFn
<1> QED BY <1>1 DEF Original, Mentioned

\* What runs when a function, a static, a harness or a part of a contract runs.
LEMMA FunctionUses ==
    ASSUME NEW p, NEW h, NEW f
    PROVE  Promise!Uses(p, h, <<"fn", f>>) =
              IF Promise!Use(p, h, f) \in Closures THEN {<<Promise!Use(p, h, f), f>>}
              ELSE Callees(p, h, p.refs[Promise!Code(p, h, f)])
BY DEF Promise!Uses, Closures, Callees

\* An automatic harness runs its function.
LEMMA AutomaticUses ==
    ASSUME NEW p, NEW h, NEW f
    PROVE  Promise!Uses(p, h, <<"auto", f>>) = {Promise!Callee(p, h, f)}
BY DEF Promise!Uses

\* Wrappers and assertions run what they mention.
LEMMA MentionUses ==
    ASSUME NEW p, NEW h, NEW f, NEW k \in {"modifies", "rec_modifies", "assert"}
    PROVE  Promise!Uses(p, h, <<k, f>>) = Callees(p, h, p.refs[f])
BY DEF Promise!Uses, Callees

\* Initializers refer to what they mention, stubbed or not.
LEMMA StaticUses ==
    ASSUME NEW p, NEW h, NEW f
    PROVE  Promise!Uses(p, h, <<"static", f>>) = Mentioned(p, p.refs[f])
<1>1. Promise!Uses(p, h, <<"static", f>>) = {Promise!Named(p, x) : x \in p.refs[f]}
  BY DEF Promise!Uses
<1>2. \A x : Promise!Named(p, x) = Item(p, x)
  BY DEF Promise!Named, Item
<1> QED BY <1>1, <1>2 DEF Mentioned

PartUse(k, f) ==
    IF k = "recursion" THEN {<<"REENTRY", f>>, <<"rec_check", f>>, <<"rec_replace", f>>}
    ELSE IF k = "check" THEN {<<"modifies", f>>}
    ELSE IF k = "rec_check" THEN {<<"rec_modifies", f>>} ELSE {}
HoldingParts == {"recursion", "check", "rec_check", "REENTRY", "rec_replace", "replace", "pub"}

\* The other parts of a contract run the parts they hold.
LEMMA PartUses ==
    ASSUME NEW p, NEW h, NEW f, NEW k \in HoldingParts
    PROVE  Promise!Uses(p, h, <<k, f>>) = PartUse(k, f)
<1> DEFINE nested == {<<"recursion", "REENTRY">>, <<"recursion", "rec_check">>,
                      <<"recursion", "rec_replace">>, <<"check", "modifies">>,
                      <<"rec_check", "rec_modifies">>}
<1>1. Promise!Uses(p, h, <<k, f>>) = {<<e[2], f>> : e \in {d \in nested : d[1] = k}}
  BY DEF Promise!Uses, HoldingParts
<1>2. CASE k = "recursion"
  <2>1. {d \in nested : d[1] = k} =
           {<<"recursion", "REENTRY">>, <<"recursion", "rec_check">>,
            <<"recursion", "rec_replace">>}
    BY <1>2
  <2>2. \A a, b, c : {<<e[2], f>> : e \in {a, b, c}} = {<<a[2], f>>, <<b[2], f>>, <<c[2], f>>}
    OBVIOUS
  <2>3. Promise!Uses(p, h, <<k, f>>) =
           {<<e[2], f>> : e \in {<<"recursion", "REENTRY">>, <<"recursion", "rec_check">>,
                                 <<"recursion", "rec_replace">>}}
    BY <1>1, <2>1
  <2> QED BY <1>2, <2>2, <2>3 DEF PartUse
<1>3. \A a : {<<e[2], f>> : e \in {a}} = {<<a[2], f>>}
  OBVIOUS
<1>4. CASE k = "check"
  <2>1. {d \in nested : d[1] = k} = {<<"check", "modifies">>}
    BY <1>4
  <2> QED BY <1>1, <1>3, <1>4, <2>1 DEF PartUse
<1>5. CASE k = "rec_check"
  <2>1. {d \in nested : d[1] = k} = {<<"rec_check", "rec_modifies">>}
    BY <1>5
  <2> QED BY <1>1, <1>3, <1>5, <2>1 DEF PartUse
<1>6. CASE k \in {"REENTRY", "rec_replace", "replace", "pub"}
  <2>1. {d \in nested : d[1] = k} = {}
    BY <1>6
  <2> QED BY <1>1, <1>6, <2>1 DEF PartUse
<1> QED BY <1>2, <1>4, <1>5, <1>6 DEF HoldingParts

\* The same parts are in their bodies before any pass.
LEMMA PartOriginal ==
    ASSUME NEW p, NEW f, NEW k \in HoldingParts
    PROVE  Original(p, <<k, f>>).own = PartUse(k, f)
<1>1. <<k, f>> # MemInitFn /\ <<k, f>>[1] = k /\ <<k, f>>[2] = f
  BY DEF MemInitFn, HoldingParts
<1> QED BY <1>1 DEF Original, PartUse, HoldingParts

ContractParts == {"recursion", "REENTRY", "rec_check", "rec_replace", "rec_modifies",
                  "check", "modifies", "replace", "assert"}

\* What an item is.
LEMMA ItemShape ==
    ASSUME NEW p \in Programs, NEW h \in AllHarnesses(p), NEW i \in Promise!Items(p, h)
    PROVE  \/ \E f \in p.fns : i = <<"fn", f>>
           \/ \E x \in p.statics : i = <<"static", x>>
           \/ \E f \in p.fns : i = <<"auto", f>>
           \/ i = <<"pub", "crate">>
           \/ \E f \in p.contract, k \in ContractParts :
                 i = <<k, f>> /\ k \in Promise!Parts(Promise!Use(p, h, f))
<1>1. CASE i = h
  <2>1. \A x \in DOMAIN p.stubs : x \in p.fns
    BY ProgramsAssumption
  <2> QED BY <1>1, <2>1, HarnessShape DEF PubFns
<1>2. ASSUME NEW f \in p.contract, NEW k \in Promise!Parts(Promise!Use(p, h, f)), i = <<k, f>>
      PROVE  k \in ContractParts
  <2>1. PICK use : use = Promise!Use(p, h, f)
    OBVIOUS
  <2>2. k \in Promise!Parts(use)
    BY <2>1
  <2> QED BY <2>2 DEF Promise!Parts, ContractParts
<1>3. \/ i = h
      \/ \E f \in p.fns : i = <<"fn", f>>
      \/ \E x \in p.statics : i = <<"static", x>>
      \/ \E f \in p.contract : \E k \in Promise!Parts(Promise!Use(p, h, f)) : i = <<k, f>>
  BY DEF Promise!Items
<1> QED BY <1>1, <1>2, <1>3

\* The parts that a use of a contract has.
LEMMA PartsOfUse ==
    ASSUME NEW use
    PROVE  /\ use \in Closures => use \in Promise!Parts(use)
           /\ \A k \in Promise!Parts(use) :
                 /\ k \in Closures => k = use
                 /\ k = "recursion" =>
                       {"REENTRY", "rec_check", "rec_replace"} \subseteq Promise!Parts(use)
                 /\ k = "check" => "modifies" \in Promise!Parts(use)
                 /\ k = "rec_check" => "rec_modifies" \in Promise!Parts(use)
BY DEF Promise!Parts, Closures

\* The parts of a contract that is used are items.
LEMMA PartIsItem ==
    ASSUME NEW p, NEW h, NEW f \in p.contract, NEW k \in Promise!Parts(Promise!Use(p, h, f))
    PROVE  <<k, f>> \in Promise!Items(p, h)
BY DEF Promise!Items

\* Functions and statics are items.
LEMMA CodeIsItem ==
    ASSUME NEW p, NEW h, NEW j, IsCode(p, j)
    PROVE  j \in Promise!Items(p, h)
BY DEF Promise!Items, IsCode

\* Code, or a part of a contract.
IsPart(p, h, j) ==
    \/ IsCode(p, j)
    \/ \E f \in p.contract, k \in ContractParts :
          j = <<k, f>> /\ k \in Promise!Parts(Promise!Use(p, h, f))

\* Code and parts of contracts are items, followed where they have a body.
LEMMA PartsAreItems ==
    ASSUME NEW p \in Programs, NEW h, NEW j, IsPart(p, h, j)
    PROVE  /\ j \in Promise!Items(p, h) /\ j # MemInitFn
           /\ ShouldCollect(p, j) <=> (j[1] = "fn" => p.kind[j[2]] = "item")
<1>1. CASE IsCode(p, j)
  BY <1>1, CodeIsItem, CollectedIs
<1>2. ASSUME NEW f \in p.contract, NEW k \in ContractParts, j = <<k, f>>,
             k \in Promise!Parts(Promise!Use(p, h, f))
      PROVE  /\ j \in Promise!Items(p, h) /\ j[1] \notin {"fn", "static"}
  BY <1>2, PartIsItem DEF ContractParts
<1> QED BY <1>1, <1>2, CollectedIs DEF IsPart

\* The own code of an item, and what runs when it runs.
OwnRuns(p, u, h, i) ==
    /\ OwnOf(p, u, i) = Promise!Uses(p, h, i)
    /\ \A j \in Promise!Uses(p, h, i) : IsPart(p, h, j)

\* The own code of a function that is used as it is.
LEMMA FunctionRuns ==
    ASSUME NEW p \in Programs, NEW u, IsUnit(p, u), NEW h \in ItemsOf(u.harnesses),
           NEW f \in p.fns, Promise!Use(p, h, f) \notin Closures
    PROVE  OwnRuns(p, u, h, <<"fn", f>>)
<1> DEFINE g == Promise!Code(p, h, f)
           i == <<"fn", f>>
<1>1. SourceOf(p, u, i) = <<"fn", g>> /\ g \in p.fns
  BY SourceIs
<1>2. Promise!Uses(p, h, i) = Callees(p, h, p.refs[g])
  BY FunctionUses
<1> HIDE DEF g
<1>3. g # "mem_init" /\ p.refs[g] \in SUBSET (p.fns \cup p.statics)
  BY <1>1, ProgramsAssumption
<1>4. CodeOf(p, u, i) = Mentioned(p, p.refs[g])
  BY <1>1, <1>3, MentionOriginal DEF CodeOf
<1>5. /\ RedirectAll(p, u, Mentioned(p, p.refs[g])) = Callees(p, h, p.refs[g])
      /\ \A j \in Callees(p, h, p.refs[g]) : IsCode(p, j)
  BY <1>3, OwnIs
<1> QED BY <1>2, <1>4, <1>5 DEF OwnRuns, OwnOf, IsStatic, IsPart

\* The initializer of a static refers to what it mentions.
LEMMA StaticRuns ==
    ASSUME NEW p \in Programs, NEW u, NEW h, NEW x \in p.statics
    PROVE  OwnRuns(p, u, h, <<"static", x>>)
<1> DEFINE i == <<"static", x>>
<1>1. IsStatic(i) /\ i[1] = "static" /\ SourceOf(p, u, i) = i
  BY DEF IsStatic, SourceOf, HasFnStub
<1>2. Original(p, i).own = Mentioned(p, p.refs[x])
  BY MentionOriginal
<1>3. Promise!Uses(p, h, i) = Mentioned(p, p.refs[x])
  BY StaticUses
<1> HIDE DEF i
<1>4. OwnOf(p, u, i) = Mentioned(p, p.refs[x])
  BY <1>1, <1>2 DEF OwnOf, CodeOf
<1>5. p.refs[x] \subseteq p.fns \cup p.statics
  BY ProgramsAssumption
<1>6. \A j \in Mentioned(p, p.refs[x]) : IsCode(p, j)
  BY <1>5 DEF Mentioned, Item, IsCode
<1> QED BY <1>3, <1>4, <1>6 DEF OwnRuns, IsPart, i

\* Wrappers and assertions of contracts mention what f mentions.
LEMMA MentionsRun ==
    ASSUME NEW p \in Programs, NEW u, IsUnit(p, u), NEW h \in ItemsOf(u.harnesses),
           NEW f \in p.fns \cup p.statics,
           NEW k \in {"modifies", "rec_modifies", "assert"}
    PROVE  OwnRuns(p, u, h, <<k, f>>)
<1> DEFINE i == <<k, f>>
<1>1. SourceOf(p, u, i) = i /\ i[1] = k /\ k \notin {"fn", "auto"} /\ ~IsStatic(i)
  BY DEF SourceOf, HasFnStub, IsStatic
<1>2. Promise!Uses(p, h, i) = Callees(p, h, p.refs[f])
  BY MentionUses
<1>3. p.refs[f] \in SUBSET (p.fns \cup p.statics)
  BY ProgramsAssumption
<1>4. CodeOf(p, u, i) = Mentioned(p, p.refs[f])
  <2>1. Original(p, i).own = Mentioned(p, p.refs[f])
    BY <1>1, MentionOriginal
  <2> HIDE DEF i
  <2> QED BY <1>1, <2>1 DEF CodeOf
<1>5. /\ RedirectAll(p, u, Mentioned(p, p.refs[f])) = Callees(p, h, p.refs[f])
      /\ \A j \in Callees(p, h, p.refs[f]) : IsCode(p, j)
  BY <1>3, OwnIs
<1> HIDE DEF i
<1> QED BY <1>1, <1>2, <1>4, <1>5 DEF OwnRuns, OwnOf, IsPart, i

\* The call that AutomaticHarnessPass generates is what runs.
LEMMA AutomaticRuns ==
    ASSUME NEW p \in Programs, NEW u, IsUnit(p, u), NEW h \in ItemsOf(u.harnesses),
           NEW f \in p.fns
    PROVE  OwnRuns(p, u, h, <<"auto", f>>)
<1> DEFINE i == <<"auto", f>>
<1>1. Promise!Uses(p, h, i) = {Promise!Callee(p, h, f)}
  BY AutomaticUses
<1>2. CodeOf(p, u, i) = {Item(p, f)}
  BY DEF CodeOf
<1>3. Redirected(p, u, Item(p, f)) = Promise!Callee(p, h, f) /\ IsCode(p, Promise!Callee(p, h, f))
  BY CalleeIs
<1>s. ~IsStatic(i)
  BY DEF IsStatic
<1> HIDE DEF i
<1>4. OwnOf(p, u, i) = {Promise!Callee(p, h, f)}
  BY <1>2, <1>3, <1>s DEF OwnOf, RedirectAll
<1> QED BY <1>1, <1>3, <1>4 DEF OwnRuns, IsPart, i

\* The parts that hold other parts of a contract.
LEMMA PartRuns ==
    ASSUME NEW p \in Programs, NEW u, NEW h, NEW f,
           NEW k \in HoldingParts,
           k # "pub" => f \in p.contract /\ k \in Promise!Parts(Promise!Use(p, h, f))
    PROVE  OwnRuns(p, u, h, <<k, f>>)
<1> DEFINE i == <<k, f>>
           own == PartUse(k, f)
<1>1. SourceOf(p, u, i) = i /\ i[1] = k /\ k \notin {"fn", "auto"}
  BY DEF SourceOf, HasFnStub, HoldingParts
<1>2. Promise!Uses(p, h, i) = own
  BY PartUses
<1>3. CodeOf(p, u, i) = own
  BY <1>1, PartOriginal DEF CodeOf
<1>c. \A c \in own : c[1] # "fn"
  BY DEF PartUse
<1> HIDE DEF own
<1>4. \A c \in own : Redirected(p, u, c) = c
  BY <1>c DEF Redirected
<1>5. RedirectAll(p, u, own) = own
  BY <1>4 DEF RedirectAll
<1>6. OwnOf(p, u, i) = own
  BY <1>3, <1>5 DEF OwnOf
<1>7. ASSUME NEW j \in own PROVE IsPart(p, h, j)
  <2> DEFINE parts == Promise!Parts(Promise!Use(p, h, f))
  <2>1. /\ k = "recursion" => {"REENTRY", "rec_check", "rec_replace"} \subseteq parts
        /\ k = "check" => "modifies" \in parts
        /\ k = "rec_check" => "rec_modifies" \in parts
    BY PartsOfUse
  <2>2. \E d \in ContractParts : j = <<d, f>> /\ d \in parts /\ k # "pub"
    BY <2>1 DEF own, PartUse, ContractParts
  <2> QED BY <2>2 DEF IsPart
<1> QED BY <1>2, <1>6, <1>7 DEF OwnRuns

\* An item of the harness runs its own code, unless it is a function with contract.
LEMMA ItemRuns ==
    ASSUME NEW p \in Programs, NEW u, IsUnit(p, u), NEW h \in ItemsOf(u.harnesses),
           NEW i \in Promise!Items(p, h), ~(i[1] = "fn" /\ Promise!Use(p, h, i[2]) \in Closures)
    PROVE  OwnRuns(p, u, h, i)
<1>0. h \in AllHarnesses(p) /\ p.contract \subseteq p.fns
  BY SameCheckFn, ProgramsAssumption
<1>1. ASSUME NEW f \in p.fns, i = <<"fn", f>> PROVE OwnRuns(p, u, h, i)
  BY <1>1, FunctionRuns
<1>2. ASSUME NEW x \in p.statics, i = <<"static", x>> PROVE OwnRuns(p, u, h, i)
  BY <1>2, StaticRuns
<1>3. ASSUME NEW f \in p.fns, i = <<"auto", f>> PROVE OwnRuns(p, u, h, i)
  BY <1>3, AutomaticRuns
<1>4. ASSUME i = <<"pub", "crate">> PROVE OwnRuns(p, u, h, i)
  BY <1>4, PartRuns DEF HoldingParts
<1>5. ASSUME NEW f \in p.contract, NEW k \in ContractParts, i = <<k, f>>,
             k \in Promise!Parts(Promise!Use(p, h, f))
      PROVE  OwnRuns(p, u, h, i)
  <2>1. CASE k \in HoldingParts
    BY <1>5, <2>1, PartRuns
  <2>2. CASE k \in {"modifies", "rec_modifies", "assert"}
    BY <1>0, <1>5, <2>2, MentionsRun
  <2> QED BY <2>1, <2>2 DEF ContractParts, HoldingParts
<1> QED BY <1>0, <1>1, <1>2, <1>3, <1>4, <1>5, ItemShape

\* Where an item of the harness is a closure, it is the one that the harness uses.
LEMMA ItemIsLive ==
    ASSUME NEW p \in Programs, NEW u, IsUnit(p, u), NEW h \in ItemsOf(u.harnesses),
           NEW i \in Promise!Items(p, h)
    PROVE  ~IsDead(p, u, i)
<1>0. h \in AllHarnesses(p) /\ p.contract \subseteq p.fns
  BY SameCheckFn, ProgramsAssumption
<1> SUFFICES ASSUME i[1] \in Closures PROVE i[1] = ContractMode(p, u.harnesses[1], i[2])
  BY DEF IsDead
<1>1. PICK f \in p.contract, k \in ContractParts :
         i = <<k, f>> /\ k \in Promise!Parts(Promise!Use(p, h, f))
  BY <1>0, ItemShape DEF Closures
<1>2. k = Promise!Use(p, h, f)
  BY <1>1, PartsOfUse
<1>3. ContractMode(p, u.harnesses[1], f) = Promise!Use(p, h, f)
  BY <1>0, SameUse
<1> QED BY <1>1, <1>2, <1>3

\* What the code of the model runs after an item is what the attributes of the
\* harness mean.
LEMMA ItemMeans ==
    ASSUME NEW p \in Programs, NEW u, IsUnit(p, u), NEW h \in ItemsOf(u.harnesses),
           NEW i \in Promise!Items(p, h), NEW b, BodyMeans(p, u, i, b)
    PROVE  /\ LiveNext(p, b) = MeantNext(p, h, i)
           /\ MeantNext(p, h, i) \subseteq Promise!Items(p, h)
           /\ b.src = IF i[1] = "fn" THEN <<"fn", Promise!Code(p, h, i[2])>> ELSE i
           /\ b.mode = IF i[1] = "fn" THEN Promise!Use(p, h, i[2]) ELSE "none"
           /\ b.mode \in Closures =>
                 \E f \in p.contract : i = <<"fn", f>> /\ Runs(b) = {<<b.mode, f>>}
<1>0. h \in AllHarnesses(p) /\ p.contract \subseteq p.fns
  BY SameCheckFn, ProgramsAssumption
<1>1. i[1] = "fn" => \E f \in p.fns : i = <<"fn", f>>
  BY <1>0, ItemShape DEF ContractParts
<1>2. b.src = IF i[1] = "fn" THEN <<"fn", Promise!Code(p, h, i[2])>> ELSE i
  <2>1. CASE i[1] = "fn"
    BY <1>1, <2>1, SourceIs DEF BodyMeans
  <2>2. CASE i[1] # "fn"
    BY <2>2 DEF BodyMeans, SourceOf, HasFnStub
  <2> QED BY <2>1, <2>2
<1>3. b.mode = IF i[1] = "fn" THEN Promise!Use(p, h, i[2]) ELSE "none"
  <2>1. CASE i[1] = "fn"
    BY <1>1, <2>1, SameUse DEF BodyMeans, ModeOf
  <2>2. CASE i[1] # "fn"
    BY <2>2 DEF BodyMeans, ModeOf, None
  <2> QED BY <2>1, <2>2
<1>4. CASE b.mode \in Closures
  <2>1. i[1] = "fn" /\ b.mode = Promise!Use(p, h, i[2])
    BY <1>3, <1>4 DEF Closures
  <2>2. PICK f \in p.fns : i = <<"fn", f>>
    BY <1>1, <2>1
  <2>3. f \in p.contract
    BY <1>4, <2>1, <2>2 DEF Promise!Use, Closures
  <2>4. b.src = i
    <3>1. FnStub(p, u, i, Original(p, i)).src[2] = f
      BY <2>2, <2>3 DEF BodyMeans, ClosureMissing
    <3>2. FnStub(p, u, i, Original(p, i)).src = SourceOf(p, u, i)
      BY OriginalBody DEF FnStub, SourceOf, BodyMeans, StubUnfit
    <3>3. SourceOf(p, u, i) = i \/ SourceOf(p, u, i) = <<"fn", f>>
      BY <2>2, <3>1, <3>2 DEF SourceOf
    <3> QED BY <2>2, <3>3 DEF BodyMeans
  <2>5. Runs(b) = {<<b.mode, f>>}
    BY <1>4, <2>2, <2>4 DEF Runs
  <2>6. Promise!Uses(p, h, i) = {<<b.mode, f>>}
    <3>1. Promise!Use(p, h, f) = b.mode
      BY <2>1, <2>2
    <3> QED BY <1>4, <2>2, <3>1, FunctionUses
  <2>7. IsPart(p, h, <<b.mode, f>>)
    <3>1. b.mode \in Promise!Parts(Promise!Use(p, h, f)) /\ b.mode \in ContractParts
      BY <1>4, <2>1, <2>2, PartsOfUse DEF Closures, ContractParts
    <3> QED BY <2>3, <3>1 DEF IsPart
  <2>8. PICK j : j = <<b.mode, f>>
    OBVIOUS
  <2>9. /\ j \in Promise!Items(p, h)
        /\ ShouldCollect(p, j) <=> (j[1] = "fn" => p.kind[j[2]] = "item")
    BY <2>7, <2>8, PartsAreItems
  <2>10. LiveNext(p, b) = MeantNext(p, h, i) /\ MeantNext(p, h, i) \subseteq Promise!Items(p, h)
    <3>1. Runs(b) = {j} /\ Promise!Uses(p, h, i) = {j}
      BY <2>5, <2>6, <2>8
    <3> QED BY <2>9, <3>1 DEF LiveNext, MeantNext, Promise!Compiled
  <2> QED BY <1>2, <1>3, <2>2, <2>3, <2>5, <2>10
<1>5. CASE b.mode \notin Closures
  <2>1. OwnRuns(p, u, h, i)
    BY <1>3, <1>5, ItemRuns
  <2>2. b.own \ {MemInitFn} = OwnOf(p, u, i) \ {MemInitFn}
    BY ItemIsLive DEF BodyMeans
  <2>3. PICK U : U = Promise!Uses(p, h, i)
    OBVIOUS
  <2>4. \A j \in U : /\ j \in Promise!Items(p, h) /\ j # MemInitFn
                     /\ ShouldCollect(p, j) <=> (j[1] = "fn" => p.kind[j[2]] = "item")
    BY <2>1, <2>3, PartsAreItems DEF OwnRuns
  <2>5. Runs(b) = U
    BY <1>5, <2>1, <2>2, <2>3, <2>4 DEF OwnRuns, Runs
  <2>6. LiveNext(p, b) = MeantNext(p, h, i) /\ MeantNext(p, h, i) \subseteq Promise!Items(p, h)
    BY <2>3, <2>4, <2>5 DEF LiveNext, MeantNext, Promise!Compiled
  <2> QED BY <1>2, <1>3, <1>5, <2>6
<1> QED BY <1>4, <1>5

\* A crate has finitely many items.
LEMMA FiniteItems ==
    ASSUME NEW p \in Programs, NEW h \in AllHarnesses(p)
    PROVE  IsFiniteSet(Promise!Items(p, h)) /\ Cardinality(Promise!Items(p, h)) \in Nat
<1> DEFINE kinds == {"fn", "static", "auto", "pub", "recursion", "REENTRY", "rec_check",
                     "rec_replace", "rec_modifies", "check", "modifies", "replace", "assert"}
           names == p.fns \cup p.statics \cup {"crate"}
<1>1. IsFiniteSet(kinds)
  <2> DEFINE list == <<"fn", "static", "auto", "pub", "recursion", "REENTRY", "rec_check",
                       "rec_replace", "rec_modifies", "check", "modifies", "replace", "assert">>
  <2>1. list \in Seq(kinds) /\ \A x \in kinds : \E n \in 1..Len(list) : list[n] = x
    OBVIOUS
  <2> QED BY <2>1 DEF IsFiniteSet
<1>2. IsFiniteSet(names)
  BY ProgramsAssumption, FS_Union, FS_Singleton
<1>3. IsFiniteSet(kinds \X names)
  <2> HIDE DEF kinds, names
  <2> QED BY <1>1, <1>2, FS_Product
<1>4. Promise!Items(p, h) \subseteq kinds \X names
  <2>1. p.contract \subseteq p.fns
    BY ProgramsAssumption
  <2> QED BY <2>1, ItemShape DEF ContractParts
<1> HIDE DEF kinds, names
<1> QED BY <1>3, <1>4, FS_Subset, FS_CardinalityType

LiveCodeIn(p, h, bodies) ==
    [i \in LiveItems(p, h, bodies) |->
        IF i \in DOMAIN bodies
        THEN [code |-> bodies[i].src, use |-> bodies[i].mode]
        ELSE [code |-> None, use |-> None]]

\* A set of bodies that is closed, and in which each is what the unit makes of its
\* item, is a model that means what the attributes of the harness say.
LEMMA ModelMeans ==
    ASSUME NEW p \in Programs, NEW u, IsUnit(p, u), NEW h \in ItemsOf(u.harnesses), NEW bodies,
           IsFiniteSet(DOMAIN bodies), Roots(p, h) \subseteq DOMAIN bodies,
           \A i \in DOMAIN bodies : /\ BodyMeans(p, u, i, bodies[i])
                                    /\ BodyRight(p, u, i, bodies[i])
                                    /\ NextItems(p, bodies[i]) \subseteq DOMAIN bodies
    PROVE  /\ Promise!Running(p, h, Promise!Start(p, h)) \subseteq DOMAIN bodies
           /\ LiveCodeIn(p, h, bodies) = Promise!Meaning(p, h)
<1> DEFINE S == DOMAIN bodies \cap Promise!Items(p, h)
           start == Roots(p, h)
           mr == Cardinality(Promise!Items(p, h))
           mt == Cardinality(DOMAIN bodies)
           nr == MeantOn(p, h, S)
           nt == LiveOn(p, bodies, S)
<1>0. h \in AllHarnesses(p) /\ p.opts.pub \subseteq p.fns
  BY SameCheckFn, ProgramsAssumption
<1>1. Promise!Start(p, h) = start /\ start \subseteq Promise!Items(p, h)
  <2>1. Promise!Start(p, h) = start
    BY <1>0, HarnessShape DEF Promise!Start, Roots, PubFns
  <2>2. h \in Promise!Items(p, h) /\ \A f \in p.fns : <<"fn", f>> \in Promise!Items(p, h)
    BY DEF Promise!Items
  <2> QED BY <1>0, <2>1, <2>2 DEF Roots
<1>2. ASSUME NEW i \in S
      PROVE  /\ LiveNext(p, bodies[i]) = MeantNext(p, h, i) /\ MeantNext(p, h, i) \subseteq S
             /\ bodies[i].src = IF i[1] = "fn" THEN <<"fn", Promise!Code(p, h, i[2])>> ELSE i
             /\ bodies[i].mode = IF i[1] = "fn" THEN Promise!Use(p, h, i[2]) ELSE "none"
  <2>1. PICK b : b = bodies[i]
    OBVIOUS
  <2>2. /\ LiveNext(p, b) = MeantNext(p, h, i)
        /\ MeantNext(p, h, i) \subseteq Promise!Items(p, h)
        /\ b.src = IF i[1] = "fn" THEN <<"fn", Promise!Code(p, h, i[2])>> ELSE i
        /\ b.mode = IF i[1] = "fn" THEN Promise!Use(p, h, i[2]) ELSE "none"
        /\ b.mode \in Closures =>
              \E f \in p.contract : i = <<"fn", f>> /\ Runs(b) = {<<b.mode, f>>}
    BY <2>1, ItemMeans
  <2>3. Runs(b) \subseteq b.own \cup b.closures
    <3>1. CASE b.mode \in Closures
      <4>1. PICK f \in p.contract : i = <<"fn", f>> /\ Runs(b) = {<<b.mode, f>>}
        BY <2>2, <3>1
      <4>2. BodyRight(p, u, i, b)
        BY <2>1
      <4>3. <<b.mode, f>> \in b.closures
        BY <3>1, <4>1, <4>2 DEF BodyRight
      <4> QED BY <4>1, <4>3
    <3>2. CASE b.mode \notin Closures
      BY <3>2 DEF Runs
    <3> QED BY <3>1, <3>2
  <2>4. LiveNext(p, b) \subseteq NextItems(p, b)
    BY <2>3 DEF LiveNext, NextItems
  <2>5. LiveNext(p, b) \subseteq DOMAIN bodies
    BY <2>1, <2>4
  <2> QED BY <2>1, <2>2, <2>5
<1>3. start \subseteq S
  BY <1>1
<1>4. /\ mr \in Nat /\ mt \in Nat /\ IsFiniteSet(S)
      /\ Cardinality(S) <= mr /\ Cardinality(S) <= mt
  <2>1. IsFiniteSet(Promise!Items(p, h)) /\ mr \in Nat /\ mt \in Nat
    BY <1>0, FiniteItems, FS_CardinalityType
  <2>2. S \in SUBSET Promise!Items(p, h) /\ S \in SUBSET DOMAIN bodies
    OBVIOUS
  <2> HIDE DEF S
  <2> QED BY <2>1, <2>2, FS_Subset
<1>5. S \subseteq DOMAIN bodies
  OBVIOUS
<1> HIDE DEF S
<1>6. PICK r : IsSearch(r, start, nr, mr) /\ Promise!Running(p, h, start) = r[mr]
  <2>1. \A i \in S : MeantNext(p, h, i) \subseteq S
    BY <1>2
  <2> QED BY <1>3, <1>4, <2>1, RunningIsSearch
<1>7. PICK t : IsSearch(t, start, nt, mt) /\ LiveItems(p, h, bodies) = t[mt]
  <2>1. \A i \in S : LiveNext(p, bodies[i]) \subseteq S
    BY <1>2
  <2> QED BY <1>3, <1>4, <1>5, <2>1, LiveIsSearch
<1>8. Closed(S, nr) /\ \A i \in S : nr[i] = nt[i]
  BY <1>2 DEF Closed, MeantOn, LiveOn
<1> HIDE DEF start, mr, mt, nr, nt
<1>9. r[mr] = t[mt] /\ r[mr] \subseteq S
  BY <1>3, <1>4, <1>6, <1>7, <1>8, SameSearch
<1>10. PICK L : L = LiveItems(p, h, bodies)
  OBVIOUS
<1>11. L = Promise!Running(p, h, Promise!Start(p, h)) /\ L \subseteq S
  BY <1>1, <1>6, <1>7, <1>9, <1>10
<1>12. LiveCodeIn(p, h, bodies) = [i \in L |-> [code |-> bodies[i].src, use |-> bodies[i].mode]]
  BY <1>5, <1>10, <1>11 DEF LiveCodeIn
<1>13. Promise!Meaning(p, h) =
         [i \in L |-> [code |-> IF i[1] = "fn" THEN <<"fn", Promise!Code(p, h, i[2])>> ELSE i,
                       use |-> IF i[1] = "fn" THEN Promise!Use(p, h, i[2]) ELSE "none"]]
  BY <1>11 DEF Promise!Meaning
<1>14. \A i \in L :
          /\ bodies[i].src = IF i[1] = "fn" THEN <<"fn", Promise!Code(p, h, i[2])>> ELSE i
          /\ bodies[i].mode = IF i[1] = "fn" THEN Promise!Use(p, h, i[2]) ELSE "none"
  BY <1>2, <1>11
<1> QED BY <1>5, <1>11, <1>12, <1>13, <1>14

-----------------------------------------------------------------------------
(* Why the compiler gives up *)

\* Stubs that go in a circle.
LEMMA CycleRejects ==
    ASSUME NEW p \in Programs, NEW h \in AllHarnesses(p), HasCycle(StubsOf(p, h))
    PROVE  Promise!Rejectable(p)
<1>1. PICK s : s = StubsOf(p, h)
  OBVIOUS
<1>2. Promise!StubMap(p, h) = s /\ IsFiniteSet(DOMAIN s)
  BY <1>1, StubsShape
<1>3. \E c \in SUBSET DOMAIN s : c # {} /\ \A f \in c : s[f] \in c
  BY <1>1, <1>2, CycleIsClosed
<1> QED BY <1>2, <1>3 DEF Promise!Rejectable

\* A stub with another signature, or for a function with contract.
LEMMA StubRejects ==
    ASSUME NEW p \in Programs, NEW u, IsUnit(p, u), NEW f \in DOMAIN u.stubs,
           HasBody(p, f), HasBody(p, u.stubs[f]), u.stubs[f] # f,
           p.sig[f] # p.sig[u.stubs[f]] \/ f \in p.contract
    PROVE  Promise!Rejectable(p)
<1>1. PICK h \in ItemsOf(u.harnesses) : TRUE
  BY DEF IsUnit, ItemsOf
<1>2. h \in AllHarnesses(p) /\ u.stubs = ApplyTransitivity(StubsOf(p, h))
  BY SameCheckFn
<1>3. f \in DOMAIN StubsOf(p, h)
  BY <1>2 DEF ApplyTransitivity
<1>4. f \in DOMAIN Promise!StubMap(p, h) /\ f \in p.fns
  BY <1>2, <1>3, StubsShape
<1>5. u.stubs[f] = Promise!FinalStub(p, h, f)
  BY <1>4, UnitStubIs
<1>6. Promise!Swapped(p, h, f)
  BY <1>5 DEF Promise!Swapped, HasBody
<1> QED BY <1>2, <1>4, <1>5, <1>6 DEF Promise!Rejectable

\* validate_units fails only for a stub with another signature.
LEMMA InvalidRejects ==
    ASSUME NEW p \in Programs, NEW u, IsUnit(p, u), UnitInvalid(p, u)
    PROVE  Promise!Rejectable(p)
<1>1. PICK f \in DOMAIN u.stubs :
         HasBody(p, f) /\ HasBody(p, u.stubs[f]) /\ p.sig[f] # p.sig[u.stubs[f]]
  BY DEF UnitInvalid, Compatible
<1>2. u.stubs[f] # f
  BY <1>1
<1> QED BY <1>1, <1>2, StubRejects

\* find_closure fails only for a stub of a function with contract.
LEMMA MissingRejects ==
    ASSUME NEW p \in Programs, NEW u, IsUnit(p, u), NEW i, ClosureMissing(p, u, i)
    PROVE  Promise!Rejectable(p)
<1> DEFINE f == i[2]
<1>1. /\ f \in p.contract /\ f \in DOMAIN u.stubs /\ HasBody(p, f) /\ HasBody(p, u.stubs[f])
      /\ u.stubs[f] # f
  <2>1. FnStub(p, u, i, Original(p, i)).src[2] # f /\ f \in p.contract
    BY DEF ClosureMissing
  <2>2. CASE FnStub(p, u, i, Original(p, i)) = Original(p, i)
    BY <2>1, <2>2, OriginalBody
  <2>3. CASE /\ f \in DOMAIN u.stubs /\ HasBody(p, f) /\ HasBody(p, u.stubs[f])
             /\ FnStub(p, u, i, Original(p, i)) = Original(p, <<"fn", u.stubs[f]>>)
    BY <2>1, <2>3, OriginalBody
  <2> QED BY <2>2, <2>3 DEF FnStub, HasFnStub
<1> QED BY <1>1, StubRejects

\* check_reachable_items fails only where the contract to check is not reached.
LEMMA TargetRejects ==
    ASSUME NEW p \in Programs, NEW h \in AllHarnesses(p), h[1] = "fn", p.check[h[2]] # None,
           <<"fn", p.check[h[2]]>> \notin Promise!Running(p, h, Promise!Start(p, h))
    PROVE  Promise!Rejectable(p)
BY DEF Promise!Rejectable, None

\* A stub whose bounds are not met.
LEMMA UnfitRejects ==
    ASSUME NEW p \in Programs, NEW u, IsUnit(p, u), NEW i, StubUnfit(p, u, i)
    PROVE  Promise!Rejectable(p)
<1> DEFINE f == i[2]
<1>1. /\ f \in DOMAIN u.stubs /\ HasBody(p, f) /\ HasBody(p, u.stubs[f])
      /\ u.stubs[f] \in p.unfit
  BY DEF StubUnfit, HasFnStub
<1>2. PICK h \in ItemsOf(u.harnesses) : TRUE
  BY DEF IsUnit, ItemsOf
<1>3. h \in AllHarnesses(p) /\ u.stubs = ApplyTransitivity(StubsOf(p, h))
  BY SameCheckFn
<1> HIDE DEF f
<1>4. f \in DOMAIN StubsOf(p, h) /\ u.stubs[f] = Follow(StubsOf(p, h), f)
  BY <1>1, <1>3 DEF ApplyTransitivity
<1>5. CASE u.stubs[f] = f
  <2>1. HasCycle(StubsOf(p, h))
    BY <1>4, <1>5 DEF HasCycle
  <2> QED BY <1>3, <2>1, CycleRejects
<1>6. CASE u.stubs[f] # f
  <2>1. f \in DOMAIN Promise!StubMap(p, h) /\ f \in p.fns
    BY <1>3, <1>4, StubsShape
  <2>2. u.stubs[f] = Promise!FinalStub(p, h, f)
    BY <1>1, <2>1, UnitStubIs
  <2>3. Promise!Swapped(p, h, f)
    BY <1>1, <1>6, <2>2 DEF Promise!Swapped, HasBody
  <2> QED BY <1>1, <1>3, <2>1, <2>2, <2>3 DEF Promise!Rejectable
<1> QED BY <1>5, <1>6

\* There is no run_contract_fn only where no harness is compiled.
LEMMA NoRunContractRejects ==
    ASSUME NEW p \in Programs, NEW u, IsUnit(p, u), NEW i, NoRunContract(p, u, i)
    PROVE  Promise!Rejectable(p)
<1>1. PubFns \in AllHarnesses(p) /\ p.contract # {}
  BY DEF NoRunContract, IsUnit
<1>2. PubFns[1] = "pub"
  BY DEF PubFns
<1> QED BY <1>1, <1>2 DEF Promise!Rejectable

-----------------------------------------------------------------------------
(* The parts of contracts that are collected *)

\* The function f stands for another one.
StubTo(p, u, f) ==
    \E g \in DOMAIN u.stubs : HasBody(p, g) /\ HasBody(p, f) /\ u.stubs[g] = f /\ g # f

\* A closure is found after its function, or in the body of a function that this one
\* stands for; what is inside of a recursion closure only where recursion is checked,
\* or in such a body.  (C: the items that have a body.)
PartGood(p, u, C, j) ==
    /\ j[1] = "fn" => j = <<"fn", j[2]>>
    /\ j[1] \in Closures =>
          /\ j = <<j[1], j[2]>> /\ j[2] \in p.contract
          /\ <<"fn", j[2]>> \in C \/ StubTo(p, u, j[2])
    /\ j[1] \in {"REENTRY", "rec_replace"} =>
          /\ j = <<j[1], j[2]>> /\ j[2] \in p.contract
          /\ \/ ContractMode(p, u.harnesses[1], j[2]) = "recursion"
             \/ StubTo(p, u, j[2])

\* mark_unused has been there for every function that has a body.
MarkedIn(p, u, C, U) ==
    \A f \in p.contract : <<"fn", f>> \in C =>
        \A c \in Closures \ {ContractMode(p, u.harnesses[1], f)} : <<c, f>> \in U

PartsInvariant ==
    /\ MarkedIn(prog, unit, DOMAIN cache, unused)
    /\ \A i \in DOMAIN cache : \A j \in NextItems(prog, cache[i]) :
          PartGood(prog, unit, DOMAIN cache, j)
    /\ phase = "collect" =>
          \A j \in roots \cup queue \cup collected : PartGood(prog, unit, DOMAIN cache, j)

\* More bodies change nothing.
LEMMA PartGoodMore ==
    ASSUME NEW p, NEW u, NEW C, NEW D, C \subseteq D, NEW j, PartGood(p, u, C, j)
    PROVE  PartGood(p, u, D, j)
BY DEF PartGood

\* Functions, statics and harnesses are no parts of contracts.
LEMMA CodeIsGood ==
    ASSUME NEW p, NEW u, NEW C, NEW x, NEW k \in {"fn", "static", "auto", "modifies",
                                                  "rec_modifies", "rec_check"}
    PROVE  PartGood(p, u, C, <<k, x>>)
BY DEF PartGood, Closures

\* What a transformed body mentions.
LEMMA TransformGood ==
    ASSUME NEW p \in Programs, NEW u, NEW U, NEW C, NEW i, PartGood(p, u, C, i),
           MarkedIn(p, u, C, U), NEW j \in NextItems(p, Transform(p, u, U, i))
    PROVE  PartGood(p, u, C \cup {i}, j)
<1> DEFINE D == C \cup {i}
           b == Transform(p, u, U, i)
           b1 == AutomaticHarness(p, i, Original(p, i))
           b2 == FnStub(p, u, i, b1)
           b3 == ExternFnStub(p, u, b2)
<1>1. j \in b.own \cup b.closures
  BY DEF NextItems
<1>2. \A x, E : PartGood(p, u, E, Item(p, x))
  BY CodeIsGood DEF Item
<1>m. MemInitFn = <<"fn", "mem_init">>
  BY DEF MemInitFn
<1>3. CASE IsStatic(i)
  <2>1. b = Original(p, i) /\ i[1] \in {"static", "REENTRY"}
    BY <1>3 DEF Transform, IsStatic
  <2>2. Original(p, i).closures = {} /\ \A c \in Original(p, i).own : \E x : c = Item(p, x)
    <3>1. CASE i[1] = "static"
      BY <3>1 DEF Original, MemInitFn
    <3>2. CASE i[1] = "REENTRY"
      BY <3>2 DEF Original, MemInitFn
    <3> QED BY <2>1, <3>1, <3>2
  <2> QED BY <1>1, <1>2, <2>1, <2>2
<1>4. CASE ~IsStatic(i) /\ i[1] # "fn"
  <2>1. IsBody(Original(p, i)) /\ Original(p, i).closures = {}
    <3>1. Original(p, i).closures = {}
      BY <1>4 DEF Original
    <3> QED BY <3>1, OriginalBody
  <2>2. IsBody(b1) /\ b1.closures = {} /\ b2 = b1
    BY <1>4, <2>1 DEF AutomaticHarness, IsBody, FnStub, HasFnStub
  <2> HIDE DEF b1, b2
  <2>3. /\ IsBody(b3) /\ b3.closures = {}
        /\ b3.own = {Redirected(p, u, c) : c \in b2.own}
    <3>1. b3 = [b2 EXCEPT !.own = {Redirected(p, u, c) : c \in b2.own}]
      BY <2>2 DEF ExternFnStub, IsBody, Redirected
    <3> QED BY <2>2, <3>1 DEF IsBody
  <2>4. b = IF i \in U THEN Cleared(b3) ELSE b3
    BY <1>4 DEF Transform, FunctionWithContract, b1, b2
  <2> HIDE DEF b3, b
  <2>5. i \notin U /\ j \in b3.own
    BY <1>1, <2>3, <2>4 DEF Cleared, IsBody
  <2>6. PICK c \in b1.own : j = Redirected(p, u, c)
    BY <2>2, <2>3, <2>5
  <2>7. j = c \/ \E x : j = <<"fn", x>>
    BY <2>6 DEF Redirected
  <2>9. CASE j = c
    <3>1. CASE i[1] = "auto"
      <4>1. c = Item(p, i[2])
        BY <2>1, <3>1 DEF b1, AutomaticHarness, IsBody
      <4> QED BY <1>2, <2>9, <4>1
    <3>2. CASE i[1] # "auto"
      <4>1. c \in Original(p, i).own
        BY <3>2 DEF b1, AutomaticHarness
      <4>2. CASE i[1] = "recursion"
        <5>1. c \in {<<"REENTRY", i[2]>>, <<"rec_check", i[2]>>, <<"rec_replace", i[2]>>}
          BY <4>1, <4>2 DEF Original
        <5>2. /\ i = <<"recursion", i[2]>> /\ i[2] \in p.contract
              /\ <<"fn", i[2]>> \in C \/ StubTo(p, u, i[2])
          BY <4>2 DEF PartGood, Closures
        <5>3. ContractMode(p, u.harnesses[1], i[2]) = "recursion" \/ StubTo(p, u, i[2])
          <6>1. CASE <<"fn", i[2]>> \in C
            BY <2>5, <5>2, <6>1 DEF MarkedIn, Closures
          <6> QED BY <5>2, <6>1
        <5> QED BY <2>9, <5>1, <5>2, <5>3 DEF PartGood, Closures
      <4>3. CASE i[1] = "check"
        <5>1. c = <<"modifies", i[2]>>
          BY <4>1, <4>3 DEF Original
        <5> QED BY <2>9, <5>1, CodeIsGood
      <4>4. CASE i[1] = "rec_check"
        <5>1. c = <<"rec_modifies", i[2]>>
          BY <4>1, <4>4 DEF Original
        <5> QED BY <2>9, <5>1, CodeIsGood
      <4>5. CASE i[1] \notin {"recursion", "check", "rec_check"}
        <5>1. \E x : c = Item(p, x)
          BY <1>4, <4>1, <4>5 DEF Original
        <5> QED BY <1>2, <2>9, <5>1
      <4> QED BY <4>2, <4>3, <4>4, <4>5
    <3> QED BY <3>1, <3>2
  <2> QED BY <2>7, <2>9, CodeIsGood
<1>5. CASE i[1] = "fn"
  <2>1. i = <<"fn", i[2]>> /\ ~IsStatic(i)
    BY <1>5 DEF PartGood, IsStatic
  <2>2. PICK k : /\ b2 = Original(p, k) /\ k[1] = "fn"
                 /\ k = i \/ (HasFnStub(p, u, i) /\ k = <<"fn", u.stubs[i[2]]>>)
    <3>1. b1 = Original(p, i)
      BY <1>5 DEF AutomaticHarness
    <3> QED BY <1>5, <3>1 DEF FnStub
  <2>3. /\ IsBody(b2) /\ \A c \in b2.own : \E x : c = Item(p, x)
        /\ \A c \in b2.closures : c[1] \in Closures /\ c = <<c[1], k[2]>> /\ k[2] \in p.contract
    <3>1. Original(p, k).closures = {<<c, k[2]>> : c \in {d \in Closures : k[2] \in p.contract}}
      BY <2>2 DEF Original
    <3>2. Original(p, k).own = IF k = MemInitFn THEN {} ELSE {Item(p, x) : x \in p.refs[k[2]]}
      BY <2>2 DEF Original
    <3> QED BY <2>2, <3>1, <3>2, OriginalBody
  <2> HIDE DEF b1, b2
  <2>4. /\ IsBody(b3) /\ b3.closures = b2.closures
        /\ b3.own = {Redirected(p, u, c) : c \in b2.own}
    <3>1. b3 = [b2 EXCEPT !.own = {Redirected(p, u, c) : c \in b2.own}]
      BY <2>3 DEF ExternFnStub, IsBody, Redirected
    <3> QED BY <2>3, <3>1 DEF IsBody
  <2>5. b = [b3 EXCEPT !.mode = ContractMode(p, u.harnesses[1], i[2])]
    BY <1>5, <2>1 DEF Transform, FunctionWithContract, b1, b2
  <2> HIDE DEF b3, b
  <2>6. b.own = b3.own /\ b.closures = b2.closures
    BY <2>4, <2>5 DEF IsBody
  <2>7. CASE j \in b.own
    <3>1. PICK c \in b2.own : j = Redirected(p, u, c)
      BY <2>4, <2>6, <2>7
    <3>2. (\E x : j = <<"fn", x>>) \/ \E x : j = Item(p, x)
      BY <2>3, <3>1 DEF Redirected
    <3> QED BY <1>2, <3>2, CodeIsGood
  <2>8. CASE j \in b2.closures
    <3>1. j[1] \in Closures /\ j = <<j[1], k[2]>> /\ k[2] \in p.contract /\ j[2] = k[2]
      BY <2>3, <2>8
    <3>2. <<"fn", k[2]>> \in D \/ StubTo(p, u, k[2])
      <4>1. CASE k = i
        BY <2>1, <4>1
      <4>2. CASE HasFnStub(p, u, i) /\ k = <<"fn", u.stubs[i[2]]>>
        <5>1. k[2] = u.stubs[i[2]]
          BY <4>2
        <5>2. CASE k[2] = i[2]
          BY <2>1, <5>2
        <5>3. CASE k[2] # i[2]
          BY <4>2, <5>1, <5>3 DEF StubTo, HasFnStub
        <5> QED BY <5>2, <5>3
      <4> QED BY <2>2, <4>1, <4>2
    <3> QED BY <3>1, <3>2 DEF PartGood, Closures
  <2> QED BY <1>1, <2>6, <2>7, <2>8
<1> QED BY <1>3, <1>4, <1>5

\* mark_unused is run with the body of the function.
LEMMA MarkedMore ==
    ASSUME NEW p, NEW u, NEW U, NEW C, NEW i, MarkedIn(p, u, C, U)
    PROVE  MarkedIn(p, u, C \cup {i}, MarkUnused(p, u, U, i))
<1> SUFFICES ASSUME NEW f \in p.contract, <<"fn", f>> \in C \cup {i},
                    NEW c \in Closures \ {ContractMode(p, u.harnesses[1], f)}
             PROVE  <<c, f>> \in MarkUnused(p, u, U, i)
  BY DEF MarkedIn
<1>1. CASE <<"fn", f>> \in C
  BY <1>1 DEF MarkedIn, MarkUnused
<1>2. CASE i = <<"fn", f>>
  <2>1. ContractMode(p, u.harnesses[1], f) # None
    BY DEF ContractMode, None
  <2> QED BY <1>2, <2>1 DEF MarkUnused
<1> QED BY <1>1, <1>2

\* The functions that a harness starts from.
LEMMA RootsGood ==
    ASSUME NEW p, NEW h \in AllHarnesses(p), NEW u, NEW C, NEW r \in Roots(p, h)
    PROVE  PartGood(p, u, C, r)
<1>1. \E x : r = <<"fn", x>> \/ r = <<"auto", x>>
  BY HarnessShape DEF Roots
<1> QED BY <1>1, CodeIsGood

\* The harness that is compiled is one of the unit.
LEMMA CurrentHarness ==
    ASSUME UnitInvariant, phase = "collect"
    PROVE  /\ Head(pending) \in ItemsOf(unit.harnesses) /\ IsUnit(prog, unit)
           /\ Head(pending) \in AllHarnesses(prog) /\ prog \in Programs
<1>1. pending \in Seq(ItemsOf(unit.harnesses)) /\ pending # <<>> /\ prog \in Programs
  BY DEF UnitInvariant, UnitsRight
<1>2. Head(pending) \in ItemsOf(unit.harnesses)
  BY <1>1, ItemsTail
<1>3. IsUnit(prog, unit)
  BY <1>2, ItemsEmpty DEF UnitInvariant, UnitsRight, NoUnit
<1> QED BY <1>1, <1>2, <1>3, SameCheckFn

\* Visiting an item keeps the parts of contracts in order.
LEMMA PartsVisit ==
    ASSUME UnitInvariant, PartsInvariant, NEW i \in queue, Visit(i)
    PROVE  PartsInvariant'
<1> USE DEF PartsInvariant
<1>1. phase = "collect" /\ prog' = prog /\ unit' = unit /\ roots' = roots /\ prog \in Programs
  BY DEF Visit, UnitInvariant, UnitsRight
<1>2. CASE phase' = "aborted"
  <2>1. UNCHANGED <<cache, unused>>
    BY <1>1, <1>2 DEF Visit
  <2> QED BY <1>1, <1>2, <2>1
<1>3. CASE phase' # "aborted"
  <2> DEFINE body == IF i \in DOMAIN cache THEN cache[i] ELSE Transform(prog, unit, unused, i)
             C == DOMAIN cache
  <2>1. /\ collected' = collected \cup {i}
        /\ queue' = (queue \cup NextItems(prog, body)) \ collected'
        /\ cache' = [j \in DOMAIN cache \cup {i} |-> IF j = i THEN body ELSE cache[j]]
        /\ unused' = IF i \in DOMAIN cache THEN unused ELSE MarkUnused(prog, unit, unused, i)
    BY <1>3 DEF Visit
  <2>2. DOMAIN cache' = C \cup {i}
    BY <2>1
  <2>3. \A j \in NextItems(prog, body) : PartGood(prog, unit, C \cup {i}, j)
    <3>1. CASE i \in C
      BY <3>1, PartGoodMore
    <3>2. CASE i \notin C
      <4>1. PartGood(prog, unit, C, i)
        BY <1>1
      <4> QED BY <1>1, <3>2, <4>1, TransformGood
    <3> QED BY <3>1, <3>2
  <2>4. MarkedIn(prog, unit, C \cup {i}, unused')
    <3>1. CASE i \in C
      <4>1. C \cup {i} = C
        BY <3>1
      <4> QED BY <2>1, <3>1, <4>1
    <3>2. CASE i \notin C
      BY <2>1, <3>2, MarkedMore
    <3> QED BY <3>1, <3>2
  <2>5. \A j : PartGood(prog, unit, C, j) => PartGood(prog, unit, C \cup {i}, j)
    BY PartGoodMore
  <2> HIDE DEF body
  <2>6. ASSUME NEW k \in DOMAIN cache', NEW j \in NextItems(prog, cache'[k])
        PROVE  PartGood(prog, unit, C \cup {i}, j)
    BY <2>1, <2>3, <2>5, <2>6
  <2>7. \A j \in roots' \cup queue' \cup collected' : PartGood(prog, unit, C \cup {i}, j)
    BY <1>1, <2>1, <2>3, <2>5
  <2> QED BY <1>1, <2>2, <2>4, <2>6, <2>7
<1> QED BY <1>2, <1>3

\* So does the global pass.
LEMMA PartsGlobalPass ==
    ASSUME UnitInvariant, CacheRight, PartsInvariant, GlobalPass
    PROVE  PartsInvariant'
<1> USE DEF PartsInvariant
<1>1. /\ phase = "collect" /\ prog' = prog /\ unit' = unit /\ unused' = unused
      /\ queue' = queue /\ phase' = phase
  BY DEF GlobalPass
<1>2. PICK M : /\ cache' = [i \in DOMAIN cache |->
                              IF i \in M THEN Instrument(cache[i]) ELSE cache[i]]
               /\ M # {} => roots' = Roots(prog, Head(pending)) /\ collected' = {}
               /\ M = {} => roots' = roots /\ collected' = collected
  BY GlobalPassDoes
<1>3. DOMAIN cache' = DOMAIN cache
  BY <1>2
<1>4. ASSUME NEW i \in DOMAIN cache
      PROVE  NextItems(prog, cache'[i]) \subseteq NextItems(prog, cache[i]) \cup {MemInitFn}
  <2>1. NextItems(prog, Instrument(cache[i])) \subseteq NextItems(prog, cache[i]) \cup {MemInitFn}
    BY InstrumentRight DEF CacheRight
  <2>2. cache'[i] = Instrument(cache[i]) \/ cache'[i] = cache[i]
    BY <1>2
  <2> QED BY <2>1, <2>2
<1>5. PartGood(prog, unit, DOMAIN cache, MemInitFn)
  BY CodeIsGood DEF MemInitFn
<1>6. \A i \in DOMAIN cache : \A j \in NextItems(prog, cache'[i]) :
         PartGood(prog, unit, DOMAIN cache, j)
  BY <1>4, <1>5
<1>7. \A j \in Roots(prog, Head(pending)) : PartGood(prog, unit, DOMAIN cache, j)
  BY <1>1, CurrentHarness, RootsGood
<1>8. \A j \in roots' \cup queue' \cup collected' : PartGood(prog, unit, DOMAIN cache, j)
  BY <1>1, <1>2, <1>7
<1> QED BY <1>1, <1>3, <1>6, <1>8

\* Every step keeps the parts of contracts in order.
LEMMA PartsNext == CrateInvariant /\ PartsInvariant /\ [Next]_vars => PartsInvariant'
<1> SUFFICES ASSUME CrateInvariant, PartsInvariant, [Next]_vars PROVE PartsInvariant'
  OBVIOUS
<1> USE DEF CrateInvariant
<1>1. ASSUME prog' = prog, unit' = unit, cache' = cache, unused' = unused, phase' # "collect"
      PROVE  PartsInvariant'
  BY <1>1 DEF PartsInvariant
<1>2. ASSUME NEW h \in AllHarnesses(prog), Group(h) PROVE PartsInvariant'
  BY <1>1, <1>2 DEF Group, unitVars
<1>3. CASE Validate
  BY <1>1, <1>3 DEF Validate, unitVars
<1>4. ASSUME NEW u \in units, StartUnit(u) PROVE PartsInvariant'
  BY <1>4 DEF StartUnit, PartsInvariant, MarkedIn, Empty
<1>5. CASE StartHarness
  <2>1. /\ prog' = prog /\ unit' = unit /\ cache' = cache /\ unused' = unused /\ queue' = {}
        /\ collected' = {} /\ roots' = Roots(prog, Head(pending)) /\ phase' = "collect"
    BY <1>5 DEF StartHarness, unitVars
  <2>2. Head(pending) \in AllHarnesses(prog)
    <3>1. UnitInvariant' /\ phase' = "collect" /\ pending' = pending /\ prog' = prog
      BY <1>5, UnitsNext DEF StartHarness, unitVars
    <3>2. pending \in Seq(ItemsOf(unit.harnesses)) /\ pending # <<>>
      BY <1>5 DEF UnitInvariant, UnitsRight, StartHarness
    <3>3. Head(pending) \in ItemsOf(unit.harnesses)
      BY <3>2, ItemsTail
    <3>4. IsUnit(prog, unit)
      BY <3>3, ItemsEmpty DEF UnitInvariant, UnitsRight, NoUnit
    <3> QED BY <3>3, <3>4, SameCheckFn
  <2>3. \A j \in Roots(prog, Head(pending)) : PartGood(prog, unit, DOMAIN cache, j)
    BY <2>2, RootsGood
  <2> QED BY <2>1, <2>3 DEF PartsInvariant
<1>6. ASSUME NEW r \in roots, CollectRoot(r) PROVE PartsInvariant'
  BY <1>6 DEF CollectRoot, unitVars, PartsInvariant
<1>7. ASSUME NEW i \in queue, Visit(i) PROVE PartsInvariant'
  BY <1>7, PartsVisit
<1>8. CASE AbortIfErrors
  BY <1>1, <1>8 DEF AbortIfErrors, unitVars
<1>9. CASE GlobalPass
  BY <1>9, PartsGlobalPass DEF BodyInvariant
<1>10. CASE CodegenItems
  BY <1>1, <1>10 DEF CodegenItems
<1>11. CASE WriteMetadata
  BY <1>1, <1>11 DEF WriteMetadata, unitVars
<1>12. CASE UNCHANGED vars
  BY <1>12 DEF vars, PartsInvariant
<1> QED
  BY <1>2, <1>3, <1>4, <1>5, <1>6, <1>7, <1>8, <1>9, <1>10, <1>11, <1>12 DEF Next

\* A function with contract that is the stub of another one.
LEMMA StubToStandsIn ==
    ASSUME NEW p \in Programs, NEW u, IsUnit(p, u), NEW h \in ItemsOf(u.harnesses),
           NEW f \in p.contract, StubTo(p, u, f)
    PROVE  Promise!StandsIn(p, h, f)
<1>1. PICK g \in DOMAIN u.stubs : HasBody(p, g) /\ HasBody(p, f) /\ u.stubs[g] = f /\ g # f
  BY DEF StubTo
<1>2. h \in AllHarnesses(p) /\ u.stubs = ApplyTransitivity(StubsOf(p, h))
  BY SameCheckFn
<1>3. g \in DOMAIN StubsOf(p, h)
  BY <1>1, <1>2 DEF ApplyTransitivity
<1>4. g \in DOMAIN Promise!StubMap(p, h) /\ g \in p.fns
  BY <1>2, <1>3, StubsShape
<1>5. Promise!FinalStub(p, h, g) = f
  BY <1>1, <1>4, UnitStubIs
<1> QED BY <1>1, <1>4, <1>5 DEF Promise!StandsIn, Promise!Swapped, HasBody

\* any_body reports an error only where values that cannot be arbitrary are needed.
LEMMA ArbitraryRejects ==
    ASSUME NEW p \in Programs, NEW u, IsUnit(p, u), NEW C, NEW U, NEW i,
           PartGood(p, u, C, i), MarkedIn(p, u, C, U),
           i[1] \in {"replace", "rec_replace"}, i \notin U, i[2] \in p.noArbitrary
    PROVE  Promise!Rejectable(p)
<1> DEFINE f == i[2]
           mode == ContractMode(p, u.harnesses[1], f)
<1>1. PICK h \in ItemsOf(u.harnesses) : TRUE
  BY DEF IsUnit, ItemsOf
<1>2. h \in AllHarnesses(p) /\ p.contract \subseteq p.fns
  BY SameCheckFn, ProgramsAssumption
<1>3. f \in p.contract /\ (mode \in {"replace", "recursion"} \/ StubTo(p, u, f))
  <2>1. CASE i[1] = "replace"
    <3>1. /\ i = <<"replace", f>> /\ f \in p.contract
          /\ <<"fn", f>> \in C \/ StubTo(p, u, f)
      BY <2>1 DEF PartGood, Closures
    <3>2. <<"fn", f>> \in C => mode = "replace"
      BY <3>1 DEF MarkedIn, Closures
    <3> QED BY <3>1, <3>2
  <2>2. CASE i[1] = "rec_replace"
    BY <2>2 DEF PartGood
  <2> QED BY <2>1, <2>2
<1>4. mode = Promise!Use(p, h, f)
  BY <1>2, <1>3, SameUse
<1>5. StubTo(p, u, f) => Promise!StandsIn(p, h, f)
  BY <1>3, StubToStandsIn
<1>6. Promise!Use(p, h, f) \in {"replace", "recursion"} \/ Promise!StandsIn(p, h, f)
  BY <1>3, <1>4, <1>5
<1> HIDE DEF f, mode
<1>7. f \in p.noArbitrary
  BY DEF f
<1> QED BY <1>2, <1>6, <1>7 DEF Promise!Rejectable

\* There are two recursion trackers only where the harness checks a contract and a
\* stub brings another one.
LEMMA TrackersReject ==
    ASSUME CrateInvariant, PartsInvariant, phase = "collect", NEW h, h = Head(pending),
           TwoTrackers(h)
    PROVE  Promise!Rejectable(prog)
<1>1. /\ h \in ItemsOf(unit.harnesses) /\ IsUnit(prog, unit) /\ h \in AllHarnesses(prog)
      /\ prog \in Programs
  BY CurrentHarness DEF CrateInvariant
<1>2. PICK i \in collected, j \in collected : i[1] = "REENTRY" /\ j[1] = "REENTRY" /\ i # j
  BY DEF TwoTrackers
<1>3. /\ PartGood(prog, unit, DOMAIN cache, i) /\ PartGood(prog, unit, DOMAIN cache, j)
  BY <1>2 DEF PartsInvariant
<1>4. /\ i = <<"REENTRY", i[2]>> /\ j = <<"REENTRY", j[2]>>
      /\ i[2] \in prog.contract /\ j[2] \in prog.contract
      /\ ContractMode(prog, unit.harnesses[1], i[2]) = "recursion" \/ StubTo(prog, unit, i[2])
      /\ ContractMode(prog, unit.harnesses[1], j[2]) = "recursion" \/ StubTo(prog, unit, j[2])
  BY <1>2, <1>3 DEF PartGood
<1>5. i[2] # j[2]
  BY <1>2, <1>4
<1>6. \A f : ContractMode(prog, unit.harnesses[1], f) = "recursion" =>
                f = CheckFn(prog, unit.harnesses[1])
  BY DEF ContractMode, None
<1>7. PICK f \in prog.contract : StubTo(prog, unit, f)
  BY <1>4, <1>5, <1>6
<1>8. Promise!StandsIn(prog, h, f)
  BY <1>1, <1>7, StubToStandsIn
<1>9. h[1] = "fn"
  <2>1. PICK g \in DOMAIN unit.stubs : TRUE
    BY <1>7 DEF StubTo
  <2>2. DOMAIN unit.stubs = DOMAIN StubsOf(prog, h)
    <3>1. unit.stubs = ApplyTransitivity(StubsOf(prog, h))
      BY <1>1, SameCheckFn
    <3> QED BY <3>1 DEF ApplyTransitivity
  <2>3. h[1] # "fn" => DOMAIN StubsOf(prog, h) = {}
    BY DEF StubsOf
  <2> QED BY <2>1, <2>2, <2>3
<1>10. prog.check[h[2]] # "none"
  BY <1>9 DEF TwoTrackers, ContractTarget, CheckFn, None
<1> QED BY <1>1, <1>7, <1>8, <1>9, <1>10 DEF Promise!Rejectable

-----------------------------------------------------------------------------
(* The refinement *)

MeansAt(p, h, m) == LiveCodeIn(p, h, m) = Promise!Meaning(p, h)

ErrorsRight == errors => Promise!Rejectable(prog)
UnusedAreDead == DeadOnly(prog, unit, unused)
CacheMeans == ~errors => \A i \in DOMAIN cache : BodyMeans(prog, unit, i, cache[i])
ModelsMean == \A h \in DOMAIN models : MeansAt(prog, h, models[h])

\* Unless there is an error, for a reason, cached bodies are what the attributes make
\* of their items; the closures found unused are never run, and each model means what
\* its harness says.
MeaningInvariant ==
    /\ PartsInvariant /\ ErrorsRight /\ UnusedAreDead /\ CacheMeans /\ ModelsMean

\* What was collected for a harness, once nothing is left to visit, is its model.
LEMMA CollectedMeans ==
    ASSUME CrateInvariant, MeaningInvariant, phase = "collect", queue = {}, roots = {}, ~errors,
           NEW h, h = Head(pending)
    PROVE  /\ Promise!Running(prog, h, Promise!Start(prog, h)) \subseteq collected
           /\ MeansAt(prog, h, [i \in collected |-> cache[i]])
<1> DEFINE bodies == [i \in collected |-> cache[i]]
<1>1. h \in ItemsOf(unit.harnesses) /\ IsUnit(prog, unit) /\ prog \in Programs
  BY CurrentHarness DEF CrateInvariant
<1>2. Roots(prog, h) \subseteq collected /\ collected \subseteq DOMAIN cache
  BY DEF CrateInvariant, BodyInvariant, RootsKept, ClosedInvariant, Visited
<1>3. \A i \in collected :
         /\ BodyMeans(prog, unit, i, cache[i]) /\ BodyRight(prog, unit, i, cache[i])
         /\ NextItems(prog, cache[i]) \subseteq collected
  BY <1>2 DEF CrateInvariant, BodyInvariant, CacheRight, ClosedInvariant, Visited,
              MeaningInvariant, CacheMeans
<1>4. DOMAIN bodies = collected /\ \A i \in collected : bodies[i] = cache[i]
  OBVIOUS
<1>5. IsFiniteSet(collected)
  BY DEF CrateInvariant, BodyInvariant, Finite
<1> HIDE DEF bodies
<1>6. PICK p, u : p = prog /\ u = unit
  OBVIOUS
<1>7. \A i \in DOMAIN bodies : /\ BodyMeans(p, u, i, bodies[i]) /\ BodyRight(p, u, i, bodies[i])
                               /\ NextItems(p, bodies[i]) \subseteq DOMAIN bodies
  BY <1>3, <1>4, <1>6
<1>8. /\ Promise!Running(p, h, Promise!Start(p, h)) \subseteq DOMAIN bodies
      /\ LiveCodeIn(p, h, bodies) = Promise!Meaning(p, h)
  BY <1>1, <1>2, <1>4, <1>5, <1>6, <1>7, ModelMeans
<1> QED BY <1>4, <1>6, <1>8 DEF MeansAt, bodies

\* Visiting an item, with its body transformed or taken from the cache, keeps the
\* invariant.
LEMMA MeaningVisit ==
    ASSUME CrateInvariant, MeaningInvariant, PartsInvariant', NEW i \in queue, Visit(i)
    PROVE  MeaningInvariant'
<1> USE DEF MeaningInvariant
<1>1. phase = "collect" /\ prog' = prog /\ unit' = unit /\ models' = models
  BY DEF Visit, outputVars
<1>2. ModelsMean'
  BY <1>1 DEF ModelsMean
<1>3. CASE phase' = "aborted"
  <2>1. UNCHANGED <<cache, unused, errors>>
    BY <1>1, <1>3 DEF Visit
  <2> QED BY <1>1, <1>2, <2>1 DEF UnusedAreDead, CacheMeans, ErrorsRight
<1>4. CASE phase' # "aborted"
  <2> DEFINE body == IF i \in DOMAIN cache THEN cache[i] ELSE Transform(prog, unit, unused, i)
  <2>1. /\ i \notin DOMAIN cache => ~ClosureMissing(prog, unit, i)
        /\ cache' = [j \in DOMAIN cache \cup {i} |-> IF j = i THEN body ELSE cache[j]]
        /\ unused' = unused \/ unused' = MarkUnused(prog, unit, unused, i)
        /\ errors' = (errors \/ (i \notin DOMAIN cache /\ Reports(prog, unit, unused, i)))
    BY <1>4 DEF Visit, Panics
  <2>r. ErrorsRight'
    <3>1. IsUnit(prog, unit) /\ prog \in Programs
      BY <1>1, CurrentHarness DEF CrateInvariant
    <3>2. ASSUME StubUnfit(prog, unit, i) PROVE Promise!Rejectable(prog)
      BY <3>1, <3>2, UnfitRejects
    <3>3. ASSUME i[1] \in {"replace", "rec_replace"}, i \notin unused, i[2] \in prog.noArbitrary
          PROVE  Promise!Rejectable(prog)
      <4>1. PartGood(prog, unit, DOMAIN cache, i) /\ MarkedIn(prog, unit, DOMAIN cache, unused)
        BY <1>1 DEF PartsInvariant
      <4> QED BY <3>1, <3>3, <4>1, ArbitraryRejects
    <3>4. Reports(prog, unit, unused, i) => Promise!Rejectable(prog)
      BY <3>2, <3>3 DEF Reports, StubUnfit
    <3> QED BY <1>1, <2>1, <3>4 DEF ErrorsRight
  <2>2. UnusedAreDead'
    BY <1>1, <2>1, MarkUnusedDead DEF UnusedAreDead
  <2>3. ~errors' => ~errors /\ BodyMeans(prog, unit, i, body)
    <3> SUFFICES ASSUME ~errors' PROVE ~errors /\ BodyMeans(prog, unit, i, body)
      OBVIOUS
    <3>0. ~errors /\ (i \notin DOMAIN cache => ~StubUnfit(prog, unit, i))
      BY <2>1 DEF Reports, StubUnfit
    <3>1. CASE i \in DOMAIN cache
      BY <3>0, <3>1 DEF CacheMeans
    <3>2. CASE i \notin DOMAIN cache
      <4>1. BodyMeans(prog, unit, i, Transform(prog, unit, unused, i))
        BY <3>0, <3>2, <2>1, TransformMeans DEF UnusedAreDead
      <4> QED BY <3>0, <3>2, <4>1
    <3> QED BY <3>1, <3>2
  <2> HIDE DEF body
  <2>4. CacheMeans'
    BY <1>1, <2>1, <2>3 DEF CacheMeans
  <2> QED BY <1>2, <2>r, <2>2, <2>4
<1> QED BY <1>3, <1>4

\* So does the global pass.
LEMMA MeaningGlobalPass ==
    ASSUME MeaningInvariant, PartsInvariant', GlobalPass
    PROVE  MeaningInvariant'
<1> USE DEF MeaningInvariant
<1>1. /\ prog' = prog /\ unit' = unit /\ models' = models /\ errors' = errors /\ unused' = unused
      /\ DOMAIN cache' = DOMAIN cache
  BY DEF GlobalPass, outputVars
<1>2. ErrorsRight' /\ ModelsMean' /\ UnusedAreDead'
  BY <1>1 DEF ErrorsRight, ModelsMean, UnusedAreDead
<1>3. \A i \in DOMAIN cache : cache'[i] = Instrument(cache[i]) \/ cache'[i] = cache[i]
  BY GlobalPassDoes
<1>4. CacheMeans'
  BY <1>1, <1>3, InstrumentMeans DEF CacheMeans
<1> QED BY <1>2, <1>4

\* So does generating the model, which means what its harness says.
LEMMA MeaningCodegenItems ==
    ASSUME CrateInvariant, MeaningInvariant, PartsInvariant', CodegenItems
    PROVE  MeaningInvariant'
<1> USE DEF MeaningInvariant
<1> DEFINE h == Head(pending)
<1> HIDE DEF h
<1>1. /\ phase = "collect" /\ queue = {} /\ roots = {} /\ prog' = prog /\ unit' = unit
      /\ cache' = cache /\ unused' = unused /\ errors' = errors /\ ~errors
  BY DEF CodegenItems
<1>2. ErrorsRight' /\ UnusedAreDead' /\ CacheMeans'
  BY <1>1 DEF ErrorsRight, UnusedAreDead, CacheMeans
<1>3. ModelsMean'
  <2>1. CASE models' = models
    BY <1>1, <2>1 DEF ModelsMean
  <2>2. CASE models' # models
    <3>1. models' = [g \in DOMAIN models \cup {h} |->
                       IF g = h THEN [i \in collected |-> cache[i]] ELSE models[g]]
      BY <2>2 DEF CodegenItems, h
    <3>2. PICK m : m = [i \in collected |-> cache[i]]
      OBVIOUS
    <3>3. MeansAt(prog, h, m)
      BY <1>1, <3>2, CollectedMeans DEF h
    <3>4. models' = [g \in DOMAIN models \cup {h} |-> IF g = h THEN m ELSE models[g]]
      BY <3>1, <3>2
    <3> QED BY <1>1, <3>3, <3>4 DEF ModelsMean
  <2> QED BY <2>1, <2>2
<1> QED BY <1>1, <1>2, <1>3

\* Every step keeps the invariant.
LEMMA MeaningNext == CrateInvariant /\ MeaningInvariant /\ [Next]_vars => MeaningInvariant'
<1> SUFFICES ASSUME CrateInvariant, MeaningInvariant, [Next]_vars PROVE MeaningInvariant'
  OBVIOUS
<1> USE DEF MeaningInvariant
<1>0. PartsInvariant'
  BY PartsNext
<1>1. ASSUME prog' = prog, models' = models PROVE PartsInvariant' /\ ModelsMean'
  BY <1>0, <1>1 DEF ModelsMean
<1>2. ASSUME prog' = prog, errors' = errors PROVE ErrorsRight'
  BY <1>2 DEF ErrorsRight
<1>3. ASSUME prog' = prog, unit' = unit, cache' = cache, unused' = unused, ~errors' => ~errors
      PROVE  UnusedAreDead' /\ CacheMeans'
  BY <1>3 DEF UnusedAreDead, CacheMeans
<1>4. ASSUME NEW h \in AllHarnesses(prog), Group(h) PROVE MeaningInvariant'
  <2>1. /\ prog' = prog /\ models' = models /\ unit' = unit /\ cache' = cache /\ unused' = unused
        /\ errors' = errors \/ errors' = (errors \/ HasCycle(StubsOf(prog, h)))
    BY <1>4 DEF Group, unitVars, outputVars
  <2>2. HasCycle(StubsOf(prog, h)) => Promise!Rejectable(prog)
    BY CycleRejects DEF CrateInvariant, UnitInvariant, UnitsRight
  <2>3. ErrorsRight'
    BY <2>1, <2>2 DEF ErrorsRight
  <2> QED BY <1>1, <1>3, <2>1, <2>3
<1>5. CASE Validate
  BY <1>1, <1>2, <1>3, <1>5 DEF Validate, unitVars, outputVars
<1>6. ASSUME NEW u \in units, StartUnit(u) PROVE MeaningInvariant'
  <2>1. /\ prog' = prog /\ models' = models /\ errors' = errors
        /\ cache' = Empty /\ unused' = {}
    BY <1>6 DEF StartUnit, outputVars
  <2>2. CacheMeans' /\ UnusedAreDead'
    BY <2>1 DEF CacheMeans, UnusedAreDead, DeadOnly, Empty
  <2> QED BY <1>1, <1>2, <2>1, <2>2
<1>7. CASE StartHarness
  BY <1>1, <1>2, <1>3, <1>7 DEF StartHarness, unitVars, outputVars
<1>8. ASSUME NEW r \in roots, CollectRoot(r) PROVE MeaningInvariant'
  BY <1>1, <1>2, <1>3, <1>8 DEF CollectRoot, unitVars, outputVars
<1>9. ASSUME NEW i \in queue, Visit(i) PROVE MeaningInvariant'
  BY <1>0, <1>9, MeaningVisit
<1>10. CASE GlobalPass
  BY <1>0, <1>10, MeaningGlobalPass
<1>11. CASE CodegenItems
  BY <1>0, <1>11, MeaningCodegenItems
<1>12. CASE WriteMetadata
  BY <1>1, <1>2, <1>3, <1>12 DEF WriteMetadata, unitVars
<1>13. CASE UNCHANGED vars
  BY <1>1, <1>2, <1>3, <1>13 DEF vars
<1>14. CASE AbortIfErrors
  BY <1>1, <1>2, <1>3, <1>14 DEF AbortIfErrors, unitVars, outputVars
<1> QED
  BY <1>4, <1>5, <1>6, <1>7, <1>8, <1>9, <1>10, <1>11, <1>12, <1>13, <1>14 DEF Next

\* The invariant holds before the harnesses are grouped.
LEMMA MeaningInit == Init => MeaningInvariant
BY DEF Init, MeaningInvariant, PartsInvariant, MarkedIn, ErrorsRight, UnusedAreDead, DeadOnly,
       CacheMeans, ModelsMean, Empty

-----------------------------------------------------------------------------

MeaningOf == [h \in DOMAIN models |-> LiveCode(h)]
OutcomeOf ==
    CASE phase = "done" -> "done" [] phase = "aborted" -> "rejected" [] OTHER -> "running"

\* The outcome, for provers without CASE.
LEMMA OutcomeIs ==
    /\ OutcomeOf = IF phase = "done" THEN "done"
                   ELSE IF phase = "aborted" THEN "rejected" ELSE "running"
    /\ OutcomeOf' = IF phase' = "done" THEN "done"
                    ELSE IF phase' = "aborted" THEN "rejected" ELSE "running"
BY DEF OutcomeOf

\* A step that changes neither models nor outcome is not seen.
LEMMA StutterStep ==
    ASSUME prog' = prog, models' = models, OutcomeOf' = OutcomeOf
    PROVE  UNCHANGED Promise!vars
<1>1. MeaningOf' = MeaningOf
  BY DEF MeaningOf, LiveCode
<1> QED BY <1>1 DEF Promise!vars, MeaningOf, OutcomeOf

\* Giving up, for a reason, is Reject.
LEMMA RejectStep ==
    ASSUME prog' = prog, models' = models, phase \notin {"done", "aborted"}, phase' = "aborted",
           Promise!Rejectable(prog)
    PROVE  Promise!Next
<1>1. MeaningOf' = MeaningOf
  BY DEF MeaningOf, LiveCode
<1>2. OutcomeOf = "running" /\ OutcomeOf' = "rejected"
  BY OutcomeIs
<1>3. Promise!Reject
  BY <1>1, <1>2 DEF Promise!Reject, MeaningOf, OutcomeOf
<1> QED BY <1>3 DEF Promise!Next

\* A new model that means what it should is Compile.
LEMMA CompileStep ==
    ASSUME NEW h \in AllHarnesses(prog), h \notin DOMAIN models, NEW m,
           phase \notin {"done", "aborted"}, phase' \notin {"done", "aborted"}, prog' = prog,
           models' = [g \in DOMAIN models \cup {h} |-> IF g = h THEN m ELSE models[g]],
           MeansAt(prog, h, m)
    PROVE  Promise!Next
<1>1. OutcomeOf = "running" /\ OutcomeOf' = "running"
  BY OutcomeIs
<1>2. /\ MeaningOf = [g \in DOMAIN models |-> LiveCodeIn(prog, g, models[g])]
      /\ MeaningOf' = [g \in DOMAIN models' |-> LiveCodeIn(prog', g, models'[g])]
  BY DEF MeaningOf, LiveCode, LiveCodeIn
<1>3. /\ DOMAIN MeaningOf = DOMAIN models
      /\ MeaningOf' = [g \in DOMAIN MeaningOf \cup {h} |->
                         IF g = h THEN Promise!Meaning(prog, h) ELSE MeaningOf[g]]
  BY <1>2 DEF MeansAt
<1>4. Promise!Compile(h)
  BY <1>1, <1>3 DEF Promise!Compile, MeaningOf, OutcomeOf
<1> QED BY <1>4 DEF Promise!Next

\* Ending with a model for each harness is Finish.
LEMMA FinishStep ==
    ASSUME prog' = prog, models' = models, phase \notin {"done", "aborted"}, phase' = "done",
           DOMAIN models = AllHarnesses(prog)
    PROVE  Promise!Next
<1>1. MeaningOf' = MeaningOf /\ DOMAIN MeaningOf = DOMAIN models
  BY DEF MeaningOf, LiveCode
<1>2. OutcomeOf = "running" /\ OutcomeOf' = "done"
  BY OutcomeIs
<1>3. Promise!Finish
  BY <1>1, <1>2 DEF Promise!Finish, MeaningOf, OutcomeOf
<1> QED BY <1>3 DEF Promise!Next

\* Compiled again, a harness gets a model that means the same.
LEMMA CompileAgain ==
    ASSUME ModelsMean, NEW h \in DOMAIN models, NEW m, OutcomeOf' = OutcomeOf, prog' = prog,
           models' = [g \in DOMAIN models \cup {h} |-> IF g = h THEN m ELSE models[g]],
           MeansAt(prog, h, m)
    PROVE  UNCHANGED Promise!vars
<1>1. /\ MeaningOf = [g \in DOMAIN models |-> LiveCodeIn(prog, g, models[g])]
      /\ MeaningOf' = [g \in DOMAIN models' |-> LiveCodeIn(prog', g, models'[g])]
  BY DEF MeaningOf, LiveCode, LiveCodeIn
<1>2. DOMAIN models' = DOMAIN models
  OBVIOUS
<1>3. \A g \in DOMAIN models : LiveCodeIn(prog, g, models'[g]) = LiveCodeIn(prog, g, models[g])
  BY DEF ModelsMean, MeansAt
<1>4. MeaningOf' = MeaningOf
  BY <1>1, <1>2, <1>3
<1> QED BY <1>4 DEF Promise!vars, MeaningOf, OutcomeOf

\* Every step of the compiler is one that CrateModel allows, or is not seen there.
LEMMA StepImplements ==
    CrateInvariant /\ MeaningInvariant /\ [Next]_vars => [Promise!Next]_(Promise!vars)
<1> SUFFICES ASSUME CrateInvariant, MeaningInvariant, [Next]_vars
             PROVE  Promise!Next \/ UNCHANGED Promise!vars
  OBVIOUS
<1> USE DEF CrateInvariant, MeaningInvariant
<1>0. prog \in Programs
  BY DEF UnitInvariant, UnitsRight
<1>1. ASSUME prog' = prog, models' = models, phase' = phase PROVE UNCHANGED Promise!vars
  BY <1>1, StutterStep, OutcomeIs
<1>2. ASSUME prog' = prog, models' = models, phase \notin {"done", "aborted"},
             phase' \notin {"done", "aborted"}
      PROVE  UNCHANGED Promise!vars
  BY <1>2, StutterStep, OutcomeIs
<1>3. ASSUME NEW h \in AllHarnesses(prog), Group(h) PROVE UNCHANGED Promise!vars
  BY <1>1, <1>3 DEF Group, outputVars
<1>4. CASE Validate
  <2>1. /\ prog' = prog /\ models' = models /\ phase = "group"
        /\ phase' = IF errors \/ \E u \in units : UnitInvalid(prog, u) THEN "aborted" ELSE "units"
    BY <1>4 DEF Validate, outputVars
  <2>2. CASE phase' = "units"
    BY <1>2, <2>1, <2>2
  <2>3. CASE errors /\ phase' = "aborted"
    <3>1. Promise!Rejectable(prog)
      BY <2>3 DEF ErrorsRight
    <3> QED BY <2>1, <2>3, <3>1, RejectStep
  <2>4. ASSUME NEW u \in units, UnitInvalid(prog, u), phase' = "aborted" PROVE Promise!Next
    <3>1. Promise!Rejectable(prog)
      BY <1>0, <2>4, InvalidRejects DEF UnitInvariant, UnitsRight
    <3> QED BY <2>1, <2>4, <3>1, RejectStep
  <2> QED BY <2>1, <2>2, <2>3, <2>4
<1>5. ASSUME NEW u \in units, StartUnit(u) PROVE UNCHANGED Promise!vars
  BY <1>1, <1>5 DEF StartUnit, outputVars
<1>6. CASE StartHarness
  BY <1>2, <1>6 DEF StartHarness, outputVars
<1>7. ASSUME NEW r \in roots, CollectRoot(r) PROVE UNCHANGED Promise!vars
  BY <1>1, <1>7 DEF CollectRoot, outputVars
<1>8. ASSUME NEW i \in queue, Visit(i) PROVE Promise!Next \/ UNCHANGED Promise!vars
  <2>1. /\ prog' = prog /\ models' = models /\ phase = "collect"
        /\ phase' = phase \/ (phase' = "aborted" /\ Panics(prog, unit, i))
    BY <1>8 DEF Visit, outputVars
  <2>2. CASE phase' = "aborted" /\ Panics(prog, unit, i)
    <3>1. IsUnit(prog, unit)
      BY <2>1, CurrentHarness
    <3>2. Promise!Rejectable(prog)
      BY <1>0, <2>2, <3>1, MissingRejects, NoRunContractRejects DEF Panics
    <3> QED BY <2>1, <2>2, <3>2, RejectStep
  <2> QED BY <1>1, <2>1, <2>2
<1>9. CASE GlobalPass
  BY <1>1, <1>9 DEF GlobalPass, outputVars
<1>10. CASE CodegenItems
  <2> DEFINE h == Head(pending)
  <2>1. /\ phase = "collect" /\ queue = {} /\ roots = {} /\ prog' = prog /\ ~errors
    BY <1>10 DEF CodegenItems
  <2>2. h \in AllHarnesses(prog)
    BY <2>1, CurrentHarness
  <2>3. PICK m : m = [i \in collected |-> cache[i]]
    OBVIOUS
  <2>4. /\ Promise!Running(prog, h, Promise!Start(prog, h)) \subseteq collected
        /\ MeansAt(prog, h, m)
    BY <2>1, <2>3, CollectedMeans
  <2>5. \/ TargetMissing(h) /\ phase' = "aborted" /\ models' = models
        \/ TwoTrackers(h) /\ phase' = "aborted" /\ models' = models
        \/ /\ phase' = "units"
           /\ models' = [g \in DOMAIN models \cup {h} |-> IF g = h THEN m ELSE models[g]]
    BY <1>10, <2>3 DEF CodegenItems
  <2>8. CASE TwoTrackers(h) /\ phase' = "aborted" /\ models' = models
    <3>1. Promise!Rejectable(prog)
      BY <2>1, <2>8, TrackersReject
    <3> QED BY <2>1, <2>8, <3>1, RejectStep
  <2> HIDE DEF h
  <2>6. CASE TargetMissing(h) /\ phase' = "aborted" /\ models' = models
    <3>1. /\ h[1] = "fn" /\ prog.check[h[2]] # None
          /\ <<"fn", prog.check[h[2]]>> \notin Promise!Running(prog, h, Promise!Start(prog, h))
      BY <2>4, <2>6 DEF TargetMissing, CheckFn
    <3>2. Promise!Rejectable(prog)
      BY <1>0, <2>2, <3>1, TargetRejects
    <3> QED BY <2>1, <2>6, <3>2, RejectStep
  <2>7. CASE /\ phase' = "units"
             /\ models' = [g \in DOMAIN models \cup {h} |-> IF g = h THEN m ELSE models[g]]
    <3>1. CASE h \notin DOMAIN models
      BY <2>1, <2>2, <2>4, <2>7, <3>1, CompileStep
    <3>2. CASE h \in DOMAIN models
      <4>1. OutcomeOf' = OutcomeOf
        BY <2>1, <2>7, OutcomeIs
      <4> QED BY <2>1, <2>4, <2>7, <3>2, <4>1, CompileAgain
    <3> QED BY <3>1, <3>2
  <2> QED BY <2>5, <2>6, <2>7, <2>8
<1>13. CASE AbortIfErrors
  <2>1. /\ phase = "collect" /\ errors /\ phase' = "aborted" /\ prog' = prog
        /\ models' = models
    BY <1>13 DEF AbortIfErrors, outputVars
  <2>2. Promise!Rejectable(prog)
    BY <2>1 DEF ErrorsRight
  <2> QED BY <2>1, <2>2, RejectStep
<1>11. CASE WriteMetadata
  <2>1. /\ phase = "units" /\ units = {} /\ pending = <<>> /\ phase' = "done"
        /\ prog' = prog /\ models' = models
    BY <1>11 DEF WriteMetadata
  <2>2. HarnessesOf({}) = {}
    BY DEF HarnessesOf
  <2>3. DOMAIN models = AllHarnesses(prog)
    BY <2>1, <2>2, ItemsEmpty DEF UnitInvariant, Partition
  <2> QED BY <2>1, <2>3, FinishStep
<1>12. CASE UNCHANGED vars
  BY <1>1, <1>12 DEF vars
<1> QED
  BY <1>3, <1>4, <1>5, <1>6, <1>7, <1>8, <1>9, <1>10, <1>11, <1>12, <1>13 DEF Next

\* The compiler starts where CrateModel does.
LEMMA InitImplements == Init => Promise!Init
<1> SUFFICES ASSUME Init PROVE Promise!Init
  OBVIOUS
<1>1. MeaningOf = [h \in {} |-> {}] /\ prog \in Programs
  BY DEF Init, MeaningOf, Empty
<1>2. OutcomeOf = "running"
  BY OutcomeIs DEF Init
<1> QED BY <1>1, <1>2 DEF Promise!Init, MeaningOf, OutcomeOf

\* codegen_crate keeps the promise of CrateModel, its fairness aside: for every crate,
\* every order in which hash maps are visited and every grouping of the harnesses, a
\* model runs the code that the stubs and contracts of its own harness ask for, the
\* compiler gives up, with a message or by a failed assertion, only on an error in the
\* attributes of a harness or on a contract that it cannot compile, and it ends only
\* when each harness has its model.
THEOREM CompilerImplements == Spec => Promise!Init /\ [][Promise!Next]_(Promise!vars)
<1>1. Spec => [](CrateInvariant /\ MeaningInvariant)
  <2>1. Init => MeaningInvariant
    BY MeaningInit
  <2>2. CrateInvariant /\ MeaningInvariant /\ [Next]_vars => MeaningInvariant'
    BY MeaningNext
  <2> QED BY <2>1, <2>2, CrateInvariantHolds, PTL DEF Spec
<1> QED BY <1>1, StepImplements, InitImplements, PTL DEF Spec
=============================================================================
