---------------------------- MODULE MemInitProofs ----------------------------
(***************************************************************************)
(* The memory-initialization instrumentation misses no read of             *)
(* uninitialized memory, for any number and size of objects, any layouts,  *)
(* any copies of at least one element and any calls to resolved items; and *)
(* it raises no false alarm, for any calls and for the copies on which     *)
(* copy() is exact.                                                        *)
(***************************************************************************)
EXTENDS MemInit, TLAPS

\* The two uses of the instrumentation that the first result excludes.
NoEmptyCopies == \A c \in Copies : c.elts # 0
NoVirtualCalls == \A c \in Calls : ~c.virtual

\* A product of natural numbers is natural, and at least its second factor
\* when the first is not zero.
LEMMA ProductBounds ==
    ASSUME NEW m \in Nat, NEW n \in Nat
    PROVE  /\ m * n \in Nat /\ 1 * n = n
           /\ m # 0 => n <= m * n
<1>1. m * n \in Nat /\ 1 * n = n
  OBVIOUS
<1>2. ASSUME m # 0 PROVE n <= m * n
  <2>1. (m - 1) \in Nat
    BY <1>2
  <2>2. (m - 1) * n \in Nat
    BY <2>1
  <2>3. m * n = (m - 1) * n + n
    BY <2>1
  <2> QED BY <2>2, <2>3
<1> QED BY <1>1, <1>2

\* The guard of every operation is that the tracked byte lies in the area.
LEMMA TracksIsArea ==
    ASSUME NEW b \in Branch, NEW byte \in Bytes, On(b, byte), NEW ptr \in Pointers, NEW len \in Nat
    PROVE  Tracks(b, ptr, len) <=> byte \in Area(ptr, len)
BY SizeAssumption DEF Branch, Bytes, On, Pointers, Tracks, Area

\* A tracked byte that is moved by a copy within bounds stays within bounds.
LEMMA MovedInBounds ==
    ASSUME NEW b \in Branch, NEW from, from.off \in Nat, NEW to \in Pointers, NEW len \in Nat,
           Within(to, len), Tracks(b, from, len), ~(to.off < from.off)
    PROVE  Moved(b, from, to) \in Branch
<1>1. b.off + (to.off - from.off) \in 0..(Size - 1)
  BY SizeAssumption DEF Branch, Pointers, Within, Tracks
<1>2. to.obj \in Objects
  BY DEF Pointers
<1> QED BY <1>1, <1>2 DEF Branch, Moved

\* copy goes on with branches of the right type.
LEMMA CopyStateType ==
    ASSUME NEW b \in Branch, NEW from, from.off \in Nat, NEW to \in Pointers, NEW size \in Nat,
           NEW elts \in Nat, Within(to, elts * size)
    PROVE  CopyState(b, from, to, size, elts) \subseteq Branch
<1>1. elts * size \in Nat
  BY ProductBounds
<1>2. Bless(b, to, size, 1) \in Branch
  BY DEF Bless, Branch
<1>3. CASE Tracks(b, from, elts * size) /\ ~(to.off < from.off)
  <2>1. Moved(b, from, to) \in Branch
    <3> DEFINE len == elts * size
    <3> HIDE DEF len
    <3>1. len \in Nat /\ Within(to, len) /\ Tracks(b, from, len)
      BY <1>1, <1>3 DEF len
    <3> QED BY <1>3, <3>1, MovedInBounds
  <2> QED BY <1>3, <2>1 DEF CopyState
<1>4. CASE ~(Tracks(b, from, elts * size) /\ ~(to.off < from.off))
  BY <1>2, <1>4 DEF CopyState
<1> QED BY <1>3, <1>4

\* A copy loses no tracked byte: some branch is still on the byte, and it
\* still follows the byte unless the copy has overwritten it.
LEMMA CopyKeeps ==
    ASSUME NEW b \in Branch, NEW byte \in Bytes, On(b, byte), NEW from, NEW to \in Pointers,
           NEW size \in Nat, NEW elts \in Nat, elts # 0
    PROVE  \E d \in CopyState(b, from, to, size, elts) :
              /\ On(d, byte) /\ d.buf = b.buf
              /\ byte \notin Area(to, elts * size) /\ Follows(b, byte) => Follows(d, byte)
<1>1. CASE Tracks(b, from, elts * size)
  <2>1. b \in CopyState(b, from, to, size, elts)
    BY <1>1 DEF CopyState
  <2> QED BY <2>1
<1>2. CASE ~Tracks(b, from, elts * size)
  <2> DEFINE d == Bless(b, to, size, 1)
  <2>1. d \in CopyState(b, from, to, size, elts)
    BY <1>2 DEF CopyState
  <2>2. On(d, byte) /\ d.buf = b.buf
    BY DEF Bless, On, Branch
  <2>3. ASSUME byte \notin Area(to, elts * size), Follows(b, byte)
        PROVE  Follows(d, byte)
    <3>1. size <= elts * size /\ 1 * size = size /\ elts * size \in Nat
      BY ProductBounds
    <3>2. byte \notin Area(to, size)
      <4> DEFINE len == elts * size
      <4> HIDE DEF len
      <4>1. size <= len /\ len \in Nat /\ byte \notin Area(to, len)
        BY <2>3, <3>1 DEF len
      <4> QED BY <4>1, SizeAssumption DEF Area, Pointers, Bytes
    <3>3. ~Tracks(b, to, 1 * size)
      BY <3>1, <3>2, TracksIsArea
    <3> QED BY <2>3, <3>3 DEF Bless
  <2> QED BY <2>1, <2>2, <2>3
<1> QED BY <1>1, <1>2

\* A copy takes a branch along: a branch that follows a byte of the source
\* goes on as one that follows the copied byte.
LEMMA CopyMoves ==
    ASSUME NEW b \in Branch, NEW from \in Pointers, NEW to \in Pointers, NEW size \in Nat,
           NEW elts \in Nat, NEW byte \in Area(to, elts * size), Within(from, elts * size),
           Follows(b, <<from.obj, byte[2] - to.off + from.off>>)
    PROVE  \/ CopyOverflows(b, from, to, size, elts)
           \/ \E d \in CopyState(b, from, to, size, elts) : Follows(d, byte) /\ d.buf = b.buf
<1> DEFINE len == elts * size
<1>1. len \in Nat
  BY ProductBounds
<1>2. byte \in Area(to, len) /\ Within(from, len)
  OBVIOUS
<1>3. Tracks(b, from, elts * size)
  <2> HIDE DEF len
  <2>1. Tracks(b, from, len)
    BY <1>1, <1>2, SizeAssumption DEF Area, Bytes, Tracks, Follows, On, Pointers, Branch
  <2> QED BY <2>1 DEF len
<1>4. CASE to.off < from.off
  BY <1>3, <1>4 DEF CopyOverflows
<1>5. CASE ~(to.off < from.off)
  <2>1. Moved(b, from, to) \in CopyState(b, from, to, size, elts)
    BY <1>3, <1>5 DEF CopyState
  <2>2. Follows(Moved(b, from, to), byte) /\ Moved(b, from, to).buf = b.buf
    <3> HIDE DEF len
    <3> QED BY <1>1, <1>2, SizeAssumption DEF Area, Bytes, Follows, On, Pointers, Branch, Moved
  <2> QED BY <2>1, <2>2
<1> QED BY <1>4, <1>5

\* The initial state is well typed.
LEMMA TypeInit == Init => TypeOK
<1> SUFFICES ASSUME Init PROVE TypeOK
  OBVIOUS
<1>1. branches \subseteq Branch
  <2> SUFFICES ASSUME NEW byte \in Bytes
               PROVE  [obj |-> byte[1], off |-> byte[2], val |-> FALSE, buf |-> NoArgument] \in Branch
    BY DEF Init
  <2>1. byte[1] \in Objects /\ byte[2] \in 0..(Size - 1)
    BY DEF Bytes
  <2> QED BY <2>1 DEF Branch
<1>2. shadow \in [Bytes -> BOOLEAN] /\ ub \in BOOLEAN /\ alarm \in BOOLEAN
  BY DEF Init
<1>3. entering \in [args : Seq(UnionArg), next : Nat \ {0}] /\ entering = NotInCall
  BY DEF Init, NotInCall
<1> QED BY <1>1, <1>2, <1>3 DEF TypeOK

\* The reference operations yield a shadow memory again.
LEMMA RefTypes ==
    ASSUME NEW mem \in [Bytes -> BOOLEAN]
    PROVE  /\ \A ptr \in Pointers, layout \in Layouts, elts \in Nat, value \in BOOLEAN :
                 RefSet(mem, ptr, layout, elts, value) \in [Bytes -> BOOLEAN]
           /\ \A from \in Pointers, to \in Pointers, len \in Nat :
                 Within(from, len) => RefCopy(mem, from, to, len) \in [Bytes -> BOOLEAN]
<1>1. ASSUME NEW ptr \in Pointers, NEW layout \in Layouts, NEW elts \in Nat, NEW value \in BOOLEAN
      PROVE  RefSet(mem, ptr, layout, elts, value) \in [Bytes -> BOOLEAN]
  <2> DEFINE At(byte) == IF byte \in Area(ptr, elts * Len(layout))
                         THEN layout[((byte[2] - ptr.off) % Len(layout)) + 1] /\ value
                         ELSE mem[byte]
  <2>1. \A byte \in Bytes : At(byte) \in BOOLEAN
    OBVIOUS
  <2>2. RefSet(mem, ptr, layout, elts, value) = [byte \in Bytes |-> At(byte)]
    BY DEF RefSet
  <2> HIDE DEF At
  <2> QED BY <2>1, <2>2
<1>2. ASSUME NEW from \in Pointers, NEW to \in Pointers, NEW len \in Nat, Within(from, len)
      PROVE  RefCopy(mem, from, to, len) \in [Bytes -> BOOLEAN]
  <2>1. \A byte \in Area(to, len) : <<from.obj, byte[2] - to.off + from.off>> \in Bytes
    BY <1>2, SizeAssumption DEF Area, Bytes, Pointers, Within
  <2> QED BY <2>1 DEF RefCopy
<1> QED BY <1>1, <1>2

\* Every operation of the program, with its instrumentation, keeps the types.
LEMMA TypeNext == TypeOK /\ [Next]_vars => TypeOK'
<1> SUFFICES ASSUME TypeOK, [Next]_vars PROVE TypeOK'
  OBVIOUS
<1>1. ASSUME NEW ptr \in Pointers, NEW layout \in Layouts, NEW elts \in 0..MaxElts,
             NEW value \in BOOLEAN, Write(ptr, layout, elts, value)
      PROVE  TypeOK'
  <2>1. shadow' \in [Bytes -> BOOLEAN]
    BY <1>1, MaxEltsAssumption, RefTypes DEF Write, TypeOK
  <2>2. \A b \in Branch : SetSlice(b, ptr, layout, elts, value) \in Branch
    <3> SUFFICES ASSUME NEW b \in Branch PROVE SetSlice(b, ptr, layout, elts, value) \in Branch
      OBVIOUS
    <3> DEFINE v == layout[((b.off - ptr.off) % Len(layout)) + 1] /\ value
    <3>1. v \in BOOLEAN
      OBVIOUS
    <3>2. SetSlice(b, ptr, layout, elts, value) \in {b, [b EXCEPT !.val = v]}
      BY DEF SetSlice
    <3> HIDE DEF v
    <3>3. [b EXCEPT !.val = v] \in Branch
      BY <3>1 DEF Branch
    <3> QED BY <3>2, <3>3
  <2>3. branches' \subseteq Branch
    BY <1>1, <2>2 DEF Write, TypeOK
  <2> QED BY <1>1, <2>1, <2>3 DEF Write, TypeOK
<1>2. ASSUME NEW ptr \in Pointers, NEW layout \in Layouts, NEW elts \in 0..MaxElts,
             Read(ptr, layout, elts)
      PROVE  TypeOK'
  <2>1. ub' \in BOOLEAN /\ alarm' \in BOOLEAN
    BY <1>2 DEF Read, TypeOK, RefInitialized
  <2>2. branches' \subseteq Branch
    BY <1>2 DEF Read, TypeOK
  <2> QED BY <1>2, <2>1, <2>2 DEF Read, TypeOK
<1>3. ASSUME NEW c \in Copies, Copy(c) PROVE TypeOK'
  <2>1. /\ c.from \in Pointers /\ c.to \in Pointers /\ c.size \in Nat /\ c.elts \in Nat
        /\ Within(c.from, c.elts * c.size) /\ Within(c.to, c.elts * c.size)
        /\ c.elts * c.size \in Nat /\ c.from.off \in Nat
    BY CopiesAssumption, ProductBounds, SizeAssumption DEF CopyArgs, Pointers
  <2>2. shadow' \in [Bytes -> BOOLEAN]
    BY <1>3, <2>1, RefTypes DEF Copy, TypeOK
  <2>3. branches' \subseteq Branch
    BY <1>3, <2>1, CopyStateType DEF Copy, TypeOK
  <2>4. alarm' \in BOOLEAN
    BY <1>3 DEF Copy, TypeOK
  <2> QED BY <1>3, <2>2, <2>3, <2>4 DEF Copy, TypeOK
<1>4. ASSUME NEW c \in Calls, Call(c) PROVE TypeOK'
  <2>1. c.args \in Seq(UnionArg) /\ c.args # <<>>
    BY <1>4, CallsAssumption DEF Call
  <2>2. \A b \in Branch : StoreArguments(b, c.args) \subseteq Branch
    <3> SUFFICES ASSUME NEW b \in Branch, NEW i \in DOMAIN c.args
                 PROVE  [b EXCEPT !.buf = ArgumentOf(c.args, i)] \in Branch
      BY DEF StoreArguments
    <3>a. c.args[i] \in UnionArg /\ i \in Nat \ {0}
      BY <2>1
    <3>b. c.args[i].from \in Pointers /\ c.args[i].size \in Nat
      BY <3>a DEF UnionArg
    <3>1. ArgumentOf(c.args, i) \in [selected : Nat \ {0}, address : Pointers, size : Nat]
      BY <3>a, <3>b DEF ArgumentOf
    <3> QED BY <3>1 DEF Branch
  <2>3. branches' \subseteq Branch
    BY <1>4, <2>2 DEF Call, TypeOK
  <2>4. /\ entering' \in [args : Seq(UnionArg), next : Nat \ {0}] /\ entering'.args = c.args
        /\ entering'.next \in 1..Len(entering'.args)
    BY <1>4, <2>1 DEF Call
  <2> QED BY <1>4, <2>3, <2>4 DEF Call, TypeOK
<1>5. CASE Load
  <2> DEFINE i == entering.next
             arg == entering.args[i]
  <2>1. PICK c \in Calls : entering.args = c.args /\ i \in 1..Len(entering.args)
    BY <1>5 DEF Load, TypeOK
  <2>2. /\ arg \in UnionArg /\ arg.from \in Pointers /\ arg.to \in Pointers /\ arg.size \in Nat
        /\ Within(arg.from, arg.size) /\ Within(arg.to, arg.size)
    <3>1. c.args \in Seq(UnionArg) /\ i \in DOMAIN c.args /\ arg = c.args[i]
      BY <2>1, CallsAssumption
    <3>2. arg \in UnionArg
      BY <3>1
    <3>3. Within(c.args[i].from, c.args[i].size) /\ Within(c.args[i].to, c.args[i].size)
      BY <3>1, CallsAssumption
    <3> QED BY <3>1, <3>2, <3>3 DEF UnionArg
  <2>3. shadow' = RefCopy(shadow, arg.from, arg.to, arg.size)
    BY <1>5 DEF Load
  <2>4. shadow' \in [Bytes -> BOOLEAN]
    <3> HIDE DEF arg
    <3> QED BY <2>2, <2>3, RefTypes DEF TypeOK
  <2>5. \A b \in Branch : LoadArgument(b, arg.to, arg.size, i) \subseteq Branch
    <3> HIDE DEF arg, i
    <3> SUFFICES ASSUME NEW b \in Branch PROVE LoadArgument(b, arg.to, arg.size, i) \subseteq Branch
      OBVIOUS
    <3>1. b.buf.address.off \in Nat
      BY SizeAssumption DEF Branch, NoArgument, Pointers
    <3>2. Within(arg.to, 1 * arg.size)
      BY <2>2, ProductBounds
    <3>3. CopyState(b, b.buf.address, arg.to, arg.size, 1) \subseteq Branch
      BY <2>2, <3>1, <3>2, CopyStateType
    <3>4. \A d \in Branch : [d EXCEPT !.buf = NoArgument] \in Branch
      BY DEF Branch
    <3>5. Bless(b, arg.to, arg.size, 1) \in Branch
      BY DEF Bless, Branch
    <3> QED BY <3>3, <3>4, <3>5 DEF LoadArgument
  <2>6. branches' \subseteq Branch
    BY <1>5, <2>5 DEF Load, TypeOK
  <2>7. alarm' \in BOOLEAN /\ ub' = ub
    BY <1>5 DEF Load, TypeOK
  <2>8. \/ entering' = NotInCall
        \/ /\ entering' = [entering EXCEPT !.next = i + 1] /\ i + 1 \in 1..Len(entering.args)
    BY <1>5, <2>1, CallsAssumption DEF Load
  <2>9. /\ entering' \in [args : Seq(UnionArg), next : Nat \ {0}]
        /\ entering' # NotInCall => /\ entering'.args = c.args
                                    /\ entering'.next \in 1..Len(entering'.args)
    <3>1. CASE entering' = NotInCall
      BY <3>1 DEF NotInCall
    <3>2. CASE entering' = [entering EXCEPT !.next = i + 1] /\ i + 1 \in 1..Len(entering.args)
      BY <2>1, <3>2 DEF TypeOK
    <3> QED BY <2>8, <3>1, <3>2
  <2> QED BY <2>4, <2>6, <2>7, <2>9 DEF TypeOK
<1>6. CASE UNCHANGED vars
  BY <1>6 DEF vars, TypeOK
<1> QED BY <1>1, <1>2, <1>3, <1>4, <1>5, <1>6 DEF Next

\* Every variable keeps its type: the tracked byte never leaves the objects.
THEOREM TypeCorrect == Spec => []TypeOK
BY TypeInit, TypeNext, PTL DEF Spec

\* load_argument loses no tracked byte either, and it leaves the buffer of a
\* branch alone that is waiting for another parameter.
LEMMA LoadKeeps ==
    ASSUME NEW b \in Branch, NEW byte \in Bytes, On(b, byte), NEW to \in Pointers,
           NEW size \in Nat, NEW i
    PROVE  \E d \in LoadArgument(b, to, size, i) :
              /\ On(d, byte)
              /\ byte \notin Area(to, size) /\ Follows(b, byte) => Follows(d, byte)
              /\ ~LoadMatches(b, i) => d.buf = b.buf
<1>1. 1 * size = size /\ size \in Nat
  OBVIOUS
<1>2. CASE LoadMatches(b, i)
  <2>1. PICK d \in CopyState(b, b.buf.address, to, size, 1) :
           /\ On(d, byte)
           /\ byte \notin Area(to, 1 * size) /\ Follows(b, byte) => Follows(d, byte)
    BY CopyKeeps
  <2> DEFINE e == [d EXCEPT !.buf = NoArgument]
  <2>2. e \in LoadArgument(b, to, size, i)
    BY <1>2, <2>1 DEF LoadArgument
  <2>3. d = b \/ d = Moved(b, b.buf.address, to) \/ d = Bless(b, to, size, 1)
    BY <2>1 DEF CopyState
  <2>4. e.obj = d.obj /\ e.off = d.off /\ e.val = d.val
    BY <2>3 DEF Moved, Bless, Branch
  <2>5. byte \notin Area(to, size) /\ Follows(b, byte) => Follows(d, byte)
    BY <1>1, <2>1
  <2> HIDE DEF e
  <2>6. On(e, byte) /\ (Follows(d, byte) => Follows(e, byte))
    BY <2>1, <2>4 DEF On, Follows
  <2> QED BY <1>2, <2>2, <2>5, <2>6
<1>3. CASE ~LoadMatches(b, i)
  <2> DEFINE d == Bless(b, to, size, 1)
  <2>1. d \in LoadArgument(b, to, size, i)
    BY <1>3 DEF LoadArgument
  <2>2. On(d, byte) /\ d.buf = b.buf
    BY DEF Bless, On, Branch
  <2>3. ASSUME byte \notin Area(to, size), Follows(b, byte) PROVE Follows(d, byte)
    <3>1. ~Tracks(b, to, size)
      BY <2>3, TracksIsArea
    <3> QED BY <1>1, <2>3, <3>1 DEF Bless
  <2> QED BY <2>1, <2>2, <2>3
<1> QED BY <1>2, <1>3

\* What set does on the branch of a byte is what it means for the byte.
LEMMA SetFollows ==
    ASSUME NEW b \in Branch, NEW byte \in Bytes, On(b, byte), NEW ptr \in Pointers,
           NEW layout \in Layouts, NEW elts \in Nat, NEW value \in BOOLEAN,
           NEW mem \in [Bytes -> BOOLEAN]
    PROVE  LET d == SetSlice(b, ptr, layout, elts, value)
               after == RefSet(mem, ptr, layout, elts, value)[byte]
           IN  /\ On(d, byte)
               /\ ~after => \/ Follows(d, byte)
                            \/ ~mem[byte] /\ (Follows(b, byte) => Follows(d, byte))
<1> DEFINE len == elts * Len(layout)
           v == layout[((b.off - ptr.off) % Len(layout)) + 1] /\ value
<1>1. Len(layout) \in Nat /\ len \in Nat
  BY LayoutsAssumption, ProductBounds
<1>2. v = (layout[((byte[2] - ptr.off) % Len(layout)) + 1] /\ value)
  BY DEF On
<1>3. SetSlice(b, ptr, layout, elts, value)
        = IF Tracks(b, ptr, len) THEN [b EXCEPT !.val = v] ELSE b
  BY DEF SetSlice
<1>4. RefSet(mem, ptr, layout, elts, value)[byte]
        = IF byte \in Area(ptr, len) THEN v ELSE mem[byte]
  BY <1>2 DEF RefSet
<1> HIDE DEF len, v
<1>5. Tracks(b, ptr, len) <=> byte \in Area(ptr, len)
  BY <1>1, TracksIsArea
<1>6. On([b EXCEPT !.val = v], byte) /\ (~v => Follows([b EXCEPT !.val = v], byte))
  BY DEF Branch, On, Follows
<1> QED BY <1>3, <1>4, <1>5, <1>6
\* The state from which every step keeps NoMissedUB.
Sound == TypeOK /\ EveryByteFollowed /\ NoMissedUB

\* Initially every byte is uninitialized, and every byte may be tracked.
LEMMA SoundInit == Init => Sound
<1> SUFFICES ASSUME Init PROVE Sound
  OBVIOUS
<1>1. ASSUME NEW byte \in Bytes PROVE \E b \in branches : Follows(b, byte)
  <2> DEFINE b == [obj |-> byte[1], off |-> byte[2], val |-> FALSE, buf |-> NoArgument]
  <2>1. b \in branches
    BY DEF Init
  <2>2. Follows(b, byte)
    BY DEF Follows, On
  <2> QED BY <2>1, <2>2
<1>2. Covered /\ Followed
  BY <1>1 DEF Covered, Followed, Follows
<1>3. ArgumentsFollowed /\ NoMissedUB
  BY DEF Init, ArgumentsFollowed, NoMissedUB
<1> QED BY <1>2, <1>3, TypeInit DEF Sound, EveryByteFollowed

\* A write, with its call of set.
LEMMA SoundWrite ==
    ASSUME Sound, NEW ptr \in Pointers, NEW layout \in Layouts, NEW elts \in 0..MaxElts,
           NEW value \in BOOLEAN, Write(ptr, layout, elts, value)
    PROVE  EveryByteFollowed' /\ NoMissedUB'
<1> DEFINE S(b) == SetSlice(b, ptr, layout, elts, value)
<1>1. /\ entering = NotInCall /\ entering' = entering /\ ub' = ub /\ alarm' = alarm
      /\ shadow' = RefSet(shadow, ptr, layout, elts, value)
      /\ branches' = {S(b) : b \in branches}
  BY DEF Write, Running
<1>2. NoMissedUB' /\ ArgumentsFollowed'
  BY <1>1 DEF Sound, NoMissedUB, ArgumentsFollowed
<1> SUFFICES ASSUME ~alarm' PROVE Covered' /\ Followed'
  BY <1>2 DEF EveryByteFollowed
<1>3. Covered /\ Followed
  BY <1>1 DEF Sound, EveryByteFollowed
<1>4. elts \in Nat /\ shadow \in [Bytes -> BOOLEAN] /\ branches \subseteq Branch
  BY MaxEltsAssumption DEF Sound, TypeOK
<1>5. ASSUME NEW byte \in Bytes, NEW b \in branches, On(b, byte)
      PROVE  /\ S(b) \in branches' /\ On(S(b), byte)
             /\ ~shadow'[byte] => \/ Follows(S(b), byte)
                                  \/ ~shadow[byte] /\ (Follows(b, byte) => Follows(S(b), byte))
  <2>1. S(b) \in branches'
    BY <1>1
  <2> QED BY <1>1, <1>4, <1>5, <2>1, SetFollows
<1> HIDE DEF S
<1>6. Covered'
  BY <1>3, <1>5 DEF Covered
<1>7. ASSUME NEW byte \in Bytes, ~shadow'[byte] PROVE \E d \in branches' : Follows(d, byte)
  <2>1. CASE shadow[byte]
    <3>1. PICK b \in branches : On(b, byte)
      BY <1>3 DEF Covered
    <3> QED BY <1>5, <1>7, <2>1, <3>1
  <2>2. CASE ~shadow[byte]
    <3>1. PICK b \in branches : Follows(b, byte) /\ On(b, byte)
      BY <1>3, <2>2 DEF Followed, Follows
    <3> QED BY <1>5, <1>7, <2>2, <3>1
  <2> QED BY <2>1, <2>2
<1>8. Followed'
  BY <1>7 DEF Followed
<1> QED BY <1>6, <1>8

\* A read, with its check: the branch that follows the byte fails the check.
LEMMA SoundRead ==
    ASSUME Sound, NEW ptr \in Pointers, NEW layout \in Layouts, NEW elts \in 0..MaxElts,
           Read(ptr, layout, elts)
    PROVE  EveryByteFollowed' /\ NoMissedUB'
<1> DEFINE Passes(b) == GetSlice(b, ptr, layout, elts)
           len == elts * Len(layout)
<1>1. /\ entering' = entering /\ shadow' = shadow
      /\ ub' = ~RefInitialized(shadow, ptr, layout, elts)
      /\ alarm' = (alarm \/ \E b \in branches : ~Passes(b))
      /\ branches' = {b \in branches : Passes(b)}
  BY DEF Read
<1> SUFFICES ASSUME ~alarm' PROVE Covered' /\ Followed' /\ ArgumentsFollowed' /\ ~ub'
  BY DEF EveryByteFollowed, NoMissedUB
<1>2. Covered /\ Followed /\ ArgumentsFollowed /\ \A b \in branches : Passes(b)
  BY <1>1 DEF Sound, EveryByteFollowed
<1>3. branches' = branches
  BY <1>1, <1>2
<1>4. Covered' /\ Followed' /\ ArgumentsFollowed'
  BY <1>1, <1>2, <1>3 DEF Covered, Followed, ArgumentsFollowed
<1>5. ~ub'
  <2> SUFFICES ASSUME NEW byte \in Area(ptr, len), ~shadow[byte],
                      layout[((byte[2] - ptr.off) % Len(layout)) + 1]
               PROVE  FALSE
    BY <1>1 DEF RefInitialized
  <2>1. byte \in Bytes
    BY DEF Area
  <2>2. PICK b \in branches : On(b, byte) /\ ~b.val
    BY <1>2, <2>1 DEF Followed, Follows
  <2>3. len \in Nat
    BY LayoutsAssumption, MaxEltsAssumption, ProductBounds
  <2>4. b \in Branch
    BY DEF Sound, TypeOK
  <2>5. Tracks(b, ptr, len)
    <3> HIDE DEF len
    <3> QED BY <2>1, <2>2, <2>3, <2>4, TracksIsArea
  <2>6. b.off = byte[2]
    BY <2>2 DEF On
  <2>7. ~Passes(b)
    BY <2>2, <2>5, <2>6 DEF GetSlice
  <2> QED BY <1>2, <2>7
<1> QED BY <1>4, <1>5
\* An untyped copy of at least one element.
LEMMA SoundCopy ==
    ASSUME NoEmptyCopies, Sound, NEW c \in Copies, Copy(c)
    PROVE  EveryByteFollowed' /\ NoMissedUB'
<1> DEFINE len == c.elts * c.size
           C(b) == CopyState(b, c.from, c.to, c.size, c.elts)
           Overflows(b) == CopyOverflows(b, c.from, c.to, c.size, c.elts)
<1>1. /\ entering = NotInCall /\ entering' = entering /\ ub' = ub
      /\ shadow' = RefCopy(shadow, c.from, c.to, len)
      /\ branches' = UNION {C(b) : b \in branches}
      /\ alarm' = (alarm \/ \E b \in branches : Overflows(b))
  BY DEF Copy, Running
<1>2. NoMissedUB' /\ ArgumentsFollowed'
  BY <1>1 DEF Sound, NoMissedUB, ArgumentsFollowed
<1> SUFFICES ASSUME ~alarm' PROVE Covered' /\ Followed'
  BY <1>2 DEF EveryByteFollowed
<1>3. Covered /\ Followed /\ \A b \in branches : ~Overflows(b)
  BY <1>1 DEF Sound, EveryByteFollowed
<1>4. /\ c.from \in Pointers /\ c.to \in Pointers /\ c.size \in Nat /\ c.elts \in Nat
      /\ c.elts # 0 /\ Within(c.from, len)
  BY CopiesAssumption DEF CopyArgs, NoEmptyCopies
<1>5. branches \subseteq Branch
  BY DEF Sound, TypeOK
<1>6. ASSUME NEW byte \in Bytes, NEW b \in branches, On(b, byte)
      PROVE  \E d \in branches' :
                /\ On(d, byte)
                /\ byte \notin Area(c.to, len) /\ Follows(b, byte) => Follows(d, byte)
  <2>1. \E d \in C(b) : /\ On(d, byte)
                        /\ byte \notin Area(c.to, len) /\ Follows(b, byte) => Follows(d, byte)
    BY <1>4, <1>5, <1>6, CopyKeeps
  <2> QED BY <1>1, <2>1
<1>7. ASSUME NEW byte \in Area(c.to, len), NEW b \in branches,
             Follows(b, <<c.from.obj, byte[2] - c.to.off + c.from.off>>)
      PROVE  \E d \in branches' : Follows(d, byte)
  <2>1. \E d \in C(b) : Follows(d, byte)
    BY <1>3, <1>4, <1>5, <1>7, CopyMoves
  <2> QED BY <1>1, <2>1
<1>8. Covered'
  BY <1>3, <1>6 DEF Covered
<1>9. ASSUME NEW byte \in Bytes, ~shadow'[byte] PROVE \E d \in branches' : Follows(d, byte)
  <2>1. CASE byte \in Area(c.to, len)
    <3> DEFINE source == <<c.from.obj, byte[2] - c.to.off + c.from.off>>
    <3>1. source \in Bytes
      <4>1. len \in Nat
        BY <1>4, ProductBounds
      <4> HIDE DEF len
      <4> QED BY <1>4, <2>1, <4>1, SizeAssumption DEF Area, Bytes, Pointers, Within
    <3>2. ~shadow[source]
      <4> HIDE DEF len
      <4> QED BY <1>1, <1>9, <2>1 DEF RefCopy
    <3>3. PICK b \in branches : Follows(b, source)
      BY <1>3, <3>1, <3>2 DEF Followed
    <3> QED BY <1>7, <2>1, <3>3
  <2>2. CASE byte \notin Area(c.to, len)
    <3>1. ~shadow[byte]
      <4> HIDE DEF len
      <4> QED BY <1>1, <1>9, <2>2 DEF RefCopy
    <3>2. PICK b \in branches : Follows(b, byte) /\ On(b, byte)
      BY <1>3, <3>1 DEF Followed, Follows
    <3> QED BY <1>6, <2>2, <3>2
  <2> QED BY <2>1, <2>2
<1>10. Followed'
  BY <1>9 DEF Followed
<1> QED BY <1>8, <1>10

\* A call of a resolved item: each argument is stored on some branch.
LEMMA SoundCall ==
    ASSUME NoVirtualCalls, Sound, NEW c \in Calls, Call(c)
    PROVE  EveryByteFollowed' /\ NoMissedUB'
<1>1. /\ entering' = [args |-> c.args, next |-> 1]
      /\ shadow' = shadow /\ ub' = ub /\ alarm' = alarm
      /\ branches' = UNION {StoreArguments(b, c.args) : b \in branches}
  BY DEF Call, NoVirtualCalls
<1>2. NoMissedUB'
  BY <1>1 DEF Sound, NoMissedUB
<1> SUFFICES ASSUME ~alarm' PROVE Covered' /\ Followed' /\ ArgumentsFollowed'
  BY <1>2 DEF EveryByteFollowed
<1>3. Covered /\ Followed /\ branches \subseteq Branch
  BY <1>1 DEF Sound, EveryByteFollowed, TypeOK
<1>4. branches \subseteq branches'
  BY <1>1 DEF StoreArguments
<1>5. Covered' /\ Followed'
  BY <1>1, <1>3, <1>4 DEF Covered, Followed
<1>6. ASSUME NEW i \in 1..Len(c.args), NEW byte \in Bytes, ~shadow[byte]
      PROVE  \E d \in branches' : Follows(d, byte) /\ d.buf = ArgumentOf(c.args, i)
  <2>1. PICK b \in branches : Follows(b, byte)
    BY <1>3, <1>6 DEF Followed
  <2> DEFINE arg == ArgumentOf(c.args, i)
             d == [b EXCEPT !.buf = arg]
  <2>2. i \in DOMAIN c.args
    BY CallsAssumption
  <2>3. d \in StoreArguments(b, c.args)
    BY <2>2 DEF StoreArguments
  <2>4. d \in branches'
    BY <1>1, <2>3
  <2> HIDE DEF arg
  <2>5. Follows(d, byte) /\ d.buf = arg
    BY <1>3, <2>1 DEF Follows, On, Branch
  <2> QED BY <2>4, <2>5 DEF arg
<1>7. ArgumentsFollowed'
  <2>1. entering'.args = c.args /\ entering'.next = 1
    BY <1>1
  <2> SUFFICES ASSUME NEW i \in 1..Len(c.args), NEW byte \in Area(c.args[i].from, c.args[i].size),
                      ~shadow[byte]
               PROVE  \E d \in branches' : Follows(d, byte) /\ d.buf = ArgumentOf(c.args, i)
    BY <1>1, <2>1 DEF ArgumentsFollowed
  <2>2. byte \in Bytes
    BY DEF Area
  <2> QED BY <1>6, <2>2
<1> QED BY <1>5, <1>7
\* The callee loads a union parameter: the branch that has this argument in
\* its buffer goes to the parameter, the others keep what they follow.
LEMMA SoundLoad ==
    ASSUME Sound, Load
    PROVE  EveryByteFollowed' /\ NoMissedUB'
<1> DEFINE i == entering.next
           args == entering.args
           arg == args[i]
           L(b) == LoadArgument(b, arg.to, arg.size, i)
<1>1. PICK c \in Calls : args = c.args /\ i \in 1..Len(args)
  BY DEF Sound, TypeOK, Load
<1>2. args \in Seq(UnionArg) /\ i \in DOMAIN args
  BY <1>1, CallsAssumption
<1>3. /\ arg.from \in Pointers /\ arg.to \in Pointers /\ arg.size \in Nat
      /\ Within(arg.from, arg.size)
  <2>1. arg \in UnionArg
    BY <1>2
  <2> QED BY <1>1, <1>2, <2>1, CallsAssumption DEF UnionArg
<1>4. /\ shadow' = RefCopy(shadow, arg.from, arg.to, arg.size)
      /\ alarm' = (alarm \/ \E b \in branches : LoadFails(b, arg.to, arg.size, i))
      /\ ub' = ub
      /\ entering # NotInCall
      /\ entering' = IF i = Len(args) THEN NotInCall ELSE [entering EXCEPT !.next = i + 1]
  BY DEF Load
<1>5. NoMissedUB'
  BY <1>4 DEF Sound, NoMissedUB
<1> SUFFICES ASSUME ~alarm' PROVE Covered' /\ Followed' /\ ArgumentsFollowed'
  BY <1>5 DEF EveryByteFollowed
<1>6. /\ Covered /\ Followed /\ ArgumentsFollowed /\ branches \subseteq Branch
      /\ \A b \in branches : ~LoadFails(b, arg.to, arg.size, i)
  BY <1>4 DEF Sound, EveryByteFollowed, TypeOK
<1>7. \A b \in branches : L(b) \subseteq branches'
  <2>1. branches' = UNION {L(b) : b \in {x \in branches : LoadMatches(x, i) => x.buf.size = arg.size}}
    BY DEF Load
  <2> QED BY <1>6, <2>1 DEF LoadFails
<1> HIDE DEF arg
<1>8. ASSUME NEW byte \in Bytes, NEW b \in branches, On(b, byte)
      PROVE  \E d \in branches' :
                /\ On(d, byte)
                /\ byte \notin Area(arg.to, arg.size) /\ Follows(b, byte) => Follows(d, byte)
                /\ ~LoadMatches(b, i) => d.buf = b.buf
  <2>1. \E d \in L(b) :
                /\ On(d, byte)
                /\ byte \notin Area(arg.to, arg.size) /\ Follows(b, byte) => Follows(d, byte)
                /\ ~LoadMatches(b, i) => d.buf = b.buf
    BY <1>3, <1>6, <1>8, LoadKeeps
  <2> QED BY <1>7, <2>1
<1>9. Covered'
  BY <1>6, <1>8 DEF Covered
<1>10. ASSUME NEW byte \in Bytes, byte \notin Area(arg.to, arg.size), ~shadow'[byte]
       PROVE  ~shadow[byte]
  BY <1>4, <1>10 DEF RefCopy
<1>11. ASSUME NEW byte \in Bytes, byte \in Area(arg.to, arg.size), ~shadow'[byte]
       PROVE  \E d \in branches' : Follows(d, byte)
  <2> DEFINE source == <<arg.from.obj, byte[2] - arg.to.off + arg.from.off>>
  <2>1. source \in Area(arg.from, arg.size)
    BY <1>3, <1>11, SizeAssumption DEF Area, Bytes, Pointers, Within
  <2>2. ~shadow[source]
    BY <1>4, <1>11 DEF RefCopy
  <2>3. PICK b \in branches : Follows(b, source) /\ b.buf = ArgumentOf(args, i)
    <3>1. i \in entering.next..Len(entering.args)
      BY <1>1
    <3> QED BY <1>4, <1>6, <2>1, <2>2, <3>1 DEF ArgumentsFollowed, arg
  <2>4. LoadMatches(b, i) /\ b.buf.address = arg.from
    BY <2>3 DEF LoadMatches, ArgumentOf, arg
  <2>5. ~CopyOverflows(b, arg.from, arg.to, arg.size, 1)
    BY <1>6, <2>4 DEF LoadFails
  <2>6. 1 * arg.size = arg.size
    BY <1>3
  <2>7. PICK d \in CopyState(b, arg.from, arg.to, arg.size, 1) : Follows(d, byte)
    BY <1>3, <1>6, <1>11, <2>3, <2>5, <2>6, CopyMoves
  <2> DEFINE e == [d EXCEPT !.buf = NoArgument]
  <2>8. e \in L(b)
    BY <2>4, <2>7 DEF LoadArgument
  <2>9. d = b \/ d = Moved(b, arg.from, arg.to) \/ d = Bless(b, arg.to, arg.size, 1)
    BY <2>7 DEF CopyState
  <2>10. e.obj = d.obj /\ e.off = d.off /\ e.val = d.val
    BY <1>6, <2>9 DEF Moved, Bless, Branch
  <2> HIDE DEF e
  <2>11. Follows(e, byte)
    BY <2>7, <2>10 DEF Follows, On
  <2> QED BY <1>7, <2>8, <2>11
<1>12. ASSUME NEW byte \in Bytes, byte \notin Area(arg.to, arg.size), ~shadow'[byte]
       PROVE  \E d \in branches' : Follows(d, byte)
  <2>1. PICK b \in branches : Follows(b, byte) /\ On(b, byte)
    BY <1>6, <1>10, <1>12 DEF Followed, Follows
  <2> QED BY <1>8, <1>12, <2>1
<1>13. Followed'
  BY <1>11, <1>12 DEF Followed
<1>14. ArgumentsFollowed'
  <2>1. CASE i = Len(args)
    BY <1>4, <2>1 DEF ArgumentsFollowed
  <2>2. CASE i # Len(args)
    <3>1. entering'.args = args /\ entering'.next = i + 1
      BY <1>4, <2>2 DEF Sound, TypeOK
    <3> SUFFICES ASSUME NEW j \in (i + 1)..Len(args), NEW byte \in Area(args[j].from, args[j].size),
                        ~shadow'[byte]
                 PROVE  \E d \in branches' : Follows(d, byte) /\ d.buf = ArgumentOf(args, j)
      BY <3>1 DEF ArgumentsFollowed
    <3>2. byte \in Bytes
      BY DEF Area
    <3>3. i \in Nat /\ j \in Nat /\ j \in DOMAIN args /\ j # i /\ j \in i..Len(args)
      BY <1>1, <1>2
    <3>4. byte \notin Area(arg.to, arg.size)
      BY <1>1, <1>2, <3>3, CallsAssumption DEF arg
    <3>5. ~shadow[byte]
      BY <1>10, <3>2, <3>4
    <3>6. PICK b \in branches : Follows(b, byte) /\ b.buf = ArgumentOf(args, j)
      BY <1>4, <1>6, <3>3, <3>5 DEF ArgumentsFollowed
    <3>7. On(b, byte) /\ ~LoadMatches(b, i)
      BY <3>3, <3>6 DEF Follows, LoadMatches, ArgumentOf
    <3> QED BY <1>8, <3>2, <3>4, <3>6, <3>7
  <2> QED BY <2>1, <2>2
<1> QED BY <1>9, <1>13, <1>14

\* Every step of the program keeps the knowledge of the branches complete.
LEMMA SoundNext ==
    ASSUME NoEmptyCopies, NoVirtualCalls
    PROVE  Sound /\ [Next]_vars => Sound'
<1> SUFFICES ASSUME Sound, [Next]_vars PROVE Sound'
  OBVIOUS
<1>1. TypeOK'
  BY TypeNext DEF Sound
<1>2. CASE UNCHANGED vars
  BY <1>2 DEF vars, Sound, TypeOK, EveryByteFollowed, NoMissedUB, Covered, Followed, ArgumentsFollowed
<1>3. CASE Next
  BY <1>1, <1>3, SoundWrite, SoundRead, SoundCopy, SoundCall, SoundLoad DEF Next, Sound
<1> QED BY <1>2, <1>3

\* Soundness of the instrumentation for any objects, layouts, copies of at
\* least one element and calls of resolved items: at every read of memory that
\* is not initialized, a check fails on some branch.
THEOREM Soundness ==
    ASSUME NoEmptyCopies, NoVirtualCalls
    PROVE  Spec => []NoMissedUB
<1>1. Sound => NoMissedUB
  BY DEF Sound
<1> QED BY SoundInit, SoundNext, <1>1, PTL DEF Spec

\* Until a check fails, every uninitialized byte is followed on some branch.
THEOREM BytesFollowed ==
    ASSUME NoEmptyCopies, NoVirtualCalls
    PROVE  Spec => []EveryByteFollowed
<1>1. Sound => EveryByteFollowed
  BY DEF Sound
<1> QED BY SoundInit, SoundNext, <1>1, PTL DEF Spec

-----------------------------------------------------------------------------
(* Precision.  It needs copies on which copy() is exact: of at most one      *)
(* element (the others are not blessed), between areas that do not overlap   *)
(* (the old byte would be followed as if it had not been overwritten), and   *)
(* not to a lower offset (the subtraction would underflow).                  *)

PlainCopies ==
    \A c \in Copies :
        /\ c.elts \in {0, 1} /\ c.from.off <= c.to.off
        /\ Area(c.from, c.elts * c.size) \cap Area(c.to, c.elts * c.size) = {}

UpwardArguments ==
    \A c \in Calls : \A i \in DOMAIN c.args : c.args[i].from.off <= c.args[i].to.off

\* A branch calls its byte uninitialized only if it is.
Truthful(mem, b) == mem[<<b.obj, b.off>>] => b.val

\* The buffer of a branch is empty, or holds an argument of the call being
\* entered that is still to be loaded.
BufferRight(b, call) ==
    \/ b.buf = NoArgument
    \/ /\ call # NotInCall
       /\ b.buf.selected \in call.next..Len(call.args)
       /\ b.buf = ArgumentOf(call.args, b.buf.selected)

\* The inductive invariant behind NoFalseAlarm.
Precise ==
    /\ TypeOK /\ NoFalseAlarm
    /\ \A b \in branches : BufferRight(b, entering)
    /\ ub \/ \A b \in branches : Truthful(shadow, b)

\* The tracked byte is a byte of memory.
LEMMA TrackedByte ==
    ASSUME NEW b \in Branch
    PROVE  <<b.obj, b.off>> \in Bytes /\ On(b, <<b.obj, b.off>>) /\ b.val \in BOOLEAN
BY DEF Branch, Bytes, On

\* A plain copy goes on with truthful branches and does not touch the buffer.
LEMMA CopyTruthful ==
    ASSUME NEW b \in Branch, NEW mem \in [Bytes -> BOOLEAN], NEW from \in Pointers, NEW to \in Pointers,
           NEW size \in Nat, NEW elts \in {0, 1}, Within(from, elts * size), Within(to, elts * size),
           from.off <= to.off, Area(from, elts * size) \cap Area(to, elts * size) = {},
           Truthful(mem, b), NEW d \in CopyState(b, from, to, size, elts)
    PROVE  Truthful(RefCopy(mem, from, to, elts * size), d) /\ d.buf = b.buf
<1> DEFINE byte == <<b.obj, b.off>>
<1>1. PICK len \in Nat : len = elts * size /\ len <= size
  OBVIOUS
<1>2. byte \in Bytes /\ On(b, byte) /\ b.val \in BOOLEAN /\ 1 * size = size
  BY TrackedByte
<1>3. (Tracks(b, from, len) <=> byte \in Area(from, len)) /\ (Tracks(b, to, len) <=> byte \in Area(to, len))
  BY <1>2, TracksIsArea
<1>4. \A x \in Bytes \ Area(to, len) : RefCopy(mem, from, to, len)[x] = mem[x]
  BY DEF RefCopy
<1>5. CASE Tracks(b, from, len) /\ d = b
  BY <1>1, <1>2, <1>3, <1>4, <1>5 DEF Truthful
<1>6. CASE Tracks(b, from, len) /\ d = Moved(b, from, to)
  <2> DEFINE y == <<d.obj, d.off>>
  <2>1. d.obj = to.obj /\ d.off = b.off + (to.off - from.off) /\ d.val = b.val /\ d.buf = b.buf
    BY <1>6 DEF Moved, Branch
  <2>2. y \in Bytes /\ y \in Area(to, len)
    BY <1>1, <1>6, <2>1, SizeAssumption DEF Branch, Bytes, Area, Tracks, Pointers, Within
  <2>3. b.obj = from.obj /\ y[2] - to.off + from.off = b.off
    BY <1>6, <2>1, SizeAssumption DEF Tracks, Branch, Pointers
  <2>4. RefCopy(mem, from, to, len)[y] = mem[<<from.obj, y[2] - to.off + from.off>>]
    BY <2>2 DEF RefCopy
  <2> QED BY <1>1, <2>1, <2>3, <2>4 DEF Truthful
<1>7. CASE ~Tracks(b, from, len) /\ d = Bless(b, to, size, 1)
  <2>1. CASE Tracks(b, to, size)
    <3>1. d.val = TRUE /\ d.buf = b.buf
      BY <1>2, <1>7, <2>1 DEF Bless, Branch
    <3> QED BY <3>1 DEF Truthful
  <2>2. CASE ~Tracks(b, to, size)
    <3>1. d = b
      BY <1>2, <1>7, <2>2 DEF Bless
    <3>2. ~Tracks(b, to, len)
      BY <1>1, <2>2, SizeAssumption DEF Tracks, Branch, Pointers
    <3> QED BY <1>1, <1>2, <1>3, <1>4, <3>1, <3>2 DEF Truthful
  <2> QED BY <2>1, <2>2
<1>8. \/ Tracks(b, from, len) /\ d \in {b, Moved(b, from, to)}
      \/ ~Tracks(b, from, len) /\ d = Bless(b, to, size, 1)
  BY <1>1 DEF CopyState
<1> QED BY <1>5, <1>6, <1>7, <1>8

\* At first every branch calls its byte uninitialized, as it is.
LEMMA PreciseInit == Init => Precise
<1> SUFFICES ASSUME Init PROVE Precise
  OBVIOUS
<1>1. \A b \in branches : b.buf = NoArgument /\ Truthful(shadow, b)
  <2> SUFFICES ASSUME NEW b \in branches PROVE b.buf = NoArgument /\ Truthful(shadow, b)
    OBVIOUS
  <2>1. PICK byte \in Bytes :
           b = [obj |-> byte[1], off |-> byte[2], val |-> FALSE, buf |-> NoArgument]
    BY DEF Init
  <2>2. <<byte[1], byte[2]>> \in Bytes
    BY DEF Bytes
  <2>3. ~shadow[<<byte[1], byte[2]>>]
    BY <2>2 DEF Init
  <2>4. b.obj = byte[1] /\ b.off = byte[2] /\ b.buf = NoArgument
    BY <2>1
  <2> QED BY <2>3, <2>4 DEF Truthful
<1> QED BY <1>1, TypeInit DEF Init, Precise, BufferRight, NoFalseAlarm

\* A write gives the tracked byte the value the byte has.
LEMMA PreciseWrite ==
    ASSUME Precise, NEW ptr \in Pointers, NEW layout \in Layouts, NEW elts \in 0..MaxElts,
           NEW value \in BOOLEAN, Write(ptr, layout, elts, value), TypeOK'
    PROVE  Precise'
<1>1. PICK len \in Nat : len = elts * Len(layout)
  BY MaxEltsAssumption, LayoutsAssumption, ProductBounds
<1>2. ASSUME NEW b \in branches
      PROVE  /\ Truthful(shadow', SetSlice(b, ptr, layout, elts, value))
             /\ SetSlice(b, ptr, layout, elts, value).buf = b.buf
  <2> DEFINE byte == <<b.obj, b.off>>
             v == layout[((b.off - ptr.off) % Len(layout)) + 1] /\ value
             d == SetSlice(b, ptr, layout, elts, value)
  <2>1. b \in Branch /\ byte \in Bytes /\ On(b, byte) /\ shadow \in [Bytes -> BOOLEAN]
    BY TrackedByte DEF Precise, TypeOK
  <2>2. Tracks(b, ptr, len) <=> byte \in Area(ptr, len)
    BY <2>1, TracksIsArea
  <2>3. shadow'[byte] = IF byte \in Area(ptr, len) THEN v ELSE shadow[byte]
    BY <1>1, <2>1 DEF Write, RefSet
  <2>4. Truthful(shadow, b)
    BY DEF Precise, Write, Running
  <2>5. d = IF Tracks(b, ptr, len) THEN [b EXCEPT !.val = v] ELSE b
    BY <1>1 DEF SetSlice
  <2>6. v \in BOOLEAN
    OBVIOUS
  <2> HIDE DEF v, d
  <2>7. d.obj = b.obj /\ d.off = b.off /\ d.buf = b.buf /\ (d.val = IF Tracks(b, ptr, len) THEN v ELSE b.val)
    BY <2>1, <2>5 DEF Branch
  <2>8. Truthful(shadow', d)
    BY <2>2, <2>3, <2>4, <2>6, <2>7 DEF Truthful
  <2> QED BY <2>7, <2>8 DEF d
<1>3. branches' = {SetSlice(b, ptr, layout, elts, value) : b \in branches} /\ UNCHANGED <<entering, ub, alarm>>
  BY DEF Write
<1>4. \A d \in branches' : Truthful(shadow', d) /\ \E b \in branches : d.buf = b.buf
  BY <1>2, <1>3
<1>5. \A d \in branches' : BufferRight(d, entering')
  BY <1>3, <1>4 DEF Precise, BufferRight
<1> QED BY <1>3, <1>4, <1>5 DEF Precise, NoFalseAlarm

\* A check that fails has met a byte that is not initialized.
LEMMA PreciseRead ==
    ASSUME Precise, NEW ptr \in Pointers, NEW layout \in Layouts, NEW elts \in 0..MaxElts,
           Read(ptr, layout, elts), TypeOK'
    PROVE  Precise'
<1>1. PICK len \in Nat : len = elts * Len(layout)
  BY MaxEltsAssumption, LayoutsAssumption, ProductBounds
<1>2. ASSUME NEW b \in branches, ~GetSlice(b, ptr, layout, elts) PROVE ub'
  <2> DEFINE byte == <<b.obj, b.off>>
             data == layout[((b.off - ptr.off) % Len(layout)) + 1]
  <2>1. b \in Branch /\ byte \in Bytes /\ On(b, byte)
    BY TrackedByte DEF Precise, TypeOK
  <2>2. Tracks(b, ptr, len) /\ data /\ ~b.val
    BY <1>1, <1>2 DEF GetSlice
  <2>3. byte \in Area(ptr, len)
    BY <2>1, <2>2, TracksIsArea
  <2>4. ~shadow[byte]
    BY <2>2 DEF Precise, Truthful, Read, Running
  <2>5. ~RefInitialized(shadow, ptr, layout, elts)
    BY <1>1, <2>2, <2>3, <2>4 DEF RefInitialized
  <2> QED BY <2>5 DEF Read
<1>3. alarm' => ub'
  BY <1>2 DEF Read, Running, Precise, NoFalseAlarm
<1>4. branches' \subseteq branches /\ shadow' = shadow /\ entering' = entering /\ ~ub
  BY DEF Read, Running
<1> QED BY <1>3, <1>4 DEF Precise, NoFalseAlarm

\* A plain copy raises no alarm and moves knowledge along with the bytes.
LEMMA PreciseCopy ==
    ASSUME Precise, PlainCopies, NEW c \in Copies, Copy(c), TypeOK'
    PROVE  Precise'
<1>1. /\ c.from \in Pointers /\ c.to \in Pointers /\ c.size \in Nat /\ c.elts \in {0, 1}
      /\ Within(c.from, c.elts * c.size) /\ Within(c.to, c.elts * c.size) /\ c.from.off <= c.to.off
      /\ Area(c.from, c.elts * c.size) \cap Area(c.to, c.elts * c.size) = {}
  BY CopiesAssumption DEF CopyArgs, PlainCopies
<1>2. alarm' = alarm
  <2>1. ~(c.to.off < c.from.off)
    BY <1>1, SizeAssumption DEF Pointers
  <2> QED BY <2>1 DEF Copy, CopyOverflows, Precise, TypeOK
<1>3. ASSUME NEW b \in branches, NEW d \in CopyState(b, c.from, c.to, c.size, c.elts)
      PROVE  Truthful(shadow', d) /\ d.buf = b.buf
  <2>1. b \in Branch /\ shadow \in [Bytes -> BOOLEAN] /\ Truthful(shadow, b)
    BY DEF Precise, TypeOK, Copy, Running
  <2>2. shadow' = RefCopy(shadow, c.from, c.to, c.elts * c.size)
    BY DEF Copy
  <2> QED BY <1>1, <2>1, <2>2, CopyTruthful
<1>4. \A d \in branches' : Truthful(shadow', d) /\ \E b \in branches : d.buf = b.buf
  BY <1>3 DEF Copy
<1>5. entering' = entering /\ ub' = ub
  BY DEF Copy
<1>6. \A d \in branches' : BufferRight(d, entering')
  BY <1>4, <1>5 DEF Precise, BufferRight
<1> QED BY <1>2, <1>4, <1>5, <1>6 DEF Precise, NoFalseAlarm

\* The caller fills empty buffers with its arguments, or none at all.
LEMMA PreciseCall ==
    ASSUME Precise, NEW c \in Calls, Call(c), TypeOK'
    PROVE  Precise'
<1>1. c.args \in Seq(UnionArg) /\ entering = NotInCall /\ ~ub
  BY CallsAssumption DEF Call, Running
<1>2. /\ entering' = [args |-> c.args, next |-> 1] /\ c.args # <<>> /\ entering' # NotInCall
      /\ UNCHANGED <<shadow, ub, alarm>>
  BY DEF Call, NotInCall
<1>3. \A b \in branches : b \in Branch /\ b.buf = NoArgument /\ Truthful(shadow, b)
  BY <1>1 DEF Precise, BufferRight, TypeOK
<1>4. ASSUME NEW b \in branches, NEW d \in StoreArguments(b, c.args)
      PROVE  BufferRight(d, entering') /\ Truthful(shadow, d)
  <2>1. CASE d = b
    BY <1>3, <2>1 DEF BufferRight
  <2>2. ASSUME NEW i \in DOMAIN c.args, d = [b EXCEPT !.buf = ArgumentOf(c.args, i)]
        PROVE  BufferRight(d, entering') /\ Truthful(shadow, d)
    <3>1. d.obj = b.obj /\ d.off = b.off /\ d.val = b.val /\ d.buf = ArgumentOf(c.args, i)
      BY <1>3, <2>2 DEF Branch
    <3>2. d.buf.selected = i /\ i \in 1..Len(c.args)
      BY <1>1, <3>1 DEF ArgumentOf
    <3> QED BY <1>2, <1>3, <3>1, <3>2 DEF BufferRight, Truthful
  <2> QED BY <2>1, <2>2 DEF StoreArguments
<1>5. \A d \in branches' : BufferRight(d, entering') /\ Truthful(shadow, d)
  BY <1>3, <1>4 DEF Call, BufferRight
<1> QED BY <1>2, <1>5 DEF Precise, NoFalseAlarm

\* The callee finds the argument it expects, and loads it by a plain copy.
LEMMA PreciseLoad ==
    ASSUME Precise, UpwardArguments, Load, TypeOK'
    PROVE  Precise'
<1> DEFINE i == entering.next
           arg == entering.args[i]
<1>1. PICK c \in Calls : entering.args = c.args /\ i \in 1..Len(entering.args) /\ entering # NotInCall
  BY DEF Load, Precise, TypeOK
<1>2. /\ arg.from \in Pointers /\ arg.to \in Pointers /\ arg.size \in Nat /\ c.args \in Seq(UnionArg)
      /\ Within(arg.from, arg.size) /\ Within(arg.to, arg.size) /\ arg.from.off <= arg.to.off
      /\ Area(arg.from, arg.size) \cap Area(arg.to, arg.size) = {}
  <2>1. c.args \in Seq(UnionArg) /\ i \in DOMAIN c.args /\ arg = c.args[i]
    BY <1>1, CallsAssumption
  <2>2. arg \in UnionArg
    BY <2>1
  <2>3. /\ Within(c.args[i].from, c.args[i].size) /\ Within(c.args[i].to, c.args[i].size)
        /\ Area(c.args[i].to, c.args[i].size) \cap Area(c.args[i].from, c.args[i].size) = {}
    BY <2>1, CallsAssumption
  <2> QED BY <2>1, <2>2, <2>3 DEF UnionArg, UpwardArguments
<1>3. ASSUME NEW b \in branches, LoadMatches(b, i)
      PROVE  b.buf = ArgumentOf(entering.args, i) /\ b.buf.address = arg.from /\ b.buf.size = arg.size
  <2>1. b.buf # NoArgument
    BY <1>1, <1>3 DEF LoadMatches, NoArgument
  <2> QED BY <1>3, <2>1 DEF Precise, BufferRight, LoadMatches, ArgumentOf
<1>4. alarm' = alarm
  <2>1. \A b \in branches : ~LoadFails(b, arg.to, arg.size, i)
    <3> HIDE DEF arg, i
    <3>1. ~(arg.to.off < arg.from.off)
      BY <1>2, SizeAssumption DEF Pointers
    <3> QED BY <1>3, <3>1 DEF LoadFails, CopyOverflows
  <2> QED BY <2>1 DEF Load, Precise, TypeOK
<1>5. shadow' = RefCopy(shadow, arg.from, arg.to, arg.size) /\ ub' = ub
  BY DEF Load
<1>6. ASSUME NEW b \in branches, NEW d \in LoadArgument(b, arg.to, arg.size, i)
      PROVE  /\ ~ub => Truthful(shadow', d)
             /\ d.buf = NoArgument \/ (~LoadMatches(b, i) /\ d.buf = b.buf)
  <2> HIDE DEF arg, i
  <2>1. b \in Branch /\ shadow \in [Bytes -> BOOLEAN] /\ (~ub => Truthful(shadow, b))
    BY DEF Precise, TypeOK
  <2>2. 1 * arg.size = arg.size
    BY <1>2
  <2>3. CASE LoadMatches(b, i)
    <3>1. PICK e \in CopyState(b, arg.from, arg.to, arg.size, 1) : d = [e EXCEPT !.buf = NoArgument]
      BY <1>3, <2>3 DEF LoadArgument
    <3>2. e \in Branch
      <4>1. arg.from.off \in Nat /\ Within(arg.to, 1 * arg.size)
        BY <1>2, <2>2, SizeAssumption DEF Pointers
      <4> QED BY <1>2, <2>1, <3>1, <4>1, CopyStateType
    <3>3. d.obj = e.obj /\ d.off = e.off /\ d.val = e.val /\ d.buf = NoArgument
      BY <3>1, <3>2 DEF Branch
    <3>4. ~ub => Truthful(RefCopy(shadow, arg.from, arg.to, 1 * arg.size), e)
      <4>1. 1 \in {0, 1} /\ Within(arg.from, 1 * arg.size) /\ Within(arg.to, 1 * arg.size)
        BY <1>2, <2>2
      <4>2. Area(arg.from, 1 * arg.size) \cap Area(arg.to, 1 * arg.size) = {}
        BY <1>2, <2>2
      <4> QED BY <1>2, <2>1, <3>1, <4>1, <4>2, CopyTruthful
    <3> QED BY <1>5, <2>2, <3>3, <3>4 DEF Truthful
  <2>4. CASE ~LoadMatches(b, i)
    <3> DEFINE byte == <<b.obj, b.off>>
    <3>1. d = Bless(b, arg.to, arg.size, 1)
      BY <2>4 DEF LoadArgument
    <3>2. byte \in Bytes /\ On(b, byte) /\ b.val \in BOOLEAN
      BY <2>1, TrackedByte
    <3>3. Tracks(b, arg.to, arg.size) <=> byte \in Area(arg.to, arg.size)
      BY <1>2, <2>1, <3>2, TracksIsArea
    <3>4. /\ d.obj = b.obj /\ d.off = b.off /\ d.buf = b.buf
          /\ (d.val = IF Tracks(b, arg.to, arg.size) THEN TRUE ELSE b.val)
      BY <2>1, <2>2, <3>1 DEF Bless, Branch
    <3>5. byte \notin Area(arg.to, arg.size) => shadow'[byte] = shadow[byte]
      BY <1>5, <3>2 DEF RefCopy
    <3> QED BY <2>1, <2>4, <3>2, <3>3, <3>4, <3>5 DEF Truthful
  <2> QED BY <2>3, <2>4
<1>7. \A d \in branches' : \E b \in branches : d \in LoadArgument(b, arg.to, arg.size, i)
  BY DEF Load
<1>8. \A d \in branches' : ~ub => Truthful(shadow', d)
  BY <1>6, <1>7
<1>9. ASSUME NEW d \in branches' PROVE BufferRight(d, entering')
  <2>1. PICK b \in branches : d \in LoadArgument(b, arg.to, arg.size, i)
    BY <1>7
  <2>2. CASE d.buf = NoArgument
    BY <2>2 DEF BufferRight
  <2>3. CASE d.buf # NoArgument /\ ~LoadMatches(b, i) /\ d.buf = b.buf
    <3>1. /\ b.buf.selected \in i..Len(entering.args) /\ b.buf.selected # i
          /\ b.buf = ArgumentOf(entering.args, b.buf.selected)
      BY <2>3 DEF Precise, BufferRight, LoadMatches
    <3>2. i # Len(entering.args) /\ i \in Nat /\ Len(entering.args) \in Nat
      BY <1>1, <1>2, <3>1
    <3>3. entering' = [entering EXCEPT !.next = i + 1]
      BY <3>2 DEF Load
    <3>4. entering'.args = entering.args /\ entering'.next = i + 1
      BY <3>3 DEF Precise, TypeOK
    <3>5. entering' # NotInCall
      BY <1>1, <3>2, <3>4 DEF NotInCall
    <3>6. b.buf.selected \in (i + 1)..Len(entering.args)
      BY <3>1, <3>2
    <3> QED BY <2>3, <3>1, <3>4, <3>5, <3>6 DEF BufferRight
  <2> QED BY <1>6, <2>1, <2>2, <2>3
<1> QED BY <1>4, <1>5, <1>8, <1>9 DEF Precise, NoFalseAlarm

\* Precision of the instrumentation for any objects, layouts and calls, also
\* through a vtable, and any copies on which copy() is exact: a check fails
\* only when the program reads memory that is not initialized.
THEOREM Precision ==
    ASSUME PlainCopies, UpwardArguments
    PROVE  Spec => []NoFalseAlarm
<1>1. Precise /\ [Next]_vars => Precise'
  <2> SUFFICES ASSUME Precise, [Next]_vars PROVE Precise'
    OBVIOUS
  <2>1. TypeOK'
    BY TypeNext DEF Precise
  <2>2. CASE UNCHANGED vars
    BY <2>2 DEF vars, Precise, TypeOK, NoFalseAlarm
  <2>3. CASE Next
    BY <2>1, <2>3, PreciseWrite, PreciseRead, PreciseCopy, PreciseCall, PreciseLoad DEF Next
  <2> QED BY <2>2, <2>3
<1>2. Precise => NoFalseAlarm
  BY DEF Precise
<1> QED BY PreciseInit, <1>1, <1>2, PTL DEF Spec
=============================================================================
