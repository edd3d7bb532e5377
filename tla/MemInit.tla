------------------------------- MODULE MemInit -------------------------------
(***************************************************************************)
(* The memory-initialization instrumentation (-Z uninit-checks).           *)
(*                                                                         *)
(* Instead of a shadow bit for every byte, the instrumented program keeps  *)
(* the state of ONE byte, chosen nondeterministically, and follows it      *)
(* through copies nondeterministically (library/kani_core, mem_init.rs).   *)
(* CBMC explores every choice, so the state here is the set of all         *)
(* branches of the nondeterminism, next to the shadow memory they stand    *)
(* for.  An action is an operation of the user's program together with     *)
(* the calls that the compiler inserts for it (check_uninit).              *)
(***************************************************************************)
EXTENDS Integers, Sequences

CONSTANTS
    Objects,   \* the memory objects of the program
    Size,      \* the size of every object, in bytes
    Layouts,   \* byte masks of the types in use: TRUE is data, FALSE padding
    MaxElts,   \* bound on the length of a slice that is read or written
    Copies,    \* the copies the program may do: [from, to, size, elts]
    Calls      \* the calls with union arguments it may do: [virtual, args]

Pointers == [obj : Objects, off : 0..Size]
CopyArgs == [from : Pointers, to : Pointers, size : Nat, elts : Nat]
UnionArg == [from : Pointers, to : Pointers, size : Nat]

Within(ptr, len) == ptr.off + len <= Size
Bytes == Objects \X (0..(Size - 1))

\* The bytes of a memory area.
Area(ptr, len) == {byte \in Bytes : byte[1] = ptr.obj /\ byte[2] \in ptr.off..(ptr.off + len - 1)}

ASSUME SizeAssumption == Size \in Nat
ASSUME LayoutsAssumption == Layouts \subseteq Seq(BOOLEAN)
ASSUME MaxEltsAssumption == MaxElts \in Nat
ASSUME CopiesAssumption ==
    /\ Copies \subseteq CopyArgs
    /\ \A c \in Copies : Within(c.from, c.elts * c.size) /\ Within(c.to, c.elts * c.size)
ASSUME CallsAssumption ==
    /\ Calls \subseteq [virtual : BOOLEAN, args : Seq(UnionArg)]
    /\ \A c \in Calls : \A i \in DOMAIN c.args :
          /\ Within(c.args[i].from, c.args[i].size) /\ Within(c.args[i].to, c.args[i].size)
          \* parameters are locals of the callee
          /\ \A j \in DOMAIN c.args :
                /\ Area(c.args[i].to, c.args[i].size) \cap Area(c.args[j].from, c.args[j].size) = {}
                /\ i # j => Area(c.args[i].to, c.args[i].size)
                              \cap Area(c.args[j].to, c.args[j].size) = {}

VARIABLES
    shadow,    \* reference: whether each byte of memory is initialized
    branches,  \* the states of MEM_INIT_STATE and ARGUMENT_BUFFER, over all choices
    entering,  \* the call being entered and the parameter loaded next
    ub,        \* the program has read uninitialized memory
    alarm      \* on some branch, a check of the instrumentation has failed

vars == <<shadow, branches, entering, ub, alarm>>

-----------------------------------------------------------------------------
(* mem_init.rs: the operations on one branch.                              *)

NoArgument == [selected |-> 0, address |-> [obj |-> 0, off |-> 0], size |-> 0]

\* The test that guards every operation: the tracked byte lies in the area.
Tracks(b, ptr, len) ==
    b.obj = ptr.obj /\ b.off >= ptr.off /\ b.off < ptr.off + len

\* get and get_slice (get is the case of one element); TRUE outside the area
GetSlice(b, ptr, layout, elts) ==
    Tracks(b, ptr, elts * Len(layout)) =>
        ~layout[((b.off - ptr.off) % Len(layout)) + 1] \/ b.val

\* Mutant: the padding bytes of the type are left as they were.
SetSliceKeepsPadding(b, ptr, layout, elts, value) ==
    IF Tracks(b, ptr, elts * Len(layout)) /\ layout[((b.off - ptr.off) % Len(layout)) + 1]
    THEN [b EXCEPT !.val = value]
    ELSE b

\* set and set_slice
SetSlice(b, ptr, layout, elts, value) ==
    IF Tracks(b, ptr, elts * Len(layout))
    THEN [b EXCEPT !.val = layout[((b.off - ptr.off) % Len(layout)) + 1] /\ value]
    ELSE b

Bless(b, ptr, size, elts) ==
    IF Tracks(b, ptr, elts * size) THEN [b EXCEPT !.val = TRUE] ELSE b

\* copy subtracts unsigned offsets; the library is built with overflow checks.
CopyOverflows(b, from, to, size, elts) ==
    Tracks(b, from, elts * size) /\ to.off < from.off

\* The tracked byte moved along with the copy.
Moved(b, from, to) == [b EXCEPT !.obj = to.obj, !.off = @ + (to.off - from.off)]

\* Mutant: the destination of a copy of other bytes stays as it was.
CopyWithoutBless(b, from, to, size, elts) ==
    IF Tracks(b, from, elts * size)
    THEN {b} \cup (IF to.off < from.off THEN {} ELSE {Moved(b, from, to)})
    ELSE {b}

\* copy: the branches that one branch goes on as (should_reset is any()).
CopyState(b, from, to, size, elts) ==
    IF Tracks(b, from, elts * size)
    THEN {b} \cup (IF to.off < from.off THEN {} ELSE {Moved(b, from, to)})
    ELSE {Bless(b, to, size, 1)}

ArgumentOf(args, i) == [selected |-> i, address |-> args[i].from, size |-> args[i].size]

\* store_argument for each union argument in turn: any() decides for each one,
\* so the last argument stored can be any of them, or none is.
StoreArguments(b, args) ==
    {b} \cup {[b EXCEPT !.buf = ArgumentOf(args, i)] : i \in DOMAIN args}

LoadMatches(b, i) == b.buf.selected = i

\* load_argument of parameter i
LoadArgument(b, to, size, i) ==
    IF LoadMatches(b, i)
    THEN {[c EXCEPT !.buf = NoArgument] : c \in CopyState(b, b.buf.address, to, size, 1)}
    ELSE {Bless(b, to, size, 1)}

\* assert!(buffer.layout_size == LAYOUT_SIZE), or the overflow in copy
LoadFails(b, to, size, i) ==
    LoadMatches(b, i) /\ (b.buf.size # size \/ CopyOverflows(b, b.buf.address, to, size, 1))

-----------------------------------------------------------------------------
(* What the operations mean, on the whole shadow memory.                   *)

RefSet(mem, ptr, layout, elts, value) ==
    [byte \in Bytes |->
        IF byte \in Area(ptr, elts * Len(layout))
        THEN layout[((byte[2] - ptr.off) % Len(layout)) + 1] /\ value
        ELSE mem[byte]]

RefCopy(mem, from, to, len) ==
    [byte \in Bytes |->
        IF byte \in Area(to, len) THEN mem[<<from.obj, byte[2] - to.off + from.off>>]
        ELSE mem[byte]]

\* Every data byte of the value read is initialized.
RefInitialized(mem, ptr, layout, elts) ==
    \A byte \in Area(ptr, elts * Len(layout)) :
        layout[((byte[2] - ptr.off) % Len(layout)) + 1] => mem[byte]

-----------------------------------------------------------------------------

NotInCall == [args |-> <<>>, next |-> 1]
Running == ~ub /\ entering = NotInCall

\* initialize_memory_initialization_state: any byte may be the tracked one.
Init ==
    /\ shadow = [byte \in Bytes |-> FALSE]
    /\ branches = {[obj |-> byte[1], off |-> byte[2], val |-> FALSE, buf |-> NoArgument]
                     : byte \in Bytes}
    /\ entering = NotInCall
    /\ ub = FALSE /\ alarm = FALSE

\* Memory becomes initialized (an assignment through a raw pointer, a volatile
\* store, write_bytes, alloc_zeroed, the creation of a union) or uninitialized
\* (dealloc, drop): MemoryInitOp::Set, SetRef, SetSliceChunk, CreateUnion.
Write(ptr, layout, elts, value) ==
    /\ Running /\ Within(ptr, elts * Len(layout))
    /\ shadow' = RefSet(shadow, ptr, layout, elts, value)
    /\ branches' = {SetSlice(b, ptr, layout, elts, value) : b \in branches}
    /\ UNCHANGED <<entering, ub, alarm>>

\* A read through a raw pointer or of a union field: MemoryInitOp::Check,
\* CheckRef, CheckSliceChunk.  A branch ends at a check that fails.
Read(ptr, layout, elts) ==
    /\ Running /\ Within(ptr, elts * Len(layout))
    /\ ub' = ~RefInitialized(shadow, ptr, layout, elts)
    /\ alarm' = (alarm \/ \E b \in branches : ~GetSlice(b, ptr, layout, elts))
    /\ branches' = {b \in branches : GetSlice(b, ptr, layout, elts)}
    /\ UNCHANGED <<shadow, entering>>

\* An untyped copy: MemoryInitOp::Copy, and AssignUnion (one element).
Copy(c) ==
    /\ Running
    /\ shadow' = RefCopy(shadow, c.from, c.to, c.elts * c.size)
    /\ branches' = UNION {CopyState(b, c.from, c.to, c.size, c.elts) : b \in branches}
    /\ alarm' = (alarm \/ \E b \in branches : CopyOverflows(b, c.from, c.to, c.size, c.elts))
    /\ UNCHANGED <<entering, ub>>

\* A call with union arguments.  The caller stores them when the callee is
\* resolved to an item; a call through a vtable stores nothing.
Call(c) ==
    /\ Running /\ c.args # <<>>
    /\ branches' = IF c.virtual THEN branches ELSE UNION {StoreArguments(b, c.args) : b \in branches}
    /\ entering' = [args |-> c.args, next |-> 1]
    /\ UNCHANGED <<shadow, ub, alarm>>

\* The callee loads its next union parameter.
Load ==
    /\ entering # NotInCall
    /\ LET i == entering.next
           arg == entering.args[i]
           Fails(b) == LoadFails(b, arg.to, arg.size, i)
           Sizes(b) == LoadMatches(b, i) => b.buf.size = arg.size
       IN  /\ shadow' = RefCopy(shadow, arg.from, arg.to, arg.size)
           /\ branches' = UNION {LoadArgument(b, arg.to, arg.size, i)
                                   : b \in {x \in branches : Sizes(x)}}
           /\ alarm' = (alarm \/ \E b \in branches : Fails(b))
           /\ entering' = IF i = Len(entering.args) THEN NotInCall
                          ELSE [entering EXCEPT !.next = i + 1]
    /\ UNCHANGED ub

Next ==
    \/ \E ptr \in Pointers, layout \in Layouts, elts \in 0..MaxElts :
          \/ \E value \in BOOLEAN : Write(ptr, layout, elts, value)
          \/ Read(ptr, layout, elts)
    \/ \E c \in Copies : Copy(c)
    \/ \E c \in Calls : Call(c)
    \/ Load

Spec == Init /\ [][Next]_vars

-----------------------------------------------------------------------------

Branch == [obj : Objects, off : 0..(Size - 1), val : BOOLEAN,
           buf : {NoArgument} \cup [selected : Nat \ {0}, address : Pointers, size : Nat]]

\* Every variable has its type: in particular the tracked byte of every branch
\* stays a byte of an object, however often a copy moves it, and the call being
\* entered is one the program makes.
TypeOK ==
    /\ shadow \in [Bytes -> BOOLEAN]
    /\ branches \subseteq Branch
    /\ entering \in [args : Seq(UnionArg), next : Nat \ {0}]
    /\ entering # NotInCall => /\ \E c \in Calls : entering.args = c.args
                               /\ entering.next \in 1..Len(entering.args)
    /\ ub \in BOOLEAN /\ alarm \in BOOLEAN

On(b, byte) == b.obj = byte[1] /\ b.off = byte[2]
Follows(b, byte) == On(b, byte) /\ ~b.val

\* Soundness of the instrumentation: when the program reads a byte that is not
\* initialized, the check fails on some branch.  Following one byte at a time
\* misses nothing, whatever was written, copied and passed before.
NoMissedUB == ub => alarm

\* Precision: no check fails in a program that reads only initialized memory.
NoFalseAlarm == alarm => ub

\* Every byte is the tracked one of some branch.
Covered == \A byte \in Bytes : \E b \in branches : On(b, byte)

\* Every uninitialized byte is so on a branch that knows it is uninitialized.
Followed == \A byte \in Bytes : ~shadow[byte] => \E b \in branches : Follows(b, byte)

\* Every uninitialized byte of an argument still to be loaded is followed by a
\* branch that has this argument in its buffer.
ArgumentsFollowed ==
    entering # NotInCall =>
        \A i \in entering.next..Len(entering.args) :
            \A byte \in Area(entering.args[i].from, entering.args[i].size) :
                ~shadow[byte] =>
                    \E b \in branches : Follows(b, byte) /\ b.buf = ArgumentOf(entering.args, i)

\* The inductive invariant behind NoMissedUB: unless a check has failed, the
\* branches together know of every uninitialized byte, also while the bytes
\* of union arguments wait to be loaded by the callee.
EveryByteFollowed == alarm \/ (Covered /\ Followed /\ ArgumentsFollowed)
=============================================================================
