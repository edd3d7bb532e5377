------------------------------ MODULE MCMemInit ------------------------------
(* Two objects of three bytes; a one-byte type, a two-byte type with padding *)
(* and a type of size zero.                                                  *)
EXTENDS MemInit

MCObjects == {1, 2}
MCLayouts == {<<>>, <<TRUE>>, <<TRUE, FALSE>>}

\* Copies of one element that do not overlap and do not go to a lower offset.
MCCopiesPlain ==
    {c \in [from : Pointers, to : Pointers, size : {1, 2}, elts : {1}] :
        /\ Within(c.from, c.size) /\ Within(c.to, c.size)
        /\ c.from.off <= c.to.off
        /\ Area(c.from, c.size) \cap Area(c.to, c.size) = {}}

At(obj, off) == [obj |-> obj, off |-> off]

\* Copies of no element at all.
MCCopiesZero == [from : {At(1, 0)}, to : {At(2, 0)}, size : {1}, elts : {0}]

\* A callee with one or two union parameters, in the other object.
MCCallsItem ==
    {[virtual |-> FALSE, args |-> <<[from |-> At(1, 0), to |-> At(2, 0), size |-> 2]>>],
     [virtual |-> FALSE, args |-> <<[from |-> At(1, 0), to |-> At(2, 0), size |-> 1],
                                    [from |-> At(1, 1), to |-> At(2, 1), size |-> 2]>>]}

MCNone == {}
=============================================================================
