--------------------------- MODULE MCGotoInstrument ---------------------------
(* Two harnesses: one with a function contract, one with loop contracts.     *)
EXTENDS GotoInstrument

CONSTANTS contract, loops

MCHarnesses == {contract, loops}

MCSetting(windows, jobs, withContract, withLoops) ==
    [windows |-> windows, jobs |-> jobs, contract |-> withContract, loops |-> withLoops]

\* Two at a time on Unix, one at a time on Windows, and two at a time on Windows
\* when only one of them has contracts.
MCSettings == {MCSetting(FALSE, 2, {contract}, {loops}),
               MCSetting(TRUE, 1, {contract}, MCHarnesses),
               MCSetting(TRUE, 2, {}, {loops})}

\* Two at a time on Windows, both with contracts.
MCShared == {MCSetting(TRUE, 2, {contract}, {loops})}
=============================================================================
