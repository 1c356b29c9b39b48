------------------------------- MODULE MCJit --------------------------------
(* Call graphs small enough for TLC.                                       *)
EXTENDS Jit

\* Only an entry calls the host, h has no native code, and a and b call each
\* other; the cache holds two small functions or a large one.
TreeFuncs == {"main", "f", "h", "a", "b"}
TreeCode == [main |-> <<"h", "br", "async", "f">>, f |-> <<"guard", "op">>,
             h |-> <<"f", "op">>,
             a |-> <<"br", "b", "op">>, b |-> <<"a">>]
TreeSize == [main |-> 1, f |-> 1, h |-> 1, a |-> 1, b |-> 2]

\* A function that calls itself.
LoopCode == [r |-> <<"br", "guard", "r", "op">>]
LoopSize == [r |-> 1]

\* A function without native code that calls the host, called by one with.
WaitCode == [m |-> <<"w", "op">>, w |-> <<"async", "op">>]
WaitSize == [m |-> 1, w |-> 1]
=============================================================================
