--------------------------- MODULE MCMultiplexer ---------------------------
(* Model-checking instance of Multiplexer: two serial callers, one stream. *)
EXTENDS Multiplexer

CONSTANTS c1, c2, s1

MCSerialCallers == {c1, c2}
MCStreamCallers == {s1}
MCOneSerialCaller == {c1}
MCSymmetry == Permutations(MCSerialCallers)
=============================================================================
