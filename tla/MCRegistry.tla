----------------------------- MODULE MCRegistry -----------------------------
(* Model-checking instance of Registry. *)
EXTENDS Registry, TLC

CONSTANTS a, b

\* Producers listening to "*", to one stream, to a stream and "*", to dropped
\* messages, to nothing but internal streams, and to nothing at all.
SomeListens == {{Wildcard}, {a}, {b}, {Wildcard, a}, {Dropped, a}, {Dropped, LogInternal}, {}}
SomeDrops   == {a, b, Dropped}
SomeWrites  == {{a}, {b, Wildcard}}

Symmetry == Permutations(Producers)
=============================================================================
