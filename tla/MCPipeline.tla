----------------------------- MODULE MCPipeline -----------------------------
(* Model-checking instance of Pipeline: p1 drops to p2, which depends on p1. *)
EXTENDS Pipeline, TLC

CONSTANTS s1, s2, p1, p2, m1, m2, m3

\* Shutdown does not wait for s2, which reads one message only.
MessagesOf == (s1 :> {m2, m3}) @@ (s2 :> {m1})

\* Only the first producer listens to the consumers.
First == <<p1>>

\* p1 drops to p2, and nobody listens to what p2 drops.
DropChain == (p1 :> <<p2>>) @@ (p2 :> <<>>)
OrderedStop == (p1 :> {}) @@ (p2 :> {p1})

\* p2 filters m1.
FilterOne == (p1 :> Messages) @@ (p2 :> Messages \ {m1})

\* p1 can have a message for the flush worker and one that is left; p2 is soon full.
Rooms == (p1 :> 2) @@ (p2 :> 1)

\* The messages come from streams with different timeouts: when p1 has no room m1 is
\* discarded, m2 is dropped after a while, and m3 blocks its sender.  p2 always blocks.
EveryTimeout == (p1 :> (m1 :> -1 @@ m2 :> 1 @@ m3 :> 0)) @@ (p2 :> [m \in Messages |-> 0])

\* As by default, nobody waits for ever for a handler or for a dependency.
BothGiveUp == (p1 :> 1) @@ (p2 :> 1)
=============================================================================
