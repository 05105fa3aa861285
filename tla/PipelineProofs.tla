--------------------------- MODULE PipelineProofs ---------------------------
(***************************************************************************)
(* Proofs about Pipeline, for any number of consumer goroutines, producers *)
(* and messages, any channel capacity and any network of drop streams.     *)
(***************************************************************************)
EXTENDS Pipeline, FiniteSetTheorems, SequenceTheorems, TLAPS

-----------------------------------------------------------------------------
(* Definitions *)

\* The types of Pipeline by component.  That open[m] is never negative follows from CountInv.
StateTypes ==
  /\ state \in [Producers -> Initializing .. Dead]
  /\ closed \in [Producers -> BOOLEAN] /\ stop \in [Producers -> BOOLEAN]
  /\ control \in [Producers -> {"none", "start", "command", "waitFor", "close", "drain",
                                "flushWorker", "dropRest", "dead", "done"}]
  /\ waitFor \in [Producers -> SUBSET Producers]
ChannelTypes ==
  channel \in [Producers -> Seq(Messages)] /\ \A p \in Producers : Len(channel[p]) <= Capacity[p]
LoopTypes ==
  /\ loop \in [Producers -> {"start", "isActive", "receive", "onMessage", "done"}]
  /\ hand \in [Producers -> Messages \cup {NoMessage}]
  /\ \A p \in Producers : hand[p] # NoMessage <=> loop[p] = "onMessage"
FlushTypes == flush \in [Producers -> Messages \cup {NoMessage}]
WorkTypes  == work \in [Threads -> Seq(Calls)]
MainTypes ==
  /\ source \in [Sources -> {"active", "stopping", "done"}]
  /\ main \in {"run", "stopConsumers", "stopProducers", "waitForProducers", "stopped"}
  /\ crashed \subseteq Threads /\ fresh \subseteq Messages
CountTypes == count \in [Counters -> 0 .. CountRange - 1] /\ open \in [Messages -> Int]
PipelineTypes ==
  StateTypes /\ ChannelTypes /\ LoopTypes /\ FlushTypes /\ WorkTypes /\ MainTypes /\ CountTypes

\* The positions of sequence s with an element of M, and those of all sequences f[t].
Places(s, M)    == {i \in DOMAIN s : s[i] \in M}
Marked(f, T, M) == {x \in UNION {{t} \X DOMAIN f[t] : t \in T} : f[x[1]][x[2]] \in M}

\* The calls of Enqueue for m that have not ended, by the place they are in.
PendingCalls(m) == {c \in Calls : Pending(m, c)}
InCalls(m)      == Marked(work, Threads, PendingCalls(m))
InChannels(m)   == Marked(channel, Producers, {m})
Having(f, m)    == {p \in Producers : f[p] = m}
InHands(m)      == Having(hand, m)
InFlush(m)      == Having(flush, m)
Balanced(m) ==
  /\ IsFiniteSet(InCalls(m)) /\ IsFiniteSet(InChannels(m))
  /\ IsFiniteSet(InHands(m)) /\ IsFiniteSet(InFlush(m))
  /\ open[m] = Cardinality(InCalls(m)) + Cardinality(InChannels(m))
               + Cardinality(InHands(m)) + Cardinality(InFlush(m))
CountInv == \A m \in Messages : Balanced(m)

\* A flush worker is started when the one before it is done.
FlushInv ==
  \A p \in Producers : flush[p] # NoMessage => control[p] \in {"flushWorker", "dropRest", "dead", "done"}

-----------------------------------------------------------------------------
(* The order of the shutdown *)

BeforeStop == {"none", "start", "command"}

\* What the place of the control loop says about the producer.
ControlInv ==
  \A p \in Producers :
    /\ loop[p] = "start" <=> control[p] = "none"
    /\ state[p] >= Stopping => control[p] \in Gone
    /\ state[p] = Dead => control[p] = "done"
    /\ closed[p] <=> p \in Closing /\ control[p] \in Gone \ {"close"}
    /\ p \notin Closing => control[p] \in BeforeStop \cup {"waitFor", "dead", "done"}
    /\ p \in Closing /\ control[p] \in {"dead", "done"} => channel[p] = <<>>
    /\ work[p] # <<>> => control[p] = "dropRest"

\* The producers are stopped when the consumers that are counted are done.
MainInv ==
  /\ main \in {"run", "stopConsumers", "stopProducers"} =>
       \A p \in Producers : ~stop[p] /\ control[p] \in BeforeStop
  /\ main \notin {"run", "stopConsumers"} => \A s \in Sources \cap Counted : source[s] = "done"
  /\ \A s \in Sources : source[s] = "done" => work[s] = <<>>

\* Who waits without a timeout waits for all dependencies that are not dead.
WaitInv ==
  \A q \in Producers : \A p \in DependsOn[q] :
    ShutdownTimeout[q] = 0 =>
      \/ control[q] \in BeforeStop
      \/ control[q] = "waitFor" /\ p \in waitFor[q]
      \/ control[p] = "done"

\* Listens(p): who listens on the drop stream of p.  A producer that drops calls nobody but
\* these, and who listens on their drop streams, and so on.
Listens(p) == {DropListeners[p][i] : i \in DOMAIN DropListeners[p]}
DropClosed(X) == \A q \in X : Listens(q) \subseteq X
ReachInv ==
  \A p \in Producers : \A X \in SUBSET Producers :
    Listens(p) \subseteq X /\ DropClosed(X) => \A i \in DOMAIN work[p] : work[p][i].prod \in X

OrderInv == ControlInv /\ MainInv /\ WaitInv /\ ReachInv
PipelineInv == PipelineTypes /\ CountInv /\ FlushInv /\ OrderInv

-----------------------------------------------------------------------------
(* Counting marked places of sequences *)

\* The places of M in a sequence can be counted.
LEMMA PlacesFinite ==
  ASSUME NEW S, NEW s \in Seq(S), NEW M
  PROVE  IsFiniteSet(Places(s, M)) /\ Cardinality(Places(s, M)) \in Nat /\ Places(s, M) \subseteq 1 .. Len(s)
<1>1. Places(s, M) \subseteq 1 .. Len(s) /\ Len(s) \in Int
  BY LenProperties DEF Places
<1>2. IsFiniteSet(1 .. Len(s))
  BY <1>1, FS_Interval
<1> QED
  BY <1>1, <1>2, FS_Subset, FS_CardinalityType

\* Places add up when sequences are joined.
LEMMA PlacesOfConcat ==
  ASSUME NEW S, NEW s1 \in Seq(S), NEW s2 \in Seq(S), NEW M
  PROVE  Cardinality(Places(s1 \o s2, M)) = Cardinality(Places(s1, M)) + Cardinality(Places(s2, M))
<1> DEFINE Shifted == {i \in Len(s1) + 1 .. Len(s1) + Len(s2) : (s1 \o s2)[i] \in M}
           f == [i \in Places(s2, M) |-> Len(s1) + i]
<1>1. /\ Len(s1) \in Nat /\ Len(s2) \in Nat /\ DOMAIN s1 = 1 .. Len(s1) /\ DOMAIN s2 = 1 .. Len(s2)
      /\ DOMAIN (s1 \o s2) = 1 .. Len(s1) + Len(s2)
      /\ \A i \in 1 .. Len(s1) + Len(s2) : (s1 \o s2)[i] = IF i <= Len(s1) THEN s1[i] ELSE s2[i - Len(s1)]
  BY ConcatProperties, LenProperties
<1>2. Places(s1 \o s2, M) = Places(s1, M) \cup Shifted
  BY <1>1 DEF Places
<1>3. Places(s1, M) \cap Shifted = {}
  BY <1>1 DEF Places
<1>4. f \in Bijection(Places(s2, M), Shifted)
  <2>1. \A i \in Places(s2, M) : Len(s1) + i \in Shifted /\ i \in Nat
    BY <1>1 DEF Places
  <2>2. f \in [Places(s2, M) -> Shifted]
    BY <2>1
  <2>3. \A i, j \in Places(s2, M) : f[i] = f[j] => i = j
    BY <1>1, <2>1
  <2>4. \A k \in Shifted : k - Len(s1) \in Places(s2, M) /\ f[k - Len(s1)] = k
    BY <1>1 DEF Places
  <2>5. f \in Injection(Places(s2, M), Shifted)
    BY <2>2, <2>3 DEF Injection, IsInjective
  <2>6. f \in Surjection(Places(s2, M), Shifted)
    BY <2>2, <2>4 DEF Surjection
  <2> QED
    BY <2>5, <2>6 DEF Bijection
<1>5. IsFiniteSet(Shifted) /\ Cardinality(Shifted) = Cardinality(Places(s2, M))
  <2> HIDE DEF Shifted, f
  <2>1. ExistsBijection(Places(s2, M), Shifted)
    BY <1>4 DEF ExistsBijection
  <2>2. IsFiniteSet(Places(s2, M))
    BY PlacesFinite
  <2> QED
    BY <2>1, <2>2, FS_Bijection
<1>6. IsFiniteSet(Places(s1, M)) /\ Cardinality(Places(s1, M)) \in Nat /\ Cardinality(Shifted) \in Nat
  BY <1>5, PlacesFinite, FS_CardinalityType
<1>7. Cardinality(Places(s1, M) \cup Shifted) = Cardinality(Places(s1, M)) + Cardinality(Shifted)
  <2>1. Cardinality(Places(s1, M) \cup Shifted)
          = Cardinality(Places(s1, M)) + Cardinality(Shifted) - Cardinality(Places(s1, M) \cap Shifted)
    BY <1>5, <1>6, FS_Union
  <2>2. Cardinality(Places(s1, M) \cap Shifted) = 0
    BY <1>3, FS_EmptySet
  <2> HIDE DEF Shifted
  <2> QED
    BY <1>6, <2>1, <2>2
<1> QED
  BY <1>2, <1>5, <1>7

\* One entry is in one place or none.
LEMMA PlacesOfSingleton ==
  ASSUME NEW e, NEW M
  PROVE  Cardinality(Places(<<e>>, M)) = IF e \in M THEN 1 ELSE 0
<1>1. Places(<<e>>, M) = IF e \in M THEN {1} ELSE {}
  BY DEF Places
<1> QED
  BY <1>1, FS_EmptySet, FS_Singleton

\* Nothing is in an empty sequence.
LEMMA PlacesOfEmpty == ASSUME NEW M PROVE Cardinality(Places(<<>>, M)) = 0
<1>1. Places(<<>>, M) = {}
  BY DEF Places
<1> QED
  BY <1>1, FS_EmptySet

\* What is left without the first element.
LEMMA PlacesOfTail ==
  ASSUME NEW S, NEW s \in Seq(S), s # <<>>, NEW M
  PROVE  Cardinality(Places(Tail(s), M)) = Cardinality(Places(s, M)) - IF Head(s) \in M THEN 1 ELSE 0
<1>1. Head(s) \in S /\ Tail(s) \in Seq(S) /\ s = <<Head(s)>> \o Tail(s) /\ <<Head(s)>> \in Seq(S)
  BY HeadTailProperties
<1>2. Cardinality(Places(<<Head(s)>> \o Tail(s), M))
        = Cardinality(Places(<<Head(s)>>, M)) + Cardinality(Places(Tail(s), M))
  BY <1>1, PlacesOfConcat
<1>3. Cardinality(Places(<<Head(s)>>, M)) = IF Head(s) \in M THEN 1 ELSE 0
  BY PlacesOfSingleton
<1>4. Cardinality(Places(Tail(s), M)) \in Nat
  BY <1>1, PlacesFinite
<1>5. Cardinality(Places(s, M)) = Cardinality(Places(<<Head(s)>>, M)) + Cardinality(Places(Tail(s), M))
  BY <1>1, <1>2
<1>6. CASE Head(s) \in M
  BY <1>3, <1>4, <1>5, <1>6
<1>7. CASE Head(s) \notin M
  BY <1>3, <1>4, <1>5, <1>7
<1> QED
  BY <1>6, <1>7

\* Replacing one of the sequences of f.
LEMMA ReplaceMarked ==
  ASSUME NEW T, NEW S, NEW M, NEW f \in [T -> Seq(S)], NEW t \in T, NEW s \in Seq(S), NEW g,
         g[t] = s, \A u \in T \ {t} : g[u] = f[u], IsFiniteSet(Marked(f, T, M))
  PROVE  /\ IsFiniteSet(Marked(g, T, M))
         /\ Cardinality(Marked(g, T, M))
              = Cardinality(Marked(f, T, M)) - Cardinality(Places(f[t], M)) + Cardinality(Places(s, M))
<1> DEFINE Rest == {x \in Marked(f, T, M) : x[1] # t}
           Old  == {t} \X Places(f[t], M)
           New  == {t} \X Places(s, M)
<1>1. Marked(f, T, M) = Rest \cup Old /\ Rest \cap Old = {}
  <2>1. \A x \in Marked(f, T, M) : x \in Rest \/ x \in Old
    BY DEF Marked, Places
  <2>2. Old \subseteq Marked(f, T, M)
    BY DEF Marked, Places
  <2> QED
    BY <2>1, <2>2
<1>2. Marked(g, T, M) = Rest \cup New /\ Rest \cap New = {}
  <2>1. \A x \in Marked(g, T, M) : x \in Rest \/ x \in New
    BY DEF Marked, Places
  <2>2. New \subseteq Marked(g, T, M)
    BY DEF Marked, Places
  <2>3. Rest \subseteq Marked(g, T, M)
    BY DEF Marked
  <2> QED
    BY <2>1, <2>2, <2>3
<1>3. IsFiniteSet(Rest)
  BY FS_Subset
<1>4. ASSUME NEW r \in Seq(S)
      PROVE  /\ IsFiniteSet({t} \X Places(r, M)) /\ Cardinality(Places(r, M)) \in Nat
             /\ Cardinality({t} \X Places(r, M)) = Cardinality(Places(r, M))
  <2>1. IsFiniteSet(Places(r, M)) /\ Cardinality(Places(r, M)) \in Nat
    BY PlacesFinite
  <2>2. IsFiniteSet({t}) /\ Cardinality({t}) = 1
    BY FS_Singleton
  <2>3. /\ IsFiniteSet({t} \X Places(r, M))
        /\ Cardinality({t} \X Places(r, M)) = Cardinality({t}) * Cardinality(Places(r, M))
    BY <2>1, <2>2, FS_Product
  <2> QED
    BY <2>1, <2>2, <2>3
<1>5. ASSUME NEW R, IsFiniteSet(R), Rest \cap R = {}
      PROVE  IsFiniteSet(Rest \cup R) /\ Cardinality(Rest \cup R) = Cardinality(Rest) + Cardinality(R)
  <2>1. /\ IsFiniteSet(Rest \cup R)
        /\ Cardinality(Rest \cup R) = Cardinality(Rest) + Cardinality(R) - Cardinality(Rest \cap R)
    BY <1>3, <1>5, FS_Union
  <2>2. Cardinality(Rest) \in Nat /\ Cardinality(R) \in Nat
    BY <1>3, <1>5, FS_CardinalityType
  <2>3. Cardinality(Rest \cap R) = 0
    BY <1>5, FS_EmptySet
  <2> HIDE DEF Rest
  <2> QED
    BY <2>1, <2>2, <2>3
<1>6. f[t] \in Seq(S) /\ Cardinality(Rest) \in Nat
  BY <1>3, FS_CardinalityType
<1>7. IsFiniteSet(Old) /\ Cardinality(Old) = Cardinality(Places(f[t], M)) /\ Cardinality(Places(f[t], M)) \in Nat
  BY <1>4, <1>6
<1>8. IsFiniteSet(New) /\ Cardinality(New) = Cardinality(Places(s, M)) /\ Cardinality(Places(s, M)) \in Nat
  BY <1>4
<1> HIDE DEF Rest, Old, New
<1>9. Cardinality(Marked(f, T, M)) = Cardinality(Rest) + Cardinality(Old)
  BY <1>1, <1>5, <1>7
<1>10. IsFiniteSet(Marked(g, T, M)) /\ Cardinality(Marked(g, T, M)) = Cardinality(Rest) + Cardinality(New)
  BY <1>2, <1>5, <1>8
<1> QED
  BY <1>6, <1>7, <1>8, <1>9, <1>10

-----------------------------------------------------------------------------
(* Counting calls *)

Pends(c, m) == IF Pending(m, c) THEN 1 ELSE 0
CallsIn(s, m) == Cardinality(Places(s, PendingCalls(m)))

\* A goroutine goes on with the calls in s.
LEMMA CallsReplaced ==
  ASSUME WorkTypes, NEW t \in Threads, NEW s \in Seq(Calls), work' = [work EXCEPT ![t] = s],
         NEW m, IsFiniteSet(InCalls(m))
  PROVE  /\ IsFiniteSet(InCalls(m)')
         /\ Cardinality(InCalls(m)') = Cardinality(InCalls(m)) - CallsIn(work[t], m) + CallsIn(s, m)
<1>1. work \in [Threads -> Seq(Calls)]
  BY DEF WorkTypes
<1>2. IsFiniteSet(Marked(work, Threads, PendingCalls(m)))
  BY DEF InCalls
<1>3. /\ IsFiniteSet(Marked(work', Threads, PendingCalls(m)))
      /\ Cardinality(Marked(work', Threads, PendingCalls(m)))
           = Cardinality(Marked(work, Threads, PendingCalls(m)))
             - Cardinality(Places(work[t], PendingCalls(m))) + Cardinality(Places(s, PendingCalls(m)))
  <2>1. work'[t] = s /\ \A u \in Threads \ {t} : work'[u] = work[u]
    BY <1>1
  <2>2. \A f \in [Threads -> Seq(Calls)] : \A M, g :
          /\ g[t] = s /\ \A u \in Threads \ {t} : g[u] = f[u]
          /\ IsFiniteSet(Marked(f, Threads, M))
          => /\ IsFiniteSet(Marked(g, Threads, M))
             /\ Cardinality(Marked(g, Threads, M))
                  = Cardinality(Marked(f, Threads, M)) - Cardinality(Places(f[t], M)) + Cardinality(Places(s, M))
    BY ReplaceMarked
  <2> QED
    BY <1>1, <1>2, <2>1, <2>2, Zenon
<1>4. InCalls(m)' = Marked(work', Threads, PendingCalls(m))
  BY DEF InCalls, Marked, PendingCalls, Pending
<1> QED
  BY <1>3, <1>4 DEF InCalls, CallsIn

\* It finishes its innermost call and makes the calls in next instead.
LEMMA CallsNext ==
  ASSUME NEW s \in Seq(Calls), s # <<>>, NEW next \in Seq(Calls), NEW m
  PROVE  /\ next \o Tail(s) \in Seq(Calls) /\ Head(s) \in Calls
         /\ CallsIn(next \o Tail(s), m) = CallsIn(s, m) - Pends(Head(s), m) + CallsIn(next, m)
         /\ CallsIn(s, m) \in Nat /\ CallsIn(next, m) \in Nat
<1>1. Head(s) \in Calls /\ Tail(s) \in Seq(Calls)
  BY HeadTailProperties
<1>2. CallsIn(next \o Tail(s), m) = CallsIn(next, m) + CallsIn(Tail(s), m)
  BY <1>1, PlacesOfConcat DEF CallsIn
<1>3. CallsIn(Tail(s), m) = CallsIn(s, m) - IF Head(s) \in PendingCalls(m) THEN 1 ELSE 0
  BY PlacesOfTail DEF CallsIn
<1>4. Head(s) \in PendingCalls(m) <=> Pending(m, Head(s))
  BY <1>1 DEF PendingCalls
<1>5. CallsIn(s, m) \in Nat /\ CallsIn(next, m) \in Nat
  BY PlacesFinite DEF CallsIn
<1>6. CASE Pending(m, Head(s))
  BY <1>2, <1>3, <1>4, <1>5, <1>6, <1>1, ConcatProperties DEF Pends
<1>7. CASE ~Pending(m, Head(s))
  BY <1>2, <1>3, <1>4, <1>5, <1>7, <1>1, ConcatProperties DEF Pends
<1> QED
  BY <1>6, <1>7

\* A broadcast is one call for each listener.
LEMMA BroadcastCalls ==
  ASSUME NEW ps \in Seq(Producers), NEW n \in Messages
  PROVE  /\ Broadcast(ps, n) \in Seq(Calls) /\ Len(Broadcast(ps, n)) = Len(ps)
         /\ \A i \in 1 .. Len(ps) : Broadcast(ps, n)[i].prod = ps[i]
         /\ \A m : CallsIn(Broadcast(ps, n), m) = IF m = n THEN Len(ps) ELSE 0
<1>1. Len(ps) \in Nat /\ DOMAIN ps = 1 .. Len(ps) /\ \A i \in 1 .. Len(ps) : ps[i] \in Producers
  BY LenProperties, ElementOfSeq
<1> DEFINE call(i) == [op |-> "enqueue", prod |-> ps[i], msg |-> n]
<1>2. Broadcast(ps, n) = [i \in 1 .. Len(ps) |-> call(i)]
  BY <1>1 DEF Broadcast
<1>3. \A i \in 1 .. Len(ps) : call(i) \in Calls
  BY <1>1 DEF Calls
<1>4. Broadcast(ps, n) \in Seq(Calls) /\ Len(Broadcast(ps, n)) = Len(ps)
  <2> HIDE DEF call
  <2> QED
    BY <1>1, <1>2, <1>3
<1>5. ASSUME NEW m PROVE CallsIn(Broadcast(ps, n), m) = IF m = n THEN Len(ps) ELSE 0
  <2>1. \A i \in 1 .. Len(ps) : call(i) \in PendingCalls(m) <=> m = n
    BY <1>3 DEF PendingCalls, Pending
  <2>2. Places(Broadcast(ps, n), PendingCalls(m)) = IF m = n THEN 1 .. Len(ps) ELSE {}
    <3> HIDE DEF call
    <3> QED
      BY <1>1, <1>2, <2>1 DEF Places
  <2>3. Cardinality(1 .. Len(ps)) = Len(ps)
    <3>1. \A b \in Int : Cardinality(1 .. b) = IF 1 > b THEN 0 ELSE b - 1 + 1
      BY FS_Interval
    <3> QED
      BY <1>1, <3>1
  <2> QED
    BY <2>2, <2>3, FS_EmptySet DEF CallsIn
<1> QED
  BY <1>1, <1>2, <1>4, <1>5

\* One call counts as often as it is of the message.
LEMMA OneCall ==
  ASSUME NEW c \in Calls
  PROVE  <<c>> \in Seq(Calls) /\ \A m : CallsIn(<<c>>, m) = Pends(c, m)
<1>1. ASSUME NEW m PROVE CallsIn(<<c>>, m) = Pends(c, m)
  <2>1. Cardinality(Places(<<c>>, PendingCalls(m))) = IF c \in PendingCalls(m) THEN 1 ELSE 0
    BY PlacesOfSingleton
  <2> QED
    BY <2>1 DEF CallsIn, Pends, PendingCalls
<1> QED
  BY <1>1

\* No calls count for no message.
LEMMA NoCalls == <<>> \in Seq(Calls) /\ \A m : CallsIn(<<>>, m) = 0
<1>1. ASSUME NEW m PROVE CallsIn(<<>>, m) = 0
  BY PlacesOfEmpty DEF CallsIn
<1> QED
  BY <1>1

\* The calls a dropped message leads to, followed by those in rest.
LEMMA DropCalls ==
  ASSUME NEW ps \in Seq(Producers), NEW n \in Messages, NEW rest \in Seq(Calls)
  PROVE  /\ Broadcast(ps, n) \o rest \in Seq(Calls)
         /\ \A m : CallsIn(Broadcast(ps, n) \o rest, m) = (IF m = n THEN Len(ps) ELSE 0) + CallsIn(rest, m)
<1>1. Broadcast(ps, n) \in Seq(Calls) /\ \A m : CallsIn(Broadcast(ps, n), m) = IF m = n THEN Len(ps) ELSE 0
  BY BroadcastCalls
<1>2. ASSUME NEW m
      PROVE  CallsIn(Broadcast(ps, n) \o rest, m) = CallsIn(Broadcast(ps, n), m) + CallsIn(rest, m)
  BY <1>1, PlacesOfConcat DEF CallsIn
<1>3. Broadcast(ps, n) \o rest \in Seq(Calls)
  BY <1>1, ConcatProperties
<1>4. ASSUME NEW m
      PROVE  CallsIn(Broadcast(ps, n) \o rest, m) = (IF m = n THEN Len(ps) ELSE 0) + CallsIn(rest, m)
  BY <1>1, <1>2
<1> QED
  BY <1>3, <1>4

-----------------------------------------------------------------------------
(* Counting messages in channels and with the goroutines of a producer *)

\* A channel gets another content.
LEMMA ChannelReplaced ==
  ASSUME ChannelTypes, NEW p \in Producers, NEW s \in Seq(Messages), channel' = [channel EXCEPT ![p] = s],
         NEW m, IsFiniteSet(InChannels(m))
  PROVE  /\ IsFiniteSet(InChannels(m)')
         /\ Cardinality(InChannels(m)')
              = Cardinality(InChannels(m)) - Cardinality(Places(channel[p], {m})) + Cardinality(Places(s, {m}))
<1>1. channel \in [Producers -> Seq(Messages)]
  BY DEF ChannelTypes
<1>2. IsFiniteSet(Marked(channel, Producers, {m}))
  BY DEF InChannels
<1>3. channel'[p] = s /\ \A q \in Producers \ {p} : channel'[q] = channel[q]
  BY <1>1
<1>4. \A f \in [Producers -> Seq(Messages)] : \A M, g :
        /\ g[p] = s /\ \A q \in Producers \ {p} : g[q] = f[q]
        /\ IsFiniteSet(Marked(f, Producers, M))
        => /\ IsFiniteSet(Marked(g, Producers, M))
           /\ Cardinality(Marked(g, Producers, M))
                = Cardinality(Marked(f, Producers, M)) - Cardinality(Places(f[p], M)) + Cardinality(Places(s, M))
  BY ReplaceMarked
<1>5. /\ IsFiniteSet(Marked(channel', Producers, {m}))
      /\ Cardinality(Marked(channel', Producers, {m}))
           = Cardinality(Marked(channel, Producers, {m}))
             - Cardinality(Places(channel[p], {m})) + Cardinality(Places(s, {m}))
  BY <1>1, <1>2, <1>3, <1>4, Zenon
<1>6. InChannels(m)' = Marked(channel', Producers, {m})
  BY DEF InChannels, Marked
<1> QED
  BY <1>5, <1>6 DEF InChannels

Is(x, m) == IF x = m THEN 1 ELSE 0

\* A message is sent to a channel of producer p ...
LEMMA ChannelTakes ==
  ASSUME ChannelTypes, NEW p \in Producers, NEW x \in Messages,
         channel' = [channel EXCEPT ![p] = Append(@, x)],
         NEW m, IsFiniteSet(InChannels(m))
  PROVE  IsFiniteSet(InChannels(m)') /\ Cardinality(InChannels(m)') = Cardinality(InChannels(m)) + Is(x, m)
<1>1. channel[p] \in Seq(Messages) /\ <<x>> \in Seq(Messages)
  BY DEF ChannelTypes
<1>2. Append(channel[p], x) \in Seq(Messages) /\ Append(channel[p], x) = channel[p] \o <<x>>
  BY <1>1, AppendProperties, AppendIsConcat
<1>3. Cardinality(Places(channel[p] \o <<x>>, {m}))
        = Cardinality(Places(channel[p], {m})) + Cardinality(Places(<<x>>, {m}))
  <2>1. \A s1, s2 \in Seq(Messages) : \A M :
          Cardinality(Places(s1 \o s2, M)) = Cardinality(Places(s1, M)) + Cardinality(Places(s2, M))
    BY PlacesOfConcat
  <2> QED
    BY <1>1, <2>1, Zenon
<1>4. Cardinality(Places(<<x>>, {m})) = Is(x, m)
  BY PlacesOfSingleton DEF Is
<1>5. /\ IsFiniteSet(InChannels(m)')
      /\ Cardinality(InChannels(m)') = Cardinality(InChannels(m)) - Cardinality(Places(channel[p], {m}))
                                       + Cardinality(Places(Append(channel[p], x), {m}))
  BY <1>2, ChannelReplaced
<1>6. Cardinality(Places(channel[p], {m})) \in Nat /\ Cardinality(InChannels(m)) \in Nat /\ Is(x, m) \in Nat
  BY <1>1, PlacesFinite, FS_CardinalityType DEF Is
<1> QED
  BY <1>2, <1>3, <1>4, <1>5, <1>6

\* ... and received from it.
LEMMA ChannelGives ==
  ASSUME ChannelTypes, NEW p \in Producers, channel[p] # <<>>,
         channel' = [channel EXCEPT ![p] = Tail(@)],
         NEW m, IsFiniteSet(InChannels(m))
  PROVE  /\ IsFiniteSet(InChannels(m)') /\ Head(channel[p]) \in Messages
         /\ Cardinality(InChannels(m)') = Cardinality(InChannels(m)) - Is(Head(channel[p]), m)
<1>1. channel[p] \in Seq(Messages)
  BY DEF ChannelTypes
<1>2. Head(channel[p]) \in Messages /\ Tail(channel[p]) \in Seq(Messages)
  BY <1>1, HeadTailProperties
<1>3. Cardinality(Places(Tail(channel[p]), {m}))
        = Cardinality(Places(channel[p], {m})) - IF Head(channel[p]) \in {m} THEN 1 ELSE 0
  BY <1>1, PlacesOfTail
<1>4. (IF Head(channel[p]) \in {m} THEN 1 ELSE 0) = Is(Head(channel[p]), m)
  BY DEF Is
<1>5. /\ IsFiniteSet(InChannels(m)')
      /\ Cardinality(InChannels(m)') = Cardinality(InChannels(m)) - Cardinality(Places(channel[p], {m}))
                                       + Cardinality(Places(Tail(channel[p]), {m}))
  BY <1>2, ChannelReplaced
<1>6. /\ Cardinality(Places(channel[p], {m})) \in Nat /\ Cardinality(InChannels(m)) \in Nat
      /\ Is(Head(channel[p]), m) \in Nat
  BY <1>1, PlacesFinite, FS_CardinalityType DEF Is
<1> QED
  BY <1>2, <1>3, <1>4, <1>5, <1>6

\* A goroutine of producer p gets another message, or none.
LEMMA HolderReplaced ==
  ASSUME NEW f, NEW g, NEW p \in Producers, \A q \in Producers \ {p} : g[q] = f[q],
         NEW m, IsFiniteSet(Having(f, m))
  PROVE  /\ IsFiniteSet(Having(g, m))
         /\ Cardinality(Having(g, m)) = Cardinality(Having(f, m)) - Is(f[p], m) + Is(g[p], m)
<1> DEFINE F == Having(f, m)
           G == Having(g, m)
<1> USE DEF Having
<1>0. Cardinality(F) \in Nat
  BY FS_CardinalityType DEF Is
<1>1. CASE f[p] = m /\ g[p] = m
  <2>1. G = F
    BY <1>1
  <2>2. Is(f[p], m) = 1 /\ Is(g[p], m) = 1
    BY <1>1 DEF Is
  <2> HIDE DEF F, G, Having
  <2> QED
    BY <1>0, <2>1, <2>2 DEF F, G
<1>2. CASE f[p] # m /\ g[p] # m
  <2>1. G = F
    BY <1>2
  <2>2. Is(f[p], m) = 0 /\ Is(g[p], m) = 0
    BY <1>2 DEF Is
  <2> HIDE DEF F, G, Having
  <2> QED
    BY <1>0, <2>1, <2>2 DEF F, G
<1>3. CASE f[p] # m /\ g[p] = m
  <2>1. G = F \cup {p} /\ p \notin F
    BY <1>3
  <2>2. IsFiniteSet(G) /\ Cardinality(G) = Cardinality(F) + 1 /\ Cardinality(F) \in Nat
    <3> HIDE DEF F, G
    <3>1. IsFiniteSet(F)
      BY DEF F
    <3> QED
      BY <2>1, <3>1, FS_AddElement, FS_CardinalityType
  <2> QED
    BY <1>3, <2>2 DEF Is
<1>4. CASE f[p] = m /\ g[p] # m
  <2>1. G = F \ {p} /\ p \in F
    BY <1>4
  <2>2. IsFiniteSet(G) /\ Cardinality(G) = Cardinality(F) - 1 /\ Cardinality(F) \in Nat
    <3> HIDE DEF F, G
    <3>1. IsFiniteSet(F)
      BY DEF F
    <3> QED
      BY <2>1, <3>1, FS_RemoveElement, FS_CardinalityType
  <2> QED
    BY <1>4, <2>2 DEF Is
<1> QED
  BY <1>1, <1>2, <1>3, <1>4 DEF Is

\* What a message loop takes up and puts down changes the number of hands that have a message.
LEMMA HandReplaced ==
  ASSUME LoopTypes, NEW p \in Producers, NEW x, hand' = [hand EXCEPT ![p] = x],
         NEW m, IsFiniteSet(InHands(m))
  PROVE  /\ IsFiniteSet(InHands(m)')
         /\ Cardinality(InHands(m)') = Cardinality(InHands(m)) - Is(hand[p], m) + Is(x, m)
<1>1. hand'[p] = x /\ \A q \in Producers \ {p} : hand'[q] = hand[q]
  BY DEF LoopTypes
<1>2. /\ IsFiniteSet(Having(hand', m))
      /\ Cardinality(Having(hand', m)) = Cardinality(Having(hand, m)) - Is(hand[p], m) + Is(hand'[p], m)
  <2>1. \A f, g : (\A q \in Producers \ {p} : g[q] = f[q]) /\ IsFiniteSet(Having(f, m))
          => /\ IsFiniteSet(Having(g, m))
             /\ Cardinality(Having(g, m)) = Cardinality(Having(f, m)) - Is(f[p], m) + Is(g[p], m)
    BY HolderReplaced
  <2>2. IsFiniteSet(Having(hand, m))
    BY DEF InHands
  <2> QED
    BY <1>1, <2>1, <2>2, Zenon
<1>3. InHands(m)' = Having(hand', m)
  BY DEF InHands, Having
<1> QED
  BY <1>1, <1>2, <1>3 DEF InHands

\* The same of the flush workers.
LEMMA FlushReplaced ==
  ASSUME FlushTypes, NEW p \in Producers, NEW x, flush' = [flush EXCEPT ![p] = x],
         NEW m, IsFiniteSet(InFlush(m))
  PROVE  /\ IsFiniteSet(InFlush(m)')
         /\ Cardinality(InFlush(m)') = Cardinality(InFlush(m)) - Is(flush[p], m) + Is(x, m)
<1>1. flush'[p] = x /\ \A q \in Producers \ {p} : flush'[q] = flush[q]
  BY DEF FlushTypes
<1>2. /\ IsFiniteSet(Having(flush', m))
      /\ Cardinality(Having(flush', m)) = Cardinality(Having(flush, m)) - Is(flush[p], m) + Is(flush'[p], m)
  <2>1. \A f, g : (\A q \in Producers \ {p} : g[q] = f[q]) /\ IsFiniteSet(Having(f, m))
          => /\ IsFiniteSet(Having(g, m))
             /\ Cardinality(Having(g, m)) = Cardinality(Having(f, m)) - Is(f[p], m) + Is(g[p], m)
    BY HolderReplaced
  <2>2. IsFiniteSet(Having(flush, m))
    BY DEF InFlush
  <2> QED
    BY <1>1, <2>1, <2>2, Zenon
<1>3. InFlush(m)' = Having(flush', m)
  BY DEF InFlush, Having
<1> QED
  BY <1>1, <1>2, <1>3 DEF InFlush

\* What was not touched has not changed.
LEMMA SameCount ==
  ASSUME NEW m
  PROVE  /\ UNCHANGED work    => InCalls(m)' = InCalls(m)
         /\ UNCHANGED channel => InChannels(m)' = InChannels(m)
         /\ UNCHANGED hand    => InHands(m)' = InHands(m)
         /\ UNCHANGED flush   => InFlush(m)' = InFlush(m)
BY DEF InCalls, InChannels, InHands, InFlush, Marked, Having, PendingCalls, Pending

-----------------------------------------------------------------------------
(* The steps that change the calls *)

\* If open changes by what the places change, together, the message stays balanced.
LEMMA StillBalanced ==
  ASSUME NEW m, Balanced(m), NEW a \in Int, NEW b \in Int, NEW c \in Int, NEW d \in Int,
         IsFiniteSet(InCalls(m)') /\ Cardinality(InCalls(m)') = Cardinality(InCalls(m)) + a,
         IsFiniteSet(InChannels(m)') /\ Cardinality(InChannels(m)') = Cardinality(InChannels(m)) + b,
         IsFiniteSet(InHands(m)') /\ Cardinality(InHands(m)') = Cardinality(InHands(m)) + c,
         IsFiniteSet(InFlush(m)') /\ Cardinality(InFlush(m)') = Cardinality(InFlush(m)) + d,
         open'[m] = open[m] + a + b + c + d
  PROVE  Balanced(m)'
<1>1. /\ Cardinality(InCalls(m)) \in Nat /\ Cardinality(InChannels(m)) \in Nat
      /\ Cardinality(InHands(m)) \in Nat /\ Cardinality(InFlush(m)) \in Nat
  BY FS_CardinalityType DEF Balanced
<1> QED
  BY <1>1 DEF Balanced

\* Steps that move no message.
LEMMA NothingCounted ==
  ASSUME CountInv, UNCHANGED <<work, channel, hand, flush, open>>
  PROVE  CountInv'
<1> SUFFICES ASSUME NEW m \in Messages PROVE Balanced(m)'
  BY DEF CountInv
<1> QED
  BY SameCount DEF CountInv, Balanced

\* Counting a message keeps the counters in their range.
LEMMA CountsAreTyped ==
  ASSUME CountTypes, NEW C, CountMessage(C), open' \in [Messages -> Int]
  PROVE  CountTypes'
BY PipelineAssumption DEF CountTypes, CountMessage

\* The innermost call of a goroutine.
LEMMA TopCall ==
  ASSUME WorkTypes, NEW t \in Threads, work[t] # <<>>
  PROVE  /\ work[t] \in Seq(Calls) /\ Top(t) \in Calls
         /\ Top(t).op \in {"enqueue", "send", "setState"} /\ Top(t).prod \in Producers
         /\ Top(t).op \in {"enqueue", "send"} =>
              Top(t).msg \in Messages /\ \A m : Pends(Top(t), m) = Is(Top(t).msg, m)
         /\ Top(t).op = "setState" =>
              Top(t).state \in {Waiting, Active} /\ \A m : Pends(Top(t), m) = 0
<1>1. work[t] \in Seq(Calls)
  BY DEF WorkTypes
<1>2. Top(t) \in Calls
  BY <1>1, HeadTailProperties DEF Top
<1> QED
  BY <1>1, <1>2 DEF Calls, Pends, Pending, Is

\* A goroutine goes on with the calls in next.
LEMMA GoesOn ==
  ASSUME WorkTypes, NEW t \in Threads, work[t] # <<>>, NEW next \in Seq(Calls), Replace(t, next)
  PROVE  /\ WorkTypes' /\ work' = [work EXCEPT ![t] = next \o Tail(work[t])]
         /\ \A m : IsFiniteSet(InCalls(m)) =>
              /\ IsFiniteSet(InCalls(m)')
              /\ Cardinality(InCalls(m)') = Cardinality(InCalls(m)) - Pends(Top(t), m) + CallsIn(next, m)
              /\ Pends(Top(t), m) \in Int /\ CallsIn(next, m) \in Int
<1>1. work[t] \in Seq(Calls)
  BY TopCall
<1>2. next \o Tail(work[t]) \in Seq(Calls)
  BY <1>1, CallsNext
<1>3. work' = [work EXCEPT ![t] = next \o Tail(work[t])]
  BY DEF Replace
<1>4. WorkTypes'
  BY <1>2, <1>3 DEF WorkTypes
<1>5. ASSUME NEW m, IsFiniteSet(InCalls(m))
      PROVE  /\ IsFiniteSet(InCalls(m)')
             /\ Cardinality(InCalls(m)') = Cardinality(InCalls(m)) - Pends(Top(t), m) + CallsIn(next, m)
             /\ Pends(Top(t), m) \in Int /\ CallsIn(next, m) \in Int
  <2> DEFINE s == next \o Tail(work[t])
  <2>1. /\ CallsIn(s, m) = CallsIn(work[t], m) - Pends(Top(t), m) + CallsIn(next, m)
        /\ CallsIn(work[t], m) \in Nat /\ CallsIn(next, m) \in Nat
    BY <1>1, CallsNext DEF Top
  <2>2. s \in Seq(Calls) /\ work' = [work EXCEPT ![t] = s]
    BY <1>2, <1>3
  <2> HIDE DEF s
  <2>3. /\ IsFiniteSet(InCalls(m)')
        /\ Cardinality(InCalls(m)') = Cardinality(InCalls(m)) - CallsIn(work[t], m) + CallsIn(s, m)
    BY <1>5, <2>2, CallsReplaced
  <2>4. Cardinality(InCalls(m)) \in Nat /\ Pends(Top(t), m) \in Nat
    BY <1>5, FS_CardinalityType DEF Pends
  <2> QED
    BY <2>1, <2>3, <2>4
<1> QED
  BY <1>3, <1>4, <1>5

\* A step of a goroutine that changes nothing but its calls.
LEMMA CallsBalanced ==
  ASSUME WorkTypes, CountInv, NEW t \in Threads, work[t] # <<>>, NEW next \in Seq(Calls), Replace(t, next),
         UNCHANGED <<channel, hand, flush>>,
         \A m \in Messages : open'[m] = open[m] - Pends(Top(t), m) + CallsIn(next, m)
  PROVE  CountInv'
<1> SUFFICES ASSUME NEW m \in Messages PROVE Balanced(m)'
  BY DEF CountInv
<1>1. Balanced(m) /\ IsFiniteSet(InCalls(m))
  BY DEF CountInv, Balanced
<1>2. /\ IsFiniteSet(InCalls(m)')
      /\ Cardinality(InCalls(m)') = Cardinality(InCalls(m)) - Pends(Top(t), m) + CallsIn(next, m)
      /\ Pends(Top(t), m) \in Int /\ CallsIn(next, m) \in Int
  BY <1>1, GoesOn
<1>3. /\ Cardinality(InCalls(m)) \in Nat /\ Cardinality(InChannels(m)) \in Nat
      /\ Cardinality(InHands(m)) \in Nat /\ Cardinality(InFlush(m)) \in Nat
  BY <1>1, FS_CardinalityType DEF Balanced
<1>4. InChannels(m)' = InChannels(m) /\ InHands(m)' = InHands(m) /\ InFlush(m)' = InFlush(m)
  BY SameCount
<1> QED
  BY <1>1, <1>2, <1>3, <1>4 DEF Balanced

\* A message is dropped: the call ends, and those of the listeners of the drop stream begin.
LEMMA DropBalanced ==
  ASSUME WorkTypes, CountTypes, CountInv, NEW t \in Threads, work[t] # <<>>, NEW p \in Producers,
         Top(t).op \in {"enqueue", "send"}, NEW rest \in Seq(Calls), \A m : CallsIn(rest, m) = 0,
         Drop(t, p, Top(t).msg, rest), UNCHANGED <<channel, hand, flush>>
  PROVE  /\ WorkTypes' /\ CountTypes' /\ CountInv'
         /\ Replace(t, Broadcast(DropListeners[p], Top(t).msg) \o rest)
         /\ Broadcast(DropListeners[p], Top(t).msg) \o rest \in Seq(Calls)
<1> DEFINE n == Top(t).msg
           next == Broadcast(DropListeners[p], n) \o rest
<1>1. n \in Messages /\ \A m : Pends(Top(t), m) = Is(n, m)
  BY TopCall
<1>2. DropListeners[p] \in Seq(Producers) /\ Len(DropListeners[p]) \in Nat
  BY PipelineAssumption, LenProperties
<1>3. next \in Seq(Calls) /\ \A m : CallsIn(next, m) = (IF m = n THEN Len(DropListeners[p]) ELSE 0)
  <2> HIDE DEF n
  <2>1. next \in Seq(Calls)
        /\ \A m : CallsIn(next, m) = (IF m = n THEN Len(DropListeners[p]) ELSE 0) + CallsIn(rest, m)
    BY <1>1, <1>2, DropCalls
  <2> QED
    BY <1>2, <2>1
<1>4. Replace(t, next) /\ open' = [open EXCEPT ![n] = @ + Len(DropListeners[p]) - 1]
      /\ CountMessage({"dropped", Routed(DropListeners[p])})
  BY DEF Drop
<1> HIDE DEF next, n
<1>5. open' \in [Messages -> Int]
  BY <1>1, <1>2, <1>4 DEF CountTypes
<1>6. \A m \in Messages : open'[m] = open[m] - Pends(Top(t), m) + CallsIn(next, m)
  <2> SUFFICES ASSUME NEW m \in Messages PROVE open'[m] = open[m] - Pends(Top(t), m) + CallsIn(next, m)
    OBVIOUS
  <2>1. open[m] \in Int
    BY DEF CountTypes
  <2>2. CASE m = n
    <3>1. open'[m] = open[m] + Len(DropListeners[p]) - 1
      BY <1>1, <1>4, <2>2 DEF CountTypes
    <3>2. Pends(Top(t), m) = 1
      BY <1>1, <2>2 DEF Is
    <3>3. CallsIn(next, m) = Len(DropListeners[p])
      BY <1>3, <2>2
    <3>4. \A a, b \in Int : a + b - 1 = a - 1 + b
      OBVIOUS
    <3>5. open[m] + Len(DropListeners[p]) - 1 = open[m] - 1 + Len(DropListeners[p])
      BY <1>2, <2>1, <3>4
    <3> QED
      BY <3>1, <3>2, <3>3, <3>5, Zenon
  <2>3. CASE m # n
    BY <1>1, <1>3, <1>4, <2>1, <2>3 DEF CountTypes, Is
  <2> QED
    BY <2>2, <2>3
<1>7. CountInv'
  BY <1>3, <1>4, <1>6, CallsBalanced
<1>8. WorkTypes' /\ CountTypes'
  BY <1>3, <1>4, <1>5, GoesOn, CountsAreTyped
<1> QED
  BY <1>3, <1>4, <1>7, <1>8 DEF next, n


\* A step of a goroutine that leaves the loops of the producers alone keeps the other types.
LEMMA OtherTypes ==
  ASSUME PipelineTypes, FlushInv, UNCHANGED <<closed, stop, control, waitFor, loop, hand, flush, source, main, crashed, fresh>>,
         StateTypes', ChannelTypes', WorkTypes', CountTypes'
  PROVE  PipelineTypes' /\ FlushInv'
BY DEF PipelineTypes, LoopTypes, FlushTypes, MainTypes, FlushInv

\* A step of Enqueue turns a call into the next one, or ends it and opens those of the drop stream.
LEMMA EnqueueCounts ==
  ASSUME PipelineTypes, CountInv, FlushInv, NEW t \in Threads, Enqueue(t)
  PROVE  PipelineTypes' /\ CountInv' /\ FlushInv'
<1> DEFINE p == Top(t).prod
           m == Top(t).msg
<1>1. /\ work[t] # <<>> /\ Top(t).op = "enqueue" /\ UNCHANGED <<producerVars, source, main, crashed, fresh>>
      /\ WorkTypes /\ CountTypes
  BY DEF Enqueue, InCall, PipelineTypes
<1>2. p \in Producers /\ m \in Messages /\ \A n : Pends(Top(t), n) = Is(m, n)
  BY <1>1, TopCall
<1>3. UNCHANGED <<channel, hand, flush>>
  BY <1>1 DEF producerVars
<1>4. /\ UNCHANGED <<closed, stop, control, waitFor, loop, hand, flush, source, main, crashed, fresh>>
      /\ StateTypes' /\ ChannelTypes'
  BY <1>1 DEF producerVars, PipelineTypes, StateTypes, ChannelTypes
<1>5. CASE CountMessage({"filtered"}) /\ Replace(t, <<>>) /\ open' = [open EXCEPT ![m] = @ - 1]
  <2> HIDE DEF m
  <2>1. \A n \in Messages : open'[n] = open[n] - Pends(Top(t), n) + CallsIn(<<>>, n)
    <3> SUFFICES ASSUME NEW n \in Messages PROVE open'[n] = open[n] - Pends(Top(t), n) + CallsIn(<<>>, n)
      OBVIOUS
    <3>1. open'[n] = open[n] - Is(m, n) /\ open[n] \in Int
      BY <1>1, <1>2, <1>5 DEF CountTypes, Is
    <3>2. CallsIn(<<>>, n) = 0 /\ Is(m, n) \in Int
      BY NoCalls DEF Is
    <3>3. \A a, b \in Int : a - b + 0 = a - b
      OBVIOUS
    <3> QED
      BY <1>2, <3>1, <3>2, <3>3, Zenon
  <2>2. CountInv'
    BY <1>1, <1>3, <1>5, <2>1, NoCalls, CallsBalanced
  <2>3. open' \in [Messages -> Int]
    BY <1>1, <1>2, <1>5 DEF CountTypes
  <2>4. WorkTypes' /\ CountTypes'
    BY <1>1, <1>5, <2>3, NoCalls, GoesOn, CountsAreTyped
  <2> QED
    BY <1>4, <2>2, <2>4, OtherTypes
<1>6. CASE Drop(t, p, m, <<>>)
  <2>1. WorkTypes' /\ CountTypes' /\ CountInv'
    BY <1>1, <1>2, <1>3, <1>6, NoCalls, DropBalanced
  <2> QED
    BY <1>4, <2>1, OtherTypes
<1>7. CASE Replace(t, <<[op |-> "send", prod |-> p, msg |-> m]>>) /\ UNCHANGED <<count, open>>
  <2> DEFINE c == [op |-> "send", prod |-> p, msg |-> m]
  <2>1. c \in Calls /\ \A n : Pends(c, n) = Is(m, n)
    BY <1>2 DEF Calls, Pends, Pending, Is
  <2> HIDE DEF m, p, c
  <2>2. <<c>> \in Seq(Calls) /\ \A n : CallsIn(<<c>>, n) = Is(m, n)
    BY <2>1, OneCall
  <2>3. Replace(t, <<c>>)
    BY <1>7 DEF c
  <2>4. \A n \in Messages : open'[n] = open[n] - Pends(Top(t), n) + CallsIn(<<c>>, n)
    <3> SUFFICES ASSUME NEW n \in Messages PROVE open'[n] = open[n] - Pends(Top(t), n) + CallsIn(<<c>>, n)
      OBVIOUS
    <3>1. open'[n] = open[n] /\ open[n] \in Int /\ Is(m, n) \in Int
      BY <1>1, <1>7 DEF CountTypes, Is
    <3>2. \A a, b \in Int : a - b + b = a
      OBVIOUS
    <3> QED
      BY <1>2, <2>2, <3>1, <3>2, Zenon
  <2>5. CountInv'
    BY <1>1, <1>3, <2>2, <2>3, <2>4, CallsBalanced
  <2>6. WorkTypes' /\ CountTypes'
    BY <1>1, <1>7, <2>2, <2>3, GoesOn DEF CountTypes
  <2> QED
    BY <1>4, <2>5, <2>6, OtherTypes
<1> QED
  BY <1>5, <1>6, <1>7 DEF Enqueue

\* A send moves a message from a call to a channel.
LEMMA SendCounts ==
  ASSUME PipelineTypes, CountInv, FlushInv, NEW t \in Threads, Send(t)
  PROVE  PipelineTypes' /\ CountInv' /\ FlushInv'
<1> DEFINE p == Top(t).prod
           m == Top(t).msg
           c == SetState(p, Active)
<1>1. /\ work[t] # <<>> /\ Top(t).op = "send" /\ Len(channel[p]) < Capacity[p]
      /\ channel' = [channel EXCEPT ![p] = Append(@, m)] /\ Replace(t, <<c>>)
      /\ UNCHANGED <<state, closed, stop, loop, hand, control, waitFor, flush, source, main,
                     crashed, count, historyVars>>
      /\ WorkTypes /\ CountTypes /\ ChannelTypes
  BY DEF Send, InCall, PipelineTypes
<1>2. p \in Producers /\ m \in Messages /\ \A n : Pends(Top(t), n) = Is(m, n)
  BY <1>1, TopCall
<1>3. c \in Calls /\ \A n : Pends(c, n) = 0
  BY <1>2 DEF Calls, Pends, Pending, SetState
<1> HIDE DEF p, m, c
<1>4. <<c>> \in Seq(Calls) /\ \A n : CallsIn(<<c>>, n) = 0
  BY <1>3, OneCall
<1>5. ChannelTypes'
  <2>1. channel[p] \in Seq(Messages)
    BY <1>1, <1>2 DEF ChannelTypes
  <2>2. Append(channel[p], m) \in Seq(Messages) /\ Len(Append(channel[p], m)) = Len(channel[p]) + 1 /\ Len(channel[p]) \in Nat
    BY <1>2, <2>1, AppendProperties, LenProperties
  <2>3. Len(Append(channel[p], m)) <= Capacity[p]
    <3>1. Capacity[p] \in Nat
      BY <1>2, PipelineAssumption
    <3> QED
      BY <1>1, <2>2, <3>1
  <2>4. \A q \in Producers : channel'[q] = IF q = p THEN Append(channel[p], m) ELSE channel[q]
    BY <1>1, <1>2 DEF ChannelTypes
  <2> QED
    BY <1>1, <1>2, <2>2, <2>3, <2>4 DEF ChannelTypes
<1>6. ASSUME NEW n \in Messages PROVE Balanced(n)'
  <2>1. Balanced(n) /\ IsFiniteSet(InCalls(n)) /\ IsFiniteSet(InChannels(n)) /\ IsFiniteSet(InHands(n)) /\ IsFiniteSet(InFlush(n))
    BY DEF CountInv, Balanced
  <2>2. IsFiniteSet(InCalls(n)') /\ Cardinality(InCalls(n)') = Cardinality(InCalls(n)) + (- Is(m, n))
    <3>1. /\ IsFiniteSet(InCalls(n)')
          /\ Cardinality(InCalls(n)') = Cardinality(InCalls(n)) - Pends(Top(t), n) + CallsIn(<<c>>, n)
      BY <1>1, <1>4, <2>1, GoesOn
    <3>2. Cardinality(InCalls(n)) \in Int /\ Is(m, n) \in Int
      BY <2>1, FS_CardinalityType DEF Is
    <3>3. \A a, b \in Int : a - b + 0 = a + (-b)
      OBVIOUS
    <3> QED
      BY <1>2, <1>4, <3>1, <3>2, <3>3, Zenon
  <2>3. IsFiniteSet(InChannels(n)') /\ Cardinality(InChannels(n)') = Cardinality(InChannels(n)) + Is(m, n)
    BY <1>1, <1>2, <2>1, ChannelTakes
  <2>4. /\ IsFiniteSet(InHands(n)') /\ Cardinality(InHands(n)') = Cardinality(InHands(n)) + 0
        /\ IsFiniteSet(InFlush(n)') /\ Cardinality(InFlush(n)') = Cardinality(InFlush(n)) + 0
    <3>1. UNCHANGED <<hand, flush>>
      BY <1>1
    <3>2. InHands(n)' = InHands(n) /\ InFlush(n)' = InFlush(n)
      BY <3>1, SameCount
    <3> QED
      BY <2>1, <3>2, FS_CardinalityType
  <2>5. Is(m, n) \in Int /\ open[n] \in Int /\ open'[n] = open[n]
    BY <1>1 DEF Is, CountTypes, historyVars
  <2>6. open'[n] = open[n] + (- Is(m, n)) + Is(m, n) + 0 + 0 /\ - Is(m, n) \in Int /\ 0 \in Int
    BY <2>5
  <2>7. \A a, b, d, e \in Int :
          /\ Cardinality(InCalls(n)') = Cardinality(InCalls(n)) + a
          /\ Cardinality(InChannels(n)') = Cardinality(InChannels(n)) + b
          /\ Cardinality(InHands(n)') = Cardinality(InHands(n)) + d
          /\ Cardinality(InFlush(n)') = Cardinality(InFlush(n)) + e
          /\ open'[n] = open[n] + a + b + d + e
          => Balanced(n)'
    BY <2>1, <2>2, <2>3, <2>4, StillBalanced
  <2> QED
    BY <2>2, <2>3, <2>4, <2>5, <2>6, <2>7, Zenon
<1>7. CountInv'
  BY <1>6 DEF CountInv
<1>8. WorkTypes' /\ CountTypes'
  BY <1>1, <1>4, GoesOn DEF CountTypes, historyVars
<1>9. /\ UNCHANGED <<closed, stop, control, waitFor, loop, hand, flush, source, main, crashed, fresh>>
      /\ StateTypes'
  BY <1>1 DEF historyVars, PipelineTypes, StateTypes
<1> QED
  BY <1>5, <1>7, <1>8, <1>9, OtherTypes


\* A send that finds the channel full drops or discards its message.
LEMMA SendFailsCounts ==
  ASSUME PipelineTypes, CountInv, FlushInv, NEW t \in Threads, SendFails(t)
  PROVE  PipelineTypes' /\ CountInv' /\ FlushInv'
<1> DEFINE p == Top(t).prod
           m == Top(t).msg
           c == SetState(p, Waiting)
<1>1. /\ work[t] # <<>> /\ Top(t).op = "send" /\ UNCHANGED <<producerVars, source, main, crashed, fresh>>
      /\ WorkTypes /\ CountTypes
  BY DEF SendFails, InCall, PipelineTypes
<1>2. p \in Producers /\ m \in Messages /\ \A n : Pends(Top(t), n) = Is(m, n)
  BY <1>1, TopCall
<1>3. UNCHANGED <<channel, hand, flush>>
  BY <1>1 DEF producerVars
<1>4. /\ UNCHANGED <<closed, stop, control, waitFor, loop, hand, flush, source, main, crashed, fresh>>
      /\ StateTypes' /\ ChannelTypes'
  BY <1>1 DEF producerVars, PipelineTypes, StateTypes, ChannelTypes
<1>5. c \in Calls /\ \A n : Pends(c, n) = 0
  BY <1>2 DEF Calls, Pends, Pending, SetState
<1>6. <<c>> \in Seq(Calls) /\ \A n : CallsIn(<<c>>, n) = 0
  <2> HIDE DEF c
  <2> QED
    BY <1>5, OneCall
<1>7. CASE CountMessage({"discarded"}) /\ Replace(t, <<c>>) /\ open' = [open EXCEPT ![m] = @ - 1]
  <2> HIDE DEF m, p, c
  <2>1. \A n \in Messages : open'[n] = open[n] - Pends(Top(t), n) + CallsIn(<<c>>, n)
    <3> SUFFICES ASSUME NEW n \in Messages PROVE open'[n] = open[n] - Pends(Top(t), n) + CallsIn(<<c>>, n)
      OBVIOUS
    <3>1. open'[n] = open[n] - Is(m, n) /\ open[n] \in Int
      BY <1>1, <1>2, <1>7 DEF CountTypes, Is
    <3>2. CallsIn(<<c>>, n) = 0 /\ Is(m, n) \in Int
      BY <1>6 DEF Is
    <3>3. \A a, b \in Int : a - b + 0 = a - b
      OBVIOUS
    <3> QED
      BY <1>2, <3>1, <3>2, <3>3, Zenon
  <2>2. CountInv'
    BY <1>1, <1>3, <1>6, <1>7, <2>1, CallsBalanced
  <2>3. open' \in [Messages -> Int]
    BY <1>1, <1>2, <1>7 DEF CountTypes
  <2>4. WorkTypes' /\ CountTypes'
    BY <1>1, <1>6, <1>7, <2>3, GoesOn, CountsAreTyped
  <2> QED
    BY <1>4, <2>2, <2>4, OtherTypes
<1>8. CASE Drop(t, p, m, <<c>>)
  <2>1. WorkTypes' /\ CountTypes' /\ CountInv'
    <3> HIDE DEF p, c
    <3> QED
      BY <1>1, <1>2, <1>3, <1>6, <1>8, DropBalanced
  <2> QED
    BY <1>4, <2>1, OtherTypes
<1> QED
  BY <1>7, <1>8 DEF SendFails

\* The setState at the end of Enqueue moves no message.
LEMMA EnqueueSetStateCounts ==
  ASSUME PipelineTypes, CountInv, FlushInv, NEW t \in Threads, EnqueueSetState(t)
  PROVE  PipelineTypes' /\ CountInv' /\ FlushInv'
<1>1. /\ work[t] # <<>> /\ Top(t).op = "setState" /\ Replace(t, <<>>)
      /\ UNCHANGED <<channel, closed, stop, loop, hand, control, waitFor, flush, source, main,
                     crashed, count, historyVars>>
      /\ state' = [state EXCEPT ![Top(t).prod] = Top(t).state]
      /\ WorkTypes /\ CountTypes
  BY DEF EnqueueSetState, InCall, PipelineTypes
<1>2. Top(t).prod \in Producers /\ Top(t).state \in {Waiting, Active} /\ \A n : Pends(Top(t), n) = 0
  BY <1>1, TopCall
<1>3. UNCHANGED <<channel, hand, flush, open>>
  BY <1>1 DEF historyVars
<1>4. \A n \in Messages : open'[n] = open[n] - Pends(Top(t), n) + CallsIn(<<>>, n)
  <2> SUFFICES ASSUME NEW n \in Messages PROVE open'[n] = open[n] - Pends(Top(t), n) + CallsIn(<<>>, n)
    OBVIOUS
  <2>1. open'[n] = open[n] /\ open[n] \in Int
    BY <1>1, <1>3 DEF CountTypes
  <2>2. CallsIn(<<>>, n) = 0
    BY NoCalls
  <2>3. \A a \in Int : a - 0 + 0 = a
    OBVIOUS
  <2> QED
    BY <1>2, <2>1, <2>2, <2>3, Zenon
<1>5. CountInv'
  BY <1>1, <1>3, <1>4, NoCalls, CallsBalanced
<1>6. WorkTypes' /\ CountTypes'
  BY <1>1, <1>3, NoCalls, GoesOn DEF CountTypes
<1>7. StateTypes' /\ ChannelTypes'
  BY <1>1, <1>2 DEF PipelineTypes, StateTypes, ChannelTypes, Initializing, Waiting, Active, Dead
<1>8. UNCHANGED <<closed, stop, control, waitFor, loop, hand, flush, source, main, crashed, fresh>>
  BY <1>1 DEF historyVars
<1> QED
  BY <1>5, <1>6, <1>7, <1>8, OtherTypes

\* Without calls, nothing pends.
LEMMA CallsBegin ==
  ASSUME WorkTypes, NEW t \in Threads, work[t] = <<>>, NEW next \in Seq(Calls),
         work' = [work EXCEPT ![t] = next], NEW m, IsFiniteSet(InCalls(m))
  PROVE  /\ IsFiniteSet(InCalls(m)')
         /\ Cardinality(InCalls(m)') = Cardinality(InCalls(m)) + CallsIn(next, m)
<1>1. CallsIn(work[t], m) = 0
  BY NoCalls
<1>2. /\ IsFiniteSet(InCalls(m)')
      /\ Cardinality(InCalls(m)') = Cardinality(InCalls(m)) - CallsIn(work[t], m) + CallsIn(next, m)
  BY CallsReplaced
<1>3. Cardinality(InCalls(m)) - 0 = Cardinality(InCalls(m))
  BY FS_CardinalityType
<1> QED
  BY <1>1, <1>2, <1>3

\* A source opens one call for each listener.
LEMMA EnqueueMessageCounts ==
  ASSUME PipelineTypes, CountInv, FlushInv, NEW s \in Sources, NEW m \in Messages, EnqueueMessage(s, m)
  PROVE  PipelineTypes' /\ CountInv' /\ FlushInv'
<1> DEFINE next == Broadcast(Listeners, m)
<1>1. /\ work[s] = <<>> /\ work' = [work EXCEPT ![s] = next] /\ CountMessage({Routed(Listeners)})
      /\ open' = [open EXCEPT ![m] = @ + Len(Listeners)] /\ fresh' = fresh \ {m}
      /\ UNCHANGED <<producerVars, source, main, crashed>> /\ WorkTypes /\ CountTypes /\ s \in Threads
  BY DEF EnqueueMessage, PipelineTypes, Threads
<1>2. Listeners \in Seq(Producers) /\ Len(Listeners) \in Nat
  BY PipelineAssumption, LenProperties
<1>3. next \in Seq(Calls) /\ \A n : CallsIn(next, n) = IF n = m THEN Len(Listeners) ELSE 0
  BY <1>2, BroadcastCalls
<1> HIDE DEF next
<1>4. ASSUME NEW n \in Messages PROVE Balanced(n)'
  <2>1. /\ IsFiniteSet(InCalls(n)) /\ IsFiniteSet(InChannels(n)) /\ IsFiniteSet(InHands(n)) /\ IsFiniteSet(InFlush(n))
        /\ Balanced(n)
    BY DEF CountInv, Balanced
  <2>2. /\ IsFiniteSet(InCalls(n)')
        /\ Cardinality(InCalls(n)') = Cardinality(InCalls(n)) + CallsIn(next, n)
    BY <1>1, <1>3, <2>1, CallsBegin
  <2>3. UNCHANGED <<channel, hand, flush>>
    BY <1>1 DEF producerVars
  <2>4. InChannels(n)' = InChannels(n) /\ InHands(n)' = InHands(n) /\ InFlush(n)' = InFlush(n)
    BY <2>3, SameCount
  <2>5. open'[n] = open[n] + CallsIn(next, n) /\ CallsIn(next, n) \in Int /\ open[n] \in Int
    <3>1. CASE n = m
      BY <1>1, <1>2, <1>3, <3>1 DEF CountTypes
    <3>2. CASE n # m
      <4>1. CallsIn(next, n) = 0 /\ open'[n] = open[n] /\ open[n] \in Int
        BY <1>1, <1>3, <3>2 DEF CountTypes
      <4> QED
        BY <4>1
    <3> QED
      BY <3>1, <3>2
  <2>6. /\ Cardinality(InCalls(n)) \in Nat /\ Cardinality(InChannels(n)) \in Nat
        /\ Cardinality(InHands(n)) \in Nat /\ Cardinality(InFlush(n)) \in Nat
    BY <2>1, FS_CardinalityType
  <2> QED
    BY <2>1, <2>2, <2>4, <2>5, <2>6 DEF Balanced
<1>5. CountInv'
  BY <1>4 DEF CountInv
<1>6. WorkTypes' /\ CountTypes'
  <2>1. open' \in [Messages -> Int]
    BY <1>1, <1>2 DEF CountTypes
  <2> QED
    BY <1>1, <1>3, <2>1, CountsAreTyped DEF WorkTypes
<1> QED
  BY <1>1, <1>5, <1>6 DEF producerVars, PipelineTypes, StateTypes, ChannelTypes, LoopTypes, FlushTypes, MainTypes, FlushInv


-----------------------------------------------------------------------------
(* The steps of the loops of a producer *)

\* The first message of a channel is taken out of it.
LEMMA ReceivedTypes ==
  ASSUME ChannelTypes, NEW p \in Producers, channel[p] # <<>>, channel' = [channel EXCEPT ![p] = Tail(@)]
  PROVE  ChannelTypes' /\ Head(channel[p]) \in Messages /\ Head(channel[p]) # NoMessage
<1>1. channel[p] \in Seq(Messages)
  BY DEF ChannelTypes
<1>2. /\ Tail(channel[p]) \in Seq(Messages) /\ Head(channel[p]) \in Messages
      /\ Len(Tail(channel[p])) = Len(channel[p]) - 1 /\ Len(channel[p]) \in Nat
  BY <1>1, HeadTailProperties, LenProperties
<1>3. Len(Tail(channel[p])) <= Capacity[p]
  <2>1. Capacity[p] \in Nat /\ Len(channel[p]) <= Capacity[p]
    BY PipelineAssumption DEF ChannelTypes
  <2> QED
    BY <1>2, <2>1
<1>4. \A q \in Producers : channel'[q] = IF q = p THEN Tail(channel[p]) ELSE channel[q]
  BY DEF ChannelTypes
<1> QED
  BY <1>2, <1>3, <1>4, PipelineAssumption DEF ChannelTypes

\* A message loop takes a message from its channel into its hand.
LEMMA LoopReceiveCounts ==
  ASSUME PipelineTypes, CountInv, FlushInv, NEW p \in Producers, LoopReceive(p)
  PROVE  PipelineTypes' /\ CountInv' /\ FlushInv'
<1> DEFINE x == Head(channel[p])
<1>1. /\ loop[p] = "receive" /\ UNCHANGED <<state, closed, stop, control, waitFor, flush, source, work, main,
                                            crashed, count, fresh, open>>
      /\ StateTypes /\ ChannelTypes /\ LoopTypes /\ FlushTypes /\ WorkTypes /\ MainTypes /\ CountTypes
  BY DEF LoopReceive, PipelineTypes, historyVars
<1>2. StateTypes' /\ FlushTypes' /\ WorkTypes' /\ MainTypes' /\ CountTypes' /\ FlushInv'
  BY <1>1 DEF StateTypes, FlushTypes, WorkTypes, MainTypes, CountTypes, FlushInv
<1>3. CASE UNCHANGED <<hand, channel>> /\ loop' = [loop EXCEPT ![p] = "isActive"]
  <2>1. ChannelTypes' /\ LoopTypes'
    BY <1>1, <1>3 DEF ChannelTypes, LoopTypes
  <2>2. CountInv'
    BY <1>1, <1>3, NothingCounted
  <2> QED
    BY <1>2, <2>1, <2>2 DEF PipelineTypes
<1>4. CASE /\ channel[p] # <<>> /\ hand' = [hand EXCEPT ![p] = x]
           /\ channel' = [channel EXCEPT ![p] = Tail(@)] /\ loop' = [loop EXCEPT ![p] = "onMessage"]
  <2>1. ChannelTypes' /\ x \in Messages /\ x # NoMessage
    BY <1>1, <1>4, ReceivedTypes
  <2>2. LoopTypes'
    <3> HIDE DEF x
    <3> QED
      BY <1>1, <1>4, <2>1 DEF LoopTypes
  <2>3. ASSUME NEW n \in Messages PROVE Balanced(n)'
    <3>1. /\ Balanced(n) /\ IsFiniteSet(InCalls(n)) /\ IsFiniteSet(InChannels(n))
          /\ IsFiniteSet(InHands(n)) /\ IsFiniteSet(InFlush(n))
      BY DEF CountInv, Balanced
    <3>2. IsFiniteSet(InChannels(n)') /\ Cardinality(InChannels(n)') = Cardinality(InChannels(n)) - Is(x, n)
      BY <1>1, <1>4, <3>1, ChannelGives
    <3> HIDE DEF x
    <3>3. IsFiniteSet(InHands(n)') /\ Cardinality(InHands(n)') = Cardinality(InHands(n)) - Is(hand[p], n) + Is(x, n)
      BY <1>1, <1>4, <3>1, HandReplaced
    <3>4. Is(hand[p], n) = 0 /\ Is(x, n) \in Int
      <4>1. hand[p] = NoMessage /\ n # NoMessage
        BY <1>1, PipelineAssumption DEF LoopTypes
      <4> QED
        BY <4>1 DEF Is
    <3>5. InCalls(n)' = InCalls(n) /\ InFlush(n)' = InFlush(n) /\ open'[n] = open[n]
      BY <1>1, SameCount
    <3>6. /\ Cardinality(InCalls(n)) \in Nat /\ Cardinality(InChannels(n)) \in Nat
          /\ Cardinality(InHands(n)) \in Nat /\ Cardinality(InFlush(n)) \in Nat
      BY <3>1, FS_CardinalityType
    <3> QED
      BY <3>1, <3>2, <3>3, <3>4, <3>5, <3>6 DEF Balanced
  <2>4. CountInv'
    BY <2>3 DEF CountInv
  <2> QED
    BY <1>2, <2>1, <2>2, <2>4 DEF PipelineTypes
<1> QED
  BY <1>3, <1>4 DEF LoopReceive

\* A message that is handled is done with.
LEMMA LoopHandledCounts ==
  ASSUME PipelineTypes, CountInv, FlushInv, NEW p \in Producers, LoopHandled(p)
  PROVE  PipelineTypes' /\ CountInv' /\ FlushInv'
<1>1. /\ loop[p] = "onMessage" /\ open' = [open EXCEPT ![hand[p]] = @ - 1] /\ hand' = [hand EXCEPT ![p] = NoMessage]
      /\ loop' = [loop EXCEPT ![p] = "isActive"]
      /\ UNCHANGED <<state, channel, closed, stop, control, waitFor, flush, source, work, main, crashed, count, fresh>>
      /\ StateTypes /\ ChannelTypes /\ LoopTypes /\ FlushTypes /\ WorkTypes /\ MainTypes /\ CountTypes
  BY DEF LoopHandled, PipelineTypes
<1>2. hand[p] \in Messages /\ hand[p] # NoMessage
  BY <1>1 DEF LoopTypes
<1>3. /\ StateTypes' /\ ChannelTypes' /\ LoopTypes' /\ FlushTypes' /\ WorkTypes' /\ MainTypes' /\ CountTypes' /\ FlushInv'
  <2>1. CountTypes'
    BY <1>1, <1>2 DEF CountTypes
  <2>2. LoopTypes'
    BY <1>1 DEF LoopTypes
  <2> QED
    BY <1>1, <2>1, <2>2 DEF StateTypes, ChannelTypes, FlushTypes, WorkTypes, MainTypes, FlushInv
<1>4. ASSUME NEW n \in Messages PROVE Balanced(n)'
  <2>1. /\ Balanced(n) /\ IsFiniteSet(InCalls(n)) /\ IsFiniteSet(InChannels(n))
        /\ IsFiniteSet(InHands(n)) /\ IsFiniteSet(InFlush(n))
    BY DEF CountInv, Balanced
  <2>2. IsFiniteSet(InHands(n)') /\ Cardinality(InHands(n)') = Cardinality(InHands(n)) - Is(hand[p], n) + Is(NoMessage, n)
    BY <1>1, <2>1, HandReplaced
  <2>3. Is(NoMessage, n) = 0 /\ Is(hand[p], n) \in Int
    BY PipelineAssumption DEF Is
  <2>4. InCalls(n)' = InCalls(n) /\ InFlush(n)' = InFlush(n) /\ InChannels(n)' = InChannels(n)
    BY <1>1, SameCount
  <2>5. open'[n] = open[n] - Is(hand[p], n) /\ open[n] \in Int
    BY <1>1, <1>2 DEF CountTypes, Is
  <2>6. /\ Cardinality(InCalls(n)) \in Nat /\ Cardinality(InChannels(n)) \in Nat
        /\ Cardinality(InHands(n)) \in Nat /\ Cardinality(InFlush(n)) \in Nat
    BY <2>1, FS_CardinalityType
  <2> QED
    BY <2>1, <2>2, <2>3, <2>4, <2>5, <2>6 DEF Balanced
<1> QED
  BY <1>3, <1>4 DEF CountInv, PipelineTypes

\* CloseMessageChannel hands a message to a flush worker.
LEMMA DrainReceiveCounts ==
  ASSUME PipelineTypes, CountInv, FlushInv, NEW p \in Producers, DrainReceive(p)
  PROVE  PipelineTypes' /\ CountInv' /\ FlushInv'
<1> DEFINE x == Head(channel[p])
<1>1. /\ control[p] = "drain" /\ channel[p] # <<>> /\ flush' = [flush EXCEPT ![p] = x]
      /\ channel' = [channel EXCEPT ![p] = Tail(@)] /\ control' = [control EXCEPT ![p] = "flushWorker"]
      /\ UNCHANGED <<state, closed, stop, loop, hand, waitFor, source, work, main, crashed, count, fresh, open>>
      /\ StateTypes /\ ChannelTypes /\ LoopTypes /\ FlushTypes /\ WorkTypes /\ MainTypes /\ CountTypes
  BY DEF DrainReceive, PipelineTypes, ControlGoto, historyVars
<1>2. ChannelTypes' /\ x \in Messages /\ x # NoMessage
  BY <1>1, ReceivedTypes
<1>3. /\ StateTypes' /\ LoopTypes' /\ FlushTypes' /\ WorkTypes' /\ MainTypes' /\ CountTypes' /\ FlushInv'
  <2> HIDE DEF x
  <2>1. FlushTypes' /\ FlushInv' /\ StateTypes'
    BY <1>1, <1>2 DEF FlushTypes, FlushInv, StateTypes
  <2> QED
    BY <1>1, <2>1 DEF LoopTypes, WorkTypes, MainTypes, CountTypes
<1>4. ASSUME NEW n \in Messages PROVE Balanced(n)'
  <2>1. /\ Balanced(n) /\ IsFiniteSet(InCalls(n)) /\ IsFiniteSet(InChannels(n))
        /\ IsFiniteSet(InHands(n)) /\ IsFiniteSet(InFlush(n))
    BY DEF CountInv, Balanced
  <2>2. IsFiniteSet(InChannels(n)') /\ Cardinality(InChannels(n)') = Cardinality(InChannels(n)) - Is(x, n)
    BY <1>1, <2>1, ChannelGives
  <2> HIDE DEF x
  <2>3. IsFiniteSet(InFlush(n)') /\ Cardinality(InFlush(n)') = Cardinality(InFlush(n)) - Is(flush[p], n) + Is(x, n)
    BY <1>1, <2>1, FlushReplaced
  <2>4. Is(flush[p], n) = 0 /\ Is(x, n) \in Int
    <3>1. flush[p] = NoMessage /\ n # NoMessage
      BY <1>1, PipelineAssumption DEF FlushInv
    <3> QED
      BY <3>1 DEF Is
  <2>5. InCalls(n)' = InCalls(n) /\ InHands(n)' = InHands(n) /\ open'[n] = open[n]
    BY <1>1, SameCount
  <2>6. /\ Cardinality(InCalls(n)) \in Nat /\ Cardinality(InChannels(n)) \in Nat
        /\ Cardinality(InHands(n)) \in Nat /\ Cardinality(InFlush(n)) \in Nat
    BY <2>1, FS_CardinalityType
  <2> QED
    BY <2>1, <2>2, <2>3, <2>4, <2>5, <2>6 DEF Balanced
<1> QED
  BY <1>2, <1>3, <1>4 DEF CountInv, PipelineTypes

\* A flush worker is done with its message.
LEMMA FlushHandledCounts ==
  ASSUME PipelineTypes, CountInv, FlushInv, NEW p \in Producers, FlushHandled(p)
  PROVE  PipelineTypes' /\ CountInv' /\ FlushInv'
<1>1. /\ flush[p] # NoMessage /\ open' = [open EXCEPT ![flush[p]] = @ - 1] /\ flush' = [flush EXCEPT ![p] = NoMessage]
      /\ UNCHANGED <<state, channel, closed, stop, loop, hand, control, waitFor, source, work, main, crashed,
                     count, fresh>>
      /\ StateTypes /\ ChannelTypes /\ LoopTypes /\ FlushTypes /\ WorkTypes /\ MainTypes /\ CountTypes
  BY DEF FlushHandled, PipelineTypes
<1>2. flush[p] \in Messages
  BY <1>1 DEF FlushTypes
<1>3. /\ StateTypes' /\ ChannelTypes' /\ LoopTypes' /\ FlushTypes' /\ WorkTypes' /\ MainTypes' /\ CountTypes' /\ FlushInv'
  <2>1. CountTypes'
    BY <1>1, <1>2 DEF CountTypes
  <2>2. FlushTypes' /\ FlushInv'
    BY <1>1 DEF FlushTypes, FlushInv
  <2> QED
    BY <1>1, <2>1, <2>2 DEF StateTypes, ChannelTypes, LoopTypes, WorkTypes, MainTypes
<1>4. ASSUME NEW n \in Messages PROVE Balanced(n)'
  <2>1. /\ Balanced(n) /\ IsFiniteSet(InCalls(n)) /\ IsFiniteSet(InChannels(n))
        /\ IsFiniteSet(InHands(n)) /\ IsFiniteSet(InFlush(n))
    BY DEF CountInv, Balanced
  <2>2. /\ IsFiniteSet(InFlush(n)')
        /\ Cardinality(InFlush(n)') = Cardinality(InFlush(n)) - Is(flush[p], n) + Is(NoMessage, n)
    BY <1>1, <2>1, FlushReplaced
  <2>3. Is(NoMessage, n) = 0 /\ Is(flush[p], n) \in Int
    BY PipelineAssumption DEF Is
  <2>4. InCalls(n)' = InCalls(n) /\ InHands(n)' = InHands(n) /\ InChannels(n)' = InChannels(n)
    BY <1>1, SameCount
  <2>5. open'[n] = open[n] - Is(flush[p], n) /\ open[n] \in Int
    BY <1>1, <1>2 DEF CountTypes, Is
  <2>6. /\ Cardinality(InCalls(n)) \in Nat /\ Cardinality(InChannels(n)) \in Nat
        /\ Cardinality(InHands(n)) \in Nat /\ Cardinality(InFlush(n)) \in Nat
    BY <2>1, FS_CardinalityType
  <2> QED
    BY <2>1, <2>2, <2>3, <2>4, <2>5, <2>6 DEF Balanced
<1> QED
  BY <1>3, <1>4 DEF CountInv, PipelineTypes


\* Messages that are left after a timeout are dropped.
LEMMA DropRestCounts ==
  ASSUME PipelineTypes, CountInv, FlushInv, NEW p \in Producers, DropRest(p)
  PROVE  PipelineTypes' /\ CountInv' /\ FlushInv'
<1> DEFINE x == Head(channel[p])
           next == Broadcast(DropListeners[p], x)
<1>1. /\ channel[p] # <<>> /\ work[p] = <<>> /\ work' = [work EXCEPT ![p] = next]
      /\ CountMessage({"dropped", Routed(DropListeners[p])})
      /\ open' = [open EXCEPT ![x] = @ + Len(DropListeners[p]) - 1] /\ channel' = [channel EXCEPT ![p] = Tail(@)]
      /\ UNCHANGED <<state, closed, stop, loop, hand, control, waitFor, flush, source, main, crashed, fresh>>
      /\ StateTypes /\ ChannelTypes /\ LoopTypes /\ FlushTypes /\ WorkTypes /\ MainTypes /\ CountTypes
      /\ p \in Threads
  BY DEF DropRest, PipelineTypes, Threads
<1>2. ChannelTypes' /\ x \in Messages
  BY <1>1, ReceivedTypes
<1>3. DropListeners[p] \in Seq(Producers) /\ Len(DropListeners[p]) \in Nat
  BY PipelineAssumption, LenProperties
<1>4. next \in Seq(Calls) /\ \A n : CallsIn(next, n) = IF n = x THEN Len(DropListeners[p]) ELSE 0
  <2> HIDE DEF x
  <2> QED
    BY <1>2, <1>3, BroadcastCalls
<1>5. \A n : IsFiniteSet(InChannels(n)) =>
        IsFiniteSet(InChannels(n)') /\ Cardinality(InChannels(n)') = Cardinality(InChannels(n)) - Is(x, n)
  BY <1>1, ChannelGives
<1> HIDE DEF x, next
<1>6. StateTypes' /\ LoopTypes' /\ FlushTypes' /\ WorkTypes' /\ MainTypes' /\ CountTypes' /\ FlushInv'
  <2>1. open' \in [Messages -> Int]
    BY <1>1, <1>2, <1>3 DEF CountTypes
  <2>2. CountTypes'
    BY <1>1, <2>1, CountsAreTyped
  <2>3. WorkTypes'
    BY <1>1, <1>4 DEF WorkTypes
  <2> QED
    BY <1>1, <2>2, <2>3 DEF StateTypes, LoopTypes, FlushTypes, MainTypes, FlushInv
<1>7. ASSUME NEW n \in Messages PROVE Balanced(n)'
  <2>1. /\ Balanced(n) /\ IsFiniteSet(InCalls(n)) /\ IsFiniteSet(InChannels(n))
        /\ IsFiniteSet(InHands(n)) /\ IsFiniteSet(InFlush(n))
    BY DEF CountInv, Balanced
  <2>2. IsFiniteSet(InCalls(n)') /\ Cardinality(InCalls(n)') = Cardinality(InCalls(n)) + CallsIn(next, n)
    BY <1>1, <1>4, <2>1, CallsBegin
  <2>3. InHands(n)' = InHands(n) /\ InFlush(n)' = InFlush(n)
    BY <1>1, SameCount
  <2>4. open'[n] = open[n] + CallsIn(next, n) - Is(x, n) /\ open[n] \in Int /\ CallsIn(next, n) \in Int /\ Is(x, n) \in Int
    <3>1. CASE n = x
      <4>1. CallsIn(next, n) = Len(DropListeners[p]) /\ Is(x, n) = 1
        BY <1>4, <3>1 DEF Is
      <4>2. open'[n] = open[n] + Len(DropListeners[p]) - 1 /\ open[n] \in Int
        BY <1>1, <3>1 DEF CountTypes
      <4> QED
        BY <1>3, <4>1, <4>2
    <3>2. CASE n # x
      <4>1. CallsIn(next, n) = 0 /\ Is(x, n) = 0
        BY <1>4, <3>2 DEF Is
      <4>2. open'[n] = open[n] /\ open[n] \in Int
        BY <1>1, <3>2 DEF CountTypes
      <4> QED
        BY <4>1, <4>2
    <3> QED
      BY <3>1, <3>2
  <2>5. /\ Cardinality(InCalls(n)) \in Nat /\ Cardinality(InChannels(n)) \in Nat
        /\ Cardinality(InHands(n)) \in Nat /\ Cardinality(InFlush(n)) \in Nat
    BY <2>1, FS_CardinalityType
  <2> QED
    BY <1>5, <2>1, <2>2, <2>3, <2>4, <2>5 DEF Balanced
<1> QED
  BY <1>2, <1>6, <1>7 DEF CountInv, PipelineTypes

\* What the other steps of the two loops leave alone.
LEMMA LoopStepCounts ==
  ASSUME PipelineTypes, CountInv, FlushInv, ControlInv, NEW p \in Producers,
         \/ Produce(p) \/ LoopIsActive(p) \/ ControlStart(p) \/ ReceiveStop(p) \/ SetStopping(p)
         \/ CloseChannel(p) \/ FlushWorkerWaitFor(p) \/ DrainDone(p) \/ SetDead(p)
         \/ \E d \in Producers : WaitForDependency(p, d)
  PROVE  PipelineTypes' /\ CountInv' /\ FlushInv'
<1> USE DEF Initializing, Waiting, Active, Stopping, Dead
<1>1. StateTypes /\ ChannelTypes /\ LoopTypes /\ FlushTypes /\ WorkTypes /\ MainTypes /\ CountTypes
  BY DEF PipelineTypes
<1>2. UNCHANGED <<channel, hand, flush, source, work, main, crashed, count, fresh, open>>
  BY DEF Produce, LoopIsActive, ControlStart, ReceiveStop, SetStopping, CloseChannel, FlushWorkerWaitFor,
         DrainDone, SetDead, WaitForDependency, historyVars
<1>3. ChannelTypes' /\ FlushTypes' /\ WorkTypes' /\ MainTypes' /\ CountTypes'
  BY <1>1, <1>2 DEF ChannelTypes, FlushTypes, WorkTypes, MainTypes, CountTypes
<1>4. CountInv'
  BY <1>2, NothingCounted
<1>5. LoopTypes'
  <2>1. CASE Produce(p) \/ LoopIsActive(p)
    BY <1>1, <1>2, <2>1 DEF LoopTypes, Produce, LoopIsActive
  <2>2. CASE UNCHANGED loop
    BY <1>1, <1>2, <2>2 DEF LoopTypes
  <2> QED
    BY <2>1, <2>2 DEF ControlStart, ReceiveStop, SetStopping, CloseChannel, FlushWorkerWaitFor,
                      DrainDone, SetDead, WaitForDependency
<1>6. StateTypes' /\ FlushInv'
  <2>1. CASE Produce(p) \/ LoopIsActive(p)
    <3>1. StateTypes'
      BY <1>1, <2>1 DEF StateTypes, Produce, LoopIsActive
    <3>2. CASE Produce(p)
      <4>1. control[p] = "none" /\ control' = [control EXCEPT ![p] = "start"]
        BY <3>2 DEF Produce, ControlInv
      <4> QED
        BY <1>1, <1>2, <3>1, <4>1 DEF FlushInv, StateTypes
    <3>3. CASE LoopIsActive(p)
      BY <1>2, <3>1, <3>3 DEF FlushInv, LoopIsActive
    <3> QED
      BY <2>1, <3>2, <3>3
  <2>2. CASE ControlStart(p) \/ ReceiveStop(p) \/ SetStopping(p)
    <3>1. control[p] \in {"start", "command", "waitFor"}
          /\ \E label \in {"command", "waitFor", "close", "dead"} : control' = [control EXCEPT ![p] = label]
      BY <2>2 DEF ControlStart, ReceiveStop, SetStopping, ControlGoto
    <3>2. FlushInv'
      BY <1>1, <1>2, <3>1 DEF StateTypes, FlushInv
    <3>3. state' = state \/ \E s \in {Active, Stopping} : state' = [state EXCEPT ![p] = s]
      BY <2>2 DEF ControlStart, ReceiveStop, SetStopping
    <3>4. waitFor' = waitFor \/ waitFor' = [waitFor EXCEPT ![p] = DependsOn[p]]
      BY <2>2 DEF ControlStart, ReceiveStop, SetStopping
    <3>5. closed' = closed /\ (stop' = stop \/ stop' = [stop EXCEPT ![p] = FALSE])
      BY <2>2 DEF ControlStart, ReceiveStop, SetStopping
    <3>6. DependsOn[p] \in SUBSET Producers
      BY PipelineAssumption
    <3>7. waitFor' \in [Producers -> SUBSET Producers]
      BY <1>1, <3>4, <3>6 DEF StateTypes
    <3>8. state' \in [Producers -> Initializing .. Dead]
      BY <1>1, <3>3 DEF StateTypes
    <3>9. closed' \in [Producers -> BOOLEAN] /\ stop' \in [Producers -> BOOLEAN]
      BY <1>1, <3>5 DEF StateTypes
    <3>10. control' \in [Producers -> {"none", "start", "command", "waitFor", "close", "drain",
                                       "flushWorker", "dropRest", "dead", "done"}]
      BY <1>1, <3>1 DEF StateTypes
    <3> QED
      BY <3>2, <3>7, <3>8, <3>9, <3>10 DEF StateTypes
  <2>3. CASE CloseChannel(p) \/ FlushWorkerWaitFor(p)
    BY <1>1, <1>2, <2>3 DEF StateTypes, FlushInv, CloseChannel, FlushWorkerWaitFor, ControlGoto
  <2>4. CASE DrainDone(p) \/ SetDead(p)
    <3>1. control[p] \in {"drain", "dropRest", "dead"}
          /\ \E label \in {"dead", "done"} : control' = [control EXCEPT ![p] = label]
      BY <2>4 DEF DrainDone, SetDead, ControlGoto
    <3>2. FlushInv'
      BY <1>1, <1>2, <3>1 DEF StateTypes, FlushInv
    <3>3. UNCHANGED <<closed, stop, waitFor>> /\ (state' = state \/ state' = [state EXCEPT ![p] = Dead])
      BY <2>4 DEF DrainDone, SetDead
    <3> QED
      BY <1>1, <3>1, <3>2, <3>3 DEF StateTypes
  <2>5. CASE \E d \in Producers : WaitForDependency(p, d)
    BY <1>1, <1>2, <2>5 DEF StateTypes, FlushInv, WaitForDependency
  <2> QED
    BY <2>1, <2>2, <2>3, <2>4, <2>5
<1> QED
  BY <1>1, <1>2, <1>3, <1>4, <1>5, <1>6 DEF PipelineTypes

\* ... and those of the consumers and of the multiplexer.
LEMMA OtherStepCounts ==
  ASSUME PipelineTypes, CountInv, FlushInv,
         \/ Shutdown \/ Main \/ UNCHANGED vars
         \/ \E s \in Sources : StopConsumer(s) \/ SourceDone(s)
         \/ \E t \in Threads : SendPanics(t)
  PROVE  PipelineTypes' /\ CountInv' /\ FlushInv'
<1>1. /\ UNCHANGED <<state, channel, closed, loop, hand, control, waitFor, flush, work, count, fresh, open>>
      /\ stop' = stop \/ stop' = [p \in Producers |-> TRUE]
  BY DEF Shutdown, Main, ConsumersDone, StopProducers, ProducersDone, vars, StopConsumer, SourceDone, SendPanics,
         producerVars, historyVars
<1>2. MainTypes'
  <2>1. CASE \E s \in Sources : StopConsumer(s) \/ SourceDone(s)
    BY <2>1 DEF PipelineTypes, MainTypes, StopConsumer, SourceDone, historyVars
  <2>2. CASE \E t \in Threads : SendPanics(t)
    BY <2>2 DEF PipelineTypes, MainTypes, SendPanics, historyVars
  <2>3. CASE Shutdown \/ Main \/ UNCHANGED vars
    BY <2>3 DEF PipelineTypes, MainTypes, Shutdown, Main, ConsumersDone, StopProducers, ProducersDone, vars, historyVars
  <2> QED
    BY <2>1, <2>2, <2>3
<1>3. CountInv'
  BY <1>1, NothingCounted
<1> QED
  BY <1>1, <1>2, <1>3 DEF PipelineTypes, StateTypes, ChannelTypes, LoopTypes, FlushTypes, WorkTypes, CountTypes, FlushInv


-----------------------------------------------------------------------------
(* The order of the shutdown: the steps of the goroutines that call Enqueue *)

\* A call is replaced by calls for the same producer and for the listeners of its drop stream.
LEMMA ReachGoesOn ==
  ASSUME WorkTypes, ReachInv, NEW t \in Threads, work[t] # <<>>, NEW next \in Seq(Calls), Replace(t, next),
         \A i \in 1 .. Len(next) : next[i].prod = Top(t).prod \/ next[i].prod \in Listens(Top(t).prod)
  PROVE  ReachInv'
<1>1. work[t] \in Seq(Calls) /\ work' = [work EXCEPT ![t] = next \o Tail(work[t])]
  BY TopCall, GoesOn
<1>2. /\ Tail(work[t]) \in Seq(Calls) /\ Len(Tail(work[t])) = Len(work[t]) - 1 /\ Len(work[t]) \in Nat
      /\ \A i \in 1 .. Len(Tail(work[t])) : Tail(work[t])[i] = work[t][i + 1]
      /\ DOMAIN work[t] = 1 .. Len(work[t]) /\ Len(work[t]) # 0
  BY <1>1, HeadTailProperties, LenProperties, EmptySeq
<1>3. /\ Len(next) \in Nat /\ DOMAIN (next \o Tail(work[t])) = 1 .. Len(next) + Len(Tail(work[t]))
      /\ \A i \in 1 .. Len(next) + Len(Tail(work[t])) :
           (next \o Tail(work[t]))[i] = IF i <= Len(next) THEN next[i] ELSE Tail(work[t])[i - Len(next)]
  BY <1>2, ConcatProperties, LenProperties
<1>4. Top(t) = work[t][1] /\ 1 \in DOMAIN work[t]
  BY <1>1, <1>2 DEF Top
<1> SUFFICES ASSUME NEW p \in Producers, NEW X \in SUBSET Producers, Listens(p) \subseteq X, DropClosed(X),
                    NEW i \in DOMAIN work'[p]
             PROVE  work'[p][i].prod \in X
  BY DEF ReachInv, DropClosed, Listens
<1>5. \A j \in DOMAIN work[p] : work[p][j].prod \in X
  BY DEF ReachInv
<1>6. CASE p # t
  BY <1>1, <1>5, <1>6 DEF WorkTypes, Threads
<1>7. CASE p = t
  <2>1. work'[p] = next \o Tail(work[t])
    BY <1>1, <1>7 DEF WorkTypes
  <2>2. Top(t).prod \in X /\ Listens(Top(t).prod) \subseteq X
    BY <1>4, <1>5, <1>7 DEF DropClosed
  <2>3. CASE i <= Len(next)
    <3>1. i \in 1 .. Len(next) /\ work'[p][i] = next[i]
      BY <1>2, <1>3, <2>1, <2>3
    <3> QED
      BY <2>2, <3>1
  <2>4. CASE ~(i <= Len(next))
    <3>1. i - Len(next) \in 1 .. Len(Tail(work[t])) /\ work'[p][i] = Tail(work[t])[i - Len(next)]
      BY <1>2, <1>3, <2>1, <2>4
    <3>2. i - Len(next) + 1 \in 1 .. Len(work[t])
      BY <1>2, <1>3, <3>1
    <3>3. work'[p][i] = work[t][i - Len(next) + 1]
      BY <1>2, <3>1
    <3> QED
      BY <1>2, <1>5, <1>7, <3>2, <3>3
  <2> QED
    BY <2>3, <2>4
<1> QED
  BY <1>6, <1>7

\* The calls of Drop are such calls.
LEMMA ReachDrops ==
  ASSUME WorkTypes, ReachInv, NEW t \in Threads, work[t] # <<>>, NEW m \in Messages, NEW rest \in Seq(Calls),
         \A i \in 1 .. Len(rest) : rest[i].prod = Top(t).prod, Drop(t, Top(t).prod, m, rest)
  PROVE  ReachInv'
<1> DEFINE p == Top(t).prod
           calls == Broadcast(DropListeners[p], m)
<1>1. p \in Producers /\ DropListeners[p] \in Seq(Producers)
  BY TopCall, PipelineAssumption
<1>2. /\ calls \in Seq(Calls) /\ Len(calls) = Len(DropListeners[p]) /\ Len(calls) \in Nat
      /\ \A i \in 1 .. Len(calls) : calls[i].prod = DropListeners[p][i]
  BY <1>1, BroadcastCalls, LenProperties
<1>3. Replace(t, calls \o rest)
  BY DEF Drop
<1>4. DOMAIN DropListeners[p] = 1 .. Len(calls)
  BY <1>1, <1>2, LenProperties
<1>5. \A i \in 1 .. Len(calls) : calls[i].prod \in Listens(p)
  BY <1>2, <1>4 DEF Listens
<1> HIDE DEF calls
<1>6. /\ calls \o rest \in Seq(Calls) /\ Len(calls \o rest) = Len(calls) + Len(rest) /\ Len(rest) \in Nat
      /\ \A i \in 1 .. Len(calls) + Len(rest) :
           (calls \o rest)[i] = IF i <= Len(calls) THEN calls[i] ELSE rest[i - Len(calls)]
  <2>1. calls \in Seq(Calls)
    BY <1>2
  <2> QED
    BY <2>1, ConcatProperties, LenProperties
<1>7. ASSUME NEW i \in 1 .. Len(calls \o rest)
      PROVE  (calls \o rest)[i].prod = p \/ (calls \o rest)[i].prod \in Listens(p)
  <2>1. CASE i <= Len(calls)
    BY <1>2, <1>5, <1>6, <2>1
  <2>2. CASE ~(i <= Len(calls))
    <3>1. i - Len(calls) \in 1 .. Len(rest) /\ (calls \o rest)[i] = rest[i - Len(calls)]
      BY <1>2, <1>6, <2>2
    <3> QED
      BY <3>1
  <2> QED
    BY <2>1, <2>2
<1> QED
  BY <1>3, <1>6, <1>7, ReachGoesOn

\* What a step within a call may do to the other variables.
LEMMA CallStepOrder ==
  ASSUME OrderInv, WorkTypes, UNCHANGED <<closed, stop, loop, control, waitFor, source, main>>,
         \A u \in Threads : work'[u] # <<>> => work[u] # <<>>,
         \A p \in Producers : state'[p] = state[p] \/ state'[p] \in {Waiting, Active},
         \A p \in Producers : channel'[p] = channel[p] \/ ~closed[p],
         ReachInv'
  PROVE  OrderInv'
<1>1. ControlInv'
  <2> SUFFICES ASSUME NEW p \in Producers
               PROVE  /\ loop[p] = "start" <=> control[p] = "none"
                      /\ state'[p] >= Stopping => control[p] \in Gone
                      /\ state'[p] = Dead => control[p] = "done"
                      /\ closed[p] <=> p \in Closing /\ control[p] \in Gone \ {"close"}
                      /\ p \notin Closing => control[p] \in BeforeStop \cup {"waitFor", "dead", "done"}
                      /\ p \in Closing /\ control[p] \in {"dead", "done"} => channel'[p] = <<>>
                      /\ work'[p] # <<>> => control[p] = "dropRest"
    BY DEF ControlInv, BeforeStop, Gone
  <2>1. /\ loop[p] = "start" <=> control[p] = "none"
        /\ closed[p] <=> p \in Closing /\ control[p] \in Gone \ {"close"}
        /\ p \notin Closing => control[p] \in BeforeStop \cup {"waitFor", "dead", "done"}
        /\ p \in Closing /\ control[p] \in {"dead", "done"} => channel[p] = <<>>
        /\ work[p] # <<>> => control[p] = "dropRest"
    BY DEF OrderInv, ControlInv
  <2>2. state'[p] >= Stopping => control[p] \in Gone
    BY DEF OrderInv, ControlInv, Waiting, Active, Stopping
  <2>3. state'[p] = Dead => control[p] = "done"
    BY DEF OrderInv, ControlInv, Waiting, Active, Dead
  <2>4. p \in Closing /\ control[p] \in {"dead", "done"} => channel'[p] = <<>>
    BY <2>1 DEF Gone
  <2>5. work'[p] # <<>> => work[p] # <<>>
    BY DEF Threads
  <2> QED
    BY <2>1, <2>2, <2>3, <2>4, <2>5
<1>2. MainInv'
  BY DEF OrderInv, MainInv, BeforeStop, Threads
<1>3. WaitInv'
  BY DEF OrderInv, WaitInv, BeforeStop
<1> QED
  BY <1>1, <1>2, <1>3 DEF OrderInv

\* Continuing leaves nobody else with calls.
LEMMA ReplaceLeaves ==
  ASSUME WorkTypes, NEW t \in Threads, work[t] # <<>>, NEW next \in Seq(Calls), Replace(t, next)
  PROVE  \A u \in Threads : work'[u] # <<>> => work[u] # <<>>
<1>1. work' = [work EXCEPT ![t] = next \o Tail(work[t])]
  BY GoesOn
<1> QED
  BY <1>1 DEF WorkTypes


\* The steps of Enqueue keep the order of the shutdown.
LEMMA ContinueOrder ==
  ASSUME PipelineTypes, OrderInv, NEW t \in Threads, Enqueue(t) \/ Send(t) \/ SendFails(t) \/ EnqueueSetState(t)
  PROVE  OrderInv'
<1> DEFINE p == Top(t).prod
           m == Top(t).msg
<1>1. WorkTypes /\ ReachInv /\ StateTypes /\ ChannelTypes /\ work[t] # <<>>
  BY DEF PipelineTypes, OrderInv, Enqueue, Send, SendFails, EnqueueSetState, InCall
<1>2. UNCHANGED <<closed, stop, loop, control, waitFor, source, main>>
  BY DEF Enqueue, Send, SendFails, EnqueueSetState, producerVars
<1>3. p \in Producers
  BY <1>1, TopCall
<1>4. SUFFICES /\ \A u \in Threads : work'[u] # <<>> => work[u] # <<>>
               /\ \A q \in Producers : state'[q] = state[q] \/ state'[q] \in {Waiting, Active}
               /\ \A q \in Producers : channel'[q] = channel[q] \/ ~closed[q]
               /\ ReachInv'
  BY <1>1, <1>2, CallStepOrder
<1>5. ASSUME NEW next \in Seq(Calls), Replace(t, next), \A i \in 1 .. Len(next) : next[i].prod = p
      PROVE  (\A u \in Threads : work'[u] # <<>> => work[u] # <<>>) /\ ReachInv'
  BY <1>1, <1>5, ReachGoesOn, ReplaceLeaves
<1>6. ASSUME NEW rest \in Seq(Calls), Top(t).op \in {"enqueue", "send"}, Drop(t, p, m, rest),
             \A i \in 1 .. Len(rest) : rest[i].prod = p
      PROVE  (\A u \in Threads : work'[u] # <<>> => work[u] # <<>>) /\ ReachInv'
  <2>1. m \in Messages
    BY <1>1, <1>6, TopCall
  <2>2. Broadcast(DropListeners[p], m) \o rest \in Seq(Calls)
    BY <1>3, <2>1, DropCalls, PipelineAssumption
  <2>3. Replace(t, Broadcast(DropListeners[p], m) \o rest)
    BY <1>6 DEF Drop
  <2>4. ReachInv'
    BY <1>1, <1>6, <2>1, ReachDrops
  <2>5. \A next \in Seq(Calls) : Replace(t, next) => \A u \in Threads : work'[u] # <<>> => work[u] # <<>>
    BY <1>1, ReplaceLeaves
  <2> QED
    BY <2>2, <2>3, <2>4, <2>5, Zenon
<1>7. ASSUME NEW c \in Calls, c.prod = p
      PROVE  <<c>> \in Seq(Calls) /\ \A i \in 1 .. Len(<<c>>) : <<c>>[i].prod = p
  BY <1>7
<1>8. <<>> \in Seq(Calls) /\ \A i \in 1 .. Len(<<>>) : <<>>[i].prod = p
  OBVIOUS
<1>9. CASE Enqueue(t)
  <2>1. UNCHANGED <<state, channel>> /\ Top(t).op = "enqueue" /\ m \in Messages
    BY <1>1, <1>9, TopCall DEF Enqueue, InCall, producerVars
  <2>2. [op |-> "send", prod |-> p, msg |-> m] \in Calls /\ [op |-> "send", prod |-> p, msg |-> m].prod = p
    BY <1>3, <2>1 DEF Calls
  <2>3. \/ Replace(t, <<>>) \/ Drop(t, p, m, <<>>) \/ Replace(t, <<[op |-> "send", prod |-> p, msg |-> m]>>)
    BY <1>9 DEF Enqueue
  <2>4. (\A u \in Threads : work'[u] # <<>> => work[u] # <<>>) /\ ReachInv'
    <3>1. CASE Replace(t, <<>>)
      BY <1>5, <1>8, <3>1
    <3>2. CASE Drop(t, p, m, <<>>)
      BY <1>6, <1>8, <2>1, <3>2
    <3>3. CASE Replace(t, <<[op |-> "send", prod |-> p, msg |-> m]>>)
      BY <1>5, <1>7, <2>2, <3>3
    <3> QED
      BY <2>3, <3>1, <3>2, <3>3
  <2> QED
    BY <2>1, <2>4
<1>10. CASE Send(t)
  <2>1. /\ state' = state /\ ~closed[p] /\ Replace(t, <<SetState(p, Active)>>)
        /\ channel' = [channel EXCEPT ![p] = Append(@, m)]
    BY <1>10 DEF Send
  <2>2. SetState(p, Active) \in Calls /\ SetState(p, Active).prod = p
    BY <1>3 DEF Calls, SetState
  <2>3. (\A u \in Threads : work'[u] # <<>> => work[u] # <<>>) /\ ReachInv'
    BY <1>5, <1>7, <2>1, <2>2
  <2>4. \A q \in Producers : channel'[q] = channel[q] \/ ~closed[q]
    BY <1>1, <2>1 DEF ChannelTypes
  <2> QED
    BY <2>1, <2>3, <2>4
<1>11. CASE SendFails(t)
  <2>1. UNCHANGED <<state, channel>> /\ Top(t).op = "send"
    BY <1>11 DEF SendFails, InCall, producerVars
  <2>2. SetState(p, Waiting) \in Calls /\ SetState(p, Waiting).prod = p
    BY <1>3 DEF Calls, SetState
  <2>3. Replace(t, <<SetState(p, Waiting)>>) \/ Drop(t, p, m, <<SetState(p, Waiting)>>)
    BY <1>11 DEF SendFails
  <2>4. (\A u \in Threads : work'[u] # <<>> => work[u] # <<>>) /\ ReachInv'
    <3>1. CASE Replace(t, <<SetState(p, Waiting)>>)
      BY <1>5, <1>7, <2>2, <3>1
    <3>2. CASE Drop(t, p, m, <<SetState(p, Waiting)>>)
      BY <1>6, <1>7, <2>1, <2>2, <3>2
    <3> QED
      BY <2>3, <3>1, <3>2
  <2> QED
    BY <2>1, <2>4
<1>12. CASE EnqueueSetState(t)
  <2>1. /\ Replace(t, <<>>) /\ UNCHANGED channel /\ Top(t).op = "setState"
        /\ state' = [state EXCEPT ![p] = Top(t).state]
    BY <1>12 DEF EnqueueSetState, InCall
  <2>2. Top(t).state \in {Waiting, Active}
    BY <1>1, <2>1, TopCall
  <2>3. \A q \in Producers : state'[q] = state[q] \/ state'[q] \in {Waiting, Active}
    BY <1>1, <2>1, <2>2 DEF StateTypes
  <2> QED
    BY <1>5, <1>8, <2>1, <2>3
<1> QED
  BY <1>9, <1>10, <1>11, <1>12

-----------------------------------------------------------------------------
(* ... of the consumers and the multiplexer *)

\* So do those of a source,
LEMMA SourceOrder ==
  ASSUME PipelineTypes, OrderInv, NEW s \in Sources,
         StopConsumer(s) \/ SourceDone(s) \/ \E m \in Messages : EnqueueMessage(s, m)
  PROVE  OrderInv'
<1>1. UNCHANGED <<state, channel, closed, stop, loop, control, waitFor, main>>
  BY DEF StopConsumer, SourceDone, EnqueueMessage, producerVars
<1>2. /\ s \in Threads /\ s \notin Producers /\ WorkTypes /\ source \in [Sources -> {"active", "stopping", "done"}]
      /\ ControlInv /\ MainInv /\ WaitInv /\ ReachInv
  BY PipelineAssumption DEF Threads, PipelineTypes, MainTypes, OrderInv
<1>3. \A u \in Threads \ {s} : work'[u] = work[u]
  BY <1>2 DEF StopConsumer, SourceDone, EnqueueMessage, WorkTypes
<1>4. \A p \in Producers : work'[p] = work[p]
  BY <1>2, <1>3 DEF Threads
<1>5. \A r \in Sources : source[r] = "done" => source'[r] = "done" /\ work'[r] = work[r]
  <2>1. CASE \E m \in Messages : EnqueueMessage(s, m)
    <3>1. source' = source /\ source[s] = "active"
      BY <2>1 DEF EnqueueMessage
    <3> QED
      BY <1>3, <3>1 DEF Threads
  <2>2. CASE StopConsumer(s) \/ SourceDone(s)
    BY <1>2, <2>2 DEF StopConsumer, SourceDone
  <2> QED
    BY <2>1, <2>2
<1>6. \A r \in Sources : source'[r] = "done" => source[r] = "done" \/ (r = s /\ work'[r] = <<>>)
  <2>1. CASE \E m \in Messages : EnqueueMessage(s, m)
    BY <2>1 DEF EnqueueMessage
  <2>2. CASE StopConsumer(s)
    BY <1>2, <2>2 DEF StopConsumer
  <2>3. CASE SourceDone(s)
    BY <1>2, <2>3 DEF SourceDone
  <2> QED
    BY <2>1, <2>2, <2>3
<1>7. ControlInv' /\ WaitInv' /\ ReachInv'
  BY <1>1, <1>2, <1>4 DEF ControlInv, WaitInv, ReachInv, BeforeStop, Gone, DropClosed, Listens
<1>8. MainInv'
  <2>1. \A r \in Sources : source'[r] = "done" => work'[r] = <<>>
    BY <1>2, <1>5, <1>6 DEF MainInv
  <2>2. main \notin {"run", "stopConsumers"} => \A r \in Sources \cap Counted : source'[r] = "done"
    BY <1>2, <1>5 DEF MainInv
  <2> QED
    BY <1>1, <1>2, <2>1, <2>2 DEF MainInv, BeforeStop
<1> QED
  BY <1>7, <1>8 DEF OrderInv

\* and of main.
LEMMA MainOrder ==
  ASSUME PipelineTypes, OrderInv, Shutdown \/ Main \/ UNCHANGED vars \/ \E t \in Threads : SendPanics(t)
  PROVE  OrderInv'
<1>1. UNCHANGED <<state, channel, closed, loop, control, waitFor, source, work>>
  BY DEF Shutdown, Main, ConsumersDone, StopProducers, ProducersDone, vars, SendPanics, producerVars
<1>2. ControlInv' /\ WaitInv' /\ ReachInv'
  BY <1>1 DEF OrderInv, ControlInv, WaitInv, ReachInv, BeforeStop, Gone, DropClosed, Listens
<1>3. MainInv'
  <2>1. MainInv
    BY DEF OrderInv
  <2>2. CASE Shutdown
    BY <1>1, <2>1, <2>2 DEF MainInv, Shutdown, producerVars, BeforeStop
  <2>3. CASE ConsumersDone
    BY <1>1, <2>1, <2>3 DEF MainInv, ConsumersDone, producerVars, BeforeStop
  <2>4. CASE StopProducers
    BY <1>1, <2>1, <2>4 DEF MainInv, StopProducers, BeforeStop
  <2>5. CASE ProducersDone
    BY <1>1, <2>1, <2>5 DEF MainInv, ProducersDone, producerVars, BeforeStop
  <2>6. CASE UNCHANGED <<main, stop>>
    BY <1>1, <2>1, <2>6 DEF MainInv, BeforeStop
  <2> QED
    BY <2>2, <2>3, <2>4, <2>5, <2>6 DEF Main, vars, SendPanics, producerVars
<1> QED
  BY <1>2, <1>3 DEF OrderInv


-----------------------------------------------------------------------------
(* ... and of the loops of the producers *)

ControlOf(p) ==
  /\ loop[p] = "start" <=> control[p] = "none"
  /\ state[p] >= Stopping => control[p] \in Gone
  /\ state[p] = Dead => control[p] = "done"
  /\ closed[p] <=> p \in Closing /\ control[p] \in Gone \ {"close"}
  /\ p \notin Closing => control[p] \in BeforeStop \cup {"waitFor", "dead", "done"}
  /\ p \in Closing /\ control[p] \in {"dead", "done"} => channel[p] = <<>>
  /\ work[p] # <<>> => control[p] = "dropRest"
StopOf(p) ==
  main \in {"run", "stopConsumers", "stopProducers"} => ~stop[p] /\ control[p] \in BeforeStop
WaitOf(q) ==
  \A p \in DependsOn[q] :
    ShutdownTimeout[q] = 0 =>
      \/ control[q] \in BeforeStop
      \/ control[q] = "waitFor" /\ p \in waitFor[q]
      \/ control[p] = "done"

\* The order of the shutdown is a property of each producer.
LEMMA OrderByProducer ==
  /\ ControlInv <=> \A p \in Producers : ControlOf(p)
  /\ WaitInv <=> \A p \in Producers : WaitOf(p)
  /\ MainInv <=> /\ \A p \in Producers : StopOf(p)
                 /\ main \notin {"run", "stopConsumers"} => \A s \in Sources \cap Counted : source[s] = "done"
                 /\ \A s \in Sources : source[s] = "done" => work[s] = <<>>
<1>1. ControlInv <=> \A p \in Producers : ControlOf(p)
  BY DEF ControlInv, ControlOf
<1>2. WaitInv <=> \A p \in Producers : WaitOf(p)
  BY DEF WaitInv, WaitOf
<1>3. MainInv <=> /\ \A p \in Producers : StopOf(p)
                  /\ main \notin {"run", "stopConsumers"} => \A s \in Sources \cap Counted : source[s] = "done"
                  /\ \A s \in Sources : source[s] = "done" => work[s] = <<>>
  BY DEF MainInv, StopOf
<1> QED
  BY <1>1, <1>2, <1>3

\* What a step of the loops of p may do to the others.
LEMMA LoopStepOrder ==
  ASSUME OrderInv, NEW p \in Producers, UNCHANGED <<source, main>>,
         \A u \in Threads \ {p} : work'[u] = work[u],
         \A q \in Producers \ {p} :
           /\ state'[q] = state[q] /\ channel'[q] = channel[q] /\ closed'[q] = closed[q] /\ stop'[q] = stop[q]
           /\ loop'[q] = loop[q] /\ control'[q] = control[q] /\ waitFor'[q] = waitFor[q],
         ControlOf(p)', StopOf(p)', WaitOf(p)', control[p] = "done" => control'[p] = "done",
         ReachInv'
  PROVE  OrderInv'
<1>1. /\ \A q \in Producers : ControlOf(q) /\ WaitOf(q) /\ StopOf(q)
      /\ main \notin {"run", "stopConsumers"} => \A s \in Sources \cap Counted : source[s] = "done"
      /\ \A s \in Sources : source[s] = "done" => work[s] = <<>>
  BY OrderByProducer DEF OrderInv
<1>2. \A q \in Producers : DependsOn[q] \subseteq Producers
  BY PipelineAssumption
<1>3. ASSUME NEW q \in Producers \ {p} PROVE ControlOf(q)' /\ StopOf(q)' /\ WaitOf(q)'
  <2>1. ControlOf(q)'
    <3>1. work'[q] = work[q]
      BY <1>3 DEF Threads
    <3> QED
      BY <1>1, <1>3, <3>1 DEF ControlOf, Gone, BeforeStop
  <2>2. StopOf(q)'
    BY <1>1, <1>3 DEF StopOf, BeforeStop
  <2>3. WaitOf(q)'
    <3> SUFFICES ASSUME NEW d \in DependsOn[q], ShutdownTimeout[q] = 0
                 PROVE  \/ control'[q] \in BeforeStop
                        \/ control'[q] = "waitFor" /\ d \in waitFor'[q]
                        \/ control'[d] = "done"
      BY DEF WaitOf, BeforeStop
    <3>1. control[d] = "done" => control'[d] = "done"
      BY <1>2, <1>3
    <3> QED
      BY <1>1, <1>3, <3>1 DEF WaitOf
  <2> QED
    BY <2>1, <2>2, <2>3
<1>4. \A q \in Producers : ControlOf(q)' /\ StopOf(q)' /\ WaitOf(q)'
  BY <1>3
<1>5. \A s \in Sources : work'[s] = work[s]
  BY PipelineAssumption DEF Threads
<1>6. ControlInv' <=> \A q \in Producers : ControlOf(q)'
  BY DEF ControlInv, ControlOf
<1>7. WaitInv' <=> \A q \in Producers : WaitOf(q)'
  BY DEF WaitInv, WaitOf
<1>8. MainInv' <=> /\ \A q \in Producers : StopOf(q)'
                   /\ main' \notin {"run", "stopConsumers"} => \A s \in Sources \cap Counted : source'[s] = "done"
                   /\ \A s \in Sources : source'[s] = "done" => work'[s] = <<>>
  BY DEF MainInv, StopOf
<1> QED
  BY <1>1, <1>4, <1>5, <1>6, <1>7, <1>8 DEF OrderInv


\* The steps that make no calls.
LEMMA QuietStepOrder ==
  ASSUME PipelineTypes, OrderInv, NEW p \in Producers, MessageLoop(p) \/ ControlLoop(p) \/ FlushHandled(p), ~DropRest(p)
  PROVE  OrderInv'
<1> USE DEF Initializing, Waiting, Active, Stopping, Dead
<1>1. /\ \A q \in Producers : ControlOf(q) /\ WaitOf(q) /\ StopOf(q)
      /\ ControlOf(p) /\ WaitOf(p) /\ StopOf(p)
      /\ StateTypes /\ ChannelTypes /\ LoopTypes /\ ReachInv
  BY OrderByProducer DEF OrderInv, PipelineTypes
<1>2. UNCHANGED <<source, main, work>>
  BY DEF MessageLoop, ControlLoop, Produce, LoopIsActive, LoopReceive, LoopHandled, ControlStart, ReceiveStop, SetStopping,
         CloseChannel, DrainReceive, FlushWorkerWaitFor, DrainDone, SetDead, WaitForDependency, FlushHandled
<1>3. ReachInv'
  BY <1>1, <1>2 DEF ReachInv, DropClosed, Listens
<1>4. SUFFICES /\ \A q \in Producers \ {p} :
                    /\ state'[q] = state[q] /\ channel'[q] = channel[q] /\ closed'[q] = closed[q] /\ stop'[q] = stop[q]
                    /\ loop'[q] = loop[q] /\ control'[q] = control[q] /\ waitFor'[q] = waitFor[q]
               /\ ControlOf(p)' /\ StopOf(p)' /\ WaitOf(p)' /\ (control[p] = "done" => control'[p] = "done")
  BY <1>2, <1>3, LoopStepOrder
<1>5. p \in Closing /\ control[p] \in {"dead", "done"} => channel[p] = <<>>
  BY <1>1 DEF ControlOf
<1>6. CASE Produce(p)
  <2>1. /\ loop[p] = "start" /\ state' = [state EXCEPT ![p] = Active] /\ loop' = [loop EXCEPT ![p] = "isActive"]
        /\ control' = [control EXCEPT ![p] = "start"] /\ UNCHANGED <<channel, closed, stop, waitFor>>
    BY <1>6 DEF Produce
  <2>2. /\ control[p] = "none" /\ control'[p] = "start" /\ loop'[p] = "isActive" /\ state'[p] = Active
        /\ closed'[p] = closed[p] /\ channel'[p] = channel[p] /\ work'[p] = work[p]
    BY <1>1, <1>2, <2>1 DEF ControlOf, StateTypes, LoopTypes
  <2>3. ControlOf(p)'
    BY <1>1, <2>2 DEF ControlOf, BeforeStop, Gone
  <2>4. StopOf(p)' /\ WaitOf(p)'
    BY <1>1, <1>2, <2>1, <2>2 DEF StopOf, WaitOf, BeforeStop
  <2>5. \A q \in Producers \ {p} : state'[q] = state[q] /\ loop'[q] = loop[q] /\ control'[q] = control[q]
    BY <1>1, <2>1 DEF StateTypes, LoopTypes
  <2> QED
    BY <2>1, <2>2, <2>3, <2>4, <2>5
<1>7. CASE LoopIsActive(p) \/ LoopReceive(p) \/ LoopHandled(p) \/ FlushHandled(p)
  <2>1. UNCHANGED <<state, closed, stop, control, waitFor>>
    BY <1>7 DEF LoopIsActive, LoopReceive, LoopHandled, FlushHandled
  <2>2. loop'[p] = "start" <=> loop[p] = "start"
    BY <1>1, <1>7 DEF LoopIsActive, LoopReceive, LoopHandled, FlushHandled, LoopTypes
  <2>3. channel[p] = <<>> => channel'[p] = <<>>
    BY <1>7 DEF LoopIsActive, LoopReceive, LoopHandled, FlushHandled
  <2>4. \A q \in Producers \ {p} : loop'[q] = loop[q] /\ channel'[q] = channel[q]
    <3>1. \A q \in Producers \ {p} : channel'[q] = channel[q]
      BY <1>1, <1>7 DEF LoopIsActive, LoopReceive, LoopHandled, FlushHandled, ChannelTypes
    <3>2. \A q \in Producers \ {p} : loop'[q] = loop[q]
      BY <1>1, <1>7 DEF LoopIsActive, LoopReceive, LoopHandled, FlushHandled, LoopTypes
    <3> QED
      BY <3>1, <3>2
  <2>5. ControlOf(p)'
    BY <1>1, <1>2, <2>1, <2>2, <2>3 DEF ControlOf, BeforeStop, Gone
  <2>6. StopOf(p)' /\ WaitOf(p)'
    BY <1>1, <1>2, <2>1 DEF StopOf, WaitOf, BeforeStop
  <2> QED
    BY <2>1, <2>4, <2>5, <2>6
<1>8. CASE ControlStart(p) \/ ReceiveStop(p)
  <2>1. /\ control[p] \in {"start", "command"} /\ UNCHANGED <<channel, closed, loop>>
        /\ \/ /\ state' = [state EXCEPT ![p] = Active] /\ control' = [control EXCEPT ![p] = "command"]
              /\ UNCHANGED <<stop, waitFor>>
           \/ /\ stop[p] /\ stop' = [stop EXCEPT ![p] = FALSE] /\ waitFor' = [waitFor EXCEPT ![p] = DependsOn[p]]
              /\ control' = [control EXCEPT ![p] = "waitFor"] /\ state' = state
    BY <1>8 DEF ControlStart, ReceiveStop, ControlGoto
  <2>2. \A q \in Producers \ {p} :
          state'[q] = state[q] /\ stop'[q] = stop[q] /\ control'[q] = control[q] /\ waitFor'[q] = waitFor[q]
    BY <1>1, <2>1 DEF StateTypes
  <2>3. control[p] # "none" /\ (state'[p] = state[p] \/ state'[p] = Active) /\ channel'[p] = channel[p]
        /\ closed'[p] = closed[p] /\ loop'[p] = loop[p] /\ control'[p] \in {"command", "waitFor"} /\ work'[p] = work[p]
    BY <1>1, <1>2, <2>1 DEF StateTypes
  <2>4. ControlOf(p)'
    BY <1>1, <2>1, <2>3 DEF ControlOf, BeforeStop, Gone
  <2>5. StopOf(p)'
    BY <1>1, <1>2, <2>1 DEF StopOf, BeforeStop, StateTypes
  <2>6. WaitOf(p)'
    BY <1>1, <2>1 DEF WaitOf, BeforeStop, StateTypes
  <2> QED
    BY <2>1, <2>2, <2>4, <2>5, <2>6
<1>9. CASE \E d \in Producers : WaitForDependency(p, d)
  <2> PICK d \in Producers : WaitForDependency(p, d)
    BY <1>9
  <2>1. /\ control[p] = "waitFor" /\ (state[d] >= Dead \/ ShutdownTimeout[p] > 0)
        /\ waitFor' = [waitFor EXCEPT ![p] = @ \ {d}] /\ UNCHANGED <<state, channel, closed, stop, loop, control>>
    BY DEF WaitForDependency
  <2>2. control[d] = "done" \/ ShutdownTimeout[p] > 0
    <3>1. state[d] \in 0 .. 4
      BY <1>1 DEF StateTypes
    <3>2. state[d] >= 4 => state[d] = 4
      BY <3>1
    <3> QED
      BY <1>1, <2>1, <3>2 DEF ControlOf
  <2>3. WaitOf(p)'
    <3> SUFFICES ASSUME NEW e \in DependsOn[p], ShutdownTimeout[p] = 0
                 PROVE  e \in waitFor'[p] \/ control'[e] = "done"
      BY <2>1 DEF WaitOf, BeforeStop
    <3>1. waitFor'[p] = waitFor[p] \ {d}
      BY <1>1, <2>1 DEF StateTypes
    <3>2. e \in waitFor[p] \/ control[e] = "done"
      BY <1>1, <2>1 DEF WaitOf, BeforeStop
    <3>3. ~(ShutdownTimeout[p] > 0)
      OBVIOUS
    <3> QED
      BY <2>1, <2>2, <3>1, <3>2, <3>3
  <2>4. ControlOf(p)' /\ StopOf(p)'
    BY <1>1, <1>2, <2>1 DEF ControlOf, StopOf, BeforeStop, Gone
  <2>5. \A q \in Producers \ {p} : waitFor'[q] = waitFor[q]
    BY <1>1, <2>1 DEF StateTypes
  <2> QED
    BY <2>1, <2>3, <2>4, <2>5
<1>10. CASE SetStopping(p)
  <2>1. /\ control[p] = "waitFor" /\ waitFor[p] = {} /\ state' = [state EXCEPT ![p] = Stopping]
        /\ control' = [control EXCEPT ![p] = IF p \in Closing THEN "close" ELSE "dead"]
        /\ UNCHANGED <<channel, closed, stop, loop, waitFor>>
    BY <1>10 DEF SetStopping, ControlGoto
  <2>2. /\ state'[p] = Stopping /\ control'[p] = (IF p \in Closing THEN "close" ELSE "dead") /\ work'[p] = work[p]
        /\ \A q \in Producers \ {p} : state'[q] = state[q] /\ control'[q] = control[q]
    BY <1>1, <1>2, <2>1 DEF StateTypes
  <2>3. ControlOf(p)'
    BY <1>1, <2>1, <2>2 DEF ControlOf, BeforeStop, Gone
  <2>4. StopOf(p)'
    BY <1>1, <1>2, <2>1 DEF StopOf, BeforeStop
  <2>5. WaitOf(p)'
    <3> SUFFICES ASSUME NEW e \in DependsOn[p], ShutdownTimeout[p] = 0 PROVE control'[e] = "done"
      BY DEF WaitOf
    <3>1. control[e] = "done"
      BY <1>1, <2>1 DEF WaitOf, BeforeStop
    <3>2. e \in Producers
      BY PipelineAssumption
    <3> QED
      BY <2>1, <2>2, <3>1, <3>2
  <2> QED
    BY <2>1, <2>2, <2>3, <2>4, <2>5
<1>11. CASE CloseChannel(p) \/ DrainReceive(p) \/ FlushWorkerWaitFor(p) \/ DrainDone(p) \/ SetDead(p)
  <2>1. control[p] \in {"close", "drain", "flushWorker", "dropRest", "dead"} /\ UNCHANGED <<loop, stop, waitFor>>
    BY <1>11 DEF CloseChannel, DrainReceive, FlushWorkerWaitFor, DrainDone, SetDead
  <2>2. /\ control' = [control EXCEPT ![p] = control'[p]]
        /\ control'[p] \in {"drain", "flushWorker", "dropRest", "dead", "done"}
    BY <1>1, <1>11 DEF CloseChannel, DrainReceive, FlushWorkerWaitFor, DrainDone, SetDead, ControlGoto, StateTypes
  <2>3. /\ state'[p] = state[p] \/ (state'[p] = Dead /\ control'[p] = "done")
        /\ \A q \in Producers \ {p} : state'[q] = state[q]
    BY <1>1, <1>11 DEF CloseChannel, DrainReceive, FlushWorkerWaitFor, DrainDone, SetDead, ControlGoto, StateTypes
  <2>4. /\ \A q \in Producers \ {p} : closed'[q] = closed[q]
        /\ CloseChannel(p) => closed'[p] /\ control[p] = "close"
        /\ ~CloseChannel(p) => closed'[p] = closed[p]
    <3>1. CASE CloseChannel(p)
      BY <1>1, <3>1 DEF CloseChannel, StateTypes
    <3>2. CASE ~CloseChannel(p)
      BY <1>11, <3>2 DEF DrainReceive, FlushWorkerWaitFor, DrainDone, SetDead
    <3> QED
      BY <3>1, <3>2
  <2>5. ~CloseChannel(p) => control[p] # "close"
    BY <1>11 DEF DrainReceive, FlushWorkerWaitFor, DrainDone, SetDead
  <2>6. \A q \in Producers \ {p} : channel'[q] = channel[q] /\ control'[q] = control[q]
    <3>1. \A q \in Producers \ {p} : channel'[q] = channel[q]
      BY <1>1, <1>11 DEF CloseChannel, DrainReceive, FlushWorkerWaitFor, DrainDone, SetDead, ChannelTypes
    <3> QED
      BY <1>1, <2>2, <3>1 DEF StateTypes
  <2>7. /\ control'[p] \in {"dead", "done"} => channel'[p] = channel[p] /\ (channel[p] = <<>> \/ control[p] = "dead")
        /\ p \notin Closing => control[p] = "dead" /\ control'[p] = "done"
        /\ control'[p] = "dead" => work[p] = <<>>
    <3>1. p \notin Closing => control[p] = "dead"
      BY <1>1, <2>1 DEF ControlOf, BeforeStop
    <3>2. control[p] = "dead" => control'[p] = "done"
      BY <1>1, <1>11 DEF CloseChannel, DrainReceive, FlushWorkerWaitFor, DrainDone, SetDead, ControlGoto, StateTypes
    <3>3. control'[p] \in {"dead", "done"} => channel'[p] = channel[p] /\ (channel[p] = <<>> \/ control[p] = "dead")
      <4>1. CASE CloseChannel(p) \/ DrainReceive(p) \/ FlushWorkerWaitFor(p)
        BY <1>1, <4>1 DEF CloseChannel, DrainReceive, FlushWorkerWaitFor, ControlGoto, StateTypes
      <4>2. CASE DrainDone(p) \/ SetDead(p)
        BY <4>2 DEF DrainDone, SetDead
      <4> QED
        BY <1>11, <4>1, <4>2
    <3>4. control'[p] = "dead" => work[p] = <<>>
      <4>1. CASE CloseChannel(p) \/ DrainReceive(p) \/ FlushWorkerWaitFor(p) \/ SetDead(p)
        BY <1>1, <4>1 DEF CloseChannel, DrainReceive, FlushWorkerWaitFor, SetDead, ControlGoto, StateTypes
      <4>2. CASE DrainDone(p)
        BY <4>2 DEF DrainDone
      <4> QED
        BY <1>11, <4>1, <4>2
    <3> QED
      BY <3>1, <3>2, <3>3, <3>4
  <2>8. work[p] # <<>> => control'[p] = "dropRest"
    <3>1. CASE work[p] # <<>>
      <4>1. control[p] = "dropRest"
        BY <1>1, <3>1 DEF ControlOf
      <4> QED
        BY <1>11, <3>1, <4>1 DEF CloseChannel, DrainReceive, FlushWorkerWaitFor, DrainDone, SetDead
    <3> QED
      BY <3>1
  <2>9. /\ loop'[p] = "start" <=> control'[p] = "none"
        /\ state'[p] >= Stopping => control'[p] \in Gone
        /\ state'[p] = Dead => control'[p] = "done"
    BY <1>1, <2>1, <2>2, <2>3 DEF ControlOf, Gone
  <2>10. closed'[p] <=> p \in Closing /\ control'[p] \in Gone \ {"close"}
    BY <1>1, <2>1, <2>2, <2>4, <2>5, <2>7 DEF ControlOf, Gone
  <2>11. /\ p \notin Closing => control'[p] \in BeforeStop \cup {"waitFor", "dead", "done"}
         /\ p \in Closing /\ control'[p] \in {"dead", "done"} => channel'[p] = <<>>
         /\ work'[p] # <<>> => control'[p] = "dropRest"
    BY <1>2, <1>5, <2>7, <2>8
  <2>12. ControlOf(p)'
    BY <2>9, <2>10, <2>11 DEF ControlOf, BeforeStop, Gone
  <2>13. StopOf(p)'
    BY <1>1, <1>2, <2>1 DEF StopOf, BeforeStop
  <2>14. WaitOf(p)'
    <3> SUFFICES ASSUME NEW e \in DependsOn[p], ShutdownTimeout[p] = 0 PROVE control'[e] = "done"
      BY DEF WaitOf
    <3>1. control[e] = "done"
      BY <1>1, <2>1 DEF WaitOf, BeforeStop
    <3>2. e \in Producers
      BY PipelineAssumption
    <3>3. e # p
      BY <2>1, <3>1
    <3> QED
      BY <2>6, <3>1, <3>2, <3>3
  <2> QED
    BY <2>1, <2>3, <2>4, <2>6, <2>12, <2>13, <2>14
<1> QED
  BY <1>6, <1>7, <1>8, <1>9, <1>10, <1>11 DEF MessageLoop, ControlLoop


\* Dropping the rest keeps the order.
LEMMA DropRestOrder ==
  ASSUME PipelineTypes, OrderInv, NEW p \in Producers, DropRest(p)
  PROVE  OrderInv'
<1> DEFINE x == Head(channel[p])
           calls == Broadcast(DropListeners[p], x)
<1>1. /\ control[p] = "dropRest" /\ channel[p] # <<>> /\ work' = [work EXCEPT ![p] = calls]
      /\ channel' = [channel EXCEPT ![p] = Tail(@)]
      /\ UNCHANGED <<state, closed, stop, loop, control, waitFor, source, main>>
      /\ WorkTypes /\ ChannelTypes /\ ControlOf(p) /\ WaitOf(p) /\ StopOf(p) /\ p \in Threads
  BY OrderByProducer DEF DropRest, PipelineTypes, OrderInv, Threads
<1>2. x \in Messages
  BY <1>1, ReceivedTypes
<1>3. DropListeners[p] \in Seq(Producers)
  BY PipelineAssumption
<1>4. calls \in Seq(Calls) /\ \A i \in 1 .. Len(calls) : calls[i].prod \in Listens(p)
  <2>1. /\ calls \in Seq(Calls) /\ Len(calls) = Len(DropListeners[p])
        /\ \A i \in 1 .. Len(DropListeners[p]) : calls[i].prod = DropListeners[p][i]
    BY <1>2, <1>3, BroadcastCalls
  <2>2. DOMAIN DropListeners[p] = 1 .. Len(DropListeners[p])
    BY <1>3, LenProperties
  <2> QED
    BY <2>1, <2>2 DEF Listens
<1> HIDE DEF calls, x
<1>5. work'[p] = calls /\ \A u \in Threads \ {p} : work'[u] = work[u]
  BY <1>1 DEF WorkTypes
<1>6. \A q \in Producers \ {p} : channel'[q] = channel[q]
  BY <1>1 DEF ChannelTypes
<1>7. ReachInv'
  <2> SUFFICES ASSUME NEW q \in Producers, NEW X \in SUBSET Producers, Listens(q) \subseteq X, DropClosed(X),
                      NEW i \in DOMAIN work'[q]
               PROVE  work'[q][i].prod \in X
    BY DEF ReachInv, DropClosed, Listens
  <2>1. CASE q = p
    <3>1. DOMAIN calls = 1 .. Len(calls)
      BY <1>4, LenProperties
    <3> QED
      BY <1>4, <1>5, <2>1, <3>1
  <2>2. CASE q # p
    BY <1>5, <2>2 DEF OrderInv, ReachInv, Threads
  <2> QED
    BY <2>1, <2>2
<1>8. ControlOf(p)'
  BY <1>1 DEF ControlOf, BeforeStop, Gone
<1>9. StopOf(p)' /\ WaitOf(p)'
  BY <1>1 DEF StopOf, WaitOf, BeforeStop
<1> QED
  BY <1>1, <1>5, <1>6, <1>7, <1>8, <1>9, LoopStepOrder

-----------------------------------------------------------------------------
(* The inductive invariant *)

\* The invariant holds at first.
LEMMA PipelineInit == Init => PipelineInv
<1> SUFFICES ASSUME Init PROVE PipelineInv
  OBVIOUS
<1> USE DEF Initializing, Waiting, Active, Stopping, Dead
<1>1. PipelineTypes
  <2>1. <<>> \in Seq(Messages) /\ <<>> \in Seq(Calls) /\ Len(<<>>) = 0
    OBVIOUS
  <2>2. ChannelTypes /\ WorkTypes
    BY <2>1, PipelineAssumption DEF Init, ChannelTypes, WorkTypes
  <2>3. StateTypes /\ LoopTypes /\ FlushTypes
    BY DEF Init, StateTypes, LoopTypes, FlushTypes
  <2>4. MainTypes /\ CountTypes
    BY PipelineAssumption DEF Init, MainTypes, CountTypes
  <2> QED
    BY <2>2, <2>3, <2>4 DEF PipelineTypes
<1>2. CountInv
  <2> SUFFICES ASSUME NEW m \in Messages PROVE Balanced(m)
    BY DEF CountInv
  <2>1. InCalls(m) = {} /\ InChannels(m) = {}
    BY DEF Init, InCalls, InChannels, Marked
  <2>2. InHands(m) = {} /\ InFlush(m) = {}
    BY PipelineAssumption DEF Init, InHands, InFlush, Having
  <2>3. open[m] = 0
    BY DEF Init
  <2> QED
    BY <2>1, <2>2, <2>3, FS_EmptySet DEF Balanced
<1>3. FlushInv
  BY DEF Init, FlushInv
<1>4. OrderInv
  <2>1. WaitInv
    <3>1. \A q \in Producers : control[q] \in BeforeStop
      BY DEF Init, BeforeStop
    <3> QED
      BY <3>1 DEF WaitInv
  <2>2. MainInv /\ ReachInv
    BY DEF Init, MainInv, ReachInv, BeforeStop, Threads
  <2>3. ControlInv
    <3> SUFFICES ASSUME NEW p \in Producers
                 PROVE  /\ loop[p] = "start" <=> control[p] = "none"
                        /\ state[p] >= Stopping => control[p] \in Gone
                        /\ state[p] = Dead => control[p] = "done"
                        /\ closed[p] <=> p \in Closing /\ control[p] \in Gone \ {"close"}
                        /\ p \notin Closing => control[p] \in BeforeStop \cup {"waitFor", "dead", "done"}
                        /\ p \in Closing /\ control[p] \in {"dead", "done"} => channel[p] = <<>>
                        /\ work[p] # <<>> => control[p] = "dropRest"
      BY DEF ControlInv
    <3>1. /\ loop[p] = "start" /\ control[p] = "none" /\ closed[p] = FALSE /\ channel[p] = <<>> /\ work[p] = <<>>
          /\ state[p] = 0
      BY DEF Init, Threads
    <3>2. ~(state[p] >= Stopping) /\ state[p] # Dead
      BY <3>1
    <3> QED
      BY <3>1, <3>2 DEF BeforeStop, Gone
  <2> QED
    BY <2>1, <2>2, <2>3 DEF OrderInv
<1> QED
  BY <1>1, <1>2, <1>3, <1>4 DEF PipelineInv

\* Every step keeps the invariant, also if drops are not ordered.
LEMMA PipelineNext == PipelineInv /\ [Next]_vars => PipelineInv'
<1> SUFFICES ASSUME PipelineInv, [Next]_vars PROVE PipelineInv'
  OBVIOUS
<1>1. PipelineTypes /\ CountInv /\ FlushInv /\ OrderInv /\ ControlInv
  BY DEF PipelineInv, OrderInv
<1>2. ASSUME NEW t \in Threads, Enqueue(t) \/ Send(t) \/ SendFails(t) \/ EnqueueSetState(t)
      PROVE  PipelineInv'
  <2>1. OrderInv'
    BY <1>1, <1>2, ContinueOrder
  <2>2. PipelineTypes' /\ CountInv' /\ FlushInv'
    BY <1>1, <1>2, EnqueueCounts, SendCounts, SendFailsCounts, EnqueueSetStateCounts
  <2> QED
    BY <2>1, <2>2 DEF PipelineInv
<1>3. ASSUME NEW s \in Sources, NEW m \in Messages, EnqueueMessage(s, m)
      PROVE  PipelineInv'
  <2>1. OrderInv'
    BY <1>1, <1>3, SourceOrder
  <2>2. PipelineTypes' /\ CountInv' /\ FlushInv'
    BY <1>1, <1>3, EnqueueMessageCounts
  <2> QED
    BY <2>1, <2>2 DEF PipelineInv
<1>4. ASSUME NEW s \in Sources, StopConsumer(s) \/ SourceDone(s)
      PROVE  PipelineInv'
  <2>1. OrderInv'
    BY <1>1, <1>4, SourceOrder
  <2>2. PipelineTypes' /\ CountInv' /\ FlushInv'
    BY <1>1, <1>4, OtherStepCounts
  <2> QED
    BY <2>1, <2>2 DEF PipelineInv
<1>5. ASSUME NEW p \in Producers, MessageLoop(p) \/ ControlLoop(p) \/ FlushHandled(p)
      PROVE  PipelineInv'
  <2>1. OrderInv'
    BY <1>1, <1>5, QuietStepOrder, DropRestOrder
  <2>2. PipelineTypes' /\ CountInv' /\ FlushInv'
    <3>1. CASE LoopReceive(p) \/ LoopHandled(p) \/ DrainReceive(p) \/ FlushHandled(p) \/ DropRest(p)
      BY <1>1, <3>1, LoopReceiveCounts, LoopHandledCounts, DrainReceiveCounts, FlushHandledCounts, DropRestCounts
    <3>2. CASE \/ Produce(p) \/ LoopIsActive(p) \/ ControlStart(p) \/ ReceiveStop(p) \/ SetStopping(p)
               \/ CloseChannel(p) \/ FlushWorkerWaitFor(p) \/ DrainDone(p) \/ SetDead(p)
               \/ \E d \in Producers : WaitForDependency(p, d)
      BY <1>1, <3>2, LoopStepCounts
    <3> QED
      BY <1>5, <3>1, <3>2 DEF MessageLoop, ControlLoop
  <2> QED
    BY <2>1, <2>2 DEF PipelineInv
<1>6. ASSUME Shutdown \/ Main \/ UNCHANGED vars \/ \E t \in Threads : SendPanics(t)
      PROVE  PipelineInv'
  <2>1. OrderInv'
    BY <1>1, <1>6, MainOrder
  <2>2. PipelineTypes' /\ CountInv' /\ FlushInv'
    BY <1>1, <1>6, OtherStepCounts
  <2> QED
    BY <2>1, <2>2 DEF PipelineInv
<1> QED
  BY <1>2, <1>3, <1>4, <1>5, <1>6 DEF Next, Continue, Ended

\* It holds always.
LEMMA PipelineSafe == Spec => []PipelineInv
<1> QED
  BY PipelineInit, PipelineNext, PTL DEF Spec


-----------------------------------------------------------------------------
(* Every call ends once *)

\* The messages in flight are the sum of their places.
LEMMA InFlightIsCounted ==
  ASSUME PipelineTypes, NEW m \in Messages
  PROVE  InFlight(m) = Cardinality(InCalls(m)) + Cardinality(InChannels(m))
                       + Cardinality(InHands(m)) + Cardinality(InFlush(m))
<1>1. WorkTypes
  BY DEF PipelineTypes
<1>2. {x \in UNION {{t} \X DOMAIN work[t] : t \in Threads} : Pending(m, work[x[1]][x[2]])} = InCalls(m)
  <2>1. \A t \in Threads : \A i \in DOMAIN work[t] : work[t][i] \in Calls
    BY <1>1, ElementOfSeq, LenProperties DEF WorkTypes
  <2>2. \A x \in UNION {{t} \X DOMAIN work[t] : t \in Threads} : work[x[1]][x[2]] \in Calls
    BY <2>1
  <2> QED
    BY <2>2 DEF InCalls, Marked, PendingCalls
<1>3. {x \in UNION {{p} \X DOMAIN channel[p] : p \in Producers} : channel[x[1]][x[2]] = m} = InChannels(m)
  BY DEF InChannels, Marked
<1> QED
  BY <1>2, <1>3 DEF InFlight, InHands, InFlush, Having

\* Every message given to a producer ends once, as handled, filtered, discarded or dropped, for
\* any shutdown, timeouts, capacities and drop streams: Enqueue, the message loop, and the
\* emptying of a channel by CloseMessageChannel neither lose a message nor end it twice.
THEOREM MessagesEndOnce == Spec => []EveryCallEndsOnce
<1>1. PipelineInv => EveryCallEndsOnce
  BY InFlightIsCounted DEF PipelineInv, CountInv, Balanced, EveryCallEndsOnce
<1> QED
  BY <1>1, PipelineSafe, PTL


-----------------------------------------------------------------------------
(* Ordered drops: nobody who is protected calls a stopped producer *)

Alive == {q \in Producers : control[q] \in BeforeStop \cup {"waitFor"}}

\* What is known of producers that are not beyond the wait for their dependencies.
LEMMA AliveProducers ==
  ASSUME PipelineInv, NEW q \in Alive
  PROVE  q \in Producers /\ state[q] < Stopping /\ ~closed[q] /\ control[q] \notin Gone
<1>1. q \in Producers /\ control[q] \in BeforeStop \cup {"waitFor"}
  BY DEF Alive
<1>2. control[q] \notin Gone
  BY <1>1 DEF BeforeStop, Gone
<1>3. ControlInv /\ state[q] \in Initializing .. Dead
  BY <1>1 DEF PipelineInv, OrderInv, PipelineTypes, StateTypes
<1>4. ~closed[q]
  BY <1>1, <1>2, <1>3 DEF ControlInv
<1>5. ~(state[q] >= Stopping)
  BY <1>1, <1>2, <1>3 DEF ControlInv
<1> QED
  BY <1>1, <1>2, <1>3, <1>4, <1>5 DEF Initializing, Stopping, Dead

\* Without a timeout the wait is over when all dependencies are done; with one it is over as
\* well, unless somebody has given up.
LEMMA WaitedForAll ==
  ASSUME PipelineInv, ~GaveUp, NEW x \in Producers, control[x] \in Gone
  PROVE  DependsOn[x] \subseteq {y \in Producers : control[y] = "done"}
<1> SUFFICES ASSUME NEW d \in DependsOn[x] PROVE d \in Producers /\ control[d] = "done"
  OBVIOUS
<1>1. d \in Producers /\ ShutdownTimeout[x] \in {0, 1}
  BY PipelineAssumption
<1>2. CASE ShutdownTimeout[x] = 0
  BY <1>1, <1>2 DEF PipelineInv, OrderInv, WaitInv, BeforeStop, Gone
<1>3. CASE ShutdownTimeout[x] = 1
  BY <1>1, <1>3 DEF GaveUp
<1> QED
  BY <1>1, <1>2, <1>3

\* Who drops is not done, so those it drops to have not stopped waiting, if only for others
\* that wait for it: the producers that are done are a closed set, if nobody gave up.
LEMMA CallsToTheLiving ==
  ASSUME PipelineInv, OrderedDrops, NEW t \in Protected, NEW i \in DOMAIN work[t]
  PROVE  work[t][i].prod \in Alive
<1>1. ControlInv /\ MainInv /\ ReachInv /\ StateTypes /\ WorkTypes
  BY DEF PipelineInv, OrderInv, PipelineTypes
<1>2. t \in Threads /\ work[t] \in Seq(Calls)
  BY <1>1 DEF WorkTypes, Threads, Protected
<1>3. work[t] # <<>> /\ work[t][i] \in Calls
  BY <1>2, ElementOfSeq, LenProperties
<1>4. work[t][i].prod \in Producers
  BY <1>3 DEF Calls
<1>5. CASE t \in Producers
  <2>1. ASSUME NEW r \in Producers, control[r] # "done" PROVE Listens(r) \subseteq Alive
    <3> SUFFICES ASSUME NEW j \in DOMAIN DropListeners[r] PROVE DropListeners[r][j] \in Alive
      BY DEF Listens
    <3> DEFINE q == DropListeners[r][j]
          Done == {x \in Producers : control[x] = "done"}
    <3>1. q \in Producers
      <4>1. DropListeners[r] \in Seq(Producers)
        BY PipelineAssumption
      <4> QED
        BY <4>1, ElementOfSeq, LenProperties
    <3>2. \A x \in Producers : control[x] \in Gone => DependsOn[x] \subseteq Done
      <4>1. ~GaveUp
        BY <1>5, PipelineAssumption DEF Protected
      <4> QED
        BY <4>1, WaitedForAll
    <3>3. \A x \in Done : DependsOn[x] \subseteq Done
      BY <3>2 DEF Gone
    <3>4. r \notin Done /\ Done \in SUBSET Producers
      BY <2>1
    <3>5. ~(DependsOn[q] \subseteq Done)
      <4> HIDE DEF Done
      <4> QED
        BY <3>3, <3>4 DEF OrderedDrops
    <3> HIDE DEF q
    <3>6. control[q] \notin Gone
      BY <3>1, <3>2, <3>5
    <3>7. control[q] \in BeforeStop \/ control[q] = "waitFor"
      BY <1>1, <3>1, <3>6 DEF StateTypes, BeforeStop, Gone
    <3> QED
      BY <3>1, <3>7 DEF Alive, q
  <2>2. DropClosed(Alive) /\ Alive \in SUBSET Producers
    <3>1. \A q \in Alive : q \in Producers /\ control[q] # "done"
      BY DEF Alive, BeforeStop
    <3> QED
      BY <2>1, <3>1 DEF DropClosed
  <2>3. control[t] = "dropRest"
    BY <1>1, <1>3, <1>5 DEF ControlInv
  <2>4. Listens(t) \subseteq Alive
    BY <1>5, <2>1, <2>3
  <2> QED
    BY <1>1, <1>5, <2>2, <2>4 DEF ReachInv
<1>6. CASE t \in Sources \cap Counted
  <2>1. source[t] # "done"
    BY <1>1, <1>3, <1>6 DEF MainInv
  <2>2. main \in {"run", "stopConsumers"}
    BY <1>1, <1>6, <2>1 DEF MainInv
  <2>3. control[work[t][i].prod] \in BeforeStop
    BY <1>1, <1>4, <2>2 DEF MainInv
  <2> QED
    BY <1>4, <2>3 DEF Alive
<1> QED
  BY <1>5, <1>6 DEF Protected

\* The innermost call among them.
LEMMA TopToTheLiving ==
  ASSUME PipelineInv, OrderedDrops, NEW t \in Protected, work[t] # <<>>
  PROVE  Top(t).prod \in Producers /\ state[Top(t).prod] < Stopping /\ ~closed[Top(t).prod]
<1>1. t \in Threads /\ WorkTypes
  BY DEF Threads, Protected, PipelineInv, PipelineTypes
<1>2. work[t] \in Seq(Calls)
  BY <1>1 DEF WorkTypes
<1>3. 1 \in DOMAIN work[t] /\ Top(t) = work[t][1]
  BY <1>2, LenProperties, EmptySeq DEF Top
<1>4. Top(t).prod \in Alive
  BY <1>3, CallsToTheLiving
<1> QED
  BY <1>4, AliveProducers

\* What the disabled recover of ProducerBase.Enqueue relies on ("this panic recover is not
\* needed"): if who listens on a drop stream depends on the producer that drops, no source the
\* shutdown waits for and no producer sends on a closed message channel, except a producer
\* that somebody, whose shutdown timeout was over, has not waited for.
THEOREM CountedNeverPanic == ASSUME OrderedDrops PROVE Spec => []NoSendOnClosedChannel
<1>1. Init => NoSendOnClosedChannel
  BY DEF Init, NoSendOnClosedChannel
<1>2. PipelineInv /\ NoSendOnClosedChannel /\ [Next]_vars => NoSendOnClosedChannel'
  <2> SUFFICES ASSUME PipelineInv, NoSendOnClosedChannel, [Next]_vars PROVE NoSendOnClosedChannel'
    OBVIOUS
  <2>1. ASSUME NEW t \in Threads, SendPanics(t) PROVE NoSendOnClosedChannel'
    <3>1. work[t] # <<>> /\ closed[Top(t).prod] /\ crashed' = {t}
      BY <2>1 DEF SendPanics, InCall
    <3>2. t \notin Protected
      BY <3>1, TopToTheLiving
    <3>3. UNCHANGED control
      BY <2>1 DEF SendPanics, producerVars
    <3>4. Protected' = Protected
      BY <3>3 DEF Protected, GaveUp
    <3> QED
      BY <3>1, <3>2, <3>4 DEF NoSendOnClosedChannel
  <2>2. CASE ~ \E t \in Threads : SendPanics(t)
    <3>1. crashed' = crashed
      BY <2>2 DEF Next, Continue, Enqueue, Send, SendFails, EnqueueSetState, StopConsumer, SourceDone, EnqueueMessage,
                  MessageLoop, ControlLoop, Produce, LoopIsActive, LoopReceive, LoopHandled, ControlStart, ReceiveStop,
                  SetStopping, CloseChannel, DrainReceive, FlushWorkerWaitFor, DropRest, DrainDone, SetDead,
                  WaitForDependency, FlushHandled, Shutdown, Main, ConsumersDone, StopProducers, ProducersDone, Ended, vars
    <3>2. CASE crashed = {}
      BY <3>1, <3>2 DEF NoSendOnClosedChannel
    <3>3. CASE crashed # {}
      <4>1. ~Running
        BY <3>3 DEF Running
      <4>2. UNCHANGED control
        BY <4>1 DEF Next, Continue, Enqueue, Send, SendPanics, SendFails, EnqueueSetState, InCall, StopConsumer,
                    SourceDone, EnqueueMessage, MessageLoop, ControlLoop, Produce, LoopIsActive, LoopReceive,
                    LoopHandled, ControlStart, ReceiveStop, SetStopping, CloseChannel, DrainReceive,
                    FlushWorkerWaitFor, DropRest, DrainDone, SetDead, WaitForDependency, FlushHandled, Shutdown,
                    Main, ConsumersDone, StopProducers, ProducersDone, Ended, vars, producerVars
      <4>3. Protected' = Protected
        BY <4>2 DEF Protected, GaveUp
      <4> QED
        BY <3>1, <4>3 DEF NoSendOnClosedChannel
    <3> QED
      BY <3>2, <3>3
  <2> QED
    BY <2>1, <2>2
<1> QED
  BY <1>1, <1>2, PipelineSafe, PTL DEF Spec

\* Producers stop in an order that leaves nothing behind: the channel of a dead one is empty and
\* stays empty, and, as long as one of them drops and nobody who waits for it has given up,
\* those that listen to it accept messages.
THEOREM StoppingKeepsOrder == ASSUME OrderedDrops PROVE Spec => []StoppingIsOrdered
<1>1. PipelineInv => StoppingIsOrdered
  <2> SUFFICES ASSUME PipelineInv PROVE StoppingIsOrdered
    OBVIOUS
  <2>1. TypeOK
    <3>1. \A m \in Messages : open[m] \in Nat
      <4> SUFFICES ASSUME NEW m \in Messages PROVE open[m] \in Nat
        OBVIOUS
      <4>1. Balanced(m)
        BY DEF PipelineInv, CountInv
      <4>2. /\ Cardinality(InCalls(m)) \in Nat /\ Cardinality(InChannels(m)) \in Nat
            /\ Cardinality(InHands(m)) \in Nat /\ Cardinality(InFlush(m)) \in Nat
        BY <4>1, FS_CardinalityType DEF Balanced
      <4> QED
        BY <4>1, <4>2 DEF Balanced
    <3>2. open \in [Messages -> Nat]
      BY <3>1 DEF PipelineInv, PipelineTypes, CountTypes
    <3> QED
      BY <3>2 DEF TypeOK, PipelineInv, PipelineTypes, StateTypes, ChannelTypes, LoopTypes, FlushTypes, WorkTypes,
                  MainTypes, CountTypes
  <2>2. ListenersOutliveDropper
    BY TopToTheLiving DEF ListenersOutliveDropper
  <2>3. EmptyWhenDead
    <3> SUFFICES ASSUME NEW p \in Closing, control[p] = "done"
                 PROVE  /\ channel[p] = <<>>
                        /\ \A t \in Protected : \A i \in DOMAIN work[t] :
                             ~(work[t][i].op = "send" /\ work[t][i].prod = p)
      BY DEF EmptyWhenDead
    <3>1. p \in Producers /\ ControlInv
      BY PipelineAssumption DEF PipelineInv, OrderInv
    <3>2. channel[p] = <<>>
      BY <3>1 DEF ControlInv
    <3>3. p \notin Alive
      BY DEF Alive, BeforeStop
    <3> QED
      BY <3>1, <3>2, <3>3, CallsToTheLiving
  <2> QED
    BY <2>1, <2>2, <2>3 DEF StoppingIsOrdered
<1> QED
  BY <1>1, PipelineSafe, PTL


\* A producer that has left the active state does not come back to life: the setState at the
\* end of an Enqueue reaches it only from a consumer goroutine the shutdown does not wait for, or
\* from a producer that somebody, whose shutdown timeout was over, has not waited for.
THEOREM StoppedStaysStopped == ASSUME OrderedDrops PROVE Spec => NeverRevived
<1> USE DEF Initializing, Waiting, Active, Stopping, Dead
<1> DEFINE Kept == \A p \in Producers : state[p] >= Stopping => state'[p] >= state[p]
           Uncounted == \E t \in Threads \ Protected : work'[t] # work[t]
<1>1. PipelineInv /\ [Next]_vars => [Kept \/ Uncounted]_vars
  <2> SUFFICES ASSUME PipelineInv, [Next]_vars PROVE Kept \/ Uncounted \/ UNCHANGED vars
    BY Zenon
  <2>1. StateTypes /\ ControlInv /\ WorkTypes
    BY DEF PipelineInv, PipelineTypes, OrderInv
  <2>2. \A p \in Producers : state[p] \in 0 .. 4
    BY <2>1 DEF StateTypes
  <2>3. ASSUME NEW t \in Threads, EnqueueSetState(t) PROVE Kept \/ Uncounted
    <3> DEFINE r == Top(t).prod
    <3>1. /\ work[t] # <<>> /\ Replace(t, <<>>) /\ state' = [state EXCEPT ![r] = Top(t).state]
      BY <2>3 DEF EnqueueSetState, InCall
    <3>2. CASE t \in Protected
      <4>1. state[r] < Stopping
        BY <3>1, <3>2, TopToTheLiving
      <4>2. ~(state[r] >= Stopping)
        <5>1. r \in Producers
          BY <3>1, <3>2, TopToTheLiving
        <5> QED
          BY <2>2, <4>1, <5>1
      <4>3. \A p \in Producers : p # r => state'[p] = state[p]
        BY <2>1, <3>1 DEF StateTypes
      <4>4. \A p \in Producers : state[p] >= state[p]
        BY <2>2
      <4> HIDE DEF r
      <4> QED
        BY <4>2, <4>3, <4>4
    <3>3. CASE t \in Threads \ Protected
      <4>1. work[t] \in Seq(Calls) /\ work' = [work EXCEPT ![t] = <<>> \o Tail(work[t])]
        BY <2>1, <3>1 DEF WorkTypes, Replace
      <4>2. Tail(work[t]) \in Seq(Calls) /\ Len(Tail(work[t])) = Len(work[t]) - 1 /\ Len(work[t]) \in Nat
        BY <3>1, <4>1, HeadTailProperties, LenProperties
      <4>3. <<>> \o Tail(work[t]) = Tail(work[t])
        BY <4>2, ConcatEmptySeq
      <4>4. work'[t] = Tail(work[t])
        BY <2>1, <4>1, <4>3 DEF WorkTypes
      <4>5. Tail(work[t]) # work[t]
        <5> SUFFICES ASSUME Tail(work[t]) = work[t] PROVE FALSE
          OBVIOUS
        <5>1. Len(work[t]) = Len(work[t]) - 1
          BY <4>2, Zenon
        <5>2. \A n \in Nat : n # n - 1
          OBVIOUS
        <5> QED
          BY <4>2, <5>1, <5>2
      <4> QED
        BY <3>3, <4>4, <4>5
    <3> QED
      BY <3>2, <3>3
  <2>4. ASSUME NEW p \in Producers, Produce(p) \/ ControlStart(p) \/ SetStopping(p) \/ SetDead(p) PROVE Kept
    <3>1. CASE Produce(p) \/ ControlStart(p) \/ SetStopping(p)
      <4>1. control[p] \notin Gone /\ \E s \in {Active, Stopping} : state' = [state EXCEPT ![p] = s]
        BY <2>1, <3>1 DEF ControlInv, Produce, ControlStart, SetStopping, Gone
      <4>2. ~(state[p] >= Stopping)
        BY <2>1, <4>1 DEF ControlInv
      <4>3. \A q \in Producers : q # p => state'[q] = state[q]
        BY <2>1, <4>1 DEF StateTypes
      <4>4. \A q \in Producers : state[q] >= state[q]
        BY <2>2
      <4> QED
        BY <4>2, <4>3, <4>4
    <3>2. CASE SetDead(p)
      <4>1. \A q \in Producers : state'[q] = IF q = p THEN 4 ELSE state[q]
        BY <2>1, <3>2 DEF SetDead, StateTypes
      <4> QED
        BY <2>2, <4>1
    <3> QED
      BY <2>4, <3>1, <3>2
  <2>5. CASE UNCHANGED state
    BY <2>2, <2>5
  <2>6. \/ \E t \in Threads : EnqueueSetState(t)
        \/ \E p \in Producers : Produce(p) \/ ControlStart(p) \/ SetStopping(p) \/ SetDead(p)
        \/ UNCHANGED state
    BY DEF Next, Continue, Enqueue, Send, SendFails, SendPanics, StopConsumer, SourceDone, EnqueueMessage,
           MessageLoop, ControlLoop, LoopIsActive, LoopReceive, LoopHandled, ReceiveStop, CloseChannel, DrainReceive,
           FlushWorkerWaitFor, DropRest, DrainDone, WaitForDependency, FlushHandled, Shutdown, Main, ConsumersDone,
           StopProducers, ProducersDone, Ended, vars, producerVars
  <2> HIDE DEF Kept, Uncounted
  <2> QED
    BY <2>3, <2>4, <2>5, <2>6 DEF Kept
<1>2. [Kept \/ Uncounted]_vars => [\/ \A p \in Producers : state[p] >= Stopping => state'[p] >= state[p]
                                   \/ \E t \in Threads \ Protected : work'[t] # work[t]]_vars
  BY DEF Kept, Uncounted
<1> QED
  BY <1>1, <1>2, PipelineSafe, PTL DEF Spec, NeverRevived

-----------------------------------------------------------------------------
(* Nobody waits in vain *)

\* What is also true of a producer: its message loop ends when it has been told to stop, it
\* waits for its dependencies only, and it has a stop command or has taken it when main waits.
EndOf(p) ==
  /\ loop[p] = "done" => control[p] \in Gone
  /\ control[p] = "done" => state[p] # Stopping
  /\ control[p] = "waitFor" => waitFor[p] \subseteq DependsOn[p]
  /\ main = "waitForProducers" => stop[p] \/ control[p] \notin BeforeStop
EndInv == \A p \in Producers : EndOf(p)

\* The setState of a call makes a producer waiting or active.
LEMMA CallStepEnds ==
  ASSUME PipelineInv, EndInv, NEW t \in Threads, Continue(t)
  PROVE  EndInv'
<1> USE DEF Waiting, Active, Stopping
<1>1. UNCHANGED <<loop, control, waitFor, main, stop>>
  BY DEF Continue, Enqueue, Send, SendPanics, SendFails, EnqueueSetState, producerVars
<1>2. \A p \in Producers : state'[p] = Stopping => state[p] = Stopping
  <2>1. CASE EnqueueSetState(t)
    <3>1. work[t] # <<>> /\ Top(t).op = "setState" /\ state' = [state EXCEPT ![Top(t).prod] = Top(t).state]
      BY <2>1 DEF EnqueueSetState, InCall
    <3>2. Top(t).state \in {Waiting, Active} /\ StateTypes
      BY <3>1, TopCall DEF PipelineInv, PipelineTypes
    <3> QED
      BY <3>1, <3>2 DEF StateTypes
  <2>2. CASE ~EnqueueSetState(t)
    <3>1. UNCHANGED state
      BY <2>2 DEF Continue, Enqueue, Send, SendPanics, SendFails, producerVars
    <3> QED
      BY <3>1
  <2> QED
    BY <2>1, <2>2
<1> QED
  BY <1>1, <1>2 DEF EndInv, EndOf, BeforeStop, Gone

\* The steps of the two loops of one producer.
LEMMA LoopStepEnds ==
  ASSUME PipelineInv, EndInv, NEW p \in Producers, MessageLoop(p) \/ ControlLoop(p) \/ FlushHandled(p)
  PROVE  EndInv'
<1> USE DEF Initializing, Waiting, Active, Stopping, Dead
<1>1. EndOf(p) /\ ControlOf(p) /\ StateTypes /\ LoopTypes
  BY OrderByProducer DEF EndInv, PipelineInv, OrderInv, PipelineTypes
<1>2. /\ UNCHANGED main
      /\ \A q \in Producers \ {p} :
           /\ state'[q] = state[q] /\ stop'[q] = stop[q] /\ loop'[q] = loop[q]
           /\ control'[q] = control[q] /\ waitFor'[q] = waitFor[q]
  BY <1>1 DEF MessageLoop, ControlLoop, Produce, LoopIsActive, LoopReceive, LoopHandled, ControlStart, ReceiveStop,
              SetStopping, CloseChannel, DrainReceive, FlushWorkerWaitFor, DropRest, DrainDone, SetDead,
              WaitForDependency, FlushHandled, ControlGoto, StateTypes, LoopTypes
<1>3. EndOf(p)'
  <2> USE <1>1, <1>2 DEF EndOf, BeforeStop, Gone
  <2>1. CASE Produce(p)
    BY <2>1 DEF Produce, ControlOf, StateTypes, LoopTypes
  <2>2. CASE LoopIsActive(p)
    <3>1. state[p] \in 0 .. 4
      BY DEF StateTypes
    <3>2. loop'[p] = "done" => state[p] >= 3
      BY <2>2, <3>1 DEF LoopIsActive, LoopTypes
    <3>3. UNCHANGED <<state, control, waitFor, stop>>
      BY <2>2 DEF LoopIsActive
    <3> QED
      BY <3>2, <3>3 DEF ControlOf
  <2>3. CASE LoopReceive(p) \/ LoopHandled(p)
    BY <2>3 DEF LoopReceive, LoopHandled, LoopTypes
  <2>4. CASE ControlStart(p)
    BY <2>4 DEF ControlStart, ControlGoto, StateTypes
  <2>5. CASE ReceiveStop(p)
    BY <2>5 DEF ReceiveStop, ControlGoto, StateTypes
  <2>6. CASE SetStopping(p)
    BY <2>6 DEF SetStopping, ControlGoto, StateTypes
  <2>7. CASE CloseChannel(p) \/ DrainReceive(p) \/ FlushWorkerWaitFor(p) \/ DrainDone(p)
    BY <2>7 DEF CloseChannel, DrainReceive, FlushWorkerWaitFor, DrainDone, ControlGoto, StateTypes
  <2>8. CASE DropRest(p) \/ FlushHandled(p)
    BY <2>8 DEF DropRest, FlushHandled
  <2>9. CASE SetDead(p)
    BY <2>9 DEF SetDead, ControlGoto, StateTypes
  <2>10. CASE \E d \in Producers : WaitForDependency(p, d)
    BY <2>10 DEF WaitForDependency, StateTypes
  <2> QED
    BY <2>1, <2>2, <2>3, <2>4, <2>5, <2>6, <2>7, <2>8, <2>9, <2>10 DEF MessageLoop, ControlLoop
<1>4. ASSUME NEW q \in Producers \ {p} PROVE EndOf(q)'
  BY <1>2 DEF EndInv, EndOf, BeforeStop, Gone
<1> QED
  BY <1>3, <1>4 DEF EndInv

\* The ends of the loops, in every state.
LEMMA EndsAlways == Spec => []EndInv
<1>1. Init => EndInv
  BY DEF Init, EndInv, EndOf, BeforeStop
<1>2. PipelineInv /\ EndInv /\ [Next]_vars => EndInv'
  <2> SUFFICES ASSUME PipelineInv, EndInv, [Next]_vars PROVE EndInv'
    OBVIOUS
  <2>1. CASE \E t \in Threads : Continue(t)
    BY <2>1, CallStepEnds
  <2>2. CASE \E p \in Producers : MessageLoop(p) \/ ControlLoop(p) \/ FlushHandled(p)
    BY <2>2, LoopStepEnds
  <2>3. CASE StopProducers
    BY <2>3 DEF StopProducers, EndInv, EndOf, BeforeStop, Gone
  <2>4. CASE UNCHANGED <<state, stop, loop, control, waitFor>> /\ main' \in {main, "stopConsumers", "stopProducers", "stopped"}
    BY <2>4 DEF EndInv, EndOf, BeforeStop, Gone
  <2> QED
    BY <2>1, <2>2, <2>3, <2>4 DEF Next, StopConsumer, SourceDone, EnqueueMessage, Shutdown, Main, ConsumersDone,
                                  ProducersDone, Ended, vars, producerVars
<1> QED
  BY <1>1, <1>2, PipelineSafe, PTL DEF Spec

\* If who listens on a drop stream depends on the producer that drops, then whatever call a source
\* the shutdown waits for is in, or a producer nobody has given up on, the message loop of the
\* producer it is about has not ended: a send that blocks on a full channel has a receiver.
THEOREM BlockedSendsAreReceived ==
  ASSUME OrderedDrops
  PROVE  Spec => [](\A t \in Protected : \A i \in DOMAIN work[t] : loop[work[t][i].prod] # "done")
<1>1. PipelineInv /\ EndInv => \A t \in Protected : \A i \in DOMAIN work[t] : loop[work[t][i].prod] # "done"
  <2> SUFFICES ASSUME PipelineInv, EndInv, NEW t \in Protected, NEW i \in DOMAIN work[t]
               PROVE  loop[work[t][i].prod] # "done"
    OBVIOUS
  <2>1. work[t][i].prod \in Alive
    BY CallsToTheLiving
  <2> QED
    BY <2>1, AliveProducers DEF EndInv, EndOf
<1> QED
  BY <1>1, PipelineSafe, EndsAlways, PTL

-----------------------------------------------------------------------------
(* ... so nothing is stuck *)

\* The guards of the actions: who can go on.  Exit signals and new messages do not count.
CallMoves(t) ==
  work[t] # <<>> /\ (Top(t).op = "send" => \/ closed[Top(t).prod]
                                           \/ Len(channel[Top(t).prod]) < Capacity[Top(t).prod]
                                           \/ Timeout[Top(t).prod][Top(t).msg] # 0)
MessageLoopMoves(p) ==
  loop[p] \in {"start", "isActive", "onMessage"} \/ (loop[p] = "receive" /\ (channel[p] # <<>> \/ closed[p]))
ControlLoopMoves(p) ==
  \/ control[p] \in {"start", "close", "dead"}
  \/ control[p] = "command" /\ stop[p]
  \/ control[p] = "waitFor" /\ (waitFor[p] = {} \/ \E d \in waitFor[p] : state[d] >= Dead \/ ShutdownTimeout[p] > 0)
  \/ control[p] = "drain" /\ (channel[p] # <<>> \/ work[p] = <<>>)
  \/ control[p] = "dropRest" /\ work[p] = <<>>
  \/ control[p] = "flushWorker" /\ (flush[p] = NoMessage \/ ShutdownTimeout[p] > 0)
SourceMoves(s) ==
  (main # "run" /\ source[s] = "active") \/ (source[s] = "stopping" /\ work[s] = <<>>)
MainMoves ==
  \/ main = "stopConsumers" /\ \A s \in Sources \cap Counted : source[s] = "done"
  \/ main = "stopProducers"
  \/ main = "waitForProducers" /\ \A p \in Producers \cap Counted : loop[p] = "done"
SomebodyMoves ==
  \/ \E t \in Threads : CallMoves(t)
  \/ \E p \in Producers : MessageLoopMoves(p) \/ ControlLoopMoves(p) \/ flush[p] # NoMessage
  \/ \E s \in Sources : SourceMoves(s)
  \/ MainMoves

\* A process that runs, and in which nobody can go on, is not shutting down, and is done with
\* every message it has read.  If somebody has given up, a producer may be left in front of
\* the full channel of one that does not close it.
NothingIsStuck ==
  Running /\ ~SomebodyMoves /\ (\A p \in Producers : ~Revived(p)) /\ (GaveUp => Closing = Producers) =>
    main = "run" /\ \A m \in Messages : open[m] = 0

\* What Acyclic of Dependencies says, here of a constant.
AcyclicDependencies ==
  \A S \in SUBSET Producers : S # {} => \E x \in S : DependsOn[x] \cap S = {}

\* A goroutine that cannot go on is in a send to a producer whose message loop has ended, and
\* whose channel is open.
LEMMA StuckCalls ==
  ASSUME PipelineInv, EndInv, ~SomebodyMoves, NEW t \in Threads, work[t] # <<>>
  PROVE  /\ 1 \in DOMAIN work[t] /\ work[t][1].prod \in Producers
         /\ loop[work[t][1].prod] = "done" /\ ~closed[work[t][1].prod]
<1>1. WorkTypes /\ ChannelTypes /\ LoopTypes
  BY DEF PipelineInv, PipelineTypes
<1>2. work[t] \in Seq(Calls) /\ Top(t).prod \in Producers
  BY <1>1, TopCall
<1>3. 1 \in DOMAIN work[t] /\ Top(t) = work[t][1]
  BY <1>2, LenProperties, EmptySeq DEF Top
<1> DEFINE q == Top(t).prod
<1>4. ~(Len(channel[q]) < Capacity[q]) /\ ~closed[q]
  BY DEF SomebodyMoves, CallMoves
<1>5. channel[q] # <<>>
  BY <1>2, <1>4, PipelineAssumption
<1> HIDE DEF q
<1>6. ~MessageLoopMoves(q)
  BY <1>2 DEF SomebodyMoves, q
<1>7. loop[q] = "done"
  BY <1>1, <1>2, <1>5, <1>6 DEF MessageLoopMoves, LoopTypes, q
<1> QED
  BY <1>2, <1>3, <1>4, <1>7 DEF q

\* The goroutines the shutdown waits for are in no call, and a control loop has either not been
\* told to stop, waits for a living dependency, or has ended.
LEMMA StuckLoops ==
  ASSUME PipelineInv, EndInv, OrderedDrops, ~SomebodyMoves, GaveUp => Closing = Producers
  PROVE  /\ \A t \in Producers \cup (Sources \cap Counted) : work[t] = <<>>
         /\ \A p \in Producers : hand[p] = NoMessage /\ flush[p] = NoMessage
         /\ \A p \in Producers : loop[p] = "done" \/ (loop[p] = "receive" /\ channel[p] = <<>> /\ ~closed[p])
         /\ \A p \in Producers :
              \/ control[p] = "command" /\ ~stop[p]
              \/ control[p] = "waitFor" /\ waitFor[p] # {} /\ \A d \in waitFor[p] : ~(state[d] >= Dead)
              \/ control[p] = "done"
<1>1. \A t \in Producers \cup (Sources \cap Counted) : work[t] = <<>>
  <2> SUFFICES ASSUME NEW t \in Producers \cup (Sources \cap Counted), work[t] # <<>> PROVE FALSE
    OBVIOUS
  <2>1. t \in Threads
    BY DEF Threads
  <2> DEFINE q == work[t][1].prod
  <2>2. 1 \in DOMAIN work[t] /\ q \in Producers /\ loop[q] = "done" /\ ~closed[q]
    BY <2>1, StuckCalls
  <2> HIDE DEF q
  <2>3. CASE ~GaveUp
    <3>1. q \in Alive
      BY <2>2, <2>3, CallsToTheLiving DEF Protected, q
    <3> QED
      BY <2>2, <3>1, AliveProducers DEF EndInv, EndOf
  <2>4. CASE Closing = Producers
    <3>1. control[q] \in Gone /\ ControlInv
      BY <2>2 DEF EndInv, EndOf, PipelineInv, OrderInv
    <3>2. control[q] = "close"
      BY <2>2, <2>4, <3>1 DEF ControlInv
    <3> QED
      BY <2>2, <3>2 DEF SomebodyMoves, ControlLoopMoves
  <2> QED
    BY <2>3, <2>4
<1>2. ASSUME NEW p \in Producers
      PROVE  /\ hand[p] = NoMessage /\ flush[p] = NoMessage
             /\ loop[p] = "done" \/ (loop[p] = "receive" /\ channel[p] = <<>> /\ ~closed[p])
  <2>1. LoopTypes /\ ~MessageLoopMoves(p) /\ flush[p] = NoMessage
    BY DEF PipelineInv, PipelineTypes, SomebodyMoves
  <2>2. loop[p] = "done" \/ (loop[p] = "receive" /\ channel[p] = <<>> /\ ~closed[p])
    BY <2>1 DEF MessageLoopMoves, LoopTypes
  <2> QED
    BY <2>1, <2>2 DEF LoopTypes
<1>3. ASSUME NEW p \in Producers
      PROVE  \/ control[p] = "command" /\ ~stop[p]
             \/ control[p] = "waitFor" /\ waitFor[p] # {} /\ \A d \in waitFor[p] : ~(state[d] >= Dead)
             \/ control[p] = "done"
  <2>1. StateTypes /\ ControlOf(p) /\ ~ControlLoopMoves(p)
    BY OrderByProducer DEF PipelineInv, PipelineTypes, OrderInv, SomebodyMoves
  <2>2. work[p] = <<>> /\ flush[p] = NoMessage /\ loop[p] # "start"
    BY <1>1, <1>2
  <2>3. control[p] \in {"command", "waitFor", "done"}
    BY <2>1, <2>2 DEF StateTypes, ControlOf, ControlLoopMoves
  <2> QED
    BY <2>1, <2>3 DEF ControlLoopMoves
<1> QED
  BY <1>1, <1>2, <1>3

\* Before the producers are told to stop every call comes to an end.
LEMMA NoCallIsStuck ==
  ASSUME PipelineInv, EndInv, ~SomebodyMoves, main \in {"run", "stopConsumers"}, NEW t \in Threads
  PROVE  work[t] = <<>>
<1> SUFFICES ASSUME work[t] # <<>> PROVE FALSE
  OBVIOUS
<1>1. work[t][1].prod \in Producers /\ loop[work[t][1].prod] = "done"
  BY StuckCalls
<1>2. control[work[t][1].prod] \in BeforeStop
  BY <1>1 DEF PipelineInv, OrderInv, MainInv
<1> QED
  BY <1>1, <1>2 DEF EndInv, EndOf, BeforeStop, Gone

\* A message that is nowhere is done with.
LEMMA NothingOpen ==
  ASSUME PipelineInv, NEW m \in Messages, \A t \in Threads : work[t] = <<>>,
         \A p \in Producers : channel[p] = <<>> /\ hand[p] = NoMessage /\ flush[p] = NoMessage
  PROVE  open[m] = 0
<1>1. Balanced(m)
  BY DEF PipelineInv, CountInv
<1>2. InCalls(m) = {} /\ InChannels(m) = {}
  BY EmptySeq DEF InCalls, InChannels, Marked
<1>3. InHands(m) = {} /\ InFlush(m) = {}
  BY PipelineAssumption DEF InHands, InFlush, Having
<1> QED
  BY <1>1, <1>2, <1>3, FS_EmptySet DEF Balanced

\* Nobody waits for somebody who waits for him: if dependencies are not circular, who listens
\* on a drop stream depends on the producer that drops, and the producers main waits for close
\* their channels (all of them do, if one has given up), then somebody can go on until the
\* process ends, or, as long as there is no exit signal, until every message that was read is
\* handled, filtered, dropped or discarded.
THEOREM NothingGetsStuck ==
  ASSUME OrderedDrops, AcyclicDependencies, Producers \cap Counted \subseteq Closing
  PROVE  Spec => []NothingIsStuck
<1>1. PipelineInv /\ EndInv => NothingIsStuck
  <2> SUFFICES ASSUME PipelineInv, EndInv, Running, ~SomebodyMoves, \A p \in Producers : ~Revived(p),
                      GaveUp => Closing = Producers
               PROVE  main = "run" /\ \A m \in Messages : open[m] = 0
    BY DEF NothingIsStuck
  <2>1. /\ \A t \in Producers \cup (Sources \cap Counted) : work[t] = <<>>
        /\ \A p \in Producers : hand[p] = NoMessage /\ flush[p] = NoMessage
        /\ \A p \in Producers : loop[p] = "done" \/ (loop[p] = "receive" /\ channel[p] = <<>> /\ ~closed[p])
        /\ \A p \in Producers :
             \/ control[p] = "command" /\ ~stop[p]
             \/ control[p] = "waitFor" /\ waitFor[p] # {} /\ \A d \in waitFor[p] : ~(state[d] >= Dead)
             \/ control[p] = "done"
    BY StuckLoops
  <2>2. main \in {"run", "stopConsumers", "stopProducers", "waitForProducers"} /\ ~MainMoves
    BY DEF Running, PipelineInv, PipelineTypes, MainTypes, SomebodyMoves
  <2>3. main # "stopProducers"
    BY <2>2 DEF MainMoves
  <2>4. main # "stopConsumers"
    <3> SUFFICES ASSUME main = "stopConsumers" PROVE FALSE
      OBVIOUS
    <3>1. \A s \in Sources : work[s] = <<>>
      BY NoCallIsStuck DEF Threads
    <3>2. \A s \in Sources : source[s] = "done"
      BY <3>1 DEF SomebodyMoves, SourceMoves, PipelineInv, PipelineTypes, MainTypes
    <3> QED
      BY <2>2, <3>2 DEF MainMoves
  <2>5. main # "waitForProducers"
    <3> SUFFICES ASSUME main = "waitForProducers" PROVE FALSE
      OBVIOUS
    <3> DEFINE S == {p \in Producers : control[p] = "waitFor"}
    <3>1. \A p \in Producers : control[p] \in {"waitFor", "done"}
      BY <2>1 DEF EndInv, EndOf, BeforeStop
    <3>2. \A d \in Producers : control[d] = "done" => state[d] >= Dead
      BY DEF EndInv, EndOf, Revived, PipelineInv, PipelineTypes, StateTypes, Initializing, Active, Stopping, Dead
    <3>3. S = {}
      <4> SUFFICES ASSUME S # {} PROVE FALSE
        OBVIOUS
      <4>1. PICK x \in S : DependsOn[x] \cap S = {}
        BY DEF AcyclicDependencies
      <4>2. PICK d \in waitFor[x] : ~(state[d] >= Dead)
        BY <2>1, <4>1
      <4>3. d \in DependsOn[x] /\ d \in Producers
        BY <4>1, <4>2, PipelineAssumption DEF EndInv, EndOf
      <4> QED
        BY <3>1, <3>2, <4>1, <4>2, <4>3
    <3>4. \A p \in Producers \cap Counted : loop[p] = "done"
      <4> SUFFICES ASSUME NEW p \in Producers \cap Counted PROVE loop[p] = "done"
        OBVIOUS
      <4>1. control[p] = "done" /\ p \in Closing
        BY <3>1, <3>3
      <4>2. closed[p]
        BY <4>1 DEF PipelineInv, OrderInv, ControlInv, Gone
      <4> QED
        BY <2>1, <4>2
    <3> QED
      BY <2>2, <3>4 DEF MainMoves
  <2>6. main = "run"
    BY <2>2, <2>3, <2>4, <2>5
  <2>7. \A t \in Threads : work[t] = <<>>
    BY <2>6, NoCallIsStuck
  <2>8. \A p \in Producers : channel[p] = <<>> /\ hand[p] = NoMessage /\ flush[p] = NoMessage
    <3>1. \A p \in Producers : loop[p] # "done"
      BY <2>6 DEF PipelineInv, OrderInv, MainInv, EndInv, EndOf, BeforeStop, Gone
    <3> QED
      BY <2>1, <3>1
  <2> QED
    BY <2>6, <2>7, <2>8, NothingOpen
<1> QED
  BY <1>1, PipelineSafe, EndsAlways, PTL

=============================================================================
