--------------------------- MODULE RegistryProofs ---------------------------
(***************************************************************************)
(* Proofs about Registry, for any number of producers and streams and any  *)
(* configuration of them.                                                  *)
(***************************************************************************)
EXTENDS Registry, SequenceTheorems, WellFoundedInduction, TLAPS

-----------------------------------------------------------------------------
(* AddProducer *)

\* A set of natural numbers that is not empty has a smallest number.
LEMMA MinExists ==
  ASSUME NEW T \in SUBSET Nat, T # {}
  PROVE  Min(T) \in T /\ \A y \in T : Min(T) <= y
<1>1. PICK x \in T : \A y \in T : ~(<<y, x>> \in OpToRel(<, Nat))
  BY WFMin, NatLessThanWellFounded
<1>2. \A y \in T : x <= y
  <2> SUFFICES ASSUME NEW y \in T, y < x PROVE FALSE
    OBVIOUS
  <2>1. <<y, x>> \in Nat \X Nat /\ <<y, x>>[1] < <<y, x>>[2]
    OBVIOUS
  <2> QED
    BY <1>1, <2>1 DEF OpToRel
<1> QED
  BY <1>1, <1>2 DEF Min

\* AddProducer keeps the list without duplicates, adds only new producers, and loses none.
LEMMA AddProducerIsSound ==
  ASSUME NEW S, NEW list \in Seq(S), NEW new \in Seq(S), IsInjective(list)
  PROVE  /\ AddProducer(list, new) \in Seq(S)
         /\ IsInjective(AddProducer(list, new))
         /\ ToSet(list) \subseteq ToSet(AddProducer(list, new))
         /\ ToSet(AddProducer(list, new)) \subseteq ToSet(list) \cup ToSet(new)
<1> DEFINE known == {i \in DOMAIN new :
                       new[i] \in ToSet(list) \cup {new[j] : j \in 1 .. i - 1}}
           n     == IF known = {} THEN Len(new) ELSE Min(known) - 1
           added == SubSeq(new, 1, n)
           both  == list \o added
<1>1. DOMAIN new = 1 .. Len(new) /\ Len(new) \in Nat /\ DOMAIN list = 1 .. Len(list) /\ Len(list) \in Nat
  BY LenProperties
<1>2. n \in 0 .. Len(new) /\ \A i \in 1 .. n : i \notin known
  <2>1. CASE known = {}
    BY <1>1, <2>1
  <2>2. CASE known # {}
    <3>1. known \in SUBSET Nat
      BY <1>1
    <3>2. Min(known) \in known /\ \A y \in known : Min(known) <= y
      BY <2>2, <3>1, MinExists
    <3>3. Min(known) \in 1 .. Len(new)
      BY <1>1, <3>2
    <3> HIDE DEF known
    <3> QED
      BY <2>2, <3>2, <3>3
  <2> QED
    BY <2>1, <2>2
<1>3. \A i \in 1 .. n : i \in 1 .. Len(new) /\ new[i] \in S /\ new[i] \notin ToSet(list)
                        /\ \A j \in 1 .. i - 1 : new[j] # new[i]
  <2> TAKE i \in 1 .. n
  <2>1. i \in 1 .. Len(new) /\ i \notin known
    BY <1>1, <1>2
  <2>2. new[i] \in S
    BY <2>1, ElementOfSeq
  <2> QED
    BY <1>1, <2>1, <2>2
<1> HIDE DEF n
<1>4. added \in Seq(S) /\ Len(added) = n /\ \A i \in 1 .. n : added[i] = new[i]
  <2>1. /\ SubSeq(new, 1, n) \in Seq(S)
        /\ Len(SubSeq(new, 1, n)) = IF 1 <= n THEN n - 1 + 1 ELSE 0
        /\ \A i \in 1 .. n - 1 + 1 : SubSeq(new, 1, n)[i] = new[1 + i - 1]
    BY <1>1, <1>2, <1>3, SubSeqProperties
  <2> QED
    BY <1>2, <2>1
<1> HIDE DEF added
<1>5. /\ both \in Seq(S) /\ Len(both) = Len(list) + n /\ DOMAIN both = 1 .. Len(list) + n
      /\ \A i \in 1 .. Len(list) + n : both[i] = IF i <= Len(list) THEN list[i] ELSE new[i - Len(list)]
  <2>1. /\ both \in Seq(S) /\ Len(both) = Len(list) + Len(added)
        /\ \A i \in 1 .. Len(list) + Len(added) :
             both[i] = IF i <= Len(list) THEN list[i] ELSE added[i - Len(list)]
    BY <1>4, ConcatProperties
  <2>2. DOMAIN both = 1 .. Len(both)
    BY <2>1, LenProperties
  <2> QED
    BY <1>1, <1>2, <1>4, <2>1, <2>2
<1>6. AddProducer(list, new) = both
  BY DEF AddProducer, added, n
<1> HIDE DEF both, known
<1>7. IsInjective(both)
  <2> SUFFICES ASSUME NEW i \in 1 .. Len(list) + n, NEW k \in 1 .. Len(list) + n, both[i] = both[k], i < k
               PROVE  FALSE
    BY <1>1, <1>2, <1>5 DEF IsInjective
  <2>1. CASE k <= Len(list)
    <3>1. i \in 1 .. Len(list) /\ k \in 1 .. Len(list) /\ list[i] = list[k]
      BY <1>1, <1>2, <1>5, <2>1
    <3> QED
      BY <1>1, <3>1 DEF IsInjective
  <2>2. CASE k > Len(list)
    <3>1. k - Len(list) \in 1 .. n /\ both[k] = new[k - Len(list)]
      BY <1>1, <1>2, <1>5, <2>2
    <3>2. CASE i <= Len(list)
      <4>1. i \in 1 .. Len(list) /\ list[i] = new[k - Len(list)]
        BY <1>1, <1>2, <1>5, <3>1, <3>2
      <4> QED
        BY <1>1, <1>3, <3>1, <4>1 DEF ToSet
    <3>3. CASE i > Len(list)
      <4>1. i - Len(list) \in 1 .. (k - Len(list)) - 1 /\ both[i] = new[i - Len(list)]
        BY <1>1, <1>2, <1>5, <3>3
      <4> QED
        BY <1>3, <3>1, <4>1
    <3> QED
      BY <1>1, <3>2, <3>3
  <2> QED
    BY <1>1, <1>2, <2>1, <2>2
<1>8. ToSet(list) \subseteq ToSet(both)
  BY <1>1, <1>2, <1>5 DEF ToSet
<1>9. ToSet(both) \subseteq ToSet(list) \cup ToSet(new)
  <2> SUFFICES ASSUME NEW i \in 1 .. Len(list) + n
               PROVE  both[i] \in ToSet(list) \cup ToSet(new)
    BY <1>5 DEF ToSet
  <2>1. CASE i <= Len(list)
    BY <1>1, <1>5, <2>1 DEF ToSet
  <2>2. CASE i > Len(list)
    <3>1. both[i] = new[i - Len(list)] /\ i - Len(list) \in 1 .. n
      BY <1>1, <1>2, <1>5, <2>2
    <3>2. new[i - Len(list)] \in ToSet(new)
      BY <1>2, <3>1 DEF ToSet
    <3> QED
      BY <3>1, <3>2
  <2> QED
    BY <1>1, <2>1, <2>2
<1> QED
  BY <1>5, <1>6, <1>7, <1>8, <1>9

\* A single producer is in the list afterwards.
LEMMA AddOneProducer ==
  ASSUME NEW S, NEW list \in Seq(S), NEW p \in S
  PROVE  p \in ToSet(AddProducer(list, <<p>>))
<1> DEFINE known == {i \in DOMAIN <<p>> :
                       <<p>>[i] \in ToSet(list) \cup {<<p>>[j] : j \in 1 .. i - 1}}
<1>1. DOMAIN <<p>> = {1} /\ <<p>>[1] = p /\ Len(<<p>>) = 1
  OBVIOUS
<1>2. CASE p \in ToSet(list)
  <2>1. known = {1}
    BY <1>1, <1>2
  <2>2. Min(known) = 1
    BY <2>1 DEF Min
  <2>3. AddProducer(list, <<p>>) = list \o SubSeq(<<p>>, 1, 0)
    BY <2>1, <2>2 DEF AddProducer
  <2>4. SubSeq(<<p>>, 1, 0) = <<>>
    BY SubSeqEmpty
  <2>5. AddProducer(list, <<p>>) = list
    BY <2>3, <2>4, ConcatEmptySeq
  <2> QED
    BY <1>2, <2>5
<1>3. CASE p \notin ToSet(list)
  <2>1. known = {}
    <3>1. {<<p>>[j] : j \in 1 .. 1 - 1} = {}
      OBVIOUS
    <3> QED
      BY <1>1, <1>3, <3>1
  <2>2. AddProducer(list, <<p>>) = list \o SubSeq(<<p>>, 1, 1)
    BY <1>1, <2>1 DEF AddProducer
  <2>3. SubSeq(<<p>>, 1, 1) = <<p>>
    <3>1. <<p>> \in Seq(S)
      OBVIOUS
    <3>2. SubSeq(<<p>>, 1, Len(<<p>>)) = <<p>>
      BY <3>1, SubSeqFull
    <3> QED
      BY <1>1, <3>2
  <2>4. AddProducer(list, <<p>>) = Append(list, p)
    BY <2>2, <2>3, AppendIsConcat
  <2> QED
    BY <2>4, AppendProperties DEF ToSet
<1> QED
  BY <1>2, <1>3

\* A list without duplicates is added to an empty one as it is.
LEMMA AddAllProducers ==
  ASSUME NEW S, NEW new \in Seq(S), IsInjective(new)
  PROVE  AddProducer(<<>>, new) = new
<1> DEFINE known == {i \in DOMAIN new :
                       new[i] \in ToSet(<<>>) \cup {new[j] : j \in 1 .. i - 1}}
<1>1. DOMAIN new = 1 .. Len(new) /\ Len(new) \in Nat
  BY LenProperties
<1>2. ToSet(<<>>) = {}
  BY DEF ToSet
<1>3. known = {}
  BY <1>1, <1>2 DEF IsInjective
<1>4. AddProducer(<<>>, new) = <<>> \o SubSeq(new, 1, Len(new))
  BY <1>3 DEF AddProducer
<1>5. SubSeq(new, 1, Len(new)) = new
  BY SubSeqFull
<1> QED
  BY <1>4, <1>5, ConcatEmptySeq

-----------------------------------------------------------------------------
(* The inductive invariant *)

\* A map of streams whose lists are sound: without duplicates, and internal streams have only
\* producers that name them.
SoundStreams(map) ==
  /\ map \in [DOMAIN map -> Seq(Producers)] /\ DOMAIN map \subseteq Streams
  /\ \A id \in DOMAIN map :
       /\ ToSet(map[id]) \subseteq Configured
       /\ IsInjective(map[id])
       /\ id \in Internal => \A p \in ToSet(map[id]) : id \in listens[p]

ConfigTypes ==
  /\ listens \in [Producers -> SUBSET Streams] /\ dropTo \in [Producers -> Streams]
  /\ written \subseteq Streams
ListsInv ==
  /\ SoundStreams(streams)
  /\ producers \in Seq(Producers)
  /\ wildcard \in Seq(Producers) /\ ToSet(wildcard) \subseteq Configured /\ IsInjective(wildcard)

\* Where newMultiplexer is.
PhaseInv ==
  /\ phase \in {"streams", "producers", "link", "wildcards", "run"}
  /\ toDo \subseteq Producers \cup Streams
  /\ phase = "streams" =>
       (\A id \in DOMAIN streams : streams[id] = <<>>) /\ wildcard = <<>> /\ producers = <<>>
  /\ phase # "streams" => Wildcard \in DOMAIN streams
  /\ phase = "producers" => toDo \subseteq Producers \ Configured
  /\ phase = "wildcards" => toDo \subseteq DOMAIN streams

\* A configured producer is where it is to be, in every phase.
IsAttached(p) ==
  /\ \A id \in listens[p] \ {Wildcard} : id \in DOMAIN streams /\ p \in Listeners(id)
  /\ Wildcard \in listens[p] <=> p \in ToSet(wildcard)
  /\ listens[p] \ Internal # {} => p \in Listeners(Wildcard)
AttachedInv == \A p \in Configured : IsAttached(p)

\* Producers that drop to each other are ordered, or LinkDependencies has still to look at them.
Linked(p, q) ==
  \/ DependsOn(q, p) \/ DependsOn(p, q)
  \/ \E i \in 1 .. Len(links) : links[i] = <<p, q>>
LinkInv ==
  /\ dependencies \in [Producers -> SUBSET Producers]
  /\ links \in Seq(Producers \X Producers)
  /\ phase # "link" => links = <<>>
  /\ \A p \in Producers : ~DependsOn(p, p)
  /\ phase \in {"link", "wildcards", "run"} =>
       \A p, q \in Configured :
         p # q /\ dropTo[p] \in listens[q] /\ (phase = "link" => p \in toDo) => Linked(p, q)

RegistryInv == ConfigTypes /\ ListsInv /\ PhaseInv /\ AttachedInv /\ LinkInv

-----------------------------------------------------------------------------
(* The streams *)

\* GetStreamOrFallback keeps the streams there are, and makes sound ones.
LEMMA FallbackIsSound ==
  ASSUME ConfigTypes, ListsInv, NEW ids \in SUBSET Streams
  PROVE  /\ SoundStreams(WithFallback(ids))
         /\ DOMAIN WithFallback(ids) = DOMAIN streams \cup ids
         /\ \A id \in DOMAIN streams : WithFallback(ids)[id] = streams[id]
<1> DEFINE new(id) == AddProducer(<<>>, WildcardProducersFor(id))
<1>1. ASSUME NEW id \in ids
      PROVE  /\ new(id) \in Seq(Producers) /\ IsInjective(new(id))
             /\ ToSet(new(id)) \subseteq Configured
             /\ id \in Internal => ToSet(new(id)) = {}
  <2>1. /\ <<>> \in Seq(Producers) /\ ToSet(<<>>) = {} /\ IsInjective(<<>>)
    BY EmptySeq DEF ToSet, IsInjective
  <2>2. WildcardProducersFor(id) \in Seq(Producers)
    BY <2>1 DEF WildcardProducersFor, ListsInv
  <2>3. ToSet(WildcardProducersFor(id)) \subseteq Configured /\ (id \in Internal => ToSet(WildcardProducersFor(id)) = {})
    BY <2>1 DEF WildcardProducersFor, ListsInv
  <2>4. new(id) \in Seq(Producers) /\ IsInjective(new(id)) /\ ToSet(new(id)) \subseteq ToSet(<<>>) \cup ToSet(WildcardProducersFor(id))
    BY <2>1, <2>2, AddProducerIsSound
  <2> HIDE DEF new
  <2> QED
    BY <2>1, <2>3, <2>4
<1> DEFINE W == WithFallback(ids)
<1>2. /\ W = [id \in DOMAIN streams \cup ids |-> IF id \in DOMAIN streams THEN streams[id] ELSE new(id)]
  BY DEF WithFallback
<1> HIDE DEF W, new
<1>3. DOMAIN W = DOMAIN streams \cup ids /\ \A id \in DOMAIN streams : W[id] = streams[id]
  BY <1>2
<1>4. \A id \in ids \ DOMAIN streams : W[id] = new(id)
  BY <1>2
<1>5. \A id \in DOMAIN W : W[id] \in Seq(Producers)
  BY <1>1, <1>3, <1>4 DEF ListsInv, SoundStreams
<1>6. W \in [DOMAIN W -> Seq(Producers)]
  BY <1>2, <1>5
<1>7. SoundStreams(W)
  <2> SUFFICES ASSUME NEW id \in DOMAIN W
               PROVE  /\ ToSet(W[id]) \subseteq Configured /\ IsInjective(W[id])
                      /\ id \in Internal => \A p \in ToSet(W[id]) : id \in listens[p]
    BY <1>3, <1>6 DEF SoundStreams, ListsInv
  <2>1. CASE id \in DOMAIN streams
    BY <1>3, <2>1 DEF ListsInv, SoundStreams
  <2>2. CASE id \notin DOMAIN streams
    BY <1>1, <1>3, <1>4, <2>2
  <2> QED
    BY <2>1, <2>2
<1> QED
  BY <1>3, <1>7 DEF W

\* A step that adds streams and nothing else keeps all that has been said of lists.
Grows ==
  /\ DOMAIN streams \subseteq DOMAIN streams'
  /\ \A id \in DOMAIN streams : ToSet(streams[id]) \subseteq ToSet(streams'[id])

\* Streams that only grow keep the producers that are attached.
LEMMA StillAttached ==
  ASSUME AttachedInv, PhaseInv, phase # "streams", Grows, UNCHANGED <<config, wildcard, producers>>
  PROVE  AttachedInv'
<1> SUFFICES ASSUME NEW p \in Configured PROVE IsAttached(p)'
  BY DEF AttachedInv, Configured
<1>1. IsAttached(p) /\ Wildcard \in DOMAIN streams
  BY DEF AttachedInv, PhaseInv
<1>2. listens' = listens /\ wildcard' = wildcard
  BY DEF config
<1>3. \A id \in DOMAIN streams : p \in Listeners(id) => p \in Listeners(id)'
  BY DEF Grows, Listeners
<1> QED
  BY <1>1, <1>2, <1>3 DEF IsAttached, Grows

\* Streams that are missing are made, and the others stay.
LEMMA FallbackGrows ==
  ASSUME ConfigTypes, ListsInv, NEW ids \in SUBSET Streams, streams' = WithFallback(ids)
  PROVE  Grows
BY FallbackIsSound DEF Grows

-----------------------------------------------------------------------------
(* Dependencies *)

\* A dependency more takes none away.
LEMMA DependsOnGrows ==
  ASSUME \A p \in Producers : dependencies[p] \subseteq dependencies'[p]
  PROVE  \A p, q \in Producers : DependsOn(p, q) => DependsOn(p, q)'
<1> SUFFICES ASSUME NEW p \in Producers, NEW q \in Producers, DependsOn(p, q), NEW S \in SUBSET Producers,
                    dependencies'[p] \subseteq S, Closed(S)'
             PROVE  q \in S
  BY DEF DependsOn
<1>1. dependencies[p] \subseteq S /\ Closed(S)
  BY DEF Closed
<1> QED
  BY <1>1 DEF DependsOn

\* A link adds a dependency and takes none.
LEMMA LinkGrows ==
  ASSUME dependencies \in [Producers -> SUBSET Producers], NEW parent \in Producers, NEW child \in Producers,
         dependencies' = Link(parent, child)
  PROVE  /\ dependencies' \in [Producers -> SUBSET Producers]
         /\ \A p \in Producers : dependencies[p] \subseteq dependencies'[p]
BY DEF Link

\* The switch of LinkDependencies never closes a circle.
LEMMA LinkIsAcyclic ==
  ASSUME dependencies \in [Producers -> SUBSET Producers], NEW parent \in Producers, NEW child \in Producers,
         dependencies' = Link(parent, child), \A p \in Producers : ~DependsOn(p, p),
         NEW x \in Producers
  PROVE  ~DependsOn(x, x)'
<1>1. CASE child = parent \/ DependsOn(parent, child) \/ DependsOn(child, parent)
  BY <1>1 DEF Link, DependsOn, Closed
<1>2. CASE ~(child = parent \/ DependsOn(parent, child) \/ DependsOn(child, parent))
  <2>1. dependencies' = [dependencies EXCEPT ![child] = dependencies[child] \cup {parent}]
    BY <1>2 DEF Link
  <2>2. PICK S \in SUBSET Producers : dependencies[parent] \subseteq S /\ Closed(S) /\ child \notin S
    BY <1>2 DEF DependsOn
  <2> DEFINE C == S \cup {parent}
  <2>3. C \in SUBSET Producers /\ Closed(C) /\ child \notin C
    BY <1>2, <2>2 DEF Closed
  <2>4. PICK T \in SUBSET Producers : dependencies[x] \subseteq T /\ Closed(T) /\ x \notin T
    BY DEF DependsOn
  <2> HIDE DEF C
  <2>5. CASE x \in C
    <3>1. dependencies'[x] \subseteq T \cap C /\ x \notin T \cap C
      BY <2>1, <2>3, <2>4, <2>5 DEF Closed
    <3>2. \A p \in T \cap C : dependencies'[p] \subseteq T \cap C
      BY <2>1, <2>3, <2>4 DEF Closed
    <3>3. T \cap C \in SUBSET Producers
      BY <2>3
    <3> QED
      BY <3>1, <3>2, <3>3 DEF DependsOn, Closed
  <2>6. CASE x \notin C
    <3>1. parent \in C
      BY DEF C
    <3>2. dependencies'[x] \subseteq T \cup C /\ x \notin T \cup C
      BY <2>1, <2>4, <2>6, <3>1
    <3>3. \A p \in T \cup C : dependencies'[p] \subseteq T \cup C
      BY <2>1, <2>3, <2>4, <3>1 DEF Closed
    <3>4. T \cup C \in SUBSET Producers
      BY <2>3
    <3> QED
      BY <3>2, <3>3, <3>4 DEF DependsOn, Closed
  <2> QED
    BY <2>5, <2>6
<1> QED
  BY <1>1, <1>2

\* After it parent and child are ordered, unless they are the same.
LEMMA LinkOrders ==
  ASSUME dependencies \in [Producers -> SUBSET Producers], NEW parent \in Producers, NEW child \in Producers,
         dependencies' = Link(parent, child), child # parent
  PROVE  DependsOn(child, parent)' \/ DependsOn(parent, child)'
<1>1. CASE DependsOn(parent, child) \/ DependsOn(child, parent)
  BY <1>1, LinkGrows, DependsOnGrows
<1>2. CASE ~(DependsOn(parent, child) \/ DependsOn(child, parent))
  <2>1. parent \in dependencies'[child]
    BY <1>2 DEF Link
  <2> QED
    BY <2>1 DEF DependsOn
<1> QED
  BY <1>1, <1>2

-----------------------------------------------------------------------------
(* The steps *)

\* The registry is empty at first.
LEMMA RegistryInit == Init => RegistryInv
<1> SUFFICES ASSUME Init PROVE RegistryInv
  OBVIOUS
<1> USE DEF Init
<1>1. ConfigTypes
  BY RegistryAssumption DEF ConfigTypes
<1>2. /\ <<>> \in Seq(Producers) /\ <<>> \in Seq(Producers \X Producers)
      /\ ToSet(<<>>) = {} /\ IsInjective(<<>>) /\ DOMAIN <<>> = {}
  BY EmptySeq DEF ToSet, IsInjective
<1>3. ListsInv
  BY <1>2 DEF ListsInv, SoundStreams
<1>4. PhaseInv
  BY <1>2 DEF PhaseInv
<1>5. AttachedInv
  BY <1>2 DEF AttachedInv, Configured
<1>6. LinkInv
  <2>1. ASSUME NEW p \in Producers PROVE ~DependsOn(p, p)
    <3>1. {} \in SUBSET Producers /\ dependencies[p] \subseteq {} /\ Closed({})
      BY DEF Closed
    <3> QED
      BY <3>1 DEF DependsOn
  <2> QED
    BY <1>2, <2>1 DEF LinkInv
<1> QED
  BY <1>1, <1>3, <1>4, <1>5, <1>6 DEF RegistryInv

\* What does not touch the dependencies and makes nobody linked that was not.
LEMMA LinkInvKept ==
  ASSUME LinkInv, UNCHANGED <<config, producers, dependencies, links>>,
         phase # "link", phase' # "link",
         phase' \in {"wildcards", "run"} => phase \in {"wildcards", "run"}
  PROVE  LinkInv'
<1>1. \A p, q : DependsOn(p, q)' <=> DependsOn(p, q)
  BY DEF DependsOn, Closed
<1> QED
  BY <1>1 DEF LinkInv, Linked, Configured, config

\* A stream that is configured is registered with its fallback,
LEMMA RegisterStep ==
  ASSUME RegistryInv, NEW id \in Streams, Register(id)
  PROVE  RegistryInv'
<1> USE DEF RegistryInv
<1>1. /\ phase = "streams" /\ phase' = phase
      /\ UNCHANGED <<config, producers, wildcard, dependencies, links, toDo>>
      /\ streams' = [x \in DOMAIN streams \cup {id} |-> IF x = id THEN <<>> ELSE streams[x]]
  BY DEF Register
<1>2. \A x \in DOMAIN streams : streams[x] = <<>>
  BY <1>1 DEF PhaseInv
<1>3. DOMAIN streams' = DOMAIN streams \cup {id} /\ \A x \in DOMAIN streams' : streams'[x] = <<>>
  BY <1>1, <1>2
<1>4. <<>> \in Seq(Producers) /\ ToSet(<<>>) = {} /\ IsInjective(<<>>)
  BY EmptySeq DEF ToSet, IsInjective
<1>5. streams' \in [DOMAIN streams' -> Seq(Producers)]
  BY <1>1, <1>2, <1>4
<1>6. ListsInv'
  BY <1>1, <1>3, <1>4, <1>5 DEF ListsInv, SoundStreams, Configured
<1>7. PhaseInv'
  BY <1>1, <1>3 DEF PhaseInv
<1>8. ConfigTypes' /\ AttachedInv'
  <2>1. Configured = {}
    BY <1>1, <1>4 DEF PhaseInv, Configured
  <2> QED
    BY <1>1, <2>1 DEF ConfigTypes, config, AttachedInv, Configured
<1>9. LinkInv'
  BY <1>1, LinkInvKept
<1> QED
  BY <1>6, <1>7, <1>8, <1>9

\* GetStreamOrFallback in any phase but the first, where there is a wildcard stream.
LEMMA FallbackStep ==
  ASSUME RegistryInv, phase # "streams", NEW ids \in SUBSET Streams, streams' = WithFallback(ids),
         UNCHANGED <<config, wildcard, producers>>
  PROVE  /\ ConfigTypes' /\ ListsInv' /\ AttachedInv' /\ Wildcard \in DOMAIN streams'
         /\ DOMAIN streams' = DOMAIN streams \cup ids
<1> USE DEF RegistryInv
<1>1. SoundStreams(WithFallback(ids)) /\ DOMAIN WithFallback(ids) = DOMAIN streams \cup ids /\ Grows
  BY FallbackIsSound, FallbackGrows
<1>2. ConfigTypes'
  BY DEF ConfigTypes, config
<1>3. ListsInv'
  BY <1>1 DEF ListsInv, SoundStreams, Configured, config
<1>4. AttachedInv'
  BY <1>1, StillAttached
<1> QED
  BY <1>1, <1>2, <1>3, <1>4 DEF PhaseInv

\* the streams are done,
LEMMA StreamsDoneStep ==
  ASSUME RegistryInv, StreamsDone
  PROVE  RegistryInv'
<1> USE DEF RegistryInv
<1>1. /\ phase = "streams" /\ phase' = "producers" /\ toDo' = Producers
      /\ streams' = WithFallback({Wildcard})
      /\ UNCHANGED <<config, wildcard, producers, dependencies, links>>
  BY DEF StreamsDone
<1>2. {Wildcard} \in SUBSET Streams
  BY DEF Streams
<1>3. SoundStreams(streams') /\ DOMAIN streams' = DOMAIN streams \cup {Wildcard}
  BY <1>1, <1>2, FallbackIsSound
<1>4. Configured = {} /\ Configured' = {}
  BY <1>1 DEF PhaseInv, Configured, ToSet
<1>5. ConfigTypes' /\ ListsInv'
  BY <1>1, <1>3 DEF ConfigTypes, ListsInv, SoundStreams, Configured, config
<1>6. PhaseInv'
  BY <1>1, <1>3, <1>4 DEF PhaseInv
<1>7. AttachedInv'
  BY <1>4 DEF AttachedInv
<1>8. LinkInv'
  BY <1>1, LinkInvKept
<1> QED
  BY <1>5, <1>6, <1>7, <1>8

\* The streams of the producer that is configured have it, and the others have not changed.
LEMMA AttachedStreams ==
  ASSUME RegistryInv, phase = "producers", NEW prod \in Producers \ Configured
  PROVE  /\ DOMAIN Attached(prod) = DOMAIN streams \cup (listens[prod] \ {Wildcard})
         /\ Attached(prod) \in [DOMAIN Attached(prod) -> Seq(Producers)]
         /\ \A id \in DOMAIN Attached(prod) :
              /\ IsInjective(Attached(prod)[id])
              /\ id \in DOMAIN streams => ToSet(streams[id]) \subseteq ToSet(Attached(prod)[id])
              /\ ToSet(Attached(prod)[id]) \subseteq Configured \cup {prod}
              /\ id \in Internal => \A p \in ToSet(Attached(prod)[id]) : id \in listens[p]
              /\ id \in listens[prod] \ {Wildcard} => prod \in ToSet(Attached(prod)[id])
              /\ id = Wildcard /\ listens[prod] \ Internal # {} => prod \in ToSet(Attached(prod)[id])
<1> USE DEF RegistryInv
<1> DEFINE ids == listens[prod] \ {Wildcard}
           all == WithFallback(ids)
           Adds(id) == id \in ids \/ (id = Wildcard /\ listens[prod] \ Internal # {})
           A == Attached(prod)
<1>1. ids \in SUBSET Streams
  BY DEF ConfigTypes
<1> HIDE DEF ids
<1>2. /\ SoundStreams(all) /\ DOMAIN all = DOMAIN streams \cup ids
      /\ \A id \in DOMAIN streams : all[id] = streams[id]
  BY <1>1, FallbackIsSound
<1>3. A = [id \in DOMAIN all |-> IF Adds(id) THEN AddProducer(all[id], <<prod>>) ELSE all[id]]
  BY DEF Attached, ids
<1> HIDE DEF all, Adds, A
<1>4. <<prod>> \in Seq(Producers) /\ ToSet(<<prod>>) = {prod}
  BY DEF ToSet
<1>5. ASSUME NEW id \in DOMAIN all
      PROVE  /\ all[id] \in Seq(Producers) /\ IsInjective(all[id]) /\ ToSet(all[id]) \subseteq Configured
             /\ id \in Internal => \A p \in ToSet(all[id]) : id \in listens[p]
  BY <1>2 DEF SoundStreams
<1>6. ASSUME NEW id \in DOMAIN all
      PROVE  /\ A[id] \in Seq(Producers) /\ IsInjective(A[id])
             /\ ToSet(all[id]) \subseteq ToSet(A[id])
             /\ ToSet(A[id]) \subseteq ToSet(all[id]) \cup {prod}
             /\ Adds(id) => prod \in ToSet(A[id])
             /\ ~Adds(id) => A[id] = all[id]
  <2>1. CASE Adds(id)
    <3>1. A[id] = AddProducer(all[id], <<prod>>)
      BY <1>3, <2>1
    <3>2. /\ AddProducer(all[id], <<prod>>) \in Seq(Producers)
          /\ IsInjective(AddProducer(all[id], <<prod>>))
          /\ ToSet(all[id]) \subseteq ToSet(AddProducer(all[id], <<prod>>))
          /\ ToSet(AddProducer(all[id], <<prod>>)) \subseteq ToSet(all[id]) \cup ToSet(<<prod>>)
      BY <1>4, <1>5, AddProducerIsSound
    <3>3. prod \in ToSet(AddProducer(all[id], <<prod>>))
      BY <1>5, AddOneProducer
    <3> QED
      BY <1>4, <2>1, <3>1, <3>2, <3>3
  <2>2. CASE ~Adds(id)
    BY <1>3, <1>5, <2>2
  <2> QED
    BY <2>1, <2>2
<1>7. DOMAIN A = DOMAIN all /\ A \in [DOMAIN A -> Seq(Producers)]
  BY <1>3, <1>6
<1>8. ASSUME NEW id \in Internal, NEW p \in ToSet(A[id]), id \in DOMAIN all PROVE id \in listens[p]
  <2>1. CASE p \in ToSet(all[id])
    BY <1>5, <1>8, <2>1
  <2>2. CASE p \notin ToSet(all[id])
    <3>1. p = prod /\ Adds(id)
      BY <1>6, <1>8, <2>2
    <3>2. id # Wildcard
      BY RegistryAssumption
    <3> QED
      BY <3>1, <3>2 DEF Adds, ids
  <2> QED
    BY <2>1, <2>2
<1>9. DOMAIN A = DOMAIN streams \cup ids
  BY <1>2, <1>7
<1>10. \A id \in DOMAIN A :
         /\ IsInjective(A[id])
         /\ id \in DOMAIN streams => ToSet(streams[id]) \subseteq ToSet(A[id])
         /\ ToSet(A[id]) \subseteq Configured \cup {prod}
         /\ id \in Internal => \A p \in ToSet(A[id]) : id \in listens[p]
         /\ id \in ids => prod \in ToSet(A[id])
         /\ id = Wildcard /\ listens[prod] \ Internal # {} => prod \in ToSet(A[id])
  BY <1>2, <1>5, <1>6, <1>7, <1>8 DEF Adds
<1> QED
  BY <1>7, <1>9, <1>10 DEF ids, A

\* a producer is attached to the streams it names,
LEMMA ConfigureProducerStep ==
  ASSUME RegistryInv, NEW prod \in Producers, ConfigureProducer(prod)
  PROVE  RegistryInv'
<1> USE DEF RegistryInv
<1>1. /\ phase = "producers" /\ phase' = phase /\ toDo' = toDo \ {prod} /\ prod \in toDo
      /\ UNCHANGED <<config, dependencies, links>>
  BY DEF ConfigureProducer
<1>2. prod \notin Configured /\ ConfigTypes'
  BY <1>1 DEF PhaseInv, ConfigTypes, config
<1>3. LinkInv'
  <2>1. \A p, q : DependsOn(p, q)' <=> DependsOn(p, q)
    BY <1>1 DEF DependsOn, Closed
  <2> QED
    BY <1>1, <2>1 DEF LinkInv
<1>4. CASE UNCHANGED <<streams, wildcard, producers>>
  BY <1>1, <1>2, <1>3, <1>4 DEF ListsInv, SoundStreams, PhaseInv, AttachedInv, IsAttached, Listeners, Configured, config
<1>5. CASE /\ listens[prod] # {}
           /\ streams' = Attached(prod) /\ producers' = Append(producers, prod)
           /\ wildcard' = IF Wildcard \in listens[prod] THEN RegisterWildcardProducer(prod) ELSE wildcard
  <2>1. prod \notin ToSet(wildcard)
    BY <1>2 DEF ListsInv
  <2>2. producers' \in Seq(Producers) /\ Configured' = Configured \cup {prod}
    <3>1. /\ producers' \in Seq(Producers) /\ Len(producers') = Len(producers) + 1
          /\ \A i \in 1 .. Len(producers) : producers'[i] = producers[i]
          /\ producers'[Len(producers) + 1] = prod
      BY <1>5, AppendProperties DEF ListsInv
    <3>2. DOMAIN producers = 1 .. Len(producers) /\ DOMAIN producers' = 1 .. Len(producers) + 1 /\ Len(producers) \in Nat
      BY <3>1, LenProperties DEF ListsInv
    <3> QED
      BY <3>1, <3>2 DEF Configured, ToSet
  <2>3. /\ wildcard' \in Seq(Producers) /\ IsInjective(wildcard')
        /\ ToSet(wildcard') = ToSet(wildcard) \cup (IF Wildcard \in listens[prod] THEN {prod} ELSE {})
    <3>1. CASE Wildcard \in listens[prod]
      <4>1. wildcard' = Append(wildcard, prod)
        BY <1>5, <2>1, <3>1 DEF RegisterWildcardProducer
      <4>2. /\ wildcard' \in Seq(Producers) /\ Len(wildcard') = Len(wildcard) + 1
            /\ \A i \in 1 .. Len(wildcard) : wildcard'[i] = wildcard[i]
            /\ wildcard'[Len(wildcard) + 1] = prod
        BY <4>1, AppendProperties DEF ListsInv
      <4>3. DOMAIN wildcard = 1 .. Len(wildcard) /\ DOMAIN wildcard' = 1 .. Len(wildcard) + 1 /\ Len(wildcard) \in Nat
        BY <4>2, LenProperties DEF ListsInv
      <4>4. ToSet(wildcard') = ToSet(wildcard) \cup {prod}
        BY <4>2, <4>3 DEF ToSet
      <4>5. IsInjective(wildcard)
        BY DEF ListsInv
      <4>6. IsInjective(wildcard')
        BY <2>1, <4>2, <4>3, <4>5 DEF IsInjective, ToSet
      <4> QED
        BY <3>1, <4>2, <4>4, <4>6
    <3>2. CASE Wildcard \notin listens[prod]
      BY <1>5, <3>2 DEF ListsInv
    <3> QED
      BY <3>1, <3>2
  <2>4. /\ DOMAIN streams' = DOMAIN streams \cup (listens[prod] \ {Wildcard})
        /\ streams' \in [DOMAIN streams' -> Seq(Producers)]
        /\ \A id \in DOMAIN streams' :
             /\ IsInjective(streams'[id])
             /\ id \in DOMAIN streams => ToSet(streams[id]) \subseteq ToSet(streams'[id])
             /\ ToSet(streams'[id]) \subseteq Configured \cup {prod}
             /\ id \in Internal => \A p \in ToSet(streams'[id]) : id \in listens[p]
             /\ id \in listens[prod] \ {Wildcard} => prod \in ToSet(streams'[id])
             /\ id = Wildcard /\ listens[prod] \ Internal # {} => prod \in ToSet(streams'[id])
    BY <1>1, <1>2, <1>5, AttachedStreams
  <2>5. ListsInv'
    <3>1. DOMAIN streams' \subseteq Streams
      BY <2>4 DEF ListsInv, SoundStreams, ConfigTypes
    <3>2. SoundStreams(streams)'
      BY <1>1, <2>2, <2>4, <3>1 DEF SoundStreams, config
    <3>3. ToSet(wildcard') \subseteq Configured'
      BY <2>2, <2>3 DEF ListsInv
    <3> QED
      BY <2>2, <2>3, <3>2, <3>3 DEF ListsInv
  <2>6. PhaseInv'
    BY <1>1, <2>2, <2>4 DEF PhaseInv
  <2>7. AttachedInv'
    <3> SUFFICES ASSUME NEW p \in Configured' PROVE IsAttached(p)'
      BY DEF AttachedInv
    <3>1. Wildcard \in DOMAIN streams'
      BY <1>1, <2>4 DEF PhaseInv
    <3>2. CASE p = prod
      <4>1. listens' = listens
        BY <1>1 DEF config
      <4>2. \A id \in listens[prod] \ {Wildcard} : id \in DOMAIN streams' /\ prod \in ToSet(streams'[id])
        BY <2>4
      <4>3. Wildcard \in listens[prod] <=> prod \in ToSet(wildcard')
        BY <2>1, <2>3
      <4>4. listens[prod] \ Internal # {} => prod \in ToSet(streams'[Wildcard])
        BY <2>4, <3>1
      <4> QED
        BY <3>2, <4>1, <4>2, <4>3, <4>4 DEF IsAttached, Listeners
    <3>3. CASE p # prod
      <4>1. IsAttached(p)
        BY <2>2, <3>3 DEF AttachedInv
      <4>2. listens' = listens /\ (p \in ToSet(wildcard') <=> p \in ToSet(wildcard))
        BY <1>1, <2>3, <3>3 DEF config
      <4>3. \A id \in DOMAIN streams : id \in DOMAIN streams' /\ (p \in Listeners(id) => p \in Listeners(id)')
        BY <2>4 DEF Listeners
      <4>4. Wildcard \in DOMAIN streams
        BY <1>1 DEF PhaseInv
      <4> QED
        BY <4>1, <4>2, <4>3, <4>4 DEF IsAttached
    <3> QED
      BY <3>2, <3>3
  <2> QED
    BY <1>2, <1>3, <2>5, <2>6, <2>7
<1> QED
  BY <1>4, <1>5 DEF ConfigureProducer

\* LinkDependencies finds every producer that names the drop stream of the parent.
LEMMA LinkDependenciesStep ==
  ASSUME RegistryInv, NEW parent \in Producers, LinkDependencies(parent)
  PROVE  RegistryInv'
<1> USE DEF RegistryInv
<1> DEFINE drops == dropTo[parent]
           list  == streams'[drops]
<1>1. /\ phase = "link" /\ phase' = phase /\ links = <<>> /\ toDo' = toDo \cup {parent}
      /\ streams' = WithFallback({drops}) /\ parent \in Configured
      /\ links' = [i \in DOMAIN list |-> <<parent, list[i]>>]
      /\ UNCHANGED <<config, wildcard, producers, dependencies>>
  BY DEF LinkDependencies, Configured
<1>2. {drops} \in SUBSET Streams
  BY DEF ConfigTypes
<1>3. /\ ConfigTypes' /\ ListsInv' /\ AttachedInv' /\ Wildcard \in DOMAIN streams'
      /\ DOMAIN streams' = DOMAIN streams \cup {drops}
  BY <1>1, <1>2, FallbackStep
<1>4. PhaseInv'
  BY <1>1, <1>3 DEF PhaseInv
<1>5. list \in Seq(Producers) /\ DOMAIN list = 1 .. Len(list) /\ Len(list) \in Nat
  <2>1. list \in Seq(Producers)
    BY <1>3 DEF ListsInv, SoundStreams
  <2> QED
    BY <2>1, LenProperties
<1>6. ASSUME NEW q \in Configured, dropTo[parent] \in listens[q] PROVE q \in ToSet(list)
  <2>1. IsAttached(q)' /\ listens' = listens
    BY <1>1, <1>3 DEF AttachedInv, Configured, config
  <2>2. CASE drops = Wildcard
    <3>1. Wildcard \notin Internal
      BY RegistryAssumption
    <3>2. listens[q] \ Internal # {}
      BY <1>6, <2>2, <3>1
    <3> QED
      BY <2>1, <2>2, <3>2 DEF IsAttached, Listeners
  <2>3. CASE drops # Wildcard
    BY <1>6, <2>1, <2>3 DEF IsAttached, Listeners
  <2> QED
    BY <2>2, <2>3
<1> HIDE DEF list, drops
<1>7. links' \in Seq(Producers \X Producers) /\ Len(links') = Len(list) /\ \A i \in 1 .. Len(list) : links'[i] = <<parent, list[i]>>
  <2>1. \A i \in 1 .. Len(list) : <<parent, list[i]>> \in Producers \X Producers
    BY <1>5, ElementOfSeq
  <2>2. links' = [i \in 1 .. Len(list) |-> <<parent, list[i]>>]
    BY <1>1, <1>5
  <2> QED
    BY <1>5, <2>1, <2>2
<1>8. LinkInv'
  <2>1. \A p, q : DependsOn(p, q)' <=> DependsOn(p, q)
    BY <1>1 DEF DependsOn, Closed
  <2>2. ASSUME NEW p \in Configured, NEW q \in Configured, p # q, dropTo[p] \in listens[q], p \in toDo'
        PROVE  Linked(p, q)'
    <3>1. CASE p \in toDo
      <4>1. Linked(p, q)
        BY <1>1, <2>2, <3>1 DEF LinkInv
      <4>2. DependsOn(q, p) \/ DependsOn(p, q)
        BY <1>1, <4>1 DEF Linked
      <4> QED
        BY <2>1, <4>2 DEF Linked
    <3>2. CASE p \notin toDo
      <4>1. p = parent
        BY <1>1, <2>2, <3>2
      <4>2. PICK i \in DOMAIN list : list[i] = q
        BY <1>6, <2>2, <4>1 DEF ToSet
      <4>3. i \in 1 .. Len(links') /\ links'[i] = <<p, q>>
        BY <1>5, <1>7, <4>1, <4>2
      <4> QED
        BY <4>3 DEF Linked
    <3> QED
      BY <3>1, <3>2
  <2>3. Configured' = Configured /\ dropTo' = dropTo /\ listens' = listens
    BY <1>1 DEF Configured, config
  <2> QED
    BY <1>1, <1>7, <2>1, <2>2, <2>3 DEF LinkInv
<1> QED
  BY <1>3, <1>4, <1>8

\* a listener is linked with the producer that drops,
LEMMA LinkChildStep ==
  ASSUME RegistryInv, LinkChild
  PROVE  RegistryInv'
<1> USE DEF RegistryInv
<1>1. /\ phase = "link" /\ phase' = phase /\ links # <<>> /\ links' = Tail(links)
      /\ dependencies' = Link(Head(links)[1], Head(links)[2])
      /\ UNCHANGED <<config, streams, wildcard, producers, toDo>>
  BY DEF LinkChild
<1>2. ConfigTypes' /\ ListsInv' /\ PhaseInv' /\ AttachedInv'
  BY <1>1 DEF ConfigTypes, ListsInv, SoundStreams, PhaseInv, AttachedInv, IsAttached, Listeners, Configured, config
<1>3. links \in Seq(Producers \X Producers)
  BY DEF LinkInv
<1>4. PICK parent \in Producers, child \in Producers : Head(links) = <<parent, child>>
  BY <1>1, <1>3, HeadTailProperties
<1>5. dependencies' = Link(parent, child)
  BY <1>1, <1>4
<1>6. /\ links' \in Seq(Producers \X Producers) /\ Len(links) \in Nat \ {0} /\ Len(links') = Len(links) - 1
      /\ links[1] = <<parent, child>>
      /\ \A i \in 2 .. Len(links) : links'[i - 1] = links[i]
  <2>1. links[1] = Head(links)
    BY <1>1, <1>3
  <2>2. /\ links' \in Seq(Producers \X Producers) /\ Len(links') = Len(links) - 1
        /\ \A i \in 1 .. Len(links') : links'[i] = links[i + 1]
    BY <1>1, <1>3, HeadTailProperties
  <2>3. Len(links) \in Nat \ {0}
    BY <1>1, <1>3, EmptySeq
  <2> QED
    BY <1>4, <2>1, <2>2, <2>3
<1>7. /\ dependencies' \in [Producers -> SUBSET Producers]
      /\ \A p \in Producers : dependencies[p] \subseteq dependencies'[p]
  BY <1>5, LinkGrows DEF LinkInv
<1>8. \A p, q \in Producers : DependsOn(p, q) => DependsOn(p, q)'
  BY <1>7, DependsOnGrows
<1>9. \A p \in Producers : ~DependsOn(p, p)'
  BY <1>5, LinkIsAcyclic DEF LinkInv
<1>10. Configured \subseteq Producers
  BY ElementOfSeq, LenProperties DEF Configured, ToSet, ListsInv
<1>11. ASSUME NEW p \in Configured, NEW q \in Configured, p # q, Linked(p, q) PROVE Linked(p, q)'
  <2>1. CASE DependsOn(q, p) \/ DependsOn(p, q)
    BY <1>8, <1>10, <2>1 DEF Linked
  <2>2. CASE \E i \in 1 .. Len(links) : links[i] = <<p, q>>
    <3>1. PICK i \in 1 .. Len(links) : links[i] = <<p, q>>
      BY <2>2
    <3>2. CASE i = 1
      <4>1. p = parent /\ q = child
        BY <1>6, <3>1, <3>2
      <4>2. DependsOn(child, parent)' \/ DependsOn(parent, child)'
        BY <1>5, <1>11, <4>1, LinkOrders DEF LinkInv
      <4> QED
        BY <4>1, <4>2 DEF Linked
    <3>3. CASE i # 1
      <4>1. i \in 2 .. Len(links) /\ i - 1 \in 1 .. Len(links')
        BY <1>6, <3>3
      <4>2. links'[i - 1] = <<p, q>>
        BY <1>6, <3>1, <4>1
      <4> QED
        BY <4>1, <4>2 DEF Linked
    <3> QED
      BY <3>2, <3>3
  <2> QED
    BY <1>11, <2>1, <2>2 DEF Linked
<1>12. LinkInv'
  <2>1. /\ Configured' = Configured /\ dropTo' = dropTo /\ listens' = listens /\ toDo' = toDo
    BY <1>1 DEF Configured, config
  <2>2. ASSUME NEW p \in Configured, NEW q \in Configured, p # q, dropTo[p] \in listens[q], p \in toDo
        PROVE  Linked(p, q)'
    BY <1>1, <1>11, <2>2 DEF LinkInv
  <2> QED
    BY <1>1, <1>6, <1>7, <1>9, <2>1, <2>2 DEF LinkInv
<1> QED
  BY <1>2, <1>12

\* the producers are done,
LEMMA ProducersDoneStep ==
  ASSUME RegistryInv, ProducersDone
  PROVE  RegistryInv'
<1> USE DEF RegistryInv
<1>1. /\ phase = "producers" /\ phase' = "link" /\ toDo = {} /\ toDo' = {}
      /\ UNCHANGED <<config, streams, wildcard, producers, dependencies, links>>
  BY DEF ProducersDone
<1>2. ConfigTypes' /\ ListsInv' /\ PhaseInv' /\ AttachedInv'
  BY <1>1 DEF ConfigTypes, ListsInv, SoundStreams, PhaseInv, AttachedInv, IsAttached, Listeners, Configured, config
<1>3. \A p, q : DependsOn(p, q)' <=> DependsOn(p, q)
  BY <1>1 DEF DependsOn, Closed
<1>4. LinkInv'
  BY <1>1, <1>3 DEF LinkInv
<1> QED
  BY <1>2, <1>4

\* consumers make the streams they name,
LEMMA ConfigureConsumersStep ==
  ASSUME RegistryInv, ConfigureConsumers
  PROVE  RegistryInv'
<1> USE DEF RegistryInv
<1>1. /\ phase = "link" /\ phase' = "wildcards" /\ links = <<>> /\ toDo = Configured
      /\ streams' = WithFallback(written) /\ toDo' = DOMAIN streams'
      /\ UNCHANGED <<config, wildcard, producers, dependencies, links>>
  BY DEF ConfigureConsumers, Configured
<1>2. written \in SUBSET Streams
  BY DEF ConfigTypes
<1>3. ConfigTypes' /\ ListsInv' /\ AttachedInv' /\ Wildcard \in DOMAIN streams'
  BY <1>1, <1>2, FallbackStep
<1>4. PhaseInv'
  <2>1. DOMAIN streams' \subseteq Streams
    BY <1>3 DEF ListsInv, SoundStreams
  <2> QED
    BY <1>1, <1>3, <2>1 DEF PhaseInv
<1>5. LinkInv'
  <2>1. \A p, q : DependsOn(p, q)' <=> DependsOn(p, q)
    BY <1>1 DEF DependsOn, Closed
  <2> QED
    BY <1>1, <2>1 DEF LinkInv, Linked, Configured, config
<1> QED
  BY <1>3, <1>4, <1>5

\* a stream gets the wildcard producers,
LEMMA AddWildcardsStep ==
  ASSUME RegistryInv, NEW id \in Streams, AddWildcards(id)
  PROVE  RegistryInv'
<1> USE DEF RegistryInv
<1> DEFINE list == AddProducer(streams[id], WildcardProducersFor(id))
<1>1. /\ phase = "wildcards" /\ phase' = phase /\ id \in toDo /\ toDo' = toDo \ {id}
      /\ streams' = [streams EXCEPT ![id] = list]
      /\ UNCHANGED <<config, wildcard, producers, dependencies, links>>
  BY DEF AddWildcards
<1>2. id \in DOMAIN streams
  BY <1>1 DEF PhaseInv
<1>3. /\ <<>> \in Seq(Producers) /\ ToSet(<<>>) = {}
  BY EmptySeq DEF ToSet
<1>4. /\ WildcardProducersFor(id) \in Seq(Producers)
      /\ ToSet(WildcardProducersFor(id)) \subseteq Configured
      /\ id \in Internal => ToSet(WildcardProducersFor(id)) = {}
  BY <1>3 DEF WildcardProducersFor, ListsInv
<1>5. /\ list \in Seq(Producers) /\ IsInjective(list) /\ ToSet(streams[id]) \subseteq ToSet(list)
      /\ ToSet(list) \subseteq ToSet(streams[id]) \cup ToSet(WildcardProducersFor(id))
  <2>1. streams[id] \in Seq(Producers) /\ IsInjective(streams[id])
    BY <1>2 DEF ListsInv, SoundStreams
  <2> QED
    BY <1>4, <2>1, AddProducerIsSound
<1> HIDE DEF list
<1>6. /\ DOMAIN streams' = DOMAIN streams /\ streams'[id] = list
      /\ \A x \in DOMAIN streams : x # id => streams'[x] = streams[x]
      /\ streams' \in [DOMAIN streams' -> Seq(Producers)]
  BY <1>1, <1>2, <1>5 DEF ListsInv, SoundStreams
<1>7. ConfigTypes' /\ PhaseInv'
  BY <1>1, <1>6 DEF ConfigTypes, PhaseInv, config
<1>8. ListsInv'
  <2>1. ASSUME NEW x \in DOMAIN streams
        PROVE  /\ ToSet(streams'[x]) \subseteq Configured /\ IsInjective(streams'[x])
               /\ x \in Internal => \A p \in ToSet(streams'[x]) : x \in listens[p]
    BY <1>2, <1>4, <1>5, <1>6 DEF ListsInv, SoundStreams
  <2> QED
    BY <1>1, <1>6, <2>1 DEF ListsInv, SoundStreams, Configured, config
<1>9. Grows
  BY <1>5, <1>6 DEF Grows
<1>10. AttachedInv'
  BY <1>1, <1>9, StillAttached
<1>11. LinkInv'
  BY <1>1, LinkInvKept
<1> QED
  BY <1>7, <1>8, <1>10, <1>11

\* the configuration is done,
LEMMA RunStep ==
  ASSUME RegistryInv, Run
  PROVE  RegistryInv'
<1> USE DEF RegistryInv
<1>1. /\ phase = "wildcards" /\ phase' = "run" /\ toDo = {}
      /\ UNCHANGED <<config, streams, wildcard, producers, dependencies, links, toDo>>
  BY DEF Run
<1>2. ConfigTypes' /\ ListsInv' /\ PhaseInv' /\ AttachedInv'
  BY <1>1 DEF ConfigTypes, ListsInv, SoundStreams, PhaseInv, AttachedInv, IsAttached, Listeners, Configured, config
<1>3. LinkInv'
  BY <1>1, LinkInvKept
<1> QED
  BY <1>2, <1>3

\* and a stream is made for a message: each keeps the invariant.
LEMMA RouteMessageStep ==
  ASSUME RegistryInv, NEW id \in Streams, RouteMessage(id)
  PROVE  RegistryInv'
<1> USE DEF RegistryInv
<1>1. /\ phase = "run" /\ phase' = phase /\ streams' = WithFallback({id})
      /\ UNCHANGED <<config, wildcard, producers, dependencies, links, toDo>>
  BY DEF RouteMessage
<1>2. ConfigTypes' /\ ListsInv' /\ AttachedInv' /\ Wildcard \in DOMAIN streams'
  BY <1>1, FallbackStep
<1>3. PhaseInv'
  BY <1>1, <1>2 DEF PhaseInv
<1>4. LinkInv'
  BY <1>1, LinkInvKept
<1> QED
  BY <1>2, <1>3, <1>4

\* Every step keeps the invariant.
LEMMA RegistryNext == RegistryInv /\ [Next]_vars => RegistryInv'
<1> SUFFICES ASSUME RegistryInv, [Next]_vars PROVE RegistryInv'
  OBVIOUS
<1>1. CASE UNCHANGED vars
  <2>1. UNCHANGED <<config, phase, streams, wildcard, producers, dependencies, links, toDo>>
    BY <1>1 DEF vars
  <2>2. ConfigTypes' /\ ListsInv' /\ PhaseInv' /\ AttachedInv'
    BY <2>1 DEF RegistryInv, ConfigTypes, ListsInv, SoundStreams, PhaseInv, AttachedInv, IsAttached, Listeners,
                Configured, config
  <2>3. \A p, q : DependsOn(p, q)' <=> DependsOn(p, q)
    BY <2>1 DEF DependsOn, Closed
  <2>4. LinkInv'
    BY <2>1, <2>3 DEF RegistryInv, LinkInv, Linked, Configured, config
  <2> QED
    BY <2>2, <2>4 DEF RegistryInv
<1>2. CASE Next
  BY <1>2, RegisterStep, AddWildcardsStep, RouteMessageStep, ConfigureProducerStep, LinkDependenciesStep,
     LinkChildStep, StreamsDoneStep, ProducersDoneStep, ConfigureConsumersStep, RunStep DEF Next
<1> QED
  BY <1>1, <1>2

\* The invariant holds always.
LEMMA RegistrySafe == Spec => []RegistryInv
BY RegistryInit, RegistryNext, PTL DEF Spec

-----------------------------------------------------------------------------
(* Theorems *)

\* Whatever the configuration and its order: streams and wildcard list have nobody twice (the
\* filter of AddProducer), internal streams have only those that name them, every producer is
\* attached to all it names, and producers that drop to each other have an order without a
\* circle.
THEOREM StreamsAreComplete == Spec => []RegistryInvariant
<1>1. RegistryInv => RegistryInvariant
  <2> SUFFICES ASSUME RegistryInv PROVE RegistryInvariant
    OBVIOUS
  <2> USE DEF RegistryInv
  <2>1. TypeOK
    <3>1. \A s \in Seq(Producers) : s \in Seq(ToSet(s))
      <4> SUFFICES ASSUME NEW s \in Seq(Producers) PROVE s \in Seq(ToSet(s))
        OBVIOUS
      <4>1. Len(s) \in Nat /\ DOMAIN s = 1 .. Len(s) /\ s \in [1 .. Len(s) -> Producers]
        BY LenProperties
      <4>2. s \in [1 .. Len(s) -> ToSet(s)]
        BY <4>1 DEF ToSet
      <4> QED
        BY <4>1, <4>2, SeqDef
    <3>2. \A s \in Seq(Producers) : ToSet(s) \subseteq Configured => s \in Seq(Configured)
      BY <3>1, SeqMonotonic
    <3>3. \A id \in DOMAIN streams : streams[id] \in Seq(Configured)
      BY <3>2 DEF ListsInv, SoundStreams
    <3>4. wildcard \in Seq(Configured)
      BY <3>2 DEF ListsInv
    <3> QED
      BY <3>3, <3>4 DEF TypeOK, ConfigTypes, ListsInv, SoundStreams, PhaseInv, LinkInv, Configured
  <2>2. NoDuplicateListeners /\ InternalStreamsAreSeparate
    BY DEF NoDuplicateListeners, InternalStreamsAreSeparate, ListsInv, SoundStreams, Listeners
  <2>3. ListenersAreAttached
    BY DEF ListenersAreAttached, AttachedInv, IsAttached
  <2>4. DropsAreOrdered
    <3>1. ASSUME phase \in {"wildcards", "run"}, NEW p \in Configured, NEW q \in Configured,
                 p # q, dropTo[p] \in listens[q]
          PROVE  DependsOn(q, p) \/ DependsOn(p, q)
      <4>1. phase # "link" /\ Linked(p, q) /\ links = <<>>
        BY <3>1 DEF LinkInv
      <4>2. Len(links) = 0
        BY <4>1
      <4> QED
        BY <4>1, <4>2 DEF Linked
    <3> QED
      BY <3>1 DEF DropsAreOrdered, LinkInv
  <2> QED
    BY <2>1, <2>2, <2>3, <2>4 DEF RegistryInvariant
<1> QED
  BY <1>1, RegistrySafe, PTL

\* A stream that GetStreamOrFallback makes while messages are routed has all wildcard
\* producers: their list has nobody twice, so AddProducer adds it to the end.
THEOREM LateStreamsGetWildcards == Spec => LateStreamsAreComplete
<1> DEFINE Complete ==
      phase = "run" =>
        \A id \in DOMAIN streams' \ (DOMAIN streams \cup Internal) : ToSet(wildcard) \subseteq ToSet(streams'[id])
<1>1. RegistryInv /\ [Next]_vars => [Complete]_vars
  <2> SUFFICES ASSUME RegistryInv, Next, phase = "run",
                      NEW id \in DOMAIN streams' \ (DOMAIN streams \cup Internal)
               PROVE  ToSet(wildcard) \subseteq ToSet(streams'[id])
    BY Zenon
  <2>1. PICK x \in Streams : RouteMessage(x)
    BY DEF Next, Register, AddWildcards, ConfigureProducer, LinkDependencies, StreamsDone, ProducersDone,
           LinkChild, ConfigureConsumers, Run
  <2>2. streams' = WithFallback({x})
    BY <2>1 DEF RouteMessage
  <2>3. streams'[id] = AddProducer(<<>>, WildcardProducersFor(id))
    BY <2>2 DEF WithFallback
  <2>4. WildcardProducersFor(id) = wildcard
    BY DEF WildcardProducersFor
  <2>5. AddProducer(<<>>, wildcard) = wildcard
    BY AddAllProducers DEF RegistryInv, ListsInv
  <2> QED
    BY <2>3, <2>4, <2>5
<1>2. [][Next]_vars /\ []RegistryInv => [][Complete]_vars
  BY <1>1, PTL
<1> QED
  BY <1>2, RegistrySafe, PTL DEF Spec, LateStreamsAreComplete
=============================================================================
