--------------------------- MODULE ProducerProofs ---------------------------
(***************************************************************************)
(* Proofs about what ties the control loops of the producers together: the *)
(* dependencies they wait for when they are told to stop (Dependencies),   *)
(* for any wiring of drop streams and any order in which the producers are *)
(* linked, and the fuse they share with consumers (Fuse), for any number   *)
(* of both and any fuse commands.                                          *)
(***************************************************************************)
EXTENDS Dependencies, Fuse, TLAPS

-----------------------------------------------------------------------------
(* Dependencies *)

\* The variables keep their types: LinkDependencies only ever stores producers
\* in ProducerBase.dependencies, and the run states stay in the enumeration.
THEOREM TypeCorrect == Spec => []TypeOK
<1>1. Init => TypeOK
  BY DEF Init, TypeOK
<1>2. TypeOK /\ [Next]_vars => TypeOK'
  <2> SUFFICES ASSUME TypeOK, [Next]_vars PROVE TypeOK'
    OBVIOUS
  <2> USE ProducersAssumption, TimeoutAssumption DEF TypeOK, configVars, runVars
  <2>1. ASSUME NEW p \in Producers, LinkDependencies(p) PROVE TypeOK'
    BY <2>1 DEF LinkDependencies
  <2>2. ASSUME NEW c \in Producers, LinkChild(c) PROVE TypeOK'
    <3>1. parent \in Producers
      BY <2>2 DEF LinkChild
    <3>2. dependencies' \in [Producers -> SUBSET Producers]
      <4>1. CASE MayLink(parent, c)
        BY <2>2, <3>1, <4>1 DEF LinkChild, AddDependency
      <4>2. CASE ~MayLink(parent, c)
        BY <2>2, <4>2 DEF LinkChild
      <4> QED
        BY <4>1, <4>2
    <3> QED
      BY <2>2, <3>2 DEF LinkChild
  <2>3. CASE LinkReturn
    BY <2>3 DEF LinkReturn
  <2>4. ASSUME NEW p \in Producers, EnqueueSend(p) PROVE TypeOK'
    BY <2>4 DEF EnqueueSend
  <2>5. ASSUME NEW p \in Producers, EnqueueReturn(p) PROVE TypeOK'
    BY <2>5 DEF EnqueueReturn
  <2>6. ASSUME NEW p \in Producers, ReceiveStop(p) PROVE TypeOK'
    BY <2>6 DEF ReceiveStop
  <2>7. ASSUME NEW p \in Producers, NEW dep \in Producers, WaitForDependency(p, dep)
        PROVE  TypeOK'
    BY <2>7 DEF WaitForDependency
  <2>8. ASSUME NEW p \in Producers, SetStopping(p) PROVE TypeOK'
    BY <2>8 DEF SetStopping
  <2>9. ASSUME NEW p \in Producers, SetDead(p) PROVE TypeOK'
    BY <2>9 DEF SetDead
  <2>10. CASE UNCHANGED vars
    BY <2>10 DEF vars
  <2> QED
    BY <2>1, <2>2, <2>3, <2>4, <2>5, <2>6, <2>7, <2>8, <2>9, <2>10 DEF Next, Stop
<1> QED
  BY <1>1, <1>2, PTL DEF Spec

-----------------------------------------------------------------------------
\* The step LinkDependencies rests on: making child depend on p closes no cycle
\* when p does not already depend on child.  The witness of ~DependsOn(p, child)
\* is a closed set T around the dependencies of p that child is not in.
LEMMA AddDependencyAcyclic ==
  ASSUME TypeOK, Acyclic,
         NEW p \in Producers, NEW child \in Producers,
         p # child, ~DependsOn(p, child), AddDependency(child, p)
  PROVE  Acyclic'
<1>1. PICK T \in SUBSET Producers :
        dependencies[p] \subseteq T /\ Closed(T) /\ child \notin T
  BY DEF DependsOn
<1> DEFINE U == T \cup {p}
<1>2. U \subseteq Producers /\ child \notin U /\ \A x \in U : dependencies[x] \subseteq U
  BY <1>1 DEF Closed
<1>3. \A x \in Producers : dependencies'[x] = IF x = child THEN dependencies[x] \cup {p}
                                                           ELSE dependencies[x]
  BY DEF AddDependency, TypeOK
<1>4. SUFFICES ASSUME NEW S \in SUBSET Producers, S # {}
               PROVE  \E x \in S : dependencies'[x] \cap S = {}
  BY DEF Acyclic
<1>5. CASE S \cap U # {}
  <2>1. S \cap U \in SUBSET Producers
    BY <1>2
  <2>2. PICK x \in S \cap U : dependencies[x] \cap (S \cap U) = {}
    BY <1>5, <2>1 DEF Acyclic
  <2>3. dependencies'[x] = dependencies[x]
    BY <1>2, <1>3, <2>2
  <2>4. dependencies[x] \cap S = {}
    BY <1>2, <2>2
  <2> QED
    BY <2>2, <2>3, <2>4
<1>6. CASE S \cap U = {}
  <2>1. PICK x \in S : dependencies[x] \cap S = {}
    BY <1>4 DEF Acyclic
  <2>2. p \notin S
    BY <1>6
  <2> QED
    BY <1>3, <2>1, <2>2
<1> QED
  BY <1>5, <1>6

\* LinkDependencies creates no circular dependencies, whatever the drop streams
\* are and in whatever order the producers were configured.
THEOREM AcyclicAlways == Spec => []Acyclic
<1>1. Init => Acyclic
  BY DEF Init, Acyclic
<1>2. TypeOK /\ Acyclic /\ [Next]_vars => Acyclic'
  <2> SUFFICES ASSUME TypeOK, Acyclic, [Next]_vars PROVE Acyclic'
    OBVIOUS
  <2>1. CASE UNCHANGED dependencies
    BY <2>1 DEF Acyclic
  <2>2. ASSUME NEW c \in Producers, LinkChild(c), ~UNCHANGED dependencies
        PROVE  Acyclic'
    <3>1. parent \in Producers /\ MayLink(parent, c) /\ AddDependency(c, parent)
      BY <2>2 DEF LinkChild, TypeOK
    <3> QED
      BY <3>1, AddDependencyAcyclic DEF MayLink
  <2> QED
    BY <2>1, <2>2
    DEF Next, Stop, vars, configVars, LinkDependencies, LinkReturn, EnqueueSend,
        EnqueueReturn, ReceiveStop, WaitForDependency, SetStopping, SetDead
<1> QED
  BY <1>1, <1>2, TypeCorrect, PTL DEF Spec

-----------------------------------------------------------------------------
\* What a ControlLoop that has its stop command knows about its dependencies,
\* with or without Enqueue calls that revive a dead producer's run state.
THEOREM WaitsForAllDependenciesAlways == Spec => []WaitsForAllDependencies
<1>1. Init => WaitsForAllDependencies
  BY DEF Init, WaitsForAllDependencies
<1>2. TypeOK /\ WaitsForAllDependencies /\ [Next]_vars => WaitsForAllDependencies'
  <2> SUFFICES ASSUME TypeOK, WaitsForAllDependencies, [Next]_vars
               PROVE  WaitsForAllDependencies'
    OBVIOUS
  <2> USE TimeoutAssumption DEF TypeOK, WaitsForAllDependencies, Configured, configVars, runVars
  <2>1. ASSUME NEW p \in Producers, LinkDependencies(p) PROVE WaitsForAllDependencies'
    BY <2>1 DEF LinkDependencies
  <2>2. ASSUME NEW c \in Producers, LinkChild(c) PROVE WaitsForAllDependencies'
    <3>1. \A q \in Producers : dependencies[q] \subseteq dependencies'[q]
      BY <2>2 DEF LinkChild, AddDependency
    <3>2. \A q \in Producers : controlLoop[q] = "running"
      BY <2>2 DEF LinkChild
    <3> QED
      BY <2>2, <3>1, <3>2 DEF LinkChild
  <2>3. CASE LinkReturn
    BY <2>3 DEF LinkReturn
  <2>4. ASSUME NEW p \in Producers, EnqueueSend(p) PROVE WaitsForAllDependencies'
    BY <2>4 DEF EnqueueSend
  <2>5. ASSUME NEW p \in Producers, EnqueueReturn(p) PROVE WaitsForAllDependencies'
    BY <2>5 DEF EnqueueReturn
  <2>6. ASSUME NEW p \in Producers, ReceiveStop(p) PROVE WaitsForAllDependencies'
    BY <2>6 DEF ReceiveStop
  <2>7. ASSUME NEW p \in Producers, NEW dep \in Producers, WaitForDependency(p, dep)
        PROVE  WaitsForAllDependencies'
    BY <2>7 DEF WaitForDependency
  <2>8. ASSUME NEW p \in Producers, SetStopping(p) PROVE WaitsForAllDependencies'
    BY <2>8 DEF SetStopping
  <2>9. ASSUME NEW p \in Producers, SetDead(p) PROVE WaitsForAllDependencies'
    BY <2>9 DEF SetDead
  <2>10. CASE UNCHANGED vars
    BY <2>10 DEF vars
  <2> QED
    BY <2>1, <2>2, <2>3, <2>4, <2>5, <2>6, <2>7, <2>8, <2>9, <2>10 DEF Next, Stop
<1> QED
  BY <1>1, <1>2, TypeCorrect, PTL DEF Spec

\* Without a shutdown timeout every producer outlives those that drop into it.
THEOREM StopOrder == Spec => []StopsAfterDependencies
<1>1. TypeOK /\ WaitsForAllDependencies => StopsAfterDependencies
  BY DEF TypeOK, WaitsForAllDependencies, StopsAfterDependencies
<1> QED
  BY <1>1, TypeCorrect, WaitsForAllDependenciesAlways, PTL

\* The comment in LinkDependencies, proved: since the dependencies are acyclic,
\* the producers cannot all be waiting for one another when they shut down.
THEOREM ShutdownHasNoCircularWait == Spec => []NoCircularWait
<1>1. TypeOK /\ Acyclic /\ WaitsForAllDependencies => NoCircularWait
  <2> SUFFICES ASSUME TypeOK, Acyclic, WaitsForAllDependencies,
                      ~ \A p \in Producers : controlLoop[p] = "returned"
               PROVE  \E p \in Producers :
                        /\ controlLoop[p] # "returned"
                        /\ \A dep \in waitsFor[p] : controlLoop[dep] = "returned"
    BY DEF NoCircularWait
  <2> DEFINE S == {p \in Producers : controlLoop[p] # "returned"}
  <2>1. S \in SUBSET Producers /\ S # {}
    OBVIOUS
  <2>2. PICK x \in S : dependencies[x] \cap S = {}
    BY <2>1 DEF Acyclic
  <2>3. waitsFor[x] \subseteq dependencies[x] /\ waitsFor[x] \subseteq Producers
    BY DEF WaitsForAllDependencies, TypeOK
  <2> QED
    BY <2>2, <2>3
<1> QED
  BY <1>1, TypeCorrect, AcyclicAlways, WaitsForAllDependenciesAlways, PTL

\* LinkDependencies has looked at every listener of a drop stream, or will: a listener and the
\* producer that drops are related in one direction, and a dependency goes against a drop.
Related(p, c) == p = c \/ DependsOn(p, c) \/ DependsOn(c, p)
LinkedInv ==
  \A p \in Producers : \A c \in dropListeners[p] :
    p \in todo \/ (p = parent /\ c \in children) \/ Related(p, c)
AlongDrops ==
  /\ \A c \in Producers : \A d \in dependencies[c] : c \in dropListeners[d]
  /\ parent # NoProducer => children \subseteq dropListeners[parent]

\* A new dependency makes none of the others go away.
LEMMA RelatedStays ==
  ASSUME TypeOK, NEW c \in Producers, parent \in Producers, AddDependency(c, parent), UNCHANGED parent
  PROVE  /\ DependsOn(c, parent)'
         /\ \A p, q \in Producers : Related(p, q) => Related(p, q)'
<1>1. \A x \in Producers : dependencies[x] \subseteq dependencies'[x] /\ parent \in dependencies'[c]
  BY DEF AddDependency, TypeOK
<1>2. \A p, q \in Producers : DependsOn(p, q) => DependsOn(p, q)'
  <2> SUFFICES ASSUME NEW p \in Producers, NEW q \in Producers, DependsOn(p, q),
                      NEW S \in SUBSET Producers, dependencies'[p] \subseteq S, Closed(S)'
               PROVE  q \in S
    BY DEF DependsOn
  <2>1. dependencies[p] \subseteq S /\ Closed(S)
    BY <1>1 DEF Closed
  <2> QED
    BY <2>1 DEF DependsOn
<1>3. DependsOn(c, parent)'
  BY <1>1 DEF DependsOn
<1> QED
  BY <1>2, <1>3 DEF Related

\* Linking keeps both, whoever is linked first.
LEMMA LinkedAlways == Spec => [](LinkedInv /\ AlongDrops)
<1>1. Init => LinkedInv /\ AlongDrops
  BY DEF Init, LinkedInv, AlongDrops
<1>2. TypeOK /\ LinkedInv /\ AlongDrops /\ [Next]_vars => (LinkedInv /\ AlongDrops)'
  <2> SUFFICES ASSUME TypeOK, LinkedInv, AlongDrops, [Next]_vars PROVE (LinkedInv /\ AlongDrops)'
    OBVIOUS
  <2>1. CASE UNCHANGED configVars
    BY <2>1 DEF configVars, LinkedInv, AlongDrops, Related, DependsOn, Closed
  <2>2. ASSUME NEW p \in Producers, LinkDependencies(p) PROVE (LinkedInv /\ AlongDrops)'
    <3>1. \A q, c \in Producers : Related(q, c) => Related(q, c)'
      BY <2>2 DEF LinkDependencies, Related, DependsOn, Closed
    <3>2. LinkedInv'
      BY <2>2, <3>1, ProducersAssumption DEF LinkDependencies, LinkedInv, TypeOK
    <3>3. AlongDrops'
      BY <2>2 DEF LinkDependencies, AlongDrops
    <3> QED
      BY <3>2, <3>3
  <2>3. CASE LinkReturn
    <3>1. \A q, c \in Producers : Related(q, c) => Related(q, c)'
      BY <2>3 DEF LinkReturn, Related, DependsOn, Closed
    <3>2. LinkedInv' /\ AlongDrops'
      BY <2>3, <3>1 DEF LinkReturn, LinkedInv, AlongDrops, TypeOK
    <3> QED
      BY <3>2
  <2>4. ASSUME NEW c \in Producers, LinkChild(c) PROVE (LinkedInv /\ AlongDrops)'
    <3>1. /\ parent \in Producers /\ c \in children /\ children' = children \ {c}
          /\ UNCHANGED <<dropListeners, todo, parent>>
      BY <2>4 DEF LinkChild, TypeOK
    <3>2. c \in dropListeners[parent]
      BY <3>1, ProducersAssumption DEF AlongDrops
    <3>3. CASE MayLink(parent, c)
      <4>1. AddDependency(c, parent)
        BY <2>4, <3>3 DEF LinkChild
      <4>2. Related(parent, c)' /\ \A p, q \in Producers : Related(p, q) => Related(p, q)'
        BY <3>1, <4>1, RelatedStays DEF Related
      <4>3. LinkedInv'
        <5> SUFFICES ASSUME NEW p \in Producers, NEW q \in dropListeners[p],
                            ~(p \in todo), ~(p = parent /\ q \in children \ {c})
                     PROVE  Related(p, q)'
          BY <3>1 DEF LinkedInv
        <5>1. q \in Producers
          BY DEF TypeOK
        <5>2. CASE p = parent /\ q = c
          BY <3>1, <4>2, <5>2
        <5>3. CASE ~(p = parent /\ q = c)
          <6>1. Related(p, q)
            BY <5>3 DEF LinkedInv
          <6> QED
            BY <4>2, <5>1, <6>1
        <5> QED
          BY <5>2, <5>3
      <4>4. AlongDrops'
        BY <3>1, <3>2, <4>1 DEF AddDependency, AlongDrops, TypeOK
      <4> QED
        BY <4>3, <4>4
    <3>4. CASE ~MayLink(parent, c)
      <4>1. UNCHANGED dependencies /\ Related(parent, c)
        BY <2>4, <3>4 DEF LinkChild, MayLink, Related
      <4>2. \A p, q \in Producers : Related(p, q)' <=> Related(p, q)
        BY <4>1 DEF Related, DependsOn, Closed
      <4>3. LinkedInv'
        <5> SUFFICES ASSUME NEW p \in Producers, NEW q \in dropListeners[p],
                            ~(p \in todo), ~(p = parent /\ q \in children \ {c})
                     PROVE  Related(p, q)'
          BY <3>1 DEF LinkedInv
        <5>1. q \in Producers
          BY DEF TypeOK
        <5>2. Related(p, q)
          BY <3>1, <4>1 DEF LinkedInv
        <5> QED
          BY <4>2, <5>1, <5>2
      <4>4. AlongDrops'
        BY <3>1, <4>1 DEF AlongDrops
      <4> QED
        BY <4>3, <4>4
    <3> QED
      BY <3>3, <3>4
  <2> QED
    BY <2>1, <2>2, <2>3, <2>4
    DEF Next, Stop, vars, EnqueueSend, EnqueueReturn, ReceiveStop, WaitForDependency, SetStopping, SetDead
<1> QED
  BY <1>1, <1>2, TypeCorrect, PTL DEF Spec

\* No producer drops, if only through others, to itself.
AcyclicDrops ==
  \A S \in SUBSET Producers : S # {} => \E x \in S : dropListeners[x] \cap S = {}

\* If p depends on c there is a chain of dependencies from p to c, and each of the producers in
\* it listens to the next one; so c does not listen to p.
LEMMA NoDependencyAlongDrop ==
  ASSUME TypeOK, AlongDrops, AcyclicDrops, NEW p \in Producers, NEW c \in dropListeners[p]
  PROVE  p # c /\ ~DependsOn(p, c)
<1>1. c \in Producers /\ dependencies \in [Producers -> SUBSET Producers]
  BY DEF TypeOK
<1>2. p # c
  <2>1. \E x \in {p} : dropListeners[x] \cap {p} = {}
    <3>1. {p} \in SUBSET Producers /\ {p} # {}
      OBVIOUS
    <3> QED
      BY <3>1 DEF AcyclicDrops
  <2> QED
    BY <2>1
<1>3. SUFFICES ASSUME DependsOn(p, c) PROVE FALSE
  BY <1>2
<1> DEFINE After  == {x \in Producers : x = p \/ DependsOn(p, x)}
           Before == {x \in Producers : x = c \/ DependsOn(x, c)}
           T == After \cap Before
<1>4. p \in T /\ c \in T
  BY <1>1, <1>3
<1>5. dependencies[p] \subseteq After /\ \A y \in After : dependencies[y] \subseteq After
  BY <1>1 DEF DependsOn, Closed
<1>6. \A y \in Producers : \A x \in dependencies[y] : x \in Before => y \in Before
  BY <1>1 DEF DependsOn, Closed
<1>7. ASSUME NEW x \in T PROVE dropListeners[x] \cap T # {}
  <2>1. CASE x = p
    BY <1>4, <2>1
  <2>2. CASE x # p
    <3>1. PICK y \in T : x \in dependencies[y]
      <4> SUFFICES ASSUME \A y \in T : x \notin dependencies[y] PROVE FALSE
        OBVIOUS
      <4> DEFINE Others == After \ {x}
      <4>1. \A y \in After : x \notin dependencies[y]
        BY <1>6
      <4>2. Others \in SUBSET Producers /\ dependencies[p] \subseteq Others /\ Closed(Others)
        BY <1>4, <1>5, <4>1 DEF Closed
      <4>3. DependsOn(p, x)
        BY <2>2
      <4>4. x \in Others
        <5> HIDE DEF Others
        <5> QED
          BY <4>2, <4>3 DEF DependsOn
      <4> QED
        BY <4>4
    <3>2. y \in dropListeners[x]
      BY <3>1 DEF AlongDrops
    <3> QED
      BY <3>1, <3>2
  <2> QED
    BY <2>1, <2>2
<1>8. T \in SUBSET Producers /\ T # {}
  BY <1>4
<1> HIDE DEF T
<1> QED
  BY <1>7, <1>8 DEF AcyclicDrops

\* What the shutdown of Pipeline rests on: when the configuration is done, a producer that
\* listens to the drop stream of another one depends on it, directly or not, unless producers
\* drop to each other in a circle.
THEOREM ListenersDependOnDroppers ==
  Spec => [](Configured /\ AcyclicDrops => \A p \in Producers : \A c \in dropListeners[p] : DependsOn(c, p))
<1>1. TypeOK /\ LinkedInv /\ AlongDrops =>
        (Configured /\ AcyclicDrops => \A p \in Producers : \A c \in dropListeners[p] : DependsOn(c, p))
  <2> SUFFICES ASSUME TypeOK, LinkedInv, AlongDrops, Configured, AcyclicDrops,
                      NEW p \in Producers, NEW c \in dropListeners[p]
               PROVE  DependsOn(c, p)
    OBVIOUS
  <2>1. p \notin todo /\ p # parent
    BY ProducersAssumption DEF Configured
  <2>2. Related(p, c)
    BY <2>1 DEF LinkedInv
  <2> QED
    BY <2>2, NoDependencyAlongDrop DEF Related
<1> QED
  BY <1>1, TypeCorrect, LinkedAlways, PTL

-----------------------------------------------------------------------------
(* The search of DependsOn *)

\* What a call of ProducerBase.DependsOn returns for each pair of producers, in terms of the
\* calls it makes: a stored dependency is the one that is looked for, or depends on it.
IsSearch(found) ==
  /\ found \in [Producers -> [Producers -> BOOLEAN]]
  /\ \A p, q \in Producers : found[p][q] <=> \E stored \in dependencies[p] : stored = q \/ found[stored][q]

\* What a dependency depends on is a dependency.
LEMMA DependsOnStored ==
  ASSUME TypeOK, NEW p \in Producers, NEW q \in Producers, NEW stored \in dependencies[p],
         stored = q \/ DependsOn(stored, q)
  PROVE  DependsOn(p, q)
<1>1. stored \in Producers
  BY DEF TypeOK
<1> SUFFICES ASSUME NEW S \in SUBSET Producers, dependencies[p] \subseteq S, Closed(S) PROVE q \in S
  BY DEF DependsOn
<1>2. stored \in S /\ dependencies[stored] \subseteq S
  BY DEF Closed
<1> QED
  BY <1>2 DEF DependsOn

\* What is found of a producer, and what that depends on, is found.
LEMMA FoundIsClosed ==
  ASSUME TypeOK, Acyclic, NEW found, IsSearch(found)
  PROVE  \A p, x \in Producers : found[p][x] => \A y \in dependencies[x] : found[p][y]
<1>0. dependencies \in [Producers -> SUBSET Producers]
  BY DEF TypeOK
<1> DEFINE Lacks(p) == \E x \in Producers : found[p][x] /\ \E y \in dependencies[x] : ~found[p][y]
           T == {p \in Producers : Lacks(p)}
<1>1. SUFFICES ASSUME T # {} PROVE FALSE
  BY <1>0
<1>2. PICK p \in T : dependencies[p] \cap T = {}
  BY <1>1 DEF Acyclic
<1>3. PICK x \in Producers, y \in Producers : y \in dependencies[x] /\ found[p][x] /\ ~found[p][y]
  BY <1>0, <1>2
<1>4. y \in Producers /\ p \in Producers
  BY <1>0, <1>2, <1>3
<1>5. PICK stored \in dependencies[p] : stored = x \/ found[stored][x]
  BY <1>3, <1>4 DEF IsSearch
<1>6. stored \in Producers /\ stored \notin T
  BY <1>0, <1>2, <1>4, <1>5
<1>7. found[stored][y]
  <2>1. CASE stored = x
    BY <1>3, <1>4, <1>6, <2>1 DEF IsSearch
  <2>2. CASE found[stored][x]
    BY <1>3, <1>6, <2>2
  <2> QED
    BY <1>5, <2>1, <2>2
<1> QED
  BY <1>3, <1>4, <1>5, <1>7 DEF IsSearch

\* All dependencies are found, as the set of what is found is closed; and nothing else is.
LEMMA FoundIsDependency ==
  ASSUME TypeOK, Acyclic, NEW found, IsSearch(found), NEW p \in Producers, NEW q \in Producers
  PROVE  found[p][q] <=> DependsOn(p, q)
<1>0. dependencies \in [Producers -> SUBSET Producers]
  BY DEF TypeOK
<1>1. ASSUME DependsOn(p, q) PROVE found[p][q]
  <2> DEFINE S == {x \in Producers : found[p][x]}
  <2>1. dependencies[p] \subseteq S
    BY <1>0 DEF IsSearch
  <2>2. Closed(S)
    <3> SUFFICES ASSUME NEW x \in S, NEW y \in dependencies[x] PROVE y \in S
      BY DEF Closed
    <3>1. y \in Producers
      BY <1>0
    <3> QED
      BY <3>1, FoundIsClosed
  <2> HIDE DEF S
  <2>3. S \in SUBSET Producers /\ (q \in S => found[p][q])
    BY DEF S
  <2> QED
    BY <1>1, <2>1, <2>2, <2>3 DEF DependsOn
<1>2. ASSUME found[p][q] PROVE DependsOn(p, q)
  <2> DEFINE T == {x \in Producers : found[x][q] /\ ~DependsOn(x, q)}
  <2>1. SUFFICES ASSUME T # {} PROVE FALSE
    BY <1>2
  <2>2. PICK x \in T : dependencies[x] \cap T = {}
    BY <2>1 DEF Acyclic
  <2>3. PICK stored \in dependencies[x] : stored = q \/ found[stored][q]
    BY <2>2 DEF IsSearch
  <2>4. stored \in Producers /\ stored \notin T /\ x \in Producers
    BY <1>0, <2>2, <2>3
  <2>5. stored = q \/ DependsOn(stored, q)
    BY <2>3, <2>4
  <2> QED
    BY <2>2, <2>4, <2>5, DependsOnStored
<1> QED
  BY <1>1, <1>2

\* The dependencies are themselves what a search returns: there is one.
LEMMA DependenciesAreFound ==
  ASSUME TypeOK
  PROVE  IsSearch([p \in Producers |-> [q \in Producers |-> DependsOn(p, q)]])
<1> DEFINE found == [p \in Producers |-> [q \in Producers |-> DependsOn(p, q)]]
<1>0. dependencies \in [Producers -> SUBSET Producers]
  BY DEF TypeOK
<1>1. \A p, q \in Producers : found[p][q] = DependsOn(p, q)
  OBVIOUS
<1>2. found \in [Producers -> [Producers -> BOOLEAN]]
  BY DEF DependsOn
<1>3. ASSUME NEW p \in Producers, NEW q \in Producers, DependsOn(p, q)
      PROVE  \E stored \in dependencies[p] : stored = q \/ DependsOn(stored, q)
  <2> DEFINE S == {x \in Producers : \E stored \in dependencies[p] : stored = x \/ DependsOn(stored, x)}
  <2>1. dependencies[p] \subseteq S
    BY <1>0
  <2>2. Closed(S)
    <3> SUFFICES ASSUME NEW x \in S, NEW y \in dependencies[x] PROVE y \in S
      BY DEF Closed
    <3>1. y \in Producers
      BY <1>0
    <3>2. PICK stored \in dependencies[p] : stored = x \/ DependsOn(stored, x)
      OBVIOUS
    <3>3. DependsOn(stored, y)
      <4> SUFFICES ASSUME NEW U \in SUBSET Producers, dependencies[stored] \subseteq U, Closed(U) PROVE y \in U
        BY DEF DependsOn
      <4> QED
        BY <3>2 DEF DependsOn, Closed
    <3> QED
      BY <3>1, <3>3
  <2> HIDE DEF S
  <2>3. S \in SUBSET Producers /\ (q \in S => \E stored \in dependencies[p] : stored = q \/ DependsOn(stored, q))
    BY DEF S
  <2> QED
    BY <1>3, <2>1, <2>2, <2>3 DEF DependsOn
<1>4. ASSUME NEW p \in Producers, NEW q \in Producers
      PROVE  DependsOn(p, q) <=> \E stored \in dependencies[p] : stored = q \/ DependsOn(stored, q)
  BY <1>3, DependsOnStored
<1>5. \A p, q \in Producers : \A stored \in dependencies[p] : found[stored][q] = DependsOn(stored, q)
  BY <1>0, <1>1
<1> HIDE DEF found
<1>6. ASSUME NEW p \in Producers, NEW q \in Producers
      PROVE  found[p][q] <=> \E stored \in dependencies[p] : stored = q \/ found[stored][q]
  <2>1. found[p][q] <=> DependsOn(p, q)
    BY <1>1
  <2>2. \A stored \in dependencies[p] : found[stored][q] <=> DependsOn(stored, q)
    BY <1>5
  <2> QED
    BY <1>4, <2>1, <2>2, Zenon
<1>7. IsSearch(found)
  BY <1>2, <1>6 DEF IsSearch
<1> QED
  BY <1>7 DEF found

\* In every state LinkDependencies can meet, ProducerBase.DependsOn returns exactly the direct
\* and indirect dependencies: they are what its recursion asks for, and nothing else is.
THEOREM SearchIsExact ==
  Spec => [](\A found : IsSearch(found) <=>
               found = [p \in Producers |-> [q \in Producers |-> DependsOn(p, q)]])
<1>1. TypeOK /\ Acyclic =>
        \A found : IsSearch(found) <=> found = [p \in Producers |-> [q \in Producers |-> DependsOn(p, q)]]
  <2> SUFFICES ASSUME TypeOK, Acyclic, NEW found, IsSearch(found)
               PROVE  found = [p \in Producers |-> [q \in Producers |-> DependsOn(p, q)]]
    BY DependenciesAreFound
  <2>1. found \in [Producers -> [Producers -> BOOLEAN]]
    BY DEF IsSearch
  <2>2. ASSUME NEW p \in Producers, NEW q \in Producers PROVE found[p][q] = DependsOn(p, q)
    <3>1. found[p][q] <=> DependsOn(p, q)
      BY FoundIsDependency
    <3>2. found[p][q] \in BOOLEAN /\ DependsOn(p, q) \in BOOLEAN
      BY <2>1 DEF DependsOn
    <3> QED
      BY <3>1, <3>2
  <2>3. \A p \in Producers : found[p] = [q \in Producers |-> DependsOn(p, q)]
    BY <2>1, <2>2
  <2> QED
    BY <2>1, <2>3
<1> QED
  BY <1>1, TypeCorrect, AcyclicAlways, PTL

-----------------------------------------------------------------------------
(* Fuse *)

\* The types of Fuse by component.
WaitTypes ==
  /\ burned \in BOOLEAN
  /\ holder \in Waiters \cup {Nobody}
  /\ asleep = {w \in Waiters : wait[w] = "asleep"}
  /\ wait \in [Waiters -> {"none", "lock", "isBurned", "condWait", "asleep", "woken",
                           "returned"}]
  /\ \A w \in Waiters : holder = w <=> wait[w] \in {"isBurned", "condWait"}
Commands == {"FuseBurn", "FuseActive"}
ConsumerTypes ==
  /\ active \in [Consumers -> BOOLEAN]
  /\ consControl \in [Consumers -> {<<>>} \cup {<<c>> : c \in Commands \cup {"Stop"}}]
  /\ worker \in [Consumers -> {"isActive", "wait", "done"}]
  /\ watch \in [Consumers -> {"isActive", "isBurned", "sendBurn", "wait", "done"}]
  /\ seen \in [Consumers -> Commands]
Labels == {"isBurned", "onCheck", "send"}
ProducerTypes ==
  /\ prodControl \in [FuseProducers -> {<<>>, <<"FuseBurn">>, <<"FuseActive">>}]
  /\ control \in [FuseProducers -> {"command", "burn", "check", "stopTimer", "activate",
                                    "broadcast"}]
  /\ checks \in [FuseProducers -> [Labels -> Nat]]
  /\ timer \in [FuseProducers -> BOOLEAN]
  /\ commands \in 0 .. MaxCommands
MainTypes ==
  main \in {"stop", "broadcast", "wait", "done"} /\ toStop \subseteq Consumers

\* Who waits on the fuse is inside Wait, and nobody else is.
WaitersInWait ==
  \A c \in Consumers :
    /\ worker[c] = "wait" <=> wait[<<"worker", c>>] # "none"
    /\ watch[c] = "wait" <=> wait[<<"watch", c>>] # "none"

\* What fuseControlLoop has told the control loop last is that the fuse is burned, exactly if
\* it waits: the command is in the channel and new to the control loop, or has been handled.
LastTold(c) == IF watch[c] = "wait" THEN "FuseBurn" ELSE "FuseActive"
ToldAndSeen ==
  \A c \in Consumers :
    IF consControl[c] \in {<<>>, <<"Stop">>}
      THEN seen[c] = LastTold(c)
      ELSE consControl[c] = <<LastTold(c)>> /\ seen[c] # LastTold(c)

FuseInv ==
  /\ WaitTypes /\ ConsumerTypes /\ ProducerTypes /\ MainTypes
  /\ WaitersInWait /\ ToldAndSeen /\ BurnedFuseIsWatched

\* The inductive invariant contains what is checked.
LEMMA FuseInvImplies == FuseInv => FuseInvariant
<1> SUFFICES ASSUME FuseInv PROVE FuseInvariant
  OBVIOUS
<1>1. FuseTypeOK
  <2>1. [isBurned : Nat, onCheck : Nat, send : Nat] = [Labels -> Nat]
    BY DEF Labels
  <2> QED
    BY <2>1 DEF FuseInv, FuseTypeOK, WaitTypes, ConsumerTypes, ProducerTypes, MainTypes, Commands
<1>2. FuseCallbacksAlternate
  BY DEF FuseInv, ConsumerTypes, ToldAndSeen, FuseCallbacksAlternate, LastTold, Commands
<1> QED
  BY <1>1, <1>2 DEF FuseInv, FuseInvariant

\* No fuse is burned at first.
LEMMA FuseInvInit == FuseInit => FuseInv
<1> SUFFICES ASSUME FuseInit PROVE FuseInv
  OBVIOUS
<1> USE FuseAssumption DEF FuseInit
<1>1. WaitTypes
  BY DEF WaitTypes
<1>2. ConsumerTypes /\ MainTypes
  BY DEF ConsumerTypes, Commands, MainTypes
<1>3. ProducerTypes
  <2>1. NoChecks \in [Labels -> Nat]
    BY DEF NoChecks, Labels
  <2> QED
    BY <2>1 DEF ProducerTypes
<1>4. WaitersInWait /\ ToldAndSeen /\ BurnedFuseIsWatched
  BY DEF WaitersInWait, ToldAndSeen, LastTold, BurnedFuseIsWatched, Waiters
<1> QED
  BY <1>1, <1>2, <1>3, <1>4 DEF FuseInv

-----------------------------------------------------------------------------
(* What a step leaves alone *)

\* Steps that leave the consumers alone.
LEMMA ConsumerFrame ==
  ASSUME ConsumerTypes, ToldAndSeen, UNCHANGED consVars
  PROVE  ConsumerTypes' /\ ToldAndSeen'
BY DEF ConsumerTypes, ToldAndSeen, LastTold, consVars

\* Steps that leave the producers alone, and burn no fuse.
LEMMA ProducerFrame ==
  ASSUME ProducerTypes, BurnedFuseIsWatched, UNCHANGED prodVars, burned' => burned
  PROVE  ProducerTypes' /\ BurnedFuseIsWatched'
BY DEF ProducerTypes, BurnedFuseIsWatched, Recovering, prodVars

\* Steps that leave main alone.
LEMMA MainFrame ==
  ASSUME MainTypes, UNCHANGED mainVars
  PROVE  MainTypes'
BY DEF MainTypes, mainVars

\* Steps that leave those who wait for the fuse alone.
LEMMA WaitFrame ==
  ASSUME WaitTypes, WaitersInWait, UNCHANGED <<holder, asleep, wait>>, burned' \in BOOLEAN,
         UNCHANGED <<worker, watch>>
  PROVE  WaitTypes' /\ WaitersInWait'
BY DEF WaitTypes, WaitersInWait

\* A step within Wait.
LEMMA StillInWait ==
  ASSUME WaitTypes, WaitersInWait, UNCHANGED <<worker, watch>>,
         NEW w \in Waiters, NEW place, wait' = [wait EXCEPT ![w] = place], wait[w] # "none", place # "none"
  PROVE  WaitersInWait'
<1>1. \A v \in Waiters : wait'[v] = "none" <=> wait[v] = "none"
  BY DEF WaitTypes
<1>2. \A c \in Consumers : <<"worker", c>> \in Waiters /\ <<"watch", c>> \in Waiters
  BY DEF Waiters
<1> QED
  BY <1>1, <1>2 DEF WaitersInWait

\* The goroutines of a consumer wait under names of their own.
LEMMA WaiterNames ==
  ASSUME NEW c \in Consumers
  PROVE  /\ <<"worker", c>> \in Waiters /\ <<"watch", c>> \in Waiters
         /\ \A d \in Consumers :
              /\ <<"worker", d>> \in Waiters /\ <<"watch", d>> \in Waiters
              /\ <<"worker", d>> # <<"watch", c>> /\ <<"watch", d>> # <<"worker", c>>
              /\ <<"worker", d>> = <<"worker", c>> <=> d = c
              /\ <<"watch", d>> = <<"watch", c>> <=> d = c
BY DEF Waiters

\* Broadcast wakes who is asleep.
LEMMA BroadcastWakes ==
  ASSUME WaitTypes, WaitersInWait, Broadcast, UNCHANGED <<burned, holder, worker, watch>>
  PROVE  WaitTypes' /\ WaitersInWait'
<1>1. \A v \in Waiters : wait'[v] = "none" <=> wait[v] = "none"
  BY DEF WaitTypes, Broadcast
<1>2. WaitersInWait'
  BY <1>1, WaiterNames DEF WaitersInWait
<1>3. WaitTypes'
  BY DEF WaitTypes, Broadcast
<1> QED
  BY <1>2, <1>3

\* A step of producer p that keeps, or starts, the recovery of p.
LEMMA StillWatched ==
  ASSUME BurnedFuseIsWatched, NEW p \in FuseProducers,
         \A q \in FuseProducers \ {p} :
           /\ checks'[q] = checks[q] /\ timer'[q] = timer[q]
           /\ prodControl'[q] = prodControl[q] /\ control'[q] = control[q],
         burned' => Recovering(p)' \/ (burned /\ (HasCheck = FuseProducers /\ Recovering(p) => Recovering(p)'))
  PROVE  BurnedFuseIsWatched'
<1>1. \A q \in FuseProducers \ {p} : Recovering(q)' <=> Recovering(q)
  BY DEF Recovering
<1> QED
  BY <1>1 DEF BurnedFuseIsWatched

\* Goroutines at a label of triggerCheckFuse.
LEMMA Moved ==
  ASSUME ProducerTypes, NEW p \in FuseProducers, NEW from \in Labels, NEW to, to # from, Move(p, from, to)
  PROVE  /\ checks' \in [FuseProducers -> [Labels -> Nat]]
         /\ \A q \in FuseProducers \ {p} : checks'[q] = checks[q]
         /\ to \in Labels => checks'[p][to] > 0
<1> DEFINE moved == [l \in Labels |-> IF l = from THEN checks[p][l] - 1
                                     ELSE IF l = to THEN checks[p][l] + 1
                                     ELSE checks[p][l]]
<1>1. checks[p] \in [Labels -> Nat] /\ checks[p][from] > 0
  BY DEF ProducerTypes, Move
<1>2. checks' = [checks EXCEPT ![p] = moved]
  BY <1>1 DEF Move
<1>3. moved \in [Labels -> Nat]
  BY <1>1
<1> QED
  BY <1>1, <1>2, <1>3 DEF ProducerTypes

\* A goroutine of triggerCheckFuse is started.
LEMMA CheckStarted ==
  ASSUME ProducerTypes, NEW p \in FuseProducers, checks' = [checks EXCEPT ![p].isBurned = @ + 1]
  PROVE  /\ checks' \in [FuseProducers -> [Labels -> Nat]]
         /\ \A q \in FuseProducers \ {p} : checks'[q] = checks[q]
         /\ checks'[p]["isBurned"] > 0
<1>1. checks[p] \in [Labels -> Nat] /\ "isBurned" \in Labels
  BY DEF ProducerTypes, Labels
<1> DEFINE started == [checks[p] EXCEPT !["isBurned"] = @ + 1]
<1>2. started \in [Labels -> Nat] /\ started["isBurned"] > 0
  BY <1>1
<1>3. checks' = [checks EXCEPT ![p] = started]
  BY <1>1
<1> HIDE DEF started
<1> QED
  BY <1>2, <1>3 DEF ProducerTypes

-----------------------------------------------------------------------------
(* The steps *)

\* Waiting for the fuse keeps the invariant,
LEMMA WaitStep ==
  ASSUME FuseInv, NEW w \in Waiters, Wait(w)
  PROVE  FuseInv'
<1> USE DEF FuseInv
<1>1. UNCHANGED <<burned, consVars, prodVars, mainVars>>
  BY DEF Wait, WaitLock, WaitIsBurned, CondWait, WaitReturns
<1>2. ConsumerTypes' /\ ToldAndSeen' /\ ProducerTypes' /\ BurnedFuseIsWatched' /\ MainTypes'
  BY <1>1, ConsumerFrame, ProducerFrame, MainFrame
<1>3. WaitTypes' /\ WaitersInWait'
  <2> USE FuseAssumption DEF WaitTypes
  <2>1. CASE WaitLock(w)
    <3>1. WaitTypes'
      BY <2>1, <1>1 DEF WaitLock
    <3>2. WaitersInWait'
      BY <2>1, <1>1, StillInWait DEF WaitLock, consVars
    <3> QED
      BY <3>1, <3>2
  <2>2. CASE WaitIsBurned(w)
    <3>1. WaitTypes'
      BY <2>2, <1>1 DEF WaitIsBurned
    <3>2. WaitersInWait'
      BY <2>2, <1>1, StillInWait DEF WaitIsBurned, consVars
    <3> QED
      BY <3>1, <3>2
  <2>3. CASE CondWait(w)
    <3>1. WaitTypes'
      BY <2>3, <1>1 DEF CondWait
    <3>2. WaitersInWait'
      BY <2>3, <1>1, StillInWait DEF CondWait, consVars
    <3> QED
      BY <3>1, <3>2
  <2>4. CASE WaitReturns(w)
    <3>1. WaitTypes'
      BY <2>4, <1>1 DEF WaitReturns
    <3>2. WaitersInWait'
      BY <2>4, <1>1, StillInWait DEF WaitReturns, consVars
    <3> QED
      BY <3>1, <3>2
  <2> QED
    BY <2>1, <2>2, <2>3, <2>4 DEF Wait
<1> QED
  BY <1>2, <1>3

\* so do the loops of a consumer,
LEMMA ConsumerStep ==
  ASSUME FuseInv, NEW c \in Consumers, Worker(c) \/ Watch(c) \/ ConsumerControl(c)
  PROVE  FuseInv'
<1> USE DEF FuseInv
<1>1. UNCHANGED <<burned, holder, asleep, prodVars, mainVars>>
  BY DEF Worker, Watch, WorkerIsActive, WorkerEnqueue, WatchIsActive, WatchIsBurned, WatchSendBurn,
         WatchSendActive, ConsumerControl, waitVars
<1>2. ProducerTypes' /\ BurnedFuseIsWatched' /\ MainTypes'
  BY <1>1, ProducerFrame, MainFrame
<1>3. <<"worker", c>> \in Waiters /\ <<"watch", c>> \in Waiters
  BY WaiterNames
<1>4. WaitTypes' /\ WaitersInWait' /\ ConsumerTypes' /\ ToldAndSeen'
  <2> USE <1>1, <1>3
  <2>1. CASE WorkerIsActive(c)
    <3>1. WaitTypes'
      BY <2>1 DEF WorkerIsActive, CallWait, WaitTypes, WaitersInWait, ConsumerTypes
    <3>2. WaitersInWait'
      <4>1. CASE active[c]
        <5>1. /\ worker' = [worker EXCEPT ![c] = "wait"] /\ watch' = watch
              /\ wait' = [wait EXCEPT ![<<"worker", c>>] = "lock"]
          BY <2>1, <4>1 DEF WorkerIsActive, CallWait
        <5>2. \A d \in Consumers : worker'[d] = "wait" <=> wait'[<<"worker", d>>] # "none"
          BY <5>1, WaiterNames DEF WaitersInWait, WaitTypes, ConsumerTypes
        <5>3. \A d \in Consumers : watch'[d] = "wait" <=> wait'[<<"watch", d>>] # "none"
          BY <5>1, WaiterNames DEF WaitersInWait, WaitTypes
        <5> QED
          BY <5>2, <5>3 DEF WaitersInWait
      <4>2. CASE ~active[c]
        BY <2>1, <4>2 DEF WorkerIsActive, WaitersInWait, ConsumerTypes
      <4> QED
        BY <4>1, <4>2
    <3>3. ConsumerTypes' /\ ToldAndSeen'
      BY <2>1 DEF WorkerIsActive, ConsumerTypes, ToldAndSeen, LastTold
    <3> QED
      BY <3>1, <3>2, <3>3
  <2>2. CASE WorkerEnqueue(c)
    <3>1. WaitTypes'
      BY <2>2 DEF WorkerEnqueue, WaitTypes
    <3>2. WaitersInWait'
      BY <2>2, WaiterNames DEF WorkerEnqueue, WaitersInWait, WaitTypes, ConsumerTypes
    <3>3. ConsumerTypes'
      BY <2>2 DEF WorkerEnqueue, ConsumerTypes
    <3>4. ToldAndSeen'
      BY <2>2 DEF WorkerEnqueue, ConsumerTypes, ToldAndSeen, LastTold
    <3> QED
      BY <3>1, <3>2, <3>3, <3>4
  <2>3. CASE WatchIsActive(c)
    <3>1. WaitTypes'
      BY <2>3 DEF WatchIsActive, waitVars, WaitTypes
    <3>2. WaitersInWait'
      BY <2>3 DEF WatchIsActive, waitVars, WaitersInWait, ConsumerTypes
    <3>3. ConsumerTypes'
      BY <2>3 DEF WatchIsActive, waitVars, ConsumerTypes
    <3>4. ToldAndSeen'
      BY <2>3 DEF WatchIsActive, waitVars, ConsumerTypes, ToldAndSeen, LastTold
    <3> QED
      BY <3>1, <3>2, <3>3, <3>4
  <2>4. CASE WatchIsBurned(c)
    <3>1. WaitTypes'
      BY <2>4 DEF WatchIsBurned, waitVars, WaitTypes
    <3>2. WaitersInWait'
      BY <2>4 DEF WatchIsBurned, waitVars, WaitersInWait, ConsumerTypes
    <3>3. ConsumerTypes'
      BY <2>4 DEF WatchIsBurned, waitVars, ConsumerTypes
    <3>4. ToldAndSeen'
      BY <2>4 DEF WatchIsBurned, waitVars, ConsumerTypes, ToldAndSeen, LastTold
    <3> QED
      BY <3>1, <3>2, <3>3, <3>4
  <2>5. CASE WatchSendBurn(c)
    <3>1. WaitTypes'
      BY <2>5 DEF WatchSendBurn, CallWait, WaitTypes, WaitersInWait, ConsumerTypes
    <3>2. WaitersInWait'
      BY <2>5, WaiterNames DEF WatchSendBurn, CallWait, WaitTypes, WaitersInWait, ConsumerTypes
    <3>3. ConsumerTypes'
      BY <2>5 DEF WatchSendBurn, Send, ConsumerTypes, Commands
    <3>4. ToldAndSeen'
      BY <2>5 DEF WatchSendBurn, Send, ConsumerTypes, Commands, ToldAndSeen, LastTold
    <3> QED
      BY <3>1, <3>2, <3>3, <3>4
  <2>6. CASE WatchSendActive(c)
    <3>1. WaitTypes'
      BY <2>6 DEF WatchSendActive, WaitTypes, WaitersInWait, ConsumerTypes
    <3>2. WaitersInWait'
      <4>1. /\ worker' = worker /\ wait' = [wait EXCEPT ![<<"watch", c>>] = "none"]
            /\ watch' = [watch EXCEPT ![c] = "isActive"]
            /\ DOMAIN wait = Waiters /\ DOMAIN watch = Consumers
        BY <2>6 DEF WatchSendActive, WaitTypes, ConsumerTypes
      <4>2. ASSUME NEW d \in Consumers
            PROVE  /\ worker'[d] = "wait" <=> wait'[<<"worker", d>>] # "none"
                   /\ watch'[d] = "wait" <=> wait'[<<"watch", d>>] # "none"
        BY <4>1, WaiterNames DEF WaitersInWait
      <4> QED
        BY <4>2 DEF WaitersInWait
    <3>3. ConsumerTypes'
      BY <2>6 DEF WatchSendActive, Send, ConsumerTypes, Commands
    <3>4. ToldAndSeen'
      BY <2>6 DEF WatchSendActive, Send, ConsumerTypes, Commands, ToldAndSeen, LastTold
    <3> QED
      BY <3>1, <3>2, <3>3, <3>4
  <2>7. CASE ConsumerControl(c)
    <3>1. WaitTypes' /\ WaitersInWait'
      BY <2>7, WaitFrame DEF ConsumerControl, waitVars, WaitTypes
    <3>2. ConsumerTypes'
      <4>1. PICK x \in Commands \cup {"Stop"} : consControl[c] = <<x>>
        BY <2>7 DEF ConsumerControl, ConsumerTypes
      <4>2. Head(consControl[c]) = x
        BY <4>1
      <4> QED
        BY <2>7, <4>2 DEF ConsumerControl, ConsumerTypes
    <3>3. ToldAndSeen'
      BY <2>7 DEF ConsumerControl, ConsumerTypes, Commands, ToldAndSeen, LastTold
    <3> QED
      BY <3>1, <3>2, <3>3
  <2> QED
    BY <2>1, <2>2, <2>3, <2>4, <2>5, <2>6, <2>7 DEF Worker, Watch
<1> QED
  BY <1>2, <1>4

\* the loops and checks of a producer,
LEMMA ProducerStep ==
  ASSUME FuseInv, NEW p \in FuseProducers,
         \/ \E command \in Commands : SendCommand(p, command)
         \/ ControlLoop(p) \/ Check(p) \/ CheckSend(p)
  PROVE  FuseInv'
<1> USE DEF FuseInv
<1>1. UNCHANGED <<consVars, mainVars>>
  BY DEF SendCommand, ControlLoop, Check, ProducerControl, Burn, StartCheck, StopTimer, Activate,
         ActivateBroadcast, CheckIsBurned, CheckSucceeds, CheckFails, TimerFires, CheckSend
<1>2. ConsumerTypes' /\ ToldAndSeen' /\ MainTypes'
  BY <1>1, ConsumerFrame, MainFrame
<1>3. WaitTypes' /\ WaitersInWait'
  <2>1. CASE ActivateBroadcast(p)
    BY <2>1, <1>1, BroadcastWakes DEF ActivateBroadcast, consVars
  <2>2. CASE ~ActivateBroadcast(p)
    <3>1. UNCHANGED <<holder, asleep, wait, worker, watch>> /\ burned' \in BOOLEAN
      BY <2>2, <1>1 DEF SendCommand, ControlLoop, Check, ProducerControl, Burn, StartCheck, StopTimer,
           Activate, ClearBurned, CheckIsBurned, CheckSucceeds, CheckFails, TimerFires, CheckSend, waitVars,
           consVars, WaitTypes
    <3> QED
      BY <3>1, WaitFrame
  <2> QED
    BY <2>1, <2>2
<1>4. ProducerTypes' /\ BurnedFuseIsWatched'
  <2>0. ProducerTypes /\ BurnedFuseIsWatched
    OBVIOUS
  <2>1. CASE \E command \in Commands : SendCommand(p, command)
    <3>1. ProducerTypes'
      BY <2>1, FuseAssumption DEF SendCommand, Send, Commands, ProducerTypes
    <3>2. burned' = burned /\ (Recovering(p) => Recovering(p)')
      BY <2>1 DEF SendCommand, Send, waitVars, Recovering
    <3> QED
      BY <2>1, <3>1, <3>2, StillWatched DEF SendCommand, Send, ProducerTypes
  <2>2. CASE ProducerControl(p)
    <3>1. ProducerTypes'
      BY <2>2 DEF ProducerControl, Goto, ProducerTypes
    <3>2. burned' = burned /\ (burned /\ Recovering(p) => Recovering(p)')
      BY <2>2 DEF ProducerControl, Goto, waitVars, Recovering, ProducerTypes
    <3> QED
      BY <2>2, <3>1, <3>2, StillWatched DEF ProducerControl, Goto, ProducerTypes
  <2>3. CASE Burn(p)
    <3>1. ProducerTypes'
      BY <2>3 DEF Burn, Goto, ProducerTypes
    <3>2. Recovering(p)'
      BY <2>3 DEF Burn, Goto, Recovering, ProducerTypes
    <3> QED
      BY <2>3, <3>1, <3>2, StillWatched DEF Burn, Goto, ProducerTypes
  <2>4. CASE StartCheck(p)
    <3>1. /\ checks' \in [FuseProducers -> [Labels -> Nat]]
          /\ \A q \in FuseProducers \ {p} : checks'[q] = checks[q]
          /\ checks'[p]["isBurned"] > 0
      BY <2>0, <2>4, CheckStarted DEF StartCheck
    <3>2. ProducerTypes'
      BY <2>4, <3>1 DEF StartCheck, Goto, ProducerTypes
    <3>3. Recovering(p)'
      BY <3>1 DEF Recovering, Labels
    <3> QED
      BY <2>4, <3>1, <3>2, <3>3, StillWatched DEF StartCheck, Goto, ProducerTypes
  <2>5. CASE StopTimer(p)
    <3>1. ProducerTypes'
      BY <2>5 DEF StopTimer, Goto, ProducerTypes
    <3>2. Recovering(p)'
      BY <2>5 DEF StopTimer, Goto, Recovering, ProducerTypes
    <3> QED
      BY <2>5, <3>1, <3>2, StillWatched DEF StopTimer, Goto, ProducerTypes
  <2>6. CASE Activate(p)
    <3>1. ProducerTypes' /\ ~burned'
      BY <2>6 DEF Activate, ClearBurned, Goto, ProducerTypes
    <3> QED
      BY <3>1 DEF BurnedFuseIsWatched
  <2>7. CASE ActivateBroadcast(p)
    <3>1. ProducerTypes'
      BY <2>7 DEF ActivateBroadcast, Goto, ProducerTypes
    <3>2. burned' = burned /\ (Recovering(p) => Recovering(p)')
      BY <2>7 DEF ActivateBroadcast, Goto, Recovering, ProducerTypes
    <3> QED
      BY <2>7, <3>1, <3>2, StillWatched DEF ActivateBroadcast, Goto, ProducerTypes
  <2>8. CASE CheckIsBurned(p)
    <3> DEFINE to == IF p \in HasCheck /\ burned THEN "onCheck" ELSE "end"
    <3>1. /\ checks' \in [FuseProducers -> [Labels -> Nat]]
          /\ \A q \in FuseProducers \ {p} : checks'[q] = checks[q]
          /\ to \in Labels => checks'[p][to] > 0
      BY <2>0, <2>8, Moved DEF CheckIsBurned, Labels
    <3>2. ProducerTypes'
      BY <2>8, <3>1 DEF CheckIsBurned, ProducerTypes
    <3>3. burned' = burned
      BY <2>8 DEF CheckIsBurned, waitVars
    <3>4. burned /\ HasCheck = FuseProducers => Recovering(p)'
      BY <3>1 DEF Recovering, Labels
    <3> QED
      BY <2>8, <3>1, <3>2, <3>3, <3>4, StillWatched DEF CheckIsBurned
  <2>9. CASE CheckSucceeds(p)
    <3>1. /\ checks' \in [FuseProducers -> [Labels -> Nat]]
          /\ \A q \in FuseProducers \ {p} : checks'[q] = checks[q]
          /\ checks'[p]["send"] > 0
      BY <2>0, <2>9, Moved DEF CheckSucceeds, Labels
    <3>2. ProducerTypes'
      BY <2>9, <3>1 DEF CheckSucceeds, ProducerTypes
    <3>3. Recovering(p)'
      BY <3>1 DEF Recovering, Labels
    <3> QED
      BY <2>9, <3>1, <3>2, <3>3, StillWatched DEF CheckSucceeds
  <2>10. CASE CheckFails(p)
    <3>1. /\ checks' \in [FuseProducers -> [Labels -> Nat]]
          /\ \A q \in FuseProducers \ {p} : checks'[q] = checks[q]
      BY <2>0, <2>10, Moved DEF CheckFails, Labels
    <3>2. ProducerTypes'
      BY <2>10, <3>1 DEF CheckFails, ProducerTypes
    <3>3. Recovering(p)'
      BY <2>10 DEF CheckFails, Recovering, ProducerTypes
    <3> QED
      BY <2>10, <3>1, <3>2, <3>3, StillWatched DEF CheckFails, ProducerTypes
  <2>11. CASE TimerFires(p)
    <3>1. /\ checks' \in [FuseProducers -> [Labels -> Nat]]
          /\ \A q \in FuseProducers \ {p} : checks'[q] = checks[q]
          /\ checks'[p]["isBurned"] > 0
      BY <2>0, <2>11, CheckStarted DEF TimerFires
    <3>2. ProducerTypes'
      BY <2>11, <3>1 DEF TimerFires, ProducerTypes
    <3>3. Recovering(p)'
      BY <3>1 DEF Recovering, Labels
    <3> QED
      BY <2>11, <3>1, <3>2, <3>3, StillWatched DEF TimerFires, ProducerTypes
  <2>12. CASE CheckSend(p)
    <3>1. /\ checks' \in [FuseProducers -> [Labels -> Nat]]
          /\ \A q \in FuseProducers \ {p} : checks'[q] = checks[q]
      BY <2>0, <2>12, Moved DEF CheckSend, Labels
    <3>2. ProducerTypes'
      BY <2>12, <3>1 DEF CheckSend, Send, ProducerTypes
    <3>3. Recovering(p)'
      BY <2>12 DEF CheckSend, Send, Recovering, ProducerTypes
    <3> QED
      BY <2>12, <3>1, <3>2, <3>3, StillWatched DEF CheckSend, Send, ProducerTypes
  <2> QED
    BY <2>1, <2>2, <2>3, <2>4, <2>5, <2>6, <2>7, <2>8, <2>9, <2>10, <2>11, <2>12 DEF ControlLoop, Check
<1> QED
  BY <1>2, <1>3, <1>4

\* and the shutdown.
LEMMA ShutdownStep ==
  ASSUME FuseInv, Shutdown
  PROVE  FuseInv'
<1> USE DEF FuseInv
<1>1. UNCHANGED prodVars /\ (burned' => burned) /\ burned' \in BOOLEAN
  <2>1. UNCHANGED prodVars /\ (UNCHANGED burned \/ burned' = FALSE)
    BY DEF Shutdown, StopConsumer, ActivateAllFuses, ActivateAllBroadcast, ConsumersDone, ClearBurned, waitVars
  <2>2. burned \in BOOLEAN
    BY DEF WaitTypes
  <2>3. CASE UNCHANGED burned
    BY <2>1, <2>2, <2>3
  <2>4. CASE burned' = FALSE
    BY <2>1, <2>4
  <2> QED
    BY <2>1, <2>3, <2>4
<1>2. ProducerTypes' /\ BurnedFuseIsWatched'
  BY <1>1, ProducerFrame
<1>3. CASE \E c \in Consumers : StopConsumer(c)
  <2> PICK c \in Consumers : StopConsumer(c)
    BY <1>3
  <2>1. WaitTypes' /\ WaitersInWait'
    BY <1>1, WaitFrame DEF StopConsumer, waitVars
  <2>2. ConsumerTypes'
    BY DEF StopConsumer, Send, ConsumerTypes
  <2>3. ToldAndSeen'
    BY DEF StopConsumer, Send, ConsumerTypes, Commands, ToldAndSeen, LastTold
  <2>4. MainTypes'
    BY DEF StopConsumer, MainTypes
  <2> QED
    BY <1>2, <2>1, <2>2, <2>3, <2>4
<1>4. CASE ActivateAllFuses
  <2>1. WaitTypes' /\ WaitersInWait'
    BY <1>1, <1>4, WaitFrame DEF ActivateAllFuses, consVars
  <2>2. ConsumerTypes' /\ ToldAndSeen'
    BY <1>4, ConsumerFrame DEF ActivateAllFuses
  <2>3. MainTypes'
    BY <1>4 DEF ActivateAllFuses, MainTypes
  <2> QED
    BY <1>2, <2>1, <2>2, <2>3
<1>5. CASE ActivateAllBroadcast
  <2>1. WaitTypes' /\ WaitersInWait'
    BY <1>5, BroadcastWakes DEF ActivateAllBroadcast, consVars
  <2>2. ConsumerTypes' /\ ToldAndSeen'
    BY <1>5, ConsumerFrame DEF ActivateAllBroadcast
  <2>3. MainTypes'
    BY <1>5 DEF ActivateAllBroadcast, MainTypes
  <2> QED
    BY <1>2, <2>1, <2>2, <2>3
<1>6. CASE ConsumersDone
  <2>1. WaitTypes' /\ WaitersInWait'
    BY <1>6, <1>1, WaitFrame DEF ConsumersDone, waitVars, consVars
  <2>2. ConsumerTypes' /\ ToldAndSeen'
    BY <1>6, ConsumerFrame DEF ConsumersDone
  <2>3. MainTypes'
    BY <1>6 DEF ConsumersDone, MainTypes
  <2> QED
    BY <1>2, <2>1, <2>2, <2>3
<1> QED
  BY <1>3, <1>4, <1>5, <1>6 DEF Shutdown

-----------------------------------------------------------------------------
\* The invariant of the module, for any number of producers and consumers: stopping the timer,
\* burning, checking and activating in goroutines of their own never leave a burned fuse that
\* nobody looks at (ProducerBase.triggerCheckFuse), and a consumer is told of the burned and
\* the active fuse in turn (ConsumerBase.fuseControlLoop).
THEOREM FuseIsSafe == FuseSpec => []FuseInvariant
<1>1. FuseInv /\ [FuseNext]_fuseVars => FuseInv'
  <2> SUFFICES ASSUME FuseInv, [FuseNext]_fuseVars PROVE FuseInv'
    OBVIOUS
  <2>1. CASE FuseNext
    BY <2>1, WaitStep, ConsumerStep, ProducerStep, ShutdownStep DEF FuseNext, Commands
  <2>2. CASE UNCHANGED fuseVars
    <3>1. UNCHANGED <<waitVars, consVars, prodVars, mainVars>>
      BY <2>2 DEF fuseVars
    <3> QED
      BY <3>1, ConsumerFrame, ProducerFrame, MainFrame, WaitFrame DEF FuseInv, waitVars, consVars, WaitTypes
  <2> QED
    BY <2>1, <2>2
<1> QED
  BY <1>1, FuseInvInit, FuseInvImplies, PTL DEF FuseSpec
=============================================================================
