---------------------------- MODULE Dependencies ----------------------------
(***************************************************************************)
(* The shutdown dependencies between producers.                            *)
(*                                                                         *)
(* A producer that drops a message sends it to its drop stream, so every   *)
(* producer that listens to that stream has to outlive it.  At the end of  *)
(* the configuration newMultiplexer calls LinkDependencies once for each   *)
(* producer (the parent), which makes every producer attached to the       *)
(* parent's drop stream (a child) depend on the parent, unless the two     *)
(* are already related.  When the producers are told to stop, each of them *)
(* waits in WaitForDependencies until all its dependencies are dead.       *)
(***************************************************************************)
EXTENDS Integers, FiniteSets

CONSTANTS
  Producers,          \* the configured producers
  NoProducer,         \* no parent is being linked
  ShutdownTimeoutMs,  \* GetShutdownTimeout(); 0 waits without a limit
  MaxInFlight         \* bound: Enqueue calls of a producer that are past the
                      \* channel send when the producer is told to stop

ASSUME ProducersAssumption == NoProducer \notin Producers
ASSUME TimeoutAssumption   == ShutdownTimeoutMs \in Nat /\ MaxInFlight \in Nat

VARIABLES
  dropListeners,  \* dropListeners[p]: producers attached to p's drop stream
  todo,           \* producers LinkDependencies has not been called for yet
  parent,         \* the parent of the LinkDependencies call in progress
  children,       \* the children that call still has to look at
  dependencies,   \* ProducerBase.dependencies
  runState,       \* PluginRunState.state
  controlLoop,    \* where the ControlLoop of each producer is
  waitsFor,       \* dependencies WaitForDependencies has not passed yet
  inFlight        \* Enqueue calls that still have to run setState

configVars == <<dropListeners, todo, parent, children, dependencies>>
runVars    == <<runState, controlLoop, waitsFor, inFlight>>
vars       == <<configVars, runVars>>

-----------------------------------------------------------------------------
(* Helpers of ProducerBase *)

\* DependsOn follows the dependencies of prod, and theirs, until it meets dep:
\* dep is in every set that holds the dependencies of prod and is closed.
Closed(S) == \A x \in S : dependencies[x] \subseteq S

DependsOn_DirectOnly(prod, dep) == dep \in dependencies[prod]

DependsOn(prod, dep) ==
  \A S \in SUBSET Producers : (dependencies[prod] \subseteq S /\ Closed(S)) => dep \in S

\* AddDependency ignores duplicates, which a set does by itself.
AddDependency(child, dep) ==
  dependencies' = [dependencies EXCEPT ![child] = @ \cup {dep}]

\* Mutant: only direct cycles are found.
MayLink_DirectCycles(p, child) == p # child /\ child \notin dependencies[p]

\* The switch of LinkDependencies: only its default case adds a dependency.
MayLink(p, child) == p # child /\ ~DependsOn(p, child) /\ ~DependsOn(child, p)

-----------------------------------------------------------------------------
(* newMultiplexer: one LinkDependencies call for each producer *)

LinkDependencies(p) ==
  /\ parent = NoProducer /\ p \in todo
  /\ parent'   = p
  /\ todo'     = todo \ {p}
  /\ children' = dropListeners[p]
  /\ UNCHANGED <<dropListeners, dependencies, runVars>>

LinkChild(child) ==
  /\ parent # NoProducer /\ child \in children
  /\ children' = children \ {child}
  /\ IF MayLink(parent, child)
       THEN AddDependency(child, parent)
       ELSE UNCHANGED dependencies
  /\ UNCHANGED <<dropListeners, todo, parent, runVars>>

LinkReturn ==
  /\ parent # NoProducer /\ children = {}
  /\ parent' = NoProducer
  /\ UNCHANGED <<dropListeners, todo, children, dependencies, runVars>>

Configured == todo = {} /\ parent = NoProducer

-----------------------------------------------------------------------------
(* ControlLoop: the stop command *)

\* A source finds the producer active and puts its message into the channel.
EnqueueSend(p) ==
  /\ Configured
  /\ inFlight[p] < MaxInFlight
  /\ runState[p] = "Active"
  /\ inFlight' = [inFlight EXCEPT ![p] = @ + 1]
  /\ UNCHANGED <<configVars, runState, controlLoop, waitsFor>>

\* Enqueue ends with setState(PluginStateActive), whatever happened since.
EnqueueReturn(p) ==
  /\ inFlight[p] > 0
  /\ inFlight' = [inFlight EXCEPT ![p] = @ - 1]
  /\ runState' = [runState EXCEPT ![p] = "Active"]
  /\ UNCHANGED <<configVars, controlLoop, waitsFor>>

\* Mutant: the wait is skipped for all but the first dependency.
ReceiveStop_WaitForOne(p) ==
  /\ Configured
  /\ controlLoop[p] = "running"
  /\ controlLoop' = [controlLoop EXCEPT ![p] = "waiting"]
  /\ \/ dependencies[p] = {} /\ UNCHANGED waitsFor
     \/ \E dep \in dependencies[p] : waitsFor' = [waitsFor EXCEPT ![p] = {dep}]
  /\ UNCHANGED <<configVars, runState, inFlight>>

ReceiveStop(p) ==
  /\ Configured
  /\ controlLoop[p] = "running"
  /\ controlLoop' = [controlLoop EXCEPT ![p] = "waiting"]
  /\ waitsFor'    = [waitsFor EXCEPT ![p] = dependencies[p]]
  /\ UNCHANGED <<configVars, runState, inFlight>>

\* WaitForDependencies passes a dependency that is dead, or times out on it.
WaitForDependency(p, dep) ==
  /\ controlLoop[p] = "waiting" /\ dep \in waitsFor[p]
  /\ runState[dep] = "Dead" \/ ShutdownTimeoutMs > 0
  /\ waitsFor' = [waitsFor EXCEPT ![p] = @ \ {dep}]
  /\ UNCHANGED <<configVars, runState, controlLoop, inFlight>>

SetStopping(p) ==
  /\ controlLoop[p] = "waiting" /\ waitsFor[p] = {}
  /\ controlLoop' = [controlLoop EXCEPT ![p] = "stopping"]
  /\ runState'    = [runState EXCEPT ![p] = "Stopping"]
  /\ UNCHANGED <<configVars, waitsFor, inFlight>>

\* onStop has returned; the deferred setState(PluginStateDead) runs.
SetDead(p) ==
  /\ controlLoop[p] = "stopping"
  /\ controlLoop' = [controlLoop EXCEPT ![p] = "returned"]
  /\ runState'    = [runState EXCEPT ![p] = "Dead"]
  /\ UNCHANGED <<configVars, waitsFor, inFlight>>

-----------------------------------------------------------------------------
Init ==
  /\ dropListeners \in [Producers -> SUBSET Producers]
  /\ todo = Producers /\ parent = NoProducer /\ children = {}
  /\ dependencies = [p \in Producers |-> {}]
  /\ runState     = [p \in Producers |-> "Active"]
  /\ controlLoop  = [p \in Producers |-> "running"]
  /\ waitsFor     = [p \in Producers |-> {}]
  /\ inFlight     = [p \in Producers |-> 0]

Stop(p) ==
  \/ ReceiveStop(p)
  \/ \E dep \in Producers : WaitForDependency(p, dep)
  \/ SetStopping(p)
  \/ SetDead(p)

Next ==
  \/ \E p \in Producers : LinkDependencies(p) \/ LinkChild(p)
  \/ LinkReturn
  \/ \E p \in Producers : EnqueueSend(p) \/ EnqueueReturn(p) \/ Stop(p)

\* shutdown() sends the stop command to every producer and every goroutine is
\* scheduled again; sources are free to stop sending at any time.
Fairness ==
  /\ WF_vars(\E p \in Producers : LinkDependencies(p) \/ LinkChild(p))
  /\ WF_vars(LinkReturn)
  /\ \A p \in Producers : WF_vars(Stop(p)) /\ WF_vars(EnqueueReturn(p))

Spec     == Init /\ [][Next]_vars
FairSpec == Spec /\ Fairness

-----------------------------------------------------------------------------
\* Every variable has its type; in particular no Enqueue call returns more often than it was
\* made.
TypeOK ==
  /\ dropListeners \in [Producers -> SUBSET Producers]
  /\ todo \subseteq Producers
  /\ parent \in Producers \cup {NoProducer}
  /\ children \subseteq Producers
  /\ dependencies \in [Producers -> SUBSET Producers]
  /\ runState \in [Producers -> {"Active", "Stopping", "Dead"}]
  /\ controlLoop \in [Producers -> {"running", "waiting", "stopping", "returned"}]
  /\ waitsFor \in [Producers -> SUBSET Producers]
  /\ inFlight \in [Producers -> Nat]

\* LinkDependencies creates no circular dependency: every set of producers has
\* one that depends on nobody in the set ("It is important though that we do
\* not create circular dependencies for the shutdown procedure").
Acyclic ==
  \A S \in SUBSET Producers : S # {} => \E x \in S : dependencies[x] \cap S = {}

\* As long as some ControlLoop has not returned, one of them waits for nobody
\* but producers whose ControlLoop has returned: the stop commands cannot end
\* in a circular wait ("Otherwise we will hang").
NoCircularWait ==
  \/ \A p \in Producers : controlLoop[p] = "returned"
  \/ \E p \in Producers :
       /\ controlLoop[p] # "returned"
       /\ \A dep \in waitsFor[p] : controlLoop[dep] = "returned"

\* Without a shutdown timeout a producer that stops has outlived everybody that
\* may drop messages into it.
StopsAfterDependencies ==
  ShutdownTimeoutMs = 0 =>
    \A p \in Producers : controlLoop[p] \in {"stopping", "returned"} =>
      \A dep \in dependencies[p] : controlLoop[dep] = "returned"

\* The inductive form of the above: a ControlLoop that has its stop command has
\* not lost track of any dependency that is still running, and only a ControlLoop
\* that has returned is seen as dead.
WaitsForAllDependencies ==
  /\ \A p \in Producers : waitsFor[p] \subseteq dependencies[p]
  /\ \A p \in Producers : runState[p] = "Dead" => controlLoop[p] = "returned"
  /\ \A p \in Producers : controlLoop[p] # "running" => Configured
  /\ \A p \in Producers : controlLoop[p] \in {"stopping", "returned"} => waitsFor[p] = {}
  /\ ShutdownTimeoutMs = 0 =>
       \A p \in Producers : controlLoop[p] # "running" =>
         \A dep \in dependencies[p] \ waitsFor[p] : controlLoop[dep] = "returned"

\* The ControlLoop of every producer returns after shutdown() has sent the commands,
\* unless an Enqueue that was late has set a producer active again after it was dead.
Revived(p) == controlLoop[p] = "returned" /\ runState[p] # "Dead"
AllStop ==
  <>((\A p \in Producers : controlLoop[p] = "returned") \/ \E p \in Producers : Revived(p))
=============================================================================
