------------------------------ MODULE Registry ------------------------------
(***************************************************************************)
(* How newMultiplexer turns a configuration into streams: stream plugins   *)
(* are registered first, then the producers attach to their streams, the   *)
(* shutdown dependencies are linked, the consumers create the streams they *)
(* write to, and at last the producers listening to "*" are attached to    *)
(* all streams.  Streams nobody has configured are created on demand       *)
(* (GetStreamOrFallback), in each of these phases and while running.       *)
(***************************************************************************)
EXTENDS Naturals, Sequences, SequencesExt, FiniteSetsExt

CONSTANTS
  Producers,                        \* configured producers
  UserStreams,                      \* streams named in the configuration
  Wildcard, Dropped, LogInternal,   \* "*", "_DROPPED_" and "_GOLLUM_"
  ListenChoices, DropChoices,       \* bound: settings of a producer,
  WriteChoices,                     \*   streams the consumers write to,
  PluginStreams                     \*   streams with a stream plugin

Internal == {Dropped, LogInternal}
Streams  == UserStreams \cup Internal \cup {Wildcard}

ASSUME RegistryAssumption ==
  /\ Wildcard \notin UserStreams \cup Internal /\ Internal \cap UserStreams = {}
  /\ ListenChoices \subseteq SUBSET Streams /\ DropChoices \subseteq Streams
  /\ WriteChoices \subseteq SUBSET Streams /\ PluginStreams \subseteq Streams

VARIABLES
  listens, dropTo,  \* configuration: the streams of a producer, its drop stream,
  written,          \*   and the streams consumers write to
  phase,            \* where newMultiplexer is
  streams,          \* registry.streams: the producers of every registered stream
  wildcard,         \* registry.wildcard
  producers,        \* plex.producers
  dependencies,     \* the dependencies of each producer
  links,            \* what the call of LinkDependencies in progress has still to look at:
                    \*   the pairs of the parent and a child
  toDo              \* what the loop of the current phase has still to look at

config == <<listens, dropTo, written>>
vars   == <<config, phase, streams, wildcard, producers, dependencies, links, toDo>>

-----------------------------------------------------------------------------
(* StreamBase and streamRegistry *)

\* StreamBase.AddProducer: the first producer that is already in the list ends the
\* call, so those after it are not added.
AddProducer(list, new) ==
  LET known == {i \in DOMAIN new :
                  new[i] \in ToSet(list) \cup {new[j] : j \in 1 .. i - 1}}
  IN list \o SubSeq(new, 1, IF known = {} THEN Len(new) ELSE Min(known) - 1)

\* RegisterWildcardProducer for one producer.
RegisterWildcardProducer(prod) ==
  IF prod \in ToSet(wildcard) THEN wildcard ELSE Append(wildcard, prod)

\* The producers AddWildcardProducersToStream adds to a stream.
WildcardProducersFor(id) == IF id \in Internal THEN <<>> ELSE wildcard

\* Mutant: a default stream is created without the wildcard producers.
WithFallback_Empty(ids) ==
  [id \in DOMAIN streams \cup ids |-> IF id \in DOMAIN streams THEN streams[id] ELSE <<>>]

\* The streams after a call of GetStreamOrFallback for each of ids: the missing ones
\* are default streams with all wildcard producers known so far.
WithFallback(ids) ==
  [id \in DOMAIN streams \cup ids |->
     IF id \in DOMAIN streams THEN streams[id] ELSE AddProducer(<<>>, WildcardProducersFor(id))]

\* prod.DependsOn(dep), direct or over other producers.
Closed(S) == \A p \in S : dependencies[p] \subseteq S
DependsOn(prod, dep) ==
  \A S \in SUBSET Producers : (dependencies[prod] \subseteq S /\ Closed(S)) => dep \in S

\* The switch of LinkDependencies for one of the producers listening to the drop stream.
Link(parent, child) ==
  IF child = parent \/ DependsOn(parent, child) \/ DependsOn(child, parent)
    THEN dependencies ELSE [dependencies EXCEPT ![child] = @ \cup {parent}]

-----------------------------------------------------------------------------
(* newMultiplexer *)

\* A stream plugin is configured and registered, once more if the stream is occupied.
Register(id) ==
  /\ phase = "streams" /\ id \in PluginStreams
  /\ streams' = [x \in DOMAIN streams \cup {id} |-> IF x = id THEN <<>> ELSE streams[x]]
  /\ UNCHANGED <<config, phase, wildcard, producers, dependencies, links, toDo>>

\* wildcardStream := GetStreamOrFallback(WildcardStreamID)
StreamsDone ==
  /\ phase = "streams"
  /\ streams' = WithFallback({Wildcard})
  /\ phase'   = "producers"
  /\ toDo'    = Producers
  /\ UNCHANGED <<config, wildcard, producers, dependencies, links>>

\* Mutant: the producer takes over the streams it listens to.
Attached_Overwrite(prod) ==
  LET all == WithFallback(listens[prod] \ {Wildcard})
  IN [id \in DOMAIN all |->
        IF id \in listens[prod] THEN <<prod>> ELSE all[id]]

\* The streams with prod attached to all streams it listens to, and to the wildcard
\* stream unless it only listens to internal streams.
Attached(prod) ==
  LET all == WithFallback(listens[prod] \ {Wildcard})
  IN [id \in DOMAIN all |->
        IF \/ id \in listens[prod] \ {Wildcard}
           \/ id = Wildcard /\ listens[prod] \ Internal # {}
        THEN AddProducer(all[id], <<prod>>) ELSE all[id]]

ConfigureProducer(prod) ==
  /\ phase = "producers" /\ prod \in toDo
  /\ toDo' = toDo \ {prod}
  /\ \/ /\ listens[prod] # {}
        /\ streams'   = Attached(prod)
        /\ wildcard'  = IF Wildcard \in listens[prod]
                          THEN RegisterWildcardProducer(prod) ELSE wildcard
        /\ producers' = Append(producers, prod)
     \* Configure failed, or there are no streams: an error is counted, run goes on.
     \/ UNCHANGED <<streams, wildcard, producers>>
  /\ UNCHANGED <<config, phase, dependencies, links>>

ProducersDone ==
  /\ phase = "producers" /\ toDo = {}
  /\ phase' = "link"
  /\ UNCHANGED <<config, streams, wildcard, producers, dependencies, links, toDo>>

\* LinkDependencies for the producers in the order of the configuration; toDo holds
\* the ones that are done.
LinkDependencies(parent) ==
  /\ phase = "link" /\ links = <<>> /\ parent \in ToSet(producers) \ toDo
  /\ \A i \in 1 .. Len(producers) : producers[i] = parent =>
       \A j \in 1 .. i - 1 : producers[j] \in toDo
  /\ toDo'    = toDo \cup {parent}
  /\ streams' = WithFallback({dropTo[parent]})
  /\ links'   = [i \in DOMAIN streams'[dropTo[parent]] |-> <<parent, streams'[dropTo[parent]][i]>>]
  /\ UNCHANGED <<config, phase, wildcard, producers, dependencies>>

LinkChild ==
  /\ phase = "link" /\ links # <<>>
  /\ dependencies' = Link(Head(links)[1], Head(links)[2])
  /\ links' = Tail(links)
  /\ UNCHANGED <<config, phase, streams, wildcard, producers, toDo>>

\* The consumers bind to the streams they write to.
ConfigureConsumers ==
  /\ phase = "link" /\ links = <<>> /\ toDo = ToSet(producers)
  /\ streams' = WithFallback(written)
  /\ phase'   = "wildcards"
  /\ toDo'    = DOMAIN streams'
  /\ UNCHANGED <<config, wildcard, producers, dependencies, links>>

\* AddWildcardProducersToStream for a stream of ForEachStream.
AddWildcards(id) ==
  /\ phase = "wildcards" /\ id \in toDo
  /\ streams' = [streams EXCEPT ![id] = AddProducer(@, WildcardProducersFor(id))]
  /\ toDo'    = toDo \ {id}
  /\ UNCHANGED <<config, phase, wildcard, producers, dependencies, links>>

Run ==
  /\ phase = "wildcards" /\ toDo = {}
  /\ phase' = "run"
  /\ UNCHANGED <<config, streams, wildcard, producers, dependencies, links, toDo>>

\* A formatter or a route sends a message to a stream nobody has used yet.
RouteMessage(id) ==
  /\ phase = "run"
  /\ streams' = WithFallback({id})
  /\ UNCHANGED <<config, phase, wildcard, producers, dependencies, links, toDo>>

-----------------------------------------------------------------------------
Init ==
  /\ listens \in [Producers -> ListenChoices]
  /\ dropTo \in [Producers -> DropChoices]
  /\ written \in WriteChoices
  /\ phase = "streams" /\ toDo = {}
  /\ streams = <<>> /\ wildcard = <<>> /\ producers = <<>>
  /\ dependencies = [p \in Producers |-> {}] /\ links = <<>>

Next ==
  \/ \E id \in Streams : Register(id) \/ AddWildcards(id) \/ RouteMessage(id)
  \/ \E p \in Producers : ConfigureProducer(p) \/ LinkDependencies(p)
  \/ StreamsDone \/ ProducersDone \/ LinkChild \/ ConfigureConsumers \/ Run

Spec == Init /\ [][Next]_vars

-----------------------------------------------------------------------------
(* Properties *)

\* Streams and the wildcard list only hold producers that were configured successfully.
TypeOK ==
  /\ listens \in [Producers -> SUBSET Streams] /\ dropTo \in [Producers -> Streams]
  /\ written \subseteq Streams
  /\ phase \in {"streams", "producers", "link", "wildcards", "run"}
  /\ DOMAIN streams \subseteq Streams
  /\ \A id \in DOMAIN streams : streams[id] \in Seq(ToSet(producers))
  /\ wildcard \in Seq(ToSet(producers)) /\ producers \in Seq(Producers)
  /\ dependencies \in [Producers -> SUBSET Producers]
  /\ links \in Seq(Producers \X Producers)
  /\ toDo \subseteq Producers \cup Streams

\* The producers of a stream once all producers are attached.
Listeners(id) == ToSet(streams[id])
Configured == ToSet(producers)

\* "Duplicates will be filtered": a stream never holds a producer twice, so it never
\* sends a message to a producer twice, although producers attach in three places.
NoDuplicateListeners ==
  /\ \A id \in DOMAIN streams : IsInjective(streams[id])
  /\ IsInjective(wildcard)

\* Only producers that name them get dropped messages and the log.
InternalStreamsAreSeparate ==
  \A id \in Internal \cap DOMAIN streams : \A p \in Listeners(id) : id \in listens[p]

\* A producer is attached to every stream it names, whatever the order of the
\* configuration, and to the wildcard stream if it is not an internal one.
ListenersAreAttached ==
  phase \in {"link", "wildcards", "run"} =>
    \A p \in Configured :
      /\ \A id \in listens[p] \ {Wildcard} : id \in DOMAIN streams /\ p \in Listeners(id)
      /\ Wildcard \in listens[p] <=> p \in ToSet(wildcard)
      /\ listens[p] \ Internal # {} => p \in Listeners(Wildcard)

\* A producer that names the drop stream of another one stops before or after it: for
\* every pair one depends on the other, and they never depend on each other.
DropsAreOrdered ==
  /\ \A p \in Producers : ~DependsOn(p, p)
  /\ phase \in {"wildcards", "run"} =>
       \A p, q \in Configured :
         p # q /\ dropTo[p] \in listens[q] => DependsOn(q, p) \/ DependsOn(p, q)

\* Whatever the order of the configuration: every stream has exactly the producers it is to
\* have, once, and producers that drop to each other have an order.
RegistryInvariant ==
  /\ TypeOK
  /\ NoDuplicateListeners /\ InternalStreamsAreSeparate /\ ListenersAreAttached
  /\ DropsAreOrdered

\* A stream that comes into being while messages are routed has all wildcard producers.
LateStreamsAreComplete ==
  [][phase = "run" =>
       \A id \in DOMAIN streams' \ (DOMAIN streams \cup Internal) :
         ToSet(wildcard) \subseteq ToSet(streams'[id])]_vars

\* "AddProducer adds all producers to the list of known producers. Duplicates will be
\* filtered": when the configuration is done every producer listening to "*" is
\* attached to every stream that is not an internal one.
WildcardGetsAllStreams ==
  phase = "run" =>
    \A id \in DOMAIN streams \ Internal : ToSet(wildcard) \subseteq Listeners(id)
=============================================================================
