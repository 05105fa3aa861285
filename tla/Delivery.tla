------------------------------ MODULE Delivery ------------------------------
(***************************************************************************)
(* What happens to a message between a consumer and the producers: the     *)
(* filter of its stream (filter.Rate, filter.Sample, or one that keeps no  *)
(* state) and the distribution by the stream (stream.Broadcast, Random,    *)
(* RoundRobin, Route).  Enqueue is called by any number of goroutines, and *)
(* only some of what it uses is atomic or locked, so every access is a     *)
(* step of its own.  The filters without a state are in Filters, formatters*)
(* in Formatters, what a producer does with a message in Pipeline.         *)
(***************************************************************************)
EXTENDS Integers, FiniteSets, Sequences, Functions

CONSTANTS
  Threads, Messages, NoMessage,
  Confs,                \* what to look at: records [filter, stream, threads, producers, bound, max]
                        \* of a filter, a stream, the goroutines that enqueue, the producers
                        \* attached, the routes that existed when the stream was configured, and
                        \* the largest index of RoundRobin, 2^31 - 1 in the code
  Streams, StreamOf,    \* the streams messages come from: [Messages -> Streams]
  Rejected,             \* messages a filter without state does not accept
  Ignored,              \* streams Rate and Sample ignore
  SampleRate, Group,    \* settings of Sample
  Limit,                \* setting of Rate
  DropsTo,              \* whether Rate and Sample have a stream to drop to
  Producers,            \* all producers
  Routes,               \* sequence of the streams a route stream sends to
  Late,                 \* those that exist when messages arrive
  WildcardProducers,    \* whether a stream that does not exist is created
  MaxTicks              \* bound: how often a second passes

NoTarget == "none"
Targets == Producers \cup Range(Routes)

ASSUME DeliveryAssumption ==
  /\ NoMessage \notin Messages /\ StreamOf \in [Messages -> Streams]
  /\ Confs \subseteq [filter : {"static", "Rate", "Sample"},
                      stream : {"Broadcast", "Random", "RoundRobin", "Route"},
                      threads : SUBSET Threads, producers : Seq(Producers),
                      bound : SUBSET Range(Routes), max : Nat]
  \* A stream has no producer twice (Registry), and a route is named once.
  /\ \A c \in Confs : \A n, k \in DOMAIN c.producers : c.producers[n] = c.producers[k] => n = k
  /\ \A n, k \in DOMAIN Routes : Routes[n] = Routes[k] => n = k
  /\ IsFiniteSet(Threads) /\ IsFiniteSet(Streams)
  /\ Rejected \subseteq Messages /\ Ignored \subseteq Streams
  /\ SampleRate \in Nat /\ Group \in Nat \ {0} /\ Limit \in Nat
  /\ DropsTo \in BOOLEAN /\ WildcardProducers \in BOOLEAN
  /\ Routes \in Seq(Range(Routes))
  /\ NoTarget \notin Targets
  /\ Late \subseteq Range(Routes) /\ MaxTicks \in Nat

VARIABLES
  conf,                 \* the combination, which never changes
  pc, msg,              \* where a goroutine is in Enqueue, and with which message
  count, turn,          \* Sample: the counter, and the place in its group each goroutine got
  state, made,          \* Rate: the record of each stream, 0 if there is none; records made
  counter, old, rec,    \*       their counters, whether a second has passed, goroutines' records
  index,                \* RoundRobin
  routes, size,         \* Route: the array behind the slice, and its length
  registered,           \*        streams that exist
  i, target, lastIdx,   \*        locals of routeMessage
  panicked,             \* goroutines that ended with a panic
  fresh,                \* history: messages nobody has enqueued,
  ticket,               \*          the number of each message at Sample's counter,
  passed,               \*          messages a filter has let pass,
  granted,              \*          how many of them since the counter of a record was reset
  ticks,                \*          seconds that have passed
  sent, dropped,        \*          how often messages were sent to targets and dropped
  filtered, unrouted    \*          messages the two counters have counted

sampleVars == <<count, turn, ticket>>
rateVars   == <<state, made, counter, old, rec, granted, ticks>>
routeVars  == <<routes, size, registered, i, target, lastIdx>>
endVars    == <<sent, dropped, filtered, unrouted>>
vars == <<conf, pc, msg, sampleVars, rateVars, index, routeVars, panicked, fresh, passed, endVars>>

Goto(t, label) == pc' = [pc EXCEPT ![t] = label]

\* Every goroutine makes at most one record for each stream.
Records == 1 .. Cardinality(Threads) * Cardinality(Streams)

\* Configure of the two filters, and of the streams.
SampleInit == count = 0 /\ turn = [t \in Threads |-> 0] /\ ticket = [m \in Messages |-> 0]
RateInit ==
  /\ state = [s \in Streams |-> 0] /\ made = 0
  /\ counter = [r \in Records |-> 0] /\ old = [r \in Records |-> FALSE] /\ rec = [t \in Threads |-> 0]
  /\ granted = [r \in Records |-> 0] /\ ticks = 0
RoundRobinInit == index = 0
RouteInit ==
  /\ routes = Routes /\ size = Len(Routes) /\ registered = conf.bound \cup Late
  /\ i = [t \in Threads |-> 0] /\ target = [t \in Threads |-> NoTarget] /\ lastIdx = [t \in Threads |-> 0]

Init ==
  /\ conf \in Confs
  /\ pc = [t \in Threads |-> "idle"] /\ msg = [t \in Threads |-> NoMessage]
  /\ SampleInit /\ RateInit /\ RoundRobinInit /\ RouteInit
  /\ panicked = {} /\ fresh = Messages /\ passed = {}
  /\ sent = [m \in Messages |-> [x \in Targets |-> 0]] /\ dropped = [m \in Messages |-> 0]
  /\ filtered = {} /\ unrouted = {}

-----------------------------------------------------------------------------
(* Filters *)

\* Enqueue up to the filter.
Enqueue(t, m) ==
  /\ pc[t] = "idle" /\ t \notin panicked /\ m \in fresh
  /\ msg' = [msg EXCEPT ![t] = m] /\ fresh' = fresh \ {m}
  /\ Goto(t, CASE conf.filter = "static" -> IF m \in Rejected THEN "filtered" ELSE "accepted"
               [] conf.filter # "static" /\ StreamOf[m] \in Ignored -> "accepted"
               [] OTHER -> conf.filter)
  /\ passed' = IF conf.filter = "static" /\ m \notin Rejected THEN passed \cup {m} ELSE passed
  /\ UNCHANGED <<conf, sampleVars, rateVars, index, routeVars, panicked, endVars>>

\* What a counting filter decides: the message passes, or is dropped and not accepted.
Decide(t, accepts) ==
  /\ Goto(t, IF accepts THEN "accepted" ELSE "limited")
  /\ passed' = IF accepts THEN passed \cup {msg[t]} ELSE passed

\* The counter is only reset by the goroutine that is the first of a group.
FirstOfGroup(n) == n > Group /\ n % Group = 1
\* Mutant: without the correction by one.
TurnOf_NoOffset(n) == IF n > Group THEN n % Group ELSE n
TurnOf(n) == IF n > Group THEN ((n - 1) % Group) + 1 ELSE n

SampleAdd(t) ==
  /\ pc[t] = "Sample"
  /\ count' = count + 1
  /\ ticket' = [ticket EXCEPT ![msg[t]] = Cardinality({m \in Messages : ticket[m] > 0}) + 1]
  /\ IF FirstOfGroup(count + 1)
       THEN Goto(t, "subtract") /\ UNCHANGED <<turn, passed>>
       ELSE /\ turn' = [turn EXCEPT ![t] = TurnOf(count + 1)]
            /\ Decide(t, TurnOf(count + 1) <= SampleRate)
  /\ UNCHANGED <<conf, msg, rateVars, index, routeVars, panicked, fresh, endVars>>

\* The counter need not be what it was when this goroutine added to it.
SampleSubtract(t) ==
  /\ pc[t] = "subtract"
  /\ count' = count - Group
  /\ turn' = [turn EXCEPT ![t] = count - Group]
  /\ Decide(t, count - Group <= SampleRate)
  /\ UNCHANGED <<conf, msg, ticket, rateVars, index, routeVars, panicked, fresh, endVars>>

\* The lookup under the read lock.
RateLookup(t) ==
  /\ pc[t] = "Rate"
  /\ rec' = [rec EXCEPT ![t] = state[StreamOf[msg[t]]]]
  /\ Goto(t, IF state[StreamOf[msg[t]]] = 0 THEN "create" ELSE "check")
  /\ UNCHANGED <<conf, msg, sampleVars, state, made, counter, old, granted, ticks, index,
                 routeVars, panicked, fresh, passed, endVars>>

\* The record is made under the write lock, whatever has been stored since the lookup.
RateCreate(t) ==
  /\ pc[t] = "create"
  /\ made' = made + 1
  /\ state' = [state EXCEPT ![StreamOf[msg[t]]] = made + 1]
  /\ rec' = [rec EXCEPT ![t] = made + 1]
  /\ Goto(t, "check")
  /\ UNCHANGED <<conf, msg, sampleVars, counter, old, granted, ticks, index,
                 routeVars, panicked, fresh, passed, endVars>>

RateCheck(t) ==
  /\ pc[t] = "check"
  /\ Goto(t, IF old[rec[t]] THEN "reset" ELSE "count")
  /\ UNCHANGED <<conf, msg, sampleVars, rateVars, index, routeVars, panicked, fresh, passed, endVars>>

\* lastReset is set first, and the counter is set to zero later.
RateReset(t) ==
  /\ pc[t] = "reset"
  /\ old' = [old EXCEPT ![rec[t]] = FALSE]
  /\ Goto(t, "swap")
  /\ UNCHANGED <<conf, msg, sampleVars, state, made, counter, rec, granted, ticks, index,
                 routeVars, panicked, fresh, passed, endVars>>

RateSwap(t) ==
  /\ pc[t] = "swap"
  /\ counter' = [counter EXCEPT ![rec[t]] = 0]
  /\ granted' = [granted EXCEPT ![rec[t]] = 0]
  /\ Goto(t, "count")
  /\ UNCHANGED <<conf, msg, sampleVars, state, made, old, rec, ticks, index,
                 routeVars, panicked, fresh, passed, endVars>>

\* Mutant: the limit is compared with what the counter was before.
WithinLimit_Before(n) == n - 1 <= Limit
WithinLimit(n) == n <= Limit

RateCount(t) ==
  LET accepts == WithinLimit(counter[rec[t]] + 1)
  IN /\ pc[t] = "count"
     /\ counter' = [counter EXCEPT ![rec[t]] = @ + 1]
     /\ Decide(t, accepts)
     /\ granted' = IF accepts THEN [granted EXCEPT ![rec[t]] = @ + 1] ELSE granted
     /\ UNCHANGED <<conf, msg, sampleVars, state, made, old, rec, ticks, index,
                    routeVars, panicked, fresh, endVars>>

\* More than a second passes.
Tick ==
  /\ ticks < MaxTicks
  /\ ticks' = ticks + 1
  /\ old' = [r \in Records |-> r <= made]
  /\ UNCHANGED <<conf, pc, msg, sampleVars, state, made, counter, rec, granted, index,
                 routeVars, panicked, fresh, passed, endVars>>

\* Mutant: the message is dropped and accepted.
Limited_Accepts(t) ==
  /\ pc[t] = "limited"
  /\ dropped' = IF DropsTo THEN [dropped EXCEPT ![msg[t]] = @ + 1] ELSE dropped
  /\ Goto(t, "accepted")
  /\ UNCHANGED <<conf, msg, sampleVars, rateVars, index, routeVars, panicked, fresh, passed,
                 sent, filtered, unrouted>>
\* A message that is over a limit goes to the stream of the filter before Accepts returns.
Limited(t) ==
  /\ pc[t] = "limited"
  /\ dropped' = IF DropsTo THEN [dropped EXCEPT ![msg[t]] = @ + 1] ELSE dropped
  /\ Goto(t, "filtered")
  /\ UNCHANGED <<conf, msg, sampleVars, rateVars, index, routeVars, panicked, fresh, passed,
                 sent, filtered, unrouted>>

\* CountFilteredMessage; Enqueue of a route stream does not call it.
Filtered(t) ==
  /\ pc[t] = "filtered"
  /\ filtered' = IF conf.stream = "Route" THEN filtered ELSE filtered \cup {msg[t]}
  /\ Goto(t, "idle") /\ msg' = [msg EXCEPT ![t] = NoMessage]
  /\ UNCHANGED <<conf, sampleVars, rateVars, index, routeVars, panicked, fresh, passed,
                 sent, dropped, unrouted>>

-----------------------------------------------------------------------------
(* Streams *)

Deliver(m, targets) ==
  sent' = [sent EXCEPT ![m] = [x \in Targets |-> IF x \in targets THEN @[x] + 1 ELSE @[x]]]
Return(t) == Goto(t, "idle") /\ msg' = [msg EXCEPT ![t] = NoMessage]

\* Route of the stream base without producers.
NoProducers(t) ==
  /\ pc[t] = "accepted" /\ conf.stream # "Route" /\ conf.producers = <<>>
  /\ unrouted' = unrouted \cup {msg[t]}
  /\ Return(t)
  /\ UNCHANGED <<conf, sampleVars, rateVars, index, routeVars, panicked, fresh, passed,
                 sent, dropped, filtered>>

Broadcast(t) ==
  /\ pc[t] = "accepted" /\ conf.stream = "Broadcast" /\ conf.producers # <<>>
  /\ Deliver(msg[t], Range(conf.producers))
  /\ Return(t)
  /\ UNCHANGED <<conf, sampleVars, rateVars, index, routeVars, panicked, fresh, passed,
                 dropped, filtered, unrouted>>

Random(t) ==
  /\ pc[t] = "accepted" /\ conf.stream = "Random" /\ conf.producers # <<>>
  /\ \E n \in DOMAIN conf.producers : Deliver(msg[t], {conf.producers[n]})
  /\ Return(t)
  /\ UNCHANGED <<conf, sampleVars, rateVars, index, routeVars, panicked, fresh, passed,
                 dropped, filtered, unrouted>>

\* Mutant: every second producer.
NextIndex_Skips(n) == IF n + 2 > conf.max THEN 0 ELSE n + 2
\* AddInt32 wraps around to the smallest number.
NextIndex(n) == IF n = conf.max THEN -conf.max - 1 ELSE n + 1

\* The remainder of a negative number is not positive; a negative one is no index.
RoundRobin(t) ==
  LET n == NextIndex(index)
      zero == n < 0 /\ (-n) % Len(conf.producers) = 0
  IN /\ pc[t] = "accepted" /\ conf.stream = "RoundRobin" /\ conf.producers # <<>>
     /\ index' = n
     /\ IF n < 0 /\ ~zero
          THEN panicked' = panicked \cup {t} /\ UNCHANGED sent
          ELSE /\ Deliver(msg[t], {conf.producers[IF n < 0 THEN 1 ELSE (n % Len(conf.producers)) + 1]})
               /\ UNCHANGED panicked
     /\ Return(t)
     /\ UNCHANGED <<conf, sampleVars, rateVars, routeVars, fresh, passed, dropped, filtered, unrouted>>

\* routeMessage: the condition of the loop.
RouteLoop(t) ==
  /\ \/ pc[t] = "accepted" /\ conf.stream = "Route" /\ i' = [i EXCEPT ![t] = 1]
     \/ pc[t] = "loop" /\ UNCHANGED i
  /\ Goto(t, IF i'[t] <= size THEN "read" ELSE "routed")
  /\ UNCHANGED <<conf, msg, sampleVars, rateVars, index, routes, size, registered, target, lastIdx,
                 panicked, fresh, passed, endVars>>

\* A goroutine that uses an index out of range is gone.
Panic(t) ==
  /\ panicked' = panicked \cup {t} /\ Return(t)
  /\ UNCHANGED <<conf, sampleVars, rateVars, index, routeVars, fresh, passed, endVars>>

RouteRead(t) ==
  /\ pc[t] = "read"
  /\ IF i[t] > size THEN Panic(t)
     ELSE /\ target' = [target EXCEPT ![t] = routes[i[t]]]
          /\ Goto(t, IF routes[i[t]] \in conf.bound THEN "send" ELSE "bind")
          /\ UNCHANGED <<conf, msg, sampleVars, rateVars, index, routes, size, registered, i, lastIdx,
                         panicked, fresh, passed, endVars>>

\* Late binding; the stream is not stored in the list of routes.
RouteBind(t) ==
  /\ pc[t] = "bind"
  /\ registered' = IF WildcardProducers THEN registered \cup {target[t]} ELSE registered
  /\ Goto(t, IF target[t] \in registered' THEN "send" ELSE "remove")
  /\ UNCHANGED <<conf, msg, sampleVars, rateVars, index, routes, size, i, target, lastIdx,
                 panicked, fresh, passed, endVars>>

\* A route without a stream is replaced by the last one, in three steps.
RouteRemove(t) ==
  /\ pc[t] = "remove"
  /\ lastIdx' = [lastIdx EXCEPT ![t] = size]
  /\ Goto(t, "replace")
  /\ UNCHANGED <<conf, msg, sampleVars, rateVars, index, routes, size, registered, i, target,
                 panicked, fresh, passed, endVars>>
\* Mutant: the route that is removed is not replaced.
Replaced_Nothing(list, n, last) == list
Replaced(list, n, last) == [list EXCEPT ![n] = list[last]]
RouteReplace(t) ==
  /\ pc[t] = "replace"
  /\ IF i[t] > size \/ lastIdx[t] > size \/ lastIdx[t] = 0 THEN Panic(t)
     ELSE /\ routes' = Replaced(routes, i[t], lastIdx[t])
          /\ Goto(t, "truncate")
          /\ UNCHANGED <<conf, msg, sampleVars, rateVars, index, size, registered, i, target, lastIdx,
                         panicked, fresh, passed, endVars>>
RouteTruncate(t) ==
  /\ pc[t] = "truncate"
  /\ size' = lastIdx[t] - 1
  /\ Goto(t, "loop")
  /\ UNCHANGED <<conf, msg, sampleVars, rateVars, index, routes, registered, i, target, lastIdx,
                 panicked, fresh, passed, endVars>>

RouteSend(t) ==
  /\ pc[t] = "send"
  /\ Deliver(msg[t], {target[t]})
  /\ i' = [i EXCEPT ![t] = @ + 1]
  /\ Goto(t, "loop")
  /\ UNCHANGED <<conf, msg, sampleVars, rateVars, index, routes, size, registered, target, lastIdx,
                 panicked, fresh, passed, dropped, filtered, unrouted>>

\* The end of Enqueue of a route stream.
Routed(t) ==
  /\ pc[t] = "routed"
  /\ unrouted' = IF size = 0 THEN unrouted \cup {msg[t]} ELSE unrouted
  /\ Return(t)
  /\ UNCHANGED <<conf, sampleVars, rateVars, index, routeVars, panicked, fresh, passed,
                 sent, dropped, filtered>>

Next ==
  \/ Tick
  \/ \E t \in conf.threads :
       \/ \E m \in Messages : Enqueue(t, m)
       \/ SampleAdd(t) \/ SampleSubtract(t)
       \/ RateLookup(t) \/ RateCreate(t) \/ RateCheck(t) \/ RateReset(t) \/ RateSwap(t) \/ RateCount(t)
       \/ Limited(t) \/ Filtered(t)
       \/ NoProducers(t) \/ Broadcast(t) \/ Random(t) \/ RoundRobin(t)
       \/ RouteLoop(t) \/ RouteRead(t) \/ RouteBind(t) \/ RouteRemove(t) \/ RouteReplace(t)
       \/ RouteTruncate(t) \/ RouteSend(t) \/ Routed(t)

Spec == Init /\ [][Next]_vars

-----------------------------------------------------------------------------
(* Properties *)

\* Sample lets a message pass only if it is one of the first SampleRate messages of its
\* group, in the order in which messages came to the counter, however the two steps of the
\* counter interleave; and the counter stays small if a group has more than one message.
SampleKeepsTurns ==
  /\ \A m \in passed : ticket[m] > 0 => (ticket[m] - 1) % Group < SampleRate
  /\ Group > 1 => 0 <= count /\ count <= Group * (Cardinality(Threads) + 1)

\* Between two resets of a counter Rate lets no more than Limit messages pass; in the first
\* second of a stream, when goroutines may replace the record another one has made, no more
\* than that for each goroutine.
RateHolds ==
  /\ \A r \in Records : granted[r] <= Limit
  /\ conf.filter = "Rate" /\ ticks = 0 =>
       \A s \in Streams \ Ignored :
         Cardinality({m \in passed : StreamOf[m] = s}) <= Limit * Cardinality(conf.threads)

\* A message in flight, or one that a panic has taken.
Underway(m) == m \in fresh \/ \E t \in Threads : msg[t] = m

\* Every message that is done has been sent, or rejected, or counted as unrouted: never
\* sent and dropped, never sent to a producer twice, and dropped at most once.
EndsOnce ==
  \A m \in Messages :
    /\ dropped[m] <= 1
    /\ dropped[m] = 1 => \A x \in Targets : sent[m][x] = 0
    /\ conf.stream # "Route" /\ ~Underway(m) /\ panicked = {} =>
         LET taken == {x \in Targets : sent[m][x] > 0}
         IN IF m \in filtered \cup unrouted THEN taken = {}
            ELSE IF conf.stream = "Broadcast" THEN taken = Range(conf.producers) ELSE Cardinality(taken) = 1

\* A route stream sends a message once to every route that exists, and to no other, even if
\* routes are removed on the way: as long as one goroutine uses it, or all routes existed
\* when it was configured.
RoutesAreKept ==
  conf.stream = "Route" /\ (Cardinality(conf.threads) = 1 \/ Range(Routes) \subseteq conf.bound) =>
    /\ panicked = {}
    /\ \A m \in Messages : \A x \in Targets : sent[m][x] <= 1
    /\ \A m \in passed : ~Underway(m) =>
         \A x \in Targets : sent[m][x] = IF x \in registered \cap Range(Routes) THEN 1 ELSE 0

\* Until its index wraps around, RoundRobin treats producers alike: none of them is ahead of
\* another by more than one message, whoever enqueues.
RoundRobinIsFair ==
  LET Got(x) == Cardinality({m \in Messages : sent[m][x] > 0})
  IN conf.stream = "RoundRobin" /\ index >= 0 /\ panicked = {} =>
       \A x, y \in Range(conf.producers) : Got(x) - Got(y) \in {-1, 0, 1}
=============================================================================
