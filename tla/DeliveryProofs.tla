--------------------------- MODULE DeliveryProofs ---------------------------
(***************************************************************************)
(* What happens to a message between a consumer and the producers, proved  *)
(* for any number of goroutines, messages, producers and routes.           *)
(***************************************************************************)
EXTENDS Delivery, FiniteSetTheorems, TLAPS

-----------------------------------------------------------------------------
(* The way of a message through Enqueue *)

Counting == {"Rate", "create", "check", "reset", "swap", "count", "Sample", "subtract"}
Before == Counting \cup {"accepted", "limited"}
Routing == {"loop", "read", "bind", "send", "remove", "replace", "truncate", "routed"}
Labels == {"idle", "filtered"} \cup Before \cup Routing

FlowTypes ==
  /\ conf \in Confs
  /\ pc \in [Threads -> Labels] /\ msg \in [Threads -> Messages \cup {NoMessage}]
  /\ fresh \subseteq Messages

\* A goroutine has a message until it returns, and no message has two goroutines.
FlowInv ==
  /\ FlowTypes
  /\ \A t \in Threads : pc[t] = "idle" <=> msg[t] = NoMessage
  /\ \A t \in Threads : msg[t] \notin fresh
  /\ \A t, u \in Threads : msg[t] = msg[u] /\ msg[t] # NoMessage => t = u

\* The steps of a goroutine, as far as they concern the way of its message.
Moves(t) ==
  /\ pc[t] \in Before \cup Routing
  /\ \E l \in Before \cup Routing : /\ pc[t] \in Routing => l \in Routing
                                    /\ l \in Routing => pc[t] \in Routing \/ conf.stream = "Route"
                                    /\ Goto(t, l)
  /\ UNCHANGED <<conf, msg, fresh, panicked, endVars>>

\* Such a step, or one that drops or sends the message on the way.
Walks(t) ==
  /\ pc[t] \in Before \cup Routing
  /\ \E l \in Labels \ {"idle"} : Goto(t, l)
  /\ UNCHANGED <<conf, msg, fresh, panicked, filtered, unrouted>>

Leaves(t) ==
  /\ pc[t] # "idle" /\ Return(t)
  /\ UNCHANGED <<conf, fresh>>
  /\ \A m \in Messages \ {msg[t]} :
       /\ sent'[m] = sent[m] /\ dropped'[m] = dropped[m]
       /\ m \in filtered' <=> m \in filtered
       /\ m \in unrouted' <=> m \in unrouted

EndTypes ==
  /\ sent \in [Messages -> [Targets -> Nat]] /\ dropped \in [Messages -> Nat]

\* What the assumption says of a combination.
LEMMA ConfTypes ==
  ASSUME conf \in Confs
  PROVE  /\ conf.filter \in {"static", "Rate", "Sample"}
         /\ conf.stream \in {"Broadcast", "Random", "RoundRobin", "Route"}
         /\ conf.threads \subseteq Threads /\ conf.producers \in Seq(Producers)
         /\ conf.bound \subseteq Range(Routes) /\ conf.max \in Nat
BY DeliveryAssumption

\* Which of these shapes a step has.
LEMMA CountingMoves ==
  ASSUME NEW t, \/ SampleAdd(t) \/ SampleSubtract(t)
                \/ RateLookup(t) \/ RateCreate(t) \/ RateCheck(t) \/ RateReset(t) \/ RateSwap(t) \/ RateCount(t)
  PROVE  Moves(t)
<1>1. pc[t] \in Counting
  BY DEF Counting, SampleAdd, SampleSubtract, RateLookup, RateCreate, RateCheck, RateReset, RateSwap, RateCount
<1>2. UNCHANGED <<conf, msg, fresh, panicked, endVars>>
  <2>1. CASE SampleAdd(t)
    BY <2>1 DEF SampleAdd
  <2>2. CASE SampleSubtract(t)
    BY <2>2 DEF SampleSubtract
  <2>3. CASE RateLookup(t)
    BY <2>3 DEF RateLookup
  <2>4. CASE RateCreate(t)
    BY <2>4 DEF RateCreate
  <2>5. CASE RateCheck(t)
    BY <2>5 DEF RateCheck
  <2>6. CASE RateReset(t)
    BY <2>6 DEF RateReset
  <2>7. CASE RateSwap(t)
    BY <2>7 DEF RateSwap
  <2>8. CASE RateCount(t)
    BY <2>8 DEF RateCount
  <2> QED
    BY <2>1, <2>2, <2>3, <2>4, <2>5, <2>6, <2>7, <2>8
<1>3. \E l \in Before : Goto(t, l)
  <2>1. CASE SampleAdd(t)
    BY <2>1 DEF SampleAdd, Decide, Before, Counting
  <2>2. CASE SampleSubtract(t)
    BY <2>2 DEF SampleSubtract, Decide, Before, Counting
  <2>3. CASE RateLookup(t)
    BY <2>3 DEF RateLookup, Before, Counting
  <2>4. CASE RateCreate(t)
    BY <2>4 DEF RateCreate, Before, Counting
  <2>5. CASE RateCheck(t)
    BY <2>5 DEF RateCheck, Before, Counting
  <2>6. CASE RateReset(t)
    BY <2>6 DEF RateReset, Before, Counting
  <2>7. CASE RateSwap(t)
    BY <2>7 DEF RateSwap, Before, Counting
  <2>8. CASE RateCount(t)
    BY <2>8 DEF RateCount, Decide, Before, Counting
  <2> QED
    BY <2>1, <2>2, <2>3, <2>4, <2>5, <2>6, <2>7, <2>8
<1> QED
  BY <1>1, <1>2, <1>3 DEF Moves, Labels, Before, Counting, Routing

\* The same for routeMessage, as long as it does not send, and does not panic.
LEMMA RoutingMoves ==
  ASSUME NEW t, \/ RouteLoop(t) \/ RouteBind(t) \/ RouteRemove(t) \/ RouteTruncate(t)
                \/ RouteRead(t) /\ ~(i[t] > size)
                \/ RouteReplace(t) /\ ~(i[t] > size \/ lastIdx[t] > size \/ lastIdx[t] = 0)
  PROVE  Moves(t)
<1> USE DEF Moves, Goto, Before, Routing, Labels, endVars
<1>1. CASE RouteLoop(t)
  BY <1>1 DEF RouteLoop
<1>2. CASE RouteBind(t)
  BY <1>2 DEF RouteBind
<1>3. CASE RouteRemove(t)
  BY <1>3 DEF RouteRemove
<1>4. CASE RouteTruncate(t)
  BY <1>4 DEF RouteTruncate
<1>5. CASE RouteRead(t) /\ ~(i[t] > size)
  BY <1>5 DEF RouteRead
<1>6. CASE RouteReplace(t) /\ ~(i[t] > size \/ lastIdx[t] > size \/ lastIdx[t] = 0)
  BY <1>6 DEF RouteReplace
<1> QED
  BY <1>1, <1>2, <1>3, <1>4, <1>5, <1>6

\* These shapes are nested,
LEMMA MovesWalks ==
  ASSUME NEW t, Moves(t)
  PROVE  Walks(t)
BY DEF Moves, Walks, Labels, Before, Counting, Routing, endVars

\* and the steps that drop or send belong to the wider one.
LEMMA DropsAndSendsWalk ==
  ASSUME NEW t, Limited(t) \/ RouteSend(t)
  PROVE  Walks(t)
<1>1. CASE Limited(t)
  BY <1>1 DEF Limited, Walks, Labels, Before
<1>2. CASE RouteSend(t)
  BY <1>2 DEF RouteSend, Walks, Labels, Routing
<1> QED
  BY <1>1, <1>2

Leaving(t) ==
  \/ Filtered(t) \/ NoProducers(t) \/ Broadcast(t) \/ Random(t) \/ RoundRobin(t) \/ Routed(t)
  \/ RouteRead(t) /\ i[t] > size
  \/ RouteReplace(t) /\ (i[t] > size \/ lastIdx[t] > size \/ lastIdx[t] = 0)

\* A goroutine that returns touches no message but its own.
LEMMA LeavingLeaves ==
  ASSUME NEW t, EndTypes, Leaving(t)
  PROVE  Leaves(t)
<1> USE DEF Leaves
<1>1. CASE Filtered(t)
  BY <1>1 DEF Filtered, Return
<1>2. CASE NoProducers(t)
  BY <1>2 DEF NoProducers
<1>3. CASE Broadcast(t)
  BY <1>3 DEF Broadcast, Deliver, EndTypes
<1>4. CASE Random(t)
  BY <1>4 DEF Random, Deliver, EndTypes
<1>5. CASE RoundRobin(t)
  BY <1>5 DEF RoundRobin, Deliver, EndTypes
<1>6. CASE Routed(t)
  BY <1>6 DEF Routed
<1>7. CASE RouteRead(t) /\ i[t] > size
  BY <1>7 DEF RouteRead, Panic, endVars
<1>8. CASE RouteReplace(t) /\ (i[t] > size \/ lastIdx[t] > size \/ lastIdx[t] = 0)
  BY <1>8 DEF RouteReplace, Panic, endVars
<1> QED
  BY <1>1, <1>2, <1>3, <1>4, <1>5, <1>6, <1>7, <1>8 DEF Leaving

\* Every step has one of these shapes.
LEMMA Shapes ==
  ASSUME [Next]_vars, EndTypes
  PROVE  \/ Tick \/ UNCHANGED vars
         \/ \E t \in conf.threads, m \in Messages : Enqueue(t, m)
         \/ \E t \in conf.threads : Moves(t) \/ Limited(t) \/ RouteSend(t) \/ (Leaving(t) /\ Leaves(t))
<1>1. ASSUME NEW t \in conf.threads, ~Moves(t), ~Limited(t), ~RouteSend(t), ~Leaving(t),
             ~\E m \in Messages : Enqueue(t, m),
             \/ \E m \in Messages : Enqueue(t, m)
             \/ SampleAdd(t) \/ SampleSubtract(t)
             \/ RateLookup(t) \/ RateCreate(t) \/ RateCheck(t) \/ RateReset(t) \/ RateSwap(t) \/ RateCount(t)
             \/ Limited(t) \/ Filtered(t)
             \/ NoProducers(t) \/ Broadcast(t) \/ Random(t) \/ RoundRobin(t)
             \/ RouteLoop(t) \/ RouteRead(t) \/ RouteBind(t) \/ RouteRemove(t) \/ RouteReplace(t)
             \/ RouteTruncate(t) \/ RouteSend(t) \/ Routed(t)
      PROVE  FALSE
  <2>1. \/ RouteLoop(t) \/ RouteBind(t) \/ RouteRemove(t) \/ RouteTruncate(t) \/ RouteRead(t) \/ RouteReplace(t)
    BY <1>1, CountingMoves, Zenon DEF Leaving
  <2> QED
    BY <1>1, <2>1, RoutingMoves, Zenon DEF Leaving
<1> QED
  BY <1>1, LeavingLeaves, Zenon DEF Next

\* The steps of a goroutine keep the way of its message.
LEMMA FlowKept ==
  ASSUME FlowInv, EndTypes, [Next]_vars
  PROVE  FlowInv'
<1>1. CASE Tick \/ UNCHANGED vars
  BY <1>1 DEF Tick, vars, FlowInv, FlowTypes
<1>2. ASSUME NEW t \in conf.threads, NEW m \in Messages, Enqueue(t, m) PROVE FlowInv'
  <2>1. /\ pc[t] = "idle" /\ m \in fresh /\ msg' = [msg EXCEPT ![t] = m] /\ fresh' = fresh \ {m}
        /\ conf' = conf
        /\ \E l \in {"filtered", "accepted", "Rate", "Sample"} : pc' = [pc EXCEPT ![t] = l]
    <3>1. conf.filter \in {"static", "Rate", "Sample"}
      BY ConfTypes DEF FlowInv, FlowTypes
    <3> QED
      BY <1>2, <3>1 DEF Enqueue, Goto
  <2>2. t \in Threads
    BY ConfTypes DEF FlowInv, FlowTypes
  <2>3. FlowTypes'
    BY <2>1, <2>2 DEF FlowInv, FlowTypes, Labels, Before, Counting
  <2>4. \A u \in Threads : msg[u] # m
    BY <2>1 DEF FlowInv
  <2>5. m # NoMessage
    BY DeliveryAssumption
  <2>6. \A u \in Threads : /\ msg'[u] = IF u = t THEN m ELSE msg[u]
                           /\ u # t => pc'[u] = pc[u]
                           /\ pc'[t] # "idle"
    BY <2>1, <2>2 DEF FlowInv, FlowTypes
  <2> QED
    BY <2>1, <2>2, <2>3, <2>4, <2>5, <2>6 DEF FlowInv
<1>3. ASSUME NEW t \in conf.threads, Walks(t) PROVE FlowInv'
  <2>1. PICK l \in Labels \ {"idle"} : pc' = [pc EXCEPT ![t] = l]
    BY <1>3 DEF Walks, Goto
  <2>2. t \in Threads /\ pc[t] # "idle" /\ UNCHANGED <<conf, msg, fresh>>
    BY <1>3, ConfTypes DEF FlowInv, FlowTypes, Walks, Before, Counting, Routing
  <2>3. FlowTypes'
    BY <2>1, <2>2 DEF FlowInv, FlowTypes
  <2>4. \A u \in Threads : pc'[u] = "idle" <=> pc[u] = "idle"
    BY <2>1, <2>2 DEF FlowInv, FlowTypes
  <2> QED
    BY <2>2, <2>3, <2>4 DEF FlowInv
<1>4. ASSUME NEW t \in conf.threads, Leaves(t) PROVE FlowInv'
  <2>1. /\ pc' = [pc EXCEPT ![t] = "idle"] /\ msg' = [msg EXCEPT ![t] = NoMessage]
        /\ UNCHANGED <<conf, fresh>>
    BY <1>4 DEF Leaves, Return, Goto
  <2>2. t \in Threads
    BY ConfTypes DEF FlowInv, FlowTypes
  <2>3. FlowTypes'
    BY <2>1, <2>2 DEF FlowInv, FlowTypes, Labels
  <2>4. NoMessage \notin fresh
    BY DeliveryAssumption DEF FlowInv, FlowTypes
  <2>5. \A u \in Threads : /\ msg'[u] = IF u = t THEN NoMessage ELSE msg[u]
                           /\ pc'[u] = IF u = t THEN "idle" ELSE pc[u]
    BY <2>1, <2>2 DEF FlowInv, FlowTypes
  <2> QED
    BY <2>1, <2>2, <2>3, <2>4, <2>5 DEF FlowInv
<1> QED
  BY <1>1, <1>2, <1>3, <1>4, Shapes, MovesWalks, DropsAndSendsWalk, Zenon

\* The remainder of a division.
LEMMA Remainder ==
  ASSUME NEW n \in Int, NEW g \in Nat \ {0}
  PROVE  n % g \in 0 .. g - 1
OBVIOUS

-----------------------------------------------------------------------------
(* Every message ends once *)

Unsent(m) == \A x \in Targets : sent[m][x] = 0
Untouched(m) == Unsent(m) /\ dropped[m] = 0 /\ m \notin filtered /\ m \notin unrouted

\* What the streams without routes promise about a message that is done.
Settled(m) ==
  LET taken == {x \in Targets : sent[m][x] > 0}
  IN IF m \in filtered \cup unrouted THEN taken = {}
     ELSE IF conf.stream = "Broadcast" THEN taken = Range(conf.producers) ELSE Cardinality(taken) = 1

\* The inductive invariant: a message on its way is untouched until it is decided about.
EndsInv ==
  /\ EndTypes
  /\ \A m \in fresh : Untouched(m)
  /\ \A t \in Threads :
       /\ pc[t] \in Before => Untouched(msg[t])
       /\ pc[t] = "filtered" => Unsent(msg[t]) /\ dropped[msg[t]] <= 1
                                /\ msg[t] \notin filtered /\ msg[t] \notin unrouted
       /\ pc[t] \in Routing => dropped[msg[t]] = 0 /\ conf.stream = "Route"
  /\ \A m \in Messages : dropped[m] <= 1 /\ (dropped[m] = 1 => Unsent(m))
  /\ conf.stream # "Route" /\ panicked = {} => \A m \in Messages : ~Underway(m) => Settled(m)

\* A goroutine inside Enqueue has a message.
LEMMA MessageOf ==
  ASSUME FlowInv, NEW t \in conf.threads, pc[t] # "idle"
  PROVE  t \in Threads /\ msg[t] \in Messages /\ Underway(msg[t])
BY ConfTypes DEF FlowInv, FlowTypes, Underway

\* How the parts of the invariant survive each shape of a step.  A message that only moves
\* stays untouched.
LEMMA EndsUnderMoves ==
  ASSUME FlowInv, FlowInv', EndsInv, NEW t \in conf.threads, Moves(t)
  PROVE  EndsInv'
<1>1. PICK l \in Before \cup Routing : /\ pc[t] \in Routing => l \in Routing
                                       /\ l \in Routing => pc[t] \in Routing \/ conf.stream = "Route"
                                       /\ pc' = [pc EXCEPT ![t] = l]
  BY DEF Moves, Goto
<1>2. pc[t] \in Before \cup Routing /\ UNCHANGED <<conf, msg, fresh, panicked, sent, dropped, filtered, unrouted>>
  BY DEF Moves, endVars
<1>3. t \in Threads /\ \A u \in Threads : pc'[u] = IF u = t THEN l ELSE pc[u]
  BY <1>1, ConfTypes DEF FlowInv, FlowTypes
<1>4. \A m : (Untouched(m)' <=> Untouched(m)) /\ (Unsent(m)' <=> Unsent(m)) /\ (Settled(m)' <=> Settled(m))
             /\ (Underway(m)' <=> Underway(m))
  BY <1>2 DEF Untouched, Unsent, Settled, Underway
<1>5. l \in Before => pc[t] \in Before
  BY <1>1, <1>2 DEF Before, Counting, Routing
<1>6. ASSUME NEW u \in Threads
      PROVE  /\ pc'[u] \in Before => Untouched(msg[u])
             /\ pc'[u] = "filtered" => Unsent(msg[u]) /\ dropped[msg[u]] <= 1
                                /\ msg[u] \notin filtered /\ msg[u] \notin unrouted
             /\ pc'[u] \in Routing => dropped[msg[u]] = 0 /\ conf.stream = "Route"
  <2>1. CASE u # t
    BY <1>3, <2>1 DEF EndsInv
  <2>2. CASE u = t
    <3>1. l # "filtered"
      BY DEF Before, Counting, Routing
    <3>2. l \in Routing => dropped[msg[t]] = 0
      BY <1>2, <1>3 DEF EndsInv, Untouched
    <3>3. l \in Routing => conf.stream = "Route"
      BY <1>1, <1>3 DEF EndsInv
    <3>4. l \in Before => Untouched(msg[t])
      BY <1>3, <1>5 DEF EndsInv
    <3> QED
      BY <1>3, <2>2, <3>1, <3>2, <3>3, <3>4
  <2> QED
    BY <2>1, <2>2
<1>7. EndTypes'
  BY <1>2 DEF EndsInv, EndTypes
<1> QED
  BY <1>2, <1>4, <1>6, <1>7 DEF EndsInv

\* A message that enters is untouched.
LEMMA EndsUnderEnqueue ==
  ASSUME FlowInv, FlowInv', EndsInv, NEW t \in conf.threads, NEW m \in Messages, Enqueue(t, m)
  PROVE  EndsInv'
<1>1. /\ m \in fresh /\ msg' = [msg EXCEPT ![t] = m] /\ fresh' = fresh \ {m} /\ pc[t] = "idle"
      /\ UNCHANGED <<conf, panicked, sent, dropped, filtered, unrouted>>
  BY DEF Enqueue, endVars
<1>2. \E l \in {"filtered", "accepted", "Rate", "Sample"} : pc' = [pc EXCEPT ![t] = l]
  <2>1. conf.filter \in {"static", "Rate", "Sample"}
    BY ConfTypes DEF FlowInv, FlowTypes
  <2> QED
    BY <2>1 DEF Enqueue, Goto
<1>3. PICK l \in {"filtered", "accepted", "Rate", "Sample"} : pc' = [pc EXCEPT ![t] = l]
  BY <1>2
<1>4. t \in Threads /\ \A u \in Threads : /\ pc'[u] = IF u = t THEN l ELSE pc[u]
                                         /\ msg'[u] = IF u = t THEN m ELSE msg[u]
  BY <1>1, <1>3, ConfTypes DEF FlowInv, FlowTypes
<1>5. \A k : (Untouched(k)' <=> Untouched(k)) /\ (Unsent(k)' <=> Unsent(k)) /\ (Settled(k)' <=> Settled(k))
  BY <1>1 DEF Untouched, Unsent, Settled
<1>6. \A k \in Messages : Underway(k)' <=> Underway(k)
  <2>1. msg[t] \notin Messages
    BY <1>1, <1>4, DeliveryAssumption DEF FlowInv
  <2> QED
    BY <1>1, <1>4, <2>1 DEF Underway
<1>7. Untouched(m)
  BY <1>1 DEF EndsInv
<1>8. ASSUME NEW u \in Threads
      PROVE  /\ pc'[u] \in Before => Untouched(msg'[u])
             /\ pc'[u] = "filtered" => Unsent(msg'[u]) /\ dropped[msg'[u]] <= 1
                                /\ msg'[u] \notin filtered /\ msg'[u] \notin unrouted
             /\ pc'[u] \in Routing => dropped[msg'[u]] = 0 /\ conf.stream = "Route"
  <2>1. CASE u # t
    BY <1>4, <2>1 DEF EndsInv
  <2>2. CASE u = t
    <3>1. l \notin Routing
      BY DEF Routing
    <3>2. Unsent(m) /\ dropped[m] <= 1 /\ m \notin filtered /\ m \notin unrouted
      BY <1>7 DEF Untouched
    <3> QED
      BY <1>4, <1>7, <2>2, <3>1, <3>2
  <2> QED
    BY <2>1, <2>2
<1>9. EndTypes'
  BY <1>1 DEF EndsInv, EndTypes
<1> QED
  BY <1>1, <1>5, <1>6, <1>8, <1>9 DEF EndsInv

\* A message is dropped once, and was not sent before.
LEMMA EndsUnderLimited ==
  ASSUME FlowInv, FlowInv', EndsInv, NEW t \in conf.threads, Limited(t)
  PROVE  EndsInv'
<1> DEFINE m == msg[t]
<1>1. /\ pc[t] = "limited" /\ pc' = [pc EXCEPT ![t] = "filtered"]
      /\ dropped' = (IF DropsTo THEN [dropped EXCEPT ![m] = @ + 1] ELSE dropped)
      /\ UNCHANGED <<conf, msg, fresh, panicked, sent, filtered, unrouted>>
  BY DEF Limited, Goto
<1>2. t \in Threads /\ m \in Messages /\ Underway(m)
  BY <1>1, MessageOf
<1>3. Untouched(m)
  BY <1>1, <1>2 DEF EndsInv, Before
<1>4. dropped'[m] \in {0, 1} /\ \A k \in Messages \ {m} : dropped'[k] = dropped[k]
  BY <1>1, <1>2, <1>3 DEF EndsInv, EndTypes, Untouched
<1>5. EndTypes'
  BY <1>1, <1>2 DEF EndsInv, EndTypes
<1>6. \A k : (Unsent(k)' <=> Unsent(k)) /\ (Settled(k)' <=> Settled(k)) /\ (Underway(k)' <=> Underway(k))
  BY <1>1 DEF Unsent, Settled, Underway
<1>7. \A k \in Messages \ {m} : Untouched(k)' <=> Untouched(k)
  BY <1>1, <1>4 DEF Untouched, Unsent
<1>8. \A u \in Threads : /\ pc'[u] = IF u = t THEN "filtered" ELSE pc[u]
                         /\ u # t /\ pc[u] # "idle" => msg[u] \in Messages \ {m}
  BY <1>1, <1>2 DEF FlowInv, FlowTypes
<1>9. ASSUME NEW u \in Threads
      PROVE  /\ pc'[u] \in Before => Untouched(msg[u])'
             /\ pc'[u] = "filtered" => Unsent(msg[u]) /\ dropped'[msg[u]] <= 1
                                /\ msg[u] \notin filtered /\ msg[u] \notin unrouted
             /\ pc'[u] \in Routing => dropped'[msg[u]] = 0 /\ conf.stream = "Route"
  <2>1. CASE u # t
    <3>1. pc'[u] = pc[u] /\ (pc[u] # "idle" => msg[u] \in Messages \ {m})
      BY <1>8, <2>1
    <3>2. "idle" \notin Before /\ "idle" \notin Routing
      BY DEF Before, Counting, Routing
    <3>3. pc[u] # "idle" => /\ dropped'[msg[u]] = dropped[msg[u]]
                            /\ Untouched(msg[u])' <=> Untouched(msg[u])
      BY <1>1, <1>4, <1>7, <3>1
    <3> QED
      BY <3>1, <3>2, <3>3 DEF EndsInv
  <2>2. CASE u = t
    <3>1. pc'[t] = "filtered" /\ "filtered" \notin Before /\ "filtered" \notin Routing
      BY <1>8, <2>2 DEF Before, Counting, Routing
    <3> QED
      BY <1>3, <1>4, <2>2, <3>1 DEF Untouched
  <2> QED
    BY <2>1, <2>2
<1>10. \A k \in Messages : dropped'[k] <= 1 /\ (dropped'[k] = 1 => Unsent(k))
  <2> TAKE k \in Messages
  <2>1. CASE k = m
    BY <1>3, <1>4, <2>1 DEF Untouched
  <2>2. CASE k # m
    BY <1>4, <2>2 DEF EndsInv
  <2> QED
    BY <2>1, <2>2
<1>11. \A k \in fresh : k \in Messages \ {m}
  BY <1>2 DEF FlowInv, FlowTypes
<1>12. \A k \in fresh : Untouched(k)'
  BY <1>7, <1>11 DEF EndsInv
<1> QED
  BY <1>1, <1>5, <1>6, <1>9, <1>10, <1>12 DEF EndsInv

\* A message on a route was not dropped.
LEMMA EndsUnderRouteSend ==
  ASSUME FlowInv, FlowInv', EndsInv, NEW t \in conf.threads, RouteSend(t)
  PROVE  EndsInv'
<1> DEFINE m == msg[t]
<1>1. /\ pc[t] = "send" /\ pc' = [pc EXCEPT ![t] = "loop"]
      /\ sent' = [sent EXCEPT ![m] = [x \in Targets |-> IF x = target[t] THEN @[x] + 1 ELSE @[x]]]
      /\ UNCHANGED <<conf, msg, fresh, panicked, dropped, filtered, unrouted>>
  BY DEF RouteSend, Goto, Deliver
<1>2. t \in Threads /\ m \in Messages /\ Underway(m)
  BY <1>1, MessageOf
<1>3. conf.stream = "Route" /\ dropped[m] = 0
  BY <1>1, <1>2 DEF EndsInv, Routing
<1>4. EndTypes' /\ \A k \in Messages \ {m} : sent'[k] = sent[k]
  BY <1>1, <1>2 DEF EndsInv, EndTypes
<1>5. \A k \in Messages \ {m} : (Unsent(k)' <=> Unsent(k)) /\ (Untouched(k)' <=> Untouched(k))
  BY <1>1, <1>4 DEF Unsent, Untouched
<1>6. \A u \in Threads : /\ pc'[u] = IF u = t THEN "loop" ELSE pc[u]
                         /\ u # t /\ pc[u] # "idle" => msg[u] \in Messages \ {m}
  BY <1>1, <1>2 DEF FlowInv, FlowTypes
<1>7. ASSUME NEW u \in Threads
      PROVE  /\ pc'[u] \in Before => Untouched(msg[u])'
             /\ pc'[u] = "filtered" => Unsent(msg[u])' /\ dropped[msg[u]] <= 1
                                /\ msg[u] \notin filtered /\ msg[u] \notin unrouted
             /\ pc'[u] \in Routing => dropped[msg[u]] = 0 /\ conf.stream = "Route"
  <2>1. CASE u # t
    <3>1. pc'[u] = pc[u] /\ (pc[u] # "idle" => msg[u] \in Messages \ {m})
      BY <1>6, <2>1
    <3>2. "idle" \notin Before /\ "idle" \notin Routing
      BY DEF Before, Counting, Routing
    <3>3. pc[u] # "idle" => /\ Unsent(msg[u])' <=> Unsent(msg[u])
                            /\ Untouched(msg[u])' <=> Untouched(msg[u])
      BY <1>1, <1>5, <3>1
    <3> QED
      BY <3>1, <3>2, <3>3 DEF EndsInv
  <2>2. CASE u = t
    <3>1. pc'[t] = "loop" /\ "loop" \notin Before
      BY <1>6, <2>2 DEF Before, Counting
    <3> QED
      BY <1>3, <2>2, <3>1
  <2> QED
    BY <2>1, <2>2
<1>8. \A k \in Messages : dropped'[k] <= 1 /\ (dropped'[k] = 1 => Unsent(k)')
  <2> TAKE k \in Messages
  <2>1. CASE k = m
    BY <1>1, <1>3, <2>1
  <2>2. CASE k # m
    BY <1>1, <1>5, <2>2 DEF EndsInv
  <2> QED
    BY <2>1, <2>2
<1>9. \A k \in fresh : k \in Messages \ {m}
  BY <1>2 DEF FlowInv, FlowTypes
<1>10. \A k \in fresh : Untouched(k)'
  BY <1>5, <1>9 DEF EndsInv
<1> QED
  BY <1>1, <1>3, <1>4, <1>7, <1>8, <1>10 DEF EndsInv

\* How a message ends when its goroutine returns.
LEMMA LeavingSettles ==
  ASSUME FlowInv, EndsInv, NEW t \in conf.threads, Leaving(t), Leaves(t),
         NEW m \in Messages, m = msg[t], index \in Int
  PROVE  /\ EndTypes' /\ panicked \subseteq panicked'
         /\ dropped' = dropped
         /\ dropped[m] = 1 => Unsent(m)'
         /\ conf.stream # "Route" /\ panicked' = {} => Settled(m)'
<1>1. t \in Threads /\ m \in Messages
  BY MessageOf DEF Leaves
<1>2. CASE Filtered(t)
  <2>1. pc[t] = "filtered" /\ UNCHANGED <<conf, sent, dropped, panicked, unrouted>>
        /\ (conf.stream # "Route" => filtered' = filtered \cup {m})
    BY <1>2 DEF Filtered
  <2>2. Unsent(m)
    BY <1>1, <2>1 DEF EndsInv
  <2>3. conf.stream # "Route" => Settled(m)'
    BY <2>1, <2>2 DEF Settled, Unsent
  <2> QED
    BY <2>1, <2>2, <2>3 DEF EndsInv, EndTypes, Unsent
<1>3. CASE NoProducers(t)
  <2>1. pc[t] = "accepted" /\ UNCHANGED <<conf, sent, dropped, panicked, filtered>> /\ unrouted' = unrouted \cup {m}
    BY <1>3 DEF NoProducers
  <2>2. Unsent(m)
    BY <1>1, <2>1 DEF EndsInv, Before, Untouched
  <2>3. Settled(m)'
    BY <2>1, <2>2 DEF Settled, Unsent
  <2> QED
    BY <2>1, <2>2, <2>3 DEF EndsInv, EndTypes, Unsent
<1>4. ASSUME NEW S \in SUBSET Targets, pc[t] = "accepted", Deliver(m, S),
             UNCHANGED <<conf, dropped, filtered, unrouted>>
      PROVE  /\ EndTypes' /\ dropped[m] = 0
             /\ {x \in Targets : sent'[m][x] > 0} = S /\ m \notin filtered' \cup unrouted'
  <2>1. Untouched(m)
    BY <1>1, <1>4 DEF EndsInv, Before
  <2>2. sent' = [sent EXCEPT ![m] = [x \in Targets |-> IF x \in S THEN sent[m][x] + 1 ELSE sent[m][x]]]
    BY <1>4 DEF Deliver
  <2>3. EndTypes' /\ \A x \in Targets : sent'[m][x] = IF x \in S THEN 1 ELSE 0
    BY <1>1, <1>4, <2>1, <2>2 DEF EndsInv, EndTypes, Untouched, Unsent
  <2> QED
    BY <1>4, <2>1, <2>3 DEF Untouched
<1>5. /\ conf.producers \in Seq(Producers) /\ Range(conf.producers) \subseteq Targets
      /\ \A n \in DOMAIN conf.producers : conf.producers[n] \in Targets
  BY ConfTypes DEF FlowInv, FlowTypes, Range, Targets
<1>6. CASE Broadcast(t)
  <2>1. pc[t] = "accepted" /\ Deliver(m, Range(conf.producers)) /\ conf.stream = "Broadcast"
        /\ UNCHANGED <<conf, dropped, filtered, unrouted, panicked>>
    BY <1>6 DEF Broadcast
  <2> QED
    BY <1>4, <1>5, <2>1 DEF Settled
<1>7. ASSUME NEW p \in Targets, pc[t] = "accepted", Deliver(m, {p}), conf.stream # "Broadcast",
             UNCHANGED <<conf, dropped, filtered, unrouted>>
      PROVE  EndTypes' /\ dropped[m] = 0 /\ Settled(m)'
  <2>1. Cardinality({p}) = 1
    BY FS_Singleton
  <2> QED
    BY <1>4, <1>7, <2>1 DEF Settled
<1>8. CASE Random(t)
  <2>1. PICK n \in DOMAIN conf.producers : Deliver(m, {conf.producers[n]})
    BY <1>8 DEF Random
  <2> QED
    BY <1>5, <1>7, <1>8, <2>1 DEF Random
<1>9. CASE RoundRobin(t)
  <2>1. pc[t] = "accepted" /\ conf.stream = "RoundRobin" /\ UNCHANGED <<conf, dropped, filtered, unrouted>>
    BY <1>9 DEF RoundRobin
  <2>2. CASE panicked' # {} /\ sent' = sent /\ panicked \subseteq panicked'
    <3>1. dropped[m] = 0
      BY <1>1, <2>1 DEF EndsInv, Before, Untouched
    <3> QED
      BY <2>1, <2>2, <3>1 DEF EndsInv, EndTypes
  <2>3. CASE \E n \in DOMAIN conf.producers : Deliver(m, {conf.producers[n]}) /\ panicked' = panicked
    BY <1>5, <1>7, <2>1, <2>3
  <2>4. \A n \in Int : n >= 0 => (n % Len(conf.producers)) + 1 \in DOMAIN conf.producers
    <3>1. Len(conf.producers) \in Nat \ {0} /\ DOMAIN conf.producers = 1 .. Len(conf.producers)
      BY <1>5, <1>9 DEF RoundRobin
    <3> DEFINE g == Len(conf.producers)
    <3> HIDE DEF g
    <3>2. \A n \in Int : n % g \in 0 .. g - 1
      BY ONLY <3>1, Remainder, Zenon DEF g
    <3>3. g \in Nat /\ \A k \in 0 .. g - 1 : k + 1 \in 1 .. g
      BY ONLY <3>1 DEF g
    <3>4. \A n \in Int : (n % g) + 1 \in 1 .. g
      BY ONLY <3>2, <3>3, Zenon
    <3> QED
      BY ONLY <3>1, <3>4, Zenon DEF g
  <2>5. 1 \in DOMAIN conf.producers
    BY <1>5, <1>9 DEF RoundRobin
  <2> DEFINE n == NextIndex(index)
             zero == n < 0 /\ (-n) % Len(conf.producers) = 0
             k == IF n < 0 THEN 1 ELSE (n % Len(conf.producers)) + 1
  <2>6. n \in Int
    BY ConfTypes DEF EndsInv, EndTypes, FlowInv, FlowTypes, NextIndex
  <2>7. IF n < 0 /\ ~zero THEN panicked' = panicked \cup {t} /\ sent' = sent
                         ELSE Deliver(m, {conf.producers[k]}) /\ panicked' = panicked
    BY <1>9 DEF RoundRobin
  <2>8. k \in DOMAIN conf.producers
    <3> HIDE DEF n
    <3>1. n < 0 \/ n >= 0
      BY ONLY <2>6
    <3> QED
      BY ONLY <2>4, <2>5, <2>6, <3>1
  <2> HIDE DEF k
  <2> QED
    BY <2>2, <2>3, <2>7, <2>8
<1>10. CASE \/ Routed(t)
            \/ RouteRead(t) /\ i[t] > size
            \/ RouteReplace(t) /\ (i[t] > size \/ lastIdx[t] > size \/ lastIdx[t] = 0)
  <2>1. /\ pc[t] \in Routing /\ panicked \subseteq panicked'
        /\ UNCHANGED <<conf, sent, dropped>>
    BY <1>10 DEF Routed, RouteRead, RouteReplace, Panic, Routing, endVars
  <2> QED
    BY <1>1, <2>1 DEF EndsInv, EndTypes
<1> QED
  BY <1>2, <1>3, <1>6, <1>8, <1>9, <1>10, Zenon DEF Leaving

\* A message whose goroutine returns is settled.
LEMMA EndsUnderLeaving ==
  ASSUME FlowInv, FlowInv', EndsInv, index \in Int, NEW t \in conf.threads, Leaving(t), Leaves(t)
  PROVE  EndsInv'
<1>1. t \in Threads /\ msg[t] \in Messages /\ Underway(msg[t])
  BY MessageOf DEF Leaves
<1>2. PICK m \in Messages : m = msg[t]
  BY <1>1
<1>3. /\ EndTypes' /\ panicked \subseteq panicked'
      /\ dropped' = dropped
      /\ dropped[m] = 1 => Unsent(m)'
      /\ conf.stream # "Route" /\ panicked' = {} => Settled(m)'
  BY <1>2, LeavingSettles
<1>4. /\ pc' = [pc EXCEPT ![t] = "idle"] /\ msg' = [msg EXCEPT ![t] = NoMessage]
      /\ UNCHANGED <<conf, fresh>>
  BY DEF Leaves, Return, Goto
<1>5. \A k \in Messages \ {m} : /\ sent'[k] = sent[k] /\ dropped'[k] = dropped[k]
                                /\ k \in filtered' <=> k \in filtered
                                /\ k \in unrouted' <=> k \in unrouted
  BY <1>2 DEF Leaves
<1>6. \A u \in Threads : /\ pc'[u] = IF u = t THEN "idle" ELSE pc[u]
                         /\ msg'[u] = IF u = t THEN NoMessage ELSE msg[u]
  BY <1>1, <1>4 DEF FlowInv, FlowTypes
<1>7. \A k \in Messages \ {m} : Underway(k)' <=> Underway(k)
  <2>1. NoMessage \notin Messages
    BY DeliveryAssumption
  <2> QED
    BY <1>1, <1>2, <1>4, <1>6, <2>1 DEF Underway
<1>8. \A k \in Messages \ {m} : (Unsent(k)' <=> Unsent(k)) /\ (Untouched(k)' <=> Untouched(k))
                                /\ (Settled(k)' <=> Settled(k))
  BY <1>4, <1>5 DEF Unsent, Untouched, Settled
<1>9. ASSUME NEW u \in Threads
      PROVE  /\ pc'[u] \in Before => Untouched(msg[u])'
             /\ pc'[u] = "filtered" => Unsent(msg[u])' /\ dropped'[msg'[u]] <= 1
                                /\ msg'[u] \notin filtered' /\ msg'[u] \notin unrouted'
             /\ pc'[u] \in Routing => dropped'[msg'[u]] = 0 /\ conf'.stream = "Route"
  <2>1. CASE u = t
    <3>1. pc'[u] = "idle"
      BY <1>6, <2>1
    <3>2. pc'[u] \notin Before /\ pc'[u] \notin Routing /\ pc'[u] # "filtered"
      BY ONLY <3>1 DEF Before, Counting, Routing
    <3> QED
      BY ONLY <3>2
  <2>2. CASE u # t /\ pc[u] = "idle"
    <3>1. pc'[u] = "idle"
      BY <1>6, <2>2
    <3>2. pc'[u] \notin Before /\ pc'[u] \notin Routing /\ pc'[u] # "filtered"
      BY ONLY <3>1 DEF Before, Counting, Routing
    <3> QED
      BY ONLY <3>2
  <2>3. CASE u # t /\ pc[u] # "idle"
    <3>1. pc'[u] = pc[u] /\ msg'[u] = msg[u]
      BY <1>6, <2>3
    <3>2. msg[u] \in Messages \ {m}
      BY <1>1, <1>2, <2>3 DEF FlowInv, FlowTypes
    <3> DEFINE k == msg[u]
    <3>3. PICK n \in Messages \ {m} : n = msg[u]
      BY <3>2
    <3>4. /\ pc[u] \in Before => Untouched(n)
          /\ pc[u] = "filtered" => Unsent(n) /\ dropped[n] <= 1 /\ n \notin filtered /\ n \notin unrouted
          /\ pc[u] \in Routing => dropped[n] = 0 /\ conf.stream = "Route"
      BY <3>3 DEF EndsInv
    <3>5. /\ pc[u] \in Before => Untouched(n)'
          /\ pc[u] = "filtered" => Unsent(n)' /\ dropped'[n] <= 1 /\ n \notin filtered' /\ n \notin unrouted'
          /\ pc[u] \in Routing => dropped'[n] = 0 /\ conf'.stream = "Route"
      BY <1>4, <1>5, <1>8, <3>4
    <3> QED
      BY <3>1, <3>3, <3>5 DEF Untouched, Unsent
  <2> QED
    BY <2>1, <2>2, <2>3
<1>10. \A k \in Messages : dropped'[k] <= 1 /\ (dropped'[k] = 1 => Unsent(k)')
  <2> TAKE k \in Messages
  <2>1. CASE k = m
    BY <1>3, <2>1 DEF EndsInv
  <2>2. CASE k # m
    BY <1>3, <1>8, <2>2 DEF EndsInv
  <2> QED
    BY <2>1, <2>2
<1>11. \A k \in fresh' : Untouched(k)'
  <2>1. \A k \in fresh : k \in Messages \ {m}
    BY <1>1, <1>2 DEF FlowInv, FlowTypes
  <2> QED
    BY <1>4, <1>8, <2>1 DEF EndsInv
<1>12. ASSUME conf'.stream # "Route", panicked' = {}, NEW k \in Messages, ~Underway(k)' PROVE Settled(k)'
  <2>1. conf.stream # "Route" /\ panicked = {}
    BY <1>3, <1>4, <1>12
  <2>2. CASE k = m
    BY <1>3, <1>12, <2>1, <2>2
  <2>3. CASE k # m
    BY <1>7, <1>8, <1>12, <2>1, <2>3 DEF EndsInv
  <2> QED
    BY <2>2, <2>3
<1> QED
  BY <1>3, <1>9, <1>10, <1>11, <1>12 DEF EndsInv

\* Nobody but RoundRobin moves its index,
LEMMA OnlyTurnsCount ==
  ASSUME [Next]_vars
  PROVE  index' = index \/ \E t \in conf.threads : RoundRobin(t)
<1>1. ASSUME NEW t, ~RoundRobin(t),
             \/ \E m \in Messages : Enqueue(t, m)
             \/ SampleAdd(t) \/ SampleSubtract(t)
             \/ RateLookup(t) \/ RateCreate(t) \/ RateCheck(t) \/ RateReset(t) \/ RateSwap(t) \/ RateCount(t)
             \/ Limited(t) \/ Filtered(t) \/ NoProducers(t) \/ Broadcast(t) \/ Random(t)
             \/ RouteLoop(t) \/ RouteRead(t) \/ RouteBind(t) \/ RouteRemove(t) \/ RouteReplace(t)
             \/ RouteTruncate(t) \/ RouteSend(t) \/ Routed(t)
      PROVE  index' = index
  <2>1. ASSUME NEW m, Enqueue(t, m) PROVE index' = index
    BY <2>1 DEF Enqueue
  <2>2. SampleAdd(t) \/ SampleSubtract(t) \/ RateLookup(t) \/ RateCreate(t) \/ RateCheck(t) => index' = index
    BY DEF SampleAdd, SampleSubtract, RateLookup, RateCreate, RateCheck
  <2>3. RateReset(t) \/ RateSwap(t) \/ RateCount(t) \/ Limited(t) \/ Filtered(t) => index' = index
    BY DEF RateReset, RateSwap, RateCount, Limited, Filtered
  <2>4. NoProducers(t) \/ Broadcast(t) \/ Random(t) \/ RouteLoop(t) \/ RouteRead(t) => index' = index
    BY DEF NoProducers, Broadcast, Random, RouteLoop, RouteRead, Panic
  <2>5. RouteBind(t) \/ RouteRemove(t) \/ RouteReplace(t) => index' = index
    BY DEF RouteBind, RouteRemove, RouteReplace, Panic
  <2>6. RouteTruncate(t) \/ RouteSend(t) \/ Routed(t) => index' = index
    BY DEF RouteTruncate, RouteSend, Routed
  <2> QED
    BY <1>1, <2>1, <2>2, <2>3, <2>4, <2>5, <2>6, Zenon
<1>2. CASE Tick \/ UNCHANGED vars
  BY <1>2 DEF Tick, vars
<1> QED
  BY <1>1, <1>2, Zenon DEF Next

\* and the index is a number.
LEMMA IndexKept ==
  ASSUME conf.max \in Nat, index \in Int, [Next]_vars
  PROVE  index' \in Int
<1>1. ASSUME NEW t, RoundRobin(t) PROVE index' \in Int
  <2>1. index' = IF index = conf.max THEN -conf.max - 1 ELSE index + 1
    BY <1>1 DEF RoundRobin, NextIndex
  <2> QED
    BY <2>1
<1> QED
  BY <1>1, OnlyTurnsCount

\* The invariant behind EndsOnce.
DeliveryInv == FlowInv /\ EndsInv /\ index \in Int

\* Every step of Enqueue keeps the way of the messages and what became of them.
LEMMA DeliveryInvariant == Spec => []DeliveryInv
<1>1. Init => DeliveryInv
  <2> SUFFICES ASSUME Init PROVE DeliveryInv
    OBVIOUS
  <2>1. FlowInv
    BY DeliveryAssumption DEF Init, FlowInv, FlowTypes, Labels
  <2>2. EndTypes /\ \A m \in Messages : Untouched(m)
    BY DEF Init, EndTypes, Untouched, Unsent
  <2>3. \A t \in Threads : pc[t] \notin Before /\ pc[t] # "filtered" /\ pc[t] \notin Routing
    BY DEF Init, Before, Counting, Routing
  <2>4. fresh = Messages /\ \A m \in Messages : Underway(m)
    BY DEF Init, Underway
  <2>5. EndsInv
    BY <2>2, <2>3, <2>4 DEF EndsInv, Untouched
  <2> QED
    BY <2>1, <2>5 DEF Init, DeliveryInv, RoundRobinInit
<1>2. DeliveryInv /\ [Next]_vars => DeliveryInv'
  <2> SUFFICES ASSUME DeliveryInv, [Next]_vars PROVE DeliveryInv'
    OBVIOUS
  <2>1. FlowInv /\ EndsInv /\ EndTypes /\ index \in Int
    BY DEF DeliveryInv, EndsInv
  <2>2. FlowInv'
    BY <2>1, FlowKept
  <2>3. conf.max \in Nat
    BY <2>1, ConfTypes DEF FlowInv, FlowTypes
  <2>4. index' \in Int
    BY <2>1, <2>3, IndexKept
  <2>5. CASE Tick \/ UNCHANGED vars
    <3>1. UNCHANGED <<conf, pc, msg, fresh, panicked, endVars>>
      BY <2>5 DEF Tick, vars
    <3>2. EndsInv'
      BY <2>1, <3>1 DEF EndsInv, EndTypes, Untouched, Unsent, Settled, Underway, endVars
    <3> QED
      BY <2>2, <2>4, <3>2 DEF DeliveryInv
  <2> QED
    BY <2>1, <2>2, <2>4, <2>5, Shapes, EndsUnderMoves, EndsUnderEnqueue, EndsUnderLimited,
       EndsUnderRouteSend, EndsUnderLeaving, Zenon DEF DeliveryInv
<1> QED
  BY <1>1, <1>2, PTL DEF Spec

\* What became of a message can be told when its goroutine is back, whatever filter and stream
\* are combined: it was sent as the stream says, or counted as filtered or unrouted, or dropped
\* once and sent nowhere.
THEOREM MessagesAreSettled == Spec => []EndsOnce
<1>1. DeliveryInv => EndsOnce
  BY DEF DeliveryInv, EndsInv, EndsOnce, Settled, Unsent
<1> QED
  BY <1>1, DeliveryInvariant, PTL

-----------------------------------------------------------------------------
(* The filters that count are used by one combination each *)

Sampling == {"Sample", "subtract"}
Rating == {"create", "check", "reset", "swap", "count"}

FilterInv ==
  /\ \A t \in Threads : pc[t] \in Sampling => conf.filter = "Sample"
  /\ \A t \in Threads : pc[t] \in Rating \cup {"Rate"} => conf.filter = "Rate"

\* A step that is none of Rate, and what it leaves alone.
RateSteps(t) ==
  RateLookup(t) \/ RateCreate(t) \/ RateCheck(t) \/ RateReset(t) \/ RateSwap(t) \/ RateCount(t)
SampleSteps(t) == SampleAdd(t) \/ SampleSubtract(t)

\* The other steps of a goroutine.
OtherSteps(t) ==
  \/ \E m \in Messages : Enqueue(t, m)
  \/ Limited(t) \/ Filtered(t)
  \/ NoProducers(t) \/ Broadcast(t) \/ Random(t) \/ RoundRobin(t)
  \/ RouteLoop(t) \/ RouteRead(t) \/ RouteBind(t) \/ RouteRemove(t) \/ RouteReplace(t)
  \/ RouteTruncate(t) \/ RouteSend(t) \/ Routed(t)

\* The steps that are no steps of Rate or Sample leave their state alone.
LEMMA OtherStepsCountNothing ==
  ASSUME FlowInv, NEW t \in conf.threads, OtherSteps(t)
  PROVE  /\ UNCHANGED <<conf, sampleVars, rateVars>>
         /\ t \in Threads /\ pc[t] \notin Counting
         /\ \A u \in Threads \ {t} : pc'[u] = pc[u] /\ msg'[u] = msg[u]
         /\ pc'[t] \notin Counting \/ pc'[t] = conf.filter
         /\ passed' = passed \/ conf.filter = "static"
         /\ \/ \E m \in Messages : Enqueue(t, m)
            \/ fresh' = fresh /\ passed' = passed /\ pc'[t] \notin Counting
<1>1. t \in Threads /\ conf.filter \in {"static", "Rate", "Sample"} /\ FlowTypes
  BY ConfTypes DEF FlowInv, FlowTypes
<1>2. ASSUME NEW m, Enqueue(t, m)
      PROVE  /\ UNCHANGED <<conf, sampleVars, rateVars>> /\ pc[t] \notin Counting
             /\ \E x : msg' = [msg EXCEPT ![t] = x]
             /\ \E l \in {"filtered", "accepted", conf.filter} : Goto(t, l)
             /\ passed' = passed \/ conf.filter = "static"
  BY <1>2 DEF Enqueue, Counting
<1>3. CASE Limited(t) \/ Filtered(t) \/ NoProducers(t) \/ Broadcast(t) \/ Random(t) \/ RoundRobin(t) \/ Routed(t)
  <2>1. UNCHANGED <<conf, sampleVars, rateVars, passed, fresh>> /\ pc[t] \notin Counting
    BY <1>3 DEF Limited, Filtered, NoProducers, Broadcast, Random, RoundRobin, Routed, Counting
  <2>2. msg' = msg \/ \E x : msg' = [msg EXCEPT ![t] = x]
    BY <1>3 DEF Limited, Filtered, NoProducers, Broadcast, Random, RoundRobin, Routed, Return
  <2>3. \E l \in {"filtered", "idle"} : Goto(t, l)
    BY <1>3 DEF Limited, Filtered, NoProducers, Broadcast, Random, RoundRobin, Routed, Return
  <2> QED
    BY <1>1, <2>1, <2>2, <2>3 DEF Goto, FlowTypes, Counting
<1>4. CASE \/ RouteLoop(t) \/ RouteRead(t) \/ RouteBind(t) \/ RouteRemove(t) \/ RouteReplace(t)
           \/ RouteTruncate(t) \/ RouteSend(t)
  <2>1. UNCHANGED <<conf, sampleVars, rateVars, passed, fresh>> /\ pc[t] \notin Counting
    BY <1>4 DEF RouteLoop, RouteRead, RouteBind, RouteRemove, RouteReplace, RouteTruncate, RouteSend,
                Panic, Counting
  <2>2. msg' = msg \/ \E x : msg' = [msg EXCEPT ![t] = x]
    BY <1>4 DEF RouteLoop, RouteRead, RouteBind, RouteRemove, RouteReplace, RouteTruncate, RouteSend,
                Panic, Return
  <2>3. \E l \in Routing \cup {"idle"} : Goto(t, l)
    BY <1>4 DEF RouteLoop, RouteRead, RouteBind, RouteRemove, RouteReplace, RouteTruncate, RouteSend,
                Panic, Return, Routing
  <2> QED
    BY <1>1, <2>1, <2>2, <2>3 DEF Goto, FlowTypes, Counting, Routing
<1>5. CASE \E m \in Messages : Enqueue(t, m)
  <2>1. PICK m \in Messages : Enqueue(t, m)
    BY <1>5
  <2> QED
    BY <1>1, <1>2, <2>1 DEF Goto, FlowTypes, Counting
<1> QED
  BY <1>3, <1>4, <1>5, Zenon DEF OtherSteps

\* Only the goroutines that meet a counting filter are inside it.
LEMMA FilterKept ==
  ASSUME FlowInv, FilterInv, [Next]_vars
  PROVE  FilterInv'
<1>1. ASSUME NEW t \in conf.threads, RateSteps(t) PROVE FilterInv'
  <2>1. pc[t] \in Rating \cup {"Rate"} /\ conf' = conf
    BY <1>1 DEF RateSteps, RateLookup, RateCreate, RateCheck, RateReset, RateSwap, RateCount, Rating
  <2>2. \E l \in Rating \cup {"accepted", "limited"} : Goto(t, l)
    BY <1>1 DEF RateSteps, RateLookup, RateCreate, RateCheck, RateReset, RateSwap, RateCount, Rating, Decide
  <2>3. t \in Threads
    BY ConfTypes DEF FlowInv, FlowTypes
  <2> QED
    BY <2>1, <2>2, <2>3 DEF FilterInv, Goto, FlowInv, FlowTypes, Rating, Sampling
<1>2. ASSUME NEW t \in conf.threads, SampleSteps(t) PROVE FilterInv'
  <2>1. pc[t] \in Sampling /\ conf' = conf
    BY <1>2 DEF SampleSteps, SampleAdd, SampleSubtract, Sampling
  <2>2. \E l \in Sampling \cup {"accepted", "limited"} : Goto(t, l)
    BY <1>2 DEF SampleSteps, SampleAdd, SampleSubtract, Sampling, Decide
  <2>3. t \in Threads
    BY ConfTypes DEF FlowInv, FlowTypes
  <2> QED
    BY <2>1, <2>2, <2>3 DEF FilterInv, Goto, FlowInv, FlowTypes, Rating, Sampling
<1>3. ASSUME NEW t \in conf.threads, OtherSteps(t) PROVE FilterInv'
  <2>1. /\ conf' = conf /\ t \in Threads
        /\ \A u \in Threads \ {t} : pc'[u] = pc[u]
        /\ pc'[t] \notin Counting \/ pc'[t] = conf.filter
    BY <1>3, OtherStepsCountNothing
  <2>2. conf.filter \in {"static", "Rate", "Sample"}
    BY ConfTypes DEF FlowInv, FlowTypes
  <2>3. /\ pc'[t] \in Sampling => conf.filter = "Sample"
        /\ pc'[t] \in Rating \cup {"Rate"} => conf.filter = "Rate"
    BY ONLY <2>1, <2>2 DEF Counting, Rating, Sampling
  <2> QED
    BY <2>1, <2>3 DEF FilterInv
<1>4. CASE Tick \/ UNCHANGED vars
  BY <1>4 DEF Tick, vars, FilterInv
<1> QED
  BY <1>1, <1>2, <1>3, <1>4, Zenon DEF Next, OtherSteps, SampleSteps, RateSteps

-----------------------------------------------------------------------------
(* Rate *)

RateTypes ==
  /\ made \in Nat /\ ticks \in Nat
  /\ state \in [Streams -> 0 .. made]
  /\ counter \in [Records -> Nat] /\ granted \in [Records -> Nat] /\ rec \in [Threads -> Nat]

\* The goroutines and streams for which a record may still be made.
Able == {p \in Threads \X Streams : state[p[2]] = 0 \/ (pc[p[1]] = "create" /\ StreamOf[msg[p[1]]] = p[2])}

\* The inductive invariant: there are records enough, and what is granted has been counted.
RateInv ==
  /\ RateTypes
  /\ \A t \in Threads : pc[t] \in Rating \ {"create"} => rec[t] \in 1 .. made
  /\ made + Cardinality(Able) <= Cardinality(Threads) * Cardinality(Streams)
  /\ \A r \in Records : granted[r] <= counter[r] /\ granted[r] <= Limit

\* There is at most one ability for each pair of a goroutine and a stream.
LEMMA AbleIsFinite ==
  /\ Able \subseteq Threads \X Streams
  /\ IsFiniteSet(Threads \X Streams)
  /\ Cardinality(Threads \X Streams) = Cardinality(Threads) * Cardinality(Streams)
  /\ IsFiniteSet(Able) /\ Cardinality(Able) \in Nat
  /\ Cardinality(Threads) \in Nat /\ Cardinality(Streams) \in Nat
<1>1. IsFiniteSet(Threads) /\ IsFiniteSet(Streams)
  BY DeliveryAssumption
<1>2. IsFiniteSet(Threads \X Streams) /\ Cardinality(Threads \X Streams) = Cardinality(Threads) * Cardinality(Streams)
  BY <1>1, FS_Product
<1>3. Able \subseteq Threads \X Streams
  BY DEF Able
<1>4. IsFiniteSet(Able)
  BY <1>2, <1>3, FS_Subset
<1> QED
  BY <1>1, <1>2, <1>3, <1>4, FS_CardinalityType

\* What a goroutine holds is a record.
LEMMA RecordsInUse ==
  ASSUME RateInv
  PROVE  1 .. made \subseteq Records
<1> DEFINE K == Cardinality(Threads) * Cardinality(Streams)
<1>1. Cardinality(Able) \in Nat /\ K \in Nat
  BY AbleIsFinite
<1>2. made \in Nat /\ made + Cardinality(Able) <= K
  BY DEF RateInv, RateTypes
<1> HIDE DEF K
<1>3. made <= K
  BY ONLY <1>1, <1>2
<1>4. 1 .. made \subseteq 1 .. K
  BY ONLY <1>1, <1>2, <1>3
<1> QED
  BY <1>4 DEF Records, K

\* Steps that make no record and count nothing.
LEMMA RateStutters ==
  ASSUME RateInv, UNCHANGED rateVars,
         \A u \in Threads : pc'[u] \in Rating => pc'[u] = pc[u] /\ msg'[u] = msg[u]
  PROVE  RateInv'
<1>1. UNCHANGED <<state, made, counter, old, rec, granted, ticks>>
  BY DEF rateVars
<1>2. Able' \subseteq Able
  BY <1>1 DEF Able, Rating
<1>3. Cardinality(Able') <= Cardinality(Able) /\ Cardinality(Able') \in Nat
  <2>1. IsFiniteSet(Able) /\ Cardinality(Able) \in Nat
    BY AbleIsFinite
  <2> HIDE DEF Able
  <2> QED
    BY <1>2, <2>1, FS_Subset, FS_CardinalityType
<1>4. made' + Cardinality(Able') <= Cardinality(Threads) * Cardinality(Streams)
  <2> DEFINE K == Cardinality(Threads) * Cardinality(Streams)
  <2>1. Cardinality(Able) \in Nat /\ K \in Nat /\ made \in Nat /\ made + Cardinality(Able) <= K
    BY AbleIsFinite DEF RateInv, RateTypes
  <2> HIDE DEF K
  <2>2. made' + Cardinality(Able') <= K
    BY ONLY <1>1, <1>3, <2>1
  <2> QED
    BY <2>2 DEF K
<1> QED
  BY <1>1, <1>4 DEF RateInv, RateTypes, Rating

\* Nobody becomes able without having seen that the stream has no record.
LEMMA AbleShrinks ==
  ASSUME RateInv, UNCHANGED <<state, made>>,
         \A u \in Threads : pc'[u] = "create" =>
           \/ pc[u] = "create" /\ msg'[u] = msg[u]
           \/ state[StreamOf[msg'[u]]] = 0
  PROVE  made' + Cardinality(Able') <= Cardinality(Threads) * Cardinality(Streams)
<1>1. Able' \subseteq Able
  BY DEF Able
<1>2. Cardinality(Able') <= Cardinality(Able) /\ Cardinality(Able') \in Nat
  <2>1. IsFiniteSet(Able) /\ Cardinality(Able) \in Nat
    BY AbleIsFinite
  <2> HIDE DEF Able
  <2> QED
    BY <1>1, <2>1, FS_Subset, FS_CardinalityType
<1> DEFINE K == Cardinality(Threads) * Cardinality(Streams)
<1>3. Cardinality(Able) \in Nat /\ K \in Nat /\ made \in Nat /\ made + Cardinality(Able) <= K
  BY AbleIsFinite DEF RateInv, RateTypes
<1> HIDE DEF K
<1>4. made' + Cardinality(Able') <= K
  BY ONLY <1>2, <1>3, made' = made
<1> QED
  BY <1>4 DEF K

\* One record fewer can be made.
LEMMA CreateTakesAbility ==
  ASSUME FlowInv, RateInv, NEW t \in conf.threads, RateCreate(t)
  PROVE  /\ made' + Cardinality(Able') <= Cardinality(Threads) * Cardinality(Streams)
         /\ made + 1 \in Records /\ StreamOf[msg[t]] \in Streams
<1> DEFINE s == StreamOf[msg[t]]
           pair == <<t, s>>
           K == Cardinality(Threads) * Cardinality(Streams)
<1>1. /\ pc[t] = "create" /\ pc' = [pc EXCEPT ![t] = "check"] /\ UNCHANGED msg
      /\ made' = made + 1 /\ state' = [state EXCEPT ![s] = made + 1]
  BY DEF RateCreate, Goto
<1>2. t \in Threads /\ s \in Streams
  BY <1>1, MessageOf, DeliveryAssumption
<1>3. pair \in Able
  BY <1>1, <1>2 DEF Able
<1>4. made \in Nat /\ state \in [Streams -> 0 .. made]
  BY DEF RateInv, RateTypes
<1>5. \A u \in Threads : pc'[u] = "create" => pc[u] = "create" /\ u # t
  BY <1>1, <1>2 DEF FlowInv, FlowTypes
<1>6. state'[s] # 0 /\ \A x \in Streams : state'[x] = 0 => state[x] = 0 /\ x # s
  BY <1>1, <1>2, <1>4
<1>7. Able' \subseteq Able \ {pair}
  <2> SUFFICES ASSUME NEW p \in Able' PROVE p \in Able \ {pair}
    OBVIOUS
  <2>1. p \in Threads \X Streams /\ (state'[p[2]] = 0 \/ (pc'[p[1]] = "create" /\ StreamOf[msg[p[1]]] = p[2]))
    BY <1>1 DEF Able
  <2>2. p[1] \in Threads /\ p[2] \in Streams
    BY <2>1
  <2>3. p \in Able
    BY <1>5, <1>6, <2>1, <2>2 DEF Able
  <2>4. p # pair
    BY <1>5, <1>6, <2>1, <2>2
  <2> QED
    BY <2>3, <2>4
<1>8. IsFiniteSet(Able) /\ Cardinality(Able) \in Nat /\ K \in Nat
  BY AbleIsFinite
<1>9. Cardinality(Able') \in Nat /\ Cardinality(Able') <= Cardinality(Able) - 1
  <2> HIDE DEF Able, pair
  <2>1. IsFiniteSet(Able \ {pair}) /\ Cardinality(Able \ {pair}) = Cardinality(Able) - 1
    BY <1>3, <1>8, FS_RemoveElement
  <2> QED
    BY <1>7, <2>1, FS_Subset, FS_CardinalityType
<1>10. made + Cardinality(Able) <= K
  BY DEF RateInv
<1> HIDE DEF K
<1>11. made' + Cardinality(Able') <= K /\ made + 1 \in 1 .. K
  BY ONLY <1>1, <1>4, <1>8, <1>9, <1>10
<1> QED
  BY <1>2, <1>11 DEF K, Records

\* Every step of Rate keeps the number of records and the counters within bounds.
LEMMA RateStepsKept ==
  ASSUME FlowInv, RateInv, NEW t \in conf.threads, RateSteps(t)
  PROVE  RateInv'
<1>1. t \in Threads /\ pc \in [Threads -> Labels] /\ RateTypes /\ 1 .. made \subseteq Records
  BY ConfTypes, RecordsInUse DEF FlowInv, FlowTypes, RateInv
<1>2. pc[t] # "idle"
  BY DEF RateSteps, RateLookup, RateCreate, RateCheck, RateReset, RateSwap, RateCount
<1>3. StreamOf[msg[t]] \in Streams
  BY <1>2, MessageOf, DeliveryAssumption
<1>4. CASE RateLookup(t)
  <2>1. /\ pc[t] = "Rate" /\ rec' = [rec EXCEPT ![t] = state[StreamOf[msg[t]]]]
        /\ pc' = [pc EXCEPT ![t] = IF state[StreamOf[msg[t]]] = 0 THEN "create" ELSE "check"]
        /\ UNCHANGED <<msg, state, made, counter, granted, ticks>>
    BY <1>4 DEF RateLookup, Goto
  <2>2. made' + Cardinality(Able') <= Cardinality(Threads) * Cardinality(Streams)
    BY <1>1, <2>1, AbleShrinks
  <2>3. state[StreamOf[msg[t]]] \in 0 .. made /\ made \in Nat
    BY <1>1, <1>3 DEF RateTypes
  <2>4. RateTypes'
    BY <1>1, <2>1, <2>3 DEF RateTypes
  <2>5. \A u \in Threads : pc'[u] \in Rating \ {"create"} => rec'[u] \in 1 .. made
    BY <1>1, <2>1, <2>3 DEF RateInv, RateTypes
  <2> QED
    BY <2>1, <2>2, <2>4, <2>5 DEF RateInv
<1>5. CASE RateCreate(t)
  <2>1. /\ pc[t] = "create" /\ pc' = [pc EXCEPT ![t] = "check"] /\ UNCHANGED <<counter, granted, ticks>>
        /\ made' = made + 1 /\ rec' = [rec EXCEPT ![t] = made + 1]
        /\ state' = [state EXCEPT ![StreamOf[msg[t]]] = made + 1]
    BY <1>5 DEF RateCreate, Goto
  <2>2. made' + Cardinality(Able') <= Cardinality(Threads) * Cardinality(Streams)
    BY <1>5, CreateTakesAbility
  <2>3. RateTypes'
    <3>1. made \in Nat /\ state \in [Streams -> 0 .. made]
      BY <1>1 DEF RateTypes
    <3>2. state' \in [Streams -> 0 .. made + 1]
      <4>1. made + 1 \in 0 .. made + 1 /\ 0 .. made \subseteq 0 .. made + 1
        BY ONLY <3>1
      <4> QED
        BY ONLY <2>1, <3>1, <4>1
    <3> QED
      BY <1>1, <2>1, <3>1, <3>2 DEF RateTypes
  <2>4. \A u \in Threads : pc'[u] \in Rating \ {"create"} => rec'[u] \in 1 .. made + 1
    <3> TAKE u \in Threads
    <3>1. CASE u = t
      BY <1>1, <2>1, <3>1 DEF RateTypes
    <3>2. CASE u # t
      <4>1. pc'[u] = pc[u] /\ rec'[u] = rec[u] /\ made \in Nat
        BY <1>1, <2>1, <3>2 DEF RateTypes
      <4>2. pc[u] \in Rating \ {"create"} => rec[u] \in 1 .. made
        BY DEF RateInv
      <4> QED
        BY <4>1, <4>2
    <3> QED
      BY <3>1, <3>2
  <2> QED
    BY <2>1, <2>2, <2>3, <2>4 DEF RateInv
<1>6. ASSUME UNCHANGED <<msg, state, made, rec, ticks>>, counter' \in [Records -> Nat], granted' \in [Records -> Nat],
             \A r \in Records : granted'[r] <= counter'[r] /\ granted'[r] <= Limit,
             pc[t] \in Rating \ {"create"}, NEW l, l # "create", pc' = [pc EXCEPT ![t] = l]
      PROVE  RateInv'
  <2>1. \A u \in Threads : pc'[u] = IF u = t THEN l ELSE pc[u]
    BY <1>1, <1>6
  <2>2. made' + Cardinality(Able') <= Cardinality(Threads) * Cardinality(Streams)
    BY <1>6, <2>1, AbleShrinks
  <2>3. RateTypes'
    BY <1>1, <1>6 DEF RateTypes
  <2>4. \A u \in Threads : pc'[u] \in Rating \ {"create"} => rec'[u] \in 1 .. made'
    BY <1>6, <2>1 DEF RateInv
  <2> QED
    BY <1>6, <2>2, <2>3, <2>4 DEF RateInv
<1>7. CASE RateCheck(t) \/ RateReset(t)
  <2>1. UNCHANGED <<msg, state, made, rec, ticks, counter, granted>> /\ pc[t] \in Rating \ {"create"}
    BY <1>7 DEF RateCheck, RateReset, rateVars, Rating
  <2>2. \E l \in {"reset", "count", "swap"} : pc' = [pc EXCEPT ![t] = l]
    BY <1>7 DEF RateCheck, RateReset, Goto
  <2> QED
    BY <1>1, <1>6, <2>1, <2>2 DEF RateInv, RateTypes
<1>8. CASE RateSwap(t)
  <2>1. /\ pc[t] = "swap" /\ pc' = [pc EXCEPT ![t] = "count"] /\ UNCHANGED <<msg, state, made, rec, ticks>>
        /\ counter' = [counter EXCEPT ![rec[t]] = 0] /\ granted' = [granted EXCEPT ![rec[t]] = 0]
    BY <1>8 DEF RateSwap, Goto
  <2>2. counter' \in [Records -> Nat] /\ granted' \in [Records -> Nat]
    BY <1>1, <2>1 DEF RateTypes
  <2>3. Limit \in Nat
    BY DeliveryAssumption
  <2>4. \A r \in Records : granted'[r] <= counter'[r] /\ granted'[r] <= Limit
    BY <1>1, <2>1, <2>3 DEF RateInv, RateTypes
  <2> QED
    BY <1>6, <2>1, <2>2, <2>4 DEF Rating
<1>9. CASE RateCount(t)
  <2> DEFINE r == rec[t]
             accepts == counter[r] + 1 <= Limit
  <2>1. /\ pc[t] = "count" /\ UNCHANGED <<msg, state, made, rec, ticks>>
        /\ counter' = [counter EXCEPT ![r] = @ + 1]
        /\ granted' = IF accepts THEN [granted EXCEPT ![r] = @ + 1] ELSE granted
        /\ \E l \in {"accepted", "limited"} : pc' = [pc EXCEPT ![t] = l]
    BY <1>9 DEF RateCount, Decide, Goto, WithinLimit
  <2>2. r \in Records
    BY <1>1, <2>1 DEF RateInv, Rating
  <2>3. counter \in [Records -> Nat] /\ granted \in [Records -> Nat] /\ Limit \in Nat
    BY <1>1, DeliveryAssumption DEF RateTypes
  <2>4. counter' \in [Records -> Nat] /\ granted' \in [Records -> Nat]
    BY <2>1, <2>2, <2>3
  <2>5. \A x \in Records : granted[x] <= counter[x] /\ granted[x] <= Limit
    BY DEF RateInv
  <2>6. \A x \in Records : granted'[x] <= counter'[x] /\ granted'[x] <= Limit
    BY <2>1, <2>2, <2>3, <2>5
  <2> QED
    BY <1>6, <2>1, <2>4, <2>6 DEF Rating
<1> QED
  BY <1>4, <1>5, <1>7, <1>8, <1>9 DEF RateSteps

-----------------------------------------------------------------------------
(* The first second of Rate *)

\* Which stream a record was made for is not written down, but it can be told as long as no
\* record is reset: by own, which gives every record its stream.
Owns(own, s) == {r \in 1 .. made : own[r] = s}
AbleFor(s) == {t \in conf.threads : state[s] = 0 \/ (pc[t] = "create" /\ StreamOf[msg[t]] = s)}
PassedOf(s) == {m \in passed : StreamOf[m] = s}
Grants(own, s) == {p \in (1 .. made) \X (1 .. Limit) : own[p[1]] = s /\ p[2] <= granted[p[1]]}

\* A goroutine makes one record of a stream at most, and what passes is granted by one of them.
Owned(own) ==
  /\ own \in [1 .. made -> Streams]
  /\ \A s \in Streams : state[s] # 0 => own[state[s]] = s
  /\ \A t \in Threads : pc[t] \in {"check", "count"} => own[rec[t]] = StreamOf[msg[t]]
  /\ \A s \in Streams : Cardinality(Owns(own, s)) + Cardinality(AbleFor(s)) <= Cardinality(conf.threads)
  /\ \A s \in Streams : IsFiniteSet(PassedOf(s)) /\ Cardinality(PassedOf(s)) <= Cardinality(Grants(own, s))

FirstSecond ==
  conf.filter = "Rate" /\ ticks = 0 =>
    /\ old = [r \in Records |-> FALSE]
    /\ \A t \in Threads : pc[t] \notin {"reset", "swap"}
    /\ \E own : Owned(own)

\* All these sets are finite.
LEMMA OwnedIsFinite ==
  ASSUME FlowInv, RateInv, NEW own, NEW s
  PROVE  /\ IsFiniteSet(Owns(own, s)) /\ Cardinality(Owns(own, s)) \in Nat
         /\ IsFiniteSet(AbleFor(s)) /\ Cardinality(AbleFor(s)) \in Nat
         /\ IsFiniteSet(Grants(own, s)) /\ Cardinality(Grants(own, s)) \in Nat
         /\ Cardinality(conf.threads) \in Nat
<1>1. made \in Nat /\ Limit \in Nat /\ made \in Int /\ Limit \in Int /\ 1 \in Int
  <2>1. made \in Nat /\ Limit \in Nat
    BY DeliveryAssumption DEF RateInv, RateTypes
  <2> QED
    BY ONLY <2>1
<1>2. IsFiniteSet(1 .. made) /\ IsFiniteSet(1 .. Limit)
  BY ONLY <1>1, FS_Interval, Zenon
<1>3. IsFiniteSet((1 .. made) \X (1 .. Limit))
  BY ONLY <1>2, FS_Product, Zenon
<1>4. conf.threads \subseteq Threads /\ IsFiniteSet(Threads)
  BY ConfTypes, DeliveryAssumption DEF FlowInv, FlowTypes
<1>5. IsFiniteSet(conf.threads)
  BY <1>4, FS_Subset
<1>6. Owns(own, s) \subseteq 1 .. made /\ AbleFor(s) \subseteq conf.threads
      /\ Grants(own, s) \subseteq (1 .. made) \X (1 .. Limit)
  BY DEF Owns, AbleFor, Grants
<1>7. IsFiniteSet(Owns(own, s)) /\ IsFiniteSet(AbleFor(s)) /\ IsFiniteSet(Grants(own, s))
  BY ONLY <1>2, <1>3, <1>5, <1>6, FS_Subset, Zenon
<1> QED
  BY ONLY <1>5, <1>7, FS_CardinalityType, Zenon

\* Larger numbers make larger products.
LEMMA ProductGrows ==
  ASSUME NEW a \in Nat, NEW b \in Nat, NEW n \in Nat, a <= b
  PROVE  a * n <= n * b
OBVIOUS

\* All records of a stream together grant no more than Limit for every goroutine.
LEMMA GrantsAreBounded ==
  ASSUME FlowInv, RateInv, NEW own, Owned(own), NEW s \in Streams
  PROVE  Cardinality(PassedOf(s)) <= Limit * Cardinality(conf.threads)
<1> DEFINE O == Owns(own, s)
           G == Grants(own, s)
           C == Cardinality(conf.threads)
<1>1. /\ IsFiniteSet(O) /\ Cardinality(O) \in Nat /\ Cardinality(AbleFor(s)) \in Nat
      /\ Cardinality(G) \in Nat /\ C \in Nat
  BY OwnedIsFinite
<1>2. Limit \in Nat /\ Limit \in Int /\ 1 \in Int
  BY DeliveryAssumption
<1>3. IsFiniteSet(1 .. Limit) /\ Cardinality(1 .. Limit) = Limit
  <2>1. IsFiniteSet(1 .. Limit) /\ Cardinality(1 .. Limit) = IF 1 > Limit THEN 0 ELSE Limit - 1 + 1
    BY ONLY <1>2, FS_Interval, Zenon
  <2> QED
    BY ONLY <1>2, <2>1
<1>4. G \subseteq O \X (1 .. Limit)
  BY DEF Grants, Owns
<1>5. IsFiniteSet(O \X (1 .. Limit)) /\ Cardinality(O \X (1 .. Limit)) = Cardinality(O) * Limit
  <2> HIDE DEF O
  <2> QED
    BY ONLY <1>1, <1>3, FS_Product
<1>6. Cardinality(G) <= Cardinality(O) * Limit
  <2> HIDE DEF O, G
  <2> QED
    BY ONLY <1>4, <1>5, FS_Subset
<1>7. Cardinality(O) + Cardinality(AbleFor(s)) <= C /\ IsFiniteSet(PassedOf(s))
      /\ Cardinality(PassedOf(s)) <= Cardinality(G)
  BY DEF Owned
<1>8. Cardinality(PassedOf(s)) \in Nat
  BY <1>7, FS_CardinalityType
<1> DEFINE o == Cardinality(O)
           a == Cardinality(AbleFor(s))
           g == Cardinality(G)
           p == Cardinality(PassedOf(s))
<1> HIDE DEF C, o, a, g, p
<1>9. o \in Nat /\ a \in Nat /\ g \in Nat /\ p \in Nat /\ C \in Nat /\ o + a <= C /\ p <= g /\ g <= o * Limit
  BY <1>1, <1>6, <1>7, <1>8 DEF o, a, g, p
<1>10. o <= C
  BY ONLY <1>9
<1>11. o * Limit <= Limit * C
  BY ONLY <1>2, <1>9, <1>10, ProductGrows
<1>12. o * Limit \in Nat /\ Limit * C \in Nat
  BY ONLY <1>2, <1>9
<1>13. p <= Limit * C
  BY ONLY <1>9, <1>11, <1>12
<1> QED
  BY <1>13 DEF p, C

\* Nothing is made, granted or passed.
LEMMA OwnedStutters ==
  ASSUME FlowInv, RateInv, NEW own, Owned(own),
         UNCHANGED <<conf, state, made, granted>>, passed' = passed,
         \A u \in Threads : pc'[u] = "create" =>
           \/ pc[u] = "create" /\ msg'[u] = msg[u]
           \/ state[StreamOf[msg'[u]]] = 0,
         \A u \in Threads : pc'[u] \in {"check", "count"} => own[rec'[u]] = StreamOf[msg'[u]]
  PROVE  Owned(own)'
<1>1. conf.threads \subseteq Threads
  BY ConfTypes DEF FlowInv, FlowTypes
<1>2. ASSUME NEW s \in Streams
      PROVE  (Cardinality(Owns(own, s)) + Cardinality(AbleFor(s)))' <= Cardinality(conf.threads)
  <2>1. AbleFor(s)' \subseteq AbleFor(s)
    BY <1>1 DEF AbleFor
  <2>2. IsFiniteSet(AbleFor(s)) /\ Cardinality(AbleFor(s)) \in Nat /\ Cardinality(Owns(own, s)) \in Nat
        /\ Cardinality(conf.threads) \in Nat
    BY OwnedIsFinite
  <2>3. Cardinality(AbleFor(s)') <= Cardinality(AbleFor(s)) /\ Cardinality(AbleFor(s)') \in Nat
    BY ONLY <2>1, <2>2, FS_Subset, FS_CardinalityType
  <2>4. Owns(own, s)' = Owns(own, s)
    BY DEF Owns
  <2>5. Cardinality(Owns(own, s)) + Cardinality(AbleFor(s)) <= Cardinality(conf.threads)
    BY DEF Owned
  <2>6. Cardinality(Owns(own, s)) + Cardinality(AbleFor(s)') <= Cardinality(conf.threads)
    BY ONLY <2>2, <2>3, <2>5
  <2> QED
    BY <2>4, <2>6
<1>3. \A s \in Streams : PassedOf(s)' = PassedOf(s) /\ Grants(own, s)' = Grants(own, s)
  BY DEF PassedOf, Grants
<1> QED
  BY <1>2, <1>3 DEF Owned

\* A new record belongs to the stream it is made for.
LEMMA OwnedUnderCreate ==
  ASSUME FlowInv, RateInv, RateInv', NEW own, Owned(own), NEW t \in conf.threads, RateCreate(t)
  PROVE  \E new : Owned(new)'
<1> DEFINE n == made + 1
<1>1. PICK s \in Streams : s = StreamOf[msg[t]]
  BY CreateTakesAbility
<1>2. PICK k : k = made + 1
  OBVIOUS
<1> DEFINE new == [r \in 1 .. k |-> IF r = k THEN s ELSE own[r]]
<1>3. /\ pc[t] = "create" /\ pc' = [pc EXCEPT ![t] = "check"]
      /\ UNCHANGED <<conf, msg, passed, granted>>
      /\ made' = k /\ rec' = [rec EXCEPT ![t] = k] /\ state' = [state EXCEPT ![s] = k]
  BY <1>1, <1>2 DEF RateCreate, Goto
<1>4. made \in Nat /\ k \in Nat /\ made + 1 = k /\ state \in [Streams -> 0 .. made]
  BY <1>2 DEF RateInv, RateTypes
<1>5. own \in [1 .. made -> Streams] /\ conf.threads \subseteq Threads /\ t \in Threads
  BY ConfTypes DEF Owned, FlowInv, FlowTypes
<1>6. new \in [1 .. k -> Streams] /\ new[k] = s /\ \A r \in 1 .. made : new[r] = own[r]
  <2>1. \A r \in 1 .. k : r # k => r \in 1 .. made
    BY ONLY <1>4
  <2>2. k \in 1 .. k /\ \A r \in 1 .. made : r \in 1 .. k /\ r # k
    BY ONLY <1>4
  <2> QED
    BY ONLY <1>5, <2>1, <2>2, s \in Streams
<1> HIDE DEF new
<1>7. \A x \in Streams : state'[x] # 0 => new[state'[x]] = x
  <2> TAKE x \in Streams
  <2>1. CASE x = s
    BY <1>3, <1>4, <1>6, <2>1
  <2>2. CASE x # s
    <3>1. state'[x] = state[x] /\ (state[x] # 0 => state[x] \in 1 .. made)
      BY <1>3, <1>4, <2>2
    <3>2. state[x] # 0 => own[state[x]] = x
      BY DEF Owned
    <3> QED
      BY <1>6, <3>1, <3>2
  <2> QED
    BY <2>1, <2>2
<1>8. \A u \in Threads : pc'[u] \in {"check", "count"} => new[rec'[u]] = StreamOf[msg'[u]]
  <2> TAKE u \in Threads
  <2>1. CASE u = t
    BY <1>1, <1>3, <1>5, <1>6, <2>1 DEF RateInv, RateTypes
  <2>2. CASE u # t
    <3>1. pc'[u] = pc[u] /\ rec'[u] = rec[u] /\ msg'[u] = msg[u]
      BY <1>3, <1>5, <2>2 DEF FlowInv, FlowTypes, RateInv, RateTypes
    <3>2. pc[u] \in {"check", "count"} => rec[u] \in 1 .. made /\ own[rec[u]] = StreamOf[msg[u]]
      BY DEF RateInv, Owned, Rating
    <3> QED
      BY <1>6, <3>1, <3>2
  <2> QED
    BY <2>1, <2>2
<1>9. ASSUME NEW x \in Streams
      PROVE  (Cardinality(Owns(new, x)) + Cardinality(AbleFor(x)))' <= Cardinality(conf.threads)
  <2>1. /\ IsFiniteSet(AbleFor(x)) /\ Cardinality(AbleFor(x)) \in Nat
        /\ IsFiniteSet(Owns(own, x)) /\ Cardinality(Owns(own, x)) \in Nat
        /\ Cardinality(conf.threads) \in Nat
        /\ Cardinality(Owns(own, x)) + Cardinality(AbleFor(x)) <= Cardinality(conf.threads)
    BY OwnedIsFinite DEF Owned
  <2>2. \A u \in Threads : pc'[u] = "create" => pc[u] = "create" /\ u # t
    BY <1>3, <1>5 DEF FlowInv, FlowTypes
  <2>3. CASE x = s
    <3>1. Owns(new, s)' = Owns(own, s) \cup {k}
      <4>1. 1 .. k = (1 .. made) \cup {k}
        BY ONLY <1>4
      <4>2. Owns(new, s)' = {r \in 1 .. k : new[r] = s}
        BY <1>3, <1>6 DEF Owns
      <4> QED
        BY ONLY <1>6, <4>1, <4>2 DEF Owns
    <3>2. k \notin Owns(own, s)
      BY <1>4 DEF Owns
    <3>3. Cardinality(Owns(new, s)') = Cardinality(Owns(own, s)) + 1
      BY ONLY <2>1, <2>3, <3>1, <3>2, FS_AddElement
    <3>4. t \in AbleFor(s) /\ AbleFor(s)' \subseteq AbleFor(s) \ {t}
      <4>1. state'[s] # 0
        BY <1>3, <1>4
      <4> QED
        BY <1>1, <1>3, <1>5, <2>2, <4>1 DEF AbleFor
    <3>5. IsFiniteSet(AbleFor(s) \ {t}) /\ Cardinality(AbleFor(s) \ {t}) = Cardinality(AbleFor(s)) - 1
      BY ONLY <2>1, <2>3, <3>4, FS_RemoveElement
    <3>6. Cardinality(AbleFor(s)') \in Nat /\ Cardinality(AbleFor(s)') <= Cardinality(AbleFor(s)) - 1
      BY ONLY <3>4, <3>5, FS_Subset, FS_CardinalityType
    <3>7. Cardinality(Owns(new, s)') + Cardinality(AbleFor(s)') <= Cardinality(conf.threads)
      BY ONLY <2>1, <2>3, <3>3, <3>6
    <3> QED
      BY <1>6, <2>3, <3>7
  <2>4. CASE x # s
    <3>1. Owns(new, x)' = Owns(own, x)
      <4>1. 1 .. k = (1 .. made) \cup {k}
        BY ONLY <1>4
      <4>2. Owns(new, x)' = {r \in 1 .. k : new[r] = x}
        BY <1>3, <1>6 DEF Owns
      <4> QED
        BY ONLY <1>6, <2>4, <4>1, <4>2 DEF Owns
    <3>2. AbleFor(x)' \subseteq AbleFor(x)
      BY <1>3, <1>4, <1>5, <2>2, <2>4 DEF AbleFor
    <3>3. Cardinality(AbleFor(x)') \in Nat /\ Cardinality(AbleFor(x)') <= Cardinality(AbleFor(x))
      BY ONLY <2>1, <3>2, FS_Subset, FS_CardinalityType
    <3>4. Cardinality(Owns(new, x)') + Cardinality(AbleFor(x)') <= Cardinality(conf.threads)
      BY ONLY <2>1, <3>1, <3>3
    <3> QED
      BY <1>6, <3>4
  <2> QED
    BY <1>3, <2>3, <2>4
<1>10. ASSUME NEW x \in Streams
       PROVE  IsFiniteSet(PassedOf(x))' /\ (Cardinality(PassedOf(x)) <= Cardinality(Grants(new, x)))'
  <2>1. IsFiniteSet(PassedOf(x)) /\ Cardinality(PassedOf(x)) <= Cardinality(Grants(own, x))
    BY DEF Owned
  <2>2. PassedOf(x)' = PassedOf(x)
    BY <1>3 DEF PassedOf
  <2>3. IsFiniteSet(Grants(own, x)) /\ Cardinality(Grants(own, x)) \in Nat
    BY OwnedIsFinite
  <2>4. Grants(own, x) \subseteq Grants(new, x)'
    <3>1. 1 .. made \subseteq 1 .. k
      BY ONLY <1>4
    <3> QED
      BY <1>3, <1>6, <3>1 DEF Grants
  <2>5. IsFiniteSet(Grants(new, x)')
    <3>1. IsFiniteSet(1 .. k) /\ IsFiniteSet(1 .. Limit)
      <4>1. k \in Int /\ Limit \in Int /\ 1 \in Int
        BY <1>4, DeliveryAssumption
      <4> QED
        BY ONLY <4>1, FS_Interval, Zenon
    <3>2. IsFiniteSet((1 .. k) \X (1 .. Limit))
      BY ONLY <3>1, FS_Product, Zenon
    <3>3. Grants(new, x)' \subseteq (1 .. k) \X (1 .. Limit)
      BY <1>3, <1>6 DEF Grants
    <3> QED
      BY ONLY <3>2, <3>3, FS_Subset, Zenon
  <2>6. Cardinality(Grants(own, x)) <= Cardinality(Grants(new, x)') /\ Cardinality(Grants(new, x)') \in Nat
    BY ONLY <2>4, <2>5, FS_Subset, FS_CardinalityType
  <2>7. Cardinality(PassedOf(x)) \in Nat
    BY <2>1, FS_CardinalityType
  <2>8. Cardinality(PassedOf(x)) <= Cardinality(Grants(new, x)')
    BY ONLY <2>1, <2>3, <2>6, <2>7
  <2> QED
    BY <1>6, <2>1, <2>2, <2>8
<1>11. Owned(new)'
  BY <1>3, <1>6, <1>7, <1>8, <1>9, <1>10 DEF Owned
<1> QED
  BY <1>11

\* What passes has been granted by the record the goroutine counted on.
LEMMA OwnedUnderCount ==
  ASSUME FlowInv, RateInv, RateInv', NEW own, Owned(own), NEW t \in conf.threads, RateCount(t)
  PROVE  Owned(own)'
<1>1. t \in Threads /\ msg[t] \in Messages /\ conf.threads \subseteq Threads /\ pc \in [Threads -> Labels]
  BY MessageOf, ConfTypes DEF RateCount, FlowInv, FlowTypes
<1>2. PICK r : r = rec[t]
  OBVIOUS
<1>3. PICK m \in Messages : m = msg[t]
  BY <1>1
<1>4. /\ pc[t] = "count" /\ UNCHANGED <<conf, msg, state, made, rec>>
      /\ \E l \in {"accepted", "limited"} : pc' = [pc EXCEPT ![t] = l]
  BY DEF RateCount, Decide, Goto
<1>5. \/ passed' = passed /\ granted' = granted
      \/ passed' = passed \cup {m} /\ granted' = [granted EXCEPT ![r] = @ + 1]
  BY <1>2, <1>3 DEF RateCount, Decide
<1>6. \A u \in Threads : /\ pc'[u] # "create" \/ pc[u] = "create"
                         /\ pc'[u] \in {"check", "count"} => own[rec'[u]] = StreamOf[msg'[u]]
  BY <1>1, <1>4 DEF Owned
<1>7. CASE passed' = passed /\ granted' = granted
  BY <1>4, <1>6, <1>7, OwnedStutters
<1>8. CASE passed' = passed \cup {m} /\ granted' = [granted EXCEPT ![r] = @ + 1]
  <2>1. r \in 1 .. made /\ r \in Records /\ own[r] = StreamOf[m]
    BY <1>1, <1>2, <1>3, <1>4, RecordsInUse DEF RateInv, Rating, Owned
  <2>2. granted \in [Records -> Nat] /\ 1 .. made \subseteq Records /\ Limit \in Nat
    BY RecordsInUse, DeliveryAssumption DEF RateInv, RateTypes
  <2>3. \A x \in Records : granted'[x] = IF x = r THEN granted[x] + 1 ELSE granted[x]
    BY ONLY <1>8, <2>1, <2>2
  <2>4. granted'[r] <= Limit
    BY <2>1 DEF RateInv
  <2>5. ASSUME NEW s \in Streams
        PROVE  (Cardinality(Owns(own, s)) + Cardinality(AbleFor(s)))' <= Cardinality(conf.threads)
    <3>1. AbleFor(s)' = AbleFor(s) \/ AbleFor(s)' \subseteq AbleFor(s)
      BY <1>1, <1>4, <1>6 DEF AbleFor
    <3>2. IsFiniteSet(AbleFor(s)) /\ Cardinality(AbleFor(s)) \in Nat /\ Cardinality(Owns(own, s)) \in Nat
        /\ Cardinality(conf.threads) \in Nat
      BY OwnedIsFinite
    <3>3. Cardinality(AbleFor(s)') <= Cardinality(AbleFor(s)) /\ Cardinality(AbleFor(s)') \in Nat
      BY ONLY <3>1, <3>2, FS_Subset, FS_CardinalityType
    <3>4. Owns(own, s)' = Owns(own, s)
      BY <1>4 DEF Owns
    <3>5. Cardinality(Owns(own, s)) + Cardinality(AbleFor(s)) <= Cardinality(conf.threads)
      BY DEF Owned
    <3>6. Cardinality(Owns(own, s)) + Cardinality(AbleFor(s)') <= Cardinality(conf.threads)
      BY ONLY <3>2, <3>3, <3>5
    <3> QED
      BY <1>4, <3>4, <3>6
  <2>6. ASSUME NEW s \in Streams
        PROVE  IsFiniteSet(PassedOf(s))' /\ (Cardinality(PassedOf(s)) <= Cardinality(Grants(own, s)))'
    <3>1. /\ IsFiniteSet(PassedOf(s)) /\ Cardinality(PassedOf(s)) <= Cardinality(Grants(own, s))
          /\ IsFiniteSet(Grants(own, s)) /\ Cardinality(Grants(own, s)) \in Nat /\ Cardinality(PassedOf(s)) \in Nat
      BY OwnedIsFinite, FS_CardinalityType DEF Owned
    <3>2. IsFiniteSet(Grants(own, s)')
      <4>1. IsFiniteSet(1 .. made) /\ IsFiniteSet(1 .. Limit)
        <5>1. made \in Int /\ Limit \in Int /\ 1 \in Int
          BY <2>2 DEF RateInv, RateTypes
        <5> QED
          BY ONLY <5>1, FS_Interval, Zenon
      <4>2. IsFiniteSet((1 .. made) \X (1 .. Limit))
        BY ONLY <4>1, FS_Product, Zenon
      <4>3. Grants(own, s)' \subseteq (1 .. made) \X (1 .. Limit)
        BY <1>4 DEF Grants
      <4> QED
        BY ONLY <4>2, <4>3, FS_Subset, Zenon
    <3>3. \A x \in 1 .. made : granted[x] \in Nat /\ granted'[x] \in Nat /\ granted[x] <= granted'[x]
      <4>1. \A x \in Records : granted[x] \in Nat /\ granted'[x] \in Nat /\ granted[x] <= granted'[x]
        BY ONLY <2>2, <2>3
      <4> QED
        BY ONLY <2>2, <4>1
    <3>4. Grants(own, s) \subseteq Grants(own, s)'
      <4> SUFFICES ASSUME NEW p \in Grants(own, s) PROVE p \in Grants(own, s)'
        OBVIOUS
      <4>1. p \in (1 .. made) \X (1 .. Limit) /\ own[p[1]] = s /\ p[2] <= granted[p[1]]
        BY DEF Grants
      <4>2. p[1] \in 1 .. made /\ p[2] \in Nat
        BY <2>2, <4>1
      <4>3. p[2] <= granted'[p[1]]
        BY ONLY <3>3, <4>1, <4>2
      <4> QED
        BY <1>4, <4>1, <4>3 DEF Grants
    <3>5. CASE s # StreamOf[m]
      <4>1. PassedOf(s)' = PassedOf(s)
        BY <1>8, <3>5 DEF PassedOf
      <4>2. Cardinality(Grants(own, s)) <= Cardinality(Grants(own, s)') /\ Cardinality(Grants(own, s)') \in Nat
        BY ONLY <3>2, <3>4, FS_Subset, FS_CardinalityType
      <4>3. Cardinality(PassedOf(s)) <= Cardinality(Grants(own, s)')
        BY ONLY <3>1, <4>2
      <4> QED
        BY <3>1, <4>1, <4>3
    <3>6. CASE s = StreamOf[m]
      <4> DEFINE new == <<r, granted[r] + 1>>
      <4>1. new \in Grants(own, s)' /\ new \notin Grants(own, s)
        <5>1. granted'[r] = granted[r] + 1 /\ granted[r] \in Nat
          BY <2>1, <2>2, <2>3
        <5>2. granted[r] + 1 \in 1 .. Limit /\ ~(granted[r] + 1 <= granted[r]) /\ granted[r] + 1 <= granted'[r]
          BY ONLY <2>2, <2>4, <5>1
        <5>3. new \in (1 .. made) \X (1 .. Limit) /\ new[1] = r /\ new[2] = granted[r] + 1
          BY <2>1, <5>2
        <5> QED
          BY <1>4, <2>1, <3>6, <5>2, <5>3 DEF Grants
      <4> HIDE DEF new
      <4>2. Grants(own, s) \cup {new} \subseteq Grants(own, s)'
        BY <3>4, <4>1
      <4>3. Cardinality(Grants(own, s) \cup {new}) = Cardinality(Grants(own, s)) + 1
        BY ONLY <3>1, <4>1, FS_AddElement
      <4>4. Cardinality(Grants(own, s)) + 1 <= Cardinality(Grants(own, s)') /\ Cardinality(Grants(own, s)') \in Nat
        BY ONLY <3>1, <3>2, <4>2, <4>3, FS_Subset, FS_CardinalityType
      <4>5. PassedOf(s)' = PassedOf(s) \cup {m}
        BY <1>8, <3>6 DEF PassedOf
      <4>6. /\ IsFiniteSet(PassedOf(s) \cup {m})
            /\ Cardinality(PassedOf(s) \cup {m}) \in {Cardinality(PassedOf(s)), Cardinality(PassedOf(s)) + 1}
        BY ONLY <3>1, FS_AddElement
      <4>7. Cardinality(PassedOf(s) \cup {m}) <= Cardinality(Grants(own, s)')
        BY ONLY <3>1, <4>4, <4>6
      <4> QED
        BY <4>5, <4>6, <4>7
    <3> QED
      BY <3>5, <3>6
  <2> QED
    BY <1>4, <1>6, <2>5, <2>6 DEF Owned
<1> QED
  BY <1>5, <1>7, <1>8

\* As long as no second has passed, every message that passes is granted by a record of its stream.
LEMMA FirstSecondKept ==
  ASSUME FlowInv, FilterInv, RateInv, RateInv', FirstSecond, [Next]_vars, conf' = conf, ticks' = 0, ticks = 0,
         conf.filter = "Rate"
  PROVE  FirstSecond'
<1>1. /\ old = [r \in Records |-> FALSE] /\ \A t \in Threads : pc[t] \notin {"reset", "swap"}
      /\ \E own : Owned(own)
  BY DEF FirstSecond
<1>2. PICK own : Owned(own)
  BY <1>1
<1>3. conf.threads \subseteq Threads /\ pc \in [Threads -> Labels]
  BY ConfTypes DEF FlowInv, FlowTypes
<1>4. ASSUME UNCHANGED <<state, made, granted, old, passed, rec>>,
             \A u \in Threads : pc'[u] \in Rating => pc'[u] = pc[u] /\ msg'[u] = msg[u]
      PROVE  FirstSecond'
  <2>1. Owned(own)'
    BY <1>2, <1>4, OwnedStutters DEF Owned, Rating
  <2>2. \A t \in Threads : pc'[t] \notin {"reset", "swap"}
    BY <1>1, <1>4 DEF Rating
  <2> QED
    BY <1>1, <1>4, <2>1, <2>2 DEF FirstSecond
<1>5. CASE UNCHANGED vars
  BY <1>4, <1>5 DEF vars, rateVars
<1>6. CASE Tick
  <2>1. ticks' = ticks + 1
    BY <1>6 DEF Tick
  <2> QED
    BY <2>1, ticks = 0, ticks' = 0
<1>7. ASSUME NEW t \in conf.threads, OtherSteps(t) PROVE FirstSecond'
  <2>1. /\ UNCHANGED rateVars /\ \A u \in Threads \ {t} : pc'[u] = pc[u] /\ msg'[u] = msg[u]
        /\ (pc'[t] \notin Counting \/ pc'[t] = conf.filter) /\ passed' = passed
    BY <1>7, OtherStepsCountNothing, conf.filter = "Rate"
  <2>2. pc'[t] \notin Rating /\ passed' = passed
    BY <1>7, <2>1, OtherStepsCountNothing, conf.filter = "Rate" DEF Rating, Counting
  <2> QED
    BY <1>4, <2>1, <2>2 DEF rateVars
<1>8. ASSUME NEW t \in conf.threads, SampleSteps(t) PROVE FirstSecond'
  BY <1>3, <1>8, conf.filter = "Rate" DEF FilterInv, SampleSteps, SampleAdd, SampleSubtract, Sampling
<1>9. ASSUME NEW t \in conf.threads, RateLookup(t) PROVE FirstSecond'
  <2>1. /\ pc[t] = "Rate" /\ rec' = [rec EXCEPT ![t] = state[StreamOf[msg[t]]]]
        /\ pc' = [pc EXCEPT ![t] = IF state[StreamOf[msg[t]]] = 0 THEN "create" ELSE "check"]
        /\ UNCHANGED <<msg, state, made, old, granted, passed>>
    BY <1>9 DEF RateLookup, Goto
  <2>2. StreamOf[msg[t]] \in Streams /\ t \in Threads
    BY <1>3, <2>1, MessageOf, DeliveryAssumption
  <2>3. \A u \in Threads : /\ pc'[u] = "create" => \/ pc[u] = "create" /\ msg'[u] = msg[u]
                                                   \/ state[StreamOf[msg'[u]]] = 0
                           /\ pc'[u] \in {"check", "count"} => own[rec'[u]] = StreamOf[msg'[u]]
    BY <1>2, <1>3, <2>1, <2>2 DEF Owned, RateInv, RateTypes
  <2>4. Owned(own)'
    BY <1>2, <2>1, <2>3, OwnedStutters
  <2>5. \A u \in Threads : pc'[u] \notin {"reset", "swap"}
    BY <1>1, <1>3, <2>1
  <2> QED
    BY <1>1, <2>1, <2>4, <2>5 DEF FirstSecond
<1>10. ASSUME NEW t \in conf.threads, RateCreate(t) PROVE FirstSecond'
  <2>1. old' = old /\ pc' = [pc EXCEPT ![t] = "check"]
    BY <1>10 DEF RateCreate, Goto
  <2>2. \A u \in Threads : pc'[u] \notin {"reset", "swap"}
    BY <1>1, <1>3, <2>1
  <2> QED
    BY <1>1, <1>2, <1>10, <2>1, <2>2, OwnedUnderCreate DEF FirstSecond
<1>11. ASSUME NEW t \in conf.threads, RateCheck(t) PROVE FirstSecond'
  <2>1. /\ pc[t] = "check" /\ pc' = [pc EXCEPT ![t] = IF old[rec[t]] THEN "reset" ELSE "count"]
        /\ UNCHANGED <<msg, state, made, old, granted, passed, rec>>
    BY <1>11 DEF RateCheck, Goto, rateVars
  <2>2. t \in Threads /\ rec[t] \in Records
    BY <1>3, <2>1, RecordsInUse DEF RateInv, Rating
  <2>3. pc' = [pc EXCEPT ![t] = "count"]
    BY <1>1, <2>1, <2>2
  <2>4. Owned(own)'
    <3>1. \A u \in Threads : /\ pc'[u] = "create" => pc[u] = "create" /\ msg'[u] = msg[u]
                             /\ pc'[u] \in {"check", "count"} => pc[u] \in {"check", "count"}
      BY <1>3, <2>1, <2>2, <2>3
    <3>2. \A u \in Threads : pc'[u] \in {"check", "count"} => own[rec'[u]] = StreamOf[msg'[u]]
      BY <1>2, <2>1, <3>1 DEF Owned
    <3> QED
      BY <1>2, <2>1, <3>1, <3>2, OwnedStutters
  <2>5. \A u \in Threads : pc'[u] \notin {"reset", "swap"}
    BY <1>1, <1>3, <2>3
  <2> QED
    BY <1>1, <2>1, <2>4, <2>5 DEF FirstSecond
<1>12. ASSUME NEW t \in conf.threads, RateReset(t) \/ RateSwap(t) PROVE FirstSecond'
  BY <1>1, <1>3, <1>12 DEF RateReset, RateSwap
<1>13. ASSUME NEW t \in conf.threads, RateCount(t) PROVE FirstSecond'
  <2>1. old' = old /\ \E l \in {"accepted", "limited"} : pc' = [pc EXCEPT ![t] = l]
    BY <1>13 DEF RateCount, Decide, Goto
  <2>2. \A u \in Threads : pc'[u] \notin {"reset", "swap"}
    BY <1>1, <1>3, <2>1
  <2> QED
    BY <1>1, <1>2, <1>13, <2>1, <2>2, OwnedUnderCount DEF FirstSecond
<1> QED
  BY <1>5, <1>6, <1>7, <1>8, <1>9, <1>10, <1>11, <1>12, <1>13, Zenon DEF Next, OtherSteps, SampleSteps, RateSteps

\* No step changes the combination, and seconds only pass.
LEMMA ConfKept ==
  ASSUME FlowInv, RateInv, [Next]_vars
  PROVE  conf' = conf /\ (ticks' = 0 => ticks = 0)
<1>1. ticks \in Nat
  BY DEF RateInv, RateTypes
<1>2. CASE Tick \/ UNCHANGED vars
  <2>1. ticks' = ticks + 1 \/ ticks' = ticks
    BY <1>2 DEF Tick, vars, rateVars
  <2>2. conf' = conf
    BY <1>2 DEF Tick, vars
  <2> QED
    BY <1>1, <2>1, <2>2
<1>3. ASSUME NEW t \in conf.threads, RateSteps(t) \/ SampleSteps(t) PROVE conf' = conf /\ ticks' = ticks
  BY <1>3 DEF RateSteps, SampleSteps, SampleAdd, SampleSubtract, RateLookup, RateCreate, RateCheck, RateReset,
              RateSwap, RateCount, rateVars
<1>4. ASSUME NEW t \in conf.threads, OtherSteps(t) PROVE conf' = conf /\ ticks' = ticks
  BY <1>4, OtherStepsCountNothing DEF rateVars
<1> QED
  BY <1>2, <1>3, <1>4, Zenon DEF Next, OtherSteps, SampleSteps, RateSteps

\* The invariant of Rate is kept by every step,
LEMMA RateKept ==
  ASSUME FlowInv, RateInv, [Next]_vars
  PROVE  RateInv'
<1>1. CASE UNCHANGED vars
  BY <1>1, RateStutters DEF vars
<1>2. CASE Tick
  <2>1. /\ UNCHANGED <<pc, msg, state, made, counter, rec, granted>> /\ ticks' = ticks + 1
    BY <1>2 DEF Tick
  <2>2. Able' = Able
    BY <2>1 DEF Able
  <2> QED
    BY <2>1, <2>2 DEF RateInv, RateTypes
<1>3. ASSUME NEW t \in conf.threads, RateSteps(t) PROVE RateInv'
  BY <1>3, RateStepsKept
<1>4. ASSUME NEW t \in conf.threads, SampleSteps(t) PROVE RateInv'
  <2>1. UNCHANGED rateVars /\ msg' = msg /\ pc[t] \in Sampling
        /\ \E l \in {"subtract", "accepted", "limited"} : pc' = [pc EXCEPT ![t] = l]
    BY <1>4 DEF SampleSteps, SampleAdd, SampleSubtract, Decide, Goto, Sampling
  <2>2. pc \in [Threads -> Labels]
    BY DEF FlowInv, FlowTypes
  <2>3. \A u \in Threads : pc'[u] \in Rating => pc'[u] = pc[u] /\ msg'[u] = msg[u]
    BY <2>1, <2>2 DEF Rating
  <2> QED
    BY <2>1, <2>3, RateStutters
<1>5. ASSUME NEW t \in conf.threads, OtherSteps(t) PROVE RateInv'
  <2>1. /\ UNCHANGED rateVars /\ \A u \in Threads \ {t} : pc'[u] = pc[u] /\ msg'[u] = msg[u]
        /\ pc'[t] \notin Counting \/ pc'[t] = conf.filter
    BY <1>5, OtherStepsCountNothing
  <2>2. conf.filter \in {"static", "Rate", "Sample"}
    BY ConfTypes DEF FlowInv, FlowTypes
  <2>3. pc'[t] \notin Rating
    BY ONLY <2>1, <2>2 DEF Rating, Counting
  <2> QED
    BY <2>1, <2>3, RateStutters
<1> QED
  BY <1>1, <1>2, <1>3, <1>4, <1>5, Zenon DEF Next, OtherSteps, SampleSteps, RateSteps

\* and the initial states have it.
LEMMA RateStarts ==
  ASSUME Init
  PROVE  RateInv /\ FilterInv /\ FirstSecond
<1>1. /\ \A t \in Threads : pc[t] = "idle"
      /\ made = 0 /\ ticks = 0 /\ state = [s \in Streams |-> 0] /\ passed = {}
      /\ old = [r \in Records |-> FALSE] /\ granted = [r \in Records |-> 0]
      /\ counter = [r \in Records |-> 0] /\ rec = [t \in Threads |-> 0]
  BY DEF Init, RateInit
<1>2. RateTypes
  BY <1>1 DEF RateTypes
<1>3. made + Cardinality(Able) <= Cardinality(Threads) * Cardinality(Streams)
  <2>1. Cardinality(Able) <= Cardinality(Threads \X Streams)
    BY AbleIsFinite, FS_Subset
  <2>2. Cardinality(Able) <= Cardinality(Threads) * Cardinality(Streams) /\ Cardinality(Able) \in Nat
    BY <2>1, AbleIsFinite
  <2> QED
    BY <1>1, <2>2
<1>4. RateInv
  BY <1>1, <1>2, <1>3, DeliveryAssumption DEF RateInv, Rating
<1>5. FilterInv
  BY <1>1 DEF FilterInv, Sampling, Rating
<1>6. FlowInv
  BY DeliveryAssumption DEF Init, FlowInv, FlowTypes, Labels
<1>7. PICK own : own = [r \in 1 .. made |-> CHOOSE s \in Streams : TRUE]
  OBVIOUS
<1>8. Owned(own)
  <2>1. 1 .. made = {}
    BY <1>1
  <2>2. own \in [1 .. made -> Streams]
    BY <1>7, <2>1
  <2>3. ASSUME NEW s \in Streams
        PROVE  Cardinality(Owns(own, s)) + Cardinality(AbleFor(s)) <= Cardinality(conf.threads)
    <3>1. Owns(own, s) = {} /\ AbleFor(s) = conf.threads
      BY <1>1, <2>1 DEF Owns, AbleFor
    <3>2. Cardinality(Owns(own, s)) = 0 /\ Cardinality(conf.threads) \in Nat
      BY <1>4, <1>6, <3>1, OwnedIsFinite, FS_EmptySet
    <3> QED
      BY <3>1, <3>2
  <2>4. ASSUME NEW s \in Streams
        PROVE  IsFiniteSet(PassedOf(s)) /\ Cardinality(PassedOf(s)) <= Cardinality(Grants(own, s))
    <3>1. PassedOf(s) = {}
      BY <1>1 DEF PassedOf
    <3>2. IsFiniteSet(PassedOf(s)) /\ Cardinality(PassedOf(s)) = 0
      BY <3>1, FS_EmptySet
    <3>3. Cardinality(Grants(own, s)) \in Nat
      BY <1>4, <1>6, OwnedIsFinite
    <3> QED
      BY <3>2, <3>3
  <2> QED
    BY <1>1, <2>2, <2>3, <2>4 DEF Owned
<1>9. FirstSecond
  BY <1>1, <1>8 DEF FirstSecond
<1> QED
  BY <1>4, <1>5, <1>9

\* Between two resets no record grants more than Limit, whatever its goroutines do; and in the
\* first second of a stream, when each goroutine may make a record of its own, no more than that
\* for each of them passes.
THEOREM LimitsHold == Spec => []RateHolds
<1> DEFINE Inv == DeliveryInv /\ FilterInv /\ RateInv /\ FirstSecond
<1>1. Init => FilterInv /\ RateInv /\ FirstSecond
  BY RateStarts
<1>2. DeliveryInv /\ FilterInv /\ RateInv /\ FirstSecond /\ [Next]_vars => FilterInv' /\ RateInv' /\ FirstSecond'
  <2> SUFFICES ASSUME DeliveryInv, FilterInv, RateInv, FirstSecond, [Next]_vars
               PROVE  FilterInv' /\ RateInv' /\ FirstSecond'
    OBVIOUS
  <2>1. FlowInv
    BY DEF DeliveryInv
  <2>2. FilterInv' /\ RateInv'
    BY <2>1, FilterKept, RateKept
  <2>3. FirstSecond'
    <3>1. conf' = conf /\ (ticks' = 0 => ticks = 0)
      BY <2>1, ConfKept
    <3>2. CASE ticks' = 0 /\ conf.filter = "Rate"
      BY <2>1, <2>2, <3>1, <3>2, FirstSecondKept
    <3>3. CASE ~(ticks' = 0 /\ conf.filter = "Rate")
      BY <3>1, <3>3 DEF FirstSecond
    <3> QED
      BY <3>2, <3>3
  <2> QED
    BY <2>2, <2>3
<1>3. DeliveryInv /\ RateInv /\ FirstSecond => RateHolds
  <2> SUFFICES ASSUME DeliveryInv, RateInv, FirstSecond PROVE RateHolds
    OBVIOUS
  <2>1. \A r \in Records : granted[r] <= Limit
    BY DEF RateInv
  <2>2. ASSUME conf.filter = "Rate", ticks = 0, NEW s \in Streams
        PROVE  Cardinality(PassedOf(s)) <= Limit * Cardinality(conf.threads)
    <3>1. PICK own : Owned(own)
      BY <2>2 DEF FirstSecond
    <3> QED
      BY <3>1, GrantsAreBounded DEF DeliveryInv
  <2> QED
    BY <2>1, <2>2 DEF RateHolds, PassedOf
<1> QED
  BY <1>1, <1>2, <1>3, DeliveryInvariant, PTL DEF Spec

-----------------------------------------------------------------------------
(* RoundRobin *)

\* The messages x has got.
Got(x) == {m \in Messages : sent[m][x] > 0}

\* After n messages on a circle of L, the first ones without the head are one ahead.
InTurn(f, L, n) == \E z \in Nat : \A p \in 1 .. L : f[p] = IF p # 1 /\ p - 1 <= n % L THEN z + 1 ELSE z

\* The producers have got index messages in turn, and an index that has wrapped around does not come back to zero
\* without a panic.
TurnInv ==
  conf.stream = "RoundRobin" =>
    /\ \A x \in Targets : IsFiniteSet(Got(x))
    /\ Len(conf.producers) > 1 /\ panicked = {} =>
         /\ index # -1
         /\ index >= 0 => InTurn([p \in 1 .. Len(conf.producers) |-> Cardinality(Got(conf.producers[p]))],
                                 Len(conf.producers), index)

\* The steps of a stream that goes round in turns, as far as its producers are concerned.
LEMMA OnlyTurnsSend ==
  ASSUME DeliveryInv, conf.stream = "RoundRobin", [Next]_vars
  PROVE  \/ UNCHANGED <<conf, sent, index, panicked>>
         \/ \E t \in conf.threads : RoundRobin(t)
<1>1. CASE Tick \/ UNCHANGED vars
  BY <1>1 DEF Tick, vars, endVars
<1>2. ASSUME NEW t \in conf.threads, NEW m \in Messages, Enqueue(t, m) PROVE UNCHANGED <<conf, sent, panicked>>
  BY <1>2 DEF Enqueue, endVars
<1>3. ASSUME NEW t \in conf.threads, Moves(t) PROVE UNCHANGED <<conf, sent, panicked>>
  BY <1>3 DEF Moves, endVars
<1>4. ASSUME NEW t \in conf.threads, Limited(t) PROVE UNCHANGED <<conf, sent, panicked>>
  BY <1>4 DEF Limited
<1>5. ASSUME NEW t \in conf.threads PROVE pc[t] \notin Routing
  BY ConfTypes DEF DeliveryInv, EndsInv, FlowInv, FlowTypes
<1>6. ASSUME NEW t \in conf.threads, RouteSend(t) PROVE FALSE
  BY <1>5, <1>6 DEF RouteSend, Routing
<1>7. ASSUME NEW t \in conf.threads, Leaving(t), ~RoundRobin(t) PROVE UNCHANGED <<conf, sent, panicked>>
  <2>1. ~Routed(t) /\ ~RouteRead(t) /\ ~RouteReplace(t)
    BY <1>5 DEF Routed, RouteRead, RouteReplace, Routing
  <2>2. ~Broadcast(t) /\ ~Random(t)
    BY DEF Broadcast, Random
  <2>3. CASE Filtered(t)
    BY <2>3 DEF Filtered
  <2>4. CASE NoProducers(t)
    BY <2>4 DEF NoProducers
  <2> QED
    BY <1>7, <2>1, <2>2, <2>3, <2>4 DEF Leaving
<1>8. EndTypes /\ conf.max \in Nat /\ index \in Int
  BY ConfTypes DEF DeliveryInv, EndsInv, FlowInv, FlowTypes
<1>9. UNCHANGED <<conf, sent, panicked>> \/ \E t \in conf.threads : RoundRobin(t)
  BY <1>1, <1>2, <1>3, <1>4, <1>6, <1>7, <1>8, Shapes, Zenon
<1>10. index' = index \/ \E t \in conf.threads : RoundRobin(t)
  BY OnlyTurnsCount
<1> QED
  BY <1>9, <1>10

\* Division with remainder.
LEMMA Division ==
  ASSUME NEW n \in Int, NEW g \in Nat \ {0}
  PROVE  /\ n \div g \in Int /\ n % g \in 0 .. g - 1
         /\ n = g * (n \div g) + (n % g)
OBVIOUS

\* It is unique.
LEMMA DivisionIsUnique ==
  ASSUME NEW g \in Nat \ {0}, NEW q \in Int, NEW k \in Int, NEW r \in 0 .. g - 1, NEW s \in 0 .. g - 1,
         g * q + r = g * k + s
  PROVE  r = s
<1>1. g * (q - k) = s - r
  OBVIOUS
<1>2. CASE q - k >= 1
  <2>1. g * (q - k) >= g
    BY <1>2, Z3
  <2> QED
    BY <1>1, <2>1
<1>3. CASE q - k <= -1
  <2>1. g * (q - k) <= -g
    BY <1>3, Z3
  <2> QED
    BY <1>1, <2>1
<1>4. CASE q = k
  BY <1>1, <1>4
<1> QED
  BY <1>2, <1>3, <1>4

\* The remainder counts up to the divisor and starts again.
LEMMA NextRemainder ==
  ASSUME NEW n \in Nat, NEW g \in Nat \ {0}
  PROVE  (n + 1) % g = IF n % g = g - 1 THEN 0 ELSE (n % g) + 1
<1> DEFINE q == n \div g  r == n % g  k == (n + 1) \div g  s == (n + 1) % g
<1>1. q \in Int /\ k \in Int /\ r \in 0 .. g - 1 /\ s \in 0 .. g - 1 /\ n = g * q + r /\ n + 1 = g * k + s
  BY Division
<1> HIDE DEF q, r, k, s
<1>2. CASE r = g - 1
  <2>1. g * k + s = g * (q + 1) + 0
    BY <1>1, <1>2
  <2>2. s = 0
    BY <1>1, <2>1, DivisionIsUnique
  <2> QED
    BY <1>2, <2>2 DEF r, s
<1>3. CASE r # g - 1
  <2>1. g * k + s = g * q + (r + 1) /\ r + 1 \in 0 .. g - 1
    BY <1>1, <1>3
  <2>2. s = r + 1
    BY <1>1, <2>1, DivisionIsUnique
  <2> QED
    BY <1>3, <2>2 DEF r, s
<1> QED
  BY <1>2, <1>3

\* A number of whole groups and a place in the next one has that place as its remainder.
LEMMA PlaceInGroup ==
  ASSUME NEW g \in Nat \ {0}, NEW n \in Int, NEW q \in Int, NEW r \in 0 .. g - 1, n = g * q + r
  PROVE  n % g = r
<1>1. PICK k \in Int, s \in 0 .. g - 1 : s = n % g /\ n = g * k + s
  BY Division
<1>2. g * k + s = g * q + r
  BY <1>1
<1>3. s = r
  BY ONLY <1>2, DivisionIsUnique, g \in Nat \ {0}, k \in Int, q \in Int, s \in 0 .. g - 1, r \in 0 .. g - 1
<1> QED
  BY <1>1, <1>3

\* A number within a group is its own remainder.
LEMMA Within ==
  ASSUME NEW g \in Nat \ {0}, NEW n \in 0 .. g - 1
  PROVE  n % g = n
<1>1. n = g * 0 + n
  OBVIOUS
<1> QED
  BY <1>1, PlaceInGroup

\* A group less makes no difference to the remainder.
LEMMA GroupLess ==
  ASSUME NEW c \in Int, NEW g \in Nat \ {0}
  PROVE  (c - g) % g = c % g
<1>1. PICK q \in Int, r \in 0 .. g - 1 : r = c % g /\ c = g * q + r
  BY Division
<1>2. c - g = g * (q - 1) + r
  BY <1>1
<1>3. PICK d \in Int, k \in Int : d = c - g /\ k = q - 1
  OBVIOUS
<1>4. d = g * k + r
  BY <1>2, <1>3
<1>5. d % g = r
  BY ONLY <1>4, PlaceInGroup, g \in Nat \ {0}, d \in Int, k \in Int, r \in 0 .. g - 1
<1> QED
  BY <1>1, <1>3, <1>5

\* The smallest remainders.
LEMMA FirstRemainders ==
  ASSUME NEW g \in Nat, g > 1
  PROVE  0 % g = 0 /\ 1 % g = 1
<1>1. g \in Nat \ {0} /\ 0 \in 0 .. g - 1 /\ 1 \in 0 .. g - 1
  OBVIOUS
<1> QED
  BY ONLY <1>1, Within

\* If the next one on a circle gets one more, it is still in turn.
LEMMA NextTurn ==
  ASSUME NEW L \in Nat \ {0}, NEW n \in Nat, NEW c, NEW d, InTurn(c, L, n),
         \A p \in 1 .. L : d[p] = IF p = ((n + 1) % L) + 1 THEN c[p] + 1 ELSE c[p]
  PROVE  InTurn(d, L, n + 1)
<1>0. PICK q \in Nat : \A p \in 1 .. L : c[p] = IF p # 1 /\ p - 1 <= n % L THEN q + 1 ELSE q
  BY DEF InTurn
<1>1. PICK r \in 0 .. L - 1 : r = n % L
  BY Division
<1>2. PICK s \in 0 .. L - 1 : s = (n + 1) % L
  <2>1. n + 1 \in Int /\ L \in Nat \ {0}
    OBVIOUS
  <2>2. (n + 1) % L \in 0 .. L - 1
    BY ONLY <2>1, Division
  <2> QED
    BY <2>2
<1>3. s = IF r = L - 1 THEN 0 ELSE r + 1
  BY <1>1, <1>2, NextRemainder
<1>4. /\ \A p \in 1 .. L : c[p] = IF p # 1 /\ p - 1 <= r THEN q + 1 ELSE q
      /\ \A p \in 1 .. L : d[p] = IF p = s + 1 THEN c[p] + 1 ELSE c[p]
  BY <1>0, <1>1, <1>2
<1>5. \E z \in Nat : \A p \in 1 .. L : d[p] = IF p # 1 /\ p - 1 <= s THEN z + 1 ELSE z
  <2>1. CASE r = L - 1
    <3>1. \A p \in 1 .. L : d[p] = IF p # 1 /\ p - 1 <= s THEN (q + 1) + 1 ELSE q + 1
      BY <1>3, <1>4, <2>1
    <3> QED
      BY <3>1
  <2>2. CASE r # L - 1
    <3>1. \A p \in 1 .. L : d[p] = IF p # 1 /\ p - 1 <= s THEN q + 1 ELSE q
      BY <1>3, <1>4, <2>2
    <3> QED
      BY <3>1
  <2> QED
    BY <2>1, <2>2
<1> QED
  BY <1>2, <1>5 DEF InTurn

\* A producer whose turn it is gets one message more.
LEMMA OneMoreGot ==
  ASSUME DeliveryInv, NEW t \in conf.threads, pc[t] = "accepted", NEW y \in Targets,
         \A x \in Targets : IsFiniteSet(Got(x)), Deliver(msg[t], {y})
  PROVE  /\ \A x \in Targets : IsFiniteSet(Got(x)')
         /\ \A x \in Targets \ {y} : Got(x)' = Got(x)
         /\ Cardinality(Got(y)) \in Nat /\ Cardinality(Got(y)') = Cardinality(Got(y)) + 1
<1>1. FlowInv /\ sent \in [Messages -> [Targets -> Nat]]
  BY DEF DeliveryInv, EndsInv, EndTypes
<1>2. t \in Threads /\ msg[t] \in Messages
  BY <1>1, MessageOf
<1>3. PICK m \in Messages : m = msg[t]
  BY <1>2
<1>4. \A x \in Targets : sent[m][x] = 0
  BY <1>2, <1>3 DEF DeliveryInv, EndsInv, Before, Untouched, Unsent
<1>5. sent' = [sent EXCEPT ![m] = [x \in Targets |-> IF x \in {y} THEN sent[m][x] + 1 ELSE sent[m][x]]]
  BY <1>1, <1>3 DEF Deliver
<1>6. \A k \in Messages : \A x \in Targets : sent'[k][x] = IF k = m /\ x = y THEN 1 ELSE sent[k][x]
  BY <1>1, <1>4, <1>5
<1>7. \A x \in Targets \ {y} : Got(x)' = Got(x)
  BY <1>6 DEF Got
<1>8. Got(y)' = Got(y) \cup {m} /\ m \notin Got(y)
  BY <1>4, <1>6 DEF Got
<1>9. IsFiniteSet(Got(y)') /\ Cardinality(Got(y)') = Cardinality(Got(y)) + 1 /\ Cardinality(Got(y)) \in Nat
  BY <1>8, FS_AddElement, FS_CardinalityType
<1> QED
  BY <1>7, <1>9

\* A turn goes to the next producer.
LEMMA TurnTaken ==
  ASSUME DeliveryInv, TurnInv, conf.stream = "RoundRobin", NEW t \in conf.threads, RoundRobin(t)
  PROVE  TurnInv'
<1>1. /\ conf.producers \in Seq(Producers) /\ conf.max \in Nat /\ index \in Int
      /\ \A a, b \in 1 .. Len(conf.producers) : conf.producers[a] = conf.producers[b] => a = b
  BY ConfTypes, DeliveryAssumption DEF DeliveryInv, FlowInv, FlowTypes
<1>2. conf.producers # <<>>
  BY DEF RoundRobin
<1>3. PICK P \in Seq(Producers) : P = conf.producers
  BY <1>1
<1>4. PICK L \in Nat \ {0} : L = Len(P)
  BY <1>2, <1>3
<1>5. PICK n \in Int : n = NextIndex(index) /\ n = IF index = conf.max THEN -conf.max - 1 ELSE index + 1
  BY <1>1 DEF NextIndex
<1>6. PICK k : k = IF n < 0 THEN 1 ELSE (n % L) + 1
  OBVIOUS
<1>7. /\ pc[t] = "accepted" /\ index' = n /\ conf' = conf
      /\ IF n < 0 /\ ~((-n) % L = 0)
           THEN panicked' = panicked \cup {t} /\ sent' = sent
           ELSE Deliver(msg[t], {P[k]}) /\ panicked' = panicked
  BY <1>3, <1>4, <1>5, <1>6 DEF RoundRobin
<1>8. /\ \A x \in Targets : IsFiniteSet(Got(x))
      /\ L > 1 /\ panicked = {} =>
           /\ index # -1
           /\ index >= 0 => InTurn([p \in 1 .. L |-> Cardinality(Got(P[p]))], L, index)
  BY <1>3, <1>4 DEF TurnInv
<1>9. SUFFICES /\ \A x \in Targets : IsFiniteSet(Got(x)')
               /\ L > 1 /\ panicked' = {} =>
                    /\ n # -1
                    /\ n >= 0 => InTurn([p \in 1 .. L |-> Cardinality(Got(P[p])')], L, n)
  BY <1>3, <1>4, <1>7 DEF TurnInv
<1>10. CASE n < 0 /\ ~((-n) % L = 0)
  <2>1. panicked' # {} /\ sent' = sent
    BY <1>7, <1>10
  <2>2. \A x \in Targets : IsFiniteSet(Got(x)')
    BY <1>8, <2>1 DEF Got
  <2> QED
    BY <2>1, <2>2
<1>11. CASE ~(n < 0 /\ ~((-n) % L = 0))
  <2>1. Deliver(msg[t], {P[k]}) /\ panicked' = panicked
    BY <1>7, <1>11
  <2>2. k \in 1 .. L
    <3>1. n % L \in 0 .. L - 1
      BY Division
    <3> QED
      BY <1>6, <3>1
  <2>3. \A p \in 1 .. L : P[p] \in Targets
    BY <1>4 DEF Targets
  <2>4. PICK y \in Targets : y = P[k]
    BY <2>2, <2>3
  <2>5. /\ \A x \in Targets : IsFiniteSet(Got(x)')
        /\ \A x \in Targets \ {y} : Got(x)' = Got(x)
        /\ Cardinality(Got(y)) \in Nat /\ Cardinality(Got(y)') = Cardinality(Got(y)) + 1
    BY <1>7, <1>8, <2>1, <2>4, OneMoreGot
  <2>6. ASSUME L > 1 PROVE n # -1
    <3>1. 1 % L = 1
      BY <2>6, FirstRemainders
    <3>2. n = -1 => 1 % L = 0
      BY <1>11
    <3> QED
      BY <3>1, <3>2
  <2>7. ASSUME L > 1, panicked' = {}, n >= 0
        PROVE  InTurn([p \in 1 .. L |-> Cardinality(Got(P[p])')], L, n)
    <3>1. panicked = {} /\ index # -1 /\ n = index + 1
      BY <1>1, <1>5, <1>8, <2>1, <2>7
    <3>2. PICK a \in Nat : a = index /\ n = a + 1
      BY <1>1, <2>7, <3>1
    <3>3. PICK c : c = [p \in 1 .. L |-> Cardinality(Got(P[p]))]
      OBVIOUS
    <3>4. PICK d : d = [p \in 1 .. L |-> Cardinality(Got(P[p])')]
      OBVIOUS
    <3>5. InTurn(c, L, a)
      <4>1. index >= 0
        BY <3>2
      <4> QED
        BY <1>8, <2>7, <3>1, <3>2, <3>3, <4>1, Zenon
    <3>6. k = ((a + 1) % L) + 1
      BY <1>6, <2>7, <3>2
    <3>7. \A p \in 1 .. L : d[p] = IF p = k THEN c[p] + 1 ELSE c[p]
      <4>1. \A p \in 1 .. L : p # k => P[p] # y
        BY <1>1, <1>3, <1>4, <2>2, <2>4
      <4> QED
        BY <2>2, <2>3, <2>4, <2>5, <3>3, <3>4, <4>1
    <3>8. \A p \in 1 .. L : d[p] = IF p = ((a + 1) % L) + 1 THEN c[p] + 1 ELSE c[p]
      BY <3>6, <3>7
    <3>9. InTurn(d, L, a + 1)
      BY <3>5, <3>8, NextTurn
    <3> QED
      BY <3>2, <3>4, <3>9
  <2> QED
    BY <2>5, <2>6, <2>7
<1> QED
  BY <1>10, <1>11

\* The invariant of RoundRobin is kept.
LEMMA TurnKept ==
  ASSUME DeliveryInv, TurnInv, [Next]_vars
  PROVE  TurnInv'
<1>1. conf' = conf
  <2>1. EndTypes
    BY DEF DeliveryInv, EndsInv
  <2> QED
    BY <2>1, Shapes DEF Tick, vars, Enqueue, Moves, Limited, RouteSend, Leaves
<1>2. CASE conf.stream # "RoundRobin"
  BY <1>1, <1>2 DEF TurnInv
<1>3. CASE conf.stream = "RoundRobin" /\ UNCHANGED <<sent, index, panicked>>
  BY <1>1, <1>3 DEF TurnInv, Got
<1> QED
  BY <1>2, <1>3, OnlyTurnsSend, TurnTaken

\* Until its index wraps around, RoundRobin treats all producers alike, whoever enqueues.
THEOREM TurnsAreFair == Spec => []RoundRobinIsFair
<1>1. Init => TurnInv
  <2> SUFFICES ASSUME Init PROVE TurnInv
    OBVIOUS
  <2>1. \A x \in Targets : Got(x) = {}
    BY DEF Init, Got
  <2>2. Cardinality({}) = 0 /\ IsFiniteSet({})
    BY FS_EmptySet
  <2>3. index = 0 /\ conf.producers \in Seq(Producers)
    BY ConfTypes DEF Init, RoundRobinInit
  <2>4. PICK L \in Nat : L = Len(conf.producers)
    BY <2>3
  <2>5. \A p \in 1 .. L : conf.producers[p] \in Targets
    BY <2>3, <2>4 DEF Targets
  <2>6. ASSUME L > 1 PROVE 0 % L = 0
    BY <2>6, FirstRemainders
  <2>7. ASSUME L > 1 PROVE index % L = 0
    BY <2>3, <2>6, <2>7, Zenon
  <2>8. ASSUME L > 1
        PROVE  InTurn([p \in 1 .. L |-> Cardinality(Got(conf.producers[p]))], L, index)
    <3>1. PICK r : r = index % L
      OBVIOUS
    <3>2. r = 0
      BY <2>7, <2>8, <3>1
    <3>3. PICK c : c = [p \in 1 .. L |-> Cardinality(Got(conf.producers[p]))]
      OBVIOUS
    <3>4. 0 \in Nat /\ \A p \in 1 .. L : c[p] = IF p # 1 /\ p - 1 <= r THEN 0 + 1 ELSE 0
      <4>1. \A p \in 1 .. L : Cardinality(Got(conf.producers[p])) = 0
        BY <2>1, <2>2, <2>5
      <4> QED
        BY ONLY <3>2, <3>3, <4>1
    <3>5. InTurn(c, L, index)
      BY <3>1, <3>4, Zenon DEF InTurn
    <3> QED
      BY <3>3, <3>5
  <2> QED
    <3>1. \A x \in Targets : IsFiniteSet(Got(x))
      BY <2>1, <2>2
    <3>2. index # -1
      BY <2>3
    <3> QED
      BY <2>4, <2>8, <3>1, <3>2, Zenon DEF TurnInv
<1>2. DeliveryInv /\ TurnInv => RoundRobinIsFair
  <2> SUFFICES ASSUME DeliveryInv, TurnInv, conf.stream = "RoundRobin", index >= 0, panicked = {},
                      NEW x \in Range(conf.producers), NEW y \in Range(conf.producers)
               PROVE  Cardinality(Got(x)) - Cardinality(Got(y)) \in {-1, 0, 1}
    BY DEF RoundRobinIsFair, Got
  <2>1. conf.producers \in Seq(Producers)
    BY ConfTypes DEF DeliveryInv, FlowInv, FlowTypes
  <2>2. PICK a \in 1 .. Len(conf.producers), b \in 1 .. Len(conf.producers) :
          x = conf.producers[a] /\ y = conf.producers[b]
    BY <2>1 DEF Range
  <2>3. CASE Len(conf.producers) > 1
    <3>1. PICK L \in Nat : L = Len(conf.producers)
      BY <2>1
    <3>2. InTurn([p \in 1 .. L |-> Cardinality(Got(conf.producers[p]))], L, index)
      BY <2>3, <3>1 DEF TurnInv
    <3>3. PICK r : r = index % L
      OBVIOUS
    <3>4. PICK z \in Nat : \A p \in 1 .. L :
            Cardinality(Got(conf.producers[p])) = IF p # 1 /\ p - 1 <= r THEN z + 1 ELSE z
      BY <3>2, <3>3 DEF InTurn
    <3>5. Cardinality(Got(x)) \in {z, z + 1} /\ Cardinality(Got(y)) \in {z, z + 1}
      BY <2>2, <3>1, <3>4
    <3> QED
      BY <3>5
  <2>4. CASE ~(Len(conf.producers) > 1)
    <3>1. x = y /\ x \in Targets
      BY <2>1, <2>2, <2>4 DEF Targets
    <3>2. Cardinality(Got(x)) \in Nat
      BY <3>1, FS_CardinalityType DEF TurnInv
    <3> QED
      BY <3>1, <3>2
  <2> QED
    BY <2>3, <2>4
<1> QED
  BY <1>1, <1>2, DeliveryInvariant, TurnKept, PTL DEF Spec

-----------------------------------------------------------------------------
(* Sample *)

Ticketed == {m \in Messages : ticket[m] > 0}
Subtracting == {t \in Threads : pc[t] = "subtract"}

\* Of P goroutines that are about to subtract a group each has made the counter that much
\* larger, and by one more, which is the place it got; it never counts beyond the next group.
InBounds(c, P) ==
  /\ P * Group <= c /\ (P > 0 => P * Group + 1 <= c)
  /\ Group > 1 => c <= (P + 1) * Group

\* The counter knows how many tickets there are, up to whole groups.
CountInv ==
  /\ count \in Int /\ ticket \in [Messages -> Nat] /\ IsFiniteSet(Ticketed)
  /\ count % Group = Cardinality(Ticketed) % Group
  /\ InBounds(count, Cardinality(Subtracting))
  /\ \A t \in Threads : pc[t] = "subtract" => Group > 1

\* What a ticket says: only the first message of a group subtracts, and who passes is one of
\* the first SampleRate.
TicketInv ==
  /\ passed \subseteq Messages
  /\ \A m \in fresh : ticket[m] = 0 /\ m \notin passed
  /\ \A t \in Threads : pc[t] = "Sample" => ticket[msg[t]] = 0 /\ msg[t] \notin passed
  /\ \A t \in Threads : pc[t] = "subtract" => (ticket[msg[t]] - 1) % Group = 0
  /\ \A m \in passed : ticket[m] > 0 => (ticket[m] - 1) % Group < SampleRate
  /\ conf.filter # "Sample" => \A m \in Messages : ticket[m] = 0

SampleInv == CountInv /\ TicketInv

\* There are not more of them than goroutines.
LEMMA SubtractingIsFinite ==
  /\ IsFiniteSet(Subtracting) /\ Cardinality(Subtracting) \in Nat
  /\ Cardinality(Threads) \in Nat /\ Cardinality(Subtracting) <= Cardinality(Threads)
BY DeliveryAssumption, FS_Subset, FS_CardinalityType DEF Subtracting

\* The steps outside of Sample leave its state alone.
LEMMA SampleStutters ==
  ASSUME SampleInv, UNCHANGED <<count, ticket, conf>>, fresh' \subseteq fresh,
         \A u \in Threads : pc'[u] = "subtract" <=> pc[u] = "subtract",
         \A u \in Threads : pc[u] = "subtract" => msg'[u] = msg[u],
         \A u \in Threads : pc'[u] = "Sample" => \/ pc[u] = "Sample" /\ msg'[u] = msg[u]
                                                 \/ msg'[u] \in fresh,
         \A m \in passed' : \/ m \in passed
                            \/ /\ m \in Messages /\ ~(ticket[m] > 0) /\ m \notin fresh'
                               /\ \A u \in Threads : pc'[u] = "Sample" => msg'[u] # m
  PROVE  SampleInv'
<1>1. Ticketed' = Ticketed /\ Subtracting' = Subtracting
  BY DEF Ticketed, Subtracting
<1>2. CountInv'
  BY <1>1 DEF SampleInv, CountInv, InBounds
<1>3. TicketInv'
  BY DEF SampleInv, TicketInv
<1> QED
  BY <1>2, <1>3 DEF SampleInv

\* Adding one: the first of a group is the first one beyond the group that is allowed, and
\* takes on a subtraction.
LEMMA BoundsUnderAdd ==
  ASSUME NEW c \in Int, NEW P \in Nat, InBounds(c, P)
  PROVE  /\ FirstOfGroup(c + 1) => Group > 1 /\ InBounds(c + 1, P + 1)
         /\ ~FirstOfGroup(c + 1) => InBounds(c + 1, P)
<1>1. PICK g \in Nat \ {0} : g = Group
  BY DeliveryAssumption
<1>2. PICK x \in Nat : x = P * g /\ x = g * P
  OBVIOUS
<1>3. (P + 1) * g = x + g /\ (P + 2) * g = x + g + g
  BY <1>2
<1>4. PICK n \in Int : n = c + 1
  OBVIOUS
<1>5. x <= c /\ (P > 0 => x + 1 <= c) /\ (g > 1 => c <= x + g)
  BY <1>1, <1>2, <1>3 DEF InBounds
<1>6. ASSUME FirstOfGroup(n) PROVE g > 1 /\ n = x + g + 1
  <2>1. n > g /\ n % g = 1
    BY <1>1, <1>6 DEF FirstOfGroup
  <2>2. g > 1
    <3>1. n % g \in 0 .. g - 1
      BY Division
    <3> QED
      BY <2>1, <3>1
  <2>3. n # x + g
    <3>1. n = x + g => n = g * (P + 1) + 0
      BY <1>2
    <3>2. n = g * (P + 1) + 0 => n % g = 0
      BY PlaceInGroup
    <3> QED
      BY <2>1, <3>1, <3>2
  <2>4. ASSUME n - x \in 1 .. g - 1 PROVE n - x = 1
    <3>1. PICK j \in 0 .. g - 1 : j = n - x
      BY <2>4
    <3>2. n = g * P + j
      BY <1>2, <3>1
    <3>3. n % g = j
      BY <3>2, PlaceInGroup
    <3> QED
      BY <2>1, <3>1, <3>3
  <2>5. P = 0 => x = 0
    BY <1>2
  <2> QED
    BY <1>4, <1>5, <2>1, <2>2, <2>3, <2>4, <2>5
<1>7. ASSUME g > 1, n = x + g + 1 PROVE FirstOfGroup(n)
  <2>1. PICK q \in Int, j \in 0 .. g - 1 : q = P + 1 /\ j = 1
    BY <1>7
  <2>2. n = g * q + j
    BY <1>2, <1>7, <2>1
  <2>3. n % g = 1
    BY <2>1, <2>2, PlaceInGroup
  <2> QED
    BY <1>1, <1>7, <2>3 DEF FirstOfGroup
<1>8. FirstOfGroup(n) => Group > 1 /\ InBounds(n, P + 1)
  <2>1. P + 1 + 1 = P + 2 /\ P + 1 > 0
    OBVIOUS
  <2> QED
    BY <1>1, <1>3, <1>6, <2>1 DEF InBounds
<1>9. ~FirstOfGroup(n) => InBounds(n, P)
  BY <1>1, <1>2, <1>3, <1>4, <1>5, <1>7 DEF InBounds
<1> QED
  BY <1>4, <1>8, <1>9

\* Subtracting a group, one goroutine less is about to do so.
LEMMA BoundsUnderSubtract ==
  ASSUME NEW c \in Int, NEW P \in Nat, P > 0, InBounds(c, P)
  PROVE  c - Group >= 1 /\ InBounds(c - Group, P - 1)
<1>1. PICK g \in Nat \ {0} : g = Group
  BY DeliveryAssumption
<1>2. PICK x \in Nat : x = (P - 1) * g
  OBVIOUS
<1>3. P * g = x + g /\ (P + 1) * g = x + g + g /\ (P - 1 + 1) * g = x + g
  BY <1>2
<1>4. x + g + 1 <= c /\ (g > 1 => c <= x + g + g)
  BY <1>1, <1>3 DEF InBounds
<1> QED
  BY <1>1, <1>2, <1>3, <1>4 DEF InBounds

\* A turn that is accepted is one of the first in its group.
LEMMA AcceptedTurn ==
  ASSUME NEW c \in Nat, TurnOf(c + 1) <= SampleRate
  PROVE  c % Group < SampleRate
<1>1. PICK g \in Nat \ {0} : g = Group
  BY DeliveryAssumption
<1>2. PICK r \in 0 .. g - 1 : r = c % g
  <2>1. c \in Int
    OBVIOUS
  <2> QED
    BY ONLY <1>1, <2>1, Division
<1>3. SampleRate \in Nat
  BY DeliveryAssumption
<1>4. CASE c + 1 > g
  <2>1. TurnOf(c + 1) = r + 1
    <3>1. (c + 1) - 1 = c
      OBVIOUS
    <3> QED
      BY <1>1, <1>2, <1>4, <3>1 DEF TurnOf
  <2> QED
    BY <1>1, <1>2, <1>3, <2>1
<1>5. CASE ~(c + 1 > g)
  <2>1. TurnOf(c + 1) = c + 1
    BY <1>1, <1>5 DEF TurnOf
  <2>2. r = c
    <3>1. c \in 0 .. g - 1
      BY <1>5
    <3> QED
      BY <1>2, <3>1, Within
  <2> QED
    BY <1>1, <1>2, <1>3, <2>1, <2>2
<1> QED
  BY <1>4, <1>5

\* A message at the counter gets the next ticket.
LEMMA NextTicket ==
  ASSUME FlowInv, SampleInv, NEW t \in conf.threads, SampleAdd(t)
  PROVE  LET m == msg[t]  N == Cardinality(Ticketed)
         IN /\ t \in Threads /\ m \in Messages /\ m \notin fresh /\ N \in Nat
            /\ ticket' = [ticket EXCEPT ![m] = N + 1]
            /\ IsFiniteSet(Ticketed') /\ Cardinality(Ticketed') = N + 1
<1> DEFINE m == msg[t]  N == Cardinality(Ticketed)
<1>1. pc[t] = "Sample" /\ ticket' = [ticket EXCEPT ![m] = N + 1]
  BY DEF SampleAdd, Ticketed
<1>2. t \in Threads /\ m \in Messages /\ m \notin fresh
  BY <1>1, MessageOf DEF FlowInv
<1>3. ticket \in [Messages -> Nat] /\ IsFiniteSet(Ticketed) /\ N \in Nat
  BY FS_CardinalityType DEF SampleInv, CountInv
<1>4. ticket[m] = 0
  BY <1>1, <1>2 DEF SampleInv, TicketInv
<1> HIDE DEF N
<1>5. PICK k \in Messages : k = m
  BY <1>2
<1>6. \A l \in Messages : ticket'[l] = IF l = k THEN N + 1 ELSE ticket[l]
  BY <1>1, <1>3, <1>5
<1>7. Ticketed' = Ticketed \cup {k} /\ k \notin Ticketed
  BY <1>3, <1>4, <1>5, <1>6 DEF Ticketed
<1>8. IsFiniteSet(Ticketed \cup {k}) /\ Cardinality(Ticketed \cup {k}) = Cardinality(Ticketed) + 1
  BY <1>3, <1>7, FS_AddElement
<1> QED
  BY <1>1, <1>2, <1>3, <1>7, <1>8 DEF N

\* The step of the counter keeps what it says.
LEMMA SampleAddKept ==
  ASSUME FlowInv, FilterInv, SampleInv, NEW t \in conf.threads, SampleAdd(t)
  PROVE  SampleInv'
<1>1. PICK m \in Messages, N \in Nat :
        /\ m = msg[t] /\ N = Cardinality(Ticketed) /\ t \in Threads /\ m \notin fresh
        /\ ticket' = [ticket EXCEPT ![m] = N + 1]
        /\ IsFiniteSet(Ticketed') /\ Cardinality(Ticketed') = N + 1
  BY NextTicket
<1>2. PICK g \in Nat \ {0} : g = Group
  BY DeliveryAssumption
<1>3. PICK P \in Nat : P = Cardinality(Subtracting)
  BY SubtractingIsFinite
<1>4. /\ ticket \in [Messages -> Nat] /\ pc \in [Threads -> Labels]
      /\ InBounds(count, P) /\ count % g = N % g
      /\ \A u \in Threads : pc[u] = "subtract" => g > 1
  BY <1>1, <1>2, <1>3 DEF SampleInv, CountInv, FlowInv, FlowTypes
<1>5. PICK c \in Nat : c = count
  <2>1. count \in Int /\ P * g <= count /\ P * g \in Nat
    BY <1>2, <1>4 DEF SampleInv, CountInv, InBounds
  <2> QED
    BY <2>1
<1>6. /\ count' = c + 1 /\ UNCHANGED <<conf, msg, fresh>> /\ pc[t] = "Sample"
      /\ IF FirstOfGroup(c + 1) THEN pc' = [pc EXCEPT ![t] = "subtract"] /\ passed' = passed
         ELSE /\ pc' = [pc EXCEPT ![t] = IF TurnOf(c + 1) <= SampleRate THEN "accepted" ELSE "limited"]
              /\ passed' = IF TurnOf(c + 1) <= SampleRate THEN passed \cup {m} ELSE passed
  BY <1>1, <1>5 DEF SampleAdd, Goto, Decide
<1>7. \A k \in Messages : ticket'[k] = IF k = m THEN N + 1 ELSE ticket[k]
  BY <1>1, <1>4
<1>8. \A u \in Threads \ {t} : pc'[u] = pc[u] /\ (pc[u] # "idle" => msg[u] \in Messages \ {m})
  <2>1. msg \in [Threads -> Messages \cup {NoMessage}] /\ NoMessage \notin Messages
    BY DeliveryAssumption DEF FlowInv, FlowTypes
  <2> QED
    BY <1>1, <1>4, <1>6, <2>1 DEF FlowInv
<1>9. count' % Group = Cardinality(Ticketed') % Group
  <2>1. PICK z : z = c % g /\ z = N % g
    BY <1>4, <1>5, Zenon
  <2>2. (c + 1) % g = (IF z = g - 1 THEN 0 ELSE z + 1) /\ (N + 1) % g = (IF z = g - 1 THEN 0 ELSE z + 1)
    BY <2>1, NextRemainder
  <2>3. (c + 1) % g = (N + 1) % g
    BY ONLY <2>2
  <2> QED
    BY <1>1, <1>2, <1>6, <2>3, Zenon
<1>10. CASE FirstOfGroup(c + 1)
  <2>1. g > 1 /\ InBounds(c + 1, P + 1)
    BY <1>2, <1>4, <1>5, <1>10, BoundsUnderAdd
  <2>2. Subtracting' = Subtracting \cup {t} /\ t \notin Subtracting
    BY <1>1, <1>4, <1>6, <1>10 DEF Subtracting
  <2>3. Cardinality(Subtracting') = P + 1
    BY <1>3, <2>2, SubtractingIsFinite, FS_AddElement
  <2>4. N % g = 0
    <3>1. (c + 1) % g = 1
      BY <1>2, <1>10 DEF FirstOfGroup
    <3>2. PICK z \in 0 .. g - 1 : z = c % g
      BY Division
    <3>3. (c + 1) % g = IF z = g - 1 THEN 0 ELSE z + 1
      BY <3>2, NextRemainder
    <3>4. z = 0
      BY <3>1, <3>3
    <3> QED
      BY <1>4, <1>5, <3>2, <3>4, Zenon
  <2>5. CountInv'
    <3>1. ticket' \in [Messages -> Nat] /\ count' \in Int
      BY <1>1, <1>4, <1>6
    <3>2. \A u \in Threads : pc'[u] = "subtract" => Group > 1
      BY <1>2, <2>1
    <3>3. InBounds(count', Cardinality(Subtracting'))
      BY <1>6, <2>1, <2>3
    <3>4. InBounds(count, Cardinality(Subtracting))'
      BY <3>3 DEF InBounds
    <3> QED
      BY <1>1, <1>9, <3>1, <3>2, <3>4 DEF CountInv
  <2>6. TicketInv'
    <3>1. (ticket'[m] - 1) % Group = 0
      <4>1. ticket'[m] - 1 = N
        BY <1>7
      <4> QED
        BY <1>2, <2>4, <4>1, Zenon
    <3>2. \A u \in Threads : pc'[u] = "Sample" => ticket'[msg'[u]] = 0 /\ msg'[u] \notin passed
      BY <1>1, <1>4, <1>6, <1>7, <1>8, <1>10 DEF SampleInv, TicketInv
    <3>3. \A u \in Threads : pc'[u] = "subtract" => (ticket'[msg'[u]] - 1) % Group = 0
      BY <1>1, <1>4, <1>6, <1>7, <1>8, <1>10, <3>1 DEF SampleInv, TicketInv
    <3>4. m \notin passed
      BY <1>1, <1>6 DEF SampleInv, TicketInv
    <3>5. conf.filter = "Sample"
      BY <1>1, <1>6 DEF FilterInv, Sampling
    <3>6. passed' \subseteq Messages
      BY <1>6, <1>10 DEF SampleInv, TicketInv
    <3> QED
      BY <1>1, <1>6, <1>7, <1>10, <3>6, <3>2, <3>3, <3>4, <3>5 DEF SampleInv, TicketInv
  <2> QED
    BY <2>5, <2>6 DEF SampleInv
<1>11. CASE ~FirstOfGroup(c + 1)
  <2>1. InBounds(c + 1, P)
    BY <1>4, <1>5, <1>11, BoundsUnderAdd
  <2>2. pc'[t] \in {"accepted", "limited"}
    BY <1>1, <1>4, <1>6, <1>11
  <2>3. Subtracting' = Subtracting
    BY <1>1, <1>4, <1>6, <1>8, <2>2 DEF Subtracting
  <2>4. CountInv'
    <3>1. ticket' \in [Messages -> Nat] /\ count' \in Int
      BY <1>1, <1>4, <1>6
    <3>2. \A u \in Threads : pc'[u] = "subtract" => Group > 1
      BY <1>2, <1>4, <1>8, <2>2
    <3>3. InBounds(count', Cardinality(Subtracting'))
      BY <1>3, <1>6, <2>1, <2>3
    <3>4. InBounds(count, Cardinality(Subtracting))'
      BY <3>3 DEF InBounds
    <3> QED
      BY <1>1, <1>9, <3>1, <3>2, <3>4 DEF CountInv
  <2>5. m \in passed' => (ticket'[m] - 1) % Group < SampleRate
    <3>1. m \notin passed
      BY <1>1, <1>6 DEF SampleInv, TicketInv
    <3>2. m \in passed' => TurnOf(c + 1) <= SampleRate
      BY <1>6, <1>11, <3>1
    <3>3. m \in passed' => c % Group < SampleRate
      BY <3>2, AcceptedTurn
    <3>4. N % Group = c % Group
      BY <1>2, <1>4, <1>5, Zenon
    <3>5. ticket'[m] - 1 = N
      BY <1>7
    <3> QED
      BY <3>3, <3>4, <3>5, Zenon
  <2>6. \A k \in passed' : k = m \/ k \in passed
    BY <1>6, <1>11
  <2>7. conf.filter = "Sample"
    BY <1>1, <1>6 DEF FilterInv, Sampling
  <2>8. \A k \in fresh' : ticket'[k] = 0 /\ k \notin passed'
    BY <1>1, <1>6, <1>7, <2>6 DEF SampleInv, TicketInv, FlowInv, FlowTypes
  <2>9. \A u \in Threads : pc'[u] = "Sample" => ticket'[msg'[u]] = 0 /\ msg'[u] \notin passed'
    BY <1>6, <1>7, <1>8, <2>2, <2>6 DEF SampleInv, TicketInv
  <2>10. \A u \in Threads : pc'[u] = "subtract" => (ticket'[msg'[u]] - 1) % Group = 0
    BY <1>6, <1>7, <1>8, <2>2 DEF SampleInv, TicketInv
  <2>11. \A k \in Messages : ticket'[k] > 0 /\ k \in passed' => (ticket'[k] - 1) % Group < SampleRate
    BY <1>7, <2>5, <2>6 DEF SampleInv, TicketInv
  <2>12. passed' \subseteq Messages
    BY <2>6 DEF SampleInv, TicketInv
  <2> QED
    BY <1>6, <2>4, <2>7, <2>8, <2>9, <2>10, <2>11, <2>12 DEF SampleInv, TicketInv
<1> QED
  BY <1>10, <1>11

\* So does the second step.
LEMMA SampleSubtractKept ==
  ASSUME FlowInv, FilterInv, SampleInv, NEW t \in conf.threads, SampleSubtract(t)
  PROVE  SampleInv'
<1>1. pc[t] = "subtract" /\ UNCHANGED <<conf, msg, fresh, ticket>>
  BY DEF SampleSubtract
<1>2. PICK m \in Messages : m = msg[t] /\ t \in Threads /\ m \notin fresh
  BY <1>1, MessageOf DEF FlowInv
<1>3. PICK P \in Nat : P = Cardinality(Subtracting)
  BY SubtractingIsFinite
<1>4. PICK c \in Int : c = count
  BY DEF SampleInv, CountInv
<1>5. PICK g \in Nat \ {0} : g = Group
  BY DeliveryAssumption
<1>6. /\ count' = c - g
      /\ pc' = [pc EXCEPT ![t] = IF c - g <= SampleRate THEN "accepted" ELSE "limited"]
      /\ passed' = IF c - g <= SampleRate THEN passed \cup {m} ELSE passed
  BY <1>2, <1>4, <1>5 DEF SampleSubtract, Goto, Decide
<1>7. pc \in [Threads -> Labels] /\ InBounds(c, P)
  BY <1>3, <1>4 DEF SampleInv, CountInv, FlowInv, FlowTypes
<1>8. Subtracting' = Subtracting \ {t} /\ t \in Subtracting
  BY <1>1, <1>2, <1>6, <1>7 DEF Subtracting
<1>9. Cardinality(Subtracting') = P - 1 /\ P > 0
  <2>1. IsFiniteSet(Subtracting \ {t}) /\ Cardinality(Subtracting \ {t}) = P - 1
    BY <1>3, <1>8, SubtractingIsFinite, FS_RemoveElement
  <2>2. Cardinality(Subtracting \ {t}) \in Nat
    BY <2>1, FS_CardinalityType
  <2> QED
    BY <1>8, <2>1, <2>2
<1>10. c - g >= 1 /\ InBounds(c - g, P - 1)
  BY <1>5, <1>7, <1>9, BoundsUnderSubtract
<1>11. \A u \in Threads \ {t} : pc'[u] = pc[u]
  BY <1>6, <1>7
<1>12. pc'[t] \in {"accepted", "limited"}
  BY <1>2, <1>6, <1>7
<1>13. CountInv'
  <2>1. Ticketed' = Ticketed
    BY <1>1 DEF Ticketed
  <2>2. count' % Group = Cardinality(Ticketed') % Group
    <3>1. (c - g) % g = c % g
      BY GroupLess
    <3>2. c % g = Cardinality(Ticketed) % g
      BY <1>4, <1>5, Zenon DEF SampleInv, CountInv
    <3> QED
      BY <1>5, <1>6, <2>1, <3>1, <3>2, Zenon
  <2>3. InBounds(count', Cardinality(Subtracting'))
    BY <1>6, <1>9, <1>10
  <2>4. InBounds(count, Cardinality(Subtracting))'
    BY <2>3 DEF InBounds
  <2>5. \A u \in Threads : pc'[u] = "subtract" => Group > 1
    BY <1>11, <1>12 DEF SampleInv, CountInv
  <2> QED
    BY <1>1, <1>6, <2>1, <2>2, <2>4, <2>5 DEF SampleInv, CountInv
<1>14. TicketInv'
  <2>1. \A k \in passed' : k = m \/ k \in passed
    BY <1>6
  <2>2. m \in passed' => m \in passed \/ (ticket[m] - 1) % Group < SampleRate
    <3>1. m \in passed' => m \in passed \/ 0 < SampleRate
      BY <1>6, <1>10, DeliveryAssumption
    <3>2. (ticket[m] - 1) % Group = 0
      BY <1>1, <1>2 DEF SampleInv, TicketInv
    <3> QED
      BY <3>1, <3>2
  <2>3. \A u \in Threads \ {t} : pc[u] = "Sample" => msg[u] # m
    BY <1>2, DeliveryAssumption DEF FlowInv
  <2>4. conf.filter = "Sample"
    BY <1>1, <1>2 DEF FilterInv, Sampling
  <2>5. \A k \in fresh' : ticket'[k] = 0 /\ k \notin passed'
    BY <1>1, <1>2, <2>1 DEF SampleInv, TicketInv
  <2>6. \A u \in Threads : pc'[u] = "Sample" => ticket'[msg'[u]] = 0 /\ msg'[u] \notin passed'
    BY <1>1, <1>11, <1>12, <2>1, <2>3 DEF SampleInv, TicketInv
  <2>7. \A u \in Threads : pc'[u] = "subtract" => (ticket'[msg'[u]] - 1) % Group = 0
    BY <1>1, <1>11, <1>12 DEF SampleInv, TicketInv
  <2>8. \A k \in passed' : ticket'[k] > 0 => (ticket'[k] - 1) % Group < SampleRate
    BY <1>1, <2>1, <2>2 DEF SampleInv, TicketInv
  <2>9. passed' \subseteq Messages
    BY <2>1 DEF SampleInv, TicketInv
  <2> QED
    BY <1>1, <2>4, <2>5, <2>6, <2>7, <2>8, <2>9 DEF TicketInv
<1> QED
  BY <1>13, <1>14 DEF SampleInv

\* The invariant of Sample is kept.
LEMMA SampleKept ==
  ASSUME FlowInv, FilterInv, SampleInv, [Next]_vars
  PROVE  SampleInv'
<1>1. CASE Tick \/ UNCHANGED vars
  BY <1>1, SampleStutters DEF Tick, vars, sampleVars
<1>2. ASSUME NEW t \in conf.threads, SampleSteps(t) PROVE SampleInv'
  BY <1>2, SampleAddKept, SampleSubtractKept DEF SampleSteps
<1>3. ASSUME NEW t \in conf.threads PROVE t \in Threads /\ FlowTypes
  BY ConfTypes DEF FlowInv, FlowTypes
<1>4. ASSUME NEW t \in conf.threads, RateSteps(t) PROVE SampleInv'
  <2>1. pc[t] \in Rating \cup {"Rate"} /\ UNCHANGED <<conf, msg, fresh, count, ticket>>
    BY <1>4 DEF RateSteps, RateLookup, RateCreate, RateCheck, RateReset, RateSwap, RateCount, Rating, sampleVars
  <2>2. \E l \in Rating \cup {"accepted", "limited"} : Goto(t, l)
    BY <1>4 DEF RateSteps, RateLookup, RateCreate, RateCheck, RateReset, RateSwap, RateCount, Rating, Decide
  <2>3. passed' = passed \/ passed' = passed \cup {msg[t]}
    BY <1>4 DEF RateSteps, RateLookup, RateCreate, RateCheck, RateReset, RateSwap, RateCount, Decide
  <2>4. conf.filter = "Rate"
    BY <1>3, <2>1 DEF FilterInv
  <2>5. msg[t] \in Messages \ fresh
    <3>1. pc[t] # "idle"
      BY <2>1 DEF Rating
    <3> QED
      BY <1>3, <3>1, MessageOf DEF FlowInv
  <2>6. \A u \in Threads : pc[u] \notin Sampling
    BY <2>4 DEF FilterInv
  <2>7. \A u \in Threads : pc'[u] \notin Sampling
    BY <1>3, <2>2, <2>6 DEF Goto, FlowTypes, Sampling, Rating
  <2>8. ticket[msg[t]] = 0
    BY <2>4, <2>5 DEF SampleInv, TicketInv
  <2>9. \A m \in passed' : m \in passed \/ m = msg[t]
    BY <2>3
  <2>10. \A m \in passed' : \/ m \in passed
                            \/ /\ m \in Messages /\ ~(ticket[m] > 0) /\ m \notin fresh'
                               /\ \A u \in Threads : pc'[u] = "Sample" => msg'[u] # m
    BY <2>1, <2>5, <2>7, <2>8, <2>9 DEF Sampling
  <2>11. \A u \in Threads : pc[u] # "subtract" /\ pc'[u] \notin {"subtract", "Sample"}
    BY <2>6, <2>7 DEF Sampling
  <2> QED
    BY ONLY SampleInv, <2>1, <2>10, <2>11, SampleStutters
<1>5. ASSUME NEW t \in conf.threads, OtherSteps(t) PROVE SampleInv'
  <2>1. /\ UNCHANGED <<conf, count, ticket>> /\ pc[t] \notin Counting
        /\ \A u \in Threads \ {t} : pc'[u] = pc[u] /\ msg'[u] = msg[u]
        /\ pc'[t] \notin Counting \/ pc'[t] = conf.filter
    BY <1>5, OtherStepsCountNothing DEF sampleVars
  <2>2. conf.filter \in {"static", "Rate", "Sample"}
    BY ConfTypes DEF FlowInv, FlowTypes
  <2>3. \A u \in Threads : /\ pc'[u] = "subtract" <=> pc[u] = "subtract"
                           /\ pc[u] \in Sampling => msg'[u] = msg[u]
    BY <2>1, <2>2 DEF Counting, Sampling
  <2>4. CASE fresh' = fresh /\ passed' = passed /\ pc'[t] \notin Counting
    <3>1. \A u \in Threads : pc'[u] = "Sample" => pc[u] = "Sample" /\ msg'[u] = msg[u]
      BY <2>1, <2>4 DEF Counting
    <3> QED
      BY ONLY SampleInv, <2>1, <2>3, <2>4, <3>1, SampleStutters DEF Sampling
  <2>5. ASSUME NEW m \in Messages, Enqueue(t, m) PROVE SampleInv'
    <3>1. /\ m \in fresh /\ fresh' = fresh \ {m} /\ msg' = [msg EXCEPT ![t] = m]
          /\ passed' = passed \/ (passed' = passed \cup {m} /\ conf.filter = "static")
      BY <2>5 DEF Enqueue
    <3>2. \A u \in Threads : pc'[u] = "Sample" => (pc[u] = "Sample" /\ msg'[u] = msg[u]) \/ msg'[u] \in fresh
      BY <1>3, <2>1, <3>1 DEF FlowTypes
    <3>3. \A k \in passed' : k \in passed \/ (k = m /\ conf.filter = "static")
      BY <3>1
    <3>4. ticket[m] = 0 /\ m \notin fresh'
      BY <3>1 DEF SampleInv, TicketInv
    <3>5. conf.filter = "static" => \A u \in Threads : pc'[u] # "Sample"
      BY <2>1 DEF FilterInv, Counting, Sampling
    <3>6. \A k \in passed' : \/ k \in passed
                             \/ /\ k \in Messages /\ ~(ticket[k] > 0) /\ k \notin fresh'
                                /\ \A u \in Threads : pc'[u] = "Sample" => msg'[u] # k
      BY <3>3, <3>4, <3>5
    <3> QED
      BY ONLY SampleInv, <2>1, <2>3, <3>1, <3>2, <3>6, SampleStutters DEF Sampling
  <2> QED
    BY <1>5, <2>4, <2>5, OtherStepsCountNothing
<1> QED
  BY <1>1, <1>2, <1>4, <1>5, Zenon DEF Next, OtherSteps, SampleSteps, RateSteps

\* The counter starts with no tickets.
LEMMA SampleStarts ==
  ASSUME Init
  PROVE  SampleInv
<1>1. /\ count = 0 /\ ticket = [m \in Messages |-> 0] /\ passed = {}
      /\ \A t \in Threads : pc[t] = "idle"
      /\ fresh = Messages
  BY DEF Init, SampleInit
<1>2. Ticketed = {} /\ Subtracting = {}
  BY <1>1 DEF Ticketed, Subtracting
<1>3. Cardinality({}) = 0 /\ IsFiniteSet({})
  BY FS_EmptySet
<1>4. count = Cardinality(Ticketed)
  BY <1>1, <1>2, <1>3
<1>5. InBounds(0, 0)
  <2>1. PICK g \in Nat \ {0} : g = Group
    BY DeliveryAssumption
  <2>2. 0 * g = 0 /\ (0 + 1) * g = g
    BY <2>1
  <2> QED
    BY <2>1, <2>2 DEF InBounds
<1>6. CountInv
  <2>1. InBounds(count, Cardinality(Subtracting))
    BY <1>1, <1>2, <1>3, <1>5, Zenon
  <2>2. count % Group = Cardinality(Ticketed) % Group
    BY <1>4, Zenon
  <2> QED
    BY <1>1, <1>2, <1>3, <2>1, <2>2 DEF CountInv
<1>7. TicketInv
  BY <1>1 DEF TicketInv
<1> QED
  BY <1>6, <1>7 DEF SampleInv

\* However the two steps of the counter interleave, who passes Sample is one of the first
\* SampleRate of its group, and the counter stays small.
THEOREM TurnsAreKept == Spec => []SampleKeepsTurns
<1>1. SampleInv => SampleKeepsTurns
  <2> SUFFICES ASSUME SampleInv PROVE SampleKeepsTurns
    OBVIOUS
  <2>1. PICK P \in Nat, T \in Nat : P = Cardinality(Subtracting) /\ T = Cardinality(Threads) /\ P <= T
    BY SubtractingIsFinite
  <2>2. PICK g \in Nat \ {0} : g = Group
    BY DeliveryAssumption
  <2>3. PICK c \in Int : c = count
    BY DEF SampleInv, CountInv
  <2>4. P * g <= c /\ (g > 1 => c <= (P + 1) * g)
    BY <2>1, <2>2, <2>3 DEF SampleInv, CountInv, InBounds
  <2>5. P * g \in Nat /\ (P + 1) * g <= g * (T + 1)
    <3>1. PICK d \in Nat : T + 1 = (P + 1) + d
      <4>1. T - P \in Nat /\ T + 1 = (P + 1) + (T - P)
        BY <2>1
      <4> QED
        BY <4>1
    <3>2. g * (T + 1) = (P + 1) * g + d * g /\ d * g \in Nat /\ (P + 1) * g \in Nat
      BY <3>1
    <3> QED
      BY <3>2
  <2>6. Group > 1 => 0 <= count /\ count <= Group * (Cardinality(Threads) + 1)
    <3>1. g > 1 => 0 <= c /\ c <= g * (T + 1)
      BY <2>4, <2>5
    <3> QED
      BY <2>1, <2>2, <2>3, <3>1, Zenon
  <2> QED
    BY <2>6 DEF SampleKeepsTurns, SampleInv, TicketInv
<1>2. Init => SampleInv /\ FilterInv
  BY SampleStarts, RateStarts
<1>3. DeliveryInv /\ FilterInv /\ SampleInv /\ [Next]_vars => FilterInv' /\ SampleInv'
  BY FilterKept, SampleKept DEF DeliveryInv
<1> QED
  BY <1>1, <1>2, <1>3, DeliveryInvariant, PTL DEF Spec

-----------------------------------------------------------------------------
(* Who has passed *)

\* A message that has not met the end of its filter, or was stopped by it, has not passed.
Undecided == Counting \cup {"limited", "filtered"}
PassInv ==
  /\ passed \subseteq Messages /\ fresh \cap passed = {}
  /\ \A t \in Threads : pc[t] \in Undecided => msg[t] \notin passed

\* What a step does to the filtering of a message.
LEMMA PassKept ==
  ASSUME FlowInv, PassInv, [Next]_vars
  PROVE  PassInv'
<1>1. CASE Tick \/ UNCHANGED vars
  BY <1>1 DEF Tick, vars, PassInv
<1>2. ASSUME NEW t \in conf.threads PROVE t \in Threads /\ FlowTypes
  BY ConfTypes DEF FlowInv, FlowTypes
<1>3. ASSUME NEW t \in conf.threads, UNCHANGED <<msg, fresh>>, pc[t] \in Undecided,
             NEW l, Goto(t, l), passed' = passed \/ (passed' = passed \cup {msg[t]} /\ l \notin Undecided)
      PROVE  PassInv'
  <2>1. msg[t] \in Messages \ fresh
    BY <1>2, <1>3, MessageOf DEF FlowInv, Undecided, Counting
  <2>2. \A u \in Threads \ {t} : pc'[u] = pc[u] /\ (pc[u] \in Undecided => msg[u] # msg[t])
    BY <1>2, <1>3, <2>1, DeliveryAssumption DEF Goto, FlowTypes, FlowInv
  <2>3. pc'[t] = l
    BY <1>2, <1>3 DEF Goto, FlowTypes
  <2>4. passed' \subseteq passed \cup {msg[t]} /\ (l \in Undecided => passed' = passed)
    BY <1>3
  <2>5. msg[t] \notin passed
    BY <1>2, <1>3 DEF PassInv
  <2> QED
    BY <1>3, <2>1, <2>2, <2>3, <2>4, <2>5 DEF PassInv
<1>4. ASSUME NEW t \in conf.threads, RateSteps(t) \/ SampleSteps(t) PROVE PassInv'
  <2>1. pc[t] \in Undecided /\ UNCHANGED <<msg, fresh>>
    BY <1>4 DEF RateSteps, SampleSteps, RateLookup, RateCreate, RateCheck, RateReset, RateSwap, RateCount,
                SampleAdd, SampleSubtract, Undecided, Counting
  <2>2. \E l : Goto(t, l) /\ (passed' = passed \/ (passed' = passed \cup {msg[t]} /\ l \notin Undecided))
    <3>1. CASE RateSteps(t)
      BY <3>1 DEF RateSteps, RateLookup, RateCreate, RateCheck, RateReset, RateSwap, RateCount, Decide,
                  Undecided, Counting
    <3>2. CASE SampleSteps(t)
      BY <3>2 DEF SampleSteps, SampleAdd, SampleSubtract, Decide, Undecided, Counting
    <3> QED
      BY <1>4, <3>1, <3>2
  <2> QED
    BY <1>3, <2>1, <2>2
<1>5. ASSUME NEW t \in conf.threads, Limited(t) PROVE PassInv'
  <2>1. pc[t] \in Undecided /\ UNCHANGED <<msg, fresh, passed>> /\ Goto(t, "filtered")
    BY <1>5 DEF Limited, Undecided
  <2> QED
    BY <1>3, <2>1
<1>6. ASSUME NEW t \in conf.threads, NEW m \in Messages, Enqueue(t, m) PROVE PassInv'
  <2>1. /\ m \in fresh /\ fresh' = fresh \ {m} /\ msg' = [msg EXCEPT ![t] = m]
        /\ \E l : /\ Goto(t, l)
                  /\ passed' = passed \/ (passed' = passed \cup {m} /\ l \notin Undecided)
    BY <1>6 DEF Enqueue, Undecided, Counting
  <2>2. \A u \in Threads : msg[u] # m
    BY <2>1 DEF FlowInv
  <2>3. \A u \in Threads \ {t} : pc'[u] = pc[u] /\ msg'[u] = msg[u] /\ msg'[u] # m
    BY <1>2, <2>1, <2>2 DEF Goto, FlowTypes
  <2>4. msg'[t] = m /\ passed' \subseteq passed \cup {m} /\ (pc'[t] \in Undecided => passed' = passed)
    BY <1>2, <2>1 DEF Goto, FlowTypes
  <2> QED
    BY <1>2, <2>1, <2>3, <2>4 DEF PassInv, FlowTypes
<1>7. ASSUME NEW t \in conf.threads, OtherSteps(t), ~Limited(t), ~\E m \in Messages : Enqueue(t, m)
      PROVE  PassInv'
  <2>1. /\ fresh' = fresh /\ passed' = passed /\ t \in Threads
        /\ \A u \in Threads \ {t} : pc'[u] = pc[u] /\ msg'[u] = msg[u]
    BY <1>7, OtherStepsCountNothing
  <2>2. \E l \in Routing \cup {"idle"} : Goto(t, l)
    BY <1>7 DEF OtherSteps, Filtered, NoProducers, Broadcast, Random, RoundRobin, Routed, Return, RouteLoop,
                RouteRead, RouteBind, RouteRemove, RouteReplace, RouteTruncate, RouteSend, Panic, Routing
  <2>3. pc'[t] \notin Undecided
    BY <1>2, <2>2 DEF Goto, FlowTypes, Undecided, Counting, Routing
  <2> QED
    BY <2>1, <2>3 DEF PassInv
<1> QED
  BY <1>1, <1>4, <1>5, <1>6, <1>7, Zenon DEF Next, OtherSteps, SampleSteps, RateSteps

-----------------------------------------------------------------------------
(* Route *)

RouteTypes ==
  /\ i \in [Threads -> Nat] /\ target \in [Threads -> Targets \cup {NoTarget}] /\ lastIdx \in [Threads -> Nat]
  /\ routes \in [1 .. Len(Routes) -> Range(Routes)] /\ size \in 0 .. Len(Routes)

\* The list of routes is only changed if a route was not bound when the stream was configured.
Unbound == ~(Range(Routes) \subseteq conf.bound)
Changing == {"bind", "remove", "replace", "truncate"}

\* The routes a goroutine has sent its message to, and where it is in the loop.
Walked(t) == {routes[n] : n \in 1 .. i[t] - 1}
WalkInv(t) ==
  pc[t] \in Routing =>
    /\ i[t] \in 1 .. size + 1
    /\ \A x \in Targets : sent[msg[t]][x] = IF x \in Walked(t) THEN 1 ELSE 0
    /\ Walked(t) \subseteq registered
    /\ pc[t] \notin {"loop", "routed"} => i[t] <= size
    /\ pc[t] = "routed" => i[t] = size + 1
    /\ pc[t] \in {"bind", "send", "remove", "replace"} => target[t] = routes[i[t]]
    /\ pc[t] = "send" => target[t] \in registered
    /\ pc[t] \in {"remove", "replace", "truncate"} => target[t] \notin registered /\ ~WildcardProducers
    /\ pc[t] \in {"replace", "truncate"} => lastIdx[t] = size
    /\ pc[t] \in Changing => Unbound

\* The routes, without the one that a goroutine has just overwritten; none is there twice, and
\* none that exists is missing.
Kept == IF \E t \in conf.threads : pc[t] = "truncate" THEN size - 1 ELSE size
ListInv ==
  /\ \A n, k \in 1 .. Kept : routes[n] = routes[k] => n = k
  /\ \A x \in Range(Routes) \cap registered : \E n \in 1 .. Kept : routes[n] = x
  /\ conf.bound \subseteq registered

\* A message that is done went to all routes that exist, and has left no other in the list.
DoneInv ==
  /\ \A m \in Messages : \A x \in Targets : sent[m][x] <= 1
  /\ \A m \in passed : ~Underway(m) =>
       /\ \A x \in Targets : sent[m][x] = IF x \in registered \cap Range(Routes) THEN 1 ELSE 0
       /\ \A n \in 1 .. size : routes[n] \in registered

Calm == conf.stream = "Route" /\ (Cardinality(conf.threads) = 1 \/ ~Unbound)
RoutesInv ==
  Calm => RouteTypes /\ panicked = {} /\ (\A t \in conf.threads : WalkInv(t)) /\ ListInv /\ DoneInv

\* Who changes the list is alone.
LEMMA Alone ==
  ASSUME DeliveryInv, Calm, Unbound, NEW t \in conf.threads
  PROVE  conf.threads = {t}
<1>1. conf.threads \subseteq Threads
  BY ConfTypes DEF DeliveryInv, FlowInv, FlowTypes
<1>2. IsFiniteSet(conf.threads)
  BY <1>1, FS_Subset, DeliveryAssumption
<1>3. Cardinality(conf.threads) = 1
  BY DEF Calm
<1> QED
  BY <1>2, <1>3, FS_Singleton

\* So whoever is elsewhere finds the list as it should be.
LEMMA NothingRemoved ==
  ASSUME DeliveryInv, RoutesInv, Calm, NEW t \in conf.threads, pc[t] # "truncate"
  PROVE  Kept = size
<1>1. ASSUME NEW u \in conf.threads, pc[u] = "truncate" PROVE FALSE
  <2>1. Unbound
    BY <1>1 DEF RoutesInv, WalkInv, Routing, Changing
  <2>2. conf.threads = {u}
    BY <1>1, <2>1, Alone
  <2> QED
    BY <1>1, <2>2
<1> QED
  BY <1>1 DEF Kept

\* Steps that have nothing to do with routes.
LEMMA RoutesStutter ==
  ASSUME DeliveryInv, RoutesInv, UNCHANGED <<conf, routeVars, sent>>, Calm => panicked' = panicked,
         \A u \in conf.threads : \/ pc'[u] = pc[u] /\ msg'[u] = msg[u]
                                 \/ pc[u] \notin Routing /\ pc'[u] \notin Routing,
         \A m \in passed' : ~Underway(m)' => m \in passed /\ ~Underway(m)
  PROVE  RoutesInv'
<1>1. UNCHANGED <<routes, size, registered, i, target, lastIdx>>
  BY DEF routeVars
<1>2. RouteTypes => RouteTypes'
  BY <1>1 DEF RouteTypes
<1>3. (Calm' <=> Calm) /\ (Unbound' <=> Unbound)
  BY DEF Calm, Unbound
<1>4. \A u \in conf.threads : pc'[u] = "truncate" <=> pc[u] = "truncate"
  BY DEF Routing
<1>5. Kept' = Kept
  BY <1>1, <1>4 DEF Kept
<1>6. ListInv => ListInv'
  BY <1>1, <1>5 DEF ListInv
<1>7. DoneInv => DoneInv'
  BY <1>1 DEF DoneInv
<1>8. ASSUME NEW u \in conf.threads, WalkInv(u) PROVE WalkInv(u)'
  <2>1. Walked(u)' = Walked(u)
    BY <1>1 DEF Walked
  <2> QED
    BY <1>1, <1>3, <1>8, <2>1 DEF WalkInv
<1> QED
  BY <1>2, <1>3, <1>6, <1>7, <1>8 DEF RoutesInv

\* Steps of routeMessage that change neither the list nor what was sent.
LEMMA RoutesLookedAt ==
  ASSUME DeliveryInv, RoutesInv, Calm, NEW t \in conf.threads,
         UNCHANGED <<conf, msg, fresh, routes, size, registered, sent, panicked, passed>>, RouteTypes',
         NEW l \in Routing \ {"truncate"}, Goto(t, l), pc[t] # "truncate",
         \A u \in Threads \ {t} : i'[u] = i[u] /\ target'[u] = target[u] /\ lastIdx'[u] = lastIdx[u],
         WalkInv(t)'
  PROVE  RoutesInv'
<1>1. t \in Threads /\ FlowTypes /\ conf.threads \subseteq Threads
  BY ConfTypes DEF DeliveryInv, FlowInv, FlowTypes
<1>2. pc'[t] = l /\ \A u \in Threads \ {t} : pc'[u] = pc[u]
  BY <1>1 DEF Goto, FlowTypes
<1>3. (Calm' <=> Calm) /\ (Unbound' <=> Unbound)
  BY DEF Calm, Unbound
<1>4. Kept' = Kept
  BY <1>1, <1>2 DEF Kept
<1>5. ListInv'
  BY <1>4 DEF RoutesInv, ListInv
<1>6. DoneInv'
  BY DEF RoutesInv, DoneInv, Underway
<1>7. ASSUME NEW u \in conf.threads, u # t PROVE WalkInv(u)'
  <2>1. Walked(u)' = Walked(u)
    BY <1>1, <1>7 DEF Walked
  <2>2. WalkInv(u)
    BY DEF RoutesInv
  <2> QED
    BY <1>1, <1>2, <1>3, <1>7, <2>1, <2>2 DEF WalkInv
<1> QED
  BY <1>5, <1>6, <1>7 DEF RoutesInv

\* The condition of the loop.
LEMMA RoutesUnderLoop ==
  ASSUME DeliveryInv, RoutesInv, Calm, NEW t \in conf.threads, RouteLoop(t)
  PROVE  RoutesInv'
<1>1. t \in Threads /\ RouteTypes
  BY ConfTypes DEF DeliveryInv, FlowInv, FlowTypes, RoutesInv
<1>2. UNCHANGED <<conf, msg, fresh, routes, size, registered, sent, panicked, passed, target, lastIdx>>
  BY DEF RouteLoop, endVars
<1>3. PICK k : i' = [i EXCEPT ![t] = k] /\ ((pc[t] = "accepted" /\ k = 1) \/ (pc[t] = "loop" /\ k = i[t]))
  <2>1. CASE pc[t] = "accepted"
    BY <2>1 DEF RouteLoop
  <2>2. CASE pc[t] # "accepted"
    <3>1. pc[t] = "loop" /\ i' = i
      BY <2>2 DEF RouteLoop
    <3>2. i = [i EXCEPT ![t] = i[t]]
      BY <1>1 DEF RouteTypes
    <3> QED
      BY <3>1, <3>2
  <2> QED
    BY <2>1, <2>2
<1>4. PICK l \in {"read", "routed"} : Goto(t, l) /\ l = IF k <= size THEN "read" ELSE "routed"
  BY <1>1, <1>3 DEF RouteLoop, RouteTypes
<1>5. i'[t] = k /\ pc'[t] = l /\ size \in Nat /\ \A u \in Threads \ {t} : i'[u] = i[u]
  BY <1>1, <1>3, <1>4 DEF RouteTypes, Goto, DeliveryInv, FlowInv, FlowTypes
<1>6. /\ k \in 1 .. size + 1
      /\ \A x \in Targets : sent[msg[t]][x] = IF x \in {routes[n] : n \in 1 .. k - 1} THEN 1 ELSE 0
      /\ {routes[n] : n \in 1 .. k - 1} \subseteq registered
  <2>1. CASE pc[t] = "accepted" /\ k = 1
    <3>1. 1 .. k - 1 = {}
      BY <2>1
    <3>2. \A x \in Targets : sent[msg[t]][x] = 0
      BY <1>1, <2>1 DEF DeliveryInv, EndsInv, Before, Untouched, Unsent
    <3> QED
      BY <1>5, <2>1, <3>1, <3>2
  <2>2. CASE pc[t] = "loop" /\ k = i[t]
    BY <2>2 DEF RoutesInv, WalkInv, Routing, Walked
  <2> QED
    BY <1>3, <2>1, <2>2
<1>7. WalkInv(t)'
  <2>1. Walked(t)' = {routes[n] : n \in 1 .. k - 1}
    BY <1>2, <1>5 DEF Walked
  <2>2. pc'[t] = "routed" => k = size + 1
    BY <1>4, <1>5, <1>6
  <2>3. pc'[t] \notin {"loop", "routed"} => k <= size
    BY <1>4, <1>5
  <2>4. pc'[t] \in {"read", "routed"}
    BY <1>4, <1>5
  <2> QED
    BY <1>2, <1>5, <1>6, <2>1, <2>2, <2>3, <2>4 DEF WalkInv, Changing
<1>8. RouteTypes'
  <2>1. k \in Nat
    BY <1>6
  <2> QED
    BY <1>1, <1>2, <1>3, <2>1 DEF RouteTypes
<1>9. l \in Routing \ {"truncate"} /\ pc[t] # "truncate"
  BY <1>3, <1>4 DEF Routing
<1> QED
  BY <1>2, <1>4, <1>5, <1>7, <1>8, <1>9, RoutesLookedAt

\* Reading a route; the index is in range.
LEMMA RoutesUnderRead ==
  ASSUME DeliveryInv, RoutesInv, Calm, NEW t \in conf.threads, RouteRead(t)
  PROVE  RoutesInv'
<1>1. t \in Threads /\ RouteTypes /\ WalkInv(t) /\ pc[t] = "read" /\ conf.bound \subseteq registered
  BY ConfTypes DEF DeliveryInv, FlowInv, FlowTypes, RoutesInv, RouteRead, ListInv
<1>2. i[t] \in 1 .. size /\ size \in Nat /\ size <= Len(Routes)
  BY <1>1 DEF WalkInv, Routing, RouteTypes
<1>3. PICK y \in Range(Routes) : y = routes[i[t]]
  <2>1. i[t] \in 1 .. Len(Routes)
    <3>1. Len(Routes) \in Nat
      BY DeliveryAssumption
    <3> QED
      BY <1>2, <3>1
  <2> QED
    BY <1>1, <2>1 DEF RouteTypes
<1>4. /\ UNCHANGED <<conf, msg, fresh, routes, size, registered, sent, panicked, passed, i, lastIdx>>
      /\ target' = [target EXCEPT ![t] = y]
      /\ Goto(t, IF y \in conf.bound THEN "send" ELSE "bind")
  BY <1>2, <1>3 DEF RouteRead, endVars
<1>5. PICK l \in {"send", "bind"} : Goto(t, l) /\ l = IF y \in conf.bound THEN "send" ELSE "bind"
  BY <1>4
<1>6. target'[t] = y /\ pc'[t] = l /\ \A u \in Threads \ {t} : target'[u] = target[u]
  BY <1>1, <1>4, <1>5 DEF RouteTypes, Goto, DeliveryInv, FlowInv, FlowTypes
<1>7. WalkInv(t)'
  <2>1. Walked(t)' = Walked(t)
    BY <1>4 DEF Walked
  <2>2. l = "send" => y \in registered
    BY <1>1, <1>5
  <2>3. l = "bind" => Unbound
    BY <1>5 DEF Unbound
  <2>4. Unbound' <=> Unbound
    BY <1>4 DEF Unbound
  <2>5. pc'[t] \in {"send", "bind"}
    BY <1>5, <1>6
  <2> QED
    BY <1>1, <1>2, <1>3, <1>4, <1>6, <2>1, <2>2, <2>3, <2>4, <2>5 DEF WalkInv, Routing, Changing
<1>8. RouteTypes'
  <2>1. y \in Targets
    BY DEF Targets
  <2> QED
    BY <1>1, <1>4, <2>1 DEF RouteTypes
<1>9. l \in Routing \ {"truncate"} /\ pc[t] # "truncate"
  BY <1>1, <1>5 DEF Routing
<1> QED
  BY <1>4, <1>5, <1>6, <1>7, <1>8, <1>9, RoutesLookedAt

\* The route to remove will be replaced by the last one.
LEMMA RoutesUnderRemove ==
  ASSUME DeliveryInv, RoutesInv, Calm, NEW t \in conf.threads, RouteRemove(t)
  PROVE  RoutesInv'
<1>1. t \in Threads /\ RouteTypes /\ WalkInv(t) /\ pc[t] = "remove"
  BY ConfTypes DEF DeliveryInv, FlowInv, FlowTypes, RoutesInv, RouteRemove
<1>2. /\ UNCHANGED <<conf, msg, fresh, routes, size, registered, sent, panicked, passed, i, target>>
      /\ lastIdx' = [lastIdx EXCEPT ![t] = size] /\ Goto(t, "replace")
  BY DEF RouteRemove, endVars
<1>3. lastIdx'[t] = size /\ pc'[t] = "replace" /\ \A u \in Threads \ {t} : lastIdx'[u] = lastIdx[u]
  BY <1>1, <1>2 DEF RouteTypes, Goto, DeliveryInv, FlowInv, FlowTypes
<1>4. WalkInv(t)'
  <2>1. Walked(t)' = Walked(t) /\ (Unbound' <=> Unbound)
    BY <1>2 DEF Walked, Unbound
  <2> QED
    BY <1>1, <1>2, <1>3, <2>1 DEF WalkInv, Routing, Changing
<1>5. RouteTypes'
  BY <1>1, <1>2 DEF RouteTypes
<1>6. "replace" \in Routing \ {"truncate"} /\ pc[t] # "truncate"
  BY <1>1 DEF Routing
<1> QED
  BY <1>2, <1>3, <1>4, <1>5, <1>6, RoutesLookedAt

\* Binding a route late: if it is created then nobody has been done without it.
LEMMA RoutesUnderBind ==
  ASSUME DeliveryInv, RoutesInv, Calm, NEW t \in conf.threads, RouteBind(t)
  PROVE  RoutesInv'
<1>1. t \in Threads /\ RouteTypes /\ WalkInv(t) /\ pc[t] = "bind" /\ ListInv /\ DoneInv
  BY ConfTypes DEF DeliveryInv, FlowInv, FlowTypes, RoutesInv, RouteBind
<1>2. /\ UNCHANGED <<conf, msg, fresh, routes, size, sent, panicked, passed, i, target, lastIdx>>
      /\ registered' = (IF WildcardProducers THEN registered \cup {target[t]} ELSE registered)
      /\ Goto(t, IF target[t] \in registered' THEN "send" ELSE "remove")
  BY DEF RouteBind, endVars
<1>3. Unbound /\ conf.threads = {t} /\ i[t] \in 1 .. size /\ target[t] = routes[i[t]]
  <2>1. Unbound
    BY <1>1 DEF WalkInv, Routing, Changing
  <2> QED
    BY <1>1, <2>1, Alone DEF WalkInv, Routing
<1>4. PICK l \in {"send", "remove"} : Goto(t, l) /\ l = IF target[t] \in registered' THEN "send" ELSE "remove"
  BY <1>2
<1>5. pc'[t] = l
  BY <1>1, <1>4 DEF Goto, DeliveryInv, FlowInv, FlowTypes
<1>6. Kept = size /\ Kept' = size
  <2>1. Kept = size
    BY <1>1, NothingRemoved
  <2>2. Kept' = size
    BY <1>2, <1>3, <1>4, <1>5 DEF Kept
  <2> QED
    BY <2>1, <2>2
<1>7. WalkInv(t)'
  <2>1. Walked(t)' = Walked(t) /\ (Unbound' <=> Unbound) /\ registered \subseteq registered'
    BY <1>2 DEF Walked, Unbound
  <2>2. l = "remove" => ~WildcardProducers /\ target[t] \notin registered'
    BY <1>2, <1>4
  <2>3. l = "send" => target[t] \in registered'
    BY <1>4
  <2> QED
    BY <1>1, <1>2, <1>3, <1>4, <1>5, <2>1, <2>2, <2>3 DEF WalkInv, Routing, Changing
<1>8. ListInv'
  <2>1. \A x \in Range(Routes) \cap registered' : \E n \in 1 .. size : routes[n] = x
    BY <1>1, <1>2, <1>3, <1>6 DEF ListInv
  <2> QED
    BY <1>1, <1>2, <1>6, <2>1 DEF ListInv
<1>9. DoneInv'
  <2>1. CASE registered' = registered
    BY <1>1, <1>2, <2>1 DEF DoneInv, Underway
  <2>2. CASE target[t] \notin registered
    <3>1. \A m \in passed : Underway(m)
      BY <1>1, <1>3, <2>2 DEF DoneInv
    <3> QED
      BY <1>1, <1>2, <3>1 DEF DoneInv, Underway
  <2> QED
    BY <1>2, <2>1, <2>2
<1>10. RouteTypes'
  BY <1>1, <1>2 DEF RouteTypes
<1>11. panicked' = {} /\ conf.threads' = {t}
  BY <1>2, <1>3 DEF RoutesInv
<1> QED
  BY <1>7, <1>8, <1>9, <1>10, <1>11 DEF RoutesInv

\* Overwriting the route: the list without its last place has the others, each once.
LEMMA RoutesUnderReplace ==
  ASSUME DeliveryInv, RoutesInv, Calm, NEW t \in conf.threads, RouteReplace(t)
  PROVE  RoutesInv'
<1>1. t \in Threads /\ RouteTypes /\ WalkInv(t) /\ pc[t] = "replace" /\ ListInv /\ DoneInv
  BY ConfTypes DEF DeliveryInv, FlowInv, FlowTypes, RoutesInv, RouteReplace
<1>2. Unbound /\ conf.threads = {t}
  <2>1. Unbound
    BY <1>1 DEF WalkInv, Routing, Changing
  <2> QED
    BY <1>1, <2>1, Alone
<1>3. /\ i[t] \in 1 .. size /\ target[t] = routes[i[t]] /\ target[t] \notin registered
      /\ ~WildcardProducers /\ lastIdx[t] = size /\ size \in Nat
  BY <1>1 DEF WalkInv, Routing, RouteTypes
<1>4. /\ UNCHANGED <<conf, msg, fresh, size, registered, sent, panicked, passed, i, target, lastIdx>>
      /\ routes' = [routes EXCEPT ![i[t]] = routes[size]] /\ Goto(t, "truncate")
  BY <1>3 DEF RouteReplace, Replaced, endVars
<1>5. pc'[t] = "truncate"
  BY <1>1, <1>4 DEF Goto, DeliveryInv, FlowInv, FlowTypes
<1>6. Kept = size /\ Kept' = size - 1
  <2>1. Kept = size
    BY <1>1, NothingRemoved
  <2>2. Kept' = size - 1
    BY <1>2, <1>4, <1>5 DEF Kept
  <2> QED
    BY <2>1, <2>2
<1>7. \A n \in 1 .. size : n \in DOMAIN routes /\ routes'[n] = IF n = i[t] THEN routes[size] ELSE routes[n]
  <2>1. Len(Routes) \in Nat
    BY DeliveryAssumption
  <2> QED
    BY <1>1, <1>3, <1>4, <2>1 DEF RouteTypes
<1>8. WalkInv(t)'
  <2>1. \A n \in 1 .. i[t] - 1 : routes'[n] = routes[n]
    BY <1>3, <1>7
  <2>2. Walked(t)' = Walked(t) /\ (Unbound' <=> Unbound)
    BY <1>4, <2>1 DEF Walked, Unbound
  <2> QED
    BY <1>1, <1>2, <1>3, <1>4, <1>5, <2>2 DEF WalkInv, Routing, Changing
<1>9. ListInv'
  <2>1. \A n, k \in 1 .. size : routes[n] = routes[k] => n = k
    BY <1>1, <1>6 DEF ListInv
  <2>2. \A n, k \in 1 .. size - 1 : routes'[n] = routes'[k] => n = k
    BY <1>3, <1>7, <2>1
  <2>3. ASSUME NEW x \in Range(Routes) \cap registered PROVE \E n \in 1 .. size - 1 : routes'[n] = x
    <3>1. PICK n \in 1 .. size : routes[n] = x
      BY <1>1, <1>6 DEF ListInv
    <3>2. n # i[t]
      BY <1>3, <3>1
    <3>3. CASE n = size
      <4>1. i[t] \in 1 .. size - 1 /\ routes'[i[t]] = x
        BY <1>3, <1>7, <3>1, <3>2, <3>3
      <4> QED
        BY <4>1
    <3>4. CASE n # size
      <4>1. n \in 1 .. size - 1 /\ routes'[n] = x
        BY <1>3, <1>7, <3>1, <3>2, <3>4
      <4> QED
        BY <4>1
    <3> QED
      BY <3>3, <3>4
  <2> QED
    BY <1>1, <1>4, <1>6, <2>2, <2>3 DEF ListInv
<1>10. DoneInv'
  <2>1. \A m \in passed : Underway(m)
    BY <1>1, <1>3 DEF DoneInv
  <2> QED
    BY <1>1, <1>4, <2>1 DEF DoneInv, Underway
<1>11. RouteTypes'
  <2>1. size \in 1 .. Len(Routes) /\ routes[size] \in Range(Routes)
    <3>1. Len(Routes) \in Nat
      BY DeliveryAssumption
    <3> QED
      BY <1>1, <1>3, <3>1 DEF RouteTypes
  <2> QED
    BY <1>1, <1>4, <2>1 DEF RouteTypes
<1>12. panicked' = {} /\ conf.threads' = {t}
  BY <1>2, <1>4 DEF RoutesInv
<1> QED
  BY <1>8, <1>9, <1>10, <1>11, <1>12 DEF RoutesInv

\* Cutting the list off.
LEMMA RoutesUnderTruncate ==
  ASSUME DeliveryInv, RoutesInv, Calm, NEW t \in conf.threads, RouteTruncate(t)
  PROVE  RoutesInv'
<1>1. t \in Threads /\ RouteTypes /\ WalkInv(t) /\ pc[t] = "truncate" /\ ListInv /\ DoneInv
  BY ConfTypes DEF DeliveryInv, FlowInv, FlowTypes, RoutesInv, RouteTruncate
<1>2. Unbound /\ conf.threads = {t}
  <2>1. Unbound
    BY <1>1 DEF WalkInv, Routing, Changing
  <2> QED
    BY <1>1, <2>1, Alone
<1>3. i[t] \in 1 .. size /\ lastIdx[t] = size /\ size \in Nat
  BY <1>1 DEF WalkInv, Routing, RouteTypes
<1>4. /\ UNCHANGED <<conf, msg, fresh, routes, registered, sent, panicked, passed, i, target, lastIdx>>
      /\ size' = size - 1 /\ Goto(t, "loop")
  BY <1>3 DEF RouteTruncate, endVars
<1>5. pc'[t] = "loop"
  BY <1>1, <1>4 DEF Goto, DeliveryInv, FlowInv, FlowTypes
<1>6. Kept = size - 1 /\ Kept' = size - 1
  BY <1>1, <1>2, <1>4, <1>5 DEF Kept
<1>7. WalkInv(t)'
  <2>1. Walked(t)' = Walked(t)
    BY <1>4 DEF Walked
  <2>2. i[t] \in 1 .. size' + 1
    BY <1>3, <1>4
  <2> QED
    BY <1>1, <1>4, <1>5, <2>1, <2>2 DEF WalkInv, Routing, Changing
<1>8. ListInv'
  BY <1>1, <1>4, <1>6 DEF ListInv
<1>9. DoneInv'
  <2>1. \A n \in 1 .. size' : n \in 1 .. size
    BY <1>3, <1>4
  <2> QED
    BY <1>1, <1>4, <2>1 DEF DoneInv, Underway
<1>10. RouteTypes'
  <2>1. size - 1 \in 0 .. Len(Routes)
    BY <1>1, <1>3 DEF RouteTypes
  <2> QED
    BY <1>1, <1>4, <2>1 DEF RouteTypes
<1>11. panicked' = {} /\ conf.threads' = {t}
  BY <1>2, <1>4 DEF RoutesInv
<1> QED
  BY <1>7, <1>8, <1>9, <1>10, <1>11 DEF RoutesInv

\* Sending to a route that no earlier place of the list has.
LEMMA RoutesUnderSend ==
  ASSUME DeliveryInv, PassInv, RoutesInv, Calm, NEW t \in conf.threads, RouteSend(t)
  PROVE  RoutesInv'
<1>1. /\ t \in Threads /\ conf.threads \subseteq Threads /\ FlowInv /\ FlowTypes
      /\ RouteTypes /\ WalkInv(t) /\ pc[t] = "send" /\ ListInv /\ DoneInv
  BY ConfTypes DEF DeliveryInv, FlowInv, FlowTypes, RoutesInv, RouteSend
<1>2. PICK m \in Messages : m = msg[t] /\ Underway(m)
  BY <1>1, MessageOf
<1>3. PICK k \in 1 .. size : k = i[t] /\ size \in Nat /\ size <= Len(Routes)
  BY <1>1 DEF WalkInv, Routing, RouteTypes
<1>4. PICK y \in Range(Routes) : y = target[t] /\ y = routes[k] /\ y \in registered
  <2>1. k \in 1 .. Len(Routes) /\ target[t] = routes[k] /\ target[t] \in registered
    <3>1. Len(Routes) \in Nat
      BY DeliveryAssumption
    <3> QED
      BY <1>1, <1>3, <3>1 DEF WalkInv, Routing
  <2> QED
    BY <1>1, <2>1 DEF RouteTypes
<1>5. /\ UNCHANGED <<conf, msg, fresh, routes, size, registered, panicked, passed, target, lastIdx>>
      /\ i' = [i EXCEPT ![t] = k + 1] /\ Goto(t, "loop")
      /\ sent' = [sent EXCEPT ![m] = [x \in Targets |-> IF x \in {y} THEN @[x] + 1 ELSE @[x]]]
  BY <1>2, <1>3, <1>4 DEF RouteSend, Deliver, endVars
<1>6. i'[t] = k + 1 /\ (\A u \in Threads \ {t} : i'[u] = i[u] /\ pc'[u] = pc[u]) /\ pc'[t] = "loop"
  BY <1>1, <1>5 DEF RouteTypes, Goto, FlowTypes
<1>7. \A n \in Messages \ {m} : sent'[n] = sent[n]
  BY <1>5 DEF DeliveryInv, EndsInv, EndTypes
<1>8. \A x \in Targets : sent'[m][x] = IF x = y THEN sent[m][x] + 1 ELSE sent[m][x]
  BY <1>5 DEF DeliveryInv, EndsInv, EndTypes
<1>9. Kept = size /\ Kept' = size
  <2>1. Kept = size
    BY <1>1, NothingRemoved
  <2>2. \A u \in conf.threads : pc'[u] = "truncate" <=> pc[u] = "truncate"
    BY <1>1, <1>6
  <2>3. Kept' = Kept
    BY <1>5, <2>2 DEF Kept
  <2> QED
    BY <2>1, <2>3
<1>10. y \notin Walked(t)
  <2>1. \A n \in 1 .. k - 1 : routes[n] # routes[k]
    BY <1>1, <1>3, <1>9 DEF ListInv
  <2> QED
    BY <1>3, <1>4, <2>1 DEF Walked
<1>11. Walked(t)' = Walked(t) \cup {y}
  <2>1. 1 .. (k + 1) - 1 = (1 .. k - 1) \cup {k}
    OBVIOUS
  <2>2. Walked(t)' = {routes[n] : n \in 1 .. (k + 1) - 1}
    BY <1>5, <1>6 DEF Walked
  <2> QED
    BY <1>3, <1>4, <2>1, <2>2 DEF Walked
<1>12. WalkInv(t)'
  <2>1. \A x \in Targets : sent'[m][x] = IF x \in Walked(t) \cup {y} THEN 1 ELSE 0
    BY <1>1, <1>2, <1>8, <1>10 DEF WalkInv, Routing
  <2>2. Walked(t) \cup {y} \subseteq registered /\ k + 1 \in 1 .. size + 1
    BY <1>1, <1>3, <1>4 DEF WalkInv, Routing
  <2> QED
    BY <1>2, <1>5, <1>6, <1>11, <2>1, <2>2 DEF WalkInv, Changing
<1>13. ASSUME NEW u \in conf.threads, u # t PROVE WalkInv(u)'
  <2>1. Walked(u)' = Walked(u) /\ (Unbound' <=> Unbound)
    BY <1>1, <1>5, <1>6, <1>13 DEF Walked, Unbound
  <2>2. pc[u] \in Routing => msg[u] \in Messages \ {m}
    BY <1>1, <1>2, <1>13, MessageOf DEF FlowInv, Routing
  <2>3. WalkInv(u)
    BY DEF RoutesInv
  <2> QED
    BY <1>1, <1>5, <1>6, <1>7, <1>13, <2>1, <2>2, <2>3 DEF WalkInv
<1>14. ListInv'
  BY <1>1, <1>5, <1>9 DEF ListInv
<1>15. DoneInv'
  <2>1. \A n \in Messages : Underway(n)' <=> Underway(n)
    BY <1>5 DEF Underway
  <2>2. \A x \in Targets : sent'[m][x] <= 1
    BY <1>2, <1>5, <1>6, <1>12 DEF WalkInv, Routing
  <2>3. \A n \in passed : ~Underway(n) => n # m
    BY <1>2
  <2>4. \A n \in Messages : \A x \in Targets : sent'[n][x] <= 1
    BY <1>1, <1>7, <2>2 DEF DoneInv
  <2> QED
    BY <1>1, <1>5, <1>7, <2>1, <2>3, <2>4 DEF DoneInv, PassInv
<1>16. RouteTypes'
  BY <1>1, <1>5 DEF RouteTypes
<1>17. panicked' = {}
  BY <1>5 DEF RoutesInv
<1> QED
  BY <1>5, <1>12, <1>13, <1>14, <1>15, <1>16, <1>17 DEF RoutesInv

\* The end of the loop: the message went to every place of the list.
LEMMA RoutesUnderRouted ==
  ASSUME DeliveryInv, PassInv, RoutesInv, Calm, NEW t \in conf.threads, Routed(t)
  PROVE  RoutesInv'
<1>1. /\ t \in Threads /\ conf.threads \subseteq Threads /\ FlowInv /\ FlowTypes
      /\ RouteTypes /\ WalkInv(t) /\ pc[t] = "routed" /\ ListInv /\ DoneInv
  BY ConfTypes DEF DeliveryInv, FlowInv, FlowTypes, RoutesInv, Routed
<1>2. PICK m \in Messages : m = msg[t]
  BY <1>1, MessageOf
<1>3. /\ UNCHANGED <<conf, fresh, routes, size, registered, sent, panicked, passed, i, target, lastIdx>>
      /\ Goto(t, "idle") /\ msg' = [msg EXCEPT ![t] = NoMessage]
  BY DEF Routed, Return, routeVars
<1>4. /\ pc'[t] = "idle" /\ msg'[t] = NoMessage
      /\ \A u \in Threads \ {t} : pc'[u] = pc[u] /\ msg'[u] = msg[u]
  BY <1>1, <1>3 DEF Goto, FlowTypes
<1>5. Kept = size /\ Kept' = size
  <2>1. Kept = size
    BY <1>1, NothingRemoved
  <2>2. \A u \in conf.threads : pc'[u] = "truncate" <=> pc[u] = "truncate"
    BY <1>1, <1>4
  <2>3. Kept' = Kept
    BY <1>3, <2>2 DEF Kept
  <2> QED
    BY <2>1, <2>3
<1>6. Walked(t) = registered \cap Range(Routes) /\ \A n \in 1 .. size : routes[n] \in registered
  <2>1. Len(Routes) \in Nat /\ i[t] - 1 = size
    <3>1. Len(Routes) \in Nat
      BY DeliveryAssumption
    <3>2. i[t] = size + 1
      BY <1>1 DEF WalkInv, Routing
    <3> QED
      BY <1>1, <3>1, <3>2 DEF RouteTypes
  <2>2. Walked(t) = {routes[n] : n \in 1 .. size}
    BY <2>1 DEF Walked
  <2>3. \A n \in 1 .. size : routes[n] \in Range(Routes)
    BY <1>1, <2>1 DEF RouteTypes
  <2>4. Walked(t) \subseteq registered
    BY <1>1 DEF WalkInv, Routing
  <2>5. \A x \in Range(Routes) \cap registered : \E n \in 1 .. size : routes[n] = x
    BY <1>1, <1>5 DEF ListInv
  <2> QED
    BY <2>2, <2>3, <2>4, <2>5
<1>7. \A x \in Targets : sent[m][x] = IF x \in registered \cap Range(Routes) THEN 1 ELSE 0
  BY <1>1, <1>2, <1>6 DEF WalkInv, Routing
<1>8. \A n \in Messages : ~Underway(n)' => n = m \/ ~Underway(n)
  BY <1>1, <1>2, <1>3, <1>4 DEF Underway
<1>9. DoneInv'
  BY <1>1, <1>3, <1>6, <1>7, <1>8 DEF DoneInv, PassInv
<1>10. ListInv'
  BY <1>1, <1>3, <1>5 DEF ListInv
<1>11. ASSUME NEW u \in conf.threads PROVE WalkInv(u)'
  <2>1. CASE u = t
    BY <1>4, <2>1 DEF WalkInv, Routing
  <2>2. CASE u # t
    <3>1. Walked(u)' = Walked(u) /\ (Unbound' <=> Unbound) /\ pc'[u] = pc[u] /\ msg'[u] = msg[u]
      BY <1>1, <1>3, <1>4, <2>2 DEF Walked, Unbound
    <3>2. WalkInv(u)
      BY DEF RoutesInv
    <3> QED
      BY <1>3, <3>1, <3>2 DEF WalkInv
  <2> QED
    BY <2>1, <2>2
<1>12. RouteTypes' /\ panicked' = {}
  BY <1>1, <1>3 DEF RouteTypes, RoutesInv
<1> QED
  BY <1>3, <1>9, <1>10, <1>11, <1>12 DEF RoutesInv

\* The filter of a route stream.
LEMMA RoutesUnderFilter ==
  ASSUME DeliveryInv, PassInv, RoutesInv, NEW t \in conf.threads,
         \/ \E m \in Messages : Enqueue(t, m)
         \/ RateSteps(t) \/ SampleSteps(t) \/ Limited(t) \/ Filtered(t)
  PROVE  RoutesInv'
<1>1. t \in Threads /\ conf.threads \subseteq Threads /\ FlowInv /\ FlowTypes
  BY ConfTypes DEF DeliveryInv, FlowInv, FlowTypes
<1>2. ASSUME NEW m \in Messages, Enqueue(t, m) PROVE RoutesInv'
  <2>1. /\ UNCHANGED <<conf, routeVars, sent, panicked>> /\ pc[t] = "idle"
        /\ msg' = [msg EXCEPT ![t] = m] /\ fresh' = fresh \ {m} /\ passed' \subseteq passed \cup {m}
        /\ \E l \in {"filtered", "accepted", conf.filter} : Goto(t, l)
    BY <1>2 DEF Enqueue, endVars
  <2>2. conf.filter \in {"static", "Rate", "Sample"}
    BY ConfTypes DEF DeliveryInv, FlowInv, FlowTypes
  <2>3. pc[t] \notin Routing /\ pc'[t] \notin Routing /\ \A u \in Threads \ {t} : pc'[u] = pc[u] /\ msg'[u] = msg[u]
    BY <1>1, <2>1, <2>2 DEF Goto, FlowTypes, Routing
  <2>4. \A n \in Messages : ~Underway(n)' => n # m /\ ~Underway(n)
    <3>1. msg'[t] = m /\ msg[t] = NoMessage
      BY <1>1, <2>1 DEF FlowInv, FlowTypes
    <3>2. \A n : n \in fresh => n = m \/ n \in fresh'
      BY <2>1
    <3>3. \A n : ~Underway(n)' => n # m
      BY <1>1, <3>1 DEF Underway
    <3> QED
      BY <1>1, <2>3, <3>1, <3>2, <3>3, DeliveryAssumption DEF Underway
  <2>5. passed' \subseteq Messages
    BY <2>1 DEF PassInv
  <2> QED
    BY <1>1, <2>1, <2>3, <2>4, <2>5, RoutesStutter
<1>3. ASSUME RateSteps(t) \/ SampleSteps(t) \/ Limited(t) PROVE RoutesInv'
  <2>1. UNCHANGED <<conf, msg, fresh, routeVars, sent, panicked>> /\ pc[t] \in Undecided
    BY <1>3 DEF RateSteps, SampleSteps, Limited, RateLookup, RateCreate, RateCheck, RateReset, RateSwap,
                RateCount, SampleAdd, SampleSubtract, endVars, Undecided, Counting
  <2>2. passed' \subseteq passed \cup {msg[t]} /\ \E l \in Undecided \cup {"accepted"} : Goto(t, l)
    <3>1. CASE RateSteps(t)
      BY <3>1 DEF RateSteps, RateLookup, RateCreate, RateCheck, RateReset, RateSwap, RateCount, Decide,
                  Undecided, Counting
    <3>2. CASE SampleSteps(t) \/ Limited(t)
      BY <3>2 DEF SampleSteps, SampleAdd, SampleSubtract, Decide, Limited, Undecided, Counting
    <3> QED
      BY <1>3, <3>1, <3>2
  <2>3. pc[t] \notin Routing /\ pc'[t] \notin Routing /\ \A u \in Threads \ {t} : pc'[u] = pc[u]
    BY <1>1, <2>1, <2>2 DEF Goto, FlowTypes, Routing, Undecided, Counting
  <2>4. Underway(msg[t]) /\ \A n : Underway(n)' <=> Underway(n)
    BY <1>1, <2>1 DEF Underway
  <2> QED
    BY <1>1, <2>1, <2>2, <2>3, <2>4, RoutesStutter
<1>4. ASSUME Filtered(t) PROVE RoutesInv'
  <2>1. /\ UNCHANGED <<conf, fresh, routeVars, sent, panicked, passed>> /\ pc[t] = "filtered"
        /\ Goto(t, "idle") /\ msg' = [msg EXCEPT ![t] = NoMessage]
    BY <1>4 DEF Filtered
  <2>2. /\ pc[t] \notin Routing /\ pc'[t] \notin Routing
        /\ \A u \in Threads \ {t} : pc'[u] = pc[u] /\ msg'[u] = msg[u]
    BY <1>1, <2>1 DEF Goto, FlowTypes, Routing
  <2>3. msg[t] \notin passed
    BY <1>1, <2>1 DEF PassInv, Undecided
  <2>4. \A n \in passed : ~Underway(n)' => ~Underway(n)
    BY <1>1, <2>1, <2>2, <2>3 DEF Underway
  <2> QED
    BY <1>1, <2>1, <2>2, <2>4, RoutesStutter
<1> QED
  BY <1>2, <1>3, <1>4

\* Routes are kept by every step.
LEMMA RoutesKept ==
  ASSUME DeliveryInv, PassInv, RoutesInv, [Next]_vars
  PROVE  RoutesInv'
<1>1. CASE Tick \/ UNCHANGED vars
  <2>1. UNCHANGED <<conf, pc, msg, fresh, routeVars, sent, panicked, passed>>
    BY <1>1 DEF Tick, vars, endVars
  <2> QED
    BY <2>1, RoutesStutter DEF Underway
<1>2. ASSUME NEW t \in conf.threads, NoProducers(t) \/ Broadcast(t) \/ Random(t) \/ RoundRobin(t) PROVE RoutesInv'
  <2>1. conf' = conf /\ conf.stream # "Route"
    BY <1>2 DEF NoProducers, Broadcast, Random, RoundRobin
  <2> QED
    BY <2>1 DEF RoutesInv, Calm
<1>3. ASSUME NEW t \in conf.threads,
             \/ RouteLoop(t) \/ RouteRead(t) \/ RouteBind(t) \/ RouteRemove(t) \/ RouteReplace(t)
             \/ RouteTruncate(t) \/ RouteSend(t) \/ Routed(t)
      PROVE  RoutesInv'
  <2>1. CASE Calm
    BY <1>3, <2>1, RoutesUnderLoop, RoutesUnderRead, RoutesUnderBind, RoutesUnderRemove, RoutesUnderReplace,
       RoutesUnderTruncate, RoutesUnderSend, RoutesUnderRouted, Zenon
  <2>2. CASE ~Calm
    <3>1. conf' = conf
      BY <1>3, OtherStepsCountNothing, Zenon DEF OtherSteps, DeliveryInv
    <3> QED
      BY <2>2, <3>1 DEF RoutesInv, Calm, Unbound
  <2> QED
    BY <2>1, <2>2
<1> QED
  BY <1>1, <1>2, <1>3, RoutesUnderFilter, Zenon DEF Next, RateSteps, SampleSteps

\* The list starts as configured, with every route once.
LEMMA RoutesStart ==
  ASSUME Init
  PROVE  PassInv /\ RoutesInv
<1>1. PassInv
  BY DEF Init, PassInv, Undecided, Counting
<1>2. /\ routes = Routes /\ size = Len(Routes) /\ registered = conf.bound \cup Late
      /\ i = [t \in Threads |-> 0] /\ target = [t \in Threads |-> NoTarget] /\ lastIdx = [t \in Threads |-> 0]
      /\ panicked = {} /\ passed = {} /\ pc = [t \in Threads |-> "idle"]
      /\ sent = [m \in Messages |-> [x \in Targets |-> 0]]
  BY DEF Init, RouteInit
<1>3. conf.threads \subseteq Threads
  BY ConfTypes DEF Init
<1>4. Len(Routes) \in Nat /\ DOMAIN Routes = 1 .. Len(Routes) /\ Routes \in [1 .. Len(Routes) -> Range(Routes)]
  BY DeliveryAssumption
<1>5. RouteTypes
  BY <1>2, <1>4 DEF RouteTypes
<1>6. Kept = Len(Routes)
  BY <1>2, <1>3 DEF Kept
<1>7. ListInv
  <2>1. \A n, k \in 1 .. Len(Routes) : Routes[n] = Routes[k] => n = k
    BY <1>4, DeliveryAssumption
  <2>2. \A x \in Range(Routes) : \E n \in 1 .. Len(Routes) : Routes[n] = x
    BY <1>4 DEF Range
  <2> QED
    BY <1>2, <1>6, <2>1, <2>2 DEF ListInv
<1>8. \A t \in conf.threads : WalkInv(t)
  BY <1>2, <1>3 DEF WalkInv, Routing
<1>9. DoneInv
  BY <1>2 DEF DoneInv
<1> QED
  BY <1>1, <1>2, <1>5, <1>7, <1>8, <1>9 DEF RoutesInv

\* A route stream with one goroutine, or with all its routes bound when it was configured,
\* sends every message it accepts to each existing route once, and to nothing else.
THEOREM RoutesGetAll == Spec => []RoutesAreKept
<1>1. Init => PassInv /\ RoutesInv
  BY RoutesStart
<1>2. DeliveryInv /\ PassInv /\ RoutesInv /\ [Next]_vars => (PassInv /\ RoutesInv)'
  <2> SUFFICES ASSUME DeliveryInv, PassInv, RoutesInv, [Next]_vars PROVE PassInv' /\ RoutesInv'
    OBVIOUS
  <2>1. FlowInv
    BY DEF DeliveryInv
  <2>2. PassInv'
    BY <2>1, PassKept
  <2>3. RoutesInv'
    BY RoutesKept
  <2> QED
    BY <2>2, <2>3
<1>3. RoutesInv => RoutesAreKept
  BY DEF RoutesInv, RoutesAreKept, Calm, Unbound, DoneInv
<1> QED
  BY <1>1, <1>2, <1>3, DeliveryInvariant, PTL DEF Spec
==============================================================================
