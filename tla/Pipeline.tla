------------------------------ MODULE Pipeline ------------------------------
(***************************************************************************)
(* The way of a message from a consumer goroutine to the producers, and    *)
(* the shutdown that takes the pipeline down while messages are under way. *)
(*                                                                         *)
(* A consumer goroutine broadcasts messages to the producers listening on  *)
(* its stream.  ProducerBase.Enqueue runs in the calling goroutine: it     *)
(* checks the run state, sends to the message channel and sets the run     *)
(* state, three steps that interleave with everything else.  A message     *)
(* that cannot be sent is dropped, that is routed to the drop stream whose *)
(* listeners are enqueued to in turn; so the calls a goroutine still has   *)
(* to finish are a stack.  A producer is a message loop and a control      *)
(* loop, the latter handling the stop command: wait for the dependencies,  *)
(* leave the active state, close and empty the message channel.            *)
(***************************************************************************)
EXTENDS Integers, Sequences, FiniteSets

CONSTANTS
  Producers,
  Sources,          \* goroutines of consumers that enqueue messages
  Counted,          \* sources and producers that call AddMainWorker
  Closing,          \* producers whose stop callback calls CloseMessageChannel
  Messages, NoMessage,
  Reads,            \* Reads[s]: the messages source s reads
  Listeners,        \* the producers listening on the stream of the sources
  DropListeners,    \* DropListeners[p]: the producers listening on p's drop stream
  DependsOn,        \* DependsOn[p]: what LinkDependencies made p depend on
  Accepts,          \* Accepts[p]: the messages the filters of p let through
  Capacity,         \* "Channel" of each producer
  Timeout,          \* Timeout[p][m]: -1, 0 or positive, "TimeoutMs" of the stream that m
                    \*   comes to p from or else "ChannelTimeoutMs" of p
  ShutdownTimeout,  \* "ShutdownTimeoutMs" of each producer; 0 waits forever
  CountRange        \* the message counters wrap here (2^32)

Threads == Sources \cup Producers

\* The order of these constants is the order of a plugin's life.
Initializing == 0
Waiting      == 1
Active       == 2
Stopping     == 3
Dead         == 4

ASSUME PipelineAssumption ==
  /\ Sources \cap Producers = {} /\ Counted \subseteq Threads /\ Closing \subseteq Producers
  /\ NoMessage \notin Messages
  /\ Reads \in [Sources -> SUBSET Messages]
  /\ Listeners \in Seq(Producers)
  /\ DropListeners \in [Producers -> Seq(Producers)]
  /\ DependsOn \in [Producers -> SUBSET Producers]
  /\ Accepts \in [Producers -> SUBSET Messages]
  /\ Capacity \in [Producers -> Nat \ {0}] /\ CountRange \in Nat \ {0}
  /\ Timeout \in [Producers -> [Messages -> {-1, 0, 1}]]
  /\ ShutdownTimeout \in [Producers -> {0, 1}]

VARIABLES
  state,        \* run state of each producer
  channel,      \* message channel of each producer
  closed,       \* ... which has been closed
  stop,         \* a stop command is in the control channel of a producer
  loop,         \* where the message loop of each producer is,
  hand,         \*   and the message it is handling
  control,      \* where the control loop of each producer is,
  waitFor,      \*   the dependencies WaitForDependencies has still to look at,
  flush,        \*   the message of the flush worker of CloseMessageChannel
  source,       \* "active", "stopping" or "done" for each source
  work,         \* the calls each goroutine is in, innermost first
  main,         \* where run and shutdown of the multiplexer are
  crashed,      \* the goroutine that ended the process with a send on a closed channel
  count,        \* the message counters of the stream registry
  fresh,        \* history: messages not read by a consumer yet,
  open          \*          calls of Enqueue for each message that have not ended yet:
                \*          neither filtered, discarded, dropped nor handled

producerVars == <<state, channel, closed, stop, loop, hand, control, waitFor, flush>>
historyVars  == <<fresh, open>>
vars == <<producerVars, source, work, main, crashed, count, historyVars>>

Counters == {"processed", "dropped", "discarded", "filtered", "noRoute"}

\* The process is there: it neither crashed nor returned from main.
Running == main # "stopped" /\ crashed = {}

-----------------------------------------------------------------------------
(* Enqueue and Drop *)

\* The counters C go up by one, each as an uint32.
CountMessage(C) ==
  count' = [c \in Counters |-> IF c \in C THEN (count[c] + 1) % CountRange ELSE count[c]]

\* The calls of Broadcast for the producers of a stream.
Broadcast(producers, m) ==
  [i \in DOMAIN producers |-> [op |-> "enqueue", prod |-> producers[i], msg |-> m]]

\* The counter Route increments: a stream without producers has no route.
Routed(producers) == IF producers = <<>> THEN "noRoute" ELSE "processed"

SetState(p, s) == [op |-> "setState", prod |-> p, state |-> s]

\* Goroutine t finishes its innermost call and makes the calls in next instead.
Replace(t, next) == work' = [work EXCEPT ![t] = next \o Tail(@)]

\* prod.Drop(msg), followed by the calls in rest.
Drop(t, p, m, rest) ==
  /\ CountMessage({"dropped", Routed(DropListeners[p])})
  /\ Replace(t, Broadcast(DropListeners[p], m) \o rest)
  /\ open' = [open EXCEPT ![m] = @ + Len(DropListeners[p]) - 1]

Top(t) == Head(work[t])
InCall(t, op) == Running /\ work[t] # <<>> /\ Top(t).op = op

\* Enqueue up to the check of the run state.
Enqueue(t) ==
  /\ InCall(t, "enqueue")
  /\ LET p == Top(t).prod
         m == Top(t).msg
     IN \/ /\ m \notin Accepts[p]
           /\ CountMessage({"filtered"})
           /\ Replace(t, <<>>)
           /\ open' = [open EXCEPT ![m] = @ - 1]
        \/ /\ m \in Accepts[p] /\ state[p] >= Stopping
           /\ Drop(t, p, m, <<>>)
        \/ /\ m \in Accepts[p] /\ state[p] < Stopping
           /\ Replace(t, <<[op |-> "send", prod |-> p, msg |-> m]>>)
           /\ UNCHANGED <<count, open>>
  /\ UNCHANGED <<producerVars, source, main, crashed, fresh>>

\* Message.Enqueue: the channel takes the message.
Send(t) ==
  /\ InCall(t, "send")
  /\ LET p == Top(t).prod
     IN /\ ~closed[p] /\ Len(channel[p]) < Capacity[p]
        /\ channel' = [channel EXCEPT ![p] = Append(@, Top(t).msg)]
        /\ Replace(t, <<SetState(p, Active)>>)
  /\ UNCHANGED <<state, closed, stop, loop, hand, control, waitFor, flush, source, main,
                 crashed, count, historyVars>>

\* A send on a closed channel panics, also if the sender blocked before it was closed.
SendPanics(t) ==
  /\ InCall(t, "send") /\ closed[Top(t).prod]
  /\ crashed' = {t}
  /\ UNCHANGED <<producerVars, source, work, main, count, historyVars>>

\* Mutant: a message that was discarded or dropped is sent once more.
SendFails_Retry(t) ==
  /\ InCall(t, "send")
  /\ LET p == Top(t).prod
         m == Top(t).msg
     IN /\ ~closed[p] /\ Len(channel[p]) = Capacity[p]
        /\ \/ /\ Timeout[p][m] < 0
              /\ CountMessage({"discarded"})
              /\ Replace(t, <<Top(t)>>)
              /\ open' = [open EXCEPT ![m] = @ - 1]
           \/ Timeout[p][m] > 0 /\ Drop(t, p, m, <<Top(t)>>)
  /\ UNCHANGED <<producerVars, source, main, crashed, fresh>>

\* The channel is full: a negative timeout discards at once, a positive one drops
\* later on, and a timeout of 0 blocks.
SendFails(t) ==
  /\ InCall(t, "send")
  /\ LET p == Top(t).prod
         m == Top(t).msg
     IN /\ ~closed[p] /\ Len(channel[p]) = Capacity[p]
        /\ \/ /\ Timeout[p][m] < 0
              /\ CountMessage({"discarded"})
              /\ Replace(t, <<SetState(p, Waiting)>>)
              /\ open' = [open EXCEPT ![m] = @ - 1]
           \/ Timeout[p][m] > 0 /\ Drop(t, p, m, <<SetState(p, Waiting)>>)
  /\ UNCHANGED <<producerVars, source, main, crashed, fresh>>

\* setState at the end of Enqueue.
EnqueueSetState(t) ==
  /\ InCall(t, "setState")
  /\ state' = [state EXCEPT ![Top(t).prod] = Top(t).state]
  /\ Replace(t, <<>>)
  /\ UNCHANGED <<channel, closed, stop, loop, hand, control, waitFor, flush, source, main,
                 crashed, count, historyVars>>

-----------------------------------------------------------------------------
(* Consumers *)

\* A consumer goroutine that is still active reads a message and routes it to its stream.
EnqueueMessage(s, m) ==
  /\ Running /\ source[s] = "active" /\ work[s] = <<>> /\ m \in fresh \cap Reads[s]
  /\ fresh' = fresh \ {m}
  /\ CountMessage({Routed(Listeners)})
  /\ work' = [work EXCEPT ![s] = Broadcast(Listeners, m)]
  /\ open' = [open EXCEPT ![m] = @ + Len(Listeners)]
  /\ UNCHANGED <<producerVars, source, main, crashed>>

\* The control loop of the consumer takes the stop command.
StopConsumer(s) ==
  /\ Running /\ main # "run" /\ source[s] = "active"
  /\ source' = [source EXCEPT ![s] = "stopping"]
  /\ UNCHANGED <<producerVars, work, main, crashed, count, historyVars>>

\* The goroutine sees that the consumer is not active any more (WorkerDone).
SourceDone(s) ==
  /\ Running /\ source[s] = "stopping" /\ work[s] = <<>>
  /\ source' = [source EXCEPT ![s] = "done"]
  /\ UNCHANGED <<producerVars, work, main, crashed, count, historyVars>>

-----------------------------------------------------------------------------
(* The message loop of a producer *)

\* MessageControlLoop: AddMainWorker, setState(Active), go ControlLoop().
Produce(p) ==
  /\ Running /\ loop[p] = "start"
  /\ state'   = [state EXCEPT ![p] = Active]
  /\ loop'    = [loop EXCEPT ![p] = "isActive"]
  /\ control' = [control EXCEPT ![p] = "start"]
  /\ UNCHANGED <<channel, closed, stop, hand, waitFor, flush, source, work, main, crashed,
                 count, historyVars>>

\* for prod.IsActive(): the worker is done when the loop ends.
LoopIsActive(p) ==
  /\ Running /\ loop[p] = "isActive"
  /\ loop' = [loop EXCEPT ![p] = IF state[p] <= Active THEN "receive" ELSE "done"]
  /\ UNCHANGED <<state, channel, closed, stop, hand, control, waitFor, flush, source, work,
                 main, crashed, count, historyVars>>

LoopReceive(p) ==
  /\ Running /\ loop[p] = "receive"
  /\ \/ /\ channel[p] # <<>>
        /\ hand'    = [hand EXCEPT ![p] = Head(channel[p])]
        /\ channel' = [channel EXCEPT ![p] = Tail(@)]
        /\ loop'    = [loop EXCEPT ![p] = "onMessage"]
     \/ /\ channel[p] = <<>> /\ closed[p]
        /\ loop' = [loop EXCEPT ![p] = "isActive"]
        /\ UNCHANGED <<hand, channel>>
  /\ UNCHANGED <<state, closed, stop, control, waitFor, flush, source, work, main, crashed,
                 count, historyVars>>

\* onMessage has returned.
LoopHandled(p) ==
  /\ Running /\ loop[p] = "onMessage"
  /\ open' = [open EXCEPT ![hand[p]] = @ - 1]
  /\ hand'  = [hand EXCEPT ![p] = NoMessage]
  /\ loop'  = [loop EXCEPT ![p] = "isActive"]
  /\ UNCHANGED <<state, channel, closed, stop, control, waitFor, flush, source, work, main,
                 crashed, count, fresh>>

-----------------------------------------------------------------------------
(* The control loop of a producer *)

ControlGoto(p, label) == control' = [control EXCEPT ![p] = label]

ControlStart(p) ==
  /\ Running /\ control[p] = "start"
  /\ state' = [state EXCEPT ![p] = Active]
  /\ ControlGoto(p, "command")
  /\ UNCHANGED <<channel, closed, stop, loop, hand, waitFor, flush, source, work, main,
                 crashed, count, historyVars>>

\* case PluginControlStopProducer
ReceiveStop(p) ==
  /\ Running /\ control[p] = "command" /\ stop[p]
  /\ stop'    = [stop EXCEPT ![p] = FALSE]
  /\ waitFor' = [waitFor EXCEPT ![p] = DependsOn[p]]
  /\ ControlGoto(p, "waitFor")
  /\ UNCHANGED <<state, channel, closed, loop, hand, flush, source, work, main, crashed,
                 count, historyVars>>

\* WaitForDependencies is done with one dependency: it is dead, or the wait timed out.
WaitForDependency(p, d) ==
  /\ Running /\ control[p] = "waitFor" /\ d \in waitFor[p]
  /\ state[d] >= Dead \/ ShutdownTimeout[p] > 0
  /\ waitFor' = [waitFor EXCEPT ![p] = @ \ {d}]
  /\ UNCHANGED <<state, channel, closed, stop, loop, hand, control, flush, source, work,
                 main, crashed, count, historyVars>>

\* WaitForDependencies has returned.
SetStopping(p) ==
  /\ Running /\ control[p] = "waitFor" /\ waitFor[p] = {}
  /\ state' = [state EXCEPT ![p] = Stopping]
  /\ ControlGoto(p, IF p \in Closing THEN "close" ELSE "dead")
  /\ UNCHANGED <<channel, closed, stop, loop, hand, waitFor, flush, source, work, main,
                 crashed, count, historyVars>>

\* Mutant: the channel is emptied but not closed.
CloseChannel_LeaveOpen(p) ==
  /\ Running /\ control[p] = "close"
  /\ ControlGoto(p, "drain")
  /\ UNCHANGED <<state, channel, closed, stop, loop, hand, waitFor, flush, source, work,
                 main, crashed, count, historyVars>>

CloseChannel(p) ==
  /\ Running /\ control[p] = "close"
  /\ closed' = [closed EXCEPT ![p] = TRUE]
  /\ ControlGoto(p, "drain")
  /\ UNCHANGED <<state, channel, stop, loop, hand, waitFor, flush, source, work, main,
                 crashed, count, historyVars>>

\* The next message goes to a flush worker.
DrainReceive(p) ==
  /\ Running /\ control[p] = "drain" /\ channel[p] # <<>>
  /\ flush'   = [flush EXCEPT ![p] = Head(channel[p])]
  /\ channel' = [channel EXCEPT ![p] = Tail(@)]
  /\ ControlGoto(p, "flushWorker")
  /\ UNCHANGED <<state, closed, stop, loop, hand, waitFor, source, work, main, crashed,
                 count, historyVars>>

\* The flush worker has handled its message, maybe after the wait for it timed out.
FlushHandled(p) ==
  /\ Running /\ flush[p] # NoMessage
  /\ open' = [open EXCEPT ![flush[p]] = @ - 1]
  /\ flush' = [flush EXCEPT ![p] = NoMessage]
  /\ UNCHANGED <<state, channel, closed, stop, loop, hand, control, waitFor, source, work,
                 main, crashed, count, fresh>>

\* Mutant: after a timeout the remaining messages are left where they are.
FlushWorkerWaitFor_GiveUp(p) ==
  /\ Running /\ control[p] = "flushWorker"
  /\ \/ flush[p] = NoMessage /\ ControlGoto(p, "drain")
     \/ flush[p] # NoMessage /\ ShutdownTimeout[p] > 0 /\ ControlGoto(p, "dead")
  /\ UNCHANGED <<state, channel, closed, stop, loop, hand, waitFor, flush, source, work,
                 main, crashed, count, historyVars>>

\* flushWorker.WaitFor returns: true when the worker is done, false after the timeout.
FlushWorkerWaitFor(p) ==
  /\ Running /\ control[p] = "flushWorker"
  /\ \/ flush[p] = NoMessage /\ ControlGoto(p, "drain")
     \/ flush[p] # NoMessage /\ ShutdownTimeout[p] > 0 /\ ControlGoto(p, "dropRest")
  /\ UNCHANGED <<state, channel, closed, stop, loop, hand, waitFor, flush, source, work,
                 main, crashed, count, historyVars>>

\* A message that is left after the timeout is dropped by the control loop itself.
DropRest(p) ==
  /\ Running /\ control[p] = "dropRest" /\ channel[p] # <<>> /\ work[p] = <<>>
  /\ LET m == Head(channel[p])
     IN /\ CountMessage({"dropped", Routed(DropListeners[p])})
        /\ work' = [work EXCEPT ![p] = Broadcast(DropListeners[p], m)]
        /\ open' = [open EXCEPT ![m] = @ + Len(DropListeners[p]) - 1]
  /\ channel' = [channel EXCEPT ![p] = Tail(@)]
  /\ UNCHANGED <<state, closed, stop, loop, hand, control, waitFor, flush, source, main,
                 crashed, fresh>>

\* The closed channel is empty.
DrainDone(p) ==
  /\ Running /\ control[p] \in {"drain", "dropRest"}
  /\ channel[p] = <<>> /\ work[p] = <<>>
  /\ ControlGoto(p, "dead")
  /\ UNCHANGED <<state, channel, closed, stop, loop, hand, waitFor, flush, source, work,
                 main, crashed, count, historyVars>>

\* defer prod.setState(PluginStateDead)
SetDead(p) ==
  /\ Running /\ control[p] = "dead"
  /\ state' = [state EXCEPT ![p] = Dead]
  /\ ControlGoto(p, "done")
  /\ UNCHANGED <<channel, closed, stop, loop, hand, waitFor, flush, source, work, main,
                 crashed, count, historyVars>>

-----------------------------------------------------------------------------
(* run and shutdown of the multiplexer *)

\* An exit signal: the consumers get their stop commands.  Bound: the signal does not
\* arrive before every producer has started.
Shutdown ==
  /\ Running /\ main = "run"
  /\ \A p \in Producers : control[p] = "command"
  /\ main' = "stopConsumers"
  /\ UNCHANGED <<producerVars, source, work, crashed, count, historyVars>>

\* Mutant: the producers are stopped before the consumers are done.
ConsumersDone_NoWait ==
  /\ Running /\ main = "stopConsumers"
  /\ main' = "stopProducers"
  /\ UNCHANGED <<producerVars, source, work, crashed, count, historyVars>>

\* consumerWorker.Wait()
ConsumersDone ==
  /\ Running /\ main = "stopConsumers"
  /\ \A s \in Sources \cap Counted : source[s] = "done"
  /\ main' = "stopProducers"
  /\ UNCHANGED <<producerVars, source, work, crashed, count, historyVars>>

\* Every producer gets a stop command; the control channel holds one command.
StopProducers ==
  /\ Running /\ main = "stopProducers"
  /\ stop' = [p \in Producers |-> TRUE]
  /\ main' = "waitForProducers"
  /\ UNCHANGED <<state, channel, closed, loop, hand, control, waitFor, flush, source, work,
                 crashed, count, historyVars>>

\* producerWorker.Wait(), after which main returns and the process ends.
ProducersDone ==
  /\ Running /\ main = "waitForProducers"
  /\ \A p \in Producers \cap Counted : loop[p] = "done"
  /\ main' = "stopped"
  /\ UNCHANGED <<producerVars, source, work, crashed, count, historyVars>>

\* The process has ended.
Ended == ~Running /\ UNCHANGED vars

-----------------------------------------------------------------------------
Init ==
  /\ state   = [p \in Producers |-> Initializing]
  /\ channel = [p \in Producers |-> <<>>]
  /\ closed  = [p \in Producers |-> FALSE]
  /\ stop    = [p \in Producers |-> FALSE]
  /\ loop    = [p \in Producers |-> "start"]
  /\ hand    = [p \in Producers |-> NoMessage]
  /\ control = [p \in Producers |-> "none"]
  /\ waitFor = [p \in Producers |-> {}]
  /\ flush   = [p \in Producers |-> NoMessage]
  /\ source  = [s \in Sources |-> "active"]
  /\ work    = [t \in Threads |-> <<>>]
  /\ main = "run" /\ crashed = {}
  /\ count = [c \in Counters |-> 0]
  /\ fresh = Messages
  /\ open = [m \in Messages |-> 0]

\* The goroutine goes on with the call it is in.
Continue(t) ==
  Enqueue(t) \/ Send(t) \/ SendPanics(t) \/ SendFails(t) \/ EnqueueSetState(t)

MessageLoop(p) == Produce(p) \/ LoopIsActive(p) \/ LoopReceive(p) \/ LoopHandled(p)

ControlLoop(p) ==
  \/ ControlStart(p) \/ ReceiveStop(p) \/ SetStopping(p) \/ CloseChannel(p)
  \/ DrainReceive(p) \/ FlushWorkerWaitFor(p) \/ DropRest(p) \/ DrainDone(p) \/ SetDead(p)
  \/ \E d \in Producers : WaitForDependency(p, d)

Main == ConsumersDone \/ StopProducers \/ ProducersDone

Next ==
  \/ \E t \in Threads : Continue(t)
  \/ \E s \in Sources :
       StopConsumer(s) \/ SourceDone(s) \/ \E m \in Messages : EnqueueMessage(s, m)
  \/ \E p \in Producers : MessageLoop(p) \/ ControlLoop(p) \/ FlushHandled(p)
  \/ Shutdown \/ Main \/ Ended

\* Every goroutine is scheduled again; a send on a full channel succeeds if there is
\* room again and again.  Message handlers return.
Fairness ==
  /\ \A t \in Threads : WF_vars(Continue(t))
  /\ \A t \in Sources \cup {p \in Producers : DropListeners[p] # <<>>} : SF_vars(Send(t))
  /\ \A s \in Sources : WF_vars(StopConsumer(s)) /\ WF_vars(SourceDone(s))
  /\ \A p \in Producers :
       WF_vars(MessageLoop(p)) /\ WF_vars(ControlLoop(p)) /\ WF_vars(FlushHandled(p))
  /\ WF_vars(Main)

Spec     == Init /\ [][Next]_vars
FairSpec == Spec /\ Fairness

-----------------------------------------------------------------------------
(* Properties *)

Calls ==
  [op : {"enqueue", "send"}, prod : Producers, msg : Messages]
    \cup [op : {"setState"}, prod : Producers, state : {Waiting, Active}]

\* Every variable has its type; a channel never holds more than its capacity.
TypeOK ==
  /\ state \in [Producers -> Initializing .. Dead]
  /\ channel \in [Producers -> Seq(Messages)]
  /\ \A p \in Producers : Len(channel[p]) <= Capacity[p]
  /\ closed \in [Producers -> BOOLEAN] /\ stop \in [Producers -> BOOLEAN]
  /\ loop \in [Producers -> {"start", "isActive", "receive", "onMessage", "done"}]
  /\ hand \in [Producers -> Messages \cup {NoMessage}]
  /\ \A p \in Producers : hand[p] # NoMessage <=> loop[p] = "onMessage"
  /\ control \in [Producers -> {"none", "start", "command", "waitFor", "close", "drain",
                                "flushWorker", "dropRest", "dead", "done"}]
  /\ waitFor \in [Producers -> SUBSET Producers]
  /\ flush \in [Producers -> Messages \cup {NoMessage}]
  /\ source \in [Sources -> {"active", "stopping", "done"}]
  /\ work \in [Threads -> Seq(Calls)]
  /\ main \in {"run", "stopConsumers", "stopProducers", "waitForProducers", "stopped"}
  /\ crashed \subseteq Threads
  /\ count \in [Counters -> 0 .. CountRange - 1]
  /\ fresh \subseteq Messages
  /\ open \in [Messages -> Nat]

\* LinkDependencies makes who listens to the drop stream of a producer depend on the producer,
\* if only through others: p is in every closed set that holds what the listener depends on.
\* The hypothesis of what Pipeline says about the order of the shutdown.
OrderedDrops ==
  \A p \in Producers : \A i \in DOMAIN DropListeners[p] : \A S \in SUBSET Producers :
    DependsOn[DropListeners[p][i]] \subseteq S /\ (\A x \in S : DependsOn[x] \subseteq S) => p \in S

\* The wait for the dependencies is over in all of these places of a control loop.
Gone == {"close", "drain", "flushWorker", "dropRest", "dead", "done"}

\* A producer has stopped, because its "ShutdownTimeoutMs" (3000 by default) was over, although
\* one it depends on is not done: it may have messages to drop, and nobody to take them.
GaveUp ==
  \E p \in Producers : \E d \in DependsOn[p] :
    ShutdownTimeout[p] > 0 /\ control[p] \in Gone /\ control[d] # "done"

\* The goroutines nothing closes a channel under: the sources that shutdown waits for, and
\* the producers as long as none of them has given up.
Protected == (Sources \cap Counted) \cup {p \in Producers : ~GaveUp}

\* "This panic recover is not needed", where that is true: no source that shutdown waits for
\* sends on a closed message channel, and no producer that drops messages does, unless a
\* listener has given up on one.  With the timeout of 3 seconds a producer has by default,
\* a producer whose handler blocks for that long makes its listener give up, and ends the
\* process when it then drops what is left.
NoSendOnClosedChannel == crashed \cap Protected = {}

\* The places in which a call of Enqueue for m has not ended yet.
Pending(m, c) == c.op # "setState" /\ c.msg = m
InFlight(m) ==
  Cardinality({x \in UNION {{t} \X DOMAIN work[t] : t \in Threads} :
                 Pending(m, work[x[1]][x[2]])})
  + Cardinality({x \in UNION {{p} \X DOMAIN channel[p] : p \in Producers} :
                   channel[x[1]][x[2]] = m})
  + Cardinality({p \in Producers : hand[p] = m})
  + Cardinality({p \in Producers : flush[p] = m})

\* Every message given to a producer is handled, filtered, discarded or dropped once,
\* whatever the timeouts and the shutdown do: none vanishes and none is handled twice.
EveryCallEndsOnce == \A m \in Messages : open[m] = InFlight(m)

\* The listeners of a drop stream outlive the producer that drops: as long as p drops
\* what is left in its channel the producers it drops to accept messages, unless one of
\* them has given up.
ListenersOutliveDropper ==
  \A p \in Producers \cap Protected :
    work[p] # <<>> /\ Top(p).op = "enqueue" => state[Top(p).prod] < Stopping

\* "CloseMessageChannel closes and empties the internal channel": when the producer is
\* dead its channel is empty, whoever gave up, and no protected goroutine can still use it.
EmptyWhenDead ==
  \A p \in Closing :
    control[p] = "done" =>
      /\ channel[p] = <<>>
      /\ \A t \in Protected : \A i \in DOMAIN work[t] :
           ~(work[t][i].op = "send" /\ work[t][i].prod = p)

\* Producers stop in an order that leaves nothing behind: a dead one has an empty channel
\* that stays empty, and, unless its listeners have given up, a stopping one drops only to
\* living ones.
StoppingIsOrdered == TypeOK /\ ListenersOutliveDropper /\ EmptyWhenDead

\* A producer that has left the active state does not come back to life: only a source
\* nobody waits for, or a producer its listener has given up on, can hit a stopping or dead
\* producer with the setState of Enqueue.
NeverRevived ==
  [][\/ \A p \in Producers : state[p] >= Stopping => state'[p] >= state[p]
     \/ \E t \in Threads \ Protected : work'[t] # work[t]]_vars

\* A producer has been set active again after its control loop had set it dead: its
\* message loop goes on receiving from the closed channel.
Revived(p) == control[p] = "done" /\ state[p] <= Active

\* Shutdown ends: the waits of the multiplexer and of the producers, and the emptying of
\* the channels, come to an end while consumers and producers are still blocked in Enqueue,
\* unless a goroutine that is not protected crashes the process or revives a dead producer with
\* an Enqueue that began before the stop (NoSendOnClosedChannel and NeverRevived say that
\* nobody else does).
ShutdownCompletes ==
  main # "run" ~> (~Running \/ \E p \in Producers : Revived(p))

=============================================================================
