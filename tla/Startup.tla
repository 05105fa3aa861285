------------------------------ MODULE Startup ------------------------------
(***************************************************************************)
(* A whole process from its configuration to its end, with the plugins     *)
(* reduced to what start and shutdown see of them: main (newMultiplexer,   *)
(* run and shutdown), one goroutine per plugin that reads its control      *)
(* channel, the files consumer with its walker, the metrics server, and    *)
(* the signals of the operating system.                                    *)
(*                                                                         *)
(* The wait groups are those of multiplexer.go: a plugin counts itself in  *)
(* the goroutine main has started for it, the files consumer in one more.  *)
(* Once main has returned, or a signal without a handler has arrived, no   *)
(* goroutine runs.                                                         *)
(***************************************************************************)
EXTENDS Files, SequencesExt

CONSTANTS
  Consumers,        \* consumers in the order of the configuration
  FilesConsumer,    \* the one with the walker
  Producers,        \* producers, likewise
  MaxNew,           \* metrics created while configuring
  MaxLateNew,       \* bound: metrics created by rate filters while running
  MaxSignals        \* bound: signals sent by the user

Plugins == Range(Consumers \o Producers)

ASSUME StartupAssumption ==
  /\ Consumers \in Seq(Range(Consumers)) /\ Producers \in Seq(Range(Producers))
  \* newMultiplexer makes a plugin of its own for every instance it is configured to have.
  /\ IsInjective(Consumers \o Producers)
  /\ FilesConsumer \in Range(Consumers) \ Range(Producers)
  /\ MaxNew \in Nat /\ MaxLateNew \in Nat /\ MaxSignals \in Nat

VARIABLES
  main,             \* where main is
  news,             \* metrics created so far
  todo,             \* the commands it still has to send
  control,          \* the control channel of each plugin
  plugin,           \* where the goroutine of each plugin is
  producing,        \* the count of the producer wait group
  handler,          \* whether signals go to main
  signals,          \* the channel they go to
  sent,             \* signals sent by the user so far
  killed,           \* a signal has ended the process
  unseen            \* history: the walker had not counted itself when main had waited

plexVars == <<main, news, todo>>
pluginVars == <<control, plugin, producing>>
signalVars == <<handler, signals, sent, killed>>
vars == <<plexVars, pluginVars, signalVars, unseen, filesVars, metricVars>>

Init ==
  /\ main = "configure" /\ news = 0 /\ todo = <<>>
  /\ control = [p \in Plugins |-> <<>>]
  /\ plugin = [p \in Plugins |-> "none"]
  /\ producing = 0
  /\ handler = FALSE /\ signals = <<>> /\ sent = 0 /\ killed = FALSE
  /\ unseen = FALSE
  /\ FilesInit /\ MetricsInit

Alive == ~killed /\ main # "stopped"

-----------------------------------------------------------------------------
(***************************************************************************)
(* Signals.  External: the default of all of them ends the process, and a  *)
(* signal is lost when the channel of its handler is full.                 *)
(***************************************************************************)
Signal(s) ==
  IF handler
  THEN /\ signals' = IF Len(signals) < 1 THEN Append(signals, s) ELSE signals
       /\ UNCHANGED <<handler, killed>>
  ELSE killed' = TRUE /\ UNCHANGED <<handler, signals>>

UserSignal ==
  /\ sent < MaxSignals
  /\ sent' = sent + 1
  /\ \E s \in {"exit", "roll"} : Signal(s)
  /\ UNCHANGED <<plexVars, pluginVars, unseen, filesVars, metricVars>>

\* The walker has read all files and KeepRunning is not set.
OwnInterrupt ==
  /\ walker = "interrupt"
  /\ Signal("exit")
  /\ walker' = "leave"
  /\ UNCHANGED <<plexVars, pluginVars, sent, unseen, concurrency, keepRunning, position,
                 currentProcNum, fileVars, workers, reported, metricVars>>

-----------------------------------------------------------------------------
(***************************************************************************)
(* main: configuration and start.                                          *)
(***************************************************************************)
otherThanMain == <<pluginVars, signalVars, unseen, filesVars>>

AskForMetric ==
  /\ main = "configure" /\ news < MaxNew
  /\ AskForNew
  /\ news' = news + 1
  /\ UNCHANGED <<main, todo, otherThanMain>>
CreateMetric == New /\ UNCHANGED <<plexVars, otherThanMain>>

Launch(ps) ==
  plugin' = [p \in Plugins |-> IF p \in ps THEN "starting" ELSE plugin[p]]

LaunchProducers ==
  /\ main = "configure" /\ news = MaxNew /\ ~wanted
  /\ Launch(Range(Producers))
  /\ main' = "producers"
  /\ UNCHANGED <<news, todo, control, producing, signalVars, unseen, filesVars, metricVars>>
LaunchConsumers ==
  /\ main = "producers"
  /\ Launch(Range(Consumers))
  /\ main' = "consumers"
  /\ UNCHANGED <<news, todo, control, producing, signalVars, unseen, filesVars, metricVars>>
newSignalHandler ==
  /\ main = "consumers"
  /\ handler' = TRUE
  /\ main' = "run"
  /\ UNCHANGED <<news, todo, pluginVars, signals, sent, killed, unseen, filesVars, metricVars>>

(***************************************************************************)
(* main: the loop.  A command waits for room in the channel of its plugin. *)
(***************************************************************************)
Commands(ps, command) == [i \in DOMAIN ps |-> <<ps[i], command>>]

Send ==
  /\ todo # <<>>
  /\ LET p == Head(todo)[1] IN
       control[p] = <<>> /\ control' = [control EXCEPT ![p] = <<Head(todo)[2]>>]
  /\ todo' = Tail(todo)
  /\ UNCHANGED <<main, news, plugin, producing, signalVars, unseen, filesVars, metricVars>>

Roll ==
  /\ main = "run" /\ todo = <<>> /\ signals = <<"roll">>
  /\ todo' = Commands(Consumers \o Producers, "roll")
  /\ signals' = <<>>
  /\ UNCHANGED <<main, news, pluginVars, handler, sent, killed, unseen, filesVars, metricVars>>
\* shutdown, up to the wait for the consumers: signals are no longer handled.
Exit ==
  /\ main = "run" /\ todo = <<>> /\ signals = <<"exit">>
  /\ todo' = Commands(Consumers, "stop")
  /\ signals' = <<>> /\ handler' = FALSE
  /\ main' = "stop consumers"
  /\ UNCHANGED <<news, pluginVars, sent, killed, unseen, filesVars, metricVars>>
\* Mutant: the wait for the consumers is left out.
ConsumersDone_NoWait == TRUE
ConsumersDone == workers = 0
StopProducers ==
  /\ main = "stop consumers" /\ todo = <<>> /\ ConsumersDone
  /\ unseen' = (walker \in {"none", "starting"})
  /\ todo' = Commands(Producers, "stop")
  /\ main' = "stop producers"
  /\ UNCHANGED <<news, pluginVars, signalVars, filesVars, metricVars>>
Stopped ==
  /\ main = "stop producers" /\ todo = <<>> /\ producing = 0
  /\ main' = "stopped"
  /\ UNCHANGED <<news, todo, pluginVars, signalVars, unseen, filesVars, metricVars>>

Main ==
  AskForMetric \/ LaunchProducers \/ LaunchConsumers \/ newSignalHandler
  \/ Send \/ Roll \/ Exit \/ StopProducers \/ Stopped

-----------------------------------------------------------------------------
(***************************************************************************)
(* The plugins.                                                            *)
(***************************************************************************)
\* Produce: the producer counts itself, first in the wait group and then in the metrics,
\* which can make it wait.  Consume of the log consumer, whose goroutine
\* is not counted, and of the files consumer, which starts the walker's goroutine.
Produce(p) ==
  /\ plugin[p] = "starting" /\ p \in Range(Producers)
  /\ producing' = producing + 1
  /\ plugin' = [plugin EXCEPT ![p] = "counted"]
  /\ UNCHANGED <<plexVars, control, signalVars, unseen, filesVars, metricVars>>
ProduceCounted(p) ==
  /\ plugin[p] = "counted" /\ ~wanted
  /\ plugin' = [plugin EXCEPT ![p] = "loop"]
  /\ UNCHANGED <<plexVars, control, producing, signalVars, unseen, filesVars, metricVars>>
Consume(p) ==
  /\ plugin[p] = "starting" /\ p \in Range(Consumers)
  /\ plugin' = [plugin EXCEPT ![p] = "loop"]
  /\ walker' = IF p = FilesConsumer THEN "starting" ELSE walker
  /\ UNCHANGED <<plexVars, control, producing, signalVars, unseen, concurrency, keepRunning,
                 position, currentProcNum, fileVars, workers, reported, metricVars>>

\* ControlLoop: a roll is ignored by those who have no callback for it, the stop ends it.
\* The walker is not told.
ControlLoop(p) ==
  /\ plugin[p] = "loop" /\ control[p] # <<>>
  /\ control' = [control EXCEPT ![p] = <<>>]
  /\ plugin' = [plugin EXCEPT ![p] = IF control[p] = <<"stop">> THEN "ended" ELSE "loop"]
  /\ producing' = IF control[p] = <<"stop">> /\ p \in Range(Producers)
                  THEN producing - 1 ELSE producing
  /\ UNCHANGED <<plexVars, signalVars, unseen, filesVars, metricVars>>

Plugin(p) == Produce(p) \/ ProduceCounted(p) \/ Consume(p) \/ ControlLoop(p)

\* Rate.Accepts, called by any plugin that runs, for a stream it has not seen.
LateNew ==
  /\ news < MaxNew + MaxLateNew /\ \E p \in Plugins : plugin[p] = "loop"
  /\ AskForNew
  /\ news' = news + 1
  /\ UNCHANGED <<main, todo, otherThanMain>>

Walker == AddMainWorker \/ StartWalk \/ Pass \/ goConcurrency \/ waitAllComplete \/ dumpMetric
          \/ WorkerDone \/ Leave
others == <<plexVars, pluginVars, signalVars, unseen>>

Work ==
  \/ Main
  \/ \E p \in Plugins : Plugin(p)
  \/ LateNew
  \/ CreateMetric
  \/ Walker /\ UNCHANGED others
  \/ OwnInterrupt
  \/ \E i \in Positions : process(i) /\ UNCHANGED others
  \/ Dump /\ UNCHANGED <<others, filesVars>>

Next == Alive /\ (Work \/ UserSignal)

\* The scheduler runs every goroutine that can run; the user owes no signal.
Fairness ==
  /\ WF_vars(Alive /\ Main)
  /\ WF_vars(Alive /\ CreateMetric)
  /\ \A p \in Plugins : WF_vars(Alive /\ Plugin(p))
  /\ WF_vars(Alive /\ ((Walker /\ UNCHANGED others) \/ OwnInterrupt))
  /\ \A i \in Positions : WF_vars(Alive /\ process(i) /\ UNCHANGED others)
  /\ WF_vars(Alive /\ Dump /\ UNCHANGED <<others, filesVars>>)

Spec == Init /\ [][Next]_vars /\ Fairness

-----------------------------------------------------------------------------
TypeOK ==
  /\ MetricsTypeOK
  /\ concurrency \in Nat /\ currentProcNum \in Int
  /\ walker \in {"none", "starting", "counted", "steps", "report", "interrupt", "leave", "left", "done"}
  /\ position \in 1..(Len(Entries) + 1)
  /\ \A i \in Positions :
       /\ file[i] \in {"none", "open", "read", "bytes", "finish", "done"}
       /\ left[i] \in Nat
  /\ main \in {"configure", "producers", "consumers", "run", "stop consumers",
               "stop producers", "stopped"}
  /\ \A p \in Plugins :
       /\ plugin[p] \in {"none", "starting", "counted", "loop", "ended"}
       /\ control[p] \in {<<>>, <<"roll">>, <<"stop">>}
  /\ workers \in 0..1 /\ producing \in 0..Cardinality(Range(Producers))

\* Producers are told to stop when the files are read and reported, although the stop
\* never reaches the walker: the wait of shutdown (multiplexer.go:354) is for the walker
\* unless it had not counted itself by then.
ConsumersFirst ==
  main \in {"stop producers", "stopped"} /\ ~unseen => walker \in {"left", "done"} /\ NoneRuns

\* Once a signal to exit has reached main, the process ends, whatever commands are still
\* in the control channels and whatever the walker is doing, unless a request for the
\* metrics waits for its own lock: Dump in shared/metric.go and a New of main or of a rate
\* filter (rate.go:140) can block each other and everybody else.
ExitEndsProcess ==
  (main = "run" /\ signals = <<"exit">>) ~> (killed \/ main = "stopped" \/ Stuck)
=============================================================================
