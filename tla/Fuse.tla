-------------------------------- MODULE Fuse --------------------------------
(***************************************************************************)
(* A fuse shared by producers, which burn it when they cannot write and    *)
(* activate it when they can again, and by consumers, which wait on it.    *)
(*                                                                         *)
(* shared.Fuse is an atomic flag and a condition variable.  A producer     *)
(* burns and activates it from its control loop; while it is burned a      *)
(* goroutine started by the burn, and then a timer, ask the producer's     *)
(* check callback whether it has recovered.  A consumer waits on the fuse  *)
(* in its worker goroutine and in fuseControlLoop, which tells the control *)
(* loop of the consumer about the fuse.  Shutdown stops the consumers,     *)
(* activates all fuses and waits for the consumer workers.                 *)
(***************************************************************************)
EXTENDS Naturals, Sequences

CONSTANTS
  Consumers,
  FuseProducers, \* the producers that share the fuse
  HasCheck,     \* producers with a check callback (SetCheckFuseCallback)
  Nobody,       \* the mutex of the condition variable is free
  MaxCommands   \* bound: fuse commands producer plugins send to their control channel

Waiters == {"worker", "watch"} \X Consumers

ASSUME FuseAssumption ==
  HasCheck \subseteq FuseProducers /\ Nobody \notin Waiters /\ MaxCommands \in Nat

VARIABLES
  burned,       \* the flag of the fuse
  holder,       \* owner of the mutex of the condition variable
  asleep,       \* goroutines in the notify list of the condition variable
  wait,         \* where each waiter is in Fuse.Wait
  active,       \* IsActive() of each consumer: its control loop runs
  consControl,  \* control channel of each consumer
  worker,       \* where the worker goroutine of each consumer is
  watch,        \* where fuseControlLoop of each consumer is
  seen,         \* the last fuse command each consumer has handled
  prodControl,  \* control channel of each producer
  control,      \* where the control loop of each producer is
  checks,       \* checks[p][l]: triggerCheckFuse goroutines of p at label l
  timer,        \* the timer of each producer is armed
  main,         \* where shutdown is,
  toStop,       \*   and the consumers it has not sent a stop command yet
  commands      \* fuse commands sent by producer plugins

waitVars == <<burned, holder, asleep, wait>>
consVars == <<active, consControl, worker, watch, seen>>
prodVars == <<prodControl, control, checks, timer, commands>>
mainVars == <<main, toStop>>
fuseVars == <<waitVars, consVars, prodVars, mainVars>>

-----------------------------------------------------------------------------
(* shared.Fuse *)

\* The flag is cleared, the first half of Activate; waiting goroutines may go on.
ClearBurned == burned' = FALSE

\* signal.Broadcast(), the second half: everybody in the notify list wakes up.
Broadcast ==
  /\ wait'   = [w \in Waiters |-> IF w \in asleep THEN "woken" ELSE wait[w]]
  /\ asleep' = {}

CallWait(w) == wait' = [wait EXCEPT ![w] = "lock"]

WaitLock(w) ==
  /\ wait[w] = "lock" /\ holder = Nobody
  /\ holder' = w
  /\ wait'   = [wait EXCEPT ![w] = "isBurned"]
  /\ UNCHANGED <<burned, asleep, consVars, prodVars, mainVars>>

WaitIsBurned(w) ==
  /\ wait[w] = "isBurned"
  /\ \/ burned /\ wait' = [wait EXCEPT ![w] = "condWait"] /\ UNCHANGED holder
     \/ ~burned /\ wait' = [wait EXCEPT ![w] = "returned"] /\ holder' = Nobody
  /\ UNCHANGED <<burned, asleep, consVars, prodVars, mainVars>>

\* signal.Wait() enters the notify list and then unlocks the mutex.
CondWait(w) ==
  /\ wait[w] = "condWait"
  /\ asleep' = asleep \cup {w}
  /\ wait'   = [wait EXCEPT ![w] = "asleep"]
  /\ holder' = Nobody
  /\ UNCHANGED <<burned, consVars, prodVars, mainVars>>

\* A woken goroutine locks the mutex and Wait returns without looking at the flag again.
WaitReturns(w) ==
  /\ wait[w] = "woken" /\ holder = Nobody
  /\ wait' = [wait EXCEPT ![w] = "returned"]
  /\ UNCHANGED <<burned, holder, asleep, consVars, prodVars, mainVars>>

-----------------------------------------------------------------------------
(* Consumers *)

Send(channel, x, command) ==
  channel[x] = <<>> /\ channel' = [channel EXCEPT ![x] = <<command>>]

\* The worker waits on the fuse before every message, while the consumer is active.
WorkerIsActive(c) ==
  /\ worker[c] = "isActive"
  /\ \/ /\ active[c] /\ CallWait(<<"worker", c>>)
        /\ worker' = [worker EXCEPT ![c] = "wait"]
     \/ ~active[c] /\ worker' = [worker EXCEPT ![c] = "done"] /\ UNCHANGED wait
  /\ UNCHANGED <<burned, holder, asleep, active, consControl, watch, seen, prodVars, mainVars>>

\* WaitOnFuse has returned and the message is enqueued.
WorkerEnqueue(c) ==
  /\ worker[c] = "wait" /\ wait[<<"worker", c>>] = "returned"
  /\ wait'   = [wait EXCEPT ![<<"worker", c>>] = "none"]
  /\ worker' = [worker EXCEPT ![c] = "isActive"]
  /\ UNCHANGED <<burned, holder, asleep, active, consControl, watch, seen,
                 prodVars, mainVars>>

\* for cons.IsActive() of fuseControlLoop
WatchIsActive(c) ==
  /\ watch[c] = "isActive"
  /\ watch' = [watch EXCEPT ![c] = IF active[c] THEN "isBurned" ELSE "done"]
  /\ UNCHANGED <<waitVars, active, consControl, worker, seen, prodVars, mainVars>>

WatchIsBurned(c) ==
  /\ watch[c] = "isBurned"
  /\ watch' = [watch EXCEPT ![c] = IF burned THEN "sendBurn" ELSE "isActive"]
  /\ UNCHANGED <<waitVars, active, consControl, worker, seen, prodVars, mainVars>>

\* Mutant: fuseControlLoop does not wait on the fuse.
WatchSendBurn_NoWait(c) ==
  /\ watch[c] = "sendBurn"
  /\ Send(consControl, c, "FuseBurn")
  /\ watch' = [watch EXCEPT ![c] = "isActive"]
  /\ UNCHANGED <<waitVars, active, worker, seen, prodVars, mainVars>>

WatchSendBurn(c) ==
  /\ watch[c] = "sendBurn"
  /\ Send(consControl, c, "FuseBurn")
  /\ CallWait(<<"watch", c>>)
  /\ watch' = [watch EXCEPT ![c] = "wait"]
  /\ UNCHANGED <<burned, holder, asleep, active, worker, seen, prodVars, mainVars>>

WatchSendActive(c) ==
  /\ watch[c] = "wait" /\ wait[<<"watch", c>>] = "returned"
  /\ Send(consControl, c, "FuseActive")
  /\ wait'  = [wait EXCEPT ![<<"watch", c>>] = "none"]
  /\ watch' = [watch EXCEPT ![c] = "isActive"]
  /\ UNCHANGED <<burned, holder, asleep, active, worker, seen, prodVars, mainVars>>

\* ConsumerBase.ControlLoop; it ends with the stop command.
ConsumerControl(c) ==
  /\ active[c] /\ consControl[c] # <<>>
  /\ consControl' = [consControl EXCEPT ![c] = <<>>]
  /\ IF Head(consControl[c]) = "Stop"
       THEN active' = [active EXCEPT ![c] = FALSE] /\ UNCHANGED seen
       ELSE seen' = [seen EXCEPT ![c] = Head(consControl[c])] /\ UNCHANGED active
  /\ UNCHANGED <<waitVars, worker, watch, prodVars, mainVars>>

-----------------------------------------------------------------------------
(* Producers *)

\* The plugin has lost, or got back, what it writes to.
SendCommand(p, command) ==
  /\ commands < MaxCommands
  /\ Send(prodControl, p, command)
  /\ commands' = commands + 1
  /\ UNCHANGED <<waitVars, consVars, control, checks, timer, mainVars>>

Goto(p, label) == control' = [control EXCEPT ![p] = label]

\* The control loop takes a command and looks whether it changes anything.
ProducerControl(p) ==
  /\ control[p] = "command" /\ prodControl[p] # <<>>
  /\ prodControl' = [prodControl EXCEPT ![p] = <<>>]
  /\ Goto(p, CASE Head(prodControl[p]) = "FuseBurn" /\ ~burned  -> "burn"
               [] Head(prodControl[p]) = "FuseActive" /\ burned -> "stopTimer"
               [] OTHER                                         -> "command")
  /\ UNCHANGED <<waitVars, consVars, checks, timer, commands, mainVars>>

Burn(p) ==
  /\ control[p] = "burn"
  /\ burned' = TRUE
  /\ Goto(p, "check")
  /\ UNCHANGED <<holder, asleep, wait, consVars, prodControl, checks, timer,
                 commands, mainVars>>

\* go prod.triggerCheckFuse()
StartCheck(p) ==
  /\ control[p] = "check"
  /\ checks' = [checks EXCEPT ![p].isBurned = @ + 1]
  /\ Goto(p, "command")
  /\ UNCHANGED <<waitVars, consVars, prodControl, timer, commands, mainVars>>

\* setFuseControl(nil)
StopTimer(p) ==
  /\ control[p] = "stopTimer"
  /\ timer' = [timer EXCEPT ![p] = FALSE]
  /\ Goto(p, "activate")
  /\ UNCHANGED <<waitVars, consVars, prodControl, checks, commands, mainVars>>

\* Activate; somebody else may have activated the fuse in the meantime.
Activate(p) ==
  /\ control[p] = "activate"
  /\ \/ burned /\ ClearBurned /\ Goto(p, "broadcast")
     \/ ~burned /\ Goto(p, "command") /\ UNCHANGED burned
  /\ UNCHANGED <<holder, asleep, wait, consVars, prodControl, checks, timer, commands, mainVars>>

ActivateBroadcast(p) ==
  /\ control[p] = "broadcast"
  /\ Broadcast
  /\ Goto(p, "command")
  /\ UNCHANGED <<burned, holder, consVars, prodControl, checks, timer, commands,
                 mainVars>>

\* A triggerCheckFuse goroutine goes from one label to another, or ends.
Move(p, from, to) ==
  /\ checks[p][from] > 0
  /\ checks' = [checks EXCEPT ![p] = [l \in DOMAIN @ |-> IF l = from THEN @[l] - 1
                                                         ELSE IF l = to THEN @[l] + 1
                                                         ELSE @[l]]]

CheckIsBurned(p) ==
  /\ Move(p, "isBurned", IF p \in HasCheck /\ burned THEN "onCheck" ELSE "end")
  /\ UNCHANGED <<waitVars, consVars, prodControl, control, timer, commands, mainVars>>

\* onCheckFuse() returns true, and the control loop gets a command.
CheckSucceeds(p) ==
  /\ Move(p, "onCheck", "send")
  /\ UNCHANGED <<waitVars, consVars, prodControl, control, timer, commands, mainVars>>

CheckSend(p) ==
  /\ Move(p, "send", "end")
  /\ Send(prodControl, p, "FuseActive")
  /\ UNCHANGED <<waitVars, consVars, control, timer, commands, mainVars>>

\* Mutant: a check that fails is not repeated.
CheckFails_NoTimer(p) ==
  /\ Move(p, "onCheck", "end")
  /\ UNCHANGED <<waitVars, consVars, prodControl, control, timer, commands, mainVars>>

\* onCheckFuse() returns false: setFuseControl(prod.triggerCheckFuse).
CheckFails(p) ==
  /\ Move(p, "onCheck", "end")
  /\ timer' = [timer EXCEPT ![p] = TRUE]
  /\ UNCHANGED <<waitVars, consVars, prodControl, control, commands, mainVars>>

TimerFires(p) ==
  /\ timer[p]
  /\ timer'  = [timer EXCEPT ![p] = FALSE]
  /\ checks' = [checks EXCEPT ![p].isBurned = @ + 1]
  /\ UNCHANGED <<waitVars, consVars, prodControl, control, commands, mainVars>>

-----------------------------------------------------------------------------
(* shutdown *)

\* Stop commands for the consumers, in the order of the configuration.
StopConsumer(c) ==
  /\ main = "stop" /\ c \in toStop
  /\ Send(consControl, c, "Stop")
  /\ toStop' = toStop \ {c}
  /\ UNCHANGED <<waitVars, active, worker, watch, seen, prodVars, main>>

ActivateAllFuses ==
  /\ main = "stop" /\ toStop = {}
  /\ \/ burned /\ ClearBurned /\ main' = "broadcast"
     \/ ~burned /\ main' = "wait" /\ UNCHANGED burned
  /\ UNCHANGED <<holder, asleep, wait, consVars, prodVars, toStop>>

ActivateAllBroadcast ==
  /\ main = "broadcast"
  /\ Broadcast
  /\ main' = "wait"
  /\ UNCHANGED <<burned, holder, consVars, prodVars, toStop>>

\* consumerWorker.Wait()
ConsumersDone ==
  /\ main = "wait" /\ \A c \in Consumers : worker[c] = "done"
  /\ main' = "done"
  /\ UNCHANGED <<waitVars, consVars, prodVars, toStop>>

-----------------------------------------------------------------------------
NoChecks == [isBurned |-> 0, onCheck |-> 0, send |-> 0]

FuseInit ==
  /\ burned = FALSE /\ holder = Nobody /\ asleep = {}
  /\ wait = [w \in Waiters |-> "none"]
  /\ active = [c \in Consumers |-> TRUE]
  /\ consControl = [c \in Consumers |-> <<>>]
  /\ worker = [c \in Consumers |-> "isActive"]
  /\ watch = [c \in Consumers |-> "isActive"]
  /\ seen = [c \in Consumers |-> "FuseActive"]
  /\ prodControl = [p \in FuseProducers |-> <<>>]
  /\ control = [p \in FuseProducers |-> "command"]
  /\ checks = [p \in FuseProducers |-> NoChecks]
  /\ timer = [p \in FuseProducers |-> FALSE]
  /\ main = "stop" /\ toStop = Consumers
  /\ commands = 0

Wait(w) == WaitLock(w) \/ WaitIsBurned(w) \/ CondWait(w) \/ WaitReturns(w)

Worker(c) == WorkerIsActive(c) \/ WorkerEnqueue(c)
Watch(c)  == WatchIsActive(c) \/ WatchIsBurned(c) \/ WatchSendBurn(c) \/ WatchSendActive(c)

ControlLoop(p) ==
  \/ ProducerControl(p) \/ Burn(p) \/ StartCheck(p) \/ StopTimer(p) \/ Activate(p)
  \/ ActivateBroadcast(p)

Check(p) == CheckIsBurned(p) \/ CheckSucceeds(p) \/ CheckFails(p) \/ TimerFires(p)

Shutdown ==
  (\E c \in Consumers : StopConsumer(c)) \/ ActivateAllFuses \/ ActivateAllBroadcast
    \/ ConsumersDone

FuseNext ==
  \/ \E w \in Waiters : Wait(w)
  \/ \E c \in Consumers : Worker(c) \/ Watch(c) \/ ConsumerControl(c)
  \/ \E p \in FuseProducers :
       \/ \E command \in {"FuseBurn", "FuseActive"} : SendCommand(p, command)
       \/ ControlLoop(p) \/ Check(p) \/ CheckSend(p)
  \/ Shutdown

\* The exit signal has arrived.
ShuttingDown == toStop # Consumers \/ main # "stop"

\* The goroutines of a producer are scheduled again and timers fire.  A producer that is
\* asked again and again whether it has recovered says yes in the end, and gets its
\* command through.
ProducerFairness ==
  \A p \in FuseProducers :
    /\ WF_fuseVars(ControlLoop(p)) /\ WF_fuseVars(Check(p))
    /\ SF_fuseVars(CheckSucceeds(p)) /\ SF_fuseVars(CheckSend(p))

\* The same for the goroutines of the consumers and, after an exit signal, for shutdown.
ConsumerFairness ==
  /\ \A w \in Waiters : SF_fuseVars(Wait(w))
  /\ \A c \in Consumers :
       WF_fuseVars(Worker(c)) /\ SF_fuseVars(Watch(c)) /\ WF_fuseVars(ConsumerControl(c))
  /\ SF_fuseVars(ShuttingDown /\ Shutdown)

FuseSpec     == FuseInit /\ [][FuseNext]_fuseVars
FuseFairSpec == FuseSpec /\ ProducerFairness
WaitSpec     == FuseFairSpec /\ ConsumerFairness

-----------------------------------------------------------------------------
(* Properties *)

\* Every variable has its type; the mutex belongs to the goroutine that is inside Wait, and
\* the notify list holds exactly the goroutines that sleep.
FuseTypeOK ==
  /\ burned \in BOOLEAN
  /\ holder \in Waiters \cup {Nobody}
  /\ asleep = {w \in Waiters : wait[w] = "asleep"}
  /\ wait \in [Waiters -> {"none", "lock", "isBurned", "condWait", "asleep", "woken",
                           "returned"}]
  /\ \A w \in Waiters : holder = w <=> wait[w] \in {"isBurned", "condWait"}
  /\ active \in [Consumers -> BOOLEAN]
  /\ consControl \in [Consumers -> {<<>>} \cup
                        {<<c>> : c \in {"FuseBurn", "FuseActive", "Stop"}}]
  /\ worker \in [Consumers -> {"isActive", "wait", "done"}]
  /\ watch \in [Consumers -> {"isActive", "isBurned", "sendBurn", "wait", "done"}]
  /\ seen \in [Consumers -> {"FuseBurn", "FuseActive"}]
  /\ prodControl \in [FuseProducers -> {<<>>, <<"FuseBurn">>, <<"FuseActive">>}]
  /\ control \in [FuseProducers -> {"command", "burn", "check", "stopTimer", "activate",
                                    "broadcast"}]
  /\ checks \in [FuseProducers -> [isBurned : Nat, onCheck : Nat, send : Nat]]
  /\ timer \in [FuseProducers -> BOOLEAN]
  /\ main \in {"stop", "broadcast", "wait", "done"} /\ toStop \subseteq Consumers
  /\ commands \in 0 .. MaxCommands

\* Something of producer p is under way that will activate the fuse, or look at it again.
Recovering(p) ==
  \/ \E l \in DOMAIN checks[p] : checks[p][l] > 0
  \/ timer[p] \/ prodControl[p] = <<"FuseActive">>
  \/ control[p] \in {"check", "stopTimer", "activate"}

\* A burned fuse is never forgotten: if all producers have a check callback then
\* whenever the fuse is burned one of them is about to check or to activate it,
\* although stopping the timer, burning and checking happen in different goroutines.
BurnedFuseIsWatched ==
  burned /\ HasCheck = FuseProducers => \E p \in FuseProducers : Recovering(p)

\* The callbacks of a consumer alternate: it is told about a burned fuse only if it
\* believes the fuse to be active, and the other way round.
FuseCallbacksAlternate ==
  \A c \in Consumers :
    consControl[c] # <<>> /\ Head(consControl[c]) # "Stop" => Head(consControl[c]) # seen[c]

\* Whatever burns, checks and activates the fuse at the same time: a burned one is watched,
\* and the consumers learn of every change once.
FuseInvariant == FuseTypeOK /\ BurnedFuseIsWatched /\ FuseCallbacksAlternate

\* A burned fuse is activated again, if the check callback of every producer returns
\* true in the end: burning, checking, the timer and the commands of the producer plugins
\* run in goroutines of their own and none of them undoes the recovery.
FuseRecovers == burned ~> ~burned

\* "Wait blocks until the fuse enters active state": it does not block any longer if
\* the fuse stays active.
WaitEnds ==
  \A w \in Waiters : wait[w] = "asleep" /\ ~burned ~> wait[w] # "asleep" \/ burned
=============================================================================
