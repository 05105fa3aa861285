------------------------------- MODULE Stream -------------------------------
(***************************************************************************)
(* core.StreamBase: a stream that can be paused.                           *)
(*                                                                         *)
(* While a stream is paused its distribute function is stash, which sends  *)
(* messages to a channel; Resume puts the old function back, closes the    *)
(* channel and starts a goroutine that distributes what is in it.  Nothing *)
(* guards the fields of the stream, so every access is a step of its own.  *)
(* Distributing to the producers is one step; see Pipeline for what the    *)
(* producers do with the message.                                          *)
(***************************************************************************)
EXTENDS Naturals, FiniteSets, SequencesExt

CONSTANTS
  Threads,        \* goroutines using the stream
  CallSets,       \* who may call what: functions from goroutines to methods
  Messages, NoMessage,
  Filtered,       \* messages the filter of the stream does not accept
  Routed,         \* messages the formatter sends to another stream
  Capacity,       \* capacity passed to Pause
  MaxPauses       \* bound: calls of Pause that have an effect

\* Channels are numbered in the order Pause makes them, and channel n has a goroutine
\* n that Resume starts for it; 0 is nil.
Channels  == 1 .. MaxPauses
Sender    == Threads \cup Channels

ASSUME StreamAssumption ==
  /\ Threads \cap Channels = {}
  /\ CallSets \subseteq [Threads -> SUBSET {"Enqueue", "Pause", "Resume", "Flush"}]
  /\ NoMessage \notin Messages
  /\ Filtered \subseteq Messages /\ Routed \subseteq Messages \ Filtered
  /\ Capacity \in Nat /\ MaxPauses \in Nat

VARIABLES
  calls, hasProducers,     \* calls[t]: the methods goroutine t calls; producers are
                           \* attached to the stream (neither ever changes)
  paused,                  \* the channel, or 0
  distribute, previous,    \* stash or broadcast
  channel, closed,         \* contents of the channels, and which are closed
  made,                    \* number of channels made
  resumeWorker,            \* the WaitGroup of Resume
  pc, call, msg,           \* where each goroutine is, in which method, with which message
  to,                      \* the channel a goroutine in stash or Resume works with
  panicked,                \* goroutines that sent on a closed channel
  fresh,                   \* history: messages nobody has passed to Enqueue,
  entered,                 \*          messages that were to be distributed, in order,
  sent,                    \*          and messages sent to the producers, in order
  counted                  \* the messages each counter has counted

streamVars == <<calls, hasProducers, paused, distribute, previous, channel, closed, made, resumeWorker>>
vars == <<streamVars, pc, call, msg, to, panicked, fresh, entered, sent, counted>>

Goto(t, label) == pc' = [pc EXCEPT ![t] = label]

-----------------------------------------------------------------------------
(* Enqueue *)

\* Filter, format, and Route up to the call of distribute.
Enqueue(t, m) ==
  /\ t \in Threads /\ pc[t] = "idle" /\ "Enqueue" \in calls[t] /\ m \in fresh
  /\ fresh' = fresh \ {m}
  /\ \/ /\ m \in Filtered
        /\ counted' = [counted EXCEPT !.filtered = @ \cup {m}]
        /\ UNCHANGED <<pc, call, msg, entered>>
     \/ m \in Routed /\ UNCHANGED <<pc, call, msg, entered, counted>>
     \/ /\ m \notin Filtered \cup Routed /\ ~hasProducers
        /\ counted' = [counted EXCEPT !.noRoute = @ \cup {m}]
        /\ UNCHANGED <<pc, call, msg, entered>>
     \/ /\ m \notin Filtered \cup Routed /\ hasProducers
        /\ counted' = [counted EXCEPT !.processed = @ \cup {m}]
        /\ call'    = [call EXCEPT ![t] = "Enqueue"]
        /\ msg'     = [msg EXCEPT ![t] = m]
        /\ entered' = Append(entered, m)
        /\ Goto(t, "distribute")
  /\ UNCHANGED <<streamVars, to, panicked, sent>>

\* A call of stream.distribute has returned: Enqueue is done, a resume goroutine goes on.
DistributeReturns(t) ==
  /\ msg' = [msg EXCEPT ![t] = NoMessage]
  /\ Goto(t, IF t \in Threads THEN "idle" ELSE "range")

\* stream.distribute(msg): the field is read, and Broadcast calls the producers.
Distribute(t) ==
  /\ pc[t] = "distribute"
  /\ \/ /\ distribute = "broadcast"
        /\ sent' = Append(sent, msg[t])
        /\ DistributeReturns(t)
     \/ distribute = "stash" /\ Goto(t, "stash") /\ UNCHANGED <<sent, msg>>
  /\ UNCHANGED <<streamVars, call, to, panicked, fresh, entered, counted>>

\* stash reads the channel ...
StashRead(t) ==
  /\ pc[t] = "stash"
  /\ to' = [to EXCEPT ![t] = paused]
  /\ Goto(t, "send")
  /\ UNCHANGED <<streamVars, call, msg, panicked, fresh, entered, sent, counted>>

\* ... and sends to it.  A send on nil or on a full channel blocks.
StashSend(t) ==
  /\ pc[t] = "send" /\ to[t] # 0 /\ ~closed[to[t]] /\ Len(channel[to[t]]) < Capacity
  /\ channel' = [channel EXCEPT ![to[t]] = Append(@, msg[t])]
  /\ DistributeReturns(t)
  /\ UNCHANGED <<calls, hasProducers, paused, distribute, previous, closed, made, resumeWorker, call, to,
                 panicked, fresh, entered, sent, counted>>

StashPanics(t) ==
  /\ pc[t] = "send" /\ to[t] # 0 /\ closed[to[t]]
  /\ panicked' = panicked \cup {t}
  /\ Goto(t, "panicked")
  /\ UNCHANGED <<streamVars, call, msg, to, fresh, entered, sent, counted>>

-----------------------------------------------------------------------------
(* Pause, Resume, Flush *)

CallPause(t) ==
  /\ t \in Threads /\ pc[t] = "idle" /\ "Pause" \in calls[t]
  /\ paused = 0 /\ made < MaxPauses
  /\ Goto(t, "pause")
  /\ UNCHANGED <<streamVars, call, msg, to, panicked, fresh, entered, sent, counted>>

\* stream.paused = make(chan Message, capacity)
PauseMake(t) ==
  /\ pc[t] = "pause" /\ made < MaxPauses
  /\ made'   = made + 1
  /\ paused' = made'
  /\ Goto(t, "savePrevious")
  /\ UNCHANGED <<calls, hasProducers, distribute, previous, channel, closed, resumeWorker, call, msg, to,
                 panicked, fresh, entered, sent, counted>>

SavePrevious(t) ==
  /\ pc[t] = "savePrevious"
  /\ previous' = distribute
  /\ Goto(t, "setStash")
  /\ UNCHANGED <<calls, hasProducers, paused, distribute, channel, closed, made, resumeWorker, call, msg, to,
                 panicked, fresh, entered, sent, counted>>

SetStash(t) ==
  /\ pc[t] = "setStash"
  /\ distribute' = "stash"
  /\ Goto(t, "idle")
  /\ UNCHANGED <<calls, hasProducers, paused, previous, channel, closed, made, resumeWorker, call, msg, to,
                 panicked, fresh, entered, sent, counted>>

\* Resume, or Flush, which calls it.
CallResume(t, c) ==
  /\ t \in Threads /\ pc[t] = "idle" /\ c \in calls[t] \cap {"Resume", "Flush"}
  /\ call' = [call EXCEPT ![t] = c]
  /\ Goto(t, IF paused # 0 THEN "restore" ELSE IF c = "Flush" THEN "wait" ELSE "idle")
  /\ UNCHANGED <<streamVars, msg, to, panicked, fresh, entered, sent, counted>>

\* Mutant: the stream keeps stashing messages.
Restore_KeepStash(t) ==
  /\ pc[t] = "restore"
  /\ resumeWorker' = resumeWorker + 1
  /\ Goto(t, "take")
  /\ UNCHANGED <<calls, hasProducers, paused, distribute, previous, channel, closed, made, call, msg, to,
                 panicked, fresh, entered, sent, counted>>

\* stream.distribute = stream.prevDistribute; stream.resumeWorker.Add(1)
Restore(t) ==
  /\ pc[t] = "restore"
  /\ distribute'   = previous
  /\ resumeWorker' = resumeWorker + 1
  /\ Goto(t, "take")
  /\ UNCHANGED <<calls, hasProducers, paused, previous, channel, closed, made, call, msg, to, panicked, fresh,
                 entered, sent, counted>>

\* stashed := stream.paused; stream.paused = nil
TakeChannel(t) ==
  /\ pc[t] = "take"
  /\ to'     = [to EXCEPT ![t] = paused]
  /\ paused' = 0
  /\ Goto(t, "close")
  /\ UNCHANGED <<calls, hasProducers, distribute, previous, channel, closed, made, resumeWorker, call, msg,
                 panicked, fresh, entered, sent, counted>>

\* close(stashed), which panics on nil and on a closed channel, and the goroutine.
CloseStashed(t) ==
  /\ pc[t] = "close"
  /\ LET n == to[t]
     IN IF n = 0 \/ closed[n]
          THEN /\ panicked' = panicked \cup {t}
               /\ Goto(t, "panicked")
               /\ UNCHANGED closed
          ELSE /\ closed' = [closed EXCEPT ![n] = TRUE]
               /\ pc' = [pc EXCEPT ![n] = "range",
                                   ![t] = IF call[t] = "Flush" THEN "wait" ELSE "idle"]
               /\ UNCHANGED panicked
  /\ UNCHANGED <<calls, hasProducers, paused, distribute, previous, channel, made, resumeWorker, call, msg, to,
                 fresh, entered, sent, counted>>

\* for msg := range stashed
RangeStashed(n) ==
  /\ n \in Channels /\ pc[n] = "range"
  /\ \/ /\ channel[n] # <<>>
        /\ msg'     = [msg EXCEPT ![n] = Head(channel[n])]
        /\ channel' = [channel EXCEPT ![n] = Tail(@)]
        /\ Goto(n, "distribute")
        /\ UNCHANGED resumeWorker
     \/ /\ channel[n] = <<>>
        /\ resumeWorker' = resumeWorker - 1
        /\ Goto(n, "done")
        /\ UNCHANGED <<msg, channel>>
  /\ UNCHANGED <<calls, hasProducers, paused, distribute, previous, closed, made, call, to, panicked, fresh,
                 entered, sent, counted>>

\* Mutant: Flush does not wait.
FlushWait_NoWait(t) ==
  /\ pc[t] = "wait"
  /\ Goto(t, "idle")
  /\ UNCHANGED <<streamVars, call, msg, to, panicked, fresh, entered, sent, counted>>

\* stream.resumeWorker.Wait()
FlushWait(t) ==
  /\ pc[t] = "wait" /\ resumeWorker = 0
  /\ Goto(t, "idle")
  /\ UNCHANGED <<streamVars, call, msg, to, panicked, fresh, entered, sent, counted>>

-----------------------------------------------------------------------------
Init ==
  /\ calls \in CallSets /\ hasProducers \in BOOLEAN
  /\ paused = 0 /\ distribute = "broadcast" /\ previous = "broadcast" /\ made = 0
  /\ channel = [n \in Channels |-> <<>>]
  /\ closed = [n \in Channels |-> FALSE]
  /\ resumeWorker = 0
  /\ pc = [t \in Sender |-> "idle"]
  /\ call = [t \in Threads |-> "Enqueue"]
  /\ msg = [t \in Sender |-> NoMessage]
  /\ to = [t \in Sender |-> 0]
  /\ panicked = {} /\ fresh = Messages /\ entered = <<>> /\ sent = <<>>
  /\ counted = [filtered |-> {}, noRoute |-> {}, processed |-> {}]

\* A goroutine goes on with the method it is in.
Continue(t) ==
  \/ Distribute(t) \/ StashRead(t) \/ StashSend(t) \/ StashPanics(t)
  \/ PauseMake(t) \/ SavePrevious(t) \/ SetStash(t)
  \/ Restore(t) \/ TakeChannel(t) \/ CloseStashed(t) \/ FlushWait(t) \/ RangeStashed(t)

Next ==
  \E t \in Sender :
    \/ Continue(t)
    \/ CallPause(t)
    \/ \E m \in Messages : Enqueue(t, m)
    \/ \E c \in {"Resume", "Flush"} : CallResume(t, c)

\* Goroutines are scheduled again, and a paused stream is flushed in the end.
Fairness ==
  \A t \in Sender : WF_vars(Continue(t)) /\ SF_vars(paused # 0 /\ CallResume(t, "Flush"))

Spec     == Init /\ [][Next]_vars
FairSpec == Spec /\ Fairness

-----------------------------------------------------------------------------
(* Properties *)

\* The channel of the stream is an open one.
TypeOK ==
  /\ calls \in CallSets /\ hasProducers \in BOOLEAN
  /\ paused \in 0 .. made /\ (paused # 0 => ~closed[paused])
  /\ distribute \in {"stash", "broadcast"} /\ previous \in {"stash", "broadcast"}
  /\ channel \in [Channels -> Seq(Messages)] /\ closed \in [Channels -> BOOLEAN]
  /\ \A n \in Channels : Len(channel[n]) <= Capacity
  /\ made \in 0 .. MaxPauses /\ resumeWorker \in Nat
  /\ pc \in [Sender -> {"idle", "distribute", "stash", "send", "panicked", "pause",
                        "savePrevious", "setStash", "restore", "take", "close", "wait",
                        "range", "done"}]
  /\ call \in [Threads -> {"Enqueue", "Resume", "Flush"}]
  /\ msg \in [Sender -> Messages \cup {NoMessage}]
  /\ to \in [Sender -> 0 .. MaxPauses]
  /\ panicked \subseteq Sender /\ fresh \subseteq Messages
  /\ entered \in Seq(Messages) /\ sent \in Seq(Messages)
  /\ counted \in [filtered : SUBSET Messages, noRoute : SUBSET Messages,
                  processed : SUBSET Messages]

\* The way Pause and Flush are meant to be used: one goroutine does everything with the
\* stream and ends a pause with Flush.
SingleUser ==
  \E t \in Threads :
    "Resume" \notin calls[t] /\ \A u \in Threads \ {t} : calls[u] = {}

\* Pausing keeps the order: what has been sent is always the beginning of what came in,
\* however often the stream was paused.
SentInOrder == SingleUser => \E n \in 0 .. Len(entered) : sent = SubSeq(entered, 1, n)

\* Whoever pauses, resumes and enqueues at the same time, and even if one of them panics:
\* a message is never lost and never doubled.  It has been sent, or a goroutine still has
\* it, or it is in a channel that is going to be emptied.
MessageIsInOnePlace ==
  \A m \in ToSet(entered) :
    Cardinality({i \in DOMAIN sent : sent[i] = m})
    + Cardinality({t \in Sender : msg[t] = m})
    + Cardinality({n \in Channels : m \in ToSet(channel[n]) /\ pc[n] # "done"}) = 1

\* "Flush calls Resume and blocks until resume finishes": when Flush has returned to a
\* goroutine nothing is left in the stream.
NothingStashedAfterFlush ==
  SingleUser =>
    \A t \in Threads :
      pc[t] = "idle" /\ call[t] = "Flush" /\ paused = 0 => Len(sent) = Len(entered)

\* Pausing a stream neither loses nor doubles a message, and a single user sees them in
\* order and gone after a flush.
StreamInvariant ==
  TypeOK /\ SentInOrder /\ MessageIsInOnePlace /\ NothingStashedAfterFlush

\* A goroutine stands in stash before a full channel, until another one resumes the stream.
Blocked(t) == pc[t] = "send" /\ to[t] # 0 /\ ~closed[to[t]] /\ Len(channel[to[t]]) = Capacity

\* A message that was counted as processed is sent, if a paused stream is flushed; unless
\* the only user of the stream fills the channel, and waits for the Flush it has to call.
ProcessedIsSent ==
  SingleUser => \A m \in Messages :
    m \in counted.processed ~> m \in ToSet(sent) \/ \E t \in Threads : Blocked(t)
=============================================================================
