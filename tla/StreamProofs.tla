---------------------------- MODULE StreamProofs ----------------------------
(***************************************************************************)
(* Proofs about Stream, for any number of goroutines, messages and pauses, *)
(* and any channel capacity.                                               *)
(***************************************************************************)
EXTENDS Stream, FiniteSetTheorems, SequenceTheorems, TLAPS

-----------------------------------------------------------------------------
(* Channels and their goroutines *)

\* Goroutines with a message that is to be distributed.
Distributing == {"distribute", "stash", "send"}

\* Channels that are made, are open until the goroutine that closes one starts theirs, which
\* nobody else closes, and are empty when their goroutine ends.
ChannelInv ==
  /\ \A n \in Channels :
       /\ pc[n] \in {"idle", "range", "panicked", "done"} \cup Distributing
       /\ closed[n] <=> pc[n] # "idle"
       /\ n > made => ~closed[n] /\ channel[n] = <<>>
       /\ pc[n] = "done" => channel[n] = <<>>
  /\ \A s \in Sender : to[s] <= made
  /\ \A t \in Threads : pc[t] \notin {"range", "done"}
  /\ \A t \in Threads : pc[t] = "close" /\ to[t] # 0 => to[t] # paused /\ ~closed[to[t]]
  /\ \A t, u \in Threads : pc[t] = "close" /\ pc[u] = "close" /\ to[t] = to[u] /\ to[t] # 0 => t = u

\* What resumeWorker counts: goroutines between Add and the start of another one, which goes
\* on until Done.
Resuming ==
  {t \in Threads : pc[t] \in {"take", "close"}}
    \cup {n \in Channels : pc[n] \in {"range"} \cup Distributing}
ResumeInv == IsFiniteSet(Resuming) /\ Cardinality(Resuming) <= resumeWorker

-----------------------------------------------------------------------------
(* Where messages are *)

\* A message is with a goroutine that distributes it, or that has panicked with it.
HolderInv ==
  \A s \in Sender :
    /\ pc[s] \in Distributing => msg[s] # NoMessage
    /\ pc[s] \notin Distributing \cup {"panicked"} => msg[s] = NoMessage

\* A message that is somewhere, or has been, is not fresh.
UsedInv ==
  /\ \A s \in Sender : msg[s] \notin fresh
  /\ \A i \in 1 .. Len(entered) : entered[i] \notin fresh
  /\ \A i \in 1 .. Len(sent) : sent[i] \notin fresh
  /\ \A n \in Channels : \A i \in 1 .. Len(channel[n]) : channel[n][i] \notin fresh

\* No two places have the same message.
DistinctInv ==
  /\ \A i, j \in 1 .. Len(sent) : sent[i] = sent[j] => i = j
  /\ \A s, u \in Sender : msg[s] = msg[u] /\ msg[s] # NoMessage => s = u
  /\ \A n, k \in Channels : \A i \in 1 .. Len(channel[n]), j \in 1 .. Len(channel[k]) :
       channel[n][i] = channel[k][j] => n = k /\ i = j
  /\ \A i \in 1 .. Len(sent), s \in Sender : sent[i] # msg[s]
  /\ \A n \in Channels : \A j \in 1 .. Len(channel[n]) :
       /\ \A i \in 1 .. Len(sent) : sent[i] # channel[n][j]
       /\ \A s \in Sender : msg[s] # channel[n][j]

\* A message that has entered is somewhere.
SomewhereInv ==
  \A e \in 1 .. Len(entered) :
    \/ \E i \in 1 .. Len(sent) : sent[i] = entered[e]
    \/ \E s \in Sender : msg[s] = entered[e]
    \/ \E n \in Channels : \E i \in 1 .. Len(channel[n]) : channel[n][i] = entered[e]

PlacesInv == HolderInv /\ UsedInv /\ DistinctInv /\ SomewhereInv

-----------------------------------------------------------------------------
(* A single user *)

\* t does everything with the stream.
IsUser(t) == "Resume" \notin calls[t] /\ \A u \in Threads \ {t} : calls[u] = {}

HeldBy(s) == IF msg[s] = NoMessage THEN <<>> ELSE <<msg[s]>>
Stashed == IF made = 0 THEN <<>> ELSE HeldBy(made) \o channel[made]

\* The goroutine of the last channel has messages to distribute.
Draining == made # 0 /\ pc[made] \in {"range", "distribute"}
Pausing  == made # 0 /\ paused = made /\ pc[made] = "idle"

\* Where the user is between two pauses, during one, and at its end.
UserPhase(t) ==
  \/ /\ pc[t] \in {"idle", "distribute", "pause"} /\ paused = 0 /\ ~Draining
     /\ distribute = "broadcast" /\ Stashed = <<>>
  \/ pc[t] \in {"savePrevious", "setStash"} /\ Pausing /\ distribute = "broadcast" /\ Stashed = <<>>
  \/ pc[t] \in {"idle", "restore"} \cup Distributing /\ Pausing /\ distribute = "stash"
     /\ (pc[t] = "send" => to[t] = made)
  \/ pc[t] = "take" /\ Pausing /\ distribute = "broadcast"
  \/ /\ pc[t] = "close" /\ paused = 0 /\ made # 0 /\ to[t] = made /\ pc[made] = "idle"
     /\ distribute = "broadcast"
  \/ /\ pc[t] = "wait" /\ paused = 0 /\ distribute = "broadcast"
     /\ (~Draining => Stashed = <<>>)

OthersRest(t) ==
  /\ \A u \in Threads \ {t} : pc[u] = "idle" /\ call[u] = "Enqueue" /\ msg[u] = NoMessage
  /\ \A n \in Channels :
       /\ pc[n] \in {"idle", "range", "distribute", "done"}
       /\ n # made => channel[n] = <<>> /\ pc[n] \in {"idle", "done"}
UserInv(t) ==
  /\ OthersRest(t)
  /\ previous = "broadcast"
  /\ pc[t] \in {"restore", "take", "close", "wait"} => call[t] = "Flush"
  /\ UserPhase(t)
  /\ entered = (sent \o Stashed) \o HeldBy(t)

SingleUserInv == \A t \in Threads : IsUser(t) => UserInv(t)

StreamInv == TypeOK /\ ChannelInv /\ ResumeInv /\ PlacesInv /\ SingleUserInv

-----------------------------------------------------------------------------
(* Types and channels *)

\* Nothing has entered at first.
LEMMA StreamInvInit == Init => StreamInv
<1> SUFFICES ASSUME Init PROVE StreamInv
  OBVIOUS
<1> USE StreamAssumption DEF Init, Channels, Sender
<1>1. TypeOK
  BY DEF TypeOK
<1>2. ChannelInv
  BY DEF ChannelInv, Distributing
<1>3. ResumeInv
  <2>1. Resuming = {}
    BY DEF Resuming, Distributing
  <2> QED
    BY <2>1, FS_EmptySet DEF ResumeInv
<1>4. PlacesInv
  BY DEF PlacesInv, HolderInv, UsedInv, DistinctInv, SomewhereInv, Distributing
<1>5. SingleUserInv
  <2> SUFFICES ASSUME NEW t \in Threads PROVE UserInv(t)
    BY DEF SingleUserInv
  <2>1. Stashed = <<>> /\ HeldBy(t) = <<>>
    BY DEF Stashed, HeldBy
  <2>2. (<<>> \o <<>>) \o <<>> = <<>>
    OBVIOUS
  <2> QED
    BY <2>1, <2>2 DEF UserInv, OthersRest, UserPhase, Draining
<1> QED
  BY <1>1, <1>2, <1>3, <1>4, <1>5 DEF StreamInv

\* The types of Stream by component.
FieldTypes ==
  /\ calls \in CallSets /\ hasProducers \in BOOLEAN
  /\ paused \in 0 .. made /\ (paused # 0 => ~closed[paused])
  /\ distribute \in {"stash", "broadcast"} /\ previous \in {"stash", "broadcast"}
  /\ closed \in [Channels -> BOOLEAN]
  /\ made \in 0 .. MaxPauses /\ resumeWorker \in Nat
ChannelTypes ==
  channel \in [Channels -> Seq(Messages)] /\ \A n \in Channels : Len(channel[n]) <= Capacity
LabelTypes ==
  pc \in [Sender -> {"idle", "distribute", "stash", "send", "panicked", "pause", "savePrevious",
                     "setStash", "restore", "take", "close", "wait", "range", "done"}]
CallTypes ==
  /\ call \in [Threads -> {"Enqueue", "Resume", "Flush"}]
  /\ to \in [Sender -> 0 .. MaxPauses]
  /\ panicked \subseteq Sender
MessageTypes ==
  /\ msg \in [Sender -> Messages \cup {NoMessage}]
  /\ fresh \subseteq Messages /\ entered \in Seq(Messages) /\ sent \in Seq(Messages)
CounterTypes ==
  counted \in [filtered : SUBSET Messages, noRoute : SUBSET Messages, processed : SUBSET Messages]

AllTypes ==
  FieldTypes /\ ChannelTypes /\ LabelTypes /\ CallTypes /\ MessageTypes /\ CounterTypes

\* The types of the stream by parts.
LEMMA Types == TypeOK <=> AllTypes
BY DEF TypeOK, AllTypes, FieldTypes, ChannelTypes, LabelTypes, CallTypes, MessageTypes, CounterTypes


\* Going to a label keeps the types of the labels.
LEMMA GotoTypes ==
  ASSUME LabelTypes, NEW t \in Sender, NEW label, Goto(t, label),
         label \in {"idle", "distribute", "stash", "send", "panicked", "pause", "savePrevious",
                    "setStash", "restore", "take", "close", "wait", "range", "done"}
  PROVE  LabelTypes'
BY DEF LabelTypes, Goto

\* Every step keeps the types,
LEMMA TypesNext ==
  ASSUME StreamInv, [Next]_vars
  PROVE  TypeOK'
<1> SUFFICES AllTypes'
  BY Types DEF TypeOK, FieldTypes, ChannelTypes, LabelTypes, CallTypes, MessageTypes, CounterTypes,
            AllTypes
<1>. AllTypes
  BY Types DEF StreamInv
<1>. ChannelInv /\ ResumeInv /\ HolderInv
  BY DEF StreamInv, PlacesInv
<1> USE StreamAssumption DEF Sender, Channels, AllTypes
<1>a. ASSUME UNCHANGED <<fresh, entered, sent, counted, msg>> PROVE MessageTypes' /\ CounterTypes'
  BY <1>a DEF MessageTypes, CounterTypes
<1>b. ASSUME UNCHANGED streamVars PROVE FieldTypes' /\ ChannelTypes'
  BY <1>b DEF FieldTypes, ChannelTypes, streamVars
<1>c. ASSUME UNCHANGED <<call, to, panicked>> PROVE CallTypes'
  BY <1>c DEF CallTypes
<1>d. ASSUME UNCHANGED channel PROVE ChannelTypes'
  BY <1>d DEF ChannelTypes
<1>e. ASSUME NEW t \in Sender, pc[t] \in Distributing PROVE msg[t] \in Messages
  BY <1>e DEF MessageTypes, HolderInv, Distributing
<1>0. CASE UNCHANGED vars
  <2>1. LabelTypes'
    BY <1>0 DEF LabelTypes, vars
  <2> QED
    BY <1>0, <1>a, <1>b, <1>c, <2>1 DEF vars
<1>1. ASSUME NEW t \in Sender, NEW m \in Messages, Enqueue(t, m)
      PROVE  AllTypes'
  <2>1. FieldTypes' /\ ChannelTypes'
    BY <1>1, <1>b DEF Enqueue
  <2>2. LabelTypes'
    <3>1. CASE UNCHANGED pc
      BY <3>1 DEF LabelTypes
    <3>2. CASE Goto(t, "distribute")
      BY <3>2, GotoTypes
    <3> QED
      BY <1>1, <3>1, <3>2 DEF Enqueue
  <2>3. CallTypes'
    BY <1>1 DEF Enqueue, CallTypes
  <2>4. MessageTypes'
    <3>1. Append(entered, m) \in Seq(Messages)
      BY AppendProperties DEF MessageTypes
    <3> QED
      BY <1>1, <3>1 DEF Enqueue, MessageTypes
  <2>5. CounterTypes'
    BY <1>1 DEF Enqueue, CounterTypes
  <2> QED
    BY <2>1, <2>2, <2>3, <2>4, <2>5
<1>2. ASSUME NEW t \in Sender, Distribute(t)
      PROVE  AllTypes'
  <2>1. FieldTypes' /\ ChannelTypes' /\ CallTypes' /\ CounterTypes'
    BY <1>2, <1>b, <1>c DEF Distribute, CounterTypes
  <2>2. LabelTypes'
    BY <1>2, GotoTypes DEF Distribute, DistributeReturns
  <2>3. msg[t] \in Messages
    BY <1>2, <1>e DEF Distribute, Distributing
  <2>4. Append(sent, msg[t]) \in Seq(Messages)
    BY <2>3, AppendProperties DEF MessageTypes
  <2>5. MessageTypes'
    BY <1>2, <2>4 DEF Distribute, DistributeReturns, MessageTypes
  <2> QED
    BY <2>1, <2>2, <2>5
<1>3. ASSUME NEW t \in Sender, StashRead(t)
      PROVE  AllTypes'
  <2>1. LabelTypes'
    BY <1>3, GotoTypes DEF StashRead
  <2>2. CallTypes'
    BY <1>3 DEF StashRead, CallTypes, FieldTypes
  <2> QED
    BY <1>3, <1>a, <1>b, <2>1, <2>2 DEF StashRead
<1>4. ASSUME NEW t \in Sender, StashSend(t)
      PROVE  AllTypes'
  <2>1. LabelTypes'
    BY <1>4, GotoTypes DEF StashSend, DistributeReturns
  <2>2. FieldTypes' /\ CallTypes' /\ CounterTypes'
    BY <1>4, <1>c DEF StashSend, FieldTypes, CounterTypes
  <2>3. msg[t] \in Messages
    BY <1>4, <1>e DEF StashSend, Distributing
  <2>4. ChannelTypes'
    BY <1>4, <2>3, AppendProperties DEF StashSend, ChannelTypes, CallTypes
  <2>5. MessageTypes'
    BY <1>4 DEF StashSend, DistributeReturns, MessageTypes
  <2> QED
    BY <2>1, <2>2, <2>4, <2>5
<1>5. ASSUME NEW t \in Sender, StashPanics(t) \/ CallPause(t) \/ FlushWait(t)
      PROVE  AllTypes'
  <2>1. LabelTypes'
    BY <1>5, GotoTypes DEF StashPanics, CallPause, FlushWait
  <2>2. CallTypes'
    BY <1>5 DEF StashPanics, CallPause, FlushWait, CallTypes
  <2> QED
    BY <1>5, <1>a, <1>b, <2>1, <2>2 DEF StashPanics, CallPause, FlushWait
<1>6. ASSUME NEW t \in Sender, PauseMake(t)
      PROVE  AllTypes'
  <2>1. LabelTypes'
    BY <1>6, GotoTypes DEF PauseMake
  <2>2. ~closed[made + 1]
    BY <1>6 DEF PauseMake, ChannelInv, FieldTypes
  <2>3. FieldTypes'
    BY <1>6, <2>2 DEF PauseMake, FieldTypes
  <2> QED
    BY <1>6, <1>a, <1>c, <1>d, <2>1, <2>3 DEF PauseMake
<1>7. ASSUME NEW t \in Sender, SavePrevious(t) \/ SetStash(t) \/ Restore(t)
      PROVE  AllTypes'
  <2>1. LabelTypes'
    BY <1>7, GotoTypes DEF SavePrevious, SetStash, Restore
  <2>2. FieldTypes'
    BY <1>7 DEF SavePrevious, SetStash, Restore, FieldTypes
  <2> QED
    BY <1>7, <1>a, <1>c, <1>d, <2>1, <2>2 DEF SavePrevious, SetStash, Restore
<1>8. ASSUME NEW t \in Sender, NEW c \in {"Resume", "Flush"}, CallResume(t, c)
      PROVE  AllTypes'
  <2>1. LabelTypes'
    BY <1>8, GotoTypes DEF CallResume
  <2>2. CallTypes'
    BY <1>8 DEF CallResume, CallTypes
  <2> QED
    BY <1>8, <1>a, <1>b, <2>1, <2>2 DEF CallResume
<1>9. ASSUME NEW t \in Sender, TakeChannel(t)
      PROVE  AllTypes'
  <2>1. LabelTypes'
    BY <1>9, GotoTypes DEF TakeChannel
  <2>2. FieldTypes' /\ CallTypes'
    BY <1>9 DEF TakeChannel, FieldTypes, CallTypes
  <2> QED
    BY <1>9, <1>a, <1>d, <2>1, <2>2 DEF TakeChannel
<1>10. ASSUME NEW t \in Sender, CloseStashed(t)
      PROVE  AllTypes'
  <2>1. t \in Threads
    BY <1>10 DEF CloseStashed, ChannelInv, Distributing
  <2>2. LabelTypes'
    BY <1>10 DEF CloseStashed, LabelTypes, Goto
  <2>3. FieldTypes'
    <3>1. to[t] # 0 => to[t] # paused
      BY <1>10, <2>1 DEF CloseStashed, ChannelInv
    <3>2. closed' \in [Channels -> BOOLEAN] /\ (paused # 0 => ~closed'[paused])
      <4>1. CASE UNCHANGED closed
        BY <4>1 DEF FieldTypes
      <4>2. CASE to[t] # 0 /\ closed' = [closed EXCEPT ![to[t]] = TRUE]
        <5>1. paused # 0 => paused \in Channels
          BY DEF FieldTypes
        <5>2. paused # 0 => closed'[paused] = closed[paused]
          BY <3>1, <4>2, <5>1 DEF FieldTypes
        <5>3. closed' \in [Channels -> BOOLEAN]
          BY <4>2 DEF FieldTypes
        <5> QED
          BY <5>2, <5>3 DEF FieldTypes
      <4> QED
        BY <1>10, <4>1, <4>2 DEF CloseStashed
    <3> QED
      BY <1>10, <3>2 DEF CloseStashed, FieldTypes
  <2>4. CallTypes'
    BY <1>10 DEF CloseStashed, CallTypes
  <2> QED
    BY <1>10, <1>a, <1>d, <2>2, <2>3, <2>4 DEF CloseStashed
<1>11. ASSUME NEW t \in Sender, RangeStashed(t)
      PROVE  AllTypes'
  <2>1. LabelTypes' /\ CallTypes' /\ CounterTypes'
    BY <1>11, <1>c, GotoTypes DEF RangeStashed, CounterTypes
  <2>2. CASE channel[t] # <<>>
    <3>1. FieldTypes'
      BY <1>11, <2>2 DEF RangeStashed, FieldTypes
    <3>2. channel[t] \in Seq(Messages)
      BY <1>11 DEF RangeStashed, ChannelTypes
    <3>3. Head(channel[t]) \in Messages /\ Tail(channel[t]) \in Seq(Messages)
          /\ Len(Tail(channel[t])) <= Len(channel[t])
      BY <2>2, <3>2, HeadTailProperties, LenProperties
    <3>4. MessageTypes'
      BY <1>11, <2>2, <3>3 DEF RangeStashed, MessageTypes
    <3>5. Len(Tail(channel[t])) <= Capacity
      <4>1. Len(channel[t]) \in Nat /\ Len(Tail(channel[t])) \in Nat /\ Len(channel[t]) <= Capacity
        BY <1>11, <3>2, <3>3, LenProperties DEF RangeStashed, ChannelTypes
      <4> QED
        BY <3>3, <4>1
    <3>6. ChannelTypes'
      BY <1>11, <2>2, <3>3, <3>5 DEF RangeStashed, ChannelTypes
    <3> QED
      BY <2>1, <3>1, <3>4, <3>6
  <2>3. CASE channel[t] = <<>>
    <3>1. t \in Resuming
      BY <1>11 DEF RangeStashed, Resuming
    <3>2. Cardinality(Resuming) \in Nat /\ Cardinality(Resuming) # 0
      BY <3>1, FS_EmptySet, FS_CardinalityType DEF ResumeInv
    <3>3. resumeWorker - 1 \in Nat
      BY <3>2 DEF ResumeInv, FieldTypes
    <3>4. FieldTypes'
      BY <1>11, <2>3, <3>3 DEF RangeStashed, FieldTypes
    <3> QED
      BY <1>11, <1>a, <1>d, <2>1, <2>3, <3>4 DEF RangeStashed
  <2> QED
    BY <2>2, <2>3
<1> QED
  BY <1>0, <1>1, <1>2, <1>3, <1>4, <1>5, <1>6, <1>7, <1>8, <1>9, <1>10, <1>11 DEF Next, Continue

\* A step of goroutine t that neither makes, fills, closes nor takes a channel.
LEMMA ChannelFrame ==
  ASSUME TypeOK, ChannelInv, NEW t \in Sender, NEW label, Goto(t, label),
         t \in Threads => label \notin {"range", "done", "close"},
         t \in Channels =>
           label \in {"range", "panicked"} \cup Distributing /\ pc[t] # "idle",
         UNCHANGED <<channel, closed, made, paused>>,
         UNCHANGED to \/ to' = [to EXCEPT ![t] = paused]
  PROVE  ChannelInv'
<1> USE StreamAssumption DEF Sender, Goto
<1>1. LabelTypes /\ FieldTypes /\ CallTypes
  BY Types DEF AllTypes
<1>2. \A s \in Sender : pc'[s] = IF s = t THEN label ELSE pc[s]
  BY <1>1 DEF LabelTypes
<1>6. \A s \in Sender : to'[s] = to[s] \/ (to'[s] = paused /\ s = t)
  <2>1. CASE UNCHANGED to
    BY <2>1
  <2>2. CASE to' = [to EXCEPT ![t] = paused]
    BY <1>1, <2>2 DEF CallTypes
  <2> QED
    BY <2>1, <2>2
<1>3. \A s \in Sender : to'[s] <= made'
  BY <1>1, <1>6 DEF ChannelInv, FieldTypes
<1>4. \A n \in Channels :
        /\ pc'[n] \in {"idle", "range", "panicked", "done"} \cup Distributing
        /\ closed'[n] <=> pc'[n] # "idle"
        /\ n > made' => ~closed'[n] /\ channel'[n] = <<>>
        /\ pc'[n] = "done" => channel'[n] = <<>>
  BY <1>2 DEF ChannelInv, Distributing
<1>5. \A s \in Threads : pc'[s] \notin {"range", "done"} /\ (pc'[s] = "close" => s # t /\ pc[s] = "close")
  BY <1>2 DEF ChannelInv
<1> QED
  BY <1>3, <1>4, <1>5, <1>6 DEF ChannelInv

\* who closes and empties which channel,
LEMMA ChannelInvNext ==
  ASSUME StreamInv, [Next]_vars
  PROVE  ChannelInv'
<1> USE StreamAssumption DEF Sender
<1>. TypeOK /\ LabelTypes /\ FieldTypes /\ ChannelTypes /\ CallTypes /\ ChannelInv
  BY Types DEF AllTypes, StreamInv
<1>a. \A t \in Sender : pc[t] \in {"pause", "savePrevious", "setStash", "restore", "take", "close", "wait"}
        => t \in Threads
  BY DEF ChannelInv, Distributing
<1>0. CASE UNCHANGED vars
  BY <1>0 DEF ChannelInv, Distributing, vars, streamVars
<1>1. ASSUME NEW t \in Sender, NEW m \in Messages, Enqueue(t, m) PROVE ChannelInv'
  <2>1. CASE UNCHANGED pc
    BY <1>1, <2>1 DEF Enqueue, ChannelInv, Distributing, streamVars
  <2>2. CASE Goto(t, "distribute")
    BY <1>1, <2>2, ChannelFrame DEF Enqueue, streamVars, Distributing
  <2> QED
    BY <1>1, <2>1, <2>2 DEF Enqueue
<1>2. ASSUME NEW t \in Sender, Distribute(t) \/ StashRead(t) \/ StashPanics(t) PROVE ChannelInv'
  <2>1. CASE Distribute(t)
    BY <2>1, ChannelFrame DEF Distribute, DistributeReturns, streamVars, Distributing
  <2>2. CASE StashRead(t)
    BY <2>2, ChannelFrame DEF StashRead, streamVars, Distributing
  <2>3. CASE StashPanics(t)
    BY <2>3, ChannelFrame DEF StashPanics, streamVars, Distributing
  <2> QED
    BY <1>2, <2>1, <2>2, <2>3
<1>3. ASSUME NEW t \in Sender,
             CallPause(t) \/ SavePrevious(t) \/ SetStash(t) \/ FlushWait(t) \/ Restore(t)
      PROVE  ChannelInv'
  <2>1. t \in Threads /\ t \notin Channels
    BY <1>3, <1>a DEF CallPause, SavePrevious, SetStash, FlushWait, Restore
  <2>2. UNCHANGED <<channel, closed, made, paused, to>>
    BY <1>3 DEF CallPause, SavePrevious, SetStash, FlushWait, Restore, streamVars
  <2>3. \E label \in {"pause", "setStash", "idle", "take"} : Goto(t, label)
    BY <1>3 DEF CallPause, SavePrevious, SetStash, FlushWait, Restore
  <2> QED
    BY <2>1, <2>2, <2>3, ChannelFrame
<1>4. ASSUME NEW t \in Sender, NEW c \in {"Resume", "Flush"}, CallResume(t, c) PROVE ChannelInv'
  <2>1. t \in Threads /\ t \notin Channels /\ UNCHANGED <<channel, closed, made, paused, to>>
    BY <1>4 DEF CallResume, streamVars
  <2>2. \E label \in {"restore", "wait", "idle"} : Goto(t, label)
    BY <1>4 DEF CallResume
  <2> QED
    BY <2>1, <2>2, ChannelFrame
<1>5. ASSUME NEW t \in Sender, StashSend(t) PROVE ChannelInv'
  <2> DEFINE n == to[t]
  <2>1. n \in Channels /\ n <= made /\ pc[n] = "idle" /\ n # t
    BY <1>5 DEF StashSend, CallTypes, ChannelInv, Channels
  <2>2. \A k \in Channels : k # n => channel'[k] = channel[k]
    BY <1>5 DEF StashSend, ChannelTypes
  <2>3. \A s \in Sender : s # t => pc'[s] = pc[s]
    BY <1>5 DEF StashSend, DistributeReturns, Goto, LabelTypes
  <2>4. pc'[t] = (IF t \in Threads THEN "idle" ELSE "range")
    BY <1>5 DEF StashSend, DistributeReturns, Goto, LabelTypes
  <2>5. t \in Channels => closed[t]
    BY <1>5 DEF StashSend, ChannelInv
  <2>6. UNCHANGED <<closed, made, paused, to>>
    BY <1>5 DEF StashSend
  <2>7. \A k \in Channels :
          /\ pc'[k] \in {"idle", "range", "panicked", "done"} \cup Distributing
          /\ closed'[k] <=> pc'[k] # "idle"
          /\ k > made' => ~closed'[k] /\ channel'[k] = <<>>
          /\ pc'[k] = "done" => channel'[k] = <<>>
    <3> SUFFICES ASSUME NEW k \in Channels
                 PROVE  /\ pc'[k] \in {"idle", "range", "panicked", "done"} \cup Distributing
                        /\ closed'[k] <=> pc'[k] # "idle"
                        /\ k > made' => ~closed'[k] /\ channel'[k] = <<>>
                        /\ pc'[k] = "done" => channel'[k] = <<>>
      OBVIOUS
    <3>1. CASE k = t
      BY <2>1, <2>2, <2>4, <2>5, <2>6, <3>1 DEF ChannelInv
    <3>2. CASE k = n
      <4>1. ~(k > made)
        BY <2>1, <3>2 DEF FieldTypes, Channels
      <4> QED
        BY <2>1, <2>3, <2>6, <3>2, <4>1 DEF ChannelInv
    <3>3. CASE k # n /\ k # t
      BY <2>2, <2>3, <2>6, <3>3 DEF ChannelInv
    <3> QED
      BY <3>1, <3>2, <3>3
  <2>8. \A s \in Threads : pc'[s] \notin {"range", "done"} /\ (pc'[s] = "close" => pc[s] = "close")
    BY <2>3, <2>4 DEF ChannelInv
  <2> QED
    BY <2>6, <2>7, <2>8 DEF ChannelInv
<1>6. ASSUME NEW t \in Sender, PauseMake(t) PROVE ChannelInv'
  <2>1. t \in Threads /\ \A s \in Sender : pc'[s] = IF s = t THEN "savePrevious" ELSE pc[s]
    BY <1>6, <1>a DEF PauseMake, Goto, LabelTypes
  <2>2. \A s \in Sender : to'[s] = to[s] /\ to[s] \in Nat /\ to[s] <= made /\ made' = made + 1
    BY <1>6 DEF PauseMake, CallTypes, ChannelInv
  <2>3. made \in Nat /\ Channels \subseteq Nat
    BY DEF FieldTypes, Channels
  <2>4. \A n \in Channels :
          /\ pc'[n] \in {"idle", "range", "panicked", "done"} \cup Distributing
          /\ closed'[n] <=> pc'[n] # "idle"
          /\ n > made' => ~closed'[n] /\ channel'[n] = <<>>
          /\ pc'[n] = "done" => channel'[n] = <<>>
    BY <1>6, <2>1, <2>3 DEF PauseMake, ChannelInv
  <2>5. \A s \in Sender : to'[s] <= made' /\ to'[s] # paused'
    BY <1>6, <2>2, <2>3 DEF PauseMake
  <2>6. \A s \in Threads : pc'[s] \notin {"range", "done"} /\ (pc'[s] = "close" => pc[s] = "close")
    BY <2>1 DEF ChannelInv
  <2>7. \A s \in Threads : pc'[s] = "close" /\ to'[s] # 0 => ~closed'[to'[s]]
    BY <1>6, <2>2, <2>6 DEF PauseMake, ChannelInv
  <2>8. \A s, u \in Threads : pc'[s] = "close" /\ pc'[u] = "close" /\ to'[s] = to'[u] /\ to'[s] # 0 => s = u
    BY <2>2, <2>6 DEF ChannelInv
  <2> QED
    BY <2>4, <2>5, <2>6, <2>7, <2>8 DEF ChannelInv
<1>7. ASSUME NEW t \in Sender, TakeChannel(t) PROVE ChannelInv'
  <2>1. t \in Threads /\ \A s \in Sender : pc'[s] = IF s = t THEN "close" ELSE pc[s]
    BY <1>7, <1>a DEF TakeChannel, Goto, LabelTypes
  <2>2. \A s \in Sender : to'[s] = IF s = t THEN paused ELSE to[s]
    BY <1>7 DEF TakeChannel, CallTypes
  <2>3. \A n \in Channels :
          /\ pc'[n] \in {"idle", "range", "panicked", "done"} \cup Distributing
          /\ closed'[n] <=> pc'[n] # "idle"
          /\ n > made' => ~closed'[n] /\ channel'[n] = <<>>
          /\ pc'[n] = "done" => channel'[n] = <<>>
    BY <1>7, <2>1 DEF TakeChannel, ChannelInv
  <2>4. \A s \in Sender : to'[s] <= made'
    BY <1>7, <2>2 DEF TakeChannel, ChannelInv, FieldTypes
  <2>5. \A s \in Threads : pc'[s] \notin {"range", "done"}
    BY <2>1 DEF ChannelInv
  <2>6. \A s \in Threads : pc'[s] = "close" /\ to'[s] # 0 => to'[s] # paused' /\ ~closed'[to'[s]]
    BY <1>7, <2>1, <2>2 DEF TakeChannel, ChannelInv, FieldTypes
  <2>7. \A s, u \in Threads : pc'[s] = "close" /\ pc'[u] = "close" /\ to'[s] = to'[u] /\ to'[s] # 0 => s = u
    BY <2>1, <2>2 DEF ChannelInv
  <2> QED
    BY <2>3, <2>4, <2>5, <2>6, <2>7 DEF ChannelInv
<1>8. ASSUME NEW t \in Sender, CloseStashed(t) PROVE ChannelInv'
  <2>1. t \in Threads
    BY <1>8, <1>a DEF CloseStashed
  <2>2. CASE Goto(t, "panicked") /\ UNCHANGED closed
    <3>1. t \notin Channels /\ UNCHANGED <<channel, made, paused, to>>
      BY <1>8, <2>1 DEF CloseStashed
    <3> QED
      BY <2>2, <3>1, ChannelFrame
  <2>3. CASE to[t] # 0 /\ ~closed[to[t]] /\ closed' = [closed EXCEPT ![to[t]] = TRUE]
    <3> DEFINE n == to[t]
    <3>1. n \in Channels /\ n <= made /\ pc[n] = "idle"
      BY <2>3 DEF CallTypes, ChannelInv, Channels
    <3>2. \A s \in Sender : s # t /\ s # n => pc'[s] = pc[s]
      BY <1>8, <2>3 DEF CloseStashed, LabelTypes
    <3>3. pc'[n] = "range" /\ pc'[t] \in {"wait", "idle"}
      BY <1>8, <2>1, <2>3, <3>1 DEF CloseStashed, LabelTypes
    <3>4. UNCHANGED <<channel, made, paused, to>>
      BY <1>8 DEF CloseStashed
    <3>5. \A k \in Channels : closed'[k] = (k = n \/ closed[k])
      BY <2>3 DEF FieldTypes
    <3>6. \A k \in Channels :
            /\ pc'[k] \in {"idle", "range", "panicked", "done"} \cup Distributing
            /\ closed'[k] <=> pc'[k] # "idle"
            /\ k > made' => ~closed'[k] /\ channel'[k] = <<>>
            /\ pc'[k] = "done" => channel'[k] = <<>>
      <4> SUFFICES ASSUME NEW k \in Channels
                   PROVE  /\ pc'[k] \in {"idle", "range", "panicked", "done"} \cup Distributing
                          /\ closed'[k] <=> pc'[k] # "idle"
                          /\ k > made' => ~closed'[k] /\ channel'[k] = <<>>
                          /\ pc'[k] = "done" => channel'[k] = <<>>
        OBVIOUS
      <4>1. CASE k = n
        <5>1. ~(k > made')
          BY <3>1, <3>4, <4>1 DEF FieldTypes, Channels
        <5> QED
          BY <3>3, <3>5, <4>1, <5>1
      <4>2. CASE k # n
        BY <2>1, <3>2, <3>4, <3>5, <4>2 DEF ChannelInv
      <4> QED
        BY <4>1, <4>2
    <3>7. \A s \in Threads :
            pc'[s] \notin {"range", "done"} /\ (pc'[s] = "close" => pc[s] = "close" /\ s # t)
      BY <3>1, <3>2, <3>3 DEF ChannelInv
    <3>8. \A s \in Threads : pc'[s] = "close" /\ to'[s] # 0 => to'[s] # paused' /\ ~closed'[to'[s]]
      <4> SUFFICES ASSUME NEW s \in Threads, pc'[s] = "close", to'[s] # 0
                   PROVE  to'[s] # paused' /\ ~closed'[to'[s]]
        OBVIOUS
      <4>1. pc[s] = "close" /\ s # t
        BY <3>7
      <4>2. to[s] # n /\ to[s] # paused /\ ~closed[to[s]] /\ to[s] \in Channels
        BY <1>8, <2>1, <2>3, <3>4, <4>1 DEF CloseStashed, ChannelInv, CallTypes, Channels
      <4> QED
        BY <3>4, <3>5, <4>2
    <3> QED
      BY <3>4, <3>6, <3>7, <3>8 DEF ChannelInv
  <2> QED
    BY <1>8, <2>2, <2>3 DEF CloseStashed
<1>9. ASSUME NEW t \in Sender, RangeStashed(t) PROVE ChannelInv'
  <2>1. t \in Channels /\ t \notin Threads /\ closed[t] /\ t <= made
    BY <1>9 DEF RangeStashed, ChannelInv, FieldTypes, Channels
  <2>2. \A s \in Sender : s # t => pc'[s] = pc[s]
    BY <1>9 DEF RangeStashed, Goto, LabelTypes
  <2>3. pc'[t] \in {"distribute", "done"} /\ (pc'[t] = "done" => channel'[t] = <<>>)
    BY <1>9 DEF RangeStashed, Goto, LabelTypes
  <2>4. \A k \in Channels : k # t => channel'[k] = channel[k]
    BY <1>9 DEF RangeStashed, ChannelTypes
  <2>5. UNCHANGED <<closed, made, paused, to>>
    BY <1>9 DEF RangeStashed
  <2>6. \A k \in Channels :
          /\ pc'[k] \in {"idle", "range", "panicked", "done"} \cup Distributing
          /\ closed'[k] <=> pc'[k] # "idle"
          /\ k > made' => ~closed'[k] /\ channel'[k] = <<>>
          /\ pc'[k] = "done" => channel'[k] = <<>>
    BY <2>1, <2>2, <2>3, <2>4, <2>5 DEF ChannelInv, Distributing, FieldTypes, Channels
  <2> QED
    BY <2>1, <2>2, <2>5, <2>6 DEF ChannelInv
<1> QED
  BY <1>0, <1>1, <1>2, <1>3, <1>4, <1>5, <1>6, <1>7, <1>8, <1>9 DEF StreamInv, Next, Continue

-----------------------------------------------------------------------------
(* The WaitGroup of Resume *)

\* A goroutine that goes on without changing whether it counts.
LEMMA ResumeFrame ==
  ASSUME TypeOK, ResumeInv, NEW t \in Sender, NEW label, Goto(t, label), UNCHANGED resumeWorker,
         t \in Threads => (label \in {"take", "close"} <=> pc[t] \in {"take", "close"}),
         t \in Channels => (label \in {"range"} \cup Distributing <=> pc[t] \in {"range"} \cup Distributing)
  PROVE  ResumeInv'
<1>1. \A s \in Sender : pc'[s] = IF s = t THEN label ELSE pc[s]
  BY Types DEF AllTypes, LabelTypes, Goto
<1>2. Resuming' = Resuming
  BY <1>1 DEF Resuming, Sender
<1> QED
  BY <1>2 DEF ResumeInv

\* One that stops to count.
LEMMA ResumeLeaves ==
  ASSUME TypeOK, ResumeInv, NEW t \in Resuming, Resuming' = Resuming \ {t},
         resumeWorker' \in {resumeWorker, resumeWorker - 1}
  PROVE  ResumeInv'
<1>1. IsFiniteSet(Resuming') /\ Cardinality(Resuming') = Cardinality(Resuming) - 1
  BY FS_RemoveElement DEF ResumeInv
<1>2. Cardinality(Resuming) \in Nat /\ resumeWorker \in Nat /\ Cardinality(Resuming) <= resumeWorker
  BY FS_CardinalityType, Types DEF ResumeInv, AllTypes, FieldTypes
<1> QED
  BY <1>1, <1>2 DEF ResumeInv

\* and that resumeWorker counts those who resume.
LEMMA ResumeInvNext ==
  ASSUME StreamInv, [Next]_vars
  PROVE  ResumeInv'
<1> USE StreamAssumption DEF Sender
<1>. TypeOK /\ LabelTypes /\ FieldTypes /\ ChannelTypes /\ CallTypes /\ ChannelInv /\ ResumeInv
  BY Types DEF AllTypes, StreamInv
<1>a. \A t \in Sender : pc[t] \in {"pause", "savePrevious", "setStash", "restore", "take", "close", "wait"}
        => t \in Threads /\ t \notin Channels
  BY DEF ChannelInv, Distributing
<1>0. CASE UNCHANGED <<pc, resumeWorker>>
  <2>1. Resuming' = Resuming
    BY <1>0 DEF Resuming
  <2> QED
    BY <1>0, <2>1 DEF ResumeInv
<1>1. ASSUME NEW t \in Sender, NEW m \in Messages, Enqueue(t, m) PROVE ResumeInv'
  <2>1. UNCHANGED resumeWorker /\ t \notin Channels /\ pc[t] = "idle"
    BY <1>1 DEF Enqueue, streamVars
  <2>2. UNCHANGED pc \/ Goto(t, "distribute")
    BY <1>1 DEF Enqueue
  <2> QED
    BY <1>0, <2>1, <2>2, ResumeFrame
<1>2. ASSUME NEW t \in Sender, Distribute(t) \/ StashSend(t) PROVE ResumeInv'
  <2>1. UNCHANGED resumeWorker /\ pc[t] \in Distributing
    BY <1>2 DEF Distribute, StashSend, streamVars, Distributing
  <2>2. t \in Threads => \E label \in {"idle", "stash"} : Goto(t, label)
    BY <1>2 DEF Distribute, StashSend, DistributeReturns
  <2>3. t \in Channels => \E label \in {"range", "stash"} : Goto(t, label)
    BY <1>2 DEF Distribute, StashSend, DistributeReturns
  <2> QED
    BY <2>1, <2>2, <2>3, ResumeFrame DEF Distributing
<1>3. ASSUME NEW t \in Sender, StashRead(t) PROVE ResumeInv'
  BY <1>3, ResumeFrame DEF StashRead, streamVars, Distributing
<1>4. ASSUME NEW t \in Sender, StashPanics(t) PROVE ResumeInv'
  <2>1. UNCHANGED resumeWorker /\ Goto(t, "panicked") /\ pc[t] \in Distributing
    BY <1>4 DEF StashPanics, streamVars, Distributing
  <2>2. CASE t \in Threads
    BY <2>1, <2>2, ResumeFrame DEF Distributing
  <2>3. CASE t \in Channels
    <3>1. t \in Resuming
      BY <2>1, <2>3 DEF Resuming
    <3>2. \A s \in Sender : pc'[s] = IF s = t THEN "panicked" ELSE pc[s]
      BY <2>1 DEF LabelTypes, Goto
    <3>3. Resuming' = Resuming \ {t}
      BY <2>3, <3>2 DEF Resuming, Distributing
    <3> QED
      BY <2>1, <3>1, <3>3, ResumeLeaves
  <2> QED
    BY <2>2, <2>3
<1>5. ASSUME NEW t \in Sender,
             CallPause(t) \/ PauseMake(t) \/ SavePrevious(t) \/ SetStash(t) \/ FlushWait(t) \/ TakeChannel(t)
      PROVE  ResumeInv'
  <2>1. t \in Threads /\ t \notin Channels
    BY <1>5, <1>a DEF CallPause, PauseMake, SavePrevious, SetStash, FlushWait, TakeChannel
  <2>2. UNCHANGED resumeWorker
    BY <1>5 DEF CallPause, PauseMake, SavePrevious, SetStash, FlushWait, TakeChannel, streamVars
  <2>3. \E label \in {"pause", "savePrevious", "setStash", "idle", "close"} :
          Goto(t, label) /\ (label = "close" <=> pc[t] \in {"take", "close"})
    BY <1>5 DEF CallPause, PauseMake, SavePrevious, SetStash, FlushWait, TakeChannel
  <2> QED
    BY <2>1, <2>2, <2>3, ResumeFrame
<1>6. ASSUME NEW t \in Sender, NEW c \in {"Resume", "Flush"}, CallResume(t, c) PROVE ResumeInv'
  <2>1. t \in Threads /\ t \notin Channels /\ UNCHANGED resumeWorker /\ pc[t] = "idle"
    BY <1>6 DEF CallResume, streamVars
  <2>2. \E label \in {"restore", "wait", "idle"} : Goto(t, label)
    BY <1>6 DEF CallResume
  <2> QED
    BY <2>1, <2>2, ResumeFrame
<1>7. ASSUME NEW t \in Sender, Restore(t) PROVE ResumeInv'
  <2>1. t \in Threads /\ t \notin Channels /\ resumeWorker' = resumeWorker + 1
    BY <1>7, <1>a DEF Restore
  <2>2. \A s \in Sender : pc'[s] = IF s = t THEN "take" ELSE pc[s]
    BY <1>7 DEF Restore, LabelTypes, Goto
  <2>3. Resuming' = Resuming \cup {t} /\ t \notin Resuming
    BY <1>7, <2>1, <2>2 DEF Restore, Resuming
  <2>4. IsFiniteSet(Resuming') /\ Cardinality(Resuming') = Cardinality(Resuming) + 1
    BY <2>3, FS_AddElement DEF ResumeInv
  <2>5. Cardinality(Resuming) \in Nat /\ resumeWorker \in Nat
    BY FS_CardinalityType DEF ResumeInv, FieldTypes
  <2> QED
    BY <2>1, <2>4, <2>5 DEF ResumeInv
<1>8. ASSUME NEW t \in Sender, CloseStashed(t) PROVE ResumeInv'
  <2>1. t \in Threads /\ t \notin Channels /\ UNCHANGED resumeWorker /\ t \in Resuming
    BY <1>8, <1>a DEF CloseStashed, Resuming
  <2>2. CASE Goto(t, "panicked")
    <3>1. \A s \in Sender : pc'[s] = IF s = t THEN "panicked" ELSE pc[s]
      BY <2>2 DEF LabelTypes, Goto
    <3>2. Resuming' = Resuming \ {t}
      BY <2>1, <3>1 DEF Resuming
    <3> QED
      BY <2>1, <3>2, ResumeLeaves
  <2>3. CASE to[t] # 0 /\ ~closed[to[t]]
    <3> DEFINE n == to[t]
    <3>1. n \in Channels /\ pc[n] = "idle"
      BY <2>3 DEF CallTypes, ChannelInv, Channels
    <3>2. \A s \in Sender : s # t /\ s # n => pc'[s] = pc[s]
      BY <1>8, <2>3 DEF CloseStashed, LabelTypes
    <3>3. pc'[n] = "range" /\ pc'[t] \in {"wait", "idle"}
      BY <1>8, <2>1, <2>3, <3>1 DEF CloseStashed, LabelTypes
    <3>4. Resuming' = (Resuming \ {t}) \cup {n} /\ n \notin Resuming \ {t}
      BY <2>1, <3>1, <3>2, <3>3 DEF Resuming, Distributing
    <3>5. IsFiniteSet(Resuming \ {t}) /\ Cardinality(Resuming \ {t}) = Cardinality(Resuming) - 1
      BY <2>1, FS_RemoveElement DEF ResumeInv
    <3>6. IsFiniteSet(Resuming') /\ Cardinality(Resuming') = Cardinality(Resuming \ {t}) + 1
      BY <3>4, <3>5, FS_AddElement
    <3>7. Cardinality(Resuming) \in Nat
      BY FS_CardinalityType DEF ResumeInv
    <3> QED
      BY <2>1, <3>5, <3>6, <3>7 DEF ResumeInv
  <2> QED
    BY <1>8, <2>2, <2>3 DEF CloseStashed
<1>9. ASSUME NEW t \in Sender, RangeStashed(t) PROVE ResumeInv'
  <2>1. t \in Channels /\ t \notin Threads /\ t \in Resuming
    BY <1>9 DEF RangeStashed, Resuming
  <2>2. CASE Goto(t, "distribute") /\ UNCHANGED resumeWorker
    BY <1>9, <2>1, <2>2, ResumeFrame DEF RangeStashed, Distributing
  <2>3. CASE Goto(t, "done") /\ resumeWorker' = resumeWorker - 1
    <3>1. \A s \in Sender : pc'[s] = IF s = t THEN "done" ELSE pc[s]
      BY <2>3 DEF LabelTypes, Goto
    <3>2. Resuming' = Resuming \ {t}
      BY <2>1, <3>1 DEF Resuming, Distributing
    <3> QED
      BY <2>1, <2>3, <3>2, ResumeLeaves
  <2> QED
    BY <1>9, <2>2, <2>3 DEF RangeStashed
<1> QED
  BY <1>0, <1>1, <1>2, <1>3, <1>4, <1>5, <1>6, <1>7, <1>8, <1>9
  DEF StreamInv, Next, Continue, vars, streamVars

-----------------------------------------------------------------------------
(* Messages move from one place to another *)

\* A step of goroutine t that moves no message.
LEMMA NothingMoves ==
  ASSUME TypeOK, PlacesInv, UNCHANGED <<channel, msg, fresh, entered, sent>>, NEW t \in Sender,
         \A s \in Sender \ {t} : pc'[s] \in Distributing \cup {"panicked"} <=> pc[s] \in Distributing \cup {"panicked"},
         \A s \in Sender \ {t} : pc'[s] \in Distributing <=> pc[s] \in Distributing,
         pc'[t] \in Distributing => pc[t] \in Distributing,
         pc[t] \in Distributing \cup {"panicked"} => pc'[t] \in Distributing \cup {"panicked"}
  PROVE  PlacesInv'
<1>1. HolderInv'
  BY DEF PlacesInv, HolderInv
<1> QED
  BY <1>1 DEF PlacesInv, UsedInv, DistinctInv, SomewhereInv

\* Messages in channels are messages, at places with numbers.
LEMMA PlacesAreTyped ==
  ASSUME TypeOK
  PROVE  /\ Len(sent) \in Nat /\ Len(entered) \in Nat
         /\ \A n \in Channels : Len(channel[n]) \in Nat
         /\ \A i \in 1 .. Len(sent) : sent[i] \in Messages
         /\ \A i \in 1 .. Len(entered) : entered[i] \in Messages
         /\ \A n \in Channels : \A i \in 1 .. Len(channel[n]) : channel[n][i] \in Messages
BY Types, LenProperties, ElementOfSeq DEF AllTypes, MessageTypes, ChannelTypes

\* A message that enters is in the hands of its goroutine,
LEMMA EnqueueMoves ==
  ASSUME StreamInv, NEW t \in Sender, NEW m \in Messages, Enqueue(t, m), hasProducers,
         m \notin Filtered \cup Routed
  PROVE  PlacesInv'
<1> USE StreamAssumption
<1>. TypeOK /\ LabelTypes /\ MessageTypes /\ PlacesInv
  BY Types DEF AllTypes, StreamInv, PlacesInv
<1>1. /\ fresh' = fresh \ {m} /\ m \in fresh /\ m # NoMessage
      /\ \A s \in Sender : msg'[s] = IF s = t THEN m ELSE msg[s]
      /\ \A s \in Sender : pc'[s] = IF s = t THEN "distribute" ELSE pc[s]
      /\ entered' = Append(entered, m)
      /\ UNCHANGED <<channel, sent>>
  BY DEF Enqueue, streamVars, LabelTypes, MessageTypes, Goto
<1>2. /\ Len(entered') = Len(entered) + 1 /\ Len(entered) \in Nat
      /\ \A i \in 1 .. Len(entered) : entered'[i] = entered[i]
      /\ entered'[Len(entered) + 1] = m
  BY <1>1, AppendProperties, LenProperties DEF MessageTypes
<1>3. HolderInv'
  BY <1>1 DEF PlacesInv, HolderInv, Distributing
<1>4. UsedInv'
  <2>1. \A i \in 1 .. Len(entered') : entered'[i] \notin fresh'
    BY <1>1, <1>2 DEF PlacesInv, UsedInv
  <2> QED
    BY <1>1, <2>1 DEF PlacesInv, UsedInv
<1>5. DistinctInv'
  BY <1>1 DEF PlacesInv, UsedInv, DistinctInv
<1>6. SomewhereInv'
  <2> SUFFICES ASSUME NEW e \in 1 .. Len(entered')
               PROVE  \/ \E i \in 1 .. Len(sent) : sent[i] = entered'[e]
                      \/ \E s \in Sender : msg'[s] = entered'[e]
                      \/ \E n \in Channels : \E i \in 1 .. Len(channel[n]) : channel[n][i] = entered'[e]
    BY <1>1 DEF SomewhereInv
  <2>1. CASE e = Len(entered) + 1
    BY <1>1, <1>2, <2>1
  <2>2. CASE e \in 1 .. Len(entered)
    <3>1. \A s \in Sender : msg[s] = entered[e] => s # t
      BY <2>2, PlacesAreTyped DEF PlacesInv, HolderInv, Enqueue, Distributing
    <3> QED
      BY <1>1, <1>2, <2>2, <3>1 DEF PlacesInv, SomewhereInv
  <2> QED
    BY <1>2, <2>1, <2>2
<1> QED
  BY <1>3, <1>4, <1>5, <1>6 DEF PlacesInv

\* is sent from there,
LEMMA DistributeMoves ==
  ASSUME StreamInv, NEW t \in Sender, Distribute(t), distribute = "broadcast"
  PROVE  PlacesInv'
<1> USE StreamAssumption
<1>. TypeOK /\ LabelTypes /\ MessageTypes /\ PlacesInv
  BY Types DEF AllTypes, StreamInv, PlacesInv
<1>1. /\ \A s \in Sender : msg'[s] = IF s = t THEN NoMessage ELSE msg[s]
      /\ \A s \in Sender \ {t} : pc'[s] = pc[s]
      /\ pc'[t] \in {"idle", "range"}
      /\ sent' = Append(sent, msg[t])
      /\ UNCHANGED <<channel, entered, fresh>>
  BY DEF Distribute, DistributeReturns, streamVars, LabelTypes, MessageTypes, Goto
<1>2. msg[t] \in Messages
  BY DEF Distribute, PlacesInv, HolderInv, Distributing, MessageTypes
<1>3. /\ Len(sent') = Len(sent) + 1 /\ Len(sent) \in Nat
      /\ \A i \in 1 .. Len(sent) : sent'[i] = sent[i]
      /\ sent'[Len(sent) + 1] = msg[t]
  BY <1>1, <1>2, AppendProperties, LenProperties DEF MessageTypes
<1>4. HolderInv'
  BY <1>1 DEF PlacesInv, HolderInv, Distributing
<1>5. \A i \in 1 .. Len(sent') : i = Len(sent) + 1 \/ i \in 1 .. Len(sent)
  BY <1>3
<1>6. UsedInv'
  BY <1>1, <1>3, <1>5 DEF PlacesInv, UsedInv, MessageTypes
<1>7. DistinctInv'
  <2>1. \A i, j \in 1 .. Len(sent') : sent'[i] = sent'[j] => i = j
    BY <1>3, <1>5 DEF PlacesInv, DistinctInv
  <2>2. \A s, u \in Sender : msg'[s] = msg'[u] /\ msg'[s] # NoMessage => s = u
    BY <1>1 DEF PlacesInv, DistinctInv
  <2>3. \A i \in 1 .. Len(sent'), s \in Sender : sent'[i] # msg'[s]
    BY <1>1, <1>2, <1>3, <1>5, PlacesAreTyped DEF PlacesInv, DistinctInv
  <2>4. \A n \in Channels : \A j \in 1 .. Len(channel[n]) :
          /\ \A i \in 1 .. Len(sent') : sent'[i] # channel[n][j]
          /\ \A s \in Sender : msg'[s] # channel[n][j]
    BY <1>1, <1>3, <1>5, PlacesAreTyped DEF PlacesInv, DistinctInv
  <2> QED
    BY <1>1, <2>1, <2>2, <2>3, <2>4 DEF PlacesInv, DistinctInv
<1>8. SomewhereInv'
  <2> SUFFICES ASSUME NEW e \in 1 .. Len(entered)
               PROVE  \/ \E i \in 1 .. Len(sent') : sent'[i] = entered[e]
                      \/ \E s \in Sender : msg'[s] = entered[e]
                      \/ \E n \in Channels : \E i \in 1 .. Len(channel[n]) : channel[n][i] = entered[e]
    BY <1>1 DEF SomewhereInv
  <2>1. CASE msg[t] = entered[e]
    BY <1>3, <2>1
  <2>2. CASE msg[t] # entered[e]
    <3>1. \A i \in 1 .. Len(sent) : i \in 1 .. Len(sent')
      BY <1>3
    <3> QED
      BY <1>1, <1>3, <2>2, <3>1 DEF PlacesInv, SomewhereInv
  <2> QED
    BY <2>1, <2>2
<1> QED
  BY <1>4, <1>6, <1>7, <1>8 DEF PlacesInv

\* or put into a channel,
LEMMA StashSendMoves ==
  ASSUME StreamInv, NEW t \in Sender, StashSend(t)
  PROVE  PlacesInv'
<1> USE StreamAssumption
<1> DEFINE n == to[t]
<1>. TypeOK /\ LabelTypes /\ MessageTypes /\ ChannelTypes /\ CallTypes /\ PlacesInv
  BY Types DEF AllTypes, StreamInv, PlacesInv
<1>0. n \in Channels
  BY DEF StashSend, CallTypes, Channels
<1>1. /\ \A s \in Sender : msg'[s] = IF s = t THEN NoMessage ELSE msg[s]
      /\ \A s \in Sender \ {t} : pc'[s] = pc[s]
      /\ pc'[t] \in {"idle", "range"}
      /\ \A k \in Channels : channel'[k] = IF k = n THEN Append(channel[n], msg[t]) ELSE channel[k]
      /\ UNCHANGED <<sent, entered, fresh>>
  BY <1>0 DEF StashSend, DistributeReturns, LabelTypes, MessageTypes, ChannelTypes, Goto
<1>2. msg[t] \in Messages
  BY DEF StashSend, PlacesInv, HolderInv, Distributing, MessageTypes
<1>3. /\ Len(channel'[n]) = Len(channel[n]) + 1 /\ Len(channel[n]) \in Nat
      /\ \A i \in 1 .. Len(channel[n]) : channel'[n][i] = channel[n][i]
      /\ channel'[n][Len(channel[n]) + 1] = msg[t]
  <2>1. channel[n] \in Seq(Messages) /\ channel'[n] = Append(channel[n], msg[t])
    BY <1>0, <1>1 DEF ChannelTypes
  <2> HIDE DEF n
  <2> QED
    BY <1>2, <2>1, AppendProperties, LenProperties
<1>4. HolderInv'
  BY <1>1 DEF PlacesInv, HolderInv, Distributing
<1>5. \A k \in Channels : \A i \in 1 .. Len(channel'[k]) :
        \/ k = n /\ i = Len(channel[n]) + 1 /\ channel'[k][i] = msg[t]
        \/ i \in 1 .. Len(channel[k]) /\ channel'[k][i] = channel[k][i]
  BY <1>0, <1>1, <1>3, SMTT(20)
<1>6. UsedInv'
  <2>1. \A k \in Channels : \A i \in 1 .. Len(channel'[k]) : channel'[k][i] \notin fresh
    BY <1>5 DEF PlacesInv, UsedInv
  <2> QED
    BY <1>1, <2>1 DEF PlacesInv, UsedInv, MessageTypes
<1>7. DistinctInv'
  <2>1. \A s, u \in Sender : msg'[s] = msg'[u] /\ msg'[s] # NoMessage => s = u
    BY <1>1 DEF PlacesInv, DistinctInv
  <2>2. \A k, l \in Channels : \A i \in 1 .. Len(channel'[k]), j \in 1 .. Len(channel'[l]) :
          channel'[k][i] = channel'[l][j] => k = l /\ i = j
    BY <1>5 DEF PlacesInv, DistinctInv
  <2>3. \A i \in 1 .. Len(sent), s \in Sender : sent[i] # msg'[s]
    BY <1>1, PlacesAreTyped DEF PlacesInv, DistinctInv
  <2>4. \A k \in Channels : \A j \in 1 .. Len(channel'[k]) :
          /\ \A i \in 1 .. Len(sent) : sent[i] # channel'[k][j]
          /\ \A s \in Sender : msg'[s] # channel'[k][j]
    BY <1>1, <1>2, <1>5, PlacesAreTyped DEF PlacesInv, DistinctInv
  <2> QED
    BY <1>1, <2>1, <2>2, <2>3, <2>4 DEF PlacesInv, DistinctInv
<1>8. SomewhereInv'
  <2> SUFFICES ASSUME NEW e \in 1 .. Len(entered)
               PROVE  \/ \E i \in 1 .. Len(sent) : sent[i] = entered[e]
                      \/ \E s \in Sender : msg'[s] = entered[e]
                      \/ \E k \in Channels : \E i \in 1 .. Len(channel'[k]) : channel'[k][i] = entered[e]
    BY <1>1 DEF SomewhereInv
  <2>1. CASE msg[t] = entered[e]
    BY <1>0, <1>3, <2>1, SMTT(20)
  <2>2. CASE msg[t] # entered[e]
    <3>1. \A k \in Channels : \A i \in 1 .. Len(channel[k]) :
            i \in 1 .. Len(channel'[k]) /\ channel'[k][i] = channel[k][i]
      BY <1>1, <1>3
    <3> QED
      BY <1>1, <2>2, <3>1 DEF PlacesInv, SomewhereInv
  <2> QED
    BY <2>1, <2>2
<1> QED
  BY <1>4, <1>6, <1>7, <1>8 DEF PlacesInv

\* and taken out of it into the hands of the goroutine that empties it.
LEMMA RangeMoves ==
  ASSUME StreamInv, NEW t \in Sender, RangeStashed(t), channel[t] # <<>>
  PROVE  PlacesInv'
<1> USE StreamAssumption
<1>. TypeOK /\ LabelTypes /\ MessageTypes /\ ChannelTypes /\ PlacesInv
  BY Types DEF AllTypes, StreamInv, PlacesInv
<1>0. t \in Channels /\ channel[t] \in Seq(Messages) /\ Len(channel[t]) \in Nat \ {0}
  BY EmptySeq DEF RangeStashed, ChannelTypes
<1>1. /\ \A s \in Sender : msg'[s] = IF s = t THEN channel[t][1] ELSE msg[s]
      /\ \A s \in Sender \ {t} : pc'[s] = pc[s]
      /\ pc'[t] = "distribute" /\ msg[t] = NoMessage
      /\ \A k \in Channels : channel'[k] = IF k = t THEN Tail(channel[t]) ELSE channel[k]
      /\ UNCHANGED <<sent, entered, fresh>>
  <2>1. Head(channel[t]) = channel[t][1]
    BY <1>0
  <2>2. msg[t] = NoMessage
    BY DEF RangeStashed, PlacesInv, HolderInv, Distributing
  <2> QED
    BY <1>0, <2>1, <2>2 DEF RangeStashed, LabelTypes, MessageTypes, ChannelTypes, Goto
<1>2. 1 \in 1 .. Len(channel[t]) /\ channel[t][1] \in Messages
  BY <1>0, ElementOfSeq
<1>3. /\ Len(channel'[t]) = Len(channel[t]) - 1
      /\ \A i \in 1 .. Len(channel'[t]) : channel'[t][i] = channel[t][i + 1]
  <2>1. channel'[t] = Tail(channel[t])
    BY <1>0, <1>1
  <2>2. channel[t] # <<>>
    OBVIOUS
  <2> QED
    BY <1>0, <2>1, <2>2, HeadTailProperties
<1>4. HolderInv'
  BY <1>1, <1>2 DEF PlacesInv, HolderInv, Distributing
<1>5. \A k \in Channels : \A i \in 1 .. Len(channel'[k]) :
        \/ k = t /\ i + 1 \in 1 .. Len(channel[k]) /\ i + 1 # 1 /\ channel'[k][i] = channel[k][i + 1]
        \/ k # t /\ i \in 1 .. Len(channel[k]) /\ channel'[k][i] = channel[k][i]
  BY <1>0, <1>1, <1>3
<1>6. UsedInv'
  <2>1. \A k \in Channels : \A i \in 1 .. Len(channel'[k]) : channel'[k][i] \notin fresh
    BY <1>5 DEF PlacesInv, UsedInv
  <2> QED
    BY <1>0, <1>1, <1>2, <2>1 DEF PlacesInv, UsedInv
<1>7. DistinctInv'
  <2>1. \A s, u \in Sender : msg'[s] = msg'[u] /\ msg'[s] # NoMessage => s = u
    BY <1>0, <1>1, <1>2 DEF PlacesInv, DistinctInv
  <2>2. \A k, l \in Channels : \A i \in 1 .. Len(channel'[k]), j \in 1 .. Len(channel'[l]) :
          channel'[k][i] = channel'[l][j] => k = l /\ i = j
    <3> SUFFICES ASSUME NEW k \in Channels, NEW l \in Channels,
                        NEW i \in 1 .. Len(channel'[k]), NEW j \in 1 .. Len(channel'[l]),
                        channel'[k][i] = channel'[l][j]
                 PROVE  k = l /\ i = j
      OBVIOUS
    <3>1. CASE k = t /\ l = t
      <4>1. i + 1 = j + 1
        BY <1>5, <3>1 DEF PlacesInv, DistinctInv
      <4> QED
        BY <3>1, <4>1
    <3>2. CASE k # t /\ l = t
      BY <1>5, <3>2 DEF PlacesInv, DistinctInv
    <3>3. CASE k = t /\ l # t
      BY <1>5, <3>3 DEF PlacesInv, DistinctInv
    <3>4. CASE k # t /\ l # t
      BY <1>5, <3>4 DEF PlacesInv, DistinctInv
    <3> QED
      BY <3>1, <3>2, <3>3, <3>4
  <2>3. \A i \in 1 .. Len(sent), s \in Sender : sent[i] # msg'[s]
    BY <1>0, <1>1, <1>2 DEF PlacesInv, DistinctInv
  <2>4. \A k \in Channels : \A j \in 1 .. Len(channel'[k]) :
          \A i \in 1 .. Len(sent) : sent[i] # channel'[k][j]
    BY <1>5 DEF PlacesInv, DistinctInv
  <2>5. \A k \in Channels : \A j \in 1 .. Len(channel'[k]) :
          \A s \in Sender : msg'[s] # channel'[k][j]
    BY <1>0, <1>1, <1>2, <1>5 DEF PlacesInv, DistinctInv
  <2> QED
    BY <1>1, <2>1, <2>2, <2>3, <2>4, <2>5 DEF PlacesInv, DistinctInv
<1>8. SomewhereInv'
  <2> SUFFICES ASSUME NEW e \in 1 .. Len(entered)
               PROVE  \/ \E i \in 1 .. Len(sent) : sent[i] = entered[e]
                      \/ \E s \in Sender : msg'[s] = entered[e]
                      \/ \E k \in Channels : \E i \in 1 .. Len(channel'[k]) : channel'[k][i] = entered[e]
    BY <1>1 DEF SomewhereInv
  <2>1. CASE \E i \in 1 .. Len(sent) : sent[i] = entered[e]
    BY <2>1
  <2>2. CASE \E s \in Sender : msg[s] = entered[e]
    <3>1. entered[e] # NoMessage
      BY PlacesAreTyped
    <3> QED
      BY <1>1, <2>2, <3>1
  <2>3. ASSUME NEW k \in Channels, NEW i \in 1 .. Len(channel[k]), channel[k][i] = entered[e]
        PROVE  \/ \E s \in Sender : msg'[s] = entered[e]
               \/ \E j \in 1 .. Len(channel'[k]) : channel'[k][j] = entered[e]
    <3>1. CASE k # t
      BY <1>1, <2>3, <3>1
    <3>2. CASE k = t /\ i = 1
      BY <1>1, <2>3, <3>2
    <3>3. CASE k = t /\ i # 1
      <4>1. i - 1 \in 1 .. Len(channel'[t]) /\ (i - 1) + 1 = i
        BY <1>0, <1>3, <3>3
      <4>2. channel'[t][i - 1] = channel[t][i]
        BY <1>3, <4>1
      <4> QED
        BY <2>3, <3>3, <4>1, <4>2
    <3> QED
      BY <3>1, <3>2, <3>3
  <2> QED
    BY <2>1, <2>2, <2>3 DEF PlacesInv, SomewhereInv
<1> QED
  BY <1>4, <1>6, <1>7, <1>8 DEF PlacesInv

\* Every step keeps a message in one place.
LEMMA PlacesInvNext ==
  ASSUME StreamInv, [Next]_vars
  PROVE  PlacesInv'
<1> USE StreamAssumption DEF Sender
<1>. TypeOK /\ LabelTypes /\ CallTypes /\ ChannelInv /\ PlacesInv
  BY Types DEF AllTypes, StreamInv
<1>a. \A t \in Sender : \A label : Goto(t, label) => \A s \in Sender : pc'[s] = IF s = t THEN label ELSE pc[s]
  BY DEF LabelTypes, Goto
<1>0. CASE UNCHANGED <<pc, channel, msg, entered, sent>> /\ fresh' \subseteq fresh
  BY <1>0 DEF PlacesInv, HolderInv, UsedInv, DistinctInv, SomewhereInv
<1>1. ASSUME NEW t \in Sender, NEW m \in Messages, Enqueue(t, m) PROVE PlacesInv'
  <2>1. CASE hasProducers /\ m \notin Filtered \cup Routed
    BY <1>1, <2>1, EnqueueMoves
  <2>2. CASE ~(hasProducers /\ m \notin Filtered \cup Routed)
    BY <1>0, <1>1, <2>2 DEF Enqueue, streamVars
  <2> QED
    BY <2>1, <2>2
<1>2. ASSUME NEW t \in Sender, Distribute(t) PROVE PlacesInv'
  <2>1. CASE distribute = "broadcast"
    BY <1>2, <2>1, DistributeMoves
  <2>2. CASE distribute # "broadcast"
    <3>1. Goto(t, "stash") /\ pc[t] \in Distributing
      BY <1>2, <2>2 DEF Distribute, Distributing
    <3>2. UNCHANGED <<channel, msg, fresh, entered, sent>>
      BY <1>2, <2>2 DEF Distribute, streamVars
    <3> QED
      BY <1>a, <3>1, <3>2, NothingMoves DEF Distributing
  <2> QED
    BY <2>1, <2>2
<1>3. ASSUME NEW t \in Sender, StashSend(t) PROVE PlacesInv'
  BY <1>3, StashSendMoves
<1>4. ASSUME NEW t \in Sender, StashRead(t) \/ StashPanics(t) PROVE PlacesInv'
  <2>1. pc[t] \in Distributing /\ \E label \in {"send", "panicked"} : Goto(t, label)
    BY <1>4 DEF StashRead, StashPanics, Distributing
  <2>2. UNCHANGED <<channel, msg, fresh, entered, sent>>
    BY <1>4 DEF StashRead, StashPanics, streamVars
  <2> QED
    BY <1>a, <2>1, <2>2, NothingMoves DEF Distributing
<1>5. ASSUME NEW t \in Sender,
             \/ CallPause(t) \/ PauseMake(t) \/ SavePrevious(t) \/ SetStash(t) \/ FlushWait(t)
             \/ Restore(t) \/ TakeChannel(t) \/ \E c \in {"Resume", "Flush"} : CallResume(t, c)
      PROVE  PlacesInv'
  <2>1. /\ pc[t] \notin Distributing \cup {"panicked"}
        /\ \E label \in {"pause", "savePrevious", "setStash", "idle", "take", "close", "restore", "wait"} :
             Goto(t, label)
    BY <1>5 DEF CallPause, PauseMake, SavePrevious, SetStash, FlushWait, Restore, TakeChannel, CallResume,
                Distributing
  <2>2. UNCHANGED <<channel, msg, fresh, entered, sent>>
    BY <1>5 DEF CallPause, PauseMake, SavePrevious, SetStash, FlushWait, Restore, TakeChannel, CallResume,
                streamVars
  <2> QED
    BY <1>a, <2>1, <2>2, NothingMoves DEF Distributing
<1>6. ASSUME NEW t \in Sender, CloseStashed(t) PROVE PlacesInv'
  <2>1. pc[t] = "close" /\ UNCHANGED <<channel, msg, fresh, entered, sent>>
    BY <1>6 DEF CloseStashed
  <2>2. CASE Goto(t, "panicked")
    BY <1>a, <2>1, <2>2, NothingMoves DEF Distributing
  <2>3. CASE to[t] # 0 /\ ~closed[to[t]]
    <3>1. to[t] \in Channels /\ pc[to[t]] = "idle"
      BY <2>3 DEF CallTypes, ChannelInv, Channels
    <3>2. /\ \A s \in Sender \ {t} : pc'[s] = IF s = to[t] THEN "range" ELSE pc[s]
          /\ pc'[t] \in {"wait", "idle"}
      BY <1>6, <2>1, <2>3, <3>1 DEF CloseStashed, LabelTypes
    <3> QED
      BY <2>1, <3>1, <3>2, NothingMoves DEF Distributing
  <2> QED
    BY <1>6, <2>2, <2>3 DEF CloseStashed
<1>7. ASSUME NEW t \in Sender, RangeStashed(t) PROVE PlacesInv'
  <2>1. CASE channel[t] # <<>>
    BY <1>7, <2>1, RangeMoves
  <2>2. CASE channel[t] = <<>>
    <3>1. /\ pc[t] = "range" /\ Goto(t, "done")
          /\ UNCHANGED <<channel, msg, fresh, entered, sent>>
      BY <1>7, <2>2 DEF RangeStashed
    <3> QED
      BY <1>a, <3>1, NothingMoves DEF Distributing
  <2> QED
    BY <2>1, <2>2
<1> QED
  BY <1>0, <1>1, <1>2, <1>3, <1>4, <1>5, <1>6, <1>7 DEF Next, Continue, vars, streamVars

-----------------------------------------------------------------------------
(* The single user and the goroutine of its last channel *)

\* A step of the user t that moves no message and leaves the channels as they are.
LEMMA UserGoesOn ==
  ASSUME StreamInv, NEW t \in Threads, UserInv(t), NEW label, Goto(t, label),
         UNCHANGED <<made, channel, msg, sent, entered>>, previous' = "broadcast",
         call' = call \/ call' = [call EXCEPT ![t] = "Flush"],
         label \in {"restore", "take", "close", "wait"} => call'[t] = "Flush",
         UserPhase(t)'
  PROVE  UserInv(t)'
<1> USE StreamAssumption DEF Sender
<1>. LabelTypes /\ CallTypes
  BY Types DEF StreamInv, AllTypes
<1>1. \A s \in Sender : pc'[s] = IF s = t THEN label ELSE pc[s]
  BY DEF LabelTypes, Goto
<1>2. \A u \in Threads \ {t} : call'[u] = call[u]
  BY DEF CallTypes
<1>3. OthersRest(t)'
  BY <1>1, <1>2 DEF UserInv, OthersRest
<1>4. entered' = (sent' \o Stashed') \o HeldBy(t)'
  BY DEF UserInv, Stashed, HeldBy
<1> QED
  BY <1>1, <1>3, <1>4 DEF UserInv

\* Nobody acts but the user, and while it waits in Flush the goroutine of the last channel.
LEMMA WhoActs ==
  ASSUME StreamInv, NEW t \in Threads, IsUser(t), UserInv(t), [Next]_vars
  PROVE  \/ UNCHANGED vars
         \/ \E m \in Messages : Enqueue(t, m)
         \/ Distribute(t) \/ StashRead(t) \/ StashSend(t) \/ StashPanics(t)
         \/ CallPause(t) \/ PauseMake(t) \/ SavePrevious(t) \/ SetStash(t)
         \/ CallResume(t, "Flush")
         \/ Restore(t) \/ TakeChannel(t) \/ CloseStashed(t) \/ FlushWait(t)
         \/ made \in Channels /\ (Distribute(made) \/ RangeStashed(made))
<1> USE StreamAssumption DEF Sender
<1>1. CASE UNCHANGED vars
  BY <1>1
<1>2. ASSUME NEW m \in Messages, NEW s \in Sender, Enqueue(s, m) PROVE s = t
  BY <1>2 DEF Enqueue, IsUser
<1>3. ASSUME NEW s \in Sender, CallPause(s) PROVE s = t
  BY <1>3 DEF CallPause, IsUser
<1>4. ASSUME NEW s \in Sender, NEW c \in {"Resume", "Flush"}, CallResume(s, c) PROVE s = t /\ c = "Flush"
  BY <1>4 DEF CallResume, IsUser
<1>5. ASSUME NEW s \in Threads, Continue(s) PROVE s = t /\ ~RangeStashed(s)
  <2>1. pc[s] # "idle" /\ ~RangeStashed(s)
    BY <1>5 DEF Continue, Distribute, StashRead, StashSend, StashPanics, PauseMake, SavePrevious, SetStash,
                Restore, TakeChannel, CloseStashed, FlushWait, RangeStashed
  <2> QED
    BY <2>1 DEF UserInv, OthersRest
<1>6. ASSUME NEW n \in Channels, Continue(n) PROVE n = made /\ (Distribute(n) \/ RangeStashed(n))
  <2>1. pc[n] \notin {"idle", "done"}
    BY <1>6 DEF Continue, Distribute, StashRead, StashSend, StashPanics, PauseMake, SavePrevious, SetStash,
                Restore, TakeChannel, CloseStashed, FlushWait, RangeStashed
  <2>2. n = made /\ pc[n] \in {"range", "distribute"}
    BY <2>1 DEF UserInv, OthersRest
  <2> QED
    BY <1>6, <2>2 DEF Continue, StashRead, StashSend, StashPanics, PauseMake, SavePrevious, SetStash,
                Restore, TakeChannel, CloseStashed, FlushWait
<1>7. ASSUME NEW s \in Sender, Continue(s)
      PROVE  \/ Distribute(t) \/ StashRead(t) \/ StashSend(t) \/ StashPanics(t)
             \/ PauseMake(t) \/ SavePrevious(t) \/ SetStash(t)
             \/ Restore(t) \/ TakeChannel(t) \/ CloseStashed(t) \/ FlushWait(t)
             \/ made \in Channels /\ (Distribute(made) \/ RangeStashed(made))
  <2>1. CASE s \in Threads
    BY <1>5, <1>7, <2>1 DEF Continue
  <2>2. CASE s \in Channels
    BY <1>6, <1>7, <2>2
  <2> QED
    BY <2>1, <2>2
<1> QED
  BY <1>1, <1>2, <1>3, <1>4, <1>7 DEF Next

\* What the user and the goroutine of the last channel hold.
LEMMA UserHolds ==
  ASSUME StreamInv, NEW t \in Threads, UserInv(t)
  PROVE  /\ \A s \in Sender : HeldBy(s) \in Seq(Messages)
         /\ Stashed \in Seq(Messages)
         /\ made # 0 => made \in Channels /\ channel[made] \in Seq(Messages)
         /\ \A s \in Sender : pc[s] \notin Distributing \cup {"panicked"} => HeldBy(s) = <<>>
         /\ \A s \in Sender : pc[s] \in Distributing => msg[s] \in Messages /\ HeldBy(s) = <<msg[s]>>
<1> USE StreamAssumption DEF Sender
<1>. FieldTypes /\ ChannelTypes /\ MessageTypes /\ PlacesInv
  BY Types DEF StreamInv, AllTypes
<1>1. \A s \in Sender : HeldBy(s) \in Seq(Messages)
  BY DEF HeldBy, MessageTypes
<1>2. made # 0 => made \in Channels /\ channel[made] \in Seq(Messages)
  BY DEF FieldTypes, Channels, ChannelTypes
<1>3. Stashed \in Seq(Messages)
  BY <1>1, <1>2, ConcatProperties DEF Stashed
<1>4. \A s \in Sender : pc[s] \notin Distributing \cup {"panicked"} => HeldBy(s) = <<>>
  BY DEF PlacesInv, HolderInv, HeldBy
<1>5. \A s \in Sender : pc[s] \in Distributing => msg[s] \in Messages /\ HeldBy(s) = <<msg[s]>>
  BY DEF PlacesInv, HolderInv, HeldBy, MessageTypes
<1> QED
  BY <1>1, <1>2, <1>3, <1>4, <1>5

\* Going to a label without a new pause changes neither what is stashed nor what is drained.
LEMMA PhaseFrame ==
  ASSUME StreamInv, NEW t \in Threads, NEW label, Goto(t, label), UNCHANGED <<made, channel, msg>>
  PROVE  /\ pc'[t] = label /\ Stashed' = Stashed /\ Draining' = Draining
         /\ made # 0 => made \in Channels /\ pc'[made] = pc[made]
<1> USE StreamAssumption DEF Sender
<1>1. \A s \in Sender : pc'[s] = IF s = t THEN label ELSE pc[s]
  BY Types DEF StreamInv, AllTypes, LabelTypes, Goto
<1>2. made # 0 => made \in Channels /\ made # t
  BY Types DEF StreamInv, AllTypes, FieldTypes, Channels
<1> QED
  BY <1>1, <1>2 DEF Stashed, HeldBy, Draining

\* A message moves from the end of what is to be distributed to the end of a channel, and
\* from the head of a channel to the end of what is sent.
LEMMA MoveOver ==
  ASSUME NEW S, NEW first \in Seq(S), NEW second \in Seq(S), NEW e \in S
  PROVE  /\ (first \o second) \o <<e>> = first \o Append(second, e)
         /\ first \o (<<e>> \o second) = Append(first, e) \o second
<1>1. <<e>> \in Seq(S)
  OBVIOUS
<1>2. Append(second, e) = second \o <<e>> /\ Append(first, e) = first \o <<e>>
  BY AppendIsConcat
<1>3. (first \o second) \o <<e>> = first \o (second \o <<e>>)
  BY <1>1, ConcatAssociative
<1>4. (first \o <<e>>) \o second = first \o (<<e>> \o second)
  BY <1>1, ConcatAssociative
<1> QED
  BY <1>2, <1>3, <1>4

\* The user enters a message.
LEMMA UserEnqueues ==
  ASSUME StreamInv, NEW t \in Threads, UserInv(t), NEW m \in Messages, Enqueue(t, m)
  PROVE  UserInv(t)'
<1> USE StreamAssumption DEF Sender
<1>. LabelTypes /\ MessageTypes /\ FieldTypes
  BY Types DEF StreamInv, AllTypes
<1>1. CASE UNCHANGED <<pc, call, msg, entered>>
  BY <1>1 DEF Enqueue, streamVars, UserInv, OthersRest, UserPhase, Draining, Pausing, Stashed, HeldBy
<1>2. CASE Goto(t, "distribute") /\ msg' = [msg EXCEPT ![t] = m] /\ entered' = Append(entered, m)
           /\ call' = [call EXCEPT ![t] = "Enqueue"]
  <2>1. /\ \A s \in Sender : pc'[s] = IF s = t THEN "distribute" ELSE pc[s]
        /\ \A s \in Sender : msg'[s] = IF s = t THEN m ELSE msg[s]
        /\ \A u \in Threads \ {t} : call'[u] = call[u]
        /\ UNCHANGED <<calls, paused, distribute, previous, channel, made, to, sent>>
    BY <1>2, Types DEF Enqueue, streamVars, LabelTypes, MessageTypes, Goto, StreamInv, AllTypes, CallTypes
  <2>2. made # 0 => made \in Channels /\ made # t
    BY DEF FieldTypes, Channels
  <2>3. Stashed' = Stashed /\ Draining' = Draining /\ Pausing' = Pausing /\ HeldBy(t)' = <<m>>
    BY <2>1, <2>2 DEF Stashed, HeldBy, Draining, Pausing
  <2>4. OthersRest(t)'
    BY <2>1 DEF UserInv, OthersRest
  <2>5. UserPhase(t)'
    BY <2>1, <2>3 DEF Enqueue, UserInv, UserPhase, Distributing
  <2>6. entered' = (sent' \o Stashed') \o HeldBy(t)'
    <3>1. HeldBy(t) = <<>> /\ Stashed \in Seq(Messages) /\ sent \in Seq(Messages)
      BY UserHolds DEF Enqueue, Distributing, MessageTypes
    <3>2. sent \o Stashed \in Seq(Messages)
      BY <3>1, ConcatProperties
    <3>3. entered = sent \o Stashed
      BY <3>1, <3>2, ConcatEmptySeq DEF UserInv
    <3>4. Append(entered, m) = (sent \o Stashed) \o <<m>>
      BY <3>2, <3>3, AppendIsConcat
    <3> QED
      BY <1>2, <2>1, <2>3, <3>4
  <2> QED
    BY <2>1, <2>4, <2>5, <2>6 DEF UserInv
<1> QED
  BY <1>1, <1>2 DEF Enqueue

\* The user, between two pauses, sends a message to the producers or, during one, stashes it.
LEMMA UserDistributes ==
  ASSUME StreamInv, NEW t \in Threads, UserInv(t), Distribute(t)
  PROVE  UserInv(t)'
<1> USE StreamAssumption DEF Sender
<1>. LabelTypes /\ MessageTypes /\ FieldTypes
  BY Types DEF StreamInv, AllTypes
<1>1. CASE distribute = "stash"
  <2>1. Goto(t, "stash") /\ UNCHANGED <<streamVars, channel, made, msg, sent, entered, call, to>>
    BY <1>1 DEF Distribute, streamVars
  <2>2. UserPhase(t)'
    BY <1>1, <2>1, PhaseFrame DEF UserInv, UserPhase, Pausing, Distribute, streamVars, Distributing
  <2> QED
    BY <2>1, <2>2, UserGoesOn DEF UserInv, streamVars
<1>2. CASE distribute = "broadcast"
  <2>1. /\ \A s \in Sender : pc'[s] = IF s = t THEN "idle" ELSE pc[s]
        /\ \A s \in Sender : msg'[s] = IF s = t THEN NoMessage ELSE msg[s]
        /\ sent' = Append(sent, msg[t])
        /\ UNCHANGED <<calls, paused, distribute, previous, channel, made, to, call, entered>>
    BY <1>2 DEF Distribute, DistributeReturns, streamVars, LabelTypes, MessageTypes, Goto
  <2>2. made # 0 => made \in Channels /\ made # t
    BY DEF FieldTypes, Channels
  <2>3. Stashed' = Stashed /\ Draining' = Draining /\ HeldBy(t)' = <<>>
    BY <2>1, <2>2 DEF Stashed, HeldBy, Draining
  <2>4. OthersRest(t)'
    BY <2>1 DEF UserInv, OthersRest
  <2>5. paused = 0 /\ ~Draining /\ Stashed = <<>>
    BY <1>2 DEF Distribute, UserInv, UserPhase
  <2>6. UserPhase(t)'
    BY <1>2, <2>1, <2>3, <2>5 DEF UserPhase
  <2>7. entered' = (sent' \o Stashed') \o HeldBy(t)'
    <3>1. HeldBy(t) = <<msg[t]>> /\ msg[t] \in Messages /\ sent \in Seq(Messages)
      BY UserHolds DEF Distribute, Distributing, MessageTypes
    <3>2. entered = sent \o <<msg[t]>>
      BY <2>5, <3>1, ConcatEmptySeq DEF UserInv
    <3>3. sent' \in Seq(Messages) /\ sent' = entered
      BY <2>1, <3>1, <3>2, AppendIsConcat, AppendProperties
    <3>4. (sent' \o <<>>) \o <<>> = sent'
      BY <3>3, ConcatEmptySeq
    <3> QED
      BY <2>1, <2>3, <2>5, <3>3, <3>4
  <2> QED
    BY <2>1, <2>4, <2>6, <2>7 DEF UserInv
<1> QED
  BY <1>1, <1>2 DEF FieldTypes

\* A single user stashes in order.
LEMMA UserStashes ==
  ASSUME StreamInv, NEW t \in Threads, UserInv(t), StashSend(t)
  PROVE  UserInv(t)'
<1> USE StreamAssumption DEF Sender
<1>. LabelTypes /\ MessageTypes /\ FieldTypes /\ ChannelTypes
  BY Types DEF StreamInv, AllTypes
<1>1. made # 0 /\ to[t] = made /\ Pausing /\ distribute = "stash" /\ pc[made] = "idle"
  BY DEF StashSend, UserInv, UserPhase, Distributing, Pausing
<1>2. made \in Channels /\ made # t
  BY <1>1 DEF FieldTypes, Channels
<1>3. /\ \A s \in Sender : pc'[s] = IF s = t THEN "idle" ELSE pc[s]
      /\ \A s \in Sender : msg'[s] = IF s = t THEN NoMessage ELSE msg[s]
      /\ \A k \in Channels : channel'[k] = IF k = made THEN Append(channel[k], msg[t]) ELSE channel[k]
      /\ UNCHANGED <<calls, paused, distribute, previous, made, to, call, entered, sent>>
  BY <1>1 DEF StashSend, DistributeReturns, LabelTypes, MessageTypes, ChannelTypes, Goto
<1>4. OthersRest(t)'
  BY <1>3 DEF UserInv, OthersRest
<1>5. UserPhase(t)'
  BY <1>1, <1>2, <1>3 DEF UserPhase, Pausing
<1>6. entered' = (sent' \o Stashed') \o HeldBy(t)'
  <2>1. HeldBy(t) = <<msg[t]>> /\ msg[t] \in Messages /\ HeldBy(t)' = <<>>
    BY <1>3, UserHolds DEF StashSend, Distributing, HeldBy
  <2>2. HeldBy(made) = <<>> /\ HeldBy(made)' = <<>> /\ channel[made] \in Seq(Messages)
    BY <1>1, <1>2, <1>3, UserHolds DEF Distributing, HeldBy
  <2>3. Stashed = channel[made] /\ Stashed' = Append(channel[made], msg[t])
    <3>1. Append(channel[made], msg[t]) \in Seq(Messages)
      BY <2>1, <2>2, AppendProperties
    <3> QED
      BY <1>1, <1>2, <1>3, <2>2, <3>1, ConcatEmptySeq DEF Stashed
  <2>4. sent \in Seq(Messages) /\ <<msg[t]>> \in Seq(Messages)
    BY <2>1 DEF MessageTypes
  <2>5. (sent \o channel[made]) \o <<msg[t]>> = sent \o Append(channel[made], msg[t])
    <3>1. msg[t] \in Messages
      BY <2>1
    <3>2. channel[made] \in Seq(Messages)
      BY <2>2
    <3>3. sent \in Seq(Messages)
      BY <2>4
    <3>4. \A first, second \in Seq(Messages) : \A e \in Messages :
            (first \o second) \o <<e>> = first \o Append(second, e)
      BY MoveOver, SMTT(30)
    <3> QED
      BY <3>1, <3>2, <3>3, <3>4, Zenon
  <2>6. entered = sent \o Stashed'
    BY <2>1, <2>3, <2>5 DEF UserInv
  <2>7. sent \o Stashed' \in Seq(Messages)
    BY <2>6 DEF MessageTypes
  <2> QED
    BY <1>3, <2>1, <2>6, <2>7, ConcatEmptySeq
<1> QED
  BY <1>3, <1>4, <1>5, <1>6 DEF UserInv

\* The goroutine of the last channel sends a message to the producers, while the user waits.
LEMMA LastDistributes ==
  ASSUME StreamInv, NEW t \in Threads, UserInv(t), made \in Channels, Distribute(made)
  PROVE  UserInv(t)'
<1> USE StreamAssumption DEF Sender
<1>. LabelTypes /\ MessageTypes /\ FieldTypes
  BY Types DEF StreamInv, AllTypes
<1>1. made # 0 /\ made # t /\ made \notin Threads
  BY DEF Channels
<1>2. pc[made] = "distribute" /\ pc[t] = "wait" /\ paused = 0 /\ distribute = "broadcast"
  BY <1>1 DEF Distribute, UserInv, UserPhase, Draining, Pausing
<1>3. /\ \A s \in Sender : pc'[s] = IF s = made THEN "range" ELSE pc[s]
      /\ \A s \in Sender : msg'[s] = IF s = made THEN NoMessage ELSE msg[s]
      /\ sent' = Append(sent, msg[made])
      /\ UNCHANGED <<calls, paused, distribute, previous, channel, made, to, call, entered>>
  BY <1>1, <1>2 DEF Distribute, DistributeReturns, streamVars, LabelTypes, MessageTypes, Goto
<1>4. OthersRest(t)'
  BY <1>1, <1>3 DEF UserInv, OthersRest
<1>5. UserPhase(t)'
  BY <1>1, <1>2, <1>3 DEF UserPhase, Draining
<1>6. entered' = (sent' \o Stashed') \o HeldBy(t)'
  <2>1. msg[made] \in Messages /\ HeldBy(made) = <<msg[made]>> /\ channel[made] \in Seq(Messages)
    BY <1>1, <1>2, UserHolds DEF Distributing
  <2>2. Stashed = <<msg[made]>> \o channel[made]
    BY <1>1, <2>1 DEF Stashed
  <2>3. Stashed' = channel[made]
    <3>1. HeldBy(made)' = <<>>
      BY <1>3 DEF HeldBy
    <3> QED
      BY <1>1, <1>3, <2>1, <3>1, ConcatEmptySeq DEF Stashed
  <2>4. HeldBy(t) = <<>> /\ HeldBy(t)' = <<>>
    <3>1. HeldBy(t) = <<>>
      BY <1>2, UserHolds DEF Distributing
    <3> QED
      BY <1>1, <1>3, <3>1 DEF HeldBy
  <2>5. sent \in Seq(Messages)
    BY DEF MessageTypes
  <2>6. sent \o (<<msg[made]>> \o channel[made]) = Append(sent, msg[made]) \o channel[made]
    <3>1. \A first, second \in Seq(Messages) : \A e \in Messages :
            first \o (<<e>> \o second) = Append(first, e) \o second
      BY MoveOver, SMTT(30)
    <3>2. msg[made] \in Messages
      BY <2>1
    <3>3. channel[made] \in Seq(Messages)
      BY <2>1
    <3> QED
      BY <2>5, <3>1, <3>2, <3>3, Zenon
  <2> QED
    BY <1>3, <2>2, <2>3, <2>4, <2>6 DEF UserInv
<1> QED
  BY <1>1, <1>2, <1>3, <1>4, <1>5, <1>6 DEF UserInv

\* It takes the next message out of its channel, or ends.
LEMMA LastRanges ==
  ASSUME StreamInv, NEW t \in Threads, UserInv(t), made \in Channels, RangeStashed(made)
  PROVE  UserInv(t)'
<1> USE StreamAssumption DEF Sender
<1>. LabelTypes /\ MessageTypes /\ FieldTypes /\ ChannelTypes
  BY Types DEF StreamInv, AllTypes
<1>1. made # 0 /\ made # t
  BY DEF Channels
<1>2. /\ pc[made] = "range" /\ pc[t] = "wait" /\ paused = 0 /\ distribute = "broadcast"
      /\ channel[made] \in Seq(Messages) /\ HeldBy(made) = <<>>
  BY <1>1, UserHolds DEF RangeStashed, UserInv, UserPhase, Draining, Pausing, Distributing
<1>3. Stashed = channel[made]
  BY <1>1, <1>2, ConcatEmptySeq DEF Stashed
<1>4. CASE channel[made] # <<>>
  <2>1. /\ \A s \in Sender : pc'[s] = IF s = made THEN "distribute" ELSE pc[s]
        /\ \A s \in Sender : msg'[s] = IF s = made THEN Head(channel[made]) ELSE msg[s]
        /\ \A k \in Channels : channel'[k] = IF k = made THEN Tail(channel[made]) ELSE channel[k]
        /\ UNCHANGED <<calls, paused, distribute, previous, made, to, call, entered, sent>>
    BY <1>4 DEF RangeStashed, LabelTypes, MessageTypes, ChannelTypes, Goto
  <2>2. OthersRest(t)'
    BY <1>1, <2>1 DEF UserInv, OthersRest
  <2>3. UserPhase(t)'
    BY <1>1, <1>2, <2>1 DEF UserPhase, Draining
  <2>4. Stashed' = <<Head(channel[made])>> \o Tail(channel[made])
    <3>1. Head(channel[made]) # NoMessage
      BY <1>2, <1>4, HeadTailProperties
    <3> QED
      BY <1>1, <2>1, <3>1 DEF Stashed, HeldBy
  <2>5. Stashed' = Stashed
    <3>1. channel[made] = <<Head(channel[made])>> \o Tail(channel[made])
      BY <1>2, <1>4
    <3> QED
      BY <1>3, <2>4, <3>1
  <2>6. HeldBy(t)' = HeldBy(t)
    BY <1>1, <2>1 DEF HeldBy
  <2> QED
    BY <1>1, <1>2, <2>1, <2>2, <2>3, <2>5, <2>6 DEF UserInv
<1>5. CASE channel[made] = <<>>
  <2>1. /\ \A s \in Sender : pc'[s] = IF s = made THEN "done" ELSE pc[s]
        /\ UNCHANGED <<calls, paused, distribute, previous, made, to, call, entered, sent, msg, channel>>
    BY <1>5 DEF RangeStashed, LabelTypes, Goto
  <2>2. OthersRest(t)'
    BY <1>1, <2>1 DEF UserInv, OthersRest
  <2>3. Stashed' = Stashed /\ HeldBy(t)' = HeldBy(t)
    BY <2>1 DEF Stashed, HeldBy
  <2>4. UserPhase(t)'
    BY <1>1, <1>2, <1>3, <1>5, <2>1, <2>3 DEF UserPhase
  <2> QED
    BY <1>1, <1>2, <2>1, <2>2, <2>3, <2>4 DEF UserInv
<1> QED
  BY <1>4, <1>5

\* The user makes a channel.
LEMMA UserMakes ==
  ASSUME StreamInv, NEW t \in Threads, UserInv(t), PauseMake(t)
  PROVE  UserInv(t)'
<1> USE StreamAssumption DEF Sender
<1>. LabelTypes /\ FieldTypes /\ ChannelTypes /\ ChannelInv
  BY Types DEF StreamInv, AllTypes
<1>1. /\ \A s \in Sender : pc'[s] = IF s = t THEN "savePrevious" ELSE pc[s]
      /\ made' = made + 1 /\ paused' = made + 1
      /\ UNCHANGED <<calls, distribute, previous, to, call, entered, sent, msg, channel>>
  BY DEF PauseMake, LabelTypes, Goto
<1>2. made' \in Channels /\ made' # 0 /\ made' # t
  BY <1>1 DEF PauseMake, FieldTypes, Channels
<1>3. channel[made'] = <<>> /\ pc[made'] = "idle"
  BY <1>1, <1>2 DEF ChannelInv, FieldTypes, Channels
<1>4. HeldBy(made') = <<>> /\ HeldBy(made)' = <<>>
  <2>1. HeldBy(made') = <<>>
    BY <1>2, <1>3, UserHolds DEF Distributing
  <2> QED
    BY <1>1, <2>1 DEF HeldBy
<1>5. paused = 0 /\ ~Draining /\ distribute = "broadcast" /\ Stashed = <<>>
  BY DEF PauseMake, UserInv, UserPhase, Distributing
<1>6. Stashed' = <<>>
  BY <1>1, <1>2, <1>3, <1>4 DEF Stashed
<1>7. made # 0 => made \in Channels /\ channel[made] = <<>> /\ pc[made] \in {"idle", "done"}
  <2> SUFFICES ASSUME made # 0 PROVE made \in Channels /\ channel[made] = <<>> /\ pc[made] \in {"idle", "done"}
    OBVIOUS
  <2>1. made \in Channels /\ channel[made] \in Seq(Messages) /\ HeldBy(made) \in Seq(Messages)
    BY UserHolds
  <2>2. channel[made] = <<>>
    BY <1>5, <2>1, ConcatEqualIffEmpty DEF Stashed
  <2>3. pc[made] \in {"idle", "range", "distribute", "done"}
    BY <2>1 DEF UserInv, OthersRest
  <2> QED
    BY <1>5, <2>1, <2>2, <2>3 DEF Draining
<1>8. OthersRest(t)'
  <2>1. \A u \in Threads \ {t} : pc'[u] = "idle" /\ call'[u] = "Enqueue" /\ msg'[u] = NoMessage
    BY <1>1 DEF UserInv, OthersRest
  <2>2. \A n \in Channels : n # made => channel[n] = <<>> /\ pc[n] \in {"idle", "done"}
    BY DEF UserInv, OthersRest
  <2>3. \A n \in Channels : n # 0 /\ n # t
    BY DEF Channels
  <2>4. \A n \in Channels : channel[n] = <<>> /\ pc[n] \in {"idle", "done"}
    BY <1>7, <2>2, <2>3
  <2> QED
    BY <1>1, <2>1, <2>3, <2>4 DEF OthersRest
<1>9. UserPhase(t)'
  BY <1>1, <1>2, <1>3, <1>5, <1>6 DEF UserPhase, Pausing
<1> QED
  BY <1>1, <1>5, <1>6, <1>8, <1>9 DEF UserInv, HeldBy

\* The user closes its channel, whose goroutine starts.
LEMMA UserCloses ==
  ASSUME StreamInv, NEW t \in Threads, UserInv(t), CloseStashed(t)
  PROVE  UserInv(t)'
<1> USE StreamAssumption DEF Sender
<1>. LabelTypes /\ FieldTypes /\ ChannelInv
  BY Types DEF StreamInv, AllTypes
<1>1. /\ made # 0 /\ to[t] = made /\ pc[made] = "idle" /\ paused = 0 /\ distribute = "broadcast"
      /\ call[t] = "Flush"
  BY DEF CloseStashed, UserInv, UserPhase, Distributing
<1>2. made \in Channels /\ made # t /\ ~closed[made]
  BY <1>1 DEF FieldTypes, ChannelInv, Channels
<1>3. /\ \A s \in Sender : pc'[s] = IF s = t THEN "wait" ELSE IF s = made THEN "range" ELSE pc[s]
      /\ UNCHANGED <<calls, paused, distribute, previous, made, to, call, entered, sent, msg, channel>>
  BY <1>1, <1>2 DEF CloseStashed, LabelTypes
<1>4. OthersRest(t)'
  BY <1>2, <1>3 DEF UserInv, OthersRest
<1>5. UserPhase(t)'
  BY <1>1, <1>2, <1>3 DEF UserPhase, Draining
<1> QED
  BY <1>1, <1>3, <1>4, <1>5 DEF UserInv, Stashed, HeldBy

\* Every step keeps the phases of a single user.
LEMMA UserInvNext ==
  ASSUME StreamInv, NEW t \in Threads, IsUser(t), UserInv(t), [Next]_vars
  PROVE  UserInv(t)'
<1> USE StreamAssumption DEF Sender
<1>. FieldTypes /\ CallTypes /\ ChannelInv /\ ResumeInv
  BY Types DEF StreamInv, AllTypes
<1>0. CASE UNCHANGED vars
  BY <1>0 DEF vars, streamVars, UserInv, OthersRest, UserPhase, Draining, Pausing, Stashed, HeldBy
<1>1. CASE StashRead(t)
  BY <1>1, PhaseFrame, UserGoesOn, ZenonT(30)
  DEF StashRead, streamVars, UserInv, UserPhase, Pausing, Distributing, CallTypes
<1>2. CASE StashPanics(t)
  BY <1>2 DEF StashPanics, UserInv, UserPhase, Pausing, ChannelInv, FieldTypes, Channels, Distributing
<1>3. CASE CallPause(t)
  <2>1. Goto(t, "pause") /\ UNCHANGED <<paused, distribute, previous, made, channel, call, msg, sent, entered>>
    BY <1>3 DEF CallPause, streamVars
  <2>2. paused = 0 /\ ~Draining /\ distribute = "broadcast" /\ Stashed = <<>> /\ previous = "broadcast"
    BY <1>3 DEF CallPause, UserInv, UserPhase, Pausing
  <2>3. UserPhase(t)'
    BY <2>1, <2>2, PhaseFrame DEF UserPhase
  <2> QED
    BY <2>1, <2>2, <2>3, UserGoesOn
<1>4. CASE SavePrevious(t)
  <2>1. Goto(t, "setStash") /\ UNCHANGED <<paused, distribute, made, channel, call, msg, sent, entered>>
    BY <1>4 DEF SavePrevious
  <2>2. Pausing /\ distribute = "broadcast" /\ Stashed = <<>> /\ previous' = "broadcast"
    BY <1>4 DEF SavePrevious, UserInv, UserPhase, Distributing
  <2>3. UserPhase(t)'
    BY <2>1, <2>2, PhaseFrame DEF UserPhase, Pausing
  <2> QED
    BY <2>1, <2>2, <2>3, UserGoesOn
<1>5. CASE SetStash(t)
  <2>1. Goto(t, "idle") /\ UNCHANGED <<paused, previous, made, channel, call, msg, sent, entered>>
    BY <1>5 DEF SetStash
  <2>2. Pausing /\ distribute' = "stash" /\ previous = "broadcast"
    BY <1>5 DEF SetStash, UserInv, UserPhase, Distributing
  <2>3. UserPhase(t)'
    BY <2>1, <2>2, PhaseFrame DEF UserPhase, Pausing
  <2> QED
    BY <2>1, <2>2, <2>3, UserGoesOn
<1>6. CASE CallResume(t, "Flush")
  <2>1. call'[t] = "Flush"
    BY <1>6 DEF CallResume, CallTypes
  <2>2. CASE paused = 0
    BY <1>6, <2>1, <2>2, PhaseFrame, UserGoesOn
    DEF CallResume, streamVars, UserInv, UserPhase, Pausing, Distributing
  <2>3. CASE paused # 0
    <3>1. Goto(t, "restore") /\ UNCHANGED <<streamVars, made, channel, msg, sent, entered, previous, to>>
      BY <1>6, <2>3 DEF CallResume, streamVars
    <3>2. Pausing /\ distribute = "stash"
      BY <1>6, <2>3 DEF CallResume, UserInv, UserPhase
    <3>3. UserPhase(t)'
      BY <3>1, <3>2, PhaseFrame DEF UserPhase, Pausing, streamVars
    <3> QED
      BY <1>6, <2>1, <3>1, <3>3, UserGoesOn DEF CallResume, UserInv
  <2> QED
    BY <2>2, <2>3
<1>7. CASE Restore(t)
  BY <1>7, PhaseFrame, UserGoesOn DEF Restore, UserInv, UserPhase, Pausing, Distributing
<1>8. CASE TakeChannel(t)
  BY <1>8, PhaseFrame, UserGoesOn DEF TakeChannel, UserInv, UserPhase, Pausing, Distributing, CallTypes
<1>9. CASE FlushWait(t)
  <2>1. ~Draining
    <3> SUFFICES ASSUME Draining PROVE FALSE
      OBVIOUS
    <3>1. made \in Channels /\ made \in Resuming
      BY DEF Draining, Resuming, Distributing, FieldTypes, Channels
    <3>2. Cardinality(Resuming) \in Nat /\ Cardinality(Resuming) # 0
      BY <3>1, FS_EmptySet, FS_CardinalityType DEF ResumeInv
    <3> QED
      BY <1>9, <3>2 DEF ResumeInv, FlushWait
  <2>2. Goto(t, "idle") /\ UNCHANGED <<streamVars, made, channel, msg, sent, entered, previous, call>>
    BY <1>9 DEF FlushWait, streamVars
  <2>3. paused = 0 /\ distribute = "broadcast" /\ Stashed = <<>>
    BY <1>9, <2>1 DEF FlushWait, UserInv, UserPhase, Distributing
  <2>4. UserPhase(t)'
    BY <2>1, <2>2, <2>3, PhaseFrame DEF UserPhase, streamVars
  <2> QED
    BY <2>2, <2>4, UserGoesOn DEF UserInv
<1> QED
  BY <1>0, <1>1, <1>2, <1>3, <1>4, <1>5, <1>6, <1>7, <1>8, <1>9, WhoActs, UserEnqueues, UserDistributes,
     UserStashes, UserMakes, UserCloses, LastDistributes, LastRanges

\* Every step keeps the invariant.
LEMMA StreamInvNext == StreamInv /\ [Next]_vars => StreamInv'
<1> SUFFICES ASSUME StreamInv, [Next]_vars PROVE StreamInv'
  OBVIOUS
<1>1. TypeOK' /\ ChannelInv' /\ ResumeInv' /\ PlacesInv'
  BY TypesNext, ChannelInvNext, ResumeInvNext, PlacesInvNext
<1>2. SingleUserInv'
  <2> SUFFICES ASSUME NEW t \in Threads, IsUser(t)' PROVE UserInv(t)'
    BY DEF SingleUserInv
  <2>1. UNCHANGED calls
    BY DEF Next, Continue, vars, streamVars, Enqueue, Distribute, StashRead, StashSend, StashPanics,
           CallPause, PauseMake, SavePrevious, SetStash, CallResume, Restore, TakeChannel, CloseStashed,
           RangeStashed, FlushWait
  <2>2. IsUser(t) /\ UserInv(t)
    BY <2>1 DEF IsUser, StreamInv, SingleUserInv
  <2> QED
    BY <2>2, UserInvNext
<1> QED
  BY <1>1, <1>2 DEF StreamInv

-----------------------------------------------------------------------------
(* What follows *)

\* A set without two different elements has at most one.
LEMMA AtMostOne ==
  ASSUME NEW S, \A x, y \in S : x = y
  PROVE  Cardinality(S) = IF S = {} THEN 0 ELSE 1
<1>1. CASE S = {}
  BY <1>1, FS_EmptySet
<1>2. CASE S # {}
  <2>1. PICK x \in S : TRUE
    BY <1>2
  <2>2. S = {x}
    BY <2>1
  <2> QED
    BY <1>2, <2>2, FS_Singleton
<1> QED
  BY <1>1, <1>2

\* The invariant contains that a message is in one place,
LEMMA OnePlace == StreamInv => MessageIsInOnePlace
<1> SUFFICES ASSUME StreamInv, NEW m \in ToSet(entered)
             PROVE  Cardinality({i \in DOMAIN sent : sent[i] = m})
                    + Cardinality({t \in Sender : msg[t] = m})
                    + Cardinality({n \in Channels : m \in ToSet(channel[n]) /\ pc[n] # "done"}) = 1
  BY DEF MessageIsInOnePlace
<1>. TypeOK /\ ChannelInv /\ PlacesInv /\ MessageTypes /\ ChannelTypes
  BY Types DEF StreamInv, AllTypes
<1> DEFINE Sent == {i \in DOMAIN sent : sent[i] = m}
           Held == {t \in Sender : msg[t] = m}
           In   == {n \in Channels : m \in ToSet(channel[n]) /\ pc[n] # "done"}
<1>1. DOMAIN sent = 1 .. Len(sent) /\ DOMAIN entered = 1 .. Len(entered)
      /\ \A n \in Channels : DOMAIN channel[n] = 1 .. Len(channel[n])
  BY LenProperties DEF MessageTypes, ChannelTypes
<1>2. PICK e \in 1 .. Len(entered) : entered[e] = m
  BY <1>1 DEF ToSet
<1>3. m # NoMessage
  BY <1>2, PlacesAreTyped, StreamAssumption
<1>4. \A n \in Channels : n \in In <=> \E i \in 1 .. Len(channel[n]) : channel[n][i] = m
  <2> SUFFICES ASSUME NEW n \in Channels
               PROVE  n \in In <=> \E i \in 1 .. Len(channel[n]) : channel[n][i] = m
    OBVIOUS
  <2>1. m \in ToSet(channel[n]) <=> \E i \in 1 .. Len(channel[n]) : channel[n][i] = m
    BY <1>1 DEF ToSet
  <2>2. pc[n] = "done" => channel[n] = <<>>
    BY DEF ChannelInv
  <2>3. channel[n] = <<>> => ~\E i \in 1 .. Len(channel[n]) : channel[n][i] = m
    OBVIOUS
  <2> QED
    BY <2>1, <2>2, <2>3
<1>5. \A i, j \in Sent : i = j
  BY <1>1 DEF PlacesInv, DistinctInv
<1>6. \A s, u \in Held : s = u
  BY <1>3 DEF PlacesInv, DistinctInv
<1>7. \A n, k \in In : n = k
  BY <1>4 DEF PlacesInv, DistinctInv
<1>8. Sent = {} \/ Held = {}
  BY <1>1 DEF PlacesInv, DistinctInv
<1>9. (Sent = {} /\ Held = {}) \/ In = {}
  BY <1>1, <1>4 DEF PlacesInv, DistinctInv
<1>10. Sent # {} \/ Held # {} \/ In # {}
  BY <1>1, <1>2, <1>4 DEF PlacesInv, SomewhereInv
<1>11. /\ Cardinality(Sent) = IF Sent = {} THEN 0 ELSE 1
       /\ Cardinality(Held) = IF Held = {} THEN 0 ELSE 1
       /\ Cardinality(In) = IF In = {} THEN 0 ELSE 1
  <2> HIDE DEF Sent, Held, In
  <2> QED
    BY <1>5, <1>6, <1>7, AtMostOne
<1> HIDE DEF Sent, Held, In
<1>12. Cardinality(Sent) + Cardinality(Held) + Cardinality(In) = 1
  BY <1>8, <1>9, <1>10, <1>11
<1> QED
  BY <1>12 DEF Sent, Held, In

\* and for a single user the order and the end of a flush.
LEMMA UserInOrder == StreamInv => SentInOrder /\ NothingStashedAfterFlush
<1> SUFFICES ASSUME StreamInv, SingleUser PROVE SentInOrder /\ NothingStashedAfterFlush
  BY DEF SentInOrder, NothingStashedAfterFlush
<1>. PICK t \in Threads : IsUser(t)
  BY DEF SingleUser, IsUser
<1>. UserInv(t) /\ MessageTypes
  BY Types DEF StreamInv, SingleUserInv, AllTypes
<1>1. /\ Stashed \in Seq(Messages) /\ HeldBy(t) \in Seq(Messages)
      /\ sent \in Seq(Messages) /\ entered \in Seq(Messages)
  BY UserHolds DEF Sender, MessageTypes
<1>2. PICK rest \in Seq(Messages) : entered = sent \o rest
  <2>1. (sent \o Stashed) \o HeldBy(t) = sent \o (Stashed \o HeldBy(t))
    BY <1>1, ConcatAssociative
  <2>2. Stashed \o HeldBy(t) \in Seq(Messages)
    BY <1>1, ConcatProperties
  <2> QED
    BY <2>1, <2>2 DEF UserInv
<1>3. SentInOrder
  <2>1. Len(sent) \in Nat /\ Len(rest) \in Nat /\ Len(entered) = Len(sent) + Len(rest)
    BY <1>1, <1>2, ConcatProperties, LenProperties
  <2>2. Len(sent) \in 0 .. Len(entered)
    BY <2>1
  <2>3. CASE Len(sent) = 0
    <3>1. sent = <<>>
      BY <1>1, <2>3, EmptySeq
    <3>2. SubSeq(entered, 1, 0) = <<>>
      BY SubSeqEmpty
    <3> QED
      BY <2>2, <2>3, <3>1, <3>2 DEF SentInOrder
  <2>4. CASE Len(sent) # 0
    <3>1. 1 \in 1 .. Len(sent) /\ Len(sent) \in 1 .. Len(sent)
      BY <2>1, <2>4
    <3>2. SubSeq(sent \o rest, 1, Len(sent)) = SubSeq(sent, 1, Len(sent))
      BY <1>1, <3>1, SubSeqOfConcat1
    <3>3. SubSeq(sent, 1, Len(sent)) = sent
      BY <1>1, SubSeqFull
    <3> QED
      BY <1>2, <2>2, <3>2, <3>3 DEF SentInOrder
  <2> QED
    BY <2>3, <2>4
<1>4. NothingStashedAfterFlush
  <2> SUFFICES ASSUME NEW u \in Threads, pc[u] = "idle", call[u] = "Flush", paused = 0
               PROVE  Len(sent) = Len(entered)
    BY DEF NothingStashedAfterFlush
  <2>1. u = t
    BY DEF UserInv, OthersRest
  <2>2. Stashed = <<>>
    BY <2>1 DEF UserInv, UserPhase, Pausing
  <2>3. HeldBy(t) = <<>>
    BY <2>1, UserHolds DEF Sender, Distributing
  <2>4. entered = sent
    BY <1>1, <2>2, <2>3, ConcatEmptySeq DEF UserInv
  <2> QED
    BY <2>4
<1> QED
  BY <1>3, <1>4

\* Whoever uses a stream at the same time, and even if one of them panics on a closed channel,
\* Pause and Resume neither lose nor double a message; if a single goroutine does everything
\* and ends its pauses with Flush, the producers get all messages in the order they came in,
\* and nothing is stashed when Flush returns.
THEOREM PausingKeepsMessages == Spec => []StreamInvariant
<1>1. StreamInv => StreamInvariant
  BY OnePlace, UserInOrder DEF StreamInv, StreamInvariant
<1> QED
  BY <1>1, StreamInvInit, StreamInvNext, PTL DEF Spec

-----------------------------------------------------------------------------
(* Waits have an end *)

\* Who is to call Done on the WaitGroup of Resume: goroutines between Add and the start of
\* another one, those that empty a channel; and nobody for those that have panicked.
Owes(s, label) ==
  \/ label = "panicked"
  \/ s \in Threads /\ label \in {"take", "close"}
  \/ s \in Channels /\ label \in {"range"} \cup Distributing
Owing == {s \in Sender : Owes(s, pc[s])}
OwingInv == IsFiniteSet(Owing) /\ resumeWorker <= Cardinality(Owing)

\* Goroutines that go on: the calls of Done that are owed grow with those that are waited for.
LEMMA OwingStep ==
  ASSUME OwingInv, resumeWorker \in Nat, resumeWorker' \in Nat,
         \/ Owing' = Owing /\ resumeWorker' <= resumeWorker
         \/ \E s : Owing' = Owing \cup {s} /\ resumeWorker' <= resumeWorker
         \/ \E s : s \notin Owing /\ Owing' = Owing \cup {s} /\ resumeWorker' <= resumeWorker + 1
         \/ \E s \in Owing : Owing' = Owing \ {s} /\ resumeWorker' = resumeWorker - 1
  PROVE  OwingInv'
<1>1. IsFiniteSet(Owing) /\ Cardinality(Owing) \in Nat /\ resumeWorker <= Cardinality(Owing)
  BY FS_CardinalityType DEF OwingInv
<1>2. CASE Owing' = Owing /\ resumeWorker' <= resumeWorker
  BY <1>1, <1>2 DEF OwingInv
<1>3. ASSUME NEW s, Owing' = Owing \cup {s}, resumeWorker' <= resumeWorker PROVE OwingInv'
  <2>1. IsFiniteSet(Owing') /\ Cardinality(Owing') \in {Cardinality(Owing), Cardinality(Owing) + 1}
    BY <1>1, <1>3, FS_AddElement
  <2> QED
    BY <1>1, <1>3, <2>1 DEF OwingInv
<1>4. ASSUME NEW s, s \notin Owing, Owing' = Owing \cup {s}, resumeWorker' <= resumeWorker + 1 PROVE OwingInv'
  <2>1. IsFiniteSet(Owing') /\ Cardinality(Owing') = Cardinality(Owing) + 1
    BY <1>1, <1>4, FS_AddElement
  <2> QED
    BY <1>1, <1>4, <2>1 DEF OwingInv
<1>5. ASSUME NEW s \in Owing, Owing' = Owing \ {s}, resumeWorker' = resumeWorker - 1 PROVE OwingInv'
  <2>1. IsFiniteSet(Owing') /\ Cardinality(Owing') = Cardinality(Owing) - 1
    BY <1>1, <1>5, FS_RemoveElement
  <2> QED
    BY <1>1, <1>5, <2>1 DEF OwingInv
<1> QED
  BY <1>2, <1>3, <1>4, <1>5

\* A goroutine that goes on without calling Add or Done.
LEMMA OwingFrame ==
  ASSUME TypeOK, OwingInv, NEW t \in Sender, NEW label, Goto(t, label), UNCHANGED resumeWorker,
         Owes(t, pc[t]) => Owes(t, label)
  PROVE  OwingInv'
<1>1. \A s \in Sender : pc'[s] = IF s = t THEN label ELSE pc[s]
  BY Types DEF AllTypes, LabelTypes, Goto
<1>2. resumeWorker \in Nat
  BY Types DEF AllTypes, FieldTypes
<1>3. Owing' = Owing \/ Owing' = Owing \cup {t}
  BY <1>1 DEF Owing
<1> QED
  BY <1>2, <1>3, OwingStep

\* Every step keeps the number of those who are to call Done.
LEMMA OwingInvStep == StreamInv /\ OwingInv /\ [Next]_vars => OwingInv'
<1> SUFFICES ASSUME StreamInv, OwingInv, [Next]_vars PROVE OwingInv'
  OBVIOUS
<1> USE StreamAssumption DEF Sender
<1>. TypeOK /\ LabelTypes /\ FieldTypes /\ ChannelTypes /\ CallTypes /\ ChannelInv
  BY Types DEF AllTypes, StreamInv
<1>a. \A t \in Sender : pc[t] \in {"pause", "savePrevious", "setStash", "restore", "take", "close", "wait"}
        => t \in Threads /\ t \notin Channels
  BY DEF ChannelInv, Distributing
<1>b. TypeOK'
  BY StreamInvNext DEF StreamInv
<1>c. resumeWorker \in Nat /\ resumeWorker' \in Nat
  BY <1>b, Types DEF AllTypes, FieldTypes, TypeOK
<1>0. CASE UNCHANGED <<pc, resumeWorker>>
  <2>1. Owing' = Owing
    BY <1>0 DEF Owing
  <2> QED
    BY <1>0, <2>1 DEF OwingInv
<1>1. ASSUME NEW t \in Sender, NEW m \in Messages, Enqueue(t, m) PROVE OwingInv'
  <2>1. UNCHANGED resumeWorker /\ t \notin Channels /\ pc[t] = "idle"
    BY <1>1 DEF Enqueue, streamVars
  <2>2. UNCHANGED pc \/ Goto(t, "distribute")
    BY <1>1 DEF Enqueue
  <2>3. ~Owes(t, pc[t])
    BY <2>1 DEF Owes, Distributing
  <2> QED
    BY <1>0, <2>1, <2>2, <2>3, OwingFrame
<1>2. ASSUME NEW t \in Sender, Distribute(t) \/ StashSend(t) \/ StashRead(t) \/ StashPanics(t) PROVE OwingInv'
  <2>1. UNCHANGED resumeWorker /\ pc[t] \in Distributing
    BY <1>2 DEF Distribute, StashSend, StashRead, StashPanics, streamVars, Distributing
  <2>2. PICK label : Goto(t, label) /\ (t \in Channels => label \in {"range", "stash", "send", "panicked"})
    BY <1>2 DEF Distribute, StashSend, StashRead, StashPanics, DistributeReturns
  <2>3. Owes(t, pc[t]) => Owes(t, label)
    BY <2>1, <2>2 DEF Owes, Distributing
  <2> QED
    BY <2>1, <2>2, <2>3, OwingFrame
<1>3. ASSUME NEW t \in Sender,
             CallPause(t) \/ PauseMake(t) \/ SavePrevious(t) \/ SetStash(t) \/ FlushWait(t) \/ TakeChannel(t)
      PROVE  OwingInv'
  <2>1. t \in Threads /\ t \notin Channels /\ UNCHANGED resumeWorker
    BY <1>3, <1>a DEF CallPause, PauseMake, SavePrevious, SetStash, FlushWait, TakeChannel, streamVars
  <2>2. PICK label : Goto(t, label) /\ (pc[t] = "take" => label = "close") /\ pc[t] \notin {"close", "panicked"}
    BY <1>3 DEF CallPause, PauseMake, SavePrevious, SetStash, FlushWait, TakeChannel
  <2>3. Owes(t, pc[t]) => Owes(t, label)
    BY <2>1, <2>2 DEF Owes
  <2> QED
    BY <2>1, <2>2, <2>3, OwingFrame
<1>4. ASSUME NEW t \in Sender, NEW c \in {"Resume", "Flush"}, CallResume(t, c) PROVE OwingInv'
  <2>1. t \in Threads /\ t \notin Channels /\ UNCHANGED resumeWorker /\ pc[t] = "idle"
    BY <1>4 DEF CallResume, streamVars
  <2>2. \E label : Goto(t, label)
    BY <1>4 DEF CallResume
  <2>3. ~Owes(t, pc[t])
    BY <2>1 DEF Owes
  <2> QED
    BY <2>1, <2>2, <2>3, OwingFrame
<1>5. ASSUME NEW t \in Sender, Restore(t) PROVE OwingInv'
  <2>1. t \in Threads /\ t \notin Channels /\ resumeWorker' = resumeWorker + 1 /\ pc[t] = "restore"
    BY <1>5, <1>a DEF Restore
  <2>2. \A s \in Sender : pc'[s] = IF s = t THEN "take" ELSE pc[s]
    BY <1>5 DEF Restore, LabelTypes, Goto
  <2>3. Owing' = Owing \cup {t} /\ t \notin Owing
    BY <2>1, <2>2 DEF Owing, Owes
  <2> QED
    BY <1>c, <2>1, <2>3, OwingStep
<1>6. ASSUME NEW t \in Sender, CloseStashed(t) PROVE OwingInv'
  <2>1. t \in Threads /\ t \notin Channels /\ UNCHANGED resumeWorker /\ pc[t] = "close"
    BY <1>6, <1>a DEF CloseStashed
  <2>2. CASE Goto(t, "panicked")
    BY <2>1, <2>2, OwingFrame DEF Owes
  <2>3. CASE to[t] # 0 /\ ~closed[to[t]]
    <3>0. PICK n \in Channels : n = to[t]
      BY <2>3 DEF CallTypes, Channels
    <3>1. pc[n] = "idle" /\ n # t
      BY <2>1, <2>3, <3>0 DEF ChannelInv
    <3>2. /\ \A s \in Sender : s # t /\ s # n => pc'[s] = pc[s]
          /\ pc'[n] = "range" /\ pc'[t] \in {"wait", "idle"}
      BY <1>6, <2>3, <3>0, <3>1 DEF CloseStashed, LabelTypes
    <3>3. Owing' = (Owing \ {t}) \cup {n} /\ n \notin Owing \ {t} /\ t \in Owing
      <4>1. Owes(n, "range") /\ ~Owes(n, "idle") /\ Owes(t, "close") /\ ~Owes(t, "wait") /\ ~Owes(t, "idle")
        BY <2>1, <3>0 DEF Owes, Distributing
      <4> QED
        BY <2>1, <3>0, <3>1, <3>2, <4>1 DEF Owing
    <3>4. IsFiniteSet(Owing \ {t}) /\ Cardinality(Owing \ {t}) = Cardinality(Owing) - 1
      BY <3>3, FS_RemoveElement DEF OwingInv
    <3>5. IsFiniteSet(Owing') /\ Cardinality(Owing') = Cardinality(Owing \ {t}) + 1
      BY <3>3, <3>4, FS_AddElement
    <3>6. Cardinality(Owing) \in Nat
      BY FS_CardinalityType DEF OwingInv
    <3> QED
      BY <2>1, <3>4, <3>5, <3>6 DEF OwingInv
  <2> QED
    BY <1>6, <2>2, <2>3 DEF CloseStashed
<1>7. ASSUME NEW t \in Sender, RangeStashed(t) PROVE OwingInv'
  <2>1. t \in Channels /\ t \notin Threads /\ pc[t] = "range"
    BY <1>7 DEF RangeStashed
  <2>2. CASE Goto(t, "distribute") /\ UNCHANGED resumeWorker
    BY <2>1, <2>2, OwingFrame DEF Owes, Distributing
  <2>3. CASE Goto(t, "done") /\ resumeWorker' = resumeWorker - 1
    <3>1. \A s \in Sender : pc'[s] = IF s = t THEN "done" ELSE pc[s]
      BY <2>3 DEF LabelTypes, Goto
    <3>2. Owing' = Owing \ {t} /\ t \in Owing
      BY <2>1, <3>1 DEF Owing, Owes, Distributing
    <3> QED
      BY <1>c, <2>3, <3>2, OwingStep
  <2> QED
    BY <1>7, <2>2, <2>3 DEF RangeStashed
<1> QED
  BY <1>0, <1>1, <1>2, <1>3, <1>4, <1>5, <1>6, <1>7 DEF Next, Continue, vars, streamVars

\* Nobody is to call Done at first.
LEMMA OwingInvInit == Init => OwingInv
<1> SUFFICES ASSUME Init PROVE OwingInv
  OBVIOUS
<1>1. Owing = {}
  BY DEF Init, Owing, Owes, Sender, Distributing
<1> QED
  BY <1>1, FS_EmptySet DEF Init, OwingInv

\* A single user that is about to pause may: nobody else has made a channel meanwhile.
PauseInv == \A t \in Threads : IsUser(t) /\ pc[t] = "pause" => made < MaxPauses

\* Every step keeps what is known of a pause under way.
LEMMA PauseInvStep == StreamInv /\ PauseInv /\ [Next]_vars => PauseInv'
<1> SUFFICES ASSUME StreamInv, PauseInv, [Next]_vars, NEW t \in Threads, IsUser(t)', pc'[t] = "pause"
             PROVE  made' < MaxPauses
  BY DEF PauseInv
<1> USE StreamAssumption DEF Sender
<1>. LabelTypes
  BY Types DEF StreamInv, AllTypes
<1>1. UNCHANGED calls
  BY DEF Next, Continue, vars, streamVars, Enqueue, Distribute, StashRead, StashSend, StashPanics,
         CallPause, PauseMake, SavePrevious, SetStash, CallResume, Restore, TakeChannel, CloseStashed,
         RangeStashed, FlushWait
<1>2. IsUser(t) /\ UserInv(t)
  BY <1>1 DEF IsUser, StreamInv, SingleUserInv
<1>3. \A u \in Sender : ~(PauseMake(u))
  <2> SUFFICES ASSUME NEW u \in Sender, PauseMake(u) PROVE FALSE
    OBVIOUS
  <2>1. pc[u] = "pause"
    BY DEF PauseMake
  <2>2. u = t
    BY <1>2, <2>1 DEF UserInv, OthersRest
  <2> QED
    BY <2>2 DEF PauseMake, Goto, LabelTypes
<1>4. made' = made
  BY <1>3 DEF Next, Continue, vars, streamVars, Enqueue, Distribute, StashRead, StashSend, StashPanics,
         CallPause, SavePrevious, SetStash, CallResume, Restore, TakeChannel, CloseStashed,
         RangeStashed, FlushWait
<1>5. pc[t] = "pause" \/ \E u \in Sender : CallPause(u)
  <2> SUFFICES ASSUME pc[t] # "pause", \A u \in Sender : ~CallPause(u) PROVE FALSE
    OBVIOUS
  <2>1. PICK u \in Sender : \/ Continue(u)
                            \/ \E m \in Messages : Enqueue(u, m)
                            \/ \E c \in {"Resume", "Flush"} : CallResume(u, c)
    BY DEF Next, vars
  <2>2. CASE CloseStashed(u)
    BY <2>2 DEF CloseStashed, Goto, LabelTypes
  <2>3. CASE ~CloseStashed(u)
    <3>1. pc' = pc \/ \E label : label # "pause" /\ Goto(u, label)
      BY <1>3, <2>1, <2>3
      DEF Continue, Enqueue, Distribute, StashRead, StashSend, StashPanics, DistributeReturns,
          SavePrevious, SetStash, CallResume, Restore, TakeChannel, RangeStashed, FlushWait
    <3> QED
      BY <3>1 DEF Goto, LabelTypes
  <2> QED
    BY <2>2, <2>3
<1> QED
  BY <1>2, <1>4, <1>5 DEF PauseInv, CallPause

\* The guard of Continue: who can go on with the method it is in.
GoesOn(s) ==
  \/ pc[s] \in {"distribute", "stash", "savePrevious", "setStash", "restore", "take", "close", "range"}
  \/ pc[s] = "send" /\ to[s] # 0 /\ (closed[to[s]] \/ Len(channel[to[s]]) < Capacity)
  \/ pc[s] = "pause" /\ made < MaxPauses
  \/ pc[s] = "wait" /\ resumeWorker = 0

\* Flush waits only for goroutines that are still to call Done, or have panicked.  A single
\* user never panics, and when nobody can go on, it stands before the full channel of its own
\* pause, or is out of all methods with every message sent, except for those it has paused.
WaitsHaveAnEnd ==
  /\ resumeWorker > 0 => \E s \in Sender : Owes(s, pc[s])
  /\ \A t \in Threads : IsUser(t) =>
       /\ \A s \in Sender : pc[s] # "panicked"
       /\ (\A s \in Sender : ~GoesOn(s)) =>
            \/ Blocked(t) /\ paused = to[t]
            \/ pc[t] = "idle" /\ resumeWorker = 0 /\ (paused = 0 => sent = entered)

\* The only wait without an end of a single user is the one for the Flush it has to call itself
\* (Pause, stash, Resume and Flush in core/stream.go).
THEOREM FlushComesToAnEnd == Spec => []WaitsHaveAnEnd
<1>1. StreamInv /\ OwingInv /\ PauseInv => WaitsHaveAnEnd
  <2> SUFFICES ASSUME StreamInv, OwingInv, PauseInv PROVE WaitsHaveAnEnd
    OBVIOUS
  <2> USE StreamAssumption DEF Sender
  <2>0. FieldTypes /\ ChannelTypes /\ LabelTypes /\ ChannelInv
    BY Types DEF StreamInv, AllTypes
  <2>1. resumeWorker # 0 => \E s \in Sender : Owes(s, pc[s])
    <3>1. Owing = {} => Cardinality(Owing) = 0
      BY FS_EmptySet
    <3> QED
      BY <2>0, <3>1 DEF OwingInv, FieldTypes, Owing
  <2>2. ASSUME NEW t \in Threads, IsUser(t)
        PROVE  /\ \A s \in Sender : pc[s] # "panicked"
               /\ (\A s \in Sender : ~GoesOn(s)) =>
                    \/ Blocked(t) /\ paused = to[t]
                    \/ pc[t] = "idle" /\ resumeWorker = 0 /\ (paused = 0 => sent = entered)
    <3>1. UserInv(t)
      BY <2>2 DEF StreamInv, SingleUserInv
    <3>2. \A s \in Sender : pc[s] # "panicked"
      BY <3>1 DEF UserInv, OthersRest, UserPhase, Distributing
    <3>3. ASSUME \A s \in Sender : ~GoesOn(s)
          PROVE  \/ Blocked(t) /\ paused = to[t]
                 \/ pc[t] = "idle" /\ resumeWorker = 0 /\ (paused = 0 => sent = entered)
      <4>1. \A n \in Channels : pc[n] \in {"idle", "done"}
        BY <3>1, <3>3 DEF UserInv, OthersRest, GoesOn
      <4>2. \A u \in Threads : u # t => pc[u] = "idle"
        BY <3>1 DEF UserInv, OthersRest
      <4>3. pc[t] \in {"idle", "send", "wait"}
        <5>1. ~GoesOn(t)
          BY <3>3
        <5>2. pc[t] = "pause" => made < MaxPauses
          BY <2>2 DEF PauseInv
        <5>3. UserPhase(t)
          BY <3>1 DEF UserInv
        <5> QED
          BY <5>1, <5>2, <5>3 DEF GoesOn, UserPhase, Distributing
      <4>4. resumeWorker = 0
        <5>1. \A s \in Sender : ~Owes(s, pc[s])
          BY <4>1, <4>2, <4>3 DEF Owes, Distributing
        <5> QED
          BY <2>1, <5>1
      <4>5. CASE pc[t] = "send"
        <5>1. Pausing /\ to[t] = made
          BY <3>1, <4>5 DEF UserInv, UserPhase, Distributing
        <5>2. to[t] # 0 /\ to[t] \in Channels /\ paused = to[t] /\ ~closed[to[t]]
          BY <2>0, <5>1 DEF Pausing, FieldTypes, Channels, ChannelInv
        <5>3. Len(channel[to[t]]) <= Capacity /\ Len(channel[to[t]]) \in Nat /\ ~(Len(channel[to[t]]) < Capacity)
          BY <2>0, <3>3, <4>5, <5>2 DEF ChannelTypes, GoesOn
        <5>4. Len(channel[to[t]]) = Capacity
          BY <5>3
        <5> QED
          BY <4>5, <5>2, <5>4 DEF Blocked
      <4>6. CASE pc[t] = "idle"
        <5>1. ASSUME paused = 0 PROVE sent = entered
          <6>1. Stashed = <<>>
            BY <3>1, <4>6, <5>1 DEF UserInv, UserPhase, Pausing
          <6>2. HeldBy(t) = <<>> /\ sent \in Seq(Messages)
            BY <3>1, <4>6, UserHolds, Types DEF Distributing, StreamInv, AllTypes, MessageTypes
          <6> QED
            BY <3>1, <6>1, <6>2, ConcatEmptySeq DEF UserInv
        <5> QED
          BY <4>4, <4>6, <5>1
      <4>7. CASE pc[t] = "wait"
        BY <3>3, <4>4, <4>7 DEF GoesOn
      <4> QED
        BY <4>3, <4>5, <4>6, <4>7
    <3> QED
      BY <3>2, <3>3
  <2> QED
    BY <2>0, <2>1, <2>2 DEF WaitsHaveAnEnd, FieldTypes
<1>2. Init => PauseInv
  BY DEF Init, PauseInv, Sender
<1> QED
  BY <1>1, <1>2, StreamInvInit, StreamInvNext, OwingInvInit, OwingInvStep, PauseInvStep, PTL DEF Spec
=============================================================================
