------------------------- MODULE MessageBatchProofs -------------------------
(***************************************************************************)
(* Proofs about MessageBatch, for any number of goroutines and messages,   *)
(* any buffer length and any number of panics and tickets: flushes exclude *)
(* each other, a flush waits for every writer, no accepted message is lost *)
(* or assembled twice, and a batch implements what Batch promises.         *)
(***************************************************************************)
EXTENDS MessageBatch, TLAPS, FiniteSetTheorems

\* What the flush lock rests on: the variables have their types and the WaitGroup
\* counts the one goroutine that is between IncWhenDone and Done.
FlushInv == TypeOK /\ OneFlushAtATime

\* Nobody flushes at first.
LEMMA FlushInvInit == Init => FlushInv
<1> SUFFICES ASSUME Init PROVE FlushInv
  OBVIOUS
<1> USE BatchAssumption DEF Init, NoSet, NoAsync
<1>1. VariablesOK
  BY DEF VariablesOK, Sets, Labels, BatchCalls, AppendCalls, Buffers
<1>2. \A t \in Threads : LocalsOK(t)
  BY DEF LocalsOK
<1>3. OneFlushAtATime
  BY DEF OneFlushAtATime, HoldsFlush
<1> QED
  BY <1>1, <1>2, <1>3 DEF FlushInv, TypeOK

-----------------------------------------------------------------------------
(* Frames: what a step of goroutine t leaves alone *)

Others(t) == Threads \ {t}

OthersUnchanged(t) ==
  \A u \in Others(t) : pc'[u] = pc[u] /\ call'[u] = call[u] /\ msg'[u] = msg[u]

\* A step of t that keeps the types and neither takes nor releases the flush lock.
OutsideLock(t) ==
  /\ VariablesOK' /\ LocalsOK(t)'
  /\ UNCHANGED <<flushing, async>>
  /\ HoldsFlush(t)' <=> HoldsFlush(t)
  /\ OthersUnchanged(t)

\* A step moves one goroutine; the locals of the others stay as they are.
LEMMA LocalsFrame ==
  ASSUME TypeOK, NEW t \in Threads, LocalsOK(t)', OthersUnchanged(t)
  PROVE  \A u \in Threads : LocalsOK(u)'
BY DEF TypeOK, LocalsOK, Others, OthersUnchanged

\* A step outside the lock preserves the types and the lock.
LEMMA LockFrame ==
  ASSUME FlushInv, NEW t \in Threads, OutsideLock(t)
  PROVE  FlushInv'
<1>1. \A u \in Threads : HoldsFlush(u)' <=> HoldsFlush(u)
  BY DEF HoldsFlush, Others, OthersUnchanged, OutsideLock
<1>2. OneFlushAtATime'
  BY <1>1 DEF OneFlushAtATime, OutsideLock, FlushInv
<1>3. \A u \in Threads : LocalsOK(u)'
  BY LocalsFrame DEF FlushInv, OutsideLock
<1> QED
  BY <1>2, <1>3 DEF FlushInv, TypeOK, OutsideLock

\* The append methods never touch the flush lock.
LEMMA AppendStep ==
  ASSUME FlushInv, NEW t \in Threads,
         \/ \E c \in AppendCalls, m \in Messages : CallAppend(t, c, m)
         \/ AppendIsClosed(t) \/ AppendTicket(t) \/ AppendWrite(t) \/ AppendDone(t)
         \/ BlockLoop(t) \/ CanBlock(t)
  PROVE  FlushInv'
<1> SUFFICES OutsideLock(t)
  BY LockFrame
<1> USE BatchAssumption DEF sharedVars, historyVars, Goto, OutsideLock
<1>0. LocalsOK(t) /\ VariablesOK
  BY DEF FlushInv, TypeOK
<1>1. ASSUME NEW c \in AppendCalls, NEW m \in Messages, CallAppend(t, c, m) PROVE OutsideLock(t)
  <2> USE <1>0, <1>1 DEF CallAppend
  <2>1. VariablesOK'
    BY DEF VariablesOK, Labels, BatchCalls, AppendCalls, LocalsOK
  <2>2. LocalsOK(t)' /\ OthersUnchanged(t)
    BY DEF VariablesOK, LocalsOK, AppendCalls, FlushingCalls, Others, OthersUnchanged
  <2>3. HoldsFlush(t)' <=> HoldsFlush(t)
    BY DEF VariablesOK, HoldsFlush
  <2> QED
    BY <2>1, <2>2, <2>3
<1>2. CASE AppendIsClosed(t)
  <2> USE <1>0, <1>2 DEF AppendIsClosed, AppendFailed, Reject
  <2>1. VariablesOK'
    BY DEF VariablesOK, Labels, BatchCalls, AppendCalls, LocalsOK
  <2>2. LocalsOK(t)' /\ OthersUnchanged(t)
    BY DEF VariablesOK, LocalsOK, AppendCalls, FlushingCalls, Others, OthersUnchanged
  <2>3. HoldsFlush(t)' <=> HoldsFlush(t)
    BY DEF VariablesOK, HoldsFlush
  <2> QED
    BY <2>1, <2>2, <2>3
<1>3. CASE AppendTicket(t)
  <2> USE <1>0, <1>3 DEF AppendTicket
  <2>0. activeSet' \in Sets
    BY DEF Increment, Buffers, Sets, VariablesOK
  <2>1. VariablesOK'
    BY <2>0 DEF VariablesOK, Labels
  <2>2. LocalsOK(t)' /\ OthersUnchanged(t)
    BY DEF VariablesOK, LocalsOK, AppendCalls, FlushingCalls, Others, OthersUnchanged
  <2>3. HoldsFlush(t)' <=> HoldsFlush(t)
    BY DEF VariablesOK, HoldsFlush
  <2> QED
    BY <2>1, <2>2, <2>3
<1>4. CASE AppendWrite(t)
  <2> USE <1>0, <1>4 DEF AppendWrite
  <2>0. messages' \in [Buffers -> [Slots -> Messages \cup {NoMessage}]]
    <3>1. CASE Fits(set[t])
      <4>1. set[t].idx \in Buffers /\ set[t].count - 1 \in Slots
        BY <3>1 DEF Fits, Slots, VariablesOK, Sets
      <4>2. msg[t] \in Messages \cup {NoMessage}
        BY DEF VariablesOK
      <4>3. messages' = [messages EXCEPT ![set[t].idx][set[t].count - 1] = msg[t]]
        BY <3>1
      <4>4. messages \in [Buffers -> [Slots -> Messages \cup {NoMessage}]]
        BY DEF VariablesOK
      <4>5. ASSUME NEW b \in Buffers, NEW i \in Slots, NEW m \in Messages \cup {NoMessage}
            PROVE  [messages EXCEPT ![b][i] = m] \in [Buffers -> [Slots -> Messages \cup {NoMessage}]]
        BY ONLY <4>4, <4>5
      <4> QED
        BY ONLY <4>1, <4>2, <4>3, <4>5
    <3>2. CASE ~Fits(set[t])
      BY <3>2 DEF VariablesOK
    <3> QED
      BY <3>1, <3>2
  <2>1. VariablesOK'
    BY <2>0 DEF VariablesOK, Labels, LocalsOK, AppendCalls
  <2>2. LocalsOK(t)' /\ OthersUnchanged(t)
    BY DEF VariablesOK, LocalsOK, AppendCalls, FlushingCalls, Others, OthersUnchanged
  <2>3. HoldsFlush(t)' <=> HoldsFlush(t)
    BY DEF VariablesOK, HoldsFlush
  <2> QED
    BY <2>1, <2>2, <2>3
<1>5. CASE AppendDone(t)
  <2> USE <1>0, <1>5 DEF AppendDone, AppendFailed, Reject
  <2>0. doneCount' \in [Buffers -> Nat]
    BY DEF VariablesOK, Sets
  <2>1. VariablesOK'
    BY <2>0 DEF VariablesOK, Labels, LocalsOK, AppendCalls
  <2>2. LocalsOK(t)' /\ OthersUnchanged(t)
    BY DEF VariablesOK, LocalsOK, AppendCalls, FlushingCalls, Others, OthersUnchanged
  <2>3. HoldsFlush(t)' <=> HoldsFlush(t)
    BY DEF VariablesOK, HoldsFlush
  <2> QED
    BY <2>1, <2>2, <2>3
<1>6. CASE BlockLoop(t)
  <2> USE <1>0, <1>6 DEF BlockLoop, Reject
  <2>1. VariablesOK'
    BY DEF VariablesOK, Labels, BatchCalls, AppendCalls, LocalsOK
  <2>2. LocalsOK(t)' /\ OthersUnchanged(t)
    BY DEF VariablesOK, LocalsOK, AppendCalls, FlushingCalls, Others, OthersUnchanged
  <2>3. HoldsFlush(t)' <=> HoldsFlush(t)
    BY DEF VariablesOK, HoldsFlush
  <2> QED
    BY <2>1, <2>2, <2>3
<1>7. CASE CanBlock(t)
  <2> USE <1>0, <1>7 DEF CanBlock, Reject
  <2>1. VariablesOK'
    BY DEF VariablesOK, Labels, BatchCalls, AppendCalls, LocalsOK
  <2>2. LocalsOK(t)' /\ OthersUnchanged(t)
    BY DEF VariablesOK, LocalsOK, AppendCalls, FlushingCalls, Others, OthersUnchanged
  <2>3. HoldsFlush(t)' <=> HoldsFlush(t)
    BY DEF VariablesOK, HoldsFlush
  <2> QED
    BY <2>1, <2>2, <2>3
<1> QED
  BY <1>1, <1>2, <1>3, <1>4, <1>5, <1>6, <1>7

\* The steps of Flush, Close and AfterFlushDo before they take the flush lock, those
\* between the lock and the wait for the writers, and the end of Close.
LEMMA FlushStep ==
  ASSUME FlushInv, NEW t \in Threads,
         \/ CallFlush(t) \/ CallClose(t) \/ CallAfterFlushDo(t) \/ FlushIsEmpty(t)
         \/ FlushLoad(t) \/ FlushSwap(t) \/ WaitForFlush(t)
  PROVE  FlushInv'
<1> SUFFICES OutsideLock(t)
  BY LockFrame
<1> USE BatchAssumption DEF sharedVars, historyVars, Goto, OutsideLock
<1>0. LocalsOK(t) /\ VariablesOK
  BY DEF FlushInv, TypeOK
<1>1. CASE CallFlush(t)
  <2> USE <1>0, <1>1 DEF CallFlush
  <2>1. VariablesOK'
    BY DEF VariablesOK, Labels, BatchCalls
  <2>2. LocalsOK(t)' /\ OthersUnchanged(t)
    BY DEF VariablesOK, LocalsOK, AppendCalls, FlushingCalls, Others, OthersUnchanged
  <2>3. HoldsFlush(t)' <=> HoldsFlush(t)
    BY DEF VariablesOK, HoldsFlush, LocalsOK, FlushingCalls
  <2> QED
    BY <2>1, <2>2, <2>3
<1>2. CASE CallClose(t)
  <2> USE <1>0, <1>2 DEF CallClose
  <2>0. late' \subseteq Messages \cup {NoMessage}
    BY DEF VariablesOK
  <2>1. VariablesOK'
    BY <2>0 DEF VariablesOK, Labels, BatchCalls
  <2>2. LocalsOK(t)' /\ OthersUnchanged(t)
    BY DEF VariablesOK, LocalsOK, AppendCalls, FlushingCalls, Others, OthersUnchanged
  <2>3. HoldsFlush(t)' <=> HoldsFlush(t)
    BY DEF VariablesOK, HoldsFlush, LocalsOK, FlushingCalls
  <2> QED
    BY <2>1, <2>2, <2>3
<1>3. CASE CallAfterFlushDo(t)
  <2> USE <1>0, <1>3 DEF CallAfterFlushDo
  <2>1. VariablesOK'
    BY DEF VariablesOK, Labels, BatchCalls
  <2>2. LocalsOK(t)' /\ OthersUnchanged(t)
    BY DEF VariablesOK, LocalsOK, AppendCalls, FlushingCalls, Others, OthersUnchanged
  <2>3. HoldsFlush(t)' <=> HoldsFlush(t)
    BY DEF VariablesOK, HoldsFlush, LocalsOK, FlushingCalls
  <2> QED
    BY <2>1, <2>2, <2>3
<1>4. CASE FlushIsEmpty(t)
  <2> USE <1>0, <1>4 DEF FlushIsEmpty, FlushReturns
  <2>0. pc' \in [Threads -> Labels]
    BY DEF VariablesOK, Labels, BatchCalls, LocalsOK, FlushingCalls
  <2>1. VariablesOK'
    BY ONLY <1>0, <1>4, <2>0 DEF FlushIsEmpty, sharedVars, historyVars, VariablesOK
  <2>2. LocalsOK(t)' /\ OthersUnchanged(t)
    BY DEF VariablesOK, LocalsOK, AppendCalls, FlushingCalls, Others, OthersUnchanged
  <2>3. HoldsFlush(t)' <=> HoldsFlush(t)
    BY DEF VariablesOK, HoldsFlush, LocalsOK, FlushingCalls
  <2> QED
    BY <2>1, <2>2, <2>3
<1>5. CASE FlushLoad(t)
  <2> USE <1>0, <1>5 DEF FlushLoad
  <2>1. VariablesOK'
    BY DEF VariablesOK, Labels, BatchCalls
  <2>2. LocalsOK(t)' /\ OthersUnchanged(t)
    BY DEF VariablesOK, LocalsOK, AppendCalls, FlushingCalls, Others, OthersUnchanged
  <2>3. HoldsFlush(t)' <=> HoldsFlush(t)
    BY DEF VariablesOK, HoldsFlush, LocalsOK, FlushingCalls
  <2> QED
    BY <2>1, <2>2, <2>3
<1>6. CASE FlushSwap(t)
  <2> USE <1>0, <1>6 DEF FlushSwap
  <2>0. activeSet' \in Sets
    BY DEF VariablesOK, Sets, Buffers
  <2>1. VariablesOK'
    BY <2>0 DEF VariablesOK, Labels
  <2>2. LocalsOK(t)' /\ OthersUnchanged(t)
    BY DEF VariablesOK, LocalsOK, AppendCalls, FlushingCalls, Others, OthersUnchanged
  <2>3. HoldsFlush(t)' <=> HoldsFlush(t)
    BY DEF VariablesOK, HoldsFlush, LocalsOK, FlushingCalls
  <2> QED
    BY <2>1, <2>2, <2>3
<1>7. CASE WaitForFlush(t)
  <2> USE <1>0, <1>7 DEF WaitForFlush
  <2>1. VariablesOK'
    BY DEF VariablesOK, Labels, BatchCalls
  <2>2. LocalsOK(t)' /\ OthersUnchanged(t)
    BY DEF VariablesOK, LocalsOK, AppendCalls, FlushingCalls, Others, OthersUnchanged
  <2>3. HoldsFlush(t)' <=> HoldsFlush(t)
    BY DEF VariablesOK, HoldsFlush, LocalsOK, FlushingCalls
  <2> QED
    BY <2>1, <2>2, <2>3
<1> QED
  BY <1>1, <1>2, <1>3, <1>4, <1>5, <1>6, <1>7

\* Counters stay natural numbers when one of them is incremented or reset, whatever
\* the index.
LEMMA CounterOfNat ==
  ASSUME NEW S, NEW f \in [S -> Nat], NEW x
  PROVE  /\ [f EXCEPT ![x] = @ + 1] \in [S -> Nat]
         /\ [f EXCEPT ![x] = 0] \in [S -> Nat]
<1>1. CASE x \in S
  BY <1>1
<1>2. CASE x \notin S
  <2>1. [f EXCEPT ![x] = @ + 1] = f /\ [f EXCEPT ![x] = 0] = f
    BY <1>2
  <2> QED
    BY <2>1
<1> QED
  BY <1>1, <1>2

\* IncWhenDone takes the lock only when nobody holds it, Flush passes it on to the
\* goroutine it spawns, and every path through that goroutine gives it back.
LEMMA LockStep ==
  ASSUME FlushInv, NEW t \in Threads,
         \/ IncWhenDone(t) \/ FlushSpin(t) \/ AfterFlushDone(t)
         \/ AssembleMessage(t) \/ AssemblePanics(t) \/ AssembleReturns(t) \/ FlushingDone(t)
  PROVE  FlushInv'
<1> SUFFICES VariablesOK' /\ LocalsOK(t)' /\ OthersUnchanged(t) /\ OneFlushAtATime'
  BY LocalsFrame DEF FlushInv, TypeOK
<1> USE BatchAssumption DEF sharedVars, historyVars, Goto
<1>0. LocalsOK(t) /\ VariablesOK /\ OneFlushAtATime
  BY DEF FlushInv, TypeOK
<1>1. CASE IncWhenDone(t)
  <2> USE <1>0, <1>1 DEF IncWhenDone
  <2>1. VariablesOK'
    BY DEF VariablesOK, Labels, LocalsOK, FlushingCalls, OneFlushAtATime, HoldsFlush
  <2>2. LocalsOK(t)' /\ OthersUnchanged(t)
    BY DEF VariablesOK, LocalsOK, AppendCalls, FlushingCalls, Others, OthersUnchanged
  <2>3. OneFlushAtATime'
    BY DEF VariablesOK, OneFlushAtATime, HoldsFlush, LocalsOK, FlushingCalls, NoAsync
  <2> QED
    BY <2>1, <2>2, <2>3
<1>2. CASE FlushSpin(t)
  <2> USE <1>0, <1>2 DEF FlushSpin, FlushReturns
  <2>1. VariablesOK'
    BY DEF VariablesOK, Labels, LocalsOK, FlushingCalls, OneFlushAtATime, HoldsFlush
  <2>2. LocalsOK(t)' /\ OthersUnchanged(t)
    BY DEF VariablesOK, LocalsOK, AppendCalls, FlushingCalls, Others, OthersUnchanged
  <2>3. OneFlushAtATime'
    BY DEF VariablesOK, OneFlushAtATime, HoldsFlush, LocalsOK, FlushingCalls, NoAsync
  <2> QED
    BY <2>1, <2>2, <2>3
<1>3. CASE AfterFlushDone(t)
  <2> USE <1>0, <1>3 DEF AfterFlushDone
  <2>1. VariablesOK'
    BY DEF VariablesOK, Labels, LocalsOK, FlushingCalls, OneFlushAtATime, HoldsFlush
  <2>2. LocalsOK(t)' /\ OthersUnchanged(t)
    BY DEF VariablesOK, LocalsOK, AppendCalls, FlushingCalls, Others, OthersUnchanged
  <2>3. OneFlushAtATime'
    BY DEF VariablesOK, OneFlushAtATime, HoldsFlush, LocalsOK, FlushingCalls, NoAsync
  <2> QED
    BY <2>1, <2>2, <2>3
<1>4. CASE AssembleMessage(t)
  <2> USE <1>0, <1>4 DEF AssembleMessage
  <2>0. assembled' \in [Messages \cup {NoMessage} -> Nat]
    <3>1. assembled \in [Messages \cup {NoMessage} -> Nat]
      BY DEF VariablesOK
    <3> DEFINE slot == messages[async[t].set.idx][async[t].pos]
    <3>3. assembled' = [assembled EXCEPT ![slot] = @ + 1]
      BY ONLY <1>4 DEF AssembleMessage
    <3> HIDE DEF slot
    <3> QED
      BY ONLY <3>1, <3>3, CounterOfNat
  <2>1. async' \in [Threads -> [pc : {"none", "assemble", "done"}, set : Sets, pos : Nat]]
    BY DEF VariablesOK
  <2>2. VariablesOK'
    BY ONLY <1>0, <1>4, <2>0, <2>1 DEF AssembleMessage, sharedVars, historyVars, VariablesOK
  <2>3. LocalsOK(t)' /\ OthersUnchanged(t)
    BY DEF VariablesOK, LocalsOK, AppendCalls, FlushingCalls, Others, OthersUnchanged
  <2>4. OneFlushAtATime'
    BY DEF VariablesOK, OneFlushAtATime, HoldsFlush, LocalsOK, FlushingCalls, NoAsync
  <2> QED
    BY <2>2, <2>3, <2>4
<1>5. CASE AssemblePanics(t)
  <2> USE <1>0, <1>5 DEF AssemblePanics
  <2>1. VariablesOK'
    BY DEF VariablesOK, Labels, LocalsOK, FlushingCalls, OneFlushAtATime, HoldsFlush
  <2>2. LocalsOK(t)' /\ OthersUnchanged(t)
    BY DEF VariablesOK, LocalsOK, AppendCalls, FlushingCalls, Others, OthersUnchanged
  <2>3. OneFlushAtATime'
    BY DEF VariablesOK, OneFlushAtATime, HoldsFlush, LocalsOK, FlushingCalls, NoAsync
  <2> QED
    BY <2>1, <2>2, <2>3
<1>6. CASE AssembleReturns(t)
  <2> USE <1>0, <1>6 DEF AssembleReturns
  <2>0. doneCount' \in [Buffers -> Nat]
    <3>1. doneCount \in [Buffers -> Nat]
      BY DEF VariablesOK
    <3> QED
      BY ONLY <3>1, <1>6, CounterOfNat DEF AssembleReturns
  <2>1. VariablesOK'
    <3>1. async' \in [Threads -> [pc : {"none", "assemble", "done"}, set : Sets, pos : Nat]]
      BY DEF VariablesOK
    <3> QED
      BY <2>0, <3>1 DEF VariablesOK, historyVars
  <2>2. LocalsOK(t)' /\ OthersUnchanged(t)
    <3>1. UNCHANGED <<pc, call, msg>> /\ LocalsOK(t)
      OBVIOUS
    <3> QED
      BY ONLY <3>1 DEF LocalsOK, OthersUnchanged
  <2>3. OneFlushAtATime'
    BY DEF VariablesOK, OneFlushAtATime, HoldsFlush, LocalsOK, FlushingCalls, NoAsync
  <2> QED
    BY <2>1, <2>2, <2>3
<1>7. CASE FlushingDone(t)
  <2> USE <1>0, <1>7 DEF FlushingDone
  <2>1. VariablesOK'
    BY DEF VariablesOK, OneFlushAtATime, HoldsFlush, NoAsync, NoSet, Sets, Buffers
  <2>2. LocalsOK(t)' /\ OthersUnchanged(t)
    BY DEF VariablesOK, LocalsOK, AppendCalls, FlushingCalls, Others, OthersUnchanged
  <2>3. OneFlushAtATime'
    BY DEF VariablesOK, OneFlushAtATime, HoldsFlush, LocalsOK, FlushingCalls, NoAsync
  <2> QED
    BY <2>1, <2>2, <2>3
<1> QED
  BY <1>1, <1>2, <1>3, <1>4, <1>5, <1>6, <1>7

\* Every step keeps the lock of the flushes.
LEMMA FlushInvStep == FlushInv /\ [Next]_vars => FlushInv'
<1> SUFFICES ASSUME FlushInv, [Next]_vars PROVE FlushInv'
  OBVIOUS
<1>1. CASE Next
  BY <1>1, AppendStep, FlushStep, LockStep DEF Next, Continue, Assemble
<1>2. CASE UNCHANGED vars
  BY <1>2 DEF vars, sharedVars, historyVars, FlushInv, TypeOK, VariablesOK, LocalsOK,
              OneFlushAtATime, HoldsFlush
<1> QED
  BY <1>1, <1>2

\* The variables keep their types, the flush counter among them: it never goes
\* negative, which WaitGroup would silently allow.
THEOREM TypeCorrect == Spec => []TypeOK
<1>1. FlushInv => TypeOK
  BY DEF FlushInv
<1> QED
  BY <1>1, FlushInvInit, FlushInvStep, PTL DEF Spec

\* "Only one flush at a time", for any number of goroutines calling Flush, Close,
\* AppendOrFlush and AfterFlushDo, panicking callbacks included.
THEOREM FlushIsExclusive == Spec => []OneFlushAtATime
<1>1. FlushInv => OneFlushAtATime
  BY DEF FlushInv
<1> QED
  BY <1>1, FlushInvInit, FlushInvStep, PTL DEF Spec

-----------------------------------------------------------------------------
(* Tickets: what doneCount counts *)

\* Goroutines that hold a ticket of buffer b and have not counted it done.
Busy(b) == {t \in Threads : pc[t] \in {"write", "done"} /\ set[t].idx = b}

\* n tickets of buffer b were handed out: each is done, or with a goroutine.
TicketsAre(b, n) == IsFiniteSet(Busy(b)) /\ doneCount[b] + Cardinality(Busy(b)) = n

Idle == \A t \in Threads : pc[t] # "spin" /\ async[t].pc # "assemble"

\* The buffer that is not active is waited for, or assembled when nobody is busy with it, or
\* unused; the tickets of both are accounted for.
TicketInv ==
  panics = 0 =>
    /\ \A t \in Threads : pc[t] = "swap" => set[t].idx = activeSet.idx
    /\ \A b \in Buffers, n \in Nat :
         /\ activeSet.idx = b /\ activeSet.count = n => TicketsAre(b, n)
         /\ \A t \in Threads : pc[t] = "spin" /\ set[t].idx = b /\ set[t].count = n =>
              activeSet.idx # b /\ TicketsAre(b, n)
         /\ \A t \in Threads : async[t].pc = "assemble" /\ async[t].set.idx = b =>
              activeSet.idx # b /\ Busy(b) = {}
         /\ Idle /\ activeSet.idx # b => TicketsAre(b, 0)

-----------------------------------------------------------------------------
(* Contents: what is in the slots *)

\* A goroutine is about to write slot i of buffer b.
Writing(b, i) == \E t \in Threads : pc[t] = "write" /\ set[t].idx = b /\ set[t].count = i + 1

\* A slot with a message that some flush will assemble.
Filled(b, i) == WillBeFlushed(b, i) /\ ~Writing(b, i)

\* An append method has a message it has not accepted.
Holding(t) == pc[t] # "idle" /\ call[t] \in AppendCalls /\ ~(pc[t] = "done" /\ Fits(set[t]))

\* Tickets that are not written yet are different, and of slots that will be flushed.
WritersInv ==
  /\ \A t \in Threads, b \in Buffers, n \in Nat :
       pc[t] = "write" /\ set[t].idx = b /\ set[t].count = n => n > 0 /\ WillBeFlushed(b, n - 1)
  /\ \A t, u \in Threads : pc[t] = "write" /\ pc[u] = "write" /\ set[t] = set[u] => t = u

\* A message that is held is nowhere else.
HoldersInv ==
  /\ accepted \cap fresh = {}
  /\ \A t \in Threads : Holding(t) => msg[t] \notin accepted /\ msg[t] \notin fresh
  /\ \A t, u \in Threads : Holding(t) /\ Holding(u) /\ msg[t] = msg[u] => t = u

\* An accepted message is in one slot until it is assembled.
SlotsInv ==
  /\ \A b \in Buffers, i \in Slots : Filled(b, i) =>
       messages[b][i] \in accepted /\ assembled[messages[b][i]] = 0
  /\ \A b, c \in Buffers : \A i, j \in Slots :
       Filled(b, i) /\ Filled(c, j) /\ messages[b][i] = messages[c][j] => b = c /\ i = j
  /\ \A m \in accepted :
       assembled[m] = 1 \/ \E b \in Buffers, i \in Slots : Filled(b, i) /\ messages[b][i] = m
  /\ \A m \in (Messages \cup {NoMessage}) \ accepted : assembled[m] = 0

ContentsInv == panics = 0 => WritersInv /\ HoldersInv /\ SlotsInv
-----------------------------------------------------------------------------
(* A flush waits for every writer *)

\* No tickets are drawn at first.
LEMMA TicketInvInit == Init => TicketInv
<1> SUFFICES ASSUME Init PROVE TicketInv
  OBVIOUS
<1>1. \A b \in Buffers : Busy(b) = {}
  BY DEF Init, Busy
<1>2. \A b \in Buffers : TicketsAre(b, 0)
  BY <1>1, FS_EmptySet DEF Init, TicketsAre
<1> QED
  BY <1>1, <1>2 DEF Init, TicketInv, NoSet, NoAsync, Buffers

\* Steps that neither draw, finish nor move a ticket.
SameTickets ==
  /\ UNCHANGED <<activeSet, doneCount, panics, async>>
  /\ \A u \in Threads :
       /\ pc'[u] \in {"write", "done"} <=> pc[u] \in {"write", "done"}
       /\ pc'[u] = "swap" <=> pc[u] = "swap"
       /\ pc'[u] = "spin" <=> pc[u] = "spin"
       /\ pc[u] \in {"write", "done", "swap", "spin"} => set'[u] = set[u]

\* Steps that draw no ticket, finish none and swap no buffer.
LEMMA TicketFrame ==
  ASSUME TicketInv, SameTickets
  PROVE  TicketInv'
<1>1. ASSUME NEW b PROVE Busy(b)' = Busy(b)
  BY DEF Busy, SameTickets
<1>2. ASSUME NEW b, NEW n PROVE TicketsAre(b, n)' <=> TicketsAre(b, n)
  BY <1>1 DEF TicketsAre, SameTickets
<1>3. Idle' <=> Idle
  BY DEF Idle, SameTickets
<1> QED
  BY <1>1, <1>2, <1>3 DEF TicketInv, SameTickets

\* Most steps of a goroutine are of that kind.
LEMMA TicketsKept ==
  ASSUME FlushInv, TicketInv, NEW t \in Threads,
         \/ \E c \in AppendCalls, m \in Messages : CallAppend(t, c, m)
         \/ CallFlush(t) \/ CallClose(t) \/ CallAfterFlushDo(t)
         \/ AppendIsClosed(t) \/ AppendWrite(t) \/ BlockLoop(t) \/ CanBlock(t)
         \/ FlushIsEmpty(t) \/ IncWhenDone(t) \/ WaitForFlush(t) \/ AfterFlushDone(t)
  PROVE  TicketInv'
<1> SUFFICES SameTickets
  BY TicketFrame
<1> USE DEF sharedVars, historyVars, Goto, SameTickets
<1>0. LocalsOK(t) /\ pc \in [Threads -> Labels]
  BY DEF FlushInv, TypeOK, VariablesOK
<1>1. CASE \E c \in AppendCalls, m \in Messages : CallAppend(t, c, m)
  BY <1>0, <1>1 DEF CallAppend
<1>2. CASE CallFlush(t) \/ CallClose(t) \/ CallAfterFlushDo(t)
  BY <1>0, <1>2 DEF CallFlush, CallClose, CallAfterFlushDo
<1>3. CASE AppendIsClosed(t)
  BY <1>0, <1>3 DEF AppendIsClosed, AppendFailed, Reject
<1>4. CASE AppendWrite(t)
  BY <1>0, <1>4 DEF AppendWrite
<1>5. CASE BlockLoop(t) \/ CanBlock(t)
  BY <1>0, <1>5 DEF BlockLoop, CanBlock, Reject
<1>6. CASE FlushIsEmpty(t)
  BY <1>0, <1>6 DEF FlushIsEmpty, FlushReturns, LocalsOK, FlushingCalls
<1>7. CASE IncWhenDone(t)
  BY <1>0, <1>7 DEF IncWhenDone
<1>8. CASE WaitForFlush(t) \/ AfterFlushDone(t)
  BY <1>0, <1>8 DEF WaitForFlush, AfterFlushDone
<1> QED
  BY <1>1, <1>2, <1>3, <1>4, <1>5, <1>6, <1>7, <1>8

\* Drawing a ticket and finishing it.
LEMMA TicketsDrawn ==
  ASSUME FlushInv, TicketInv, NEW t \in Threads, AppendTicket(t) \/ AppendDone(t)
  PROVE  TicketInv'
<1> SUFFICES ASSUME panics' = 0 PROVE TicketInv'
  BY DEF TicketInv
<1> USE BatchAssumption, TicketAssumption DEF sharedVars, historyVars, Goto
<1>0. VariablesOK /\ panics = 0
  BY DEF FlushInv, TypeOK, AppendTicket, AppendDone, historyVars
<1>1. CASE AppendTicket(t)
  <2>1. /\ activeSet'.idx = activeSet.idx /\ activeSet'.count = activeSet.count + 1
        /\ set' = [set EXCEPT ![t] = activeSet']
        /\ pc' = [pc EXCEPT ![t] = "write"] /\ pc[t] = "ticket"
        /\ UNCHANGED <<doneCount, panics, async>>
    BY <1>0, <1>1 DEF AppendTicket, Increment, VariablesOK, Sets
  <2>2. activeSet.count \in Nat
    BY <1>0 DEF VariablesOK, Sets
  <2>3. ASSUME NEW b \in Buffers, activeSet.idx # b
        PROVE  Busy(b)' = Busy(b) /\ \A n : TicketsAre(b, n)' <=> TicketsAre(b, n)
    <3>1. Busy(b)' = Busy(b)
      BY <1>0, <2>1, <2>3 DEF Busy, VariablesOK
    <3> QED
      BY <2>1, <3>1 DEF TicketsAre
  <2>4. ASSUME NEW b \in Buffers, NEW n \in Nat, activeSet.idx = b, activeSet.count + 1 = n
        PROVE  TicketsAre(b, n)'
    <3>1. TicketsAre(b, n - 1)
      BY <1>0, <2>2, <2>4 DEF TicketInv
    <3>2. Busy(b)' = Busy(b) \cup {t} /\ t \notin Busy(b)
      BY <1>0, <2>1, <2>4 DEF Busy, VariablesOK
    <3>3. IsFiniteSet(Busy(b)') /\ Cardinality(Busy(b)') = Cardinality(Busy(b)) + 1
      BY <3>1, <3>2, FS_AddElement DEF TicketsAre
    <3>4. Cardinality(Busy(b)) \in Nat /\ doneCount[b] \in Nat /\ doneCount'[b] = doneCount[b]
      BY <1>0, <2>1, <3>1, FS_CardinalityType DEF TicketsAre, VariablesOK
    <3> QED
      BY <3>1, <3>3, <3>4 DEF TicketsAre
  <2>5. \A u \in Threads : pc'[u] \in {"swap", "spin"} => pc[u] = pc'[u] /\ set'[u] = set[u]
    BY <1>0, <2>1 DEF VariablesOK
  <2>6. Idle' <=> Idle
    BY <1>0, <2>1 DEF Idle, VariablesOK
  <2> QED
    BY <1>0, <2>1, <2>3, <2>4, <2>5, <2>6 DEF TicketInv
<1>2. CASE AppendDone(t)
  <2>1. /\ doneCount' = [doneCount EXCEPT ![set[t].idx] = @ + 1]
        /\ pc[t] = "done" /\ \A u \in Threads \ {t} : pc'[u] = pc[u]
        /\ pc'[t] \in {"idle", "blockLoop", "isEmpty"}
        /\ UNCHANGED <<activeSet, panics, async, set>>
    BY <1>0, <1>2 DEF AppendDone, AppendFailed, Reject, VariablesOK
  <2>2. ASSUME NEW b \in Buffers PROVE Busy(b)' = Busy(b) \ {t}
    BY <2>1 DEF Busy
  <2>3. ASSUME NEW b \in Buffers, NEW n \in Nat, TicketsAre(b, n)
        PROVE  TicketsAre(b, n)'
    <3>1. IsFiniteSet(Busy(b)') /\ Cardinality(Busy(b)')
            = IF t \in Busy(b) THEN Cardinality(Busy(b)) - 1 ELSE Cardinality(Busy(b))
      BY <2>2, <2>3, FS_RemoveElement DEF TicketsAre
    <3>2. t \in Busy(b) <=> set[t].idx = b
      BY <2>1 DEF Busy
    <3>3. Cardinality(Busy(b)) \in Nat /\ doneCount[b] \in Nat
      BY <1>0, <2>3, FS_CardinalityType DEF TicketsAre, VariablesOK
    <3>4. doneCount'[b] = IF set[t].idx = b THEN doneCount[b] + 1 ELSE doneCount[b]
      BY <1>0, <2>1 DEF VariablesOK
    <3> QED
      BY <2>3, <3>1, <3>2, <3>3, <3>4 DEF TicketsAre
  <2>4. ASSUME NEW b \in Buffers, Busy(b) = {} PROVE Busy(b)' = {}
    BY <2>2, <2>4
  <2>5. \A u \in Threads : pc'[u] \in {"swap", "spin"} => pc[u] = pc'[u]
    BY <2>1
  <2>6. Idle' => Idle
    BY <2>1 DEF Idle
  <2> QED
    BY <1>0, <2>1, <2>3, <2>4, <2>5, <2>6 DEF TicketInv
<1> QED
  BY <1>1, <1>2

\* Swapping the buffers, waiting for the writers, and the goroutine Flush spawns.
LEMMA TicketsFlushed ==
  ASSUME FlushInv, TicketInv, NEW t \in Threads,
         \/ FlushLoad(t) \/ FlushSwap(t) \/ FlushSpin(t)
         \/ AssembleMessage(t) \/ AssemblePanics(t) \/ AssembleReturns(t) \/ FlushingDone(t)
  PROVE  TicketInv'
<1> SUFFICES ASSUME panics' = 0 PROVE TicketInv'
  BY DEF TicketInv
<1> USE DEF sharedVars, historyVars, Goto
<1>0. VariablesOK /\ LocalsOK(t) /\ OneFlushAtATime
  BY DEF FlushInv, TypeOK
<1>1. CASE FlushLoad(t)
  <2>1. /\ pc[t] = "load" /\ pc' = [pc EXCEPT ![t] = "swap"] /\ set' = [set EXCEPT ![t] = activeSet]
        /\ UNCHANGED <<activeSet, doneCount, panics, async>>
    BY <1>1 DEF FlushLoad
  <2>2. ASSUME NEW b \in Buffers
        PROVE  Busy(b)' = Busy(b) /\ \A n : TicketsAre(b, n)' <=> TicketsAre(b, n)
    <3>1. Busy(b)' = Busy(b)
      BY <1>0, <2>1 DEF Busy, VariablesOK
    <3> QED
      BY <2>1, <3>1 DEF TicketsAre
  <2>3. Idle' <=> Idle
    BY <1>0, <2>1 DEF Idle, VariablesOK
  <2>4. \A u \in Threads : u # t => pc'[u] = pc[u] /\ set'[u] = set[u]
    BY <1>0, <2>1 DEF VariablesOK
  <2>5. pc'[t] = "swap" /\ set'[t] = activeSet
    BY <1>0, <2>1 DEF VariablesOK
  <2> QED
    BY <2>1, <2>2, <2>3, <2>4, <2>5 DEF TicketInv
<1>2. CASE FlushSwap(t)
  <2>1. /\ pc[t] = "swap" /\ pc' = [pc EXCEPT ![t] = "spin"] /\ set' = [set EXCEPT ![t] = activeSet]
        /\ activeSet'.idx = 1 - set[t].idx /\ activeSet'.count = 0
        /\ UNCHANGED <<doneCount, panics, async>>
    BY <1>2 DEF FlushSwap
  <2>2. ASSUME NEW b \in Buffers
        PROVE  Busy(b)' = Busy(b) /\ \A n : TicketsAre(b, n)' <=> TicketsAre(b, n)
    <3>1. Busy(b)' = Busy(b)
      BY <1>0, <2>1 DEF Busy, VariablesOK
    <3> QED
      BY <2>1, <3>1 DEF TicketsAre
  <2>3. \A u \in Threads : u # t => pc'[u] = pc[u] /\ set'[u] = set[u]
    BY <1>0, <2>1 DEF VariablesOK
  <2>4. pc'[t] = "spin" /\ set'[t] = activeSet
    BY <1>0, <2>1 DEF VariablesOK
  <2>5. \A u \in Threads : pc[u] # "spin" /\ async[u].pc # "assemble"
    BY <1>0, <2>1 DEF OneFlushAtATime, HoldsFlush
  <2>6. \A u \in Threads : pc'[u] = "swap" => FALSE
    BY <1>0, <2>1, <2>3, <2>4 DEF OneFlushAtATime, HoldsFlush
  <2>7. activeSet.idx \in Buffers /\ activeSet'.idx = 1 - activeSet.idx
    BY <1>0, <2>1 DEF TicketInv, VariablesOK, Sets
  <2>8. \A b \in Buffers : activeSet'.idx = b <=> activeSet.idx # b
    BY <2>7 DEF Buffers
  <2>9. \A b \in Buffers : activeSet.idx # b => TicketsAre(b, 0)
    BY <2>1, <2>5 DEF TicketInv, Idle
  <2> QED
    BY <2>1, <2>2, <2>3, <2>4, <2>5, <2>6, <2>8, <2>9 DEF TicketInv, Idle
<1>3. CASE FlushSpin(t)
  <2>1. /\ pc[t] = "spin" /\ pc'[t] \in {"idle", "waitForFlush", "canBlock"}
        /\ doneCount[set[t].idx] = set[t].count
        /\ async' = [async EXCEPT ![t] = [pc |-> "assemble", set |-> set[t], pos |-> 0]]
        /\ UNCHANGED <<activeSet, doneCount, panics, set>>
        /\ \A u \in Threads \ {t} : pc'[u] = pc[u]
    BY <1>0, <1>3 DEF FlushSpin, FlushReturns, LocalsOK, FlushingCalls, VariablesOK
  <2>2. ASSUME NEW b \in Buffers
        PROVE  Busy(b)' = Busy(b) /\ \A n : TicketsAre(b, n)' <=> TicketsAre(b, n)
    <3>1. Busy(b)' = Busy(b)
      BY <2>1 DEF Busy
    <3> QED
      BY <2>1, <3>1 DEF TicketsAre
  <2>3. ASSUME NEW b \in Buffers, set[t].idx = b
        PROVE  activeSet.idx # b /\ Busy(b) = {}
    <3>1. set[t].count \in Nat
      BY <1>0 DEF VariablesOK, Sets
    <3>2. activeSet.idx # b /\ TicketsAre(b, set[t].count)
      BY <2>1, <2>3, <3>1 DEF TicketInv
    <3>3. Cardinality(Busy(b)) = 0
      BY <2>1, <2>3, <3>1, <3>2, FS_CardinalityType DEF TicketsAre
    <3> QED
      BY <3>2, <3>3, FS_EmptySet DEF TicketsAre
  <2>4. async'[t].pc = "assemble" /\ async'[t].set = set[t]
    BY <1>0, <2>1 DEF VariablesOK
  <2>5. \A u \in Threads : u # t => async'[u] = async[u]
    BY <1>0, <2>1 DEF VariablesOK
  <2>6. \A u \in Threads : pc'[u] \in {"swap", "spin"} => pc[u] = pc'[u]
    BY <2>1
  <2> QED
    BY <2>1, <2>2, <2>3, <2>4, <2>5, <2>6 DEF TicketInv, Idle
<1>4. CASE AssembleMessage(t)
  <2>1. /\ \A u \in Threads : async'[u].pc = async[u].pc /\ async'[u].set = async[u].set
        /\ UNCHANGED <<activeSet, doneCount, panics, set, pc>>
    BY <1>0, <1>4 DEF AssembleMessage, VariablesOK
  <2>2. ASSUME NEW b PROVE Busy(b)' = Busy(b) /\ \A n : TicketsAre(b, n)' <=> TicketsAre(b, n)
    BY <2>1 DEF Busy, TicketsAre
  <2> QED
    BY <2>1, <2>2 DEF TicketInv, Idle
<1>5. CASE AssemblePanics(t)
  BY <1>0, <1>5 DEF AssemblePanics, VariablesOK
<1>6. CASE AssembleReturns(t)
  <2>1. /\ async[t].pc = "assemble" /\ doneCount' = [doneCount EXCEPT ![async[t].set.idx] = 0]
        /\ async'[t].pc = "done" /\ \A u \in Threads \ {t} : async'[u] = async[u]
        /\ UNCHANGED <<activeSet, panics, set, pc>>
    BY <1>0, <1>6 DEF AssembleReturns, VariablesOK
  <2>2. ASSUME NEW b PROVE Busy(b)' = Busy(b)
    BY <2>1 DEF Busy
  <2>3. \A u \in Threads : pc[u] # "spin" /\ (u # t => async[u].pc # "assemble")
    BY <1>0, <2>1 DEF OneFlushAtATime, HoldsFlush
  <2>4. async[t].set.idx \in Buffers /\ activeSet.idx # async[t].set.idx /\ Busy(async[t].set.idx) = {}
    BY <1>0, <2>1 DEF TicketInv, VariablesOK, Sets
  <2>5. ASSUME NEW b \in Buffers, activeSet.idx # b
        PROVE  TicketsAre(b, 0)'
    <3>1. b = async[t].set.idx /\ Busy(b) = {}
      BY <1>0, <2>4, <2>5 DEF VariablesOK, Sets, Buffers
    <3>2. doneCount'[b] = 0
      BY <1>0, <2>1, <3>1 DEF VariablesOK
    <3> QED
      BY <2>2, <3>1, <3>2, FS_EmptySet DEF TicketsAre
  <2>6. ASSUME NEW b \in Buffers, NEW n \in Nat, activeSet.idx = b, activeSet.count = n
        PROVE  TicketsAre(b, n)'
    <3>1. TicketsAre(b, n)
      BY <2>1, <2>6 DEF TicketInv
    <3>2. doneCount'[b] = doneCount[b]
      BY <1>0, <2>1, <2>4, <2>6 DEF VariablesOK
    <3> QED
      BY <2>2, <3>1, <3>2 DEF TicketsAre
  <2> QED
    BY <2>1, <2>3, <2>5, <2>6 DEF TicketInv
<1>7. CASE FlushingDone(t)
  <2>1. /\ async[t].pc = "done" /\ async'[t].pc = "none" /\ \A u \in Threads \ {t} : async'[u] = async[u]
        /\ UNCHANGED <<activeSet, doneCount, panics, set, pc>>
    BY <1>0, <1>7 DEF FlushingDone, VariablesOK, NoAsync
  <2>2. ASSUME NEW b PROVE Busy(b)' = Busy(b) /\ \A n : TicketsAre(b, n)' <=> TicketsAre(b, n)
    BY <2>1 DEF Busy, TicketsAre
  <2> QED
    BY <2>1, <2>2 DEF TicketInv, Idle
<1> QED
  BY <1>1, <1>2, <1>3, <1>4, <1>5, <1>6, <1>7

\* Every step keeps the count of the tickets.
LEMMA TicketInvStep == FlushInv /\ TicketInv /\ [Next]_vars => TicketInv'
<1> SUFFICES ASSUME FlushInv, TicketInv, [Next]_vars PROVE TicketInv'
  OBVIOUS
<1>1. CASE Next
  BY <1>1, TicketsKept, TicketsDrawn, TicketsFlushed DEF Next, Continue, Assemble
<1>2. CASE UNCHANGED vars
  BY <1>2, TicketFrame DEF vars, sharedVars, historyVars, SameTickets
<1> QED
  BY <1>1, <1>2

\* "Wait for remaining writers to finish": the assembly callback never sees a slot that
\* somebody may still write to, for any number of writers and any buffer length.
THEOREM WritersAreWaitedFor == Spec => []NoWriterInAssembledBuffer
<1>1. FlushInv /\ TicketInv => NoWriterInAssembledBuffer
  <2> SUFFICES ASSUME FlushInv, TicketInv, panics = 0, NEW t \in Threads, NEW u \in Threads,
                      async[t].pc = "assemble", pc[u] \in {"write", "done"}
               PROVE  set[u].idx # async[t].set.idx
    BY DEF NoWriterInAssembledBuffer
  <2>1. async[t].set.idx \in Buffers
    BY DEF FlushInv, TypeOK, VariablesOK, Sets
  <2> QED
    BY <2>1 DEF TicketInv, Busy
<1> QED
  BY <1>1, FlushInvInit, FlushInvStep, TicketInvInit, TicketInvStep, PTL DEF Spec

-----------------------------------------------------------------------------
(* No message is lost or assembled twice *)

\* Both buffers are empty at first.
LEMMA ContentsInvInit == Init => ContentsInv
<1> SUFFICES ASSUME Init PROVE WritersInv /\ HoldersInv /\ SlotsInv
  BY DEF ContentsInv
<1>1. \A b \in Buffers, i \in Slots : ~Filled(b, i)
  BY BatchAssumption DEF Init, Filled, WillBeFlushed, NoSet, NoAsync, Slots
<1>2. WritersInv /\ HoldersInv
  BY DEF Init, WritersInv, HoldersInv, Holding
<1>3. SlotsInv
  BY <1>1 DEF Init, SlotsInv
<1> QED
  BY <1>2, <1>3

\* Steps after which nobody holds another message than before.
LEMMA HoldersFrame ==
  ASSUME HoldersInv, UNCHANGED <<accepted, fresh>>,
         \A u \in Threads : Holding(u)' => Holding(u) /\ msg'[u] = msg[u]
  PROVE  HoldersInv'
BY DEF HoldersInv

\* Steps that fill slots only with a message that is being written there.
SlotStep ==
  \A b \in Buffers, i \in Slots : Filled(b, i)' =>
    \/ Filled(b, i) /\ messages'[b][i] = messages[b][i]
    \/ \E u \in Threads : pc[u] = "write" /\ set[u].idx = b /\ messages'[b][i] = msg[u]

\* Steps after which the same slots are written to and will be flushed.
SameContents ==
  /\ UNCHANGED <<accepted, assembled, messages>>
  /\ \A b \in Buffers, i \in Nat :
       i \in Slots \/ Writing(b, i) => (WillBeFlushed(b, i)' <=> WillBeFlushed(b, i))
  /\ \A u \in Threads : pc'[u] = "write" <=> pc[u] = "write"
  /\ \A u \in Threads : pc[u] = "write" => set'[u] = set[u]

\* Steps that change neither writers nor slots.
LEMMA ContentsFrame ==
  ASSUME WritersInv, SlotsInv, SameContents
  PROVE  WritersInv' /\ SlotsInv' /\ SlotStep
<1>1. ASSUME NEW b \in Buffers, NEW i \in Nat PROVE Writing(b, i)' <=> Writing(b, i)
  BY DEF Writing, SameContents
<1>2. ASSUME NEW b \in Buffers, NEW i \in Slots PROVE Filled(b, i)' <=> Filled(b, i)
  BY <1>1 DEF Filled, SameContents, Slots
<1>3. SlotsInv'
  BY <1>2 DEF SlotsInv, SameContents
<1>4. ASSUME NEW t \in Threads, NEW b \in Buffers, NEW n \in Nat,
             pc'[t] = "write", set'[t].idx = b, set'[t].count = n
      PROVE  n > 0 /\ WillBeFlushed(b, n - 1)'
  <2>1. n > 0 /\ WillBeFlushed(b, n - 1) /\ pc[t] = "write" /\ set[t].idx = b /\ set[t].count = n
    BY <1>4 DEF WritersInv, SameContents
  <2>2. n - 1 \in Nat /\ Writing(b, n - 1)
    BY <2>1 DEF Writing
  <2> QED
    BY <2>1, <2>2 DEF SameContents
<1>5. WritersInv'
  BY <1>4 DEF WritersInv, SameContents
<1>6. SlotStep
  BY <1>2 DEF SlotStep, SameContents
<1> QED
  BY <1>3, <1>5, <1>6

\* A message is held by one goroutine from the call of the append method to its end.
LEMMA HoldersStep ==
  ASSUME FlushInv, HoldersInv, NEW t \in Threads,
         \/ \E c \in AppendCalls, m \in Messages : CallAppend(t, c, m)
         \/ CallFlush(t) \/ CallClose(t) \/ CallAfterFlushDo(t)
         \/ Continue(t) \/ Assemble(t) \/ AssemblePanics(t)
  PROVE  HoldersInv'
<1> USE DEF sharedVars, historyVars, Goto
<1>0. VariablesOK /\ LocalsOK(t)
  BY DEF FlushInv, TypeOK
<1>1. CASE \E c \in AppendCalls, m \in Messages : CallAppend(t, c, m)
  <2> PICK c \in AppendCalls, m \in Messages : CallAppend(t, c, m)
    BY <1>1
  <2>1. /\ m \in fresh /\ fresh' = fresh \ {m} /\ accepted' = accepted /\ msg'[t] = m
        /\ \A u \in Threads \ {t} : Holding(u)' = Holding(u) /\ msg'[u] = msg[u]
    BY <1>0 DEF CallAppend, Holding, VariablesOK
  <2> QED
    BY <2>1 DEF HoldersInv
<1>2. CASE AppendWrite(t)
  <2>1. CASE Fits(set[t])
    <3>1. /\ accepted' = accepted \cup {msg[t]} /\ fresh' = fresh /\ msg' = msg
          /\ Holding(t) /\ ~Holding(t)'
          /\ \A u \in Threads \ {t} : Holding(u)' = Holding(u)
      BY <1>0, <1>2, <2>1 DEF AppendWrite, Holding, VariablesOK, LocalsOK, Fits
    <3> QED
      BY <3>1 DEF HoldersInv
  <2>2. CASE ~Fits(set[t])
    <3>1. /\ UNCHANGED <<accepted, fresh>>
          /\ \A u \in Threads : Holding(u)' => Holding(u) /\ msg'[u] = msg[u]
      BY <1>0, <1>2, <2>2 DEF AppendWrite, Holding, VariablesOK, LocalsOK
    <3> QED
      BY <3>1, HoldersFrame
  <2> QED
    BY <2>1, <2>2
<1>3. CASE \/ CallFlush(t) \/ CallClose(t) \/ CallAfterFlushDo(t)
           \/ AppendIsClosed(t) \/ AppendTicket(t) \/ AppendDone(t) \/ BlockLoop(t) \/ CanBlock(t)
  <2> SUFFICES /\ UNCHANGED <<accepted, fresh>>
               /\ \A u \in Threads : Holding(u)' => Holding(u) /\ msg'[u] = msg[u]
    BY HoldersFrame
  <2>1. CASE CallFlush(t) \/ CallClose(t) \/ CallAfterFlushDo(t)
    BY <1>0, <2>1 DEF CallFlush, CallClose, CallAfterFlushDo, Holding, VariablesOK, AppendCalls
  <2>2. CASE AppendIsClosed(t)
    BY <1>0, <2>2 DEF AppendIsClosed, AppendFailed, Reject, Holding, VariablesOK, LocalsOK
  <2>3. CASE AppendTicket(t)
    BY <1>0, <2>3 DEF AppendTicket, Holding, VariablesOK
  <2>4. CASE AppendDone(t)
    BY <1>0, <2>4 DEF AppendDone, AppendFailed, Reject, Holding, VariablesOK, LocalsOK
  <2>5. CASE BlockLoop(t) \/ CanBlock(t)
    BY <1>0, <2>5 DEF BlockLoop, CanBlock, Reject, Holding, VariablesOK, LocalsOK, AppendCalls
  <2> QED
    BY <1>3, <2>1, <2>2, <2>3, <2>4, <2>5
<1>4. CASE \/ FlushIsEmpty(t) \/ IncWhenDone(t) \/ FlushLoad(t) \/ FlushSwap(t) \/ FlushSpin(t)
           \/ WaitForFlush(t) \/ AfterFlushDone(t)
  <2> SUFFICES /\ UNCHANGED <<accepted, fresh>>
               /\ \A u \in Threads : Holding(u)' => Holding(u) /\ msg'[u] = msg[u]
    BY HoldersFrame
  <2>1. CASE FlushIsEmpty(t)
    BY <1>0, <2>1 DEF FlushIsEmpty, FlushReturns, Holding, VariablesOK
  <2>2. CASE IncWhenDone(t)
    BY <1>0, <2>2 DEF IncWhenDone, Holding, VariablesOK
  <2>3. CASE FlushLoad(t) \/ FlushSwap(t)
    BY <1>0, <2>3 DEF FlushLoad, FlushSwap, Holding, VariablesOK
  <2>4. CASE FlushSpin(t)
    BY <1>0, <2>4 DEF FlushSpin, FlushReturns, Holding, VariablesOK
  <2>5. CASE WaitForFlush(t) \/ AfterFlushDone(t)
    BY <1>0, <2>5 DEF WaitForFlush, AfterFlushDone, Holding, VariablesOK
  <2> QED
    BY <1>4, <2>1, <2>2, <2>3, <2>4, <2>5
<1>5. CASE Assemble(t) \/ AssemblePanics(t)
  <2>1. UNCHANGED <<accepted, fresh, pc, call, msg, set>>
    BY <1>5 DEF Assemble, AssembleMessage, AssembleReturns, FlushingDone, AssemblePanics
  <2> QED
    BY <2>1, HoldersFrame DEF Holding
<1> QED
  BY <1>1, <1>2, <1>3, <1>4, <1>5 DEF Continue

\* Most steps leave the slots alone, and flush what would have been flushed.
LEMMA ContentsKept ==
  ASSUME FlushInv, TicketInv, WritersInv, SlotsInv, panics = 0, NEW t \in Threads,
         \/ \E c \in AppendCalls, m \in Messages : CallAppend(t, c, m)
         \/ CallFlush(t) \/ CallClose(t) \/ CallAfterFlushDo(t)
         \/ AppendIsClosed(t) \/ AppendDone(t) \/ BlockLoop(t) \/ CanBlock(t)
         \/ FlushIsEmpty(t) \/ IncWhenDone(t) \/ FlushLoad(t) \/ FlushSwap(t) \/ FlushSpin(t)
         \/ WaitForFlush(t) \/ AfterFlushDone(t) \/ AssembleReturns(t) \/ FlushingDone(t)
  PROVE  WritersInv' /\ SlotsInv' /\ SlotStep
<1> SUFFICES SameContents
  BY ContentsFrame
<1> USE BatchAssumption DEF sharedVars, historyVars, Goto
<1>0. VariablesOK /\ LocalsOK(t) /\ OneFlushAtATime
  BY DEF FlushInv, TypeOK
<1>1. CASE \/ \E c \in AppendCalls, m \in Messages : CallAppend(t, c, m)
           \/ CallFlush(t) \/ CallClose(t) \/ CallAfterFlushDo(t)
  BY <1>0, <1>1 DEF CallAppend, CallFlush, CallClose, CallAfterFlushDo, SameContents, WillBeFlushed,
                    VariablesOK
<1>2. CASE AppendIsClosed(t) \/ AppendDone(t)
  BY <1>0, <1>2 DEF AppendIsClosed, AppendDone, AppendFailed, Reject, SameContents, WillBeFlushed,
                    VariablesOK
<1>3. CASE BlockLoop(t) \/ CanBlock(t)
  BY <1>0, <1>3 DEF BlockLoop, CanBlock, Reject, SameContents, WillBeFlushed, VariablesOK
<1>4. CASE FlushIsEmpty(t)
  BY <1>0, <1>4 DEF FlushIsEmpty, FlushReturns, SameContents, WillBeFlushed, VariablesOK, LocalsOK,
                    FlushingCalls
<1>5. CASE IncWhenDone(t) \/ FlushLoad(t) \/ WaitForFlush(t) \/ AfterFlushDone(t)
  <2>1. CASE IncWhenDone(t) \/ AfterFlushDone(t)
    BY <1>0, <2>1 DEF IncWhenDone, AfterFlushDone, SameContents, WillBeFlushed, VariablesOK
  <2>2. CASE FlushLoad(t)
    BY <1>0, <2>2 DEF FlushLoad, SameContents, WillBeFlushed, VariablesOK
  <2>3. CASE WaitForFlush(t)
    BY <1>0, <2>3 DEF WaitForFlush, SameContents, WillBeFlushed, VariablesOK
  <2> QED
    BY <1>5, <2>1, <2>2, <2>3
<1>6. CASE FlushSwap(t)
  <2>1. /\ pc[t] = "swap" /\ pc' = [pc EXCEPT ![t] = "spin"] /\ set' = [set EXCEPT ![t] = activeSet]
        /\ activeSet'.count = 0
        /\ UNCHANGED <<accepted, assembled, messages, async>>
    BY <1>6 DEF FlushSwap
  <2>2. \A u \in Threads : pc[u] # "spin" /\ async[u].pc # "assemble"
    BY <1>0, <2>1 DEF OneFlushAtATime, HoldsFlush
  <2>3. /\ pc'[t] = "spin" /\ set'[t] = activeSet
        /\ \A u \in Threads \ {t} : pc'[u] = pc[u] /\ set'[u] = set[u]
    BY <1>0, <2>1 DEF VariablesOK
  <2>4. ASSUME NEW b \in Buffers, NEW i \in Nat
        PROVE  WillBeFlushed(b, i)' <=> WillBeFlushed(b, i)
    BY <2>1, <2>2, <2>3 DEF WillBeFlushed
  <2> QED
    BY <2>1, <2>3, <2>4 DEF SameContents
<1>7. CASE FlushSpin(t)
  <2>1. /\ pc[t] = "spin" /\ pc'[t] \in {"idle", "waitForFlush", "canBlock"}
        /\ UNCHANGED <<activeSet, accepted, assembled, messages, set>>
        /\ \A u \in Threads \ {t} : pc'[u] = pc[u] /\ async'[u] = async[u]
        /\ async'[t] = [pc |-> "assemble", set |-> set[t], pos |-> 0]
    BY <1>0, <1>7 DEF FlushSpin, FlushReturns, LocalsOK, FlushingCalls, VariablesOK
  <2>2. async[t].pc # "assemble"
    BY <1>0, <2>1 DEF OneFlushAtATime, HoldsFlush
  <2>3. ASSUME NEW b \in Buffers, NEW i \in Nat
        PROVE  WillBeFlushed(b, i)' <=> WillBeFlushed(b, i)
    BY <2>1, <2>2 DEF WillBeFlushed
  <2> QED
    BY <2>1, <2>3 DEF SameContents
<1>8. CASE AssembleReturns(t)
  <2>1. /\ async[t].pc = "assemble" /\ async[t].pos = MessageCount(async[t].set)
        /\ UNCHANGED <<activeSet, accepted, assembled, messages, pc, set>>
        /\ async'[t].pc = "done" /\ \A u \in Threads \ {t} : async'[u] = async[u]
    BY <1>0, <1>8 DEF AssembleReturns, VariablesOK
  <2>2. async[t].set.count \in Nat /\ async[t].set.idx \in Buffers
    BY <1>0 DEF VariablesOK, Sets
  <2>3. ASSUME NEW b \in Buffers, NEW i \in Nat, i \in Slots \/ Writing(b, i)
        PROVE  WillBeFlushed(b, i)' <=> WillBeFlushed(b, i)
    <3>1. CASE b # async[t].set.idx \/ i \in Slots
      BY <2>1, <2>2, <3>1 DEF WillBeFlushed, MessageCount, Slots
    <3>2. CASE b = async[t].set.idx /\ Writing(b, i)
      <4>1. Busy(b) = {}
        BY <2>1, <2>2, <3>2 DEF TicketInv
      <4> QED
        BY <3>2, <4>1 DEF Writing, Busy
    <3> QED
      BY <2>3, <3>1, <3>2
  <2> QED
    BY <2>1, <2>3 DEF SameContents
<1>9. CASE FlushingDone(t)
  <2>1. /\ async[t].pc = "done" /\ async'[t].pc = "none" /\ \A u \in Threads \ {t} : async'[u] = async[u]
        /\ UNCHANGED <<activeSet, accepted, assembled, messages, pc, set>>
    BY <1>0, <1>9 DEF FlushingDone, VariablesOK, NoAsync
  <2>2. ASSUME NEW b \in Buffers, NEW i \in Nat
        PROVE  WillBeFlushed(b, i)' <=> WillBeFlushed(b, i)
    BY <2>1 DEF WillBeFlushed
  <2> QED
    BY <2>1, <2>2 DEF SameContents
<1> QED
  BY <1>1, <1>2, <1>3, <1>4, <1>5, <1>6, <1>7, <1>8, <1>9

\* A ticket reserves a slot nobody else will write to.
LEMMA SlotReserved ==
  ASSUME FlushInv, TicketInv, WritersInv, SlotsInv, panics = 0, NEW t \in Threads, AppendTicket(t)
  PROVE  WritersInv' /\ SlotsInv' /\ SlotStep
<1>0. VariablesOK
  BY DEF FlushInv, TypeOK
<1>1. /\ activeSet'.idx = activeSet.idx /\ activeSet'.count = activeSet.count + 1
      /\ activeSet' = [idx |-> activeSet'.idx, count |-> activeSet'.count]
      /\ set'[t] = activeSet' /\ pc'[t] = "write" /\ pc[t] = "ticket"
      /\ \A u \in Threads \ {t} : pc'[u] = pc[u] /\ set'[u] = set[u]
      /\ UNCHANGED <<messages, accepted, assembled, async>>
  BY <1>0, BatchAssumption, TicketAssumption
     DEF AppendTicket, Goto, Increment, VariablesOK, Sets, historyVars
<1>2. activeSet.count \in Nat /\ activeSet.idx \in Buffers
  BY <1>0 DEF VariablesOK, Sets
<1>3. ASSUME NEW b \in Buffers, NEW i \in Nat
      PROVE  WillBeFlushed(b, i)' <=> WillBeFlushed(b, i) \/ (b = activeSet.idx /\ i = activeSet.count)
  BY <1>1, <1>2 DEF WillBeFlushed
<1>4. ASSUME NEW b \in Buffers, NEW i \in Nat
      PROVE  Writing(b, i)' <=> Writing(b, i) \/ (b = activeSet.idx /\ i = activeSet.count)
  BY <1>1, <1>2 DEF Writing
<1>5. ASSUME NEW b \in Buffers, b = activeSet.idx
      PROVE  ~WillBeFlushed(b, activeSet.count)
  BY <1>0, <1>2, <1>5 DEF WillBeFlushed, TicketInv, VariablesOK, Sets
<1>6. ASSUME NEW b \in Buffers, NEW i \in Slots
      PROVE  Filled(b, i)' <=> Filled(b, i)
  BY <1>2, <1>3, <1>4, <1>5 DEF Filled, Slots
<1>7. SlotsInv'
  BY <1>1, <1>6 DEF SlotsInv
<1>8. ASSUME NEW u \in Threads, NEW b \in Buffers, NEW n \in Nat,
             pc'[u] = "write", set'[u].idx = b, set'[u].count = n
      PROVE  n > 0 /\ WillBeFlushed(b, n - 1)'
  <2>1. CASE u = t
    BY <1>1, <1>2, <1>3, <1>8, <2>1
  <2>2. CASE u # t
    <3>1. n > 0 /\ WillBeFlushed(b, n - 1)
      BY <1>1, <1>8, <2>2 DEF WritersInv
    <3> QED
      BY <1>3, <3>1
  <2> QED
    BY <2>1, <2>2
<1>9. ASSUME NEW u \in Threads, u # t, pc[u] = "write"
      PROVE  set[u] # activeSet'
  <2> SUFFICES ASSUME set[u] = activeSet' PROVE FALSE
    OBVIOUS
  <2>1. set[u].idx = activeSet.idx /\ set[u].count = activeSet.count + 1
    BY <1>1
  <2>2. WillBeFlushed(activeSet.idx, activeSet.count + 1 - 1)
    BY <1>2, <1>9, <2>1 DEF WritersInv
  <2>3. activeSet.count + 1 - 1 = activeSet.count
    BY <1>2
  <2> QED
    BY <1>2, <1>5, <2>2, <2>3
<1>10. WritersInv'
  BY <1>1, <1>8, <1>9 DEF WritersInv
<1>11. SlotStep
  BY <1>1, <1>6 DEF SlotStep
<1> QED
  BY <1>7, <1>10, <1>11

\* A write fills the slot of its ticket, and no other.
LEMMA SlotWritten ==
  ASSUME FlushInv, WritersInv, HoldersInv, SlotsInv, panics = 0, NEW t \in Threads, AppendWrite(t)
  PROVE  WritersInv' /\ SlotsInv' /\ SlotStep
<1>0. VariablesOK /\ LocalsOK(t)
  BY DEF FlushInv, TypeOK
<1>1. /\ pc[t] = "write" /\ pc'[t] = "done"
      /\ \A u \in Threads \ {t} : pc'[u] = pc[u]
      /\ UNCHANGED <<activeSet, assembled, async, set>>
  BY <1>0 DEF AppendWrite, Goto, VariablesOK
<1> PICK b \in Buffers, n \in Nat : set[t].idx = b /\ set[t].count = n
  BY <1>0 DEF VariablesOK, Sets
<1>2. n > 0 /\ WillBeFlushed(b, n - 1)
  BY <1>1 DEF WritersInv
<1>3. ASSUME NEW c \in Buffers, NEW i \in Nat
      PROVE  WillBeFlushed(c, i)' <=> WillBeFlushed(c, i)
  BY <1>1 DEF WillBeFlushed
<1>4. ASSUME NEW u \in Threads, u # t, pc[u] = "write", set[u].idx = b, set[u].count = n
      PROVE  FALSE
  <2>1. \A s \in Sets : s.idx = b /\ s.count = n => s = [idx |-> b, count |-> n]
    BY DEF Sets
  <2>2. set[u] = set[t]
    BY <1>0, <1>4, <2>1 DEF VariablesOK
  <2> QED
    BY <1>1, <1>4, <2>2 DEF WritersInv
<1>5. ASSUME NEW c \in Buffers, NEW i \in Nat
      PROVE  Writing(c, i)' <=> Writing(c, i) /\ ~(c = b /\ i = n - 1)
  BY <1>1, <1>2, <1>4 DEF Writing
<1>6. ASSUME NEW c \in Buffers, NEW i \in Slots
      PROVE  Filled(c, i)' <=> Filled(c, i) \/ (c = b /\ i = n - 1)
  BY <1>2, <1>3, <1>5 DEF Filled, Slots
<1>7. Writing(b, n - 1) /\ n - 1 \in Nat
  BY <1>1, <1>2 DEF Writing
<1>8. WritersInv'
  BY <1>1, <1>3 DEF WritersInv
<1>9. CASE Fits(set[t])
  <2>1. n - 1 \in Slots
    BY <1>9, BatchAssumption DEF Fits, Slots
  <2>2. /\ messages' = [messages EXCEPT ![b][n - 1] = msg[t]]
        /\ accepted' = accepted \cup {msg[t]}
    BY <1>9 DEF AppendWrite
  <2>3. /\ messages'[b][n - 1] = msg[t]
        /\ \A c \in Buffers, i \in Slots : ~(c = b /\ i = n - 1) => messages'[c][i] = messages[c][i]
    <3>1. messages \in [Buffers -> [Slots -> Messages \cup {NoMessage}]]
      BY <1>0 DEF VariablesOK
    <3> QED
      BY <2>1, <2>2, <3>1
  <2>4. msg[t] \in Messages /\ msg[t] \notin accepted
    BY <1>0, <1>1 DEF LocalsOK, HoldersInv, Holding
  <2>5. assembled[msg[t]] = 0
    BY <2>4 DEF SlotsInv
  <2>6. ASSUME NEW c \in Buffers, NEW i \in Slots, Filled(c, i)'
        PROVE  \/ c = b /\ i = n - 1 /\ messages'[c][i] = msg[t]
               \/ /\ ~(c = b /\ i = n - 1) /\ Filled(c, i) /\ messages'[c][i] = messages[c][i]
                  /\ messages[c][i] \in accepted
    BY <1>6, <2>3, <2>6 DEF SlotsInv
  <2>7. ASSUME NEW c \in Buffers, NEW i \in Slots, Filled(c, i)
        PROVE  Filled(c, i)' /\ messages'[c][i] = messages[c][i]
    BY <1>6, <1>7, <2>3, <2>7 DEF Filled
  <2>8. \A c \in Buffers, i \in Slots : Filled(c, i)' =>
          messages'[c][i] \in accepted' /\ assembled[messages'[c][i]] = 0
    BY <2>2, <2>5, <2>6 DEF SlotsInv
  <2>9. \A c, d \in Buffers : \A i, j \in Slots :
          Filled(c, i)' /\ Filled(d, j)' /\ messages'[c][i] = messages'[d][j] => c = d /\ i = j
    BY <2>4, <2>6 DEF SlotsInv
  <2>10. \A m \in accepted' : assembled[m] = 1
           \/ \E c \in Buffers, i \in Slots : Filled(c, i)' /\ messages'[c][i] = m
    <3>1. Filled(b, n - 1)'
      BY <1>6, <2>1
    <3> QED
      BY <2>1, <2>2, <2>3, <2>7, <3>1 DEF SlotsInv
  <2>11. SlotStep
    BY <1>1, <2>6 DEF SlotStep
  <2> QED
    BY <1>1, <1>8, <2>2, <2>8, <2>9, <2>10, <2>11 DEF SlotsInv
<1>10. CASE ~Fits(set[t])
  <2>1. n - 1 \notin Slots
    BY <1>2, <1>10, BatchAssumption DEF Fits, Slots
  <2>2. UNCHANGED <<messages, accepted>>
    BY <1>10 DEF AppendWrite
  <2>3. \A c \in Buffers, i \in Slots : Filled(c, i)' <=> Filled(c, i)
    BY <1>6, <2>1
  <2>4. SlotStep
    BY <2>2, <2>3 DEF SlotStep
  <2> QED
    BY <1>1, <1>8, <2>2, <2>3, <2>4 DEF SlotsInv
<1> QED
  BY <1>9, <1>10

\* The assembly takes a filled slot, and it is filled no longer.
LEMMA SlotAssembled ==
  ASSUME FlushInv, TicketInv, WritersInv, SlotsInv, panics = 0, NEW t \in Threads, AssembleMessage(t)
  PROVE  WritersInv' /\ SlotsInv' /\ SlotStep
<1>0. VariablesOK /\ OneFlushAtATime
  BY DEF FlushInv, TypeOK
<1> PICK b \in Buffers, p \in Nat : async[t].set.idx = b /\ async[t].pos = p
  BY <1>0 DEF VariablesOK, Sets
<1>1. /\ async[t].pc = "assemble" /\ async'[t].pc = "assemble"
      /\ async'[t].set = async[t].set /\ async'[t].pos = p + 1
      /\ \A u \in Threads \ {t} : async'[u] = async[u]
      /\ assembled' = [assembled EXCEPT ![messages[b][p]] = @ + 1]
      /\ UNCHANGED <<activeSet, messages, accepted, pc, set>>
  BY <1>0 DEF AssembleMessage, VariablesOK, sharedVars
<1>2. /\ \A u \in Threads : pc[u] # "spin" /\ (u # t => async[u].pc # "assemble")
      /\ activeSet.idx # b /\ Busy(b) = {}
  BY <1>0, <1>1 DEF OneFlushAtATime, HoldsFlush, TicketInv
<1>3. p \in Slots /\ p < async[t].set.count /\ async[t].set.count \in Nat
  BY <1>0, BatchAssumption, SMTT(20) DEF AssembleMessage, MessageCount, Slots, VariablesOK, Sets
<1>4. ASSUME NEW c \in Buffers, NEW i \in Nat
      PROVE  WillBeFlushed(c, i)' <=> WillBeFlushed(c, i) /\ ~(c = b /\ i = p)
  BY <1>1, <1>2, <1>3 DEF WillBeFlushed
<1>5. ASSUME NEW i PROVE ~Writing(b, i)
  BY <1>2 DEF Writing, Busy
<1>6. Filled(b, p)
  BY <1>1, <1>3, <1>5 DEF Filled, WillBeFlushed
<1>7. ASSUME NEW c \in Buffers, NEW i \in Slots
      PROVE  Filled(c, i)' <=> Filled(c, i) /\ ~(c = b /\ i = p)
  BY <1>1, <1>4 DEF Filled, Writing, Slots
<1> DEFINE m == messages[b][p]
<1>8. m \in accepted /\ assembled[m] = 0
  BY <1>3, <1>6 DEF SlotsInv
<1>9. /\ assembled'[m] = 1
      /\ \A k \in Messages \cup {NoMessage} : k # m => assembled'[k] = assembled[k]
  <2>1. m \in Messages /\ assembled \in [Messages \cup {NoMessage} -> Nat]
    BY <1>0, <1>8 DEF VariablesOK
  <2> QED
    BY <1>1, <1>8, <2>1
<1>10. accepted \subseteq Messages
  BY <1>0 DEF VariablesOK
<1> HIDE DEF m
<1>11. SlotsInv'
  <2>1. \A c \in Buffers, i \in Slots : Filled(c, i)' =>
          messages[c][i] \in accepted /\ messages[c][i] # m /\ assembled[messages[c][i]] = 0
    BY <1>3, <1>6, <1>7 DEF SlotsInv, m
  <2>2. \A c \in Buffers, i \in Slots : Filled(c, i)' =>
          messages[c][i] \in accepted /\ assembled'[messages[c][i]] = 0
    BY <1>9, <1>10, <2>1
  <2>3. \A k \in accepted : assembled'[k] = 1
          \/ \E c \in Buffers, i \in Slots : Filled(c, i)' /\ messages[c][i] = k
    <3> SUFFICES ASSUME NEW k \in accepted, k # m
                 PROVE  assembled'[k] = 1 \/ \E c \in Buffers, i \in Slots :
                                                Filled(c, i)' /\ messages[c][i] = k
      BY <1>9
    <3>1. CASE assembled[k] = 1
      BY <1>9, <1>10, <3>1
    <3>2. CASE assembled[k] # 1
      <4> PICK c \in Buffers, i \in Slots : Filled(c, i) /\ messages[c][i] = k
        BY <3>2 DEF SlotsInv
      <4>1. ~(c = b /\ i = p)
        BY DEF m
      <4> QED
        BY <1>7, <4>1
    <3> QED
      BY <3>1, <3>2
  <2>4. \A k \in (Messages \cup {NoMessage}) \ accepted : assembled'[k] = 0
    BY <1>8, <1>9 DEF SlotsInv
  <2>5. \A c, d \in Buffers : \A i, j \in Slots :
          Filled(c, i)' /\ Filled(d, j)' /\ messages[c][i] = messages[d][j] => c = d /\ i = j
    BY <1>7 DEF SlotsInv
  <2> QED
    BY <1>1, <2>2, <2>3, <2>4, <2>5 DEF SlotsInv
<1>12. WritersInv'
  <2> SUFFICES ASSUME NEW u \in Threads, NEW c \in Buffers, NEW n \in Nat,
                      pc[u] = "write", set[u].idx = c, set[u].count = n
               PROVE  n > 0 /\ WillBeFlushed(c, n - 1)'
    BY <1>1 DEF WritersInv
  <2>1. n > 0 /\ WillBeFlushed(c, n - 1) /\ n - 1 \in Nat
    BY DEF WritersInv
  <2>2. c # b
    BY <1>2 DEF Busy
  <2> QED
    BY <1>4, <2>1, <2>2
<1>13. SlotStep
  BY <1>1, <1>7 DEF SlotStep
<1> QED
  BY <1>11, <1>12, <1>13

\* Every step keeps what is in the buffers.
LEMMA ContentsInvStep ==
  FlushInv /\ TicketInv /\ ContentsInv /\ [Next]_vars => ContentsInv'
<1> SUFFICES ASSUME FlushInv, TicketInv, ContentsInv, [Next]_vars, panics' = 0
             PROVE  WritersInv' /\ HoldersInv' /\ SlotsInv'
  BY DEF ContentsInv
<1>1. CASE Next
  <2> PICK t \in Threads : \/ \E c \in AppendCalls, m \in Messages : CallAppend(t, c, m)
                           \/ CallFlush(t) \/ CallClose(t) \/ CallAfterFlushDo(t)
                           \/ Continue(t) \/ Assemble(t) \/ AssemblePanics(t)
    BY <1>1 DEF Next
  <2>1. CASE AssemblePanics(t)
    BY <2>1 DEF AssemblePanics, FlushInv, TypeOK, VariablesOK
  <2>2. CASE ~AssemblePanics(t)
    <3>1. panics = 0
      BY <2>2 DEF CallAppend, CallFlush, CallClose, CallAfterFlushDo, Continue, Assemble,
        AppendIsClosed, AppendTicket, AppendWrite, AppendDone, BlockLoop, CanBlock, FlushIsEmpty,
        IncWhenDone, FlushLoad, FlushSwap, FlushSpin, WaitForFlush, AfterFlushDone, AssembleMessage,
        AssembleReturns, FlushingDone, historyVars
    <3>2. WritersInv /\ HoldersInv /\ SlotsInv
      BY <3>1 DEF ContentsInv
    <3>3. HoldersInv'
      BY <3>2, HoldersStep
    <3>4. WritersInv' /\ SlotsInv'
      BY <2>2, <3>1, <3>2, ContentsKept, SlotReserved, SlotWritten, SlotAssembled
         DEF Continue, Assemble
    <3> QED
      BY <3>3, <3>4
  <2> QED
    BY <2>1, <2>2
<1>2. CASE UNCHANGED vars
  <2>1. WritersInv /\ HoldersInv /\ SlotsInv
    BY <1>2 DEF ContentsInv, vars, historyVars
  <2>2. SameContents
    BY <1>2 DEF vars, sharedVars, historyVars, SameContents, WillBeFlushed
  <2>3. HoldersInv'
    BY <1>2, <2>1, HoldersFrame DEF vars, historyVars, Holding
  <2> QED
    BY <2>1, <2>2, <2>3, ContentsFrame
<1> QED
  BY <1>1, <1>2

\* Whatever flushes, closes and rotates at the same time, a message Append has accepted is
\* assembled or in a slot some flush will look at, and the assembly callback sees every
\* message at most once and nothing that was not accepted.
THEOREM EveryMessageOnce == Spec => []NeverLostNorDoubled
<1>1. FlushInv /\ ContentsInv => NeverLostNorDoubled
  <2> SUFFICES ASSUME FlushInv, ContentsInv, panics = 0
               PROVE  NeverLostNorDoubled
    BY DEF NeverLostNorDoubled, AcceptedNotLost, AssembledAtMostOnce
  <2>1. SlotsInv /\ VariablesOK
    BY DEF ContentsInv, FlushInv, TypeOK
  <2>2. \A m \in accepted : assembled[m] \in {0, 1}
    BY <2>1 DEF SlotsInv
  <2>3. AcceptedNotLost
    BY <2>1 DEF AcceptedNotLost, SlotsInv, Filled
  <2>4. AssembledAtMostOnce
    BY <2>1, <2>2, BatchAssumption DEF AssembledAtMostOnce, SlotsInv, VariablesOK
  <2> QED
    BY <2>3, <2>4 DEF NeverLostNorDoubled
<1> QED
  BY <1>1, FlushInvInit, FlushInvStep, TicketInvInit, TicketInvStep, ContentsInvInit, ContentsInvStep,
     PTL DEF Spec


-----------------------------------------------------------------------------
(* A close leaves nothing behind *)

\* Buffer b holds, and gets, only messages whose appends were past their check when it was closed.
OnlyLate(b) ==
  /\ \A i \in Slots : Filled(b, i) => messages[b][i] \in late
  /\ \A t \in Threads : pc[t] = "write" /\ set[t].idx = b => msg[t] \in late

\* Once a batch is closed only late messages draw tickets.
ClosedInv ==
  /\ \A t \in Threads : call[t] = "Close" => closed
  /\ \A t \in Threads : pc[t] = "waitForFlush" => call[t] = "Close"
  /\ closed => \A t \in Threads : pc[t] = "ticket" => msg[t] \in late
  /\ closeReturned => closed

\* A close that has swapped the buffers, or found nothing to flush, leaves only late messages
\* in the active one, and in both when it returns.
CloseInv ==
  panics = 0 =>
    /\ \A t \in Threads :
         pc[t] = "waitForFlush" \/ (pc[t] = "spin" /\ call[t] = "Close") => OnlyLate(activeSet.idx)
    /\ closeReturned /\ FlushTimeout = 0 => \A b \in Buffers : OnlyLate(b)

\* The batch is open at first.
LEMMA ClosedInvInit == Init => ClosedInv /\ CloseInv
BY DEF Init, ClosedInv, CloseInv

\* The steps of goroutine t.
StepOf(t) ==
  \/ \E c \in AppendCalls, m \in Messages : CallAppend(t, c, m)
  \/ CallFlush(t) \/ CallClose(t) \/ CallAfterFlushDo(t)
  \/ Continue(t) \/ Assemble(t) \/ AssemblePanics(t)

\* After the close only those draw tickets that had passed its check.
LEMMA ClosedStep ==
  ASSUME FlushInv, ClosedInv, NEW t \in Threads, StepOf(t)
  PROVE  ClosedInv'
<1> USE DEF sharedVars, historyVars, Goto
<1>0. VariablesOK /\ LocalsOK(t)
  BY DEF FlushInv, TypeOK
<1>1. CASE \E c \in AppendCalls, m \in Messages : CallAppend(t, c, m)
  <2> PICK c \in AppendCalls, m \in Messages : CallAppend(t, c, m)
    BY <1>1
  <2>1. /\ \A u \in Threads \ {t} : call'[u] = call[u] /\ pc'[u] = pc[u] /\ msg'[u] = msg[u]
        /\ call'[t] # "Close" /\ pc'[t] \in {"blockLoop", "isClosed"} /\ UNCHANGED <<closed, late, closeReturned>>
    BY <1>0 DEF CallAppend, VariablesOK, AppendCalls
  <2> QED
    BY <2>1 DEF ClosedInv
<1>10. CASE CallFlush(t) \/ CallAfterFlushDo(t)
  BY <1>0, <1>10 DEF ClosedInv, CallFlush, CallAfterFlushDo, VariablesOK
<1>2. CASE CallClose(t)
  BY <1>0, <1>2 DEF ClosedInv, CallClose, VariablesOK
<1>3. CASE AppendIsClosed(t) \/ AppendDone(t)
  BY <1>0, <1>3 DEF ClosedInv, AppendIsClosed, AppendDone, AppendFailed, Reject, VariablesOK
<1>4. CASE AppendTicket(t) \/ AppendWrite(t)
  BY <1>0, <1>4 DEF ClosedInv, AppendTicket, AppendWrite, VariablesOK
<1>5. CASE BlockLoop(t) \/ CanBlock(t)
  BY <1>0, <1>5 DEF ClosedInv, BlockLoop, CanBlock, Reject, VariablesOK
<1>6. CASE FlushIsEmpty(t) \/ FlushSpin(t)
  BY <1>0, <1>6 DEF ClosedInv, FlushIsEmpty, FlushSpin, FlushReturns, VariablesOK, LocalsOK, FlushingCalls
<1>7. CASE IncWhenDone(t) \/ FlushLoad(t) \/ FlushSwap(t) \/ AfterFlushDone(t)
  BY <1>0, <1>7 DEF ClosedInv, IncWhenDone, FlushLoad, FlushSwap, AfterFlushDone, VariablesOK
<1>8. CASE WaitForFlush(t)
  BY <1>0, <1>8 DEF ClosedInv, WaitForFlush, VariablesOK
<1>9. CASE Assemble(t) \/ AssemblePanics(t)
  BY <1>0, <1>9 DEF ClosedInv, Assemble, AssembleMessage, AssembleReturns, FlushingDone, AssemblePanics
<1> QED
  BY <1>1, <1>2, <1>3, <1>4, <1>5, <1>6, <1>7, <1>8, <1>9, <1>10 DEF StepOf, Continue

\* A goroutine writes the message it had when it drew the ticket.
LEMMA WritersKept ==
  ASSUME FlushInv, NEW t \in Threads, StepOf(t)
  PROVE  /\ late \subseteq late'
         /\ \A u \in Threads : pc'[u] = "write" =>
              msg'[u] = msg[u] /\ (pc[u] = "ticket" \/ (pc[u] = "write" /\ set'[u] = set[u]))
<1> USE DEF sharedVars, historyVars, Goto
<1>0. VariablesOK /\ LocalsOK(t)
  BY DEF FlushInv, TypeOK
<1>1. CASE \/ \E c \in AppendCalls, m \in Messages : CallAppend(t, c, m)
           \/ CallFlush(t) \/ CallAfterFlushDo(t) \/ CallClose(t)
  BY <1>0, <1>1 DEF CallAppend, CallFlush, CallAfterFlushDo, CallClose, VariablesOK
<1>3. CASE AppendIsClosed(t) \/ AppendDone(t)
  BY <1>0, <1>3 DEF AppendIsClosed, AppendDone, AppendFailed, Reject, VariablesOK
<1>4. CASE AppendTicket(t) \/ AppendWrite(t)
  BY <1>0, <1>4 DEF AppendTicket, AppendWrite, VariablesOK
<1>5. CASE BlockLoop(t) \/ CanBlock(t)
  BY <1>0, <1>5 DEF BlockLoop, CanBlock, Reject, VariablesOK
<1>6. CASE FlushIsEmpty(t) \/ FlushSpin(t)
  BY <1>0, <1>6 DEF FlushIsEmpty, FlushSpin, FlushReturns, VariablesOK, LocalsOK, FlushingCalls
<1>7. CASE IncWhenDone(t) \/ FlushLoad(t) \/ FlushSwap(t) \/ AfterFlushDone(t) \/ WaitForFlush(t)
  BY <1>0, <1>7 DEF IncWhenDone, FlushLoad, FlushSwap, AfterFlushDone, WaitForFlush, VariablesOK
<1>9. CASE Assemble(t) \/ AssemblePanics(t)
  BY <1>0, <1>9 DEF Assemble, AssembleMessage, AssembleReturns, FlushingDone, AssemblePanics
<1> QED
  BY <1>1, <1>3, <1>4, <1>5, <1>6, <1>7, <1>9 DEF StepOf, Continue

\* A closed batch gets only late messages.
LEMMA OnlyLateKept ==
  ASSUME FlushInv, ClosedInv, closed, NEW t \in Threads, StepOf(t), SlotStep, NEW b \in Buffers, OnlyLate(b)
  PROVE  /\ \A i \in Slots : Filled(b, i)' => messages'[b][i] \in late'
         /\ \A u \in Threads : pc'[u] = "write" /\ set'[u].idx = b => msg'[u] \in late'
<1>1. late \subseteq late' /\ \A u \in Threads : pc'[u] = "write" =>
        msg'[u] = msg[u] /\ (pc[u] = "ticket" \/ (pc[u] = "write" /\ set'[u] = set[u]))
  BY WritersKept
<1>2. \A u \in Threads : pc[u] = "ticket" => msg[u] \in late
  BY DEF ClosedInv
<1>3. ASSUME NEW i \in Slots, Filled(b, i)' PROVE messages'[b][i] \in late'
  BY <1>1, <1>3 DEF SlotStep, OnlyLate
<1>4. ASSUME NEW u \in Threads, pc'[u] = "write", set'[u].idx = b PROVE msg'[u] \in late'
  BY <1>1, <1>2, <1>4 DEF OnlyLate
<1> QED
  BY <1>3, <1>4

\* A buffer no flush will look at holds nothing.
LEMMA UnusedHoldsNothing ==
  ASSUME FlushInv, WritersInv, NEW b \in Buffers, \A i \in Nat : ~WillBeFlushed(b, i)
  PROVE  OnlyLate(b)
<1>1. \A i \in Slots : ~Filled(b, i)
  BY BatchAssumption DEF Filled, Slots
<1>2. ASSUME NEW u \in Threads, pc[u] = "write", set[u].idx = b PROVE FALSE
  <2> PICK n \in Nat : set[u].count = n
    BY DEF FlushInv, TypeOK, VariablesOK, Sets
  <2>1. n > 0 /\ WillBeFlushed(b, n - 1)
    BY <1>2 DEF WritersInv
  <2> QED
    BY <2>1
<1> QED
  BY <1>1, <1>2 DEF OnlyLate


\* The buffer a flush swaps in is one.
LEMMA SwappedIn ==
  ASSUME FlushInv, TicketInv, WritersInv, panics = 0, NEW t \in Threads, FlushSwap(t)
  PROVE  activeSet'.idx \in Buffers /\ activeSet'.idx # activeSet.idx /\ OnlyLate(activeSet'.idx)
<1>1. /\ pc[t] = "swap" /\ activeSet'.idx = 1 - set[t].idx /\ VariablesOK /\ OneFlushAtATime
  BY DEF FlushSwap, FlushInv, TypeOK
<1>2. set[t].idx = activeSet.idx /\ activeSet.idx \in {0, 1}
  BY <1>1 DEF TicketInv, VariablesOK, Sets, Buffers
<1>3. activeSet'.idx \in {0, 1} /\ activeSet'.idx # activeSet.idx
  BY <1>1, <1>2
<1>4. \A u \in Threads : pc[u] # "spin" /\ async[u].pc # "assemble"
  BY <1>1 DEF OneFlushAtATime, HoldsFlush
<1>5. \A i \in Nat : ~WillBeFlushed(activeSet'.idx, i)
  BY <1>3, <1>4 DEF WillBeFlushed
<1> QED
  BY <1>3, <1>5, UnusedHoldsNothing DEF Buffers

\* A close that has nothing to flush.
LEMMA NothingToFlush ==
  ASSUME FlushInv, TicketInv, WritersInv, panics = 0, activeSet.count = 0
  PROVE  OnlyLate(activeSet.idx)
<1>1. activeSet.idx \in Buffers /\ VariablesOK
  BY DEF FlushInv, TypeOK, VariablesOK, Sets
<1>2. ASSUME NEW i \in Nat, WillBeFlushed(activeSet.idx, i) PROVE FALSE
  <2>1. ~(i < activeSet.count)
    BY <1>2
  <2>2. ASSUME NEW u \in Threads, pc[u] = "spin", set[u].idx = activeSet.idx PROVE FALSE
    <3>1. set[u].count \in Nat
      BY <1>1 DEF VariablesOK, Sets
    <3> QED
      BY <1>1, <2>2, <3>1 DEF TicketInv
  <2>3. ASSUME NEW u \in Threads, async[u].pc = "assemble", async[u].set.idx = activeSet.idx PROVE FALSE
    BY <1>1, <2>3 DEF TicketInv
  <2> QED
    BY <1>2, <2>1, <2>2, <2>3 DEF WillBeFlushed
<1> QED
  BY <1>1, <1>2, UnusedHoldsNothing

\* The wait at the end of Close is over when nobody flushes, so what is left is in the active buffer.
LEMMA NobodyFlushes ==
  ASSUME FlushInv, WritersInv, flushing <= 0, OnlyLate(activeSet.idx), NEW b \in Buffers
  PROVE  OnlyLate(b)
<1>1. VariablesOK /\ OneFlushAtATime
  BY DEF FlushInv, TypeOK
<1>2. flushing = 0
  BY <1>1 DEF VariablesOK
<1>3. \A u \in Threads : ~HoldsFlush(u) /\ async[u].pc = "none"
  BY <1>1, <1>2 DEF OneFlushAtATime
<1>4. CASE b = activeSet.idx
  BY <1>4
<1>5. CASE b # activeSet.idx
  <2>1. \A i \in Nat : ~WillBeFlushed(b, i)
    BY <1>3, <1>5 DEF WillBeFlushed, HoldsFlush
  <2> QED
    BY <2>1, UnusedHoldsNothing
<1> QED
  BY <1>4, <1>5

\* How a goroutine comes to the wait at the end of Close.
LEMMA ClosePhases ==
  ASSUME FlushInv, NEW t \in Threads, StepOf(t)
  PROVE  /\ FlushSwap(t) \/ activeSet'.idx = activeSet.idx
         /\ \A u \in Threads : pc'[u] = "waitForFlush" \/ (pc'[u] = "spin" /\ call'[u] = "Close") =>
              \/ pc[u] = "waitForFlush" \/ (pc[u] = "spin" /\ call[u] = "Close")
              \/ u = t /\ FlushSwap(t)
              \/ u = t /\ activeSet.count = 0
         /\ closeReturned' => closeReturned \/ (pc[t] = "waitForFlush" /\ (flushing <= 0 \/ FlushTimeout > 0))
<1> USE DEF sharedVars, historyVars, Goto
<1>0. VariablesOK /\ LocalsOK(t)
  BY DEF FlushInv, TypeOK
<1>1. CASE \/ \E c \in AppendCalls, m \in Messages : CallAppend(t, c, m)
           \/ CallFlush(t) \/ CallAfterFlushDo(t) \/ CallClose(t)
  BY <1>0, <1>1 DEF CallAppend, CallFlush, CallAfterFlushDo, CallClose, VariablesOK
<1>2. CASE AppendIsClosed(t) \/ AppendDone(t)
  BY <1>0, <1>2 DEF AppendIsClosed, AppendDone, AppendFailed, Reject, VariablesOK
<1>3. CASE AppendTicket(t)
  <2>1. activeSet'.idx = activeSet.idx
    BY <1>0, <1>3, TicketAssumption, BatchAssumption DEF AppendTicket, Increment, VariablesOK, Sets
  <2> QED
    BY <1>0, <1>3, <2>1 DEF AppendTicket, VariablesOK
<1>4. CASE AppendWrite(t)
  BY <1>0, <1>4 DEF AppendWrite, VariablesOK
<1>5. CASE BlockLoop(t) \/ CanBlock(t)
  BY <1>0, <1>5 DEF BlockLoop, CanBlock, Reject, VariablesOK
<1>6. CASE FlushIsEmpty(t)
  BY <1>0, <1>6 DEF FlushIsEmpty, FlushReturns, VariablesOK
<1>7. CASE FlushSpin(t)
  <2>1. pc'[t] = "waitForFlush" => call[t] = "Close"
    BY <1>0, <1>7 DEF FlushSpin, FlushReturns, VariablesOK, LocalsOK, FlushingCalls
  <2>2. /\ pc[t] = "spin" /\ pc'[t] # "spin" /\ UNCHANGED <<activeSet, call, closeReturned>>
        /\ \A u \in Threads \ {t} : pc'[u] = pc[u]
    BY <1>0, <1>7 DEF FlushSpin, FlushReturns, VariablesOK, LocalsOK, FlushingCalls
  <2> QED
    BY <2>1, <2>2
<1>8. CASE IncWhenDone(t) \/ FlushLoad(t) \/ AfterFlushDone(t) \/ WaitForFlush(t)
  BY <1>0, <1>8 DEF IncWhenDone, FlushLoad, AfterFlushDone, WaitForFlush, VariablesOK
<1>9. CASE FlushSwap(t)
  <2>1. /\ \A u \in Threads \ {t} : pc'[u] = pc[u] 
        /\ UNCHANGED <<call, closeReturned>>
    BY <1>0, <1>9 DEF FlushSwap, VariablesOK
  <2> QED
    BY <1>9, <2>1
<1>10. CASE Assemble(t) \/ AssemblePanics(t)
  BY <1>0, <1>10 DEF Assemble, AssembleMessage, AssembleReturns, FlushingDone, AssemblePanics
<1> QED
  BY <1>1, <1>2, <1>3, <1>4, <1>5, <1>6, <1>7, <1>8, <1>9, <1>10 DEF StepOf, Continue


\* A close that is through has emptied both buffers, and they stay so.
LEMMA CloseStep ==
  ASSUME FlushInv, TicketInv, ContentsInv, ClosedInv, ClosedInv', CloseInv, panics = 0,
         NEW t \in Threads, StepOf(t), ~AssemblePanics(t)
  PROVE  CloseInv'
<1>1. WritersInv /\ HoldersInv /\ SlotsInv /\ VariablesOK
  BY DEF ContentsInv, FlushInv, TypeOK
<1>2. SlotStep
  BY <1>1, ContentsKept, SlotReserved, SlotWritten, SlotAssembled DEF StepOf, Continue, Assemble
<1>3. activeSet.idx \in Buffers /\ activeSet'.idx \in Buffers
  <2>1. activeSet.idx \in Buffers
    BY <1>1 DEF VariablesOK, Sets
  <2>2. activeSet'.idx = activeSet.idx \/ FlushSwap(t)
    BY ClosePhases
  <2> QED
    BY <1>1, <2>1, <2>2, SwappedIn
<1>4. closed => closed'
  BY DEF StepOf, Continue, Assemble, CallAppend, CallFlush, CallClose, CallAfterFlushDo,
    AppendIsClosed, AppendTicket, AppendWrite, AppendDone, BlockLoop, CanBlock, FlushIsEmpty,
    IncWhenDone, FlushLoad, FlushSwap, FlushSpin, WaitForFlush, AfterFlushDone, AssembleMessage,
    AssembleReturns, FlushingDone, AssemblePanics, sharedVars
<1>5. ASSUME NEW b \in Buffers, OnlyLate(b), closed PROVE OnlyLate(b)'
  BY <1>2, <1>5, OnlyLateKept DEF OnlyLate
<1>6. ASSUME NEW u \in Threads, pc'[u] = "waitForFlush" \/ (pc'[u] = "spin" /\ call'[u] = "Close")
      PROVE  OnlyLate(activeSet'.idx) /\ closed
  <2>1. \/ pc[u] = "waitForFlush" \/ (pc[u] = "spin" /\ call[u] = "Close")
        \/ u = t /\ FlushSwap(t)
        \/ u = t /\ activeSet.count = 0 /\ ~FlushSwap(t)
    BY <1>6, ClosePhases
  <2>2. closed
    <3>1. CASE pc[u] = "waitForFlush" \/ (pc[u] = "spin" /\ call[u] = "Close")
      BY <3>1 DEF ClosedInv
    <3>2. CASE CallClose(t)
      <4>1. pc'[t] = "isEmpty" /\ u # t
        BY <1>1, <1>6, <3>2 DEF CallClose, Goto, VariablesOK
      <4> QED
        BY <2>1, <3>1, <4>1
    <3>3. CASE ~CallClose(t)
      <4>1. closed' = closed
        BY <3>3 DEF StepOf, Continue, Assemble, CallAppend, CallFlush, CallAfterFlushDo,
          AppendIsClosed, AppendTicket, AppendWrite, AppendDone, BlockLoop, CanBlock, FlushIsEmpty,
          IncWhenDone, FlushLoad, FlushSwap, FlushSpin, WaitForFlush, AfterFlushDone, AssembleMessage,
          AssembleReturns, FlushingDone, AssemblePanics, sharedVars
      <4>2. call'[u] = "Close"
        BY <1>6 DEF ClosedInv
      <4> QED
        BY <4>1, <4>2 DEF ClosedInv
    <3> QED
      BY <3>1, <3>2, <3>3
  <2>3. CASE FlushSwap(t)
    BY <1>1, <2>2, <2>3, SwappedIn
  <2>4. CASE ~FlushSwap(t) /\ activeSet.count = 0
    BY <1>1, <2>2, <2>4, ClosePhases, NothingToFlush
  <2>5. CASE ~FlushSwap(t) /\ (pc[u] = "waitForFlush" \/ (pc[u] = "spin" /\ call[u] = "Close"))
    <3>1. OnlyLate(activeSet.idx)
      BY <2>5 DEF CloseInv
    <3>2. activeSet'.idx = activeSet.idx
      BY <2>5, ClosePhases
    <3> QED
      BY <2>2, <3>1, <3>2
  <2> QED
    BY <2>1, <2>3, <2>4, <2>5
<1>7. ASSUME closeReturned', FlushTimeout = 0, NEW b \in Buffers
      PROVE  OnlyLate(b) /\ closed
  <2>1. CASE closeReturned
    BY <1>7, <2>1 DEF CloseInv, ClosedInv
  <2>2. CASE pc[t] = "waitForFlush" /\ flushing <= 0
    <3>1. OnlyLate(activeSet.idx) /\ closed
      BY <2>2 DEF CloseInv, ClosedInv
    <3> QED
      BY <1>1, <2>2, <3>1, NobodyFlushes
  <2>3. ~(FlushTimeout > 0)
    BY <1>7
  <2> QED
    BY <1>7, <2>1, <2>2, <2>3, ClosePhases
<1>8. ASSUME NEW u \in Threads, pc'[u] = "waitForFlush" \/ (pc'[u] = "spin" /\ call'[u] = "Close")
      PROVE  OnlyLate(activeSet.idx)'
  <2>1. \A b \in Buffers : OnlyLate(b) => OnlyLate(b)'
    BY <1>5, <1>6, <1>8
  <2>2. OnlyLate(activeSet'.idx)
    BY <1>6, <1>8
  <2>3. \A b \in Buffers : b = activeSet'.idx /\ OnlyLate(b)' => OnlyLate(activeSet.idx)'
    BY DEF OnlyLate, Filled, WillBeFlushed, Writing
  <2> QED
    BY <1>3, <2>1, <2>2, <2>3
<1>9. closeReturned' /\ FlushTimeout = 0 => \A b \in Buffers : OnlyLate(b)'
  BY <1>5, <1>7
<1> QED
  BY <1>8, <1>9 DEF CloseInv

\* All that holds of a batch together.
BatchInv == FlushInv /\ TicketInv /\ ContentsInv /\ ClosedInv /\ CloseInv

\* Each of its parts is kept by a step that starts with all of them.
LEMMA BatchInvariant == Spec => []BatchInv
<1>1. FlushInv /\ TicketInv /\ ContentsInv /\ ClosedInv /\ CloseInv /\ [Next]_vars => ClosedInv' /\ CloseInv'
  <2> SUFFICES ASSUME FlushInv, TicketInv, ContentsInv, ClosedInv, CloseInv, [Next]_vars
               PROVE  ClosedInv' /\ CloseInv'
    OBVIOUS
  <2>1. CASE UNCHANGED vars
    <3>1. ClosedInv'
      BY <2>1 DEF ClosedInv, vars, sharedVars, historyVars
    <3>2. \A b : OnlyLate(b)' <=> OnlyLate(b)
      BY <2>1 DEF OnlyLate, Filled, WillBeFlushed, Writing, vars, sharedVars, historyVars
    <3>3. OnlyLate(activeSet.idx)' <=> OnlyLate(activeSet.idx)
      BY <2>1 DEF OnlyLate, Filled, WillBeFlushed, Writing, vars, sharedVars, historyVars
    <3> QED
      BY <2>1, <3>1, <3>2, <3>3 DEF CloseInv, vars, sharedVars, historyVars
  <2>2. ASSUME NEW t \in Threads, StepOf(t) PROVE ClosedInv' /\ CloseInv'
    <3>1. ClosedInv'
      BY <2>2, ClosedStep
    <3>2. CASE AssemblePanics(t)
      BY <3>1, <3>2 DEF CloseInv, AssemblePanics, FlushInv, TypeOK, VariablesOK
    <3>3. CASE ~AssemblePanics(t)
      <4>1. panics' = panics
        BY <2>2, <3>3 DEF StepOf, CallAppend, CallFlush, CallClose, CallAfterFlushDo, Continue, Assemble,
          AppendIsClosed, AppendTicket, AppendWrite, AppendDone, BlockLoop, CanBlock, FlushIsEmpty,
          IncWhenDone, FlushLoad, FlushSwap, FlushSpin, WaitForFlush, AfterFlushDone, AssembleMessage,
          AssembleReturns, FlushingDone, historyVars
      <4>2. CASE panics # 0
        BY <3>1, <4>1, <4>2 DEF CloseInv
      <4>3. CASE panics = 0
        BY <2>2, <3>1, <3>3, <4>3, CloseStep
      <4> QED
        BY <4>2, <4>3
    <3> QED
      BY <3>2, <3>3
  <2> QED
    BY <2>1, <2>2 DEF Next, StepOf
<1> QED
  BY <1>1, ClosedInvInit, FlushInvInit, FlushInvStep, TicketInvInit, TicketInvStep, ContentsInvInit,
     ContentsInvStep, PTL DEF Spec, BatchInv

\* After Close has returned, everything accepted before it has been assembled once, but for
\* appends that had passed their IsClosed check: the close has swapped the buffers or found the
\* active one empty, and has waited for every flush.
THEOREM CloseLosesNothing == Spec => []CloseFlushesAll
<1>1. BatchInv => CloseFlushesAll
  <2> SUFFICES ASSUME BatchInv, closeReturned, FlushTimeout = 0, panics = 0,
                      NEW m \in accepted \ late
               PROVE  assembled[m] = 1
    BY DEF CloseFlushesAll
  <2>1. SlotsInv /\ \A b \in Buffers : OnlyLate(b)
    BY DEF BatchInv, ContentsInv, CloseInv
  <2> QED
    BY <2>1 DEF SlotsInv, OnlyLate
<1> QED
  BY <1>1, BatchInvariant, PTL

-----------------------------------------------------------------------------
(* A batch is what its users are promised *)

\* A message is refused once it has left the method it was passed to, and not accepted; messages
\* are late only in a batch that is closed.
RefusedInv ==
  /\ late # {} => closed
  /\ panics = 0 => /\ rejected \cap fresh = {}
                   /\ \A t \in Threads : Holding(t) => msg[t] \notin rejected

\* What its users can see of a batch.
Visible == <<accepted, assembled, late, rejected, closed, closeReturned, panics>>

\* What a step of t does as far as they can see: nothing,
Hidden == UNCHANGED Visible
\* or it accepts a message, or refuses it,
Accepts(t) ==
  /\ Holding(t) /\ accepted' = accepted \cup {msg[t]}
  /\ UNCHANGED <<assembled, late, rejected, closed, closeReturned, panics>>
Refuses(t) ==
  /\ Holding(t) /\ ~Holding(t)' /\ rejected' = rejected \cup {msg[t]}
  /\ UNCHANGED <<accepted, assembled, late, closed, closeReturned, panics>>
\* or closes it, or returns from that,
Closes ==
  /\ closed' = TRUE /\ late' = late \cup {msg[u] : u \in {v \in Threads : pc[v] = "ticket"}}
  /\ UNCHANGED <<accepted, assembled, rejected, closeReturned, panics>>
Returns(t) ==
  /\ pc[t] = "waitForFlush" /\ closeReturned' = TRUE
  /\ UNCHANGED <<accepted, assembled, late, rejected, closed, panics>>
\* or the callback looks at a slot, or panics.
Assembles ==
  /\ \E m \in Messages \cup {NoMessage} : assembled' = [assembled EXCEPT ![m] = @ + 1]
  /\ UNCHANGED <<accepted, late, rejected, closed, closeReturned, panics>>
Panics ==
  /\ panics' = panics + 1
  /\ UNCHANGED <<accepted, assembled, late, rejected, closed, closeReturned>>

VisibleStep(t) == Hidden \/ Accepts(t) \/ Refuses(t) \/ Closes \/ Returns(t) \/ Assembles \/ Panics

\* Every step is one of these.
LEMMA StepsAreVisible ==
  ASSUME FlushInv, NEW t \in Threads, StepOf(t)
  PROVE  VisibleStep(t)
<1> USE DEF sharedVars, historyVars, Goto
<1>0. VariablesOK /\ LocalsOK(t)
  BY DEF FlushInv, TypeOK
<1>1. ASSUME NEW c \in AppendCalls, NEW m \in Messages, CallAppend(t, c, m) PROVE Hidden
  BY <1>1 DEF CallAppend, Hidden, Visible
<1>2. CASE AppendWrite(t)
  <2>1. CASE Fits(set[t])
    <3>1. Holding(t)
      BY <1>0, <1>2 DEF AppendWrite, Holding, LocalsOK
    <3> QED
      BY <1>2, <2>1, <3>1 DEF AppendWrite, VisibleStep, Accepts
  <2>2. CASE ~Fits(set[t])
    BY <1>2, <2>2 DEF AppendWrite, VisibleStep, Hidden, Visible
  <2> QED
    BY <2>1, <2>2
<1>3. CASE AppendIsClosed(t) \/ AppendDone(t) \/ BlockLoop(t) \/ CanBlock(t)
  <2>1. CASE rejected' = rejected
    BY <1>3, <2>1 DEF AppendIsClosed, AppendDone, BlockLoop, CanBlock, AppendFailed, VisibleStep, Hidden, Visible
  <2>2. CASE rejected' # rejected
    <3>1. rejected' = rejected \cup {msg[t]} /\ pc'[t] = "idle"
      BY <1>0, <1>3, <2>2 DEF AppendIsClosed, AppendDone, BlockLoop, CanBlock, AppendFailed, Reject, VariablesOK
    <3>2. Holding(t)
      BY <1>0, <1>3, <2>2 DEF AppendIsClosed, AppendDone, BlockLoop, CanBlock, AppendFailed, Reject, Holding,
         LocalsOK, AppendCalls
    <3>3. UNCHANGED <<accepted, assembled, late, closed, closeReturned, panics>>
      BY <1>3 DEF AppendIsClosed, AppendDone, BlockLoop, CanBlock
    <3> QED
      BY <3>1, <3>2, <3>3 DEF VisibleStep, Refuses, Holding
  <2> QED
    BY <2>1, <2>2
<1>4. CASE CallClose(t)
  BY <1>4 DEF CallClose, VisibleStep, Closes
<1>5. CASE WaitForFlush(t)
  BY <1>5 DEF WaitForFlush, VisibleStep, Returns
<1>6. CASE AssembleMessage(t)
  <2>1. messages[async[t].set.idx][async[t].pos] \in Messages \cup {NoMessage}
    <3>1. async[t].set.idx \in Buffers /\ async[t].pos \in Slots
      BY <1>0, <1>6, BatchAssumption DEF AssembleMessage, VariablesOK, Sets, MessageCount, Slots
    <3> QED
      BY <1>0, <3>1 DEF VariablesOK
  <2> QED
    BY <1>6, <2>1 DEF AssembleMessage, VisibleStep, Assembles
<1>7. CASE AssemblePanics(t)
  BY <1>7 DEF AssemblePanics, VisibleStep, Panics
<1>8. CASE CallFlush(t) \/ CallAfterFlushDo(t) \/ AppendTicket(t) \/ FlushIsEmpty(t) \/ IncWhenDone(t)
           \/ FlushLoad(t) \/ FlushSwap(t) \/ FlushSpin(t) \/ AfterFlushDone(t) \/ AssembleReturns(t) \/ FlushingDone(t)
  BY <1>8 DEF CallFlush, CallAfterFlushDo, AppendTicket, FlushIsEmpty, IncWhenDone, FlushLoad, FlushSwap,
     FlushSpin, AfterFlushDone, AssembleReturns, FlushingDone, VisibleStep, Hidden, Visible
<1> QED
  BY <1>1, <1>2, <1>3, <1>4, <1>5, <1>6, <1>7, <1>8 DEF StepOf, Continue, Assemble, VisibleStep

\* A message that is held after a step was held before, or was not passed to a method yet.
LEMMA HeldBefore ==
  ASSUME FlushInv, NEW t \in Threads, StepOf(t)
  PROVE  /\ fresh' \subseteq fresh
         /\ \A u \in Threads : Holding(u)' => msg'[u] \in fresh \/ (Holding(u) /\ msg'[u] = msg[u])
<1> USE DEF sharedVars, historyVars, Goto
<1>0. VariablesOK /\ LocalsOK(t)
  BY DEF FlushInv, TypeOK
<1>1. ASSUME NEW c \in AppendCalls, NEW m \in Messages, CallAppend(t, c, m)
      PROVE  /\ fresh' \subseteq fresh /\ msg'[t] \in fresh
             /\ \A u \in Threads \ {t} : Holding(u)' = Holding(u) /\ msg'[u] = msg[u]
  BY <1>0, <1>1 DEF CallAppend, Holding, VariablesOK
<1> DEFINE Kept == fresh' = fresh /\ \A u \in Threads : Holding(u)' => Holding(u) /\ msg'[u] = msg[u]
<1>2. CASE AppendWrite(t)
  BY <1>0, <1>2 DEF AppendWrite, Holding, VariablesOK, LocalsOK
<1>3. CASE CallFlush(t) \/ CallClose(t) \/ CallAfterFlushDo(t)
  BY <1>0, <1>3 DEF CallFlush, CallClose, CallAfterFlushDo, Holding, VariablesOK, AppendCalls
<1>4. CASE AppendIsClosed(t) \/ AppendTicket(t)
  BY <1>0, <1>4 DEF AppendIsClosed, AppendTicket, AppendFailed, Reject, Holding, VariablesOK, LocalsOK
<1>5. CASE AppendDone(t)
  BY <1>0, <1>5 DEF AppendDone, AppendFailed, Reject, Holding, VariablesOK, LocalsOK
<1>6. CASE BlockLoop(t) \/ CanBlock(t)
  BY <1>0, <1>6 DEF BlockLoop, CanBlock, Reject, Holding, VariablesOK, LocalsOK, AppendCalls
<1>7. CASE FlushIsEmpty(t) \/ IncWhenDone(t) \/ FlushSpin(t)
  BY <1>0, <1>7 DEF FlushIsEmpty, IncWhenDone, FlushSpin, FlushReturns, Holding, VariablesOK
<1>8. CASE FlushLoad(t) \/ FlushSwap(t) \/ WaitForFlush(t) \/ AfterFlushDone(t)
  BY <1>0, <1>8 DEF FlushLoad, FlushSwap, WaitForFlush, AfterFlushDone, Holding, VariablesOK
<1>9. CASE Assemble(t) \/ AssemblePanics(t)
  <2>1. UNCHANGED <<fresh, pc, call, msg, set>>
    BY <1>9 DEF Assemble, AssembleMessage, AssembleReturns, FlushingDone, AssemblePanics
  <2> QED
    BY <2>1 DEF Holding
<1> QED
  BY <1>1, <1>2, <1>3, <1>4, <1>5, <1>6, <1>7, <1>8, <1>9 DEF StepOf, Continue

\* A message that is refused is held by one goroutine, which lets go of it with that step.
LEMMA RefusedStep ==
  ASSUME FlushInv, ContentsInv, RefusedInv, NEW t \in Threads, StepOf(t)
  PROVE  RefusedInv'
<1>1. VisibleStep(t)
  BY StepsAreVisible
<1>2. /\ fresh' \subseteq fresh
      /\ \A u \in Threads : Holding(u)' => msg'[u] \in fresh \/ (Holding(u) /\ msg'[u] = msg[u])
  BY HeldBefore
<1>3. panics \in Nat
  BY DEF FlushInv, TypeOK, VariablesOK
<1>4. late' # {} => closed'
  BY <1>1 DEF VisibleStep, Hidden, Visible, Accepts, Refuses, Closes, Returns, Assembles, Panics, RefusedInv
<1>5. ASSUME panics' = 0, NEW m, m \in rejected', m \in fresh' \/ \E u \in Threads : Holding(u)' /\ m = msg'[u]
      PROVE  FALSE
  <2>1. panics = 0 /\ HoldersInv
    BY <1>1, <1>3, <1>5
       DEF VisibleStep, Hidden, Visible, Accepts, Refuses, Closes, Returns, Assembles, Panics, ContentsInv
  <2>2. m \notin rejected
    BY <1>2, <1>5, <2>1 DEF RefusedInv
  <2>3. Refuses(t) /\ m = msg[t]
    BY <1>1, <1>5, <2>2
       DEF VisibleStep, Hidden, Visible, Accepts, Refuses, Closes, Returns, Assembles, Panics
  <2>4. Holding(t) /\ ~Holding(t)'
    BY <2>3 DEF Refuses
  <2>5. m \notin fresh
    BY <2>1, <2>3, <2>4 DEF HoldersInv
  <2>6. PICK u \in Threads : Holding(u)' /\ Holding(u) /\ msg[u] = m
    BY <1>2, <1>5, <2>5
  <2> QED
    BY <2>1, <2>3, <2>4, <2>6 DEF HoldersInv
<1> QED
  BY <1>4, <1>5 DEF RefusedInv

\* What was refused is not seen again.
LEMMA RefusedInvariant == Spec => []RefusedInv
<1>1. Init => RefusedInv
  BY DEF Init, RefusedInv, Holding
<1>2. BatchInv /\ RefusedInv /\ [Next]_vars => RefusedInv'
  <2> SUFFICES ASSUME BatchInv, RefusedInv, [Next]_vars PROVE RefusedInv'
    OBVIOUS
  <2>1. CASE UNCHANGED vars
    BY <2>1 DEF vars, sharedVars, historyVars, RefusedInv, Holding
  <2>2. CASE Next
    BY <2>2, RefusedStep DEF Next, StepOf, BatchInv
  <2> QED
    BY <2>1, <2>2
<1> QED
  BY <1>1, <1>2, BatchInvariant, PTL DEF Spec

\* A step of the batch that is promised, or none.
PromisedStep == [BatchOfMessages!Next]_BatchOfMessages!vars

\* What nobody can see.
LEMMA PromisesStutter ==
  ASSUME Hidden
  PROVE  PromisedStep
BY DEF Hidden, Visible, PromisedStep, BatchOfMessages!vars, Accepted, Intact

\* When all promises have ended.
LEMMA NothingPromised ==
  ASSUME BatchInv, panics # 0, NEW t \in Threads, VisibleStep(t)
  PROVE  PromisedStep
<1>1. panics \in Nat /\ panics' \in Nat /\ panics' # 0
  <2>1. panics \in Nat
    BY DEF BatchInv, FlushInv, TypeOK, VariablesOK
  <2> QED
    BY <2>1 DEF VisibleStep, Hidden, Visible, Accepts, Refuses, Closes, Returns, Assembles, Panics
<1>2. /\ Accepted = {} /\ Accepted' = {} /\ Intact(rejected) = {} /\ (Intact(rejected))' = {}
      /\ (panics > 0)' = (panics > 0)
  BY <1>1 DEF Accepted, Intact
<1>3. CASE closed' = closed /\ closeReturned' = closeReturned
  BY <1>1, <1>2, <1>3 DEF PromisedStep, BatchOfMessages!vars
<1>4. CASE Closes
  <2>1. BatchOfMessages!Close
    BY <1>1, <1>2, <1>4 DEF Closes, BatchOfMessages!Close
  <2> QED
    BY <2>1 DEF PromisedStep, BatchOfMessages!Next
<1>5. CASE Returns(t)
  <2>1. closed
    BY <1>5 DEF Returns, BatchInv, ClosedInv
  <2>2. BatchOfMessages!Return
    BY <1>1, <1>2, <1>5, <2>1 DEF Returns, BatchOfMessages!Return
  <2> QED
    BY <2>2 DEF PromisedStep, BatchOfMessages!Next
<1>6. CASE Hidden \/ Accepts(t) \/ Refuses(t) \/ Assembles \/ Panics
  BY <1>3, <1>6 DEF Hidden, Visible, Accepts, Refuses, Assembles, Panics
<1> QED
  BY <1>4, <1>5, <1>6 DEF VisibleStep

\* A message that is held is new to the batch.
LEMMA HeldIsNew ==
  ASSUME BatchInv, RefusedInv, panics = 0, NEW t \in Threads, Holding(t)
  PROVE  /\ msg[t] \in Messages /\ msg[t] \notin accepted /\ msg[t] \notin rejected /\ assembled[msg[t]] = 0
         /\ BatchOfMessages!New(msg[t])
<1>1. msg[t] \in Messages /\ msg[t] \notin accepted /\ msg[t] \notin rejected
  BY DEF BatchInv, ContentsInv, HoldersInv, RefusedInv, FlushInv, TypeOK, LocalsOK, Holding
<1>2. assembled[msg[t]] = 0
  BY <1>1 DEF BatchInv, ContentsInv, SlotsInv
<1> QED
  BY <1>1, <1>2 DEF BatchOfMessages!New, Accepted, Intact

\* While the callback has not panicked every step is one that is promised.
LEMMA PromisesKept ==
  ASSUME BatchInv, RefusedInv, NeverLostNorDoubled', CloseFlushesAll', panics = 0, NEW t \in Threads, StepOf(t)
  PROVE  PromisedStep
<1>1. VisibleStep(t) /\ VariablesOK
  BY StepsAreVisible DEF BatchInv, FlushInv, TypeOK
<1>2. CASE Hidden
  BY <1>2, PromisesStutter
<1>3. CASE Accepts(t)
  <2>1. PICK m \in Messages : m = msg[t] /\ m \notin accepted /\ assembled[m] = 0 /\ BatchOfMessages!New(m)
    BY <1>3, HeldIsNew DEF Accepts
  <2>2. Accepted' = Accepted \cup {m} /\ UNCHANGED <<assembled, late, rejected, closed, closeReturned, panics>>
    BY <1>3, <2>1 DEF Accepts, Accepted, Intact
  <2>3. CASE m \in late
    <3>1. closed
      BY <2>3 DEF RefusedInv
    <3>2. BatchOfMessages!AcceptLate(m)
      BY <2>1, <2>2, <2>3, <3>1 DEF BatchOfMessages!AcceptLate, Intact
    <3> QED
      BY <3>2 DEF PromisedStep, BatchOfMessages!Next
  <2>4. CASE m \notin late
    <3>1. ~(closeReturned /\ FlushTimeout = 0)
      <4> SUFFICES ASSUME closeReturned, FlushTimeout = 0 PROVE FALSE
        OBVIOUS
      <4>1. m \in accepted' \ late' /\ assembled'[m] = 0
        BY <1>3, <2>1, <2>2, <2>4 DEF Accepts
      <4> QED
        BY <2>2, <4>1 DEF CloseFlushesAll
    <3>2. BatchOfMessages!Accept(m)
      BY <2>1, <2>2, <2>4, <3>1 DEF BatchOfMessages!Accept, Intact
    <3> QED
      BY <3>2 DEF PromisedStep, BatchOfMessages!Next
  <2> QED
    BY <2>3, <2>4
<1>4. CASE Refuses(t)
  <2>1. PICK m \in Messages : m = msg[t] /\ BatchOfMessages!New(m)
    BY <1>4, HeldIsNew DEF Refuses
  <2>2. /\ (Intact(rejected))' = Intact(rejected) \cup {m} /\ Accepted' = Accepted
        /\ UNCHANGED <<assembled, late, closed, closeReturned, panics>>
    BY <1>4, <2>1 DEF Refuses, Accepted, Intact
  <2>3. BatchOfMessages!Refuse(m)
    BY <2>1, <2>2 DEF BatchOfMessages!Refuse
  <2> QED
    BY <2>3 DEF PromisedStep, BatchOfMessages!Next
<1>5. CASE Closes
  <2>1. ASSUME NEW u \in Threads, pc[u] = "ticket" PROVE msg[u] \notin accepted
    <3>1. Holding(u)
      BY <2>1 DEF Holding, BatchInv, FlushInv, TypeOK, LocalsOK
    <3> QED
      BY <3>1, HeldIsNew
  <2>2. Accepted' = Accepted /\ (Accepted \ late)' = Accepted \ late /\ (Accepted \cap late)' = Accepted \cap late
    BY <1>5, <2>1 DEF Closes, Accepted, Intact
  <2>3. BatchOfMessages!Close
    BY <1>5, <2>2 DEF Closes, BatchOfMessages!Close, Intact
  <2> QED
    BY <2>3 DEF PromisedStep, BatchOfMessages!Next
<1>6. CASE Returns(t)
  <2>1. closed
    BY <1>6 DEF Returns, BatchInv, ClosedInv
  <2>2. FlushTimeout = 0 => Accepted \ late = {}
    BY <1>6 DEF Returns, CloseFlushesAll, Accepted, Intact
  <2>3. BatchOfMessages!Return
    BY <1>6, <2>1, <2>2 DEF Returns, BatchOfMessages!Return, Accepted, Intact
  <2> QED
    BY <2>3 DEF PromisedStep, BatchOfMessages!Next
<1>7. CASE Assembles
  <2>1. PICK c \in Messages \cup {NoMessage} : assembled' = [assembled EXCEPT ![c] = @ + 1]
    BY <1>7 DEF Assembles
  <2>2. UNCHANGED <<accepted, late, rejected, closed, closeReturned, panics>>
    BY <1>7 DEF Assembles
  <2>3. assembled[c] \in Nat /\ assembled'[c] = assembled[c] + 1
    BY <1>1, <2>1 DEF VariablesOK
  <2>4. c # NoMessage
    BY <2>2, <2>3 DEF NeverLostNorDoubled, AssembledAtMostOnce
  <2>5. PICK m \in Messages : m = c
    BY <2>4
  <2>6. assembled[m] = 0 /\ m \in accepted
    BY <2>2, <2>3, <2>5 DEF NeverLostNorDoubled, AssembledAtMostOnce
  <2>7. m \in Accepted /\ Accepted' = Accepted \ {m}
    BY <1>1, <2>1, <2>2, <2>3, <2>5, <2>6 DEF Accepted, Intact, VariablesOK
  <2>8. BatchOfMessages!Hand(m)
    BY <2>1, <2>2, <2>5, <2>7 DEF BatchOfMessages!Hand, Intact
  <2> QED
    BY <2>8 DEF PromisedStep, BatchOfMessages!Next
<1>8. CASE Panics
  <2>1. panics' # 0 /\ panics' > 0
    BY <1>1, <1>8 DEF Panics, VariablesOK
  <2>2. Accepted' = {} /\ (Intact(rejected))' = {}
    BY <2>1 DEF Accepted, Intact
  <2>3. BatchOfMessages!Break
    BY <1>8, <2>1, <2>2 DEF Panics, BatchOfMessages!Break
  <2> QED
    BY <2>3 DEF PromisedStep, BatchOfMessages!Next
<1> QED
  BY <1>1, <1>2, <1>3, <1>4, <1>5, <1>6, <1>7, <1>8 DEF VisibleStep

\* A message batch implements what its users are promised (messagebatch.go): whatever goroutines
\* append, flush, close and rotate at the same time, an accepted message is handed to the
\* callback at most once and nothing else is, and a Close that waits leaves no other messages
\* than those that came too late for it.
THEOREM BatchKeepsPromises == Spec => BatchOfMessages!Safety
<1>1. Init => BatchOfMessages!Init
  BY DEF Init, BatchOfMessages!Init, Accepted, Intact
<1>2. BatchInv /\ RefusedInv /\ NeverLostNorDoubled' /\ CloseFlushesAll' /\ [Next]_vars => PromisedStep
  <2> SUFFICES ASSUME BatchInv, RefusedInv, NeverLostNorDoubled', CloseFlushesAll', [Next]_vars
               PROVE  PromisedStep
    OBVIOUS
  <2>1. CASE UNCHANGED vars
    <3>1. Hidden
      BY <2>1 DEF vars, sharedVars, historyVars, Hidden, Visible
    <3> QED
      BY <3>1, PromisesStutter
  <2>2. ASSUME NEW t \in Threads, StepOf(t) PROVE PromisedStep
    <3>1. CASE panics = 0
      BY <2>2, <3>1, PromisesKept
    <3>2. CASE panics # 0
      <4>1. VisibleStep(t)
        BY <2>2, StepsAreVisible DEF BatchInv
      <4> QED
        BY <3>2, <4>1, NothingPromised
    <3> QED
      BY <3>1, <3>2
  <2> QED
    BY <2>1, <2>2 DEF Next, StepOf
<1> QED
  BY <1>1, <1>2, BatchInvariant, RefusedInvariant, EveryMessageOnce, CloseLosesNothing, PTL
  DEF Spec, PromisedStep, BatchOfMessages!Safety

-----------------------------------------------------------------------------
(* Waits have an end *)

\* The assembly never looks beyond the end of its slice.
InSlice == \A t \in Threads : async[t].pc = "assemble" => async[t].pos <= MessageCount(async[t].set)

\* An assembly stays inside of its slice.
LEMMA AlwaysInSlice == Spec => []InSlice
<1>1. Init => InSlice
  BY DEF Init, InSlice, NoAsync
<1>2. FlushInv /\ InSlice /\ [Next]_vars => InSlice'
  <2> SUFFICES ASSUME FlushInv, InSlice, [Next]_vars PROVE InSlice'
    OBVIOUS
  <2>1. VariablesOK
    BY DEF FlushInv, TypeOK
  <2>2. ASSUME NEW t \in Threads, FlushSpin(t) PROVE InSlice'
    <3>1. 0 <= MessageCount(set[t])
      BY <2>1, BatchAssumption DEF MessageCount, VariablesOK, Sets
    <3> QED
      BY <2>1, <2>2, <3>1 DEF FlushSpin, InSlice, VariablesOK, MessageCount
  <2>3. ASSUME NEW t \in Threads, AssembleMessage(t) PROVE InSlice'
    <3>1. MessageCount(async[t].set) \in Nat /\ async[t].pos \in Nat
      BY <2>1, BatchAssumption DEF MessageCount, VariablesOK, Sets
    <3>2. async[t].pos + 1 <= MessageCount(async[t].set)
      BY <2>3, <3>1 DEF AssembleMessage
    <3>3. /\ async'[t].pos = async[t].pos + 1 /\ async'[t].set = async[t].set
          /\ \A u \in Threads \ {t} : async'[u] = async[u]
      BY <2>1, <2>3 DEF AssembleMessage, VariablesOK
    <3> QED
      BY <3>2, <3>3 DEF InSlice, MessageCount
  <2>4. ASSUME NEW t \in Threads, AssemblePanics(t) \/ AssembleReturns(t) \/ FlushingDone(t) PROVE InSlice'
    BY <2>1, <2>4 DEF AssemblePanics, AssembleReturns, FlushingDone, InSlice, VariablesOK, NoAsync, MessageCount
  <2>5. CASE UNCHANGED async
    BY <2>5 DEF InSlice, MessageCount
  <2> QED
    BY <2>2, <2>3, <2>4, <2>5
    DEF Next, Continue, Assemble, CallAppend, CallFlush, CallClose, CallAfterFlushDo, AppendIsClosed, AppendTicket,
        AppendWrite, AppendDone, BlockLoop, CanBlock, FlushIsEmpty, IncWhenDone, FlushLoad, FlushSwap, WaitForFlush,
        AfterFlushDone, vars
<1> QED
  BY <1>1, <1>2, TypeCorrect, FlushIsExclusive, PTL DEF Spec, FlushInv

\* Who waits for the flush lock waits for somebody who has it; of those only a spin waits
\* itself, and it waits for writers, who do not wait; it does not miss the count it waits for.
WaitsForSomebody ==
  /\ flushing > 0 => \E u \in Threads : HoldsFlush(u) \/ async[u].pc # "none"
  /\ panics = 0 =>
       \A t \in Threads : pc[t] = "spin" =>
         /\ doneCount[set[t].idx] <= set[t].count
         /\ doneCount[set[t].idx] # set[t].count =>
              \E u \in Threads : pc[u] \in {"write", "done"} /\ set[u].idx = set[t].idx
  /\ InSlice

\* The flush lock and the spin of a flush ("wait for remaining writers to finish") never wait
\* for what nobody is going to do, unless an assembly callback has panicked.
THEOREM NobodyWaitsInVain == Spec => []WaitsForSomebody
<1>1. BatchInv /\ InSlice => WaitsForSomebody
  <2> SUFFICES ASSUME BatchInv, InSlice PROVE WaitsForSomebody
    OBVIOUS
  <2>1. VariablesOK /\ OneFlushAtATime /\ TicketInv
    BY DEF BatchInv, FlushInv, TypeOK
  <2>2. flushing > 0 => \E u \in Threads : HoldsFlush(u) \/ async[u].pc # "none"
    BY <2>1 DEF OneFlushAtATime
  <2>3. ASSUME panics = 0, NEW t \in Threads, pc[t] = "spin"
        PROVE  /\ doneCount[set[t].idx] <= set[t].count
               /\ doneCount[set[t].idx] # set[t].count =>
                    \E u \in Threads : pc[u] \in {"write", "done"} /\ set[u].idx = set[t].idx
    <3>1. set[t].idx \in Buffers /\ set[t].count \in Nat /\ doneCount[set[t].idx] \in Nat
      BY <2>1 DEF VariablesOK, Sets
    <3>2. TicketsAre(set[t].idx, set[t].count)
      BY <2>1, <2>3, <3>1 DEF TicketInv
    <3>3. Cardinality(Busy(set[t].idx)) \in Nat
      BY <3>2, FS_CardinalityType DEF TicketsAre
    <3>4. Busy(set[t].idx) = {} => Cardinality(Busy(set[t].idx)) = 0
      BY FS_EmptySet
    <3> QED
      BY <3>1, <3>2, <3>3, <3>4 DEF TicketsAre, Busy
  <2> QED
    BY <2>2, <2>3 DEF WaitsForSomebody
<1> QED
  BY <1>1, BatchInvariant, AlwaysInSlice, PTL

\* While a flush spins nobody becomes a writer of its buffer: it waits only for those who were
\* writing when it swapped the buffers.
WritersOnlyLeave ==
  [][panics' = 0 =>
       \A t, u \in Threads :
         pc[t] = "spin" /\ pc'[t] = "spin" /\ pc'[u] \in {"write", "done"} /\ set'[u].idx = set[t].idx =>
           pc[u] \in {"write", "done"} /\ set[u].idx = set[t].idx]_vars

\* New tickets are of the active buffer, which a spinning flush has swapped out.
THEOREM SpinWaitsForFewer == Spec => WritersOnlyLeave
<1> DEFINE Leave == panics' = 0 =>
             \A t, u \in Threads :
               pc[t] = "spin" /\ pc'[t] = "spin" /\ pc'[u] \in {"write", "done"} /\ set'[u].idx = set[t].idx =>
                 pc[u] \in {"write", "done"} /\ set[u].idx = set[t].idx
<1>1. BatchInv /\ [Next]_vars => [Leave]_vars
  <2> SUFFICES ASSUME BatchInv, [Next]_vars, vars' # vars, panics' = 0,
                      NEW t \in Threads, NEW u \in Threads, pc[t] = "spin", pc'[t] = "spin",
                      pc'[u] \in {"write", "done"}, set'[u].idx = set[t].idx
               PROVE  pc[u] \in {"write", "done"} /\ set[u].idx = set[t].idx
    BY Zenon
  <2>1. VariablesOK /\ TicketInv
    BY DEF BatchInv, FlushInv, TypeOK
  <2>2. PICK w \in Threads : StepOf(w)
    BY DEF Next, StepOf
  <2>3. panics = 0
    <3>1. CASE AssemblePanics(w)
      BY <2>1, <3>1 DEF AssemblePanics, VariablesOK
    <3>2. CASE ~AssemblePanics(w)
      <4>1. CASE \/ \E c \in AppendCalls, m \in Messages : CallAppend(w, c, m)
                 \/ CallFlush(w) \/ CallClose(w) \/ CallAfterFlushDo(w)
        BY <4>1 DEF CallAppend, CallFlush, CallClose, CallAfterFlushDo, historyVars
      <4>2. CASE AppendIsClosed(w) \/ AppendTicket(w) \/ AppendWrite(w) \/ AppendDone(w)
        BY <4>2 DEF AppendIsClosed, AppendTicket, AppendWrite, AppendDone, historyVars
      <4>3. CASE BlockLoop(w) \/ CanBlock(w) \/ FlushIsEmpty(w) \/ IncWhenDone(w) \/ FlushLoad(w)
        BY <4>3 DEF BlockLoop, CanBlock, FlushIsEmpty, IncWhenDone, FlushLoad, historyVars
      <4>4. CASE FlushSwap(w) \/ FlushSpin(w) \/ WaitForFlush(w) \/ AfterFlushDone(w)
        BY <4>4 DEF FlushSwap, FlushSpin, WaitForFlush, AfterFlushDone, historyVars
      <4>5. CASE Assemble(w)
        BY <3>2, <4>5 DEF Assemble, AssembleMessage, AssembleReturns, FlushingDone, historyVars
      <4> QED
        BY <2>2, <3>2, <4>1, <4>2, <4>3, <4>4, <4>5 DEF StepOf, Continue
    <3> QED
      BY <3>1, <3>2
  <2>4. set[t].idx \in Buffers /\ set[t].count \in Nat
    BY <2>1 DEF VariablesOK, Sets
  <2>5. activeSet.idx # set[t].idx
    BY <2>1, <2>3, <2>4 DEF TicketInv
  <2>6. CASE AppendTicket(w)
    <3>1. activeSet.count + 1 < CountRange
      BY <2>1, <2>6, TicketAssumption, BatchAssumption DEF AppendTicket, VariablesOK, Sets
    <3>2. set'[w].idx = activeSet.idx /\ \A v \in Threads \ {w} : set'[v] = set[v] /\ pc'[v] = pc[v]
      BY <2>1, <2>6, <3>1 DEF AppendTicket, Increment, VariablesOK, Sets, Goto
    <3> QED
      BY <2>5, <3>2
  <2>7. CASE ~AppendTicket(w)
    <3>1. pc[u] \in {"write", "done"}
      <4>1. CASE FlushIsEmpty(w) \/ FlushSpin(w)
        <5>1. call[w] \in FlushingCalls
          BY <4>1 DEF FlushIsEmpty, FlushSpin, BatchInv, FlushInv, TypeOK, LocalsOK
        <5>2. \E label \in {"idle", "waitForFlush", "canBlock", "incWhenDone"} : pc' = [pc EXCEPT ![w] = label]
          BY <4>1, <5>1 DEF FlushIsEmpty, FlushSpin, FlushReturns, Goto, FlushingCalls
        <5> QED
          BY <2>1, <5>2 DEF VariablesOK
      <4>2. CASE AppendWrite(w)
        BY <2>1, <4>2 DEF AppendWrite, Goto, VariablesOK
      <4>3. CASE Assemble(w) \/ AssemblePanics(w)
        BY <4>3 DEF Assemble, AssembleMessage, AssemblePanics, AssembleReturns, FlushingDone
      <4>4. CASE \/ \E c \in AppendCalls, m \in Messages : CallAppend(w, c, m)
                 \/ CallFlush(w) \/ CallClose(w) \/ CallAfterFlushDo(w)
        BY <2>1, <4>4 DEF CallAppend, CallFlush, CallClose, CallAfterFlushDo, Goto, VariablesOK
      <4>5. CASE AppendIsClosed(w) \/ AppendDone(w) \/ BlockLoop(w) \/ CanBlock(w)
        <5>1. \E label \in {"idle", "isEmpty", "blockLoop", "isClosed", "ticket"} : pc' = [pc EXCEPT ![w] = label]
          BY <4>5 DEF AppendIsClosed, AppendDone, AppendFailed, Reject, BlockLoop, CanBlock, Goto
        <5> QED
          BY <2>1, <5>1 DEF VariablesOK
      <4>6. CASE IncWhenDone(w) \/ FlushLoad(w) \/ FlushSwap(w) \/ WaitForFlush(w) \/ AfterFlushDone(w)
        BY <2>1, <4>6 DEF IncWhenDone, FlushLoad, FlushSwap, WaitForFlush, AfterFlushDone, Goto, VariablesOK
      <4> QED
        BY <2>2, <2>7, <4>1, <4>2, <4>3, <4>4, <4>5, <4>6 DEF StepOf, Continue
    <3>2. set'[u] = set[u]
      BY <2>1, <2>2, <2>7, <3>1 DEF StepOf, CallAppend, CallFlush, CallClose, CallAfterFlushDo, Continue, Assemble,
         AppendIsClosed, AppendWrite, AppendDone, BlockLoop, CanBlock, FlushIsEmpty, IncWhenDone, FlushLoad, FlushSwap,
         FlushSpin, WaitForFlush, AfterFlushDone, AssembleMessage, AssemblePanics, AssembleReturns, FlushingDone,
         VariablesOK
    <3> QED
      BY <3>1, <3>2
  <2> QED
    BY <2>6, <2>7
<1>2. [Leave]_vars => [panics' = 0 =>
        \A t, u \in Threads :
          pc[t] = "spin" /\ pc'[t] = "spin" /\ pc'[u] \in {"write", "done"} /\ set'[u].idx = set[t].idx =>
            pc[u] \in {"write", "done"} /\ set[u].idx = set[t].idx]_vars
  BY DEF Leave
<1> QED
  BY <1>1, <1>2, BatchInvariant, PTL DEF Spec, WritersOnlyLeave

=============================================================================
