---------------------------- MODULE MessageBatch ----------------------------
(***************************************************************************)
(* core.MessageBatch: two message buffers that any number of goroutines    *)
(* append to while one of the two is being flushed.                        *)
(*                                                                         *)
(* activeSet packs the index of the active buffer (bit 31) and the number  *)
(* of tickets handed out for it (bits 0 to 30) into one atomic word, which *)
(* is a record here.  An Append draws a ticket, writes its slot when the   *)
(* ticket fits and counts itself done in any case; a Flush swaps the       *)
(* buffers, waits until all tickets of the old one are done and hands its  *)
(* slots to the assembly callback in a goroutine of its own.  Every atomic *)
(* operation, slot write and slot read is a step.                          *)
(***************************************************************************)
EXTENDS Integers, FiniteSets

CONSTANTS
  Threads,          \* goroutines using the batch
  Calls,            \* Calls[t]: the methods of the batch goroutine t calls
  Messages,         \* messages; each is passed to one append method
  NoMessage,        \* content of a slot that was never written
  MaxMessageCount,  \* length of one buffer
  CountRange,       \* the count field wraps here and flips the index (2^31)
  MaxTickets,       \* bound: tickets handed out between two flushes
  MaxPanics,        \* bound: panics of the assembly callback
  FlushTimeout      \* timeout Close passes to WaitForFlush; 0 waits forever

AppendCalls == {"Append", "AppendOrBlock", "AppendOrFlush"}
BatchCalls  == AppendCalls \cup {"Flush", "Close", "AfterFlushDo"}

ASSUME BatchAssumption ==
  /\ Calls \in [Threads -> SUBSET BatchCalls]
  /\ NoMessage \notin Messages
  /\ MaxMessageCount \in Nat /\ CountRange \in Nat \ {0} /\ MaxTickets \in Nat
  /\ MaxPanics \in Nat /\ FlushTimeout \in Nat

\* Between two flushes the count field does not wrap: nobody appends 2^31 messages meanwhile.
ASSUME TicketAssumption == MaxTickets < CountRange

VARIABLES
  activeSet,      \* [idx, count]: the active buffer and its tickets
  messages,       \* messages[b][i]: slot i of buffer b
  doneCount,      \* finished appends of each buffer
  flushing,       \* counter of the WaitGroup that serialises flushes
  closed,
  pc, call, msg,  \* where each goroutine is, in which method, with which message
  set,            \* the value of activeSet its append or flush works with
  async,          \* the goroutine spawned by its last Flush
  panics,         \* panics of the assembly callback so far
  fresh,          \* history: messages not passed to an append method yet,
  accepted,       \*          messages Append returned true for,
  rejected,       \*          messages an append method returned false for or dropped,
  assembled,      \*          how often each message was passed to the callback,
  late,           \*          messages past the IsClosed check when Close was called,
  closeReturned   \*          a Close has returned

sharedVars  == <<activeSet, messages, doneCount, flushing, closed>>
historyVars == <<panics, fresh, accepted, rejected, assembled, late, closeReturned>>
vars == <<sharedVars, pc, call, msg, set, async, historyVars>>

Buffers == {0, 1}
Slots   == 0 .. MaxMessageCount - 1
NoSet   == [idx |-> 0, count |-> 0]
NoAsync == [pc |-> "none", set |-> NoSet, pos |-> 0]

Goto(t, label) == pc' = [pc EXCEPT ![t] = label]

\* atomic.AddUint32(batch.activeSet, 1): a full count carries into the index bit,
\* and out of it.
Increment(s) ==
  IF s.count + 1 < CountRange THEN [s EXCEPT !.count = @ + 1]
                              ELSE [idx |-> 1 - s.idx, count |-> 0]

\* ticketIdx is count - 1 as an uint32: the ticket drawn with a count of 0 is
\* larger than any buffer.
Fits(s) == s.count \in 1 .. MaxMessageCount

\* messageCount of Flush: slots of a flushed buffer that were handed out.
MessageCount(s) == IF s.count < MaxMessageCount THEN s.count ELSE MaxMessageCount

-----------------------------------------------------------------------------
(* Append, AppendOrBlock, AppendOrFlush *)

CallAppend(t, c, m) ==
  /\ pc[t] = "idle" /\ c \in Calls[t] \cap AppendCalls /\ m \in fresh
  /\ call'  = [call EXCEPT ![t] = c]
  /\ msg'   = [msg EXCEPT ![t] = m]
  /\ fresh' = fresh \ {m}
  /\ Goto(t, IF c = "AppendOrBlock" THEN "blockLoop" ELSE "isClosed")
  /\ UNCHANGED <<sharedVars, set, async, panics, accepted, rejected, assembled, late,
                 closeReturned>>

\* The caller gets false back, or its drop callback is called.
Reject(t) ==
  /\ Goto(t, "idle")
  /\ msg'      = [msg EXCEPT ![t] = NoMessage]
  /\ rejected' = rejected \cup {msg[t]}
  /\ UNCHANGED call

\* Append has returned false to the method it was called from.
AppendFailed(t) ==
  \/ call[t] = "Append" /\ Reject(t)
  \/ call[t] = "AppendOrBlock" /\ Goto(t, "blockLoop") /\ UNCHANGED <<call, msg, rejected>>
  \/ call[t] = "AppendOrFlush" /\ Goto(t, "isEmpty") /\ UNCHANGED <<call, msg, rejected>>

AppendIsClosed(t) ==
  /\ pc[t] = "isClosed"
  /\ \/ closed /\ AppendFailed(t)
     \/ ~closed /\ Goto(t, "ticket") /\ UNCHANGED <<call, msg, rejected>>
  /\ UNCHANGED <<sharedVars, set, async, panics, fresh, accepted, assembled, late,
                 closeReturned>>

AppendTicket(t) ==
  /\ pc[t] = "ticket" /\ activeSet.count < MaxTickets
  /\ activeSet' = Increment(activeSet)
  /\ set'       = [set EXCEPT ![t] = activeSet']
  /\ Goto(t, "write")
  /\ UNCHANGED <<messages, doneCount, flushing, closed, call, msg, async, historyVars>>

AppendWrite(t) ==
  /\ pc[t] = "write"
  /\ IF Fits(set[t])
       THEN /\ messages' = [messages EXCEPT ![set[t].idx][set[t].count - 1] = msg[t]]
            /\ accepted' = accepted \cup {msg[t]}
       ELSE UNCHANGED <<messages, accepted>>
  /\ Goto(t, "done")
  /\ UNCHANGED <<activeSet, doneCount, flushing, closed, call, msg, set, async, panics,
                 fresh, rejected, assembled, late, closeReturned>>

\* Mutant: a failed append is not counted as done.
AppendDone_OnlySuccess(t) ==
  /\ pc[t] = "done"
  /\ \/ /\ Fits(set[t])
        /\ doneCount' = [doneCount EXCEPT ![set[t].idx] = @ + 1]
        /\ Goto(t, "idle")
        /\ msg' = [msg EXCEPT ![t] = NoMessage]
        /\ UNCHANGED <<call, rejected>>
     \/ ~Fits(set[t]) /\ AppendFailed(t) /\ UNCHANGED doneCount
  /\ UNCHANGED <<activeSet, messages, flushing, closed, set, async, panics, fresh,
                 accepted, assembled, late, closeReturned>>

\* The deferred increment of doneCount, and the return.
AppendDone(t) ==
  /\ pc[t] = "done"
  /\ doneCount' = [doneCount EXCEPT ![set[t].idx] = @ + 1]
  /\ \/ /\ Fits(set[t])
        /\ Goto(t, "idle")
        /\ msg' = [msg EXCEPT ![t] = NoMessage]
        /\ UNCHANGED <<call, rejected>>
     \/ ~Fits(set[t]) /\ AppendFailed(t)
  /\ UNCHANGED <<activeSet, messages, flushing, closed, set, async, panics, fresh,
                 accepted, assembled, late, closeReturned>>

\* for !batch.IsClosed() in AppendOrBlock
BlockLoop(t) ==
  /\ pc[t] = "blockLoop"
  /\ \/ closed /\ Reject(t)
     \/ ~closed /\ Goto(t, "isClosed") /\ UNCHANGED <<call, msg, rejected>>
  /\ UNCHANGED <<sharedVars, set, async, panics, fresh, accepted, assembled, late,
                 closeReturned>>

\* AppendOrFlush after its flush: AppendOrBlock if canBlock() says so.
CanBlock(t) ==
  /\ pc[t] = "canBlock"
  /\ \/ Reject(t)
     \/ /\ call' = [call EXCEPT ![t] = "AppendOrBlock"]
        /\ Goto(t, "blockLoop")
        /\ UNCHANGED <<msg, rejected>>
  /\ UNCHANGED <<sharedVars, set, async, panics, fresh, accepted, assembled, late,
                 closeReturned>>

-----------------------------------------------------------------------------
(* Flush, Close, AfterFlushDo *)

CallFlush(t) ==
  /\ pc[t] = "idle" /\ "Flush" \in Calls[t]
  /\ call' = [call EXCEPT ![t] = "Flush"]
  /\ Goto(t, "isEmpty")
  /\ UNCHANGED <<sharedVars, msg, set, async, historyVars>>

CallClose(t) ==
  /\ pc[t] = "idle" /\ "Close" \in Calls[t]
  /\ call'   = [call EXCEPT ![t] = "Close"]
  /\ closed' = TRUE
  /\ late'   = late \cup {msg[u] : u \in {v \in Threads : pc[v] = "ticket"}}
  /\ Goto(t, "isEmpty")
  /\ UNCHANGED <<activeSet, messages, doneCount, flushing, msg, set, async, panics, fresh,
                 accepted, rejected, assembled, closeReturned>>

CallAfterFlushDo(t) ==
  /\ pc[t] = "idle" /\ "AfterFlushDo" \in Calls[t]
  /\ call' = [call EXCEPT ![t] = "AfterFlushDo"]
  /\ Goto(t, "incWhenDone")
  /\ UNCHANGED <<sharedVars, msg, set, async, historyVars>>

FlushReturns(t) ==
  Goto(t, CASE call[t] = "Flush"         -> "idle"
            [] call[t] = "Close"         -> "waitForFlush"
            [] call[t] = "AppendOrFlush" -> "canBlock")

FlushIsEmpty(t) ==
  /\ pc[t] = "isEmpty"
  /\ IF activeSet.count = 0 THEN FlushReturns(t) ELSE Goto(t, "incWhenDone")
  /\ UNCHANGED <<sharedVars, call, msg, set, async, historyVars>>

\* Mutant: the WaitGroup is incremented without waiting for it to be done.
IncWhenDone_NoWait(t) ==
  /\ pc[t] = "incWhenDone"
  /\ flushing' = flushing + 1
  /\ Goto(t, IF call[t] = "AfterFlushDo" THEN "callback" ELSE "load")
  /\ UNCHANGED <<activeSet, messages, doneCount, closed, call, msg, set, async, historyVars>>

IncWhenDone(t) ==
  /\ pc[t] = "incWhenDone" /\ flushing = 0
  /\ flushing' = 1
  /\ Goto(t, IF call[t] = "AfterFlushDo" THEN "callback" ELSE "load")
  /\ UNCHANGED <<activeSet, messages, doneCount, closed, call, msg, set, async, historyVars>>

\* The argument of SwapUint32 is evaluated by a load of its own ...
FlushLoad(t) ==
  /\ pc[t] = "load"
  /\ set' = [set EXCEPT ![t] = activeSet]
  /\ Goto(t, "swap")
  /\ UNCHANGED <<sharedVars, call, msg, async, historyVars>>

\* Mutant: the count of the load is used, not the one that was swapped out.
FlushSwap_LoadedCount(t) ==
  /\ pc[t] = "swap"
  /\ activeSet' = [idx |-> 1 - set[t].idx, count |-> 0]
  /\ Goto(t, "spin")
  /\ UNCHANGED <<messages, doneCount, flushing, closed, call, msg, set, async, historyVars>>

\* ... before the swap flips the index and clears the count.
FlushSwap(t) ==
  /\ pc[t] = "swap"
  /\ activeSet' = [idx |-> 1 - set[t].idx, count |-> 0]
  /\ set'       = [set EXCEPT ![t] = activeSet]
  /\ Goto(t, "spin")
  /\ UNCHANGED <<messages, doneCount, flushing, closed, call, msg, async, historyVars>>

\* Mutant: the writers that are still busy are not waited for.
FlushSpin_NoWait(t) ==
  /\ pc[t] = "spin"
  /\ async' = [async EXCEPT ![t] = [pc |-> "assemble", set |-> set[t], pos |-> 0]]
  /\ FlushReturns(t)
  /\ UNCHANGED <<sharedVars, call, msg, set, historyVars>>

FlushSpin(t) ==
  /\ pc[t] = "spin" /\ doneCount[set[t].idx] = set[t].count
  /\ async' = [async EXCEPT ![t] = [pc |-> "assemble", set |-> set[t], pos |-> 0]]
  /\ FlushReturns(t)
  /\ UNCHANGED <<sharedVars, call, msg, set, historyVars>>

\* Mutant: Close does not wait for the flush.
WaitForFlush_NoWait(t) ==
  /\ pc[t] = "waitForFlush"
  /\ closeReturned' = TRUE
  /\ Goto(t, "idle")
  /\ UNCHANGED <<sharedVars, call, msg, set, async, panics, fresh, accepted, rejected,
                 assembled, late>>

\* The end of Close.
WaitForFlush(t) ==
  /\ pc[t] = "waitForFlush"
  /\ flushing <= 0 \/ FlushTimeout > 0
  /\ closeReturned' = TRUE
  /\ Goto(t, "idle")
  /\ UNCHANGED <<sharedVars, call, msg, set, async, panics, fresh, accepted, rejected,
                 assembled, late>>

\* AfterFlushDo's callback has returned; the deferred flushing.Done() runs.
AfterFlushDone(t) ==
  /\ pc[t] = "callback"
  /\ flushing' = flushing - 1
  /\ Goto(t, "idle")
  /\ UNCHANGED <<activeSet, messages, doneCount, closed, call, msg, set, async, historyVars>>

-----------------------------------------------------------------------------
(* The goroutine spawned by Flush *)

\* The assembly callback looks at the next message of its slice.
AssembleMessage(t) ==
  /\ async[t].pc = "assemble" /\ async[t].pos < MessageCount(async[t].set)
  /\ assembled' = [assembled EXCEPT ![messages[async[t].set.idx][async[t].pos]] = @ + 1]
  /\ async' = [async EXCEPT ![t].pos = @ + 1]
  /\ UNCHANGED <<sharedVars, pc, call, msg, set, panics, fresh, accepted, rejected, late,
                 closeReturned>>

\* A panic of the callback: only the deferred flushing.Done() is left to run.
AssemblePanics(t) ==
  /\ async[t].pc = "assemble" /\ panics < MaxPanics
  /\ panics' = panics + 1
  /\ async' = [async EXCEPT ![t].pc = "done"]
  /\ UNCHANGED <<sharedVars, pc, call, msg, set, fresh, accepted, rejected, assembled,
                 late, closeReturned>>

\* The callback has returned: doneCount is reset (and the flush timer touched).
AssembleReturns(t) ==
  /\ async[t].pc = "assemble" /\ async[t].pos = MessageCount(async[t].set)
  /\ doneCount' = [doneCount EXCEPT ![async[t].set.idx] = 0]
  /\ async' = [async EXCEPT ![t].pc = "done"]
  /\ UNCHANGED <<activeSet, messages, flushing, closed, pc, call, msg, set, historyVars>>

FlushingDone(t) ==
  /\ async[t].pc = "done"
  /\ flushing' = flushing - 1
  /\ async' = [async EXCEPT ![t] = NoAsync]
  /\ UNCHANGED <<activeSet, messages, doneCount, closed, pc, call, msg, set, historyVars>>

-----------------------------------------------------------------------------
Init ==
  /\ activeSet = NoSet
  /\ messages  = [b \in Buffers |-> [i \in Slots |-> NoMessage]]
  /\ doneCount = [b \in Buffers |-> 0]
  /\ flushing = 0 /\ closed = FALSE
  /\ pc    = [t \in Threads |-> "idle"]
  /\ call  = [t \in Threads |-> "Append"]
  /\ msg   = [t \in Threads |-> NoMessage]
  /\ set   = [t \in Threads |-> NoSet]
  /\ async = [t \in Threads |-> NoAsync]
  /\ panics = 0 /\ closeReturned = FALSE
  /\ fresh = Messages /\ accepted = {} /\ rejected = {} /\ late = {}
  /\ assembled = [m \in Messages \cup {NoMessage} |-> 0]

\* The rest of the method a goroutine is in.
Continue(t) ==
  \/ AppendIsClosed(t) \/ AppendTicket(t) \/ AppendWrite(t) \/ AppendDone(t)
  \/ BlockLoop(t) \/ CanBlock(t)
  \/ FlushIsEmpty(t) \/ IncWhenDone(t) \/ FlushLoad(t) \/ FlushSwap(t) \/ FlushSpin(t)
  \/ WaitForFlush(t) \/ AfterFlushDone(t)

Assemble(t) == AssembleMessage(t) \/ AssembleReturns(t) \/ FlushingDone(t)

Next ==
  \E t \in Threads :
    \/ \E c \in AppendCalls, m \in Messages : CallAppend(t, c, m)
    \/ CallFlush(t) \/ CallClose(t) \/ CallAfterFlushDo(t)
    \/ Continue(t) \/ Assemble(t) \/ AssemblePanics(t)

\* Every goroutine is scheduled again, and the assembly callback returns.  A spin
\* lock (IncWhenDone) that is free again and again is taken in the end.  Producers
\* call Flush from a ticker: a goroutine that may flush does so until the batch is closed.
Callers(methods) == {t \in Threads : Calls[t] \cap methods # {}}
Fairness ==
  /\ \A t \in Threads : WF_vars(Continue(t)) /\ WF_vars(Assemble(t))
  /\ \A t \in Callers(BatchCalls \ {"Append", "AppendOrBlock"}) : SF_vars(IncWhenDone(t))
  /\ \A t \in Callers({"Close"}) : SF_vars(WaitForFlush(t))
  /\ \A t \in Callers({"Flush"}) : SF_vars(CallFlush(t) /\ ~closed)

Spec     == Init /\ [][Next]_vars
FairSpec == Spec /\ Fairness

-----------------------------------------------------------------------------
(* Properties *)

\* A panic of the assembly callback skips the reset of doneCount, so what is said about
\* the contents of the buffers is said of a batch whose callback has not panicked.

Labels == {"idle", "isClosed", "ticket", "write", "done", "blockLoop", "canBlock", "isEmpty",
           "incWhenDone", "load", "swap", "spin", "waitForFlush", "callback"}
Sets == [idx : Buffers, count : Nat]

\* The types of the local variables depend on where a goroutine is: an append holds
\* a message, and only methods that flush are inside Flush.
FlushingCalls == {"Flush", "Close", "AppendOrFlush"}
LocalsOK(t) ==
  /\ pc[t] \in {"isClosed", "ticket", "write", "done", "blockLoop"} => call[t] \in AppendCalls
  /\ pc[t] = "canBlock" => call[t] = "AppendOrFlush"
  /\ pc[t] \in {"isEmpty", "load", "swap", "spin"} => call[t] \in FlushingCalls
  /\ pc[t] = "incWhenDone" => call[t] \in FlushingCalls \cup {"AfterFlushDo"}
  /\ pc[t] # "idle" /\ call[t] \in AppendCalls => msg[t] \in Messages

VariablesOK ==
  /\ activeSet \in Sets
  /\ messages \in [Buffers -> [Slots -> Messages \cup {NoMessage}]]
  /\ doneCount \in [Buffers -> Nat]
  /\ flushing \in Nat
  /\ closed \in BOOLEAN
  /\ pc \in [Threads -> Labels]
  /\ call \in [Threads -> BatchCalls]
  /\ msg \in [Threads -> Messages \cup {NoMessage}]
  /\ set \in [Threads -> Sets]
  /\ async \in [Threads -> [pc : {"none", "assemble", "done"}, set : Sets, pos : Nat]]
  /\ panics \in Nat
  /\ fresh \subseteq Messages /\ accepted \subseteq Messages /\ rejected \subseteq Messages
  /\ late \subseteq Messages \cup {NoMessage}
  /\ assembled \in [Messages \cup {NoMessage} -> Nat]
  /\ closeReturned \in BOOLEAN

\* Every variable has its type, and the local variables fit the place a goroutine is at: the
\* counter of the flushes never drops below zero.
TypeOK == VariablesOK /\ \A t \in Threads : LocalsOK(t)

\* A goroutine, or the one it spawned, is between IncWhenDone and flushing.Done.
HoldsFlush(t) == pc[t] \in {"load", "swap", "spin", "callback"}

\* "Only one flush at a time": neither two flushes, nor a flush and the callback of
\* AfterFlushDo, nor a flush and the assembly of an earlier one ever overlap.
OneFlushAtATime ==
  /\ \A t, u \in Threads : HoldsFlush(t) /\ HoldsFlush(u) => t = u
  /\ \A t, u \in Threads : async[t].pc # "none" /\ async[u].pc # "none" => t = u
  /\ \A t, u \in Threads : ~(HoldsFlush(t) /\ async[u].pc # "none")
  /\ flushing = IF \E t \in Threads : HoldsFlush(t) \/ async[t].pc # "none" THEN 1 ELSE 0

\* "Wait for remaining writers to finish": while a buffer is assembled nobody is
\* between drawing a ticket of that buffer and counting it done, as long as no assembly
\* callback has panicked.
NoWriterInAssembledBuffer ==
  panics = 0 => \A t, u \in Threads :
    async[t].pc = "assemble" /\ pc[u] \in {"write", "done"} => set[u].idx # async[t].set.idx

\* The assembly callback sees every message at most once, and only messages that
\* Append has accepted: no slot of an earlier round and no unwritten slot.
AssembledAtMostOnce ==
  panics = 0 =>
    /\ assembled[NoMessage] = 0
    /\ \A m \in Messages : assembled[m] <= 1 /\ (assembled[m] = 1 => m \in accepted)

\* A slot a flush will still look at: handed out in the active buffer, or in the
\* buffer that is being flushed and not reached by the assembly yet.
WillBeFlushed(b, i) ==
  \/ activeSet.idx = b /\ i < activeSet.count
  \/ \E t \in Threads : pc[t] = "spin" /\ set[t].idx = b /\ i < set[t].count
  \/ \E t \in Threads : async[t].pc = "assemble" /\ async[t].set.idx = b
                        /\ i >= async[t].pos /\ i < async[t].set.count

\* No message is lost between Append returning true and the flush: it has been
\* assembled or is in a slot some flush will look at.
AcceptedNotLost ==
  panics = 0 => \A m \in accepted :
    \/ assembled[m] > 0
    \/ \E b \in Buffers, i \in Slots : messages[b][i] = m /\ WillBeFlushed(b, i)

\* Whatever flushes, closes and rotates at the same time: no accepted message is lost and
\* none is assembled twice.
NeverLostNorDoubled == AcceptedNotLost /\ AssembledAtMostOnce

\* Close flushes everything that was accepted, but for appends that had already
\* passed their IsClosed check when Close was called.
CloseFlushesAll ==
  closeReturned /\ FlushTimeout = 0 /\ panics = 0 =>
    \A m \in accepted \ late : assembled[m] = 1

\* A batch is what its users are promised, as long as its callback does not panic: also after
\* failed writes ("We mark the message as written even if the write fails so that flush does
\* not block after a failed message"), and if somebody flushes it regularly until it is closed,
\* everything that was accepted is handed over.
Intact(content) == IF panics = 0 THEN content ELSE {}
Accepted == Intact({m \in accepted : assembled[m] = 0})
BatchOfMessages ==
  INSTANCE Batch WITH
    Contents   <- Messages \cup {NoMessage},
    CloseWaits <- FlushTimeout = 0,
    pending    <- Accepted \ late,
    loose      <- Accepted \cap late,
    refused    <- Intact(rejected),
    handed     <- IF panics = 0 THEN assembled ELSE [m \in Messages \cup {NoMessage} |-> 0],
    returned   <- closeReturned,
    broken     <- panics > 0
ImplementsBatch == BatchOfMessages!Spec
=============================================================================
