-------------------------------- MODULE Wire --------------------------------
(***************************************************************************)
(* core.WriterAssembly, which a message batch calls with the messages of a *)
(* buffer, at one end of a connection, and shared.BufferedReader at the    *)
(* other.  The batches come one after the other (MessageBatch shows that   *)
(* they do not overlap); SetWriter may come at any time.  A write that     *)
(* fails may have written part of the buffer, and may end the connection.  *)
(***************************************************************************)
EXTENDS Reader, FiniteSets

CONSTANTS
  Messages, Payload,    \* messages, and their bytes: [Messages -> Seq(Nat)]
  Batches,              \* the batches, a sequence of sequences of messages
  Settings,             \* records [handleError, validate]: "none", "keep" (the handler returns
                        \* true) or "flush"; whether there is a validator
  MaxSetWriter,         \* bound: how often SetWriter is called
  LongestWrite          \* bound: at least as many bytes as any batch has

ASSUME WireAssumption ==
  /\ Payload \in [Messages -> Seq(Nat)]
  /\ Batches \in Seq(Seq(Messages))
  \* No message is assembled twice (MessageBatch).
  /\ \A b, c \in DOMAIN Batches : \A i \in DOMAIN Batches[b], k \in DOMAIN Batches[c] :
       Batches[b][i] = Batches[c][k] => b = c /\ i = k
  \* What separates messages has at least one byte.
  /\ \A m \in Modes : /\ m.kind = "delimiter" => m.delimiter # <<>>
                      /\ m.kind = "binary" => m.width > 0
                      /\ m.kind = "fixed" => m.param > 0
  /\ Settings \subseteq [handleError : {"none", "keep", "flush"}, validate : BOOLEAN]
  /\ MaxSetWriter \in Nat /\ LongestWrite \in Nat

\* External: messages can be told apart.  No delimiter is found before the one that ends a
\* message, and a length in digits is a short one and is not followed by another digit.
ASSUME SeparationAssumption ==
  /\ Messages # {}
  /\ \A m \in Modes, p \in {Payload[n] : n \in Messages} :
       /\ m.kind = "delimiter" =>
            \A k \in 0 .. Len(p) - 1 : SubSeq(p \o m.delimiter, k + 1, k + Len(m.delimiter)) # m.delimiter
       /\ m.kind = "text" => Len(p) < 100 /\ m.delimiter # <<>> /\ m.delimiter[1] \notin 48 .. 57

VARIABLES
  setting,
  writer, target,       \* whether there is a writer, and what Write has seen of it
  writing,              \* whether Write is under way, with the first of the batches left
  batches,
  buffer,               \* asm.buffer, which is reused
  dead,                 \* the connection has been lost
  flushed,              \* how often a message was handed back
  written, kept,        \* history: messages that are on the wire as a whole, and those of failed
                        \*          writes that are not handed back
  calls                 \* calls of SetWriter

writerVars == <<setting, writer, target, writing, batches, buffer, dead, flushed, written, kept, calls>>
vars == <<readerVars, writerVars>>

Init ==
  /\ ReaderInit
  /\ setting \in Settings
  /\ writer = TRUE /\ target = FALSE /\ writing = FALSE
  /\ batches = Batches /\ buffer = <<>> /\ dead = FALSE
  /\ flushed = [m \in Messages |-> 0] /\ written = <<>> /\ kept = {} /\ calls = 0

-----------------------------------------------------------------------------
(* WriterAssembly *)

\* External: the formatter of the producer separates messages as the reader expects it.
Digits(n) == IF n < 10 THEN <<48 + n>> ELSE <<48 + n \div 10, 48 + (n % 10)>>
Header(m) == [i \in 1 .. m.param |-> 1]
LengthBytes(m, n) ==
  [i \in 1 .. m.width |-> IF i = (IF m.bigEndian THEN m.width ELSE 1) THEN n ELSE 0]
Format(p) ==
  CASE mode.kind = "delimiter" -> p \o mode.delimiter
    [] mode.kind = "text"   -> Header(mode) \o Digits(Len(p)) \o mode.delimiter \o p
    [] mode.kind = "binary" -> Header(mode) \o LengthBytes(mode, Len(p)) \o p
    [] mode.kind = "fixed"  -> [i \in 1 .. mode.param |-> IF i <= Len(p) THEN p[i] ELSE 0]

\* append to what has been filled of the buffer.
Extended(old, length, payload) == SubSeq(old, 1, length) \o payload
\* copy into the buffer.
Overwritten(old, length, payload) ==
  [i \in 1 .. Len(old) |->
     IF length < i /\ i <= length + Len(payload) THEN payload[i - length] ELSE old[i]]

\* The buffer, and how much of it is filled, after the first n messages.
Filled(messages) ==
  LET filled[n \in 0 .. Len(messages)] ==
        IF n = 0 THEN [buffer |-> buffer, length |-> 0]
        ELSE LET old     == filled[n - 1]
                 payload == Format(Payload[messages[n]])
             IN [buffer |-> IF old.length + Len(payload) > Len(old.buffer)
                              THEN Extended(old.buffer, old.length, payload)
                              ELSE Overwritten(old.buffer, old.length, payload),
                 length |-> old.length + Len(payload)]
  IN filled

Members(s) == {s[i] : i \in 1 .. Len(s)}
Handed(messages) == [m \in Messages |-> IF m \in Members(messages) THEN flushed[m] + 1 ELSE flushed[m]]

\* The writer is looked up under its lock, and used after that.
StartWrite ==
  /\ ~writing /\ batches # <<>>
  /\ writing' = TRUE /\ target' = writer
  /\ UNCHANGED <<readerVars, setting, writer, batches, buffer, dead, flushed, written, kept, calls>>

EndWrite == writing' = FALSE /\ batches' = Tail(batches)

NoWriter ==
  /\ writing /\ ~target
  /\ flushed' = Handed(Head(batches))
  /\ EndWrite
  /\ UNCHANGED <<readerVars, setting, writer, target, buffer, dead, written, kept, calls>>

\* length bytes of the buffer are written.
Transmit(filled, messages, length) ==
  LET content == filled[Len(messages)].buffer
  IN /\ wire' = [k \in 1 .. arrived + length |-> IF k <= arrived THEN wire[k] ELSE content[k - arrived]]
     /\ arrived' = arrived + length
     /\ written' = written \o
          SubSeq(messages, 1, Cardinality({n \in 1 .. Len(messages) : filled[n].length <= length}))
     /\ buffer' = content
     /\ EndWrite
     /\ UNCHANGED <<mode, data, size, begin, end, incomplete, sequence, read, received, panicked,
                    setting, writer, target, calls>>

\* All of it; the validator may find that it has not been taken.
Write(length, valid) ==
  LET messages == Head(batches)
      filled   == Filled(messages)
  IN /\ writing /\ target /\ ~dead
     /\ length = filled[Len(messages)].length
     /\ setting.validate \/ valid
     /\ Transmit(filled, messages, length)
     /\ flushed' = IF valid THEN flushed ELSE Handed(messages)
     /\ UNCHANGED <<dead, kept>>

\* Mutant: an error that has been handled hands the messages back.
HandsBack_Handled(handleError) == handleError # "flush"
\* Only a handler that returns false does; without a handler the error is logged.
HandsBack(handleError) == handleError = "flush"

\* Less than all of it; after part of a message nothing else can be sent.
WriteFails(length, lost) ==
  LET messages == Head(batches)
      filled   == Filled(messages)
  IN /\ writing /\ target
     /\ length < filled[Len(messages)].length
     /\ dead => length = 0
     /\ dead \/ length > 0 => lost
     /\ Transmit(filled, messages, length)
     /\ dead' = lost
     /\ IF HandsBack(setting.handleError)
          THEN flushed' = Handed(messages) /\ UNCHANGED kept
          ELSE kept' = kept \cup Members(messages) /\ UNCHANGED flushed

SetWriter ==
  /\ calls < MaxSetWriter
  /\ calls' = calls + 1 /\ writer' = ~writer
  /\ UNCHANGED <<readerVars, setting, target, writing, batches, buffer, dead, flushed, written, kept>>

-----------------------------------------------------------------------------
WriterNext ==
  \/ StartWrite \/ NoWriter \/ SetWriter
  \/ \E length \in 0 .. LongestWrite, choice \in BOOLEAN :
       Write(length, choice) \/ WriteFails(length, choice)

Receiving == ReadOne /\ UNCHANGED writerVars

Next == WriterNext \/ Receiving

\* The goroutine of the reader calls ReadAll again and again.
Spec == Init /\ [][Next]_vars /\ WF_vars(Receiving)

-----------------------------------------------------------------------------
(* Properties *)

\* A batch that Write is done with has gone somewhere: its messages are on the wire, or were
\* handed back, or an error was kept quiet, by a handler or by having none.  A message is
\* handed back at most once, and always if a handler that wants it could not have it written.
\* On the wire and handed back, without a validator, are messages of one batch at most: the one
\* whose write broke the connection off, and only if the handler has the whole batch flushed.
Accounted ==
  LET done == UNION {Members(Batches[b]) : b \in 1 .. Len(Batches) - Len(batches)}
      both == {m \in Members(written) : flushed[m] = 1}
  IN /\ \A m \in Messages : flushed[m] <= IF m \in done THEN 1 ELSE 0
     /\ \A m \in done : m \in Members(written) \/ m \in kept \/ flushed[m] = 1
     /\ setting.handleError = "flush" => \A m \in done \ Members(written) : flushed[m] = 1
     /\ ~setting.validate /\ both # {} =>
          /\ dead /\ setting.handleError = "flush"
          /\ \E b \in 1 .. Len(Batches) : both \subseteq Members(Batches[b])

\* How a message looks to the callback of the reader.
Shown(m) == IF mode.kind = "fixed" \/ mode.everything THEN Format(Payload[m]) ELSE Payload[m]

\* A message that is empty to the reader stops it: it is taken for one that has not arrived,
\* and neither it nor what follows is ever delivered.
Deliverable ==
  LET stalls == {i \in 1 .. Len(written) : Shown(written[i]) = <<>>}
      last   == IF stalls = {} THEN Len(written) ELSE (CHOOSE i \in stalls : \A k \in stalls : i <= k) - 1
  IN [i \in 1 .. last |-> Shown(written[i])]

\* Writer, wire and reader are a channel: what reaches the wire as a whole is received, once,
\* in order, unchanged, and in the end, however the stream is cut - up to the first message
\* that is empty, and unless the reader panics.
ChannelOfMessages ==
  INSTANCE Channel WITH
    sent     <- IF panicked THEN [i \in 1 .. Len(received) |-> received[i].data] ELSE Deliverable,
    received <- [i \in 1 .. Len(received) |-> received[i].data],
    broken   <- panicked
ImplementsChannel == ChannelOfMessages!Spec

\* The reader numbers messages without a gap, and panics only where a length has not arrived:
\* in front of a binary one, or between the digits of a text and a delimiter for which the
\* buffer has no room.
StopsOnlyAtLengths ==
  /\ \A i \in 1 .. Len(received) : received[i].sequence = i - 1
  /\ panicked => \/ mode.kind = "binary" /\ end - begin < mode.param
                 \/ mode.kind = "text" /\ size - begin < mode.param + 2 + Len(mode.delimiter)

\* The buffer grows for a message that does not fit, and by no more than it needs: the memory
\* a reader holds is bounded by the longest message, unless an empty one has stopped it.
GrowsForLongMessages ==
  LET lengths == {Len(Format(Payload[m])) : m \in Messages}
  IN (\A m \in Messages : Shown(m) # <<>>) => \E n \in lengths : size < n + GrowSize

\* However the stream is cut, the reader keeps to its numbers, its lengths and its memory.
ReaderKeepsItsBounds == StopsOnlyAtLengths /\ GrowsForLongMessages
=============================================================================
