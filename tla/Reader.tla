------------------------------- MODULE Reader -------------------------------
(***************************************************************************)
(* shared.BufferedReader: messages are cut out of a stream of bytes that   *)
(* arrives in pieces.  ReadOne is two actions, as one call of it reads at  *)
(* most once (Read) and then parses once (Deliver, Wait, Compact, Grow);   *)
(* ReadAll and its callers repeat it until the end of the stream.          *)
(*                                                                         *)
(* A byte is a number, and wire are the bytes that have arrived so far.    *)
(* How messages are separated is in mode, a record: kind is "delimiter",   *)
(* "text" (a length in digits), "binary" (a length of width bytes) or      *)
(* "fixed"; param is paramMLE, and everything the flag of that name.       *)
(***************************************************************************)
EXTENDS Integers, Sequences

CONSTANTS Modes, GrowSize

ASSUME ReaderAssumption ==
  /\ GrowSize \in Nat \ {0}
  /\ Modes \subseteq [kind : {"delimiter", "text", "binary", "fixed"}, param : Nat, width : Nat,
                      bigEndian : BOOLEAN, delimiter : Seq(Nat), everything : BOOLEAN]

VARIABLES
  mode,             \* fixed by NewBufferedReader
  data, size,       \* the buffer, data[1..size]
  begin, end,       \* what has been read and not been parsed is data[begin+1 .. end]
  incomplete,       \* whether the next call reads
  sequence,         \* number of the next message
  wire, arrived,    \* the bytes that have arrived, wire[1..arrived],
  read,             \* and how many of them have been read
  received,         \* the messages given to the callback
  panicked          \* whether the reader has ended with an index out of range

readerVars == <<mode, data, size, begin, end, incomplete, sequence, wire, arrived, read, received,
                panicked>>

\* NewBufferedReader
ReaderInit ==
  /\ mode \in Modes
  /\ data = [i \in 1 .. GrowSize |-> 0] /\ size = GrowSize
  /\ begin = 0 /\ end = 0 /\ incomplete = TRUE /\ sequence = 0
  /\ wire = <<>> /\ arrived = 0 /\ read = 0 /\ received = <<>> /\ panicked = FALSE

-----------------------------------------------------------------------------
(* Finding a message: its length, where it starts, and what follows it *)

Frame == [len : Nat, start : Nat, pad : Nat]
NoFrame == [len |-> 0, start |-> 0, pad |-> 0]
OutOfRange == [len |-> -1, start |-> 0, pad |-> 0]

\* Number and length of the digits text starts with.
Btoi(text) ==
  LET digits == {n \in 0 .. Len(text) : \A i \in 1 .. n : text[i] \in 48 .. 57}
      length == CHOOSE n \in digits : \A k \in digits : k <= n
      number[n \in 0 .. length] == IF n = 0 THEN 0 ELSE 10 * number[n - 1] + text[n] - 48
  IN [number |-> number[length], length |-> length]

\* External: binary.Read of width bytes.
BinaryRead(text, width, bigEndian) ==
  LET number[n \in 0 .. width] ==
        IF n = 0 THEN 0 ELSE 256 * number[n - 1] + text[IF bigEndian THEN n ELSE width + 1 - n]
  IN number[width]

checkCompleteDelimiter(m, text) ==
  LET n     == Len(m.delimiter)
      found == {k \in 0 .. Len(text) - n : SubSeq(text, k + 1, k + n) = m.delimiter}
      first == CHOOSE k \in found : \A j \in found : k <= j
  IN CASE found = {}  -> NoFrame
       [] found # {} /\ m.everything  -> [len |-> first + n, start |-> 0, pad |-> 0]
       [] found # {} /\ ~m.everything -> [len |-> first, start |-> 0, pad |-> n]

\* Mutant: the flag the other way round.
Prefixed_Swapped(m, text, length, start) ==
  IF length + start > Len(text) THEN NoFrame
  ELSE IF m.everything THEN [len |-> length, start |-> start, pad |-> 0]
  ELSE [len |-> length + start, start |-> 0, pad |-> 0]
\* A message of a known length at a known place, with or without what is before it.
Prefixed(m, text, length, start) ==
  IF length + start > Len(text) THEN NoFrame
  ELSE IF m.everything THEN [len |-> length + start, start |-> 0, pad |-> 0]
  ELSE [len |-> length, start |-> start, pad |-> 0]

\* The delimiter is compared with what is in the buffer, even behind the end of what has
\* been read; behind is what the buffer holds there.
checkCompleteMLEText(m, text, behind) ==
  LET parsed == Btoi(SubSeq(text, m.param + 1, Len(text)))
      digits == m.param + parsed.length
      start  == digits + Len(m.delimiter)
  IN IF Len(text) <= m.param \/ parsed.length = 0 THEN NoFrame
     ELSE IF m.delimiter = <<>> THEN Prefixed(m, text, parsed.number, start)
     ELSE IF start > Len(text \o behind) THEN OutOfRange
     ELSE IF SubSeq(text \o behind, digits + 1, start) # m.delimiter THEN NoFrame
     ELSE Prefixed(m, text, parsed.number, start)

checkCompleteMLE(m, text) ==
  IF Len(text) < m.param THEN OutOfRange
  ELSE IF Len(text) < m.param + m.width THEN NoFrame
  ELSE Prefixed(m, text, BinaryRead(SubSeq(text, m.param + 1, Len(text)), m.width, m.bigEndian),
                m.param + m.width)

checkCompleteMLEFixed(m, text) ==
  IF Len(text) >= m.param THEN [len |-> m.param, start |-> 0, pad |-> 0] ELSE NoFrame

checkComplete(m, text, behind) ==
  CASE m.kind = "delimiter" -> checkCompleteDelimiter(m, text)
    [] m.kind = "text"      -> checkCompleteMLEText(m, text, behind)
    [] m.kind = "binary"    -> checkCompleteMLE(m, text)
    [] m.kind = "fixed"     -> checkCompleteMLEFixed(m, text)

frame == checkComplete(mode, SubSeq(data, begin + 1, end), SubSeq(data, end + 1, size))

\* parseComplex and extractMessage: a message that has a length and has arrived.
nextBegin == begin + frame.start + frame.len + frame.pad
Complete == frame \in Frame /\ frame.len > 0 /\ nextBegin <= end

-----------------------------------------------------------------------------
(* ReadOne *)

\* The stream fills some of the room that is left behind end.
Read(n) ==
  /\ incomplete /\ ~panicked
  /\ n \in 1 .. size - end /\ read + n <= arrived
  /\ data' = [i \in 1 .. size |-> IF end < i /\ i <= end + n THEN wire[read + i - end] ELSE data[i]]
  /\ end' = end + n /\ read' = read + n
  /\ incomplete' = FALSE
  /\ UNCHANGED <<mode, size, begin, sequence, wire, arrived, received, panicked>>

\* Mutant: the reset of the buffer resets the number.
NextSequence_Reset == IF nextBegin = end THEN 0 ELSE sequence + 1
NextSequence == sequence + 1

\* A message: if nothing is left behind it the buffer is reset.
Deliver ==
  /\ ~incomplete /\ ~panicked /\ Complete
  /\ received' = Append(received,
       [data |-> SubSeq(data, begin + frame.start + 1, begin + frame.start + frame.len),
        sequence |-> sequence])
  /\ sequence' = NextSequence
  /\ incomplete' = (nextBegin = end)
  /\ begin' = IF nextBegin = end THEN 0 ELSE nextBegin
  /\ end' = IF nextBegin = end THEN 0 ELSE end
  /\ UNCHANGED <<mode, data, size, wire, arrived, read, panicked>>

\* No message yet.
Missing == ~incomplete /\ ~panicked /\ frame \in Frame /\ ~Complete

Wait ==
  /\ Missing /\ end < size
  /\ incomplete' = TRUE
  /\ UNCHANGED <<mode, data, size, begin, end, sequence, wire, arrived, read, received, panicked>>

\* Mutants: the bytes are moved, and the end is not; one byte is left behind.
CompactedEnd_Old == end
CompactedEnd_Short == end - begin - 1
CompactedEnd == end - begin

\* The buffer is full: what has been parsed makes room,
Compact ==
  /\ Missing /\ end = size /\ begin # 0
  /\ data' = [i \in 1 .. size |-> IF i <= end - begin THEN data[begin + i] ELSE data[i]]
  /\ begin' = 0 /\ end' = CompactedEnd
  /\ incomplete' = TRUE
  /\ UNCHANGED <<mode, size, sequence, wire, arrived, read, received, panicked>>

MustGrow == end = size /\ begin = 0
\* or it grows.
Grow ==
  /\ Missing /\ MustGrow
  /\ size' = size + GrowSize
  /\ data' = [i \in 1 .. size + GrowSize |-> IF i <= size THEN data[i] ELSE 0]
  /\ incomplete' = TRUE
  /\ UNCHANGED <<mode, begin, end, sequence, wire, arrived, read, received, panicked>>

Panic ==
  /\ ~incomplete /\ ~panicked /\ frame \notin Frame
  /\ panicked' = TRUE
  /\ UNCHANGED <<mode, data, size, begin, end, incomplete, sequence, wire, arrived, read, received>>

ReadOne == \/ \E n \in 1 .. size : Read(n)
           \/ Deliver \/ Wait \/ Compact \/ Grow \/ Panic

-----------------------------------------------------------------------------
(* Properties of the buffer, whatever arrives in whatever pieces *)

\* The indices are in order, and a call that is going to read has room to read into: a read
\* of no bytes would end the stream, or be repeated forever.
ThereIsRoom ==
  /\ 0 <= begin /\ begin <= end /\ end <= size
  /\ IF incomplete THEN end < size ELSE begin < end

\* What is between begin and end is exactly what has been read and not been parsed, in the
\* order of the stream: growing, compaction and reset neither lose nor repeat a byte.
WindowIsStream ==
  /\ end - begin <= read /\ read <= arrived
  /\ \A k \in 1 .. end - begin : data[begin + k] = wire[read - (end - begin) + k]
=============================================================================
