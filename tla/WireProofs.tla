----------------------------- MODULE WireProofs -----------------------------
(***************************************************************************)
(* The buffer of the reader, proved for every size, every way to separate  *)
(* messages, and whatever the writer puts on the wire in whatever pieces:  *)
(* where messages are cut does not matter, as that frame is a frame of     *)
(* numbers is a condition of the steps.  Then the writer: what becomes of  *)
(* the messages of every batch, however its Write ends.                    *)
(* Last both of them: the messages lie one behind the other on the wire,   *)
(* what the reader looks at is the start of the next one, and so the two   *)
(* ends are a channel, in which nothing is left behind.                    *)
(***************************************************************************)
EXTENDS Wire, SequenceTheorems, WellFoundedInduction, FiniteSetTheorems, TLAPS

\* The types of what the buffer is described by.
BufferTypes ==
  /\ size \in Nat /\ begin \in Nat /\ end \in Nat /\ read \in Nat /\ arrived \in Nat
  /\ incomplete \in BOOLEAN

\* The inductive invariant: the window can only be right where the indices are in order.
BufferInv == BufferTypes /\ ThereIsRoom /\ WindowIsStream

\* What the steps of the writer leave alone, and that they only add to the wire.
WireGrows ==
  /\ UNCHANGED <<data, size, begin, end, incomplete, read>>
  /\ arrived' \in Nat /\ arrived <= arrived'
  /\ \A k \in 1 .. arrived : wire'[k] = wire[k]

\* That holds of each of them.
LEMMA WriterOnlyAdds ==
  ASSUME arrived \in Nat, WriterNext
  PROVE  WireGrows
<1>1. CASE StartWrite
  BY <1>1 DEF StartWrite, WireGrows, readerVars
<1>2. CASE NoWriter
  BY <1>2 DEF NoWriter, WireGrows, readerVars
<1>3. CASE SetWriter
  BY <1>3 DEF SetWriter, WireGrows, readerVars
<1>4. ASSUME NEW length \in 0 .. LongestWrite, NEW choice \in BOOLEAN,
             Write(length, choice) \/ WriteFails(length, choice)
      PROVE  WireGrows
  <2>1. PICK filled, messages : Transmit(filled, messages, length)
    BY <1>4 DEF Write, WriteFails
  <2>2. length \in Nat
    BY <1>4, WireAssumption
  <2> QED
    BY <2>1, <2>2 DEF Transmit, WireGrows
<1> QED
  BY <1>1, <1>2, <1>3, <1>4 DEF WriterNext

\* More bytes on the wire do not disturb the buffer.
LEMMA InvUnderWriter ==
  ASSUME BufferInv, WireGrows
  PROVE  BufferInv'
BY DEF BufferInv, BufferTypes, ThereIsRoom, WindowIsStream, WireGrows

\* Nor do the two halves of ReadOne.
LEMMA InvUnderReader ==
  ASSUME BufferInv, ReadOne, GrowSize \in Nat \ {0}
  PROVE  BufferInv'
<1> USE DEF BufferInv, BufferTypes
<1>1. CASE \E n \in 1 .. size : Read(n)
  <2>1. PICK n \in 1 .. size : Read(n)
    BY <1>1
  <2>2. BufferTypes' /\ ThereIsRoom'
    <3>1. n \in Nat /\ 0 < n /\ end + n <= size /\ read + n <= arrived
      BY <2>1 DEF Read, ThereIsRoom
    <3>2. /\ end' = end + n /\ read' = read + n /\ incomplete' = FALSE
          /\ UNCHANGED <<size, begin, arrived>>
      BY <2>1 DEF Read
    <3>3. ~incomplete' /\ incomplete' \in BOOLEAN
      BY <3>2
    <3>4. /\ size' \in Nat /\ begin' \in Nat /\ end' \in Nat /\ read' \in Nat /\ arrived' \in Nat
          /\ begin' < end' /\ end' <= size'
      BY <3>1, <3>2 DEF ThereIsRoom
    <3> QED
      BY <3>3, <3>4 DEF ThereIsRoom
  <2>3. ASSUME NEW k \in 1 .. end' - begin'
        PROVE  (data[begin + k] = wire[read - (end - begin) + k])'
    <3>1. /\ begin + k \in 1 .. size
          /\ data'[begin + k] = IF end < begin + k /\ begin + k <= end + n
                                  THEN wire[read + (begin + k) - end] ELSE data[begin + k]
      BY <2>1, <2>3 DEF Read, ThereIsRoom
    <3>2. CASE begin + k <= end
      BY <2>1, <2>3, <3>1, <3>2 DEF Read, ThereIsRoom, WindowIsStream
    <3>3. CASE begin + k > end
      <4>1. end' = end + n /\ begin' = begin /\ read' = read + n /\ wire' = wire
        BY <2>1 DEF Read
      <4>2. n \in Nat /\ size \in Nat /\ k \in Int /\ begin + k <= end + n
        BY <2>3, <4>1 DEF BufferTypes
      <4>3. data'[begin + k] = wire[read + (begin + k) - end]
        BY <3>1, <3>3, <4>2
      <4>4. read' - (end' - begin') + k = read + (begin + k) - end
        BY ONLY <4>1, <4>2, BufferTypes DEF BufferTypes
      <4> QED
        BY ONLY <4>1, <4>3, <4>4
    <3> QED
      BY <3>2, <3>3
  <2>4. end' - begin' <= read' /\ read' <= arrived'
    BY <2>1, <2>2 DEF Read, ThereIsRoom, WindowIsStream
  <2>5. WindowIsStream'
    BY <2>3, <2>4 DEF WindowIsStream
  <2> QED
    BY <2>2, <2>5
<1>2. CASE Deliver
  <2>1. nextBegin \in Nat /\ begin < nextBegin /\ nextBegin <= end
    BY <1>2 DEF Deliver, Complete, Frame, nextBegin
  <2>2. /\ incomplete' = (nextBegin = end)
        /\ begin' = IF nextBegin = end THEN 0 ELSE nextBegin
        /\ end' = IF nextBegin = end THEN 0 ELSE end
        /\ UNCHANGED <<data, size, wire, arrived, read>>
    BY <1>2 DEF Deliver
  <2>3. CASE nextBegin = end
    <3>1. incomplete' /\ incomplete' \in BOOLEAN
      BY <2>2, <2>3
    <3>2. begin' = 0 /\ end' = 0 /\ size' = size /\ 0 < size /\ read' = read /\ arrived' = arrived
      BY <2>1, <2>2, <2>3 DEF ThereIsRoom
    <3>3. BufferTypes' /\ ThereIsRoom'
      BY <3>1, <3>2 DEF ThereIsRoom
    <3>4. WindowIsStream'
      BY <3>2 DEF WindowIsStream
    <3> QED
      BY <3>3, <3>4
  <2>4. CASE nextBegin # end
    <3>1. BufferTypes' /\ ThereIsRoom'
      BY <2>1, <2>2, <2>4 DEF ThereIsRoom
    <3>2. ASSUME NEW k \in 1 .. end - nextBegin
          PROVE  data[nextBegin + k] = wire[read - (end - nextBegin) + k]
      <4>1. (nextBegin - begin) + k \in 1 .. end - begin
        BY <2>1, <3>2
      <4>2. data[begin + ((nextBegin - begin) + k)] = wire[read - (end - begin) + ((nextBegin - begin) + k)]
        BY <4>1 DEF WindowIsStream
      <4> QED
        BY <2>1, <3>2, <4>2
    <3>3. WindowIsStream'
      BY <2>1, <2>2, <2>4, <3>2 DEF WindowIsStream
    <3> QED
      BY <3>1, <3>3
  <2> QED
    BY <2>3, <2>4
<1>3. CASE Wait
  BY <1>3 DEF Wait, Missing, ThereIsRoom, WindowIsStream
<1>4. CASE Compact
  <2>1. BufferTypes' /\ ThereIsRoom'
    BY <1>4 DEF Compact, CompactedEnd, Missing, ThereIsRoom
  <2>2. ASSUME NEW k \in 1 .. end'
        PROVE  data'[k] = data[begin + k]
    BY <1>4, <2>2 DEF Compact, CompactedEnd, ThereIsRoom
  <2>3. /\ begin' = 0 /\ end' = end - begin
        /\ read' = read /\ arrived' = arrived /\ wire' = wire
    BY <1>4 DEF Compact, CompactedEnd, ThereIsRoom
  <2>4. ASSUME NEW k \in 1 .. end' - begin'
        PROVE  (data[begin + k] = wire[read - (end - begin) + k])'
    <3>1. k \in 1 .. end' /\ k \in 1 .. end - begin /\ begin' + k = k
      BY <2>3, <2>4 DEF ThereIsRoom
    <3>2. data'[k] = data[begin + k]
      BY <2>2, <3>1
    <3>3. data[begin + k] = wire[read - (end - begin) + k]
      BY <3>1 DEF WindowIsStream
    <3>4. end' - begin' = end - begin
      BY <2>3 DEF ThereIsRoom
    <3> QED
      BY <2>3, <3>1, <3>2, <3>3, <3>4
  <2>5. WindowIsStream'
    BY <2>3, <2>4 DEF ThereIsRoom, WindowIsStream
  <2> QED
    BY <2>1, <2>5
<1>5. CASE Grow
  <2>1. BufferTypes' /\ ThereIsRoom'
    BY <1>5 DEF Grow, MustGrow, Missing, ThereIsRoom
  <2> QED
    BY <1>5, <2>1 DEF Grow, MustGrow, Missing, ThereIsRoom, WindowIsStream
<1>6. CASE Panic
  BY <1>6 DEF Panic, ThereIsRoom, WindowIsStream
<1> QED
  BY <1>1, <1>2, <1>3, <1>4, <1>5, <1>6 DEF ReadOne

\* The indices and the window, in every state.
LEMMA BufferInvariant == Spec => []BufferInv
<1>1. Init => BufferInv
  BY ReaderAssumption DEF Init, ReaderInit, BufferInv, BufferTypes, ThereIsRoom, WindowIsStream
<1>2. BufferInv /\ [Next]_vars => BufferInv'
  <2> SUFFICES ASSUME BufferInv, [Next]_vars
               PROVE  BufferInv'
    OBVIOUS
  <2>1. CASE WriterNext
    BY <2>1, WriterOnlyAdds, InvUnderWriter DEF BufferInv, BufferTypes
  <2>2. CASE Receiving
    BY <2>2, InvUnderReader, ReaderAssumption DEF Receiving
  <2>3. CASE UNCHANGED vars
    BY <2>3 DEF vars, readerVars, BufferInv, BufferTypes, ThereIsRoom, WindowIsStream
  <2> QED
    BY <2>1, <2>2, <2>3 DEF Next
<1> QED
  BY <1>1, <1>2, PTL DEF Spec

\* The indices of BufferedReader stay in order, and a call that reads has room to read into,
\* whatever Compact, Grow and the reset of the buffer have done before.
THEOREM RoomToRead == Spec => []ThereIsRoom
<1>1. BufferInv => ThereIsRoom
  BY DEF BufferInv
<1> QED
  BY <1>1, BufferInvariant, PTL

\* No byte is lost, repeated or moved out of its place between the stream and the parser.
THEOREM NoByteIsLost == Spec => []WindowIsStream
<1>1. BufferInv => WindowIsStream
  BY DEF BufferInv
<1> QED
  BY <1>1, BufferInvariant, PTL

-----------------------------------------------------------------------------
(* What the writer formats *)

\* A set of natural numbers that is not empty has a smallest number.
LEMMA Smallest ==
  ASSUME NEW T \in SUBSET Nat, T # {}
  PROVE  \E x \in T : \A y \in T : x <= y
<1>1. PICK x \in T : \A y \in T : ~(<<y, x>> \in OpToRel(<, Nat))
  BY WFMin, NatLessThanWellFounded
<1>2. \A y \in T : x <= y
  <2> SUFFICES ASSUME NEW y \in T, y < x PROVE FALSE
    OBVIOUS
  <2>1. <<y, x>> \in Nat \X Nat /\ <<y, x>>[1] < <<y, x>>[2]
    OBVIOUS
  <2> QED
    BY <1>1, <2>1 DEF OpToRel
<1> QED
  BY <1>2

\* The length of what is joined.
LEMMA Joined ==
  ASSUME NEW s \in Seq(Int), NEW t \in Seq(Int)
  PROVE  s \o t \in Seq(Int) /\ Len(s \o t) = Len(s) + Len(t) /\ Len(s) \in Nat /\ Len(t) \in Nat
BY ConcatProperties, LenProperties

\* A function on the numbers from 1 is a sequence.
LEMMA FunctionIsSequence ==
  ASSUME NEW S, NEW n \in Nat, NEW f \in [1 .. n -> S]
  PROVE  f \in Seq(S) /\ Len(f) = n
OBVIOUS

\* A message takes at least one byte, whatever separates it from the next.
LEMMA FormatHasBytes ==
  ASSUME mode \in Modes, NEW p \in Seq(Nat)
  PROVE  Len(Format(p)) \in Nat \ {0}
<1> DEFINE header == Header(mode)
<1>1. /\ mode.kind \in {"delimiter", "text", "binary", "fixed"}
      /\ mode.param \in Nat /\ mode.width \in Nat
      /\ mode.delimiter \in Seq(Int) /\ p \in Seq(Int)
  <2>1. /\ mode.kind \in {"delimiter", "text", "binary", "fixed"}
        /\ mode.param \in Nat /\ mode.width \in Nat /\ mode.delimiter \in Seq(Nat)
    BY ReaderAssumption
  <2>2. \A s \in Seq(Nat) : s \in Seq(Int)
    OBVIOUS
  <2> QED
    BY <2>1, <2>2
<1>2. header \in Seq(Int)
  BY <1>1 DEF Header
<1> HIDE DEF header
<1>3. CASE mode.kind = "delimiter"
  <2>1. mode.delimiter # <<>>
    BY <1>3, WireAssumption
  <2>2. Len(mode.delimiter) # 0
    BY <1>1, <2>1, EmptySeq
  <2>3. Format(p) = p \o mode.delimiter
    BY <1>3 DEF Format
  <2>4. Len(p \o mode.delimiter) = Len(p) + Len(mode.delimiter) /\ Len(p) \in Nat /\ Len(mode.delimiter) \in Nat
    BY <1>1, Joined
  <2> QED
    BY ONLY <2>2, <2>3, <2>4
<1>4. CASE mode.kind = "text"
  <2> DEFINE digits == Digits(Len(p))
             start == header \o digits
             prefix == start \o mode.delimiter
  <2>1. digits \in Seq(Int) /\ Len(digits) \in Nat /\ Len(digits) > 0
    BY <1>1, LenProperties DEF Digits
  <2>2. Format(p) = prefix \o p
    BY <1>4 DEF Format, header
  <2> HIDE DEF digits
  <2>3. start \in Seq(Int) /\ Len(start) = Len(header) + Len(digits) /\ Len(header) \in Nat
    BY ONLY <1>2, <2>1, Joined
  <2> HIDE DEF start
  <2>4. /\ prefix \in Seq(Int) /\ Len(prefix) = Len(start) + Len(mode.delimiter)
        /\ Len(mode.delimiter) \in Nat
    BY ONLY <1>1, <2>3, Joined
  <2> HIDE DEF prefix
  <2>5. Len(prefix \o p) = Len(prefix) + Len(p) /\ Len(p) \in Nat
    BY ONLY <1>1, <2>4, Joined
  <2>6. Len(prefix) \in Nat /\ Len(prefix) > 0
    <3>1. Len(start) \in Nat /\ Len(start) > 0
      BY ONLY <2>1, <2>3
    <3> QED
      BY ONLY <3>1, <2>4
  <2>7. Len(Format(p)) = Len(prefix) + Len(p)
    BY ONLY <2>2, <2>5
  <2> QED
    BY ONLY <2>5, <2>6, <2>7
<1>5. CASE mode.kind = "binary"
  <2> DEFINE bytes == LengthBytes(mode, Len(p))
             prefix == header \o bytes
  <2>1. bytes \in Seq(Int) /\ Len(bytes) = mode.width
    <3>1. bytes = [i \in 1 .. mode.width |->
                     IF i = (IF mode.bigEndian THEN mode.width ELSE 1) THEN Len(p) ELSE 0]
      BY DEF LengthBytes
    <3>2. Len(p) \in Int
      BY <1>1, LenProperties
    <3>3. \A i \in 1 .. mode.width : bytes[i] \in Int
      BY <3>1, <3>2
    <3> HIDE DEF bytes
    <3>4. bytes \in [1 .. mode.width -> Int]
      BY <3>1, <3>3
    <3>5. mode.width \in Nat
      BY <1>1
    <3> QED
      BY ONLY <3>4, <3>5, FunctionIsSequence
  <2>2. mode.width > 0
    BY <1>5, WireAssumption
  <2>3. Format(p) = prefix \o p
    BY <1>5 DEF Format, header
  <2> HIDE DEF bytes
  <2>4. prefix \in Seq(Int) /\ Len(prefix) = Len(header) + Len(bytes) /\ Len(header) \in Nat
    BY ONLY <1>2, <2>1, Joined
  <2> HIDE DEF prefix
  <2>5. Len(prefix \o p) = Len(prefix) + Len(p) /\ Len(p) \in Nat
    BY ONLY <1>1, <2>4, Joined
  <2>6. mode.width \in Nat
    BY <1>1
  <2> QED
    BY ONLY <2>1, <2>2, <2>3, <2>4, <2>5, <2>6
<1>6. CASE mode.kind = "fixed"
  <2>1. Format(p) = [i \in 1 .. mode.param |-> IF i <= Len(p) THEN p[i] ELSE 0]
    BY <1>6 DEF Format
  <2>2. Len(Format(p)) = mode.param
    BY <1>1, <2>1
  <2> QED
    BY <1>1, <1>6, <2>2, WireAssumption
<1> QED
  BY <1>1, <1>3, <1>4, <1>5, <1>6

\* What a message adds to what is filled.
FillStep(old, p) ==
  [buffer |-> IF old.length + Len(p) > Len(old.buffer)
                THEN Extended(old.buffer, old.length, p)
                ELSE Overwritten(old.buffer, old.length, p),
   length |-> old.length + Len(p)]

\* The buffer is filled step by step.
LEMMA FilledSteps ==
  ASSUME NEW messages \in Seq(Messages)
  PROVE  /\ Filled(messages)[0] = [buffer |-> buffer, length |-> 0]
         /\ \A n \in 1 .. Len(messages) :
              Filled(messages)[n] = FillStep(Filled(messages)[n - 1], Format(Payload[messages[n]]))
<1> DEFINE N == Len(messages)
           start == [buffer |-> buffer, length |-> 0]
           payload(n) == Format(Payload[messages[n]])
           Next1(old, n) == FillStep(old, payload(n))
           Fills(f, k) == f = [n \in 0 .. k |-> IF n = 0 THEN start ELSE Next1(f[n - 1], n)]
           filled == CHOOSE f : Fills(f, N)
<1>1. Filled(messages) = filled
  BY DEF Filled, FillStep
<1>2. N \in Nat
  OBVIOUS
<1> HIDE DEF Next1, N, start
<1>4. \A k \in Nat : \E f : Fills(f, k)
  <2> DEFINE Bad == {k \in Nat : ~\E f : Fills(f, k)}
  <2> SUFFICES ASSUME Bad # {} PROVE FALSE
    OBVIOUS
  <2>1. PICK k \in Bad : \A j \in Bad : k <= j
    <3>1. Bad \in SUBSET Nat
      OBVIOUS
    <3> HIDE DEF Bad
    <3> QED
      BY <3>1, Smallest
  <2>2. CASE k = 0
    <3>1. Fills([n \in 0 .. 0 |-> start], 0)
      OBVIOUS
    <3> QED
      BY <2>1, <2>2, <3>1
  <2>3. CASE k # 0
    <3>1. k \in Nat /\ k - 1 \in Nat /\ k - 1 \notin Bad
      <4>1. k \in Nat /\ k \in Bad
        BY <2>1
      <4>2. k - 1 \in Nat /\ ~(k <= k - 1)
        BY ONLY <2>3, <4>1
      <4> HIDE DEF Bad
      <4> QED
        BY ONLY <2>1, <4>1, <4>2
    <3>2. PICK f : Fills(f, k - 1)
      BY <3>1
    <3> DEFINE g == [n \in 0 .. k |-> IF n = k THEN Next1(f[k - 1], k) ELSE f[n]]
    <3>3. ASSUME NEW n \in 0 .. k PROVE g[n] = IF n = 0 THEN start ELSE Next1(g[n - 1], n)
      <4>1. CASE n = k
        <5>1. g[n] = Next1(f[k - 1], k) /\ g[k - 1] = f[k - 1]
          BY <3>1, <4>1
        <5> QED
          BY <2>3, <4>1, <5>1
      <4>2. CASE n # k /\ n # 0
        <5>1. n \in 0 .. k - 1 /\ n - 1 \in 0 .. k - 1
          BY <3>1, <4>2
        <5>2. f[n] = Next1(f[n - 1], n)
          BY <3>2, <4>2, <5>1
        <5>3. g[n] = f[n] /\ g[n - 1] = f[n - 1]
          BY <3>1, <4>2, <5>1
        <5> QED
          BY <4>2, <5>2, <5>3
      <4>3. CASE n = 0
        <5>1. g[0] = f[0] /\ 0 \in 0 .. k - 1
          BY <2>3, <3>1
        <5> QED
          BY <3>2, <4>3, <5>1
      <4> QED
        BY <4>1, <4>2, <4>3
    <3>4. Fills(g, k)
      BY <3>3
    <3> QED
      BY <2>1, <3>4
  <2> QED
    BY <2>2, <2>3
<1>5. Fills(filled, N)
  <2> HIDE DEF Fills
  <2> QED
    BY <1>2, <1>4
<1> HIDE DEF filled
<1>6. filled[0] = start
  BY <1>2, <1>5
<1>7. ASSUME NEW n \in 1 .. N PROVE filled[n] = Next1(filled[n - 1], n)
  BY <1>2, <1>5, <1>7
<1> QED
  BY <1>1, <1>6, <1>7 DEF N, start, Next1

\* What is filled grows with every message, by its bytes.
LEMMA FilledGrows ==
  ASSUME mode \in Modes, NEW messages \in Seq(Messages)
  PROVE  /\ Filled(messages)[0].length = 0
         /\ \A n \in 0 .. Len(messages) : Filled(messages)[n].length \in Nat
         /\ \A n \in 1 .. Len(messages) : Filled(messages)[n - 1].length < Filled(messages)[n].length
<1> DEFINE N == Len(messages)
           L(n) == Len(Format(Payload[messages[n]]))
           filled == Filled(messages)
<1>1. filled[0].length = 0 /\ \A n \in 1 .. N : filled[n].length = filled[n - 1].length + L(n)
  <2>1. \A old, p : FillStep(old, p).length = old.length + Len(p)
    BY DEF FillStep
  <2>2. /\ filled[0] = [buffer |-> buffer, length |-> 0]
        /\ \A n \in 1 .. N : filled[n] = FillStep(filled[n - 1], Format(Payload[messages[n]]))
    BY FilledSteps
  <2> HIDE DEF filled, N
  <2> QED
    BY <2>1, <2>2
<1>2. N \in Nat /\ \A n \in 1 .. N : L(n) \in Nat \ {0}
  <2>1. N \in Nat /\ \A n \in 1 .. N : messages[n] \in Messages
    OBVIOUS
  <2>2. \A n \in 1 .. N : Payload[messages[n]] \in Seq(Nat)
    BY <2>1, WireAssumption
  <2> QED
    BY <2>1, <2>2, FormatHasBytes
<1> HIDE DEF L, N, filled
<1>8. \A n \in 0 .. N : filled[n].length \in Nat
  <2> DEFINE Bad == {n \in 0 .. N : filled[n].length \notin Nat}
  <2> SUFFICES ASSUME Bad # {} PROVE FALSE
    OBVIOUS
  <2>1. PICK n \in Bad : \A k \in Bad : n <= k
    <3>1. Bad \in SUBSET Nat
      BY <1>2
    <3> HIDE DEF Bad
    <3> QED
      BY <3>1, Smallest
  <2>2. n # 0
    BY <1>1
  <2>3. n \in 1 .. N /\ n - 1 \in 0 .. N /\ n - 1 \notin Bad
    BY <1>2, <2>1, <2>2
  <2>4. filled[n - 1].length \in Nat /\ L(n) \in Nat
    BY <1>2, <2>3
  <2> QED
    BY <1>1, <2>3, <2>4
<1>9. ASSUME NEW n \in 1 .. N PROVE filled[n - 1].length < filled[n].length
  <2>1. n - 1 \in 0 .. N
    BY <1>2
  <2>2. filled[n - 1].length \in Nat /\ L(n) \in Nat \ {0}
    BY <1>2, <1>8, <2>1
  <2> QED
    BY <1>1, <2>2
<1> QED
  BY <1>1, <1>8, <1>9 DEF N, filled

\* The number of messages that n bytes hold as a whole.
Whole(messages, length) ==
  Cardinality({n \in 1 .. Len(messages) : Filled(messages)[n].length <= length})

\* They are all of them when everything is written, and none when nothing is.
LEMMA WholeMessages ==
  ASSUME mode \in Modes, NEW messages \in Seq(Messages), NEW length \in Nat
  PROVE  /\ Whole(messages, length) \in 0 .. Len(messages)
         /\ length = Filled(messages)[Len(messages)].length => Whole(messages, length) = Len(messages)
         /\ length = 0 => Whole(messages, length) = 0
<1> DEFINE N == Len(messages)
           filled == Filled(messages)
           whole == {n \in 1 .. N : filled[n].length <= length}
<1>1. /\ N \in Nat /\ filled[0].length = 0
      /\ \A n \in 0 .. N : filled[n].length \in Nat
      /\ \A n \in 1 .. N : filled[n - 1].length < filled[n].length
  BY FilledGrows
<1> HIDE DEF N, filled
<1>2. IsFiniteSet(1 .. N) /\ Cardinality(1 .. N) = N
  <2>1. IsFiniteSet(1 .. N) /\ Cardinality(1 .. N) = IF 1 > N THEN 0 ELSE N - 1 + 1
    <3>1. 1 \in Int /\ N \in Int
      BY ONLY <1>1
    <3> QED
      BY ONLY <3>1, FS_Interval, Zenon
  <2> QED
    BY ONLY <1>1, <2>1
<1>3. Cardinality(whole) \in 0 .. N
  <2>1. IsFiniteSet(whole) /\ Cardinality(whole) <= N
    BY <1>2, FS_Subset
  <2> QED
    BY <1>1, <2>1, FS_CardinalityType
<1>4. ASSUME length = filled[N].length PROVE Cardinality(whole) = N
  <2> DEFINE Bad == {k \in 0 .. N : filled[N - k].length > length}
  <2>1. Bad = {}
    <3> SUFFICES ASSUME Bad # {} PROVE FALSE
      OBVIOUS
    <3>1. PICK k \in Bad : \A j \in Bad : k <= j
      <4>1. Bad \in SUBSET Nat
        BY <1>1
      <4> HIDE DEF Bad
      <4> QED
        BY <4>1, Smallest
    <3>2. k # 0
      BY <1>1, <1>4
    <3>3. k - 1 \in 0 .. N /\ k - 1 \notin Bad /\ N - k + 1 \in 1 .. N /\ N - k \in 0 .. N /\ N - (k - 1) = N - k + 1
      BY <1>1, <3>1, <3>2
    <3>4. filled[N - k].length < filled[N - k + 1].length
      <4>1. (N - k + 1) - 1 = N - k
        BY <1>1, <3>1
      <4> QED
        BY <1>1, <3>3, <4>1
    <3>5. filled[N - k + 1].length <= length
      BY <1>1, <3>3
    <3> QED
      BY <1>1, <3>1, <3>3, <3>4, <3>5
  <2>2. ASSUME NEW n \in 1 .. N PROVE filled[n].length <= length
    <3>1. N - n \in 0 .. N /\ N - (N - n) = n /\ n \in 0 .. N
      BY <1>1
    <3>2. ~(filled[N - (N - n)].length > length)
      BY <2>1, <3>1
    <3>3. ~(filled[n].length > length)
      BY <3>1, <3>2
    <3>4. filled[n].length \in Nat
      BY <1>1, <3>1
    <3> QED
      BY ONLY <3>3, <3>4, length \in Nat
  <2>3. whole = 1 .. N
    BY <2>2
  <2> QED
    BY <1>2, <2>3
<1>5. ASSUME length = 0 PROVE Cardinality(whole) = 0
  <2>1. \A n \in 1 .. N : n - 1 \in 0 .. N /\ n \in 0 .. N
    BY <1>1
  <2>2. whole = {}
    BY <1>1, <1>5, <2>1
  <2> QED
    BY <2>2, FS_EmptySet
<1> QED
  BY <1>3, <1>4, <1>5 DEF Whole, N, filled

-----------------------------------------------------------------------------
(* The writer: what becomes of the messages of a batch *)

\* The messages of the batches that Write is done with.
Done == UNION {Members(Batches[b]) : b \in 1 .. Len(Batches) - Len(batches)}

\* The batches left are the last ones, and there is one while Write is under way.
BatchesLeft ==
  /\ batches \in Seq(Seq(Messages)) /\ Len(batches) <= Len(Batches)
  /\ \A i \in 1 .. Len(batches) : batches[i] = Batches[Len(Batches) - Len(batches) + i]
  /\ writing => batches # <<>>

WriterTypes == mode \in Modes /\ flushed \in [Messages -> Nat] /\ written \in Seq(Messages)

\* The inductive invariant: nothing is on the wire that has not been written.
WriterInv == WriterTypes /\ BatchesLeft /\ Members(written) \subseteq Done /\ Accounted

\* What the end of a Write does to the messages of its batch, however it ends.
Ends ==
  LET h      == Members(Head(batches))
      handed == flushed' = Handed(Head(batches))
  IN /\ writing /\ EndWrite /\ UNCHANGED <<mode, setting>>
     /\ written' \in Seq(Messages)
     /\ Members(written) \subseteq Members(written') /\ Members(written') \subseteq Members(written) \cup h
     /\ handed \/ flushed' = flushed
     /\ kept \subseteq kept'
     /\ handed \/ h \subseteq kept' \/ h \subseteq Members(written')
     /\ setting.handleError = "flush" => handed \/ h \subseteq Members(written')
     /\ dead => dead'
     /\ ~setting.validate =>
          \/ flushed' = flushed
          \/ Members(written') \subseteq Members(written)
          \/ ~dead /\ dead' /\ setting.handleError = "flush"

\* What is left of the batches after the first of them.
LEMMA BatchesEnd ==
  ASSUME BatchesLeft, writing, EndWrite
  PROVE  /\ BatchesLeft' /\ Head(batches) \in Seq(Messages)
         /\ \E b \in 1 .. Len(Batches) : Head(batches) = Batches[b]
         /\ Done' = Done \cup Members(Head(batches))
         /\ Done \cap Members(Head(batches)) = {}
<1> DEFINE N == Len(Batches)
           K == Len(batches)
<1>1. batches \in Seq(Seq(Messages)) /\ batches # <<>> /\ batches' = Tail(batches) /\ writing' = FALSE
  BY DEF BatchesLeft, EndWrite
<1>2. Batches \in Seq(Seq(Messages)) /\ N \in Nat
  BY WireAssumption
<1>3. K \in Nat \ {0} /\ K <= N /\ batches' \in Seq(Seq(Messages)) /\ Len(batches') = K - 1
  BY <1>1 DEF BatchesLeft
<1>4. \A i \in 1 .. K : batches[i] = Batches[N - K + i]
  BY DEF BatchesLeft
<1>5. Head(batches) = Batches[N - K + 1] /\ Head(batches) \in Seq(Messages)
  BY <1>1, <1>3, <1>4
<1>6. \A i \in 1 .. K - 1 : batches'[i] = batches[i + 1]
  BY <1>1, <1>3
<1> HIDE DEF N, K
<1>7. \A i \in 1 .. K - 1 : batches'[i] = Batches[N - (K - 1) + i]
  <2> TAKE i \in 1 .. K - 1
  <2>1. i + 1 \in 1 .. K /\ N - K + (i + 1) = N - (K - 1) + i
    BY ONLY <1>2, <1>3
  <2>2. batches[i + 1] = Batches[N - K + (i + 1)]
    BY ONLY <1>4, <2>1
  <2> QED
    BY ONLY <1>6, <2>1, <2>2
<1>8. BatchesLeft'
  <2>1. K - 1 <= N
    BY ONLY <1>2, <1>3
  <2> QED
    BY <1>1, <1>3, <1>7, <2>1 DEF BatchesLeft, N
<1>9. N - K \in Nat /\ N - (K - 1) = N - K + 1
  BY ONLY <1>2, <1>3
<1>10. Done = UNION {Members(Batches[b]) : b \in 1 .. N - K}
  BY DEF Done, N, K
<1>11. Done' = UNION {Members(Batches[b]) : b \in 1 .. N - (K - 1)}
  BY <1>3 DEF Done, N
<1>12. Done' = Done \cup Members(Head(batches))
  <2>1. 1 .. N - (K - 1) = (1 .. N - K) \cup {N - K + 1}
    BY ONLY <1>9
  <2> QED
    BY ONLY <1>5, <1>10, <1>11, <2>1
<1>13. Done \cap Members(Head(batches)) = {}
  <2> SUFFICES ASSUME NEW m \in Done, m \in Members(Head(batches)) PROVE FALSE
    OBVIOUS
  <2>1. PICK b \in 1 .. N - K : m \in Members(Batches[b])
    BY <1>10
  <2>2. b \in 1 .. N /\ N - K + 1 \in 1 .. N /\ b # N - K + 1
    BY ONLY <1>2, <1>3
  <2>3. PICK i \in 1 .. Len(Batches[b]) : Batches[b][i] = m
    BY <2>1 DEF Members
  <2>4. PICK k \in 1 .. Len(Batches[N - K + 1]) : Batches[N - K + 1][k] = m
    BY <1>5 DEF Members
  <2>5. Batches[b] \in Seq(Messages) /\ Batches[N - K + 1] \in Seq(Messages)
    BY <1>2, <2>2 DEF N
  <2>6. i \in DOMAIN Batches[b] /\ k \in DOMAIN Batches[N - K + 1]
    BY <2>5
  <2>7. b \in DOMAIN Batches /\ N - K + 1 \in DOMAIN Batches
    BY <1>2, <2>2 DEF N
  <2> QED
    BY <2>2, <2>3, <2>4, <2>6, <2>7, WireAssumption
<1>14. N - K + 1 \in 1 .. N
  BY ONLY <1>2, <1>3
<1> QED
  BY <1>5, <1>8, <1>12, <1>13, <1>14 DEF N

\* However a Write ends, its messages are accounted for, and the others are as they were.
LEMMA EndKeepsWriterInv ==
  ASSUME WriterInv, Ends
  PROVE  WriterInv'
<1> DEFINE messages == Head(batches)
           h == Members(messages)
<1>1. writing /\ EndWrite /\ mode' = mode /\ setting' = setting
  BY DEF Ends
<1>2. BatchesLeft' /\ Done' = Done \cup h /\ Done \cap h = {}
  BY <1>1, BatchesEnd DEF WriterInv
<1>3. mode \in Modes /\ flushed \in [Messages -> Nat]
  BY DEF WriterInv, WriterTypes
<1>4. /\ Members(written) \subseteq Done /\ Members(written) \subseteq Members(written')
      /\ Members(written') \subseteq Members(written) \cup h
  BY DEF WriterInv, Ends
<1>5. flushed' \in [Messages -> Nat] /\ \A m \in Messages :
        /\ m \notin h => flushed'[m] = flushed[m]
        /\ m \in h => flushed'[m] \in {flushed[m], flushed[m] + 1}
        /\ m \in h /\ flushed' # flushed => flushed'[m] = flushed[m] + 1
  <2>1. flushed' = flushed \/ flushed' = [m \in Messages |-> IF m \in h THEN flushed[m] + 1 ELSE flushed[m]]
    BY DEF Ends, Handed
  <2> QED
    BY ONLY <1>3, <2>1
<1>6. \A m \in Messages : flushed[m] \in Nat /\ flushed[m] <= IF m \in Done THEN 1 ELSE 0
  BY <1>3 DEF WriterInv, Accounted, Done
<1>7. Done \cup h \subseteq Messages
  <2>1. h \subseteq Messages
    <3>1. messages \in Seq(Messages)
      BY <1>1, BatchesEnd DEF WriterInv
    <3> QED
      BY <3>1 DEF Members
  <2>2. \A b \in 1 .. Len(Batches) - Len(batches) : Batches[b] \in Seq(Messages)
    <3>1. Batches \in Seq(Seq(Messages)) /\ Len(batches) \in Nat
      BY WireAssumption DEF WriterInv, BatchesLeft
    <3>2. \A b \in 1 .. Len(Batches) - Len(batches) : b \in 1 .. Len(Batches)
      BY <3>1
    <3> QED
      BY <3>1, <3>2
  <2>3. Done \subseteq Messages
    BY <2>2 DEF Done, Members
  <2> QED
    BY <2>1, <2>3
<1> DEFINE handed == flushed' = Handed(messages)
<1>8. \A m \in h : flushed[m] = 0 /\ (handed => flushed'[m] = 1)
  <2> TAKE m \in h
  <2>1. m \in Messages /\ m \notin Done
    BY <1>2, <1>7
  <2>2. flushed[m] = 0
    BY <1>6, <2>1
  <2>3. handed => flushed'[m] = flushed[m] + 1
    BY <1>3, <2>1 DEF Handed
  <2> QED
    BY <2>2, <2>3
<1>9. \A m \in Done : flushed'[m] = flushed[m]
  BY <1>2, <1>5, <1>7
<1>10. \A m \in Messages : flushed'[m] <= IF m \in Done \cup h THEN 1 ELSE 0
  <2> TAKE m \in Messages
  <2>1. CASE m \in h
    <3>1. flushed[m] = 0 /\ flushed'[m] \in {flushed[m], flushed[m] + 1}
      BY <1>5, <1>8, <2>1
    <3> QED
      BY ONLY <2>1, <3>1
  <2>2. CASE m \notin h
    BY <1>5, <1>6, <2>2
  <2> QED
    BY <2>1, <2>2
<1>11. \A m \in Done \cup h : m \in Members(written') \/ m \in kept' \/ flushed'[m] = 1
  <2>1. \A m \in Done : m \in Members(written) \/ m \in kept \/ flushed[m] = 1
    BY DEF WriterInv, Accounted, Done
  <2>2. kept \subseteq kept' /\ (handed \/ h \subseteq kept' \/ h \subseteq Members(written'))
    BY DEF Ends
  <2> QED
    BY <1>4, <1>8, <1>9, <2>1, <2>2
<1>12. ASSUME setting'.handleError = "flush", NEW m \in (Done \cup h) \ Members(written') PROVE flushed'[m] = 1
  <2>1. \A k \in Done \ Members(written) : flushed[k] = 1
    BY <1>1, <1>12 DEF WriterInv, Accounted, Done
  <2>2. handed \/ h \subseteq Members(written')
    BY <1>1, <1>12 DEF Ends
  <2> QED
    BY <1>4, <1>8, <1>9, <1>12, <2>1, <2>2
<1> DEFINE both == {m \in Members(written) : flushed[m] = 1}
           Excused(s) == /\ dead' /\ setting.handleError = "flush"
                         /\ \E b \in 1 .. Len(Batches) : s \subseteq Members(Batches[b])
<1>13. ASSUME ~setting.validate, both' # {} PROVE Excused(both')
  <2>1. both # {} => dead /\ Excused(both)
    BY <1>13 DEF WriterInv, Accounted, Ends
  <2>2. \A m \in both' : m \in both \/ (m \in h /\ flushed' # flushed /\ m \in Members(written'))
    BY <1>4, <1>8, <1>9
  <2>3. CASE flushed' = flushed \/ Members(written') \subseteq Members(written)
    <3>1. both' \subseteq both
      BY <1>2, <1>4, <2>2, <2>3
    <3> QED
      BY <1>13, <2>1, <3>1
  <2>4. CASE ~dead /\ dead' /\ setting.handleError = "flush"
    <3>1. both' \subseteq h
      BY <2>1, <2>2, <2>4
    <3>2. \E b \in 1 .. Len(Batches) : messages = Batches[b]
      BY <1>1, BatchesEnd DEF WriterInv
    <3> QED
      BY <2>4, <3>1, <3>2
  <2> QED
    BY <1>13, <2>3, <2>4 DEF Ends
<1>14. Accounted'
  <2>1. Done' = UNION {Members(Batches[b]) : b \in 1 .. Len(Batches) - Len(batches')}
    BY DEF Done
  <2> QED
    BY <1>1, <1>2, <1>10, <1>11, <1>12, <1>13, <2>1 DEF Accounted
<1>15. WriterTypes'
  BY <1>1, <1>3, <1>5 DEF WriterTypes, Ends
<1> QED
  BY <1>2, <1>4, <1>14, <1>15 DEF WriterInv

\* What a transmission adds to what is written.
LEMMA Transmitted ==
  ASSUME mode \in Modes, written \in Seq(Messages), NEW messages \in Seq(Messages), NEW length \in Nat,
         Transmit(Filled(messages), messages, length)
  PROVE  /\ written' \in Seq(Messages)
         /\ Members(written) \subseteq Members(written')
         /\ Members(written') \subseteq Members(written) \cup Members(messages)
         /\ length = Filled(messages)[Len(messages)].length => Members(messages) \subseteq Members(written')
         /\ length = 0 => Members(written') \subseteq Members(written)
<1> DEFINE n == Whole(messages, length)
           sent == SubSeq(messages, 1, n)
<1>1. written' = written \o sent
  BY DEF Transmit, Whole
<1>2. /\ n \in 0 .. Len(messages)
      /\ length = Filled(messages)[Len(messages)].length => n = Len(messages)
      /\ length = 0 => n = 0
  BY WholeMessages
<1> HIDE DEF n
<1>3. sent \in Seq(Messages) /\ Len(sent) = n /\ \A i \in 1 .. n : sent[i] = messages[i]
  BY <1>2
<1> HIDE DEF sent
<1>4. written' \in Seq(Messages)
  BY <1>1, <1>3
<1>5. /\ Len(written') = Len(written) + n
      /\ \A i \in 1 .. Len(written) : written'[i] = written[i]
      /\ \A i \in 1 .. n : written'[Len(written) + i] = sent[i]
  <2>1. written \in Seq(Messages) /\ sent \in Seq(Messages) /\ Len(sent) = n
    BY <1>3
  <2>2. \A i \in 1 .. Len(written) : (written \o sent)[i] = written[i]
    BY ONLY <2>1
  <2>3. \A i \in 1 .. Len(sent) : (written \o sent)[Len(written) + i] = sent[i]
    BY ONLY <2>1
  <2>4. Len(written \o sent) = Len(written) + Len(sent)
    BY ONLY <2>1
  <2> QED
    BY ONLY <1>1, <2>1, <2>2, <2>3, <2>4
<1>6. Members(written') = Members(written) \cup Members(sent)
  <2>1. Members(written) \subseteq Members(written') /\ Members(sent) \subseteq Members(written')
    <3>1. \A i \in 1 .. Len(written) : i \in 1 .. Len(written')
      BY <1>2, <1>5
    <3>2. \A i \in 1 .. n : Len(written) + i \in 1 .. Len(written')
      BY <1>2, <1>5
    <3> QED
      BY <1>3, <1>5, <3>1, <3>2 DEF Members
  <2>2. ASSUME NEW i \in 1 .. Len(written') PROVE written'[i] \in Members(written) \cup Members(sent)
    <3>1. CASE i <= Len(written)
      <4>1. i \in 1 .. Len(written)
        BY <3>1
      <4> QED
        BY <1>5, <4>1 DEF Members
    <3>2. CASE i > Len(written)
      <4>1. i - Len(written) \in 1 .. n /\ Len(written) + (i - Len(written)) = i
        BY <1>2, <1>5, <3>2
      <4> QED
        BY <1>3, <1>5, <4>1 DEF Members
    <3> QED
      BY <3>1, <3>2
  <2> QED
    BY <2>1, <2>2 DEF Members
<1>7. Members(sent) \subseteq Members(messages) /\ (n = Len(messages) => Members(messages) \subseteq Members(sent))
      /\ (n = 0 => Members(sent) = {})
  BY <1>2, <1>3 DEF Members
<1> QED
  BY <1>2, <1>4, <1>6, <1>7

\* What the invariant is about, but for the steps that end a Write.
LEMMA WriterInvStutters ==
  ASSUME WriterInv, UNCHANGED <<mode, setting, batches, dead, flushed, written, kept>>,
         writing' => batches # <<>>
  PROVE  WriterInv'
<1>1. Done' = Done
  BY DEF Done
<1>2. BatchesLeft'
  BY DEF WriterInv, BatchesLeft
<1>3. Accounted'
  BY DEF WriterInv, Accounted
<1> QED
  BY <1>1, <1>2, <1>3 DEF WriterInv, WriterTypes

\* What a Write that is under way works on.
LEMMA FirstBatch ==
  ASSUME WriterInv, writing
  PROVE  mode \in Modes /\ written \in Seq(Messages) /\ Head(batches) \in Seq(Messages)
BY DEF WriterInv, WriterTypes, BatchesLeft

\* Without a writer all messages are handed back.
LEMMA NoWriterEnds ==
  ASSUME WriterInv, NoWriter
  PROVE  Ends
BY DEF NoWriter, Ends, WriterInv, WriterTypes, readerVars

\* A Write of everything: only a validator can hand back what is on the wire.
LEMMA WriteEnds ==
  ASSUME WriterInv, NEW length \in 0 .. LongestWrite, NEW valid \in BOOLEAN, Write(length, valid)
  PROVE  Ends
<1> DEFINE messages == Head(batches)
<1>1. /\ writing /\ ~dead /\ dead' = dead /\ kept' = kept /\ (setting.validate \/ valid)
      /\ length = Filled(messages)[Len(messages)].length
      /\ Transmit(Filled(messages), messages, length)
      /\ flushed' = IF valid THEN flushed ELSE Handed(messages)
  BY DEF Write
<1>2. EndWrite /\ mode' = mode /\ setting' = setting
  BY <1>1 DEF Transmit
<1>3. mode \in Modes /\ written \in Seq(Messages) /\ messages \in Seq(Messages) /\ length \in Nat
  BY <1>1, FirstBatch
<1>4. /\ written' \in Seq(Messages) /\ Members(written) \subseteq Members(written')
      /\ Members(written') \subseteq Members(written) \cup Members(messages)
      /\ Members(messages) \subseteq Members(written')
  BY <1>1, <1>3, Transmitted
<1>5. (dead => dead') /\ (~setting.validate => flushed' = flushed)
  BY <1>1
<1> QED
  BY <1>1, <1>2, <1>4, <1>5, Zenon DEF Ends

\* A Write of less: what is not on the wire is handed back or kept quiet.
LEMMA WriteFailsEnds ==
  ASSUME WriterInv, NEW length \in 0 .. LongestWrite, NEW lost \in BOOLEAN, WriteFails(length, lost)
  PROVE  Ends
<1> DEFINE messages == Head(batches)
<1>1. /\ writing /\ (dead => length = 0) /\ (dead \/ length > 0 => lost) /\ dead' = lost
      /\ Transmit(Filled(messages), messages, length)
      /\ IF setting.handleError = "flush"
           THEN flushed' = Handed(messages) /\ kept' = kept
           ELSE kept' = kept \cup Members(messages) /\ flushed' = flushed
  BY DEF WriteFails, HandsBack
<1>2. EndWrite /\ mode' = mode /\ setting' = setting
  BY <1>1 DEF Transmit
<1>3. mode \in Modes /\ written \in Seq(Messages) /\ messages \in Seq(Messages) /\ length \in Nat
  BY <1>1, FirstBatch
<1>4. /\ written' \in Seq(Messages) /\ Members(written) \subseteq Members(written')
      /\ Members(written') \subseteq Members(written) \cup Members(messages)
      /\ length = 0 => Members(written') \subseteq Members(written)
  BY <1>1, <1>3, Transmitted
<1>5. (dead => dead') /\ (length = 0 \/ (~dead /\ dead'))
  <2>1. ~(length > 0) => length = 0
    BY ONLY <1>3
  <2> QED
    BY <1>1, <2>1, Zenon
<1>6. flushed' = Handed(messages) \/ Members(messages) \subseteq kept'
  BY <1>1
<1>7. kept \subseteq kept' /\ (flushed' = Handed(messages) \/ flushed' = flushed)
      /\ (setting.handleError = "flush" => flushed' = Handed(messages))
      /\ (setting.handleError = "flush" \/ flushed' = flushed)
  BY <1>1
<1> QED
  BY <1>1, <1>2, <1>4, <1>5, <1>6, <1>7, Zenon DEF Ends

\* What the writer keeps, and so what becomes of the batches.
LEMMA WriterInvariant == Spec => []WriterInv
<1>1. Init => WriterInv
  <2> SUFFICES ASSUME Init PROVE WriterInv
    OBVIOUS
  <2>1. Batches \in Seq(Seq(Messages)) /\ Len(Batches) - Len(batches) = 0 /\ batches = Batches
    BY WireAssumption DEF Init
  <2>2. BatchesLeft
    BY <2>1 DEF Init, BatchesLeft
  <2>3. Done = {}
    BY <2>1 DEF Done
  <2>4. Members(written) = {} /\ written \in Seq(Messages)
    BY DEF Init, Members
  <2>5. Accounted
    BY <2>1, <2>4 DEF Init, Accounted
  <2> QED
    BY <2>2, <2>4, <2>5 DEF Init, ReaderInit, WriterInv, WriterTypes
<1>2. ASSUME WriterInv, [Next]_vars PROVE WriterInv'
  <2>1. CASE StartWrite
    BY <1>2, <2>1, WriterInvStutters DEF StartWrite, readerVars
  <2>2. CASE NoWriter
    BY <1>2, <2>2, NoWriterEnds, EndKeepsWriterInv
  <2>3. CASE SetWriter
    <3>1. writing' => batches # <<>>
      BY <1>2, <2>3 DEF SetWriter, WriterInv, BatchesLeft
    <3> QED
      BY <1>2, <2>3, <3>1, WriterInvStutters DEF SetWriter, readerVars
  <2>4. ASSUME NEW length \in 0 .. LongestWrite, NEW valid \in BOOLEAN, Write(length, valid) PROVE WriterInv'
    BY <1>2, <2>4, WriteEnds, EndKeepsWriterInv
  <2>5. ASSUME NEW length \in 0 .. LongestWrite, NEW lost \in BOOLEAN, WriteFails(length, lost) PROVE WriterInv'
    BY <1>2, <2>5, WriteFailsEnds, EndKeepsWriterInv
  <2>6. CASE Receiving \/ UNCHANGED vars
    <3>1. UNCHANGED writerVars
      BY <2>6 DEF Receiving, vars
    <3>2. mode' = mode
      BY <2>6 DEF Receiving, vars, readerVars, ReadOne, Read, Deliver, Wait, Compact, Grow, Panic
    <3>3. writing' => batches # <<>>
      BY <1>2, <3>1 DEF writerVars, WriterInv, BatchesLeft
    <3> QED
      BY <1>2, <3>1, <3>2, <3>3, WriterInvStutters DEF writerVars
  <2> QED
    BY <1>2, <2>1, <2>2, <2>3, <2>4, <2>5, <2>6 DEF Next, WriterNext
<1> QED
  BY <1>1, <1>2, PTL DEF Spec

\* Every message of a batch that Write is done with is on the wire, was handed back once, or was
\* part of a write whose error was kept quiet (writerassembly.go, Write): whatever the batches,
\* wherever a write fails, and whenever the writer is taken away.  Without a validator it is both
\* on the wire and handed back only if it is of the one batch whose write broke the connection
\* off, and the error handler has that batch flushed.
THEOREM BatchesAreAccounted == Spec => []Accounted
<1>1. WriterInv => Accounted
  BY DEF WriterInv
<1> QED
  BY <1>1, WriterInvariant, PTL

-----------------------------------------------------------------------------
(* Finding a message in what has arrived of it *)

\* The places of what is joined.
LEMMA JoinedAt ==
  ASSUME NEW s \in Seq(Nat), NEW t \in Seq(Nat)
  PROVE  /\ s \o t \in Seq(Nat) /\ Len(s \o t) = Len(s) + Len(t) /\ Len(s) \in Nat /\ Len(t) \in Nat
         /\ \A i \in 1 .. Len(s) : (s \o t)[i] = s[i]
         /\ \A i \in 1 .. Len(t) : (s \o t)[Len(s) + i] = t[i]
OBVIOUS

\* A part of a sequence is another one.
LEMMA PartIs ==
  ASSUME NEW s \in Seq(Nat), NEW d \in Seq(Nat), NEW a \in Nat, a + Len(d) <= Len(s)
  PROVE  SubSeq(s, a + 1, a + Len(d)) = d <=> \A i \in 1 .. Len(d) : s[a + i] = d[i]
<1> DEFINE n == Len(d)
           part == SubSeq(s, a + 1, a + n)
<1>1. n \in Nat /\ a \in Nat /\ Len(s) \in Nat /\ a + n <= Len(s) /\ \A i \in 1 .. Len(s) : s[i] \in Nat
  OBVIOUS
<1> HIDE DEF n
<1>2. PICK x \in Int, y \in Int : x = a + 1 /\ y = a + n
  BY ONLY <1>1
<1>3. /\ SubSeq(s, x, y) \in Seq(Nat) /\ Len(SubSeq(s, x, y)) = (IF x <= y THEN y - x + 1 ELSE 0)
      /\ \A i \in 1 .. y - x + 1 : SubSeq(s, x, y)[i] = s[x + i - 1]
  <2>1. \A i \in x .. y : s[i] \in Nat
    BY ONLY <1>1, <1>2
  <2> QED
    BY ONLY <2>1, x \in Int, y \in Int, SubSeqProperties, SMT
<1>0. part = SubSeq(s, x, y)
  BY <1>2
<1> HIDE DEF part
<1>4. Len(part) = n
  BY ONLY <1>0, <1>1, <1>2, <1>3
<1>5. ASSUME NEW i \in 1 .. n PROVE part[i] = s[a + i]
  <2>1. i \in 1 .. y - x + 1 /\ x + i - 1 = a + i
    BY ONLY <1>1, <1>2, i \in 1 .. n
  <2> QED
    BY ONLY <1>0, <1>3, <2>1
<1>6. ASSUME \A i \in 1 .. n : s[a + i] = d[i] PROVE part = d
  <2>1. \A i \in 1 .. Len(part) : part[i] = d[i]
    BY ONLY <1>4, <1>5, <1>6
  <2> QED
    BY ONLY <1>0, <1>3, <1>4, <2>1, SeqEqual, d \in Seq(Nat) DEF n
<1>7. part = d => \A i \in 1 .. n : s[a + i] = d[i]
  BY ONLY <1>5
<1> QED
  BY <1>6, <1>7 DEF n, part

\* A place in a part.
LEMMA Reaches ==
  ASSUME NEW a \in Nat, NEW c \in Nat, NEW x \in Nat, a + c <= x, NEW e \in Nat, 1 <= e, e <= c
  PROVE  a + e \in 1 .. x /\ a + e <= x
OBVIOUS

\* text starts as F does, as far as it goes.
Begins(text, F) == \A k \in 1 .. Len(F) : k <= Len(text) => text[k] = F[k]

\* How a message with payload p looks to the callback.
ShownAs(p) == IF mode.kind = "fixed" \/ mode.everything THEN Format(p) ELSE p

\* Where the reader ends with an index out of range.
AtLength(text, behind) ==
  \/ mode.kind = "binary" /\ Len(text) < mode.param
  \/ mode.kind = "text" /\ Len(text) + Len(behind) < mode.param + 2 + Len(mode.delimiter)

\* The frame is that of a message with payload p, or there is none yet.
Frames(fr, text, behind, p) ==
  IF Len(Format(p)) <= Len(text)
    THEN /\ fr \in Frame /\ fr.start + fr.len + fr.pad = Len(Format(p)) /\ fr.len = Len(ShownAs(p))
         /\ \A k \in 1 .. fr.len : Format(p)[fr.start + k] = ShownAs(p)[k]
    ELSE fr = NoFrame \/ (fr = OutOfRange /\ AtLength(text, behind))

\* What the assumptions say of the mode.
LEMMA ModeTypes ==
  ASSUME mode \in Modes
  PROVE  /\ mode.kind \in {"delimiter", "text", "binary", "fixed"}
         /\ mode.param \in Nat /\ mode.width \in Nat /\ mode.bigEndian \in BOOLEAN
         /\ mode.delimiter \in Seq(Nat) /\ mode.everything \in BOOLEAN
BY ReaderAssumption

Payloads == {Payload[m] : m \in Messages}

\* The first delimiter is the one that ends the message.
LEMMA DelimiterFrames ==
  ASSUME mode \in Modes, mode.kind = "delimiter", NEW p \in Payloads, NEW text \in Seq(Nat), NEW behind,
         Begins(text, Format(p))
  PROVE  Frames(checkCompleteDelimiter(mode, text), text, behind, p)
<1> DEFINE d == mode.delimiter
           n == Len(d)
           found == {k \in 0 .. Len(text) - n : SubSeq(text, k + 1, k + n) = d}
           first == CHOOSE k \in found : \A j \in found : k <= j
<1>1. d \in Seq(Nat) /\ p \in Seq(Nat) /\ d # <<>> /\ mode.everything \in BOOLEAN
  BY ModeTypes, WireAssumption DEF Payloads
<1>2. PICK F : F = p \o d /\ F = Format(p)
  BY DEF Format
<1>3. /\ F \in Seq(Nat) /\ Len(F) = Len(p) + n /\ Len(p) \in Nat /\ n \in Nat \ {0}
      /\ \A i \in 1 .. n : F[Len(p) + i] = d[i]
  <2>1. n # 0
    BY <1>1
  <2>2. /\ p \o d \in Seq(Nat) /\ Len(p \o d) = Len(p) + n /\ Len(p) \in Nat /\ n \in Nat
        /\ \A i \in 1 .. n : (p \o d)[Len(p) + i] = d[i]
    BY <1>1, JoinedAt
  <2> QED
    BY ONLY <1>2, <2>1, <2>2
<1>4. \A k \in 0 .. Len(p) - 1 : SubSeq(F, k + 1, k + n) # d
  BY <1>2, SeparationAssumption DEF Payloads
<1>5. ASSUME NEW k \in found PROVE k \in Nat /\ k >= Len(p) /\ k + n <= Len(text)
  <2>1. k \in Nat /\ k + n <= Len(text) /\ Len(text) \in Nat
    BY <1>3
  <2>2. ASSUME k < Len(p) PROVE FALSE
    <3>1. k \in 0 .. Len(p) - 1 /\ k + n <= Len(F)
      BY <1>3, <2>1, <2>2
    <3>2. \A i \in 1 .. n : text[k + i] = d[i]
      BY <1>1, <2>1, PartIs
    <3>3. \A i \in 1 .. n : F[k + i] = d[i]
      <4> TAKE i \in 1 .. n
      <4>1. k + i \in 1 .. Len(F) /\ k + i <= Len(text)
        <5>1. i \in Nat /\ 1 <= i /\ i <= n /\ n \in Nat
          BY <1>3
        <5>2. Len(F) \in Nat /\ Len(text) \in Nat /\ k \in Nat /\ k + n <= Len(F) /\ k + n <= Len(text)
          BY <1>3, <2>1, <3>1
        <5> QED
          BY ONLY <5>1, <5>2, Reaches
      <4> QED
        BY <1>2, <3>2, <4>1 DEF Begins
    <3>4. SubSeq(F, k + 1, k + n) = d
      BY ONLY <1>1, <1>3, <2>1, <3>1, <3>3, PartIs, ZenonT(60)
    <3> QED
      BY <1>4, <3>1, <3>4
  <2> QED
    BY <1>3, <2>1, <2>2
<1>6. CASE Len(F) <= Len(text)
  <2>1. SubSeq(text, Len(p) + 1, Len(p) + n) = d
    <3>1. \A i \in 1 .. n : text[Len(p) + i] = d[i]
      <4> TAKE i \in 1 .. n
      <4>1. Len(p) + i \in 1 .. Len(F) /\ Len(p) + i <= Len(text)
        BY <1>3, <1>6, SMTT(30)
      <4> QED
        BY <1>2, <1>3, <4>1 DEF Begins
    <3> QED
      BY ONLY <1>1, <1>3, <1>6, <3>1, PartIs, text \in Seq(Nat), SMTT(30)
  <2>2. Len(p) \in found
    BY <1>3, <1>6, <2>1
  <2>3. first = Len(p)
    <3>1. \A j \in found : Len(p) <= j
      BY <1>3, <1>5
    <3> HIDE DEF first
    <3>2. PICK f : f = first /\ f \in found /\ f <= Len(p)
      BY <2>2, <3>1 DEF first
    <3>3. f \in Nat /\ f >= Len(p) /\ Len(p) \in Nat
      BY <1>3, <1>5, <3>2
    <3> QED
      BY ONLY <3>2, <3>3
  <2>4. checkCompleteDelimiter(mode, text) =
          IF mode.everything THEN [len |-> Len(p) + n, start |-> 0, pad |-> 0]
          ELSE [len |-> Len(p), start |-> 0, pad |-> n]
    BY <1>1, <2>2, <2>3 DEF checkCompleteDelimiter
  <2>5. CASE mode.everything
    BY <1>2, <1>3, <1>6, <2>4, <2>5 DEF Frames, Frame, ShownAs
  <2>6. CASE ~mode.everything
    <3>1. \A k \in 1 .. Len(p) : (p \o d)[k] = p[k]
      BY <1>1, JoinedAt
    <3> QED
      BY <1>2, <1>3, <1>6, <2>4, <2>6, <3>1 DEF Frames, Frame, ShownAs
  <2> QED
    BY <2>5, <2>6
<1>7. CASE ~(Len(F) <= Len(text))
  <2>1. found = {}
    <3>1. \A k \in Nat : k >= Len(p) /\ k + n <= Len(text) => FALSE
      BY ONLY <1>3, <1>7, text \in Seq(Nat)
    <3> QED
      BY <1>5, <3>1
  <2>2. checkCompleteDelimiter(mode, text) = NoFrame
    BY <2>1 DEF checkCompleteDelimiter
  <2> QED
    BY <1>2, <1>7, <2>2 DEF Frames
<1> QED
  BY <1>6, <1>7

\* The digits of a length.
LEMMA DigitsOf ==
  ASSUME NEW n \in 0 .. 99
  PROVE  \/ n \in 0 .. 9 /\ Digits(n) = <<48 + n>>
         \/ \E a, b \in 0 .. 9 : n = 10 * a + b /\ Digits(n) = <<48 + a, 48 + b>>
<1>1. CASE n < 10
  BY <1>1 DEF Digits
<1>2. CASE n >= 10
  <2>1. n \div 10 \in 0 .. 9 /\ n % 10 \in 0 .. 9 /\ n = 10 * (n \div 10) + (n % 10)
    OBVIOUS
  <2>2. Digits(n) = <<48 + n \div 10, 48 + (n % 10)>>
    BY <1>2 DEF Digits
  <2> QED
    BY <2>1, <2>2
<1> QED
  BY <1>1, <1>2

\* Reading one digit that is followed by none, or nothing,
LEMMA BtoiOfOne ==
  ASSUME NEW t \in Seq(Nat), NEW a \in 0 .. 9, Len(t) >= 1, t[1] = 48 + a, Len(t) >= 2 => t[2] \notin 48 .. 57
  PROVE  Btoi(t) = [number |-> a, length |-> 1]
<1> DEFINE digits == {n \in 0 .. Len(t) : \A i \in 1 .. n : t[i] \in 48 .. 57}
           length == CHOOSE n \in digits : \A k \in digits : k <= n
           Counts(f, l) == f = [n \in 0 .. l |-> IF n = 0 THEN 0 ELSE 10 * f[n - 1] + t[n] - 48]
<1>1. Len(t) \in Nat
  OBVIOUS
<1>2. digits = {0, 1}
  <2>1. ASSUME NEW n \in digits PROVE n \in {0, 1}
    <3>1. n \in 0 .. Len(t) /\ \A i \in 1 .. n : t[i] \in 48 .. 57
      OBVIOUS
    <3>2. n >= 2 => 2 \in 1 .. n /\ Len(t) >= 2
      BY <1>1, <3>1
    <3> QED
      BY <3>1, <3>2
  <2>2. 0 \in digits /\ 1 \in digits
    <3>1. 1 .. 0 = {} /\ 1 .. 1 = {1} /\ 48 + a \in 48 .. 57
      OBVIOUS
    <3> QED
      BY <1>1, <3>1
  <2> QED
    BY <2>1, <2>2
<1>3. length = 1
  <2> HIDE DEF digits
  <2> QED
    BY <1>2
<1> HIDE DEF digits, length
<1>4. PICK f : f = [n \in 0 .. 1 |-> IF n = 0 THEN 0 ELSE a]
  OBVIOUS
<1>5. Counts(f, 1)
  <2>1. \A n \in 0 .. 1 : (IF n = 0 THEN 0 ELSE a) = IF n = 0 THEN 0 ELSE 10 * f[n - 1] + t[n] - 48
    BY <1>4
  <2> QED
    BY ONLY <1>4, <2>1
<1>6. PICK g : g = (CHOOSE h : Counts(h, 1)) /\ Counts(g, 1)
  BY <1>5
<1>7. g[0] = 0 /\ g[1] = 10 * g[0] + t[1] - 48
  BY <1>6
<1>8. g[1] = a
  BY <1>7
<1>9. Btoi(t) = [number |-> (CHOOSE h : Counts(h, length))[length], length |-> length]
  BY DEF Btoi, digits, length
<1> HIDE DEF Counts
<1> QED
  BY <1>3, <1>6, <1>8, <1>9

\* and two.
LEMMA BtoiOfTwo ==
  ASSUME NEW t \in Seq(Nat), NEW a \in 0 .. 9, NEW b \in 0 .. 9, Len(t) >= 2, t[1] = 48 + a, t[2] = 48 + b,
         Len(t) >= 3 => t[3] \notin 48 .. 57
  PROVE  Btoi(t) = [number |-> 10 * a + b, length |-> 2]
<1> DEFINE digits == {n \in 0 .. Len(t) : \A i \in 1 .. n : t[i] \in 48 .. 57}
           length == CHOOSE n \in digits : \A k \in digits : k <= n
           Counts(f, l) == f = [n \in 0 .. l |-> IF n = 0 THEN 0 ELSE 10 * f[n - 1] + t[n] - 48]
<1>1. Len(t) \in Nat
  OBVIOUS
<1>2. digits = {0, 1, 2}
  <2>1. ASSUME NEW n \in digits PROVE n \in {0, 1, 2}
    <3>1. n \in 0 .. Len(t) /\ \A i \in 1 .. n : t[i] \in 48 .. 57
      OBVIOUS
    <3>2. n >= 3 => 3 \in 1 .. n /\ Len(t) >= 3
      BY <1>1, <3>1
    <3> QED
      BY <3>1, <3>2
  <2>2. 0 \in digits /\ 1 \in digits /\ 2 \in digits
    <3>1. 1 .. 0 = {} /\ 1 .. 1 = {1} /\ 1 .. 2 = {1, 2} /\ 48 + a \in 48 .. 57 /\ 48 + b \in 48 .. 57
      OBVIOUS
    <3>2. t[1] \in 48 .. 57 /\ t[2] \in 48 .. 57 /\ 0 \in 0 .. Len(t) /\ 1 \in 0 .. Len(t) /\ 2 \in 0 .. Len(t)
      BY <1>1, <3>1
    <3>3. \A n \in {0, 1, 2} : \A i \in 1 .. n : t[i] \in 48 .. 57
      BY ONLY <3>1, <3>2
    <3> QED
      BY <3>2, <3>3
  <2> QED
    BY <2>1, <2>2
<1>3. length = 2
  <2> HIDE DEF digits
  <2> QED
    BY <1>2
<1> HIDE DEF digits, length
<1>4. PICK f : f = [n \in 0 .. 2 |-> IF n = 0 THEN 0 ELSE IF n = 1 THEN a ELSE 10 * a + b]
  OBVIOUS
<1>5. Counts(f, 2)
  <2>1. \A n \in 0 .. 2 : (IF n = 0 THEN 0 ELSE IF n = 1 THEN a ELSE 10 * a + b)
                            = IF n = 0 THEN 0 ELSE 10 * f[n - 1] + t[n] - 48
    BY <1>4, SMTT(30)
  <2> QED
    BY ONLY <1>4, <2>1
<1>6. PICK g : g = (CHOOSE h : Counts(h, 2)) /\ Counts(g, 2)
  BY <1>5
<1>7. g[0] = 0 /\ g[1] = 10 * g[0] + t[1] - 48 /\ g[2] = 10 * g[1] + t[2] - 48
  BY <1>6
<1>8. g[2] = 10 * a + b
  BY <1>7
<1>9. Btoi(t) = [number |-> (CHOOSE h : Counts(h, length))[length], length |-> length]
  BY DEF Btoi, digits, length
<1> HIDE DEF Counts
<1> QED
  BY <1>3, <1>6, <1>8, <1>9

\* The parts of a message whose length is in front of it in digits.
LEMMA TextFormat ==
  ASSUME mode \in Modes, mode.kind = "text", NEW p \in Seq(Nat), NEW digits \in Seq(Nat), digits = Digits(Len(p))
  PROVE  /\ Format(p) \in Seq(Nat)
         /\ Len(Format(p)) = mode.param + Len(digits) + Len(mode.delimiter) + Len(p)
         /\ \A i \in 1 .. Len(digits) : Format(p)[mode.param + i] = digits[i]
         /\ \A i \in 1 .. Len(mode.delimiter) : Format(p)[mode.param + Len(digits) + i] = mode.delimiter[i]
         /\ \A i \in 1 .. Len(p) : Format(p)[mode.param + Len(digits) + Len(mode.delimiter) + i] = p[i]
<1>1. PICK d \in Seq(Nat), n \in Nat : d = mode.delimiter /\ n = mode.param
  BY ModeTypes
<1>2. PICK h \in Seq(Nat) : h = Header(mode) /\ Len(h) = n
  <2>1. [i \in 1 .. n |-> 1] \in Seq(Nat) /\ Len([i \in 1 .. n |-> 1]) = n
    OBVIOUS
  <2> QED
    BY <1>1, <2>1 DEF Header
<1>3. PICK s \in Seq(Nat) : s = h \o digits
  BY JoinedAt
<1>4. PICK u \in Seq(Nat) : u = s \o d
  BY JoinedAt
<1>5. PICK F \in Seq(Nat) : F = u \o p
  BY JoinedAt
<1>6. Format(p) = F
  BY <1>1, <1>2, <1>3, <1>4, <1>5 DEF Format
<1>7. /\ Len(s) = n + Len(digits) /\ Len(u) = Len(s) + Len(d) /\ Len(F) = Len(u) + Len(p)
      /\ Len(digits) \in Nat /\ Len(s) \in Nat /\ Len(d) \in Nat /\ Len(u) \in Nat /\ Len(p) \in Nat
  BY ONLY <1>2, <1>3, <1>4, <1>5, JoinedAt, digits \in Seq(Nat), p \in Seq(Nat)
<1>8. ASSUME NEW i \in 1 .. Len(digits) PROVE F[n + i] = digits[i]
  <2>1. s[n + i] = digits[i]
    BY ONLY <1>2, <1>3, JoinedAt, digits \in Seq(Nat), i \in 1 .. Len(digits), SMTT(30)
  <2>2. n + i \in 1 .. Len(s) /\ n + i \in 1 .. Len(u)
    BY ONLY <1>7, i \in 1 .. Len(digits), n \in Nat
  <2>3. u[n + i] = s[n + i]
    BY ONLY <1>4, <2>2, JoinedAt, s \in Seq(Nat), d \in Seq(Nat)
  <2>4. F[n + i] = u[n + i]
    BY ONLY <1>5, <2>2, JoinedAt, u \in Seq(Nat), p \in Seq(Nat)
  <2> QED
    BY <2>1, <2>3, <2>4
<1>9. ASSUME NEW i \in 1 .. Len(d) PROVE F[n + Len(digits) + i] = d[i]
  <2>1. u[Len(s) + i] = d[i]
    BY ONLY <1>4, JoinedAt, s \in Seq(Nat), d \in Seq(Nat), i \in 1 .. Len(d)
  <2>2. Len(s) + i \in 1 .. Len(u)
    BY ONLY <1>7, i \in 1 .. Len(d)
  <2>3. F[Len(s) + i] = u[Len(s) + i]
    BY ONLY <1>5, <2>2, JoinedAt, u \in Seq(Nat), p \in Seq(Nat)
  <2> QED
    BY <1>7, <2>1, <2>3
<1>10. ASSUME NEW i \in 1 .. Len(p) PROVE F[n + Len(digits) + Len(d) + i] = p[i]
  <2>1. F[Len(u) + i] = p[i]
    BY ONLY <1>5, JoinedAt, u \in Seq(Nat), p \in Seq(Nat), i \in 1 .. Len(p)
  <2> QED
    BY <1>7, <2>1
<1>11. Len(F) = n + Len(digits) + Len(d) + Len(p)
  BY <1>7
<1> QED
  BY <1>1, <1>6, <1>8, <1>9, <1>10, <1>11

\* What is made of a number x, of length l, if the message starts at start.
AfterDigits(text, behind, x, l, start) ==
  IF start > Len(text) + Len(behind) THEN OutOfRange
  ELSE IF SubSeq(text \o behind, mode.param + l + 1, start) # mode.delimiter THEN NoFrame
  ELSE Prefixed(mode, text, x, start)

\* What the reader makes of a number and its length.
LEMMA TextAfterDigits ==
  ASSUME mode \in Modes, mode.delimiter # <<>>, NEW text \in Seq(Nat), NEW behind \in Seq(Nat),
         NEW x \in Nat, NEW l \in Nat \ {0}, Len(text) > mode.param,
         Btoi(SubSeq(text, mode.param + 1, Len(text))) = [number |-> x, length |-> l],
         NEW start \in Nat, start = mode.param + l + Len(mode.delimiter)
  PROVE  checkCompleteMLEText(mode, text, behind) = AfterDigits(text, behind, x, l, start)
<1>1. mode.param \in Nat /\ Len(text) \in Nat
  BY ModeTypes
<1>2. Len(text \o behind) = Len(text) + Len(behind)
  BY JoinedAt
<1>3. ~(Len(text) <= mode.param)
  BY <1>1
<1>4. PICK parsed : parsed = Btoi(SubSeq(text, mode.param + 1, Len(text))) /\ parsed.number = x /\ parsed.length = l
  OBVIOUS
<1>5. checkCompleteMLEText(mode, text, behind) =
        IF Len(text) <= mode.param \/ parsed.length = 0 THEN NoFrame
        ELSE IF mode.delimiter = <<>> THEN Prefixed(mode, text, parsed.number, mode.param + parsed.length + Len(mode.delimiter))
        ELSE IF mode.param + parsed.length + Len(mode.delimiter) > Len(text \o behind) THEN OutOfRange
        ELSE IF SubSeq(text \o behind, mode.param + parsed.length + 1, mode.param + parsed.length + Len(mode.delimiter)) # mode.delimiter
          THEN NoFrame
        ELSE Prefixed(mode, text, parsed.number, mode.param + parsed.length + Len(mode.delimiter))
  BY <1>4 DEF checkCompleteMLEText
<1> QED
  BY <1>2, <1>3, <1>4, <1>5 DEF AfterDigits

\* What is behind a position.
LEMMA TailAt ==
  ASSUME NEW text \in Seq(Nat), NEW n \in Nat, n <= Len(text)
  PROVE  /\ SubSeq(text, n + 1, Len(text)) \in Seq(Nat)
         /\ Len(SubSeq(text, n + 1, Len(text))) = Len(text) - n
         /\ \A i \in 1 .. Len(text) - n : SubSeq(text, n + 1, Len(text))[i] = text[n + i]
<1>1. PICK x \in Int, y \in Int : x = n + 1 /\ y = Len(text)
  OBVIOUS
<1>2. \A i \in x .. y : text[i] \in Nat
  BY <1>1
<1>3. /\ SubSeq(text, x, y) \in Seq(Nat) /\ Len(SubSeq(text, x, y)) = (IF x <= y THEN y - x + 1 ELSE 0)
      /\ \A i \in 1 .. y - x + 1 : SubSeq(text, x, y)[i] = text[x + i - 1]
  BY ONLY <1>2, x \in Int, y \in Int, SubSeqProperties, SMT
<1>4. ASSUME NEW i \in 1 .. Len(text) - n PROVE SubSeq(text, x, y)[i] = text[n + i]
  <2>1. i \in 1 .. y - x + 1 /\ x + i - 1 = n + i
    BY <1>1
  <2> QED
    BY ONLY <1>3, <2>1
<1>5. Len(SubSeq(text, x, y)) = Len(text) - n
  BY ONLY <1>1, <1>3, n \in Nat, n <= Len(text)
<1> QED
  BY <1>1, <1>3, <1>4, <1>5

\* A message of a known length at a known place.
LEMMA PrefixedFrames ==
  ASSUME mode \in Modes, mode.kind \in {"text", "binary"}, NEW p \in Seq(Nat), NEW text \in Seq(Nat), NEW behind,
         NEW start \in Nat, Format(p) \in Seq(Nat), Len(Format(p)) = start + Len(p),
         \A i \in 1 .. Len(p) : Format(p)[start + i] = p[i]
  PROVE  /\ Frames(Prefixed(mode, text, Len(p), start), text, behind, p)
         /\ Len(Format(p)) > Len(text) => Prefixed(mode, text, Len(p), start) = NoFrame
<1>1. Len(p) \in Nat /\ Len(text) \in Nat /\ Len(p) + start = Len(Format(p)) /\ Len(Format(p)) \in Nat
  OBVIOUS
<1>2. Prefixed(mode, text, Len(p), start) =
        IF Len(Format(p)) > Len(text) THEN NoFrame
        ELSE IF mode.everything THEN [len |-> Len(Format(p)), start |-> 0, pad |-> 0]
        ELSE [len |-> Len(p), start |-> start, pad |-> 0]
  BY <1>1 DEF Prefixed
<1>3. CASE Len(Format(p)) > Len(text)
  BY <1>1, <1>2, <1>3 DEF Frames
<1>4. CASE ~(Len(Format(p)) > Len(text)) /\ mode.everything
  BY <1>1, <1>2, <1>4 DEF Frames, Frame, ShownAs
<1>5. CASE ~(Len(Format(p)) > Len(text)) /\ ~mode.everything
  <2>1. PICK fr : fr = [len |-> Len(p), start |-> start, pad |-> 0]
    OBVIOUS
  <2>2. fr \in Frame /\ fr.len = Len(p) /\ fr.start = start /\ fr.start + fr.len + fr.pad = Len(Format(p))
    BY ONLY <1>1, <2>1, start \in Nat DEF Frame
  <2>3. ShownAs(p) = p /\ Prefixed(mode, text, Len(p), start) = fr /\ Len(Format(p)) <= Len(text)
    BY <1>1, <1>2, <1>5, <2>1 DEF ShownAs
  <2> QED
    BY <1>5, <2>2, <2>3 DEF Frames
<1> QED
  BY <1>3, <1>4, <1>5

\* The digits that are in front of something else are the length.
LEMMA DigitsRead ==
  ASSUME NEW x \in 0 .. 99, NEW t \in Seq(Nat), NEW D \in Nat, D = Len(Digits(x)), Len(t) >= D,
         \A i \in 1 .. D : t[i] = Digits(x)[i], Len(t) >= D + 1 => t[D + 1] \notin 48 .. 57
  PROVE  /\ Btoi(t) = [number |-> x, length |-> D]
         /\ D \in {1, 2} /\ Digits(x) \in Seq(Nat)
<1>1. CASE x \in 0 .. 9 /\ Digits(x) = <<48 + x>>
  <2>1. D = 1 /\ Digits(x)[1] = 48 + x /\ Digits(x) \in Seq(Nat)
    BY <1>1
  <2>2. t[1] = 48 + x /\ Len(t) >= 1 /\ (Len(t) >= 2 => t[2] \notin 48 .. 57)
    <3>1. 1 \in 1 .. 1
      OBVIOUS
    <3> QED
      BY <2>1, <3>1
  <2>3. Btoi(t) = [number |-> x, length |-> 1]
    BY ONLY <1>1, <2>2, BtoiOfOne, t \in Seq(Nat)
  <2> QED
    BY <2>1, <2>3
<1>2. ASSUME NEW a \in 0 .. 9, NEW b \in 0 .. 9, x = 10 * a + b, Digits(x) = <<48 + a, 48 + b>>
      PROVE  Btoi(t) = [number |-> x, length |-> D] /\ D \in {1, 2} /\ Digits(x) \in Seq(Nat)
  <2>1. D = 2 /\ Digits(x)[1] = 48 + a /\ Digits(x)[2] = 48 + b /\ Digits(x) \in Seq(Nat)
    BY <1>2, SMTT(30)
  <2>2. t[1] = 48 + a /\ t[2] = 48 + b /\ Len(t) >= 2 /\ (Len(t) >= 3 => t[3] \notin 48 .. 57)
    <3>1. 1 \in 1 .. 2 /\ 2 \in 1 .. 2
      OBVIOUS
    <3> QED
      BY <2>1, <3>1
  <2>3. Btoi(t) = [number |-> 10 * a + b, length |-> 2]
    BY ONLY <2>2, BtoiOfTwo, t \in Seq(Nat), a \in 0 .. 9, b \in 0 .. 9
  <2> QED
    BY <1>2, <2>1, <2>3
<1> QED
  BY <1>1, <1>2, DigitsOf, ZenonT(60)

\* There are one or two of them.
LEMMA DigitsTypes ==
  ASSUME NEW x \in 0 .. 99
  PROVE  Digits(x) \in Seq(Nat) /\ Len(Digits(x)) \in {1, 2}
<1>1. CASE Digits(x) = <<48 + x>>
  BY <1>1
<1>2. ASSUME NEW a \in 0 .. 9, NEW b \in 0 .. 9, Digits(x) = <<48 + a, 48 + b>>
      PROVE  Digits(x) \in Seq(Nat) /\ Len(Digits(x)) \in {1, 2}
  BY <1>2
<1> QED
  BY <1>1, <1>2, DigitsOf

\* What the assumptions say of a length in digits.
LEMMA TextTypes ==
  ASSUME mode \in Modes, mode.kind = "text", NEW p \in Payloads
  PROVE  /\ p \in Seq(Nat) /\ Len(p) \in 0 .. 99
         /\ mode.param \in Nat /\ mode.delimiter \in Seq(Nat) /\ mode.delimiter # <<>>
         /\ Len(mode.delimiter) \in Nat \ {0} /\ mode.delimiter[1] \notin 48 .. 57
<1>1. p \in Seq(Nat)
  BY WireAssumption DEF Payloads
<1>2. mode.param \in Nat /\ mode.delimiter \in Seq(Nat)
  BY ModeTypes
<1>3. Len(p) < 100 /\ mode.delimiter # <<>> /\ mode.delimiter[1] \notin 48 .. 57
  BY SeparationAssumption DEF Payloads
<1>4. Len(p) \in Nat /\ Len(mode.delimiter) \in Nat
  BY ONLY <1>1, <1>2, LenProperties
<1>5. Len(mode.delimiter) # 0
  BY ONLY <1>2, <1>3, EmptySeq
<1>6. Len(p) \in 0 .. 99 /\ Len(mode.delimiter) \in Nat \ {0}
  <2>1. \A n \in Nat : n < 100 => n \in 0 .. 99
    OBVIOUS
  <2> QED
    BY ONLY <1>3, <1>4, <1>5, <2>1, Zenon
<1> QED
  BY ONLY <1>1, <1>2, <1>3, <1>6, Zenon

\* The bytes of a message with its length in digits, as numbers.
TextParts(p, F, n, D, E, x) ==
  /\ F \in Seq(Nat) /\ n \in Nat /\ D \in {1, 2} /\ E \in Nat \ {0} /\ x \in 0 .. 99
  /\ F = Format(p) /\ n = mode.param /\ D = Len(Digits(x)) /\ E = Len(mode.delimiter) /\ x = Len(p)
  /\ Len(F) = n + D + E + x
  /\ \A i \in 1 .. D : F[n + i] = Digits(x)[i]
  /\ \A i \in 1 .. E : F[n + D + i] = mode.delimiter[i]
  /\ \A i \in 1 .. x : F[n + D + E + i] = p[i]

\* They are there.
LEMMA TextHasParts ==
  ASSUME mode \in Modes, mode.kind = "text", NEW p \in Payloads
  PROVE  \E F, n, D, E, x : TextParts(p, F, n, D, E, x)
<1>1. PICK digits : digits = Digits(Len(p))
  OBVIOUS
<1>2. /\ p \in Seq(Nat) /\ Len(p) \in 0 .. 99 /\ mode.param \in Nat /\ Len(mode.delimiter) \in Nat \ {0}
      /\ digits \in Seq(Nat) /\ Len(digits) \in {1, 2}
  BY <1>1, TextTypes, DigitsTypes
<1>3. /\ Format(p) \in Seq(Nat)
      /\ Len(Format(p)) = mode.param + Len(digits) + Len(mode.delimiter) + Len(p)
      /\ \A i \in 1 .. Len(digits) : Format(p)[mode.param + i] = digits[i]
      /\ \A i \in 1 .. Len(mode.delimiter) : Format(p)[mode.param + Len(digits) + i] = mode.delimiter[i]
      /\ \A i \in 1 .. Len(p) : Format(p)[mode.param + Len(digits) + Len(mode.delimiter) + i] = p[i]
  BY <1>1, <1>2, TextFormat
<1>4. TextParts(p, Format(p), mode.param, Len(digits), Len(mode.delimiter), Len(p))
  BY ONLY <1>1, <1>2, <1>3, Zenon DEF TextParts
<1> QED
  BY ONLY <1>4, Zenon

\* What is read of the length when it has arrived, and when half of it has.
LEMMA LengthRead ==
  ASSUME mode \in Modes, mode.kind = "text", NEW p \in Payloads, NEW text \in Seq(Nat),
         Begins(text, Format(p)), Len(text) > mode.param
  PROVE  LET t == SubSeq(text, mode.param + 1, Len(text))
             D == Len(Digits(Len(p)))
         IN IF Len(text) >= mode.param + D
              THEN Btoi(t) = [number |-> Len(p), length |-> D]
              ELSE \E a \in Nat : Btoi(t) = [number |-> a, length |-> 1] /\ Len(text) = mode.param + 1 /\ D = 2
<1>0. PICK F, n, D, E, x : TextParts(p, F, n, D, E, x)
  BY TextHasParts, Zenon
<1>1. /\ F \in Seq(Nat) /\ n \in Nat /\ D \in {1, 2} /\ E \in Nat \ {0} /\ x \in 0 .. 99
      /\ F = Format(p) /\ n = mode.param /\ D = Len(Digits(x)) /\ E = Len(mode.delimiter) /\ x = Len(p)
      /\ Len(F) = n + D + E + x
      /\ \A i \in 1 .. D : F[n + i] = Digits(x)[i]
      /\ \A i \in 1 .. E : F[n + D + i] = mode.delimiter[i]
  BY <1>0 DEF TextParts
<1>2. PICK X \in Nat : X = Len(text) /\ X > n
  BY <1>1
<1> DEFINE Numbers == /\ n \in Nat /\ D \in {1, 2} /\ E \in Nat \ {0} /\ x \in 0 .. 99 /\ X \in Nat /\ X > n
                      /\ Len(F) = n + D + E + x
<1>9. Numbers
  BY <1>1, <1>2
<1>3. PICK t \in Seq(Nat) : /\ t = SubSeq(text, mode.param + 1, Len(text)) /\ Len(t) = X - n
                            /\ \A i \in 1 .. X - n : t[i] = text[n + i]
  <2>1. n \in Nat /\ n <= Len(text)
    BY <1>1, <1>2
  <2>2. /\ SubSeq(text, n + 1, Len(text)) \in Seq(Nat)
        /\ Len(SubSeq(text, n + 1, Len(text))) = Len(text) - n
        /\ \A i \in 1 .. Len(text) - n : SubSeq(text, n + 1, Len(text))[i] = text[n + i]
    BY ONLY <2>1, TailAt, text \in Seq(Nat)
  <2> QED
    BY <1>1, <1>2, <2>2
<1>4. ASSUME NEW i \in 1 .. D + 1, i <= X - n PROVE t[i] = F[n + i]
  <2>1. i \in 1 .. X - n /\ n + i \in 1 .. Len(F) /\ n + i <= X
    BY ONLY <1>9, <1>4, i \in 1 .. D + 1
  <2>2. text[n + i] = F[n + i]
    BY <1>1, <1>2, <2>1 DEF Begins
  <2> QED
    BY <1>3, <2>1, <2>2
<1>5. \A i \in 1 .. D : i <= X - n => t[i] = Digits(x)[i]
  <2>1. \A i \in 1 .. D : i \in 1 .. D + 1
    BY <1>9
  <2> QED
    BY <1>1, <1>4, <2>1
<1>6. CASE X >= n + D
  <2>1. Len(t) >= D /\ \A i \in 1 .. D : t[i] = Digits(x)[i]
    <3>1. Len(t) >= D /\ \A i \in 1 .. D : i <= X - n
      BY ONLY <1>9, <1>3, <1>6, SMTT(30)
    <3> QED
      BY <1>5, <3>1
  <2>2. Len(t) >= D + 1 => t[D + 1] \notin 48 .. 57
    <3> SUFFICES ASSUME Len(t) >= D + 1 PROVE t[D + 1] \notin 48 .. 57
      OBVIOUS
    <3>1. D + 1 \in 1 .. D + 1 /\ D + 1 <= X - n /\ n + (D + 1) = n + D + 1 /\ 1 \in 1 .. E
      BY ONLY <1>9, <1>3, Len(t) >= D + 1, SMTT(30)
    <3>2. t[D + 1] = F[n + (D + 1)] /\ F[n + D + 1] = mode.delimiter[1]
      BY <1>1, <1>4, <3>1
    <3> QED
      BY <3>1, <3>2, TextTypes
  <2>3. D \in Nat /\ D = Len(Digits(x)) /\ x \in 0 .. 99
    <3>1. D \in Nat
      BY ONLY <1>9
    <3> QED
      BY <1>1, <3>1
  <2>4. Btoi(t) = [number |-> x, length |-> D]
    BY ONLY <2>1, <2>2, <2>3, t \in Seq(Nat), DigitsRead
  <2> QED
    BY <1>1, <1>2, <1>3, <1>6, <2>4
<1>7. CASE X < n + D
  <2>0. D = 2 /\ X = n + 1
    BY ONLY <1>9, <1>7
  <2>1. D = 2 /\ X = n + 1 /\ Len(t) = 1
    BY <2>0, <1>9, <1>3
  <2>2. PICK a \in 0 .. 9 : Digits(x)[1] = 48 + a
    <3>1. CASE Digits(x) = <<48 + x>>
      <4>1. D = 1
        BY <1>1, <3>1
      <4> QED
        BY <2>1, <4>1
    <3>2. ASSUME NEW a \in 0 .. 9, NEW b \in 0 .. 9, Digits(x) = <<48 + a, 48 + b>>
          PROVE  \E e \in 0 .. 9 : Digits(x)[1] = 48 + e
      BY <3>2
    <3> QED
      BY <1>1, <3>1, <3>2, DigitsOf
  <2>3. t[1] = 48 + a
    <3>1. 1 \in 1 .. D /\ 1 <= X - n
      BY ONLY <2>1, <1>9
    <3> QED
      BY <1>5, <2>2, <3>1
  <2>4. Btoi(t) = [number |-> a, length |-> 1]
    <3>1. Len(t) >= 1 /\ ~(Len(t) >= 2)
      BY ONLY <2>1
    <3> QED
      BY ONLY <2>3, <3>1, a \in 0 .. 9, t \in Seq(Nat), BtoiOfOne
  <2>5. a \in Nat /\ ~(X >= n + D)
    BY ONLY <1>9, <2>1, a \in 0 .. 9
  <2> QED
    BY <1>1, <1>2, <1>3, <2>1, <2>4, <2>5
<1>8. X >= n + D \/ X < n + D
  BY ONLY <1>9
<1> QED
  BY <1>6, <1>7, <1>8
\* What is behind a text that has arrived so far, with the text before it.
LEMMA BehindAt ==
  ASSUME NEW text \in Seq(Nat), NEW behind \in Seq(Nat), NEW d \in Seq(Nat), NEW a \in Nat, a + Len(d) <= Len(text),
         \A i \in 1 .. Len(d) : text[a + i] = d[i]
  PROVE  SubSeq(text \o behind, a + 1, a + Len(d)) = d
<1>1. PICK b \in Seq(Nat) : b = text \o behind
  BY JoinedAt
<1>2. Len(b) = Len(text) + Len(behind) /\ Len(text) \in Nat /\ Len(behind) \in Nat /\ \A i \in 1 .. Len(text) : b[i] = text[i]
  BY <1>1, JoinedAt
<1>3. Len(d) \in Nat
  OBVIOUS
<1>4. a + Len(d) <= Len(b)
  BY <1>2, <1>3
<1>5. \A i \in 1 .. Len(d) : b[a + i] = d[i]
  <2> TAKE i \in 1 .. Len(d)
  <2>1. a + i \in 1 .. Len(text)
    BY <1>2, <1>3
  <2> QED
    BY <1>2, <2>1
<1> QED
  BY ONLY <1>1, <1>4, <1>5, PartIs, b \in Seq(Nat), d \in Seq(Nat), a \in Nat

\* The length is found, even if only one of its digits has arrived, and nothing is found too early.
LEMMA TextFrames ==
  ASSUME mode \in Modes, mode.kind = "text", NEW p \in Payloads, NEW text \in Seq(Nat), NEW behind \in Seq(Nat),
         Begins(text, Format(p))
  PROVE  Frames(checkCompleteMLEText(mode, text, behind), text, behind, p)
<1>0. PICK F, n, D, E, x : TextParts(p, F, n, D, E, x)
  BY TextHasParts, Zenon
<1>1. /\ F \in Seq(Nat) /\ n \in Nat /\ D \in {1, 2} /\ E \in Nat \ {0} /\ x \in 0 .. 99
      /\ F = Format(p) /\ n = mode.param /\ D = Len(Digits(x)) /\ E = Len(mode.delimiter) /\ x = Len(p)
      /\ Len(F) = n + D + E + x
      /\ \A i \in 1 .. E : F[n + D + i] = mode.delimiter[i]
      /\ \A i \in 1 .. x : F[n + D + E + i] = p[i]
  BY <1>0 DEF TextParts
<1>2. PICK X \in Nat, B \in Nat : X = Len(text) /\ B = Len(behind)
  BY LenProperties
<1> DEFINE Numbers == /\ n \in Nat /\ D \in {1, 2} /\ E \in Nat \ {0} /\ x \in 0 .. 99 /\ X \in Nat /\ B \in Nat
                      /\ Len(F) = n + D + E + x
           fr == checkCompleteMLEText(mode, text, behind)
           t == SubSeq(text, n + 1, X)
           part(l) == SubSeq(text \o behind, n + l + 1, n + l + E)
<1>3. Numbers
  BY <1>1, <1>2
<1>4. p \in Seq(Nat) /\ mode.delimiter \in Seq(Nat) /\ mode.delimiter # <<>>
  BY TextTypes
<1>5. ASSUME NEW a \in Nat, NEW l \in Nat \ {0}, X > n, Btoi(t) = [number |-> a, length |-> l]
      PROVE  fr = IF n + l + E > X + B THEN OutOfRange
                  ELSE IF part(l) # mode.delimiter THEN NoFrame
                  ELSE Prefixed(mode, text, a, n + l + E)
  <2>1. PICK start \in Nat : start = n + l + E
    BY <1>3
  <2>2. /\ Len(text) > mode.param /\ start = mode.param + l + Len(mode.delimiter)
        /\ Btoi(SubSeq(text, mode.param + 1, Len(text))) = [number |-> a, length |-> l]
    BY <1>1, <1>2, <1>5, <2>1
  <2>3. checkCompleteMLEText(mode, text, behind) = AfterDigits(text, behind, a, l, start)
    <3>1. mode \in Modes /\ mode.delimiter # <<>> /\ text \in Seq(Nat) /\ behind \in Seq(Nat)
          /\ a \in Nat /\ l \in Nat \ {0} /\ start \in Nat
      BY <1>4
    <3> QED
      BY ONLY <2>2, <3>1, TextAfterDigits, ZenonT(60)
  <2> QED
    BY <1>1, <1>2, <2>1, <2>3 DEF AfterDigits
<1> HIDE DEF fr, t, part
<1>6. CASE X <= n
  <2>1. fr = NoFrame
    BY <1>1, <1>2, <1>6 DEF fr, checkCompleteMLEText
  <2>2. ~(Len(F) <= X)
    BY ONLY <1>3, <1>6
  <2> QED
    BY <1>1, <1>2, <2>1, <2>2 DEF Frames, fr
<1>7. CASE X > n /\ X < n + D
  <2>1. PICK a \in Nat : Btoi(t) = [number |-> a, length |-> 1] /\ X = n + 1 /\ D = 2
    <3>1. ~(Len(text) >= mode.param + Len(Digits(Len(p)))) /\ Len(text) > mode.param
      BY <1>1, <1>2, <1>3, <1>7
    <3> QED
      BY <1>1, <1>2, <3>1, LengthRead DEF t
  <2>2. fr = IF n + 1 + E > X + B THEN OutOfRange
             ELSE IF part(1) # mode.delimiter THEN NoFrame
             ELSE Prefixed(mode, text, a, n + 1 + E)
    BY <1>5, <1>7, <2>1
  <2>3. ~(Len(F) <= X) /\ a + (n + 1 + E) > X /\ (n + 1 + E > X + B => X + B < n + 2 + E)
    BY ONLY <1>3, <2>1, a \in Nat
  <2>4. Prefixed(mode, text, a, n + 1 + E) = NoFrame
    BY <1>2, <2>3 DEF Prefixed
  <2>5. fr = NoFrame \/ (fr = OutOfRange /\ AtLength(text, behind))
    BY <1>1, <1>2, <2>2, <2>3, <2>4 DEF AtLength
  <2> QED
    BY <1>1, <1>2, <2>3, <2>5 DEF Frames, fr
<1>8. CASE X >= n + D
  <2>1. Btoi(t) = [number |-> x, length |-> D] /\ X > n
    <3>0. X >= n + D /\ X > n
      BY ONLY <1>3, <1>8
    <3>1. Len(text) >= mode.param + Len(Digits(Len(p))) /\ Len(text) > mode.param
      BY <1>1, <1>2, <3>0
    <3> QED
      BY <1>1, <1>2, <3>1, LengthRead DEF t
  <2>2. PICK start \in Nat : start = n + D + E /\ Len(F) = start + x
    BY ONLY <1>3
  <2>3. fr = IF start > X + B THEN OutOfRange
             ELSE IF part(D) # mode.delimiter THEN NoFrame
             ELSE Prefixed(mode, text, x, start)
    <3>1. x \in Nat /\ D \in Nat \ {0}
      BY ONLY <1>3
    <3> QED
      BY <1>5, <2>1, <2>2, <3>1
  <2>4. CASE start > X + B
    <3>1. ~(Len(F) <= X) /\ X + B < n + 2 + E
      BY ONLY <1>3, <2>2, <2>4, start \in Nat
    <3>2. fr = OutOfRange /\ AtLength(text, behind)
      BY <1>1, <1>2, <2>3, <2>4, <3>1 DEF AtLength
    <3> QED
      BY <1>1, <1>2, <3>1, <3>2 DEF Frames, fr
  <2>5. CASE ~(start > X + B) /\ part(D) # mode.delimiter
    <3>1. ~(Len(F) <= X)
      <4> SUFFICES ASSUME Len(F) <= X PROVE FALSE
        OBVIOUS
      <4>1. PICK a \in Nat : a = n + D /\ a + E <= X
        BY ONLY <1>3, Len(F) <= X
      <4>2. \A i \in 1 .. E : text[a + i] = mode.delimiter[i]
        <5> TAKE i \in 1 .. E
        <5>1. a + i \in 1 .. Len(F) /\ a + i <= X
          BY ONLY <1>3, <4>1, a \in Nat, Len(F) <= X, i \in 1 .. E
        <5> QED
          BY <1>1, <1>2, <4>1, <5>1 DEF Begins
      <4>3. SubSeq(text \o behind, a + 1, a + E) = mode.delimiter
        BY <1>1, <1>2, <1>4, <4>1, <4>2, BehindAt, ZenonT(60)
      <4> QED
        BY <2>5, <4>1, <4>3 DEF part
    <3> QED
      BY <1>1, <1>2, <2>3, <2>5, <3>1 DEF Frames, fr
  <2>6. CASE ~(start > X + B) /\ part(D) = mode.delimiter
    <3>1. fr = Prefixed(mode, text, Len(p), start)
      BY <1>1, <2>3, <2>6
    <3> QED
      BY <1>1, <1>4, <2>2, <3>1, PrefixedFrames, ZenonT(60) DEF fr
  <2> QED
    BY <2>4, <2>5, <2>6
<1>9. X <= n \/ (X > n /\ X < n + D) \/ X >= n + D
  BY ONLY <1>3
<1> QED
  BY <1>6, <1>7, <1>8, <1>9 DEF fr

\* Reading a number of which all bytes but the last are zero.
LEMMA BinaryReads ==
  ASSUME NEW t \in Seq(Nat), NEW width \in Nat \ {0}, NEW big \in BOOLEAN, NEW v \in Nat, Len(t) >= width,
         \A i \in 1 .. width : t[i] = IF i = (IF big THEN width ELSE 1) THEN v ELSE 0
  PROVE  BinaryRead(t, width, big) = v
<1> DEFINE at(n) == IF big THEN n ELSE width + 1 - n
           Counts(f) == f = [n \in 0 .. width |-> IF n = 0 THEN 0 ELSE 256 * f[n - 1] + t[at(n)]]
<1>1. \A n \in 1 .. width : t[at(n)] = IF n = width THEN v ELSE 0
  <2> TAKE n \in 1 .. width
  <2>1. at(n) \in 1 .. width /\ (at(n) = (IF big THEN width ELSE 1) <=> n = width)
    OBVIOUS
  <2> HIDE DEF at
  <2> QED
    BY <2>1
<1>2. PICK f : f = [n \in 0 .. width |-> IF n = width THEN v ELSE 0]
  OBVIOUS
<1>3. Counts(f)
  <2>1. ASSUME NEW n \in 0 .. width
        PROVE  (IF n = width THEN v ELSE 0) = IF n = 0 THEN 0 ELSE 256 * f[n - 1] + t[at(n)]
    <3>1. CASE n = 0
      BY <3>1
    <3>2. CASE n # 0
      <4>1. n \in 1 .. width /\ n - 1 \in 0 .. width /\ n - 1 # width
        BY <3>2
      <4>2. f[n - 1] = 0
        BY <1>2, <4>1
      <4>3. t[at(n)] = IF n = width THEN v ELSE 0
        BY <1>1, <4>1
      <4> HIDE DEF at
      <4> QED
        BY ONLY <3>2, <4>2, <4>3, v \in Nat
    <3> QED
      BY <3>1, <3>2
  <2> HIDE DEF at
  <2> QED
    BY ONLY <1>2, <2>1
<1> HIDE DEF at
<1>4. PICK g : g = (CHOOSE h : Counts(h)) /\ Counts(g)
  <2> HIDE DEF Counts
  <2> QED
    BY <1>3
<1>5. g[0] = 0 /\ \A n \in 1 .. width : g[n] = 256 * g[n - 1] + t[at(n)]
  <2>1. \A n \in 0 .. width : g[n] = IF n = 0 THEN 0 ELSE 256 * g[n - 1] + t[at(n)]
    BY ONLY <1>4, ZenonT(60)
  <2>2. 0 \in 0 .. width /\ \A n \in 1 .. width : n \in 0 .. width /\ n # 0
    OBVIOUS
  <2> QED
    BY <2>1, <2>2
<1>6. \A n \in 0 .. width - 1 : g[n] = 0
  <2> DEFINE Bad == {n \in 0 .. width - 1 : g[n] # 0}
  <2> SUFFICES ASSUME Bad # {} PROVE FALSE
    OBVIOUS
  <2>1. PICK n \in Bad : \A k \in Bad : n <= k
    <3>1. Bad \in SUBSET Nat
      OBVIOUS
    <3> HIDE DEF Bad
    <3> QED
      BY <3>1, Smallest
  <2>2. n \in 1 .. width /\ n # width /\ n - 1 \in 0 .. width - 1 /\ n - 1 < n /\ g[n] # 0
    BY <1>5, <2>1
  <2>3. g[n - 1] = 0
    BY <2>1, <2>2
  <2>4. g[n] = 256 * g[n - 1] + t[at(n)] /\ t[at(n)] = 0
    BY <1>1, <1>5, <2>2
  <2>5. g[n] = 0
    BY ONLY <2>3, <2>4
  <2> QED
    BY <2>2, <2>5
<1>7. g[width] = v
  <2>1. width \in 1 .. width /\ width - 1 \in 0 .. width - 1
    OBVIOUS
  <2>2. g[width] = 256 * g[width - 1] + t[at(width)] /\ g[width - 1] = 0 /\ t[at(width)] = v
    BY <1>1, <1>5, <1>6, <2>1
  <2> QED
    BY ONLY <2>2, v \in Nat
<1>8. BinaryRead(t, width, big) = (CHOOSE h : Counts(h))[width]
  BY DEF BinaryRead, at
<1> HIDE DEF Counts
<1> QED
  BY <1>4, <1>7, <1>8

\* The parts of a message whose length is in front of it in bytes.
LEMMA BinaryFormat ==
  ASSUME mode \in Modes, mode.kind = "binary", NEW p \in Seq(Nat)
  PROVE  /\ Format(p) \in Seq(Nat)
         /\ Len(Format(p)) = mode.param + mode.width + Len(p)
         /\ \A i \in 1 .. mode.width :
              Format(p)[mode.param + i] = IF i = (IF mode.bigEndian THEN mode.width ELSE 1) THEN Len(p) ELSE 0
         /\ \A i \in 1 .. Len(p) : Format(p)[mode.param + mode.width + i] = p[i]
<1>1. PICK n \in Nat, w \in Nat, big \in BOOLEAN, x \in Nat :
        n = mode.param /\ w = mode.width /\ big = mode.bigEndian /\ x = Len(p)
  BY ModeTypes
<1>2. PICK h \in Seq(Nat) : h = Header(mode) /\ Len(h) = n
  <2>1. [i \in 1 .. n |-> 1] \in Seq(Nat) /\ Len([i \in 1 .. n |-> 1]) = n
    OBVIOUS
  <2> QED
    BY <1>1, <2>1 DEF Header
<1>3. PICK b \in Seq(Nat) : /\ b = LengthBytes(mode, Len(p)) /\ Len(b) = w
                            /\ \A i \in 1 .. w : b[i] = IF i = (IF big THEN w ELSE 1) THEN x ELSE 0
  <2>1. PICK c : c = [i \in 1 .. w |-> IF i = (IF big THEN w ELSE 1) THEN x ELSE 0]
    OBVIOUS
  <2>2. c \in [1 .. w -> Nat]
    BY <2>1
  <2>3. c \in Seq(Nat) /\ Len(c) = w
    BY ONLY <2>2, FunctionIsSequence, w \in Nat
  <2>4. c = LengthBytes(mode, Len(p))
    BY <1>1, <2>1 DEF LengthBytes
  <2>5. \A i \in 1 .. w : c[i] = IF i = (IF big THEN w ELSE 1) THEN x ELSE 0
    BY <2>1
  <2> QED
    BY <2>3, <2>4, <2>5
<1>4. PICK s \in Seq(Nat) : s = h \o b
  BY JoinedAt
<1>5. PICK F \in Seq(Nat) : F = s \o p
  BY JoinedAt
<1>6. Format(p) = F
  BY <1>1, <1>2, <1>3, <1>4, <1>5 DEF Format
<1>7. Len(s) = n + w /\ Len(F) = Len(s) + x /\ Len(s) \in Nat
  BY ONLY <1>1, <1>2, <1>3, <1>4, <1>5, JoinedAt, p \in Seq(Nat), h \in Seq(Nat), b \in Seq(Nat), s \in Seq(Nat)
<1>8. ASSUME NEW i \in 1 .. w PROVE F[n + i] = b[i]
  <2>1. s[n + i] = b[i]
    <3>1. \A k \in 1 .. Len(b) : (h \o b)[Len(h) + k] = b[k]
      BY ONLY JoinedAt, h \in Seq(Nat), b \in Seq(Nat)
    <3> QED
      BY <1>2, <1>3, <1>4, <3>1
  <2>2. n + i \in 1 .. Len(s)
    BY ONLY <1>7, i \in 1 .. w, n \in Nat, w \in Nat
  <2>3. F[n + i] = s[n + i]
    BY ONLY <1>5, <2>2, JoinedAt, s \in Seq(Nat), p \in Seq(Nat)
  <2> QED
    BY <2>1, <2>3
<1>9. ASSUME NEW i \in 1 .. x PROVE F[n + w + i] = p[i]
  <2>1. F[Len(s) + i] = p[i]
    BY ONLY <1>1, <1>5, JoinedAt, s \in Seq(Nat), p \in Seq(Nat), i \in 1 .. x
  <2> QED
    BY <1>7, <2>1
<1> QED
  BY <1>1, <1>3, <1>6, <1>7, <1>8, <1>9

\* The length is read when all of its bytes have arrived.
LEMMA BinaryFrames ==
  ASSUME mode \in Modes, mode.kind = "binary", NEW p \in Payloads, NEW text \in Seq(Nat), NEW behind,
         Begins(text, Format(p))
  PROVE  Frames(checkCompleteMLE(mode, text), text, behind, p)
<1>1. PICK n \in Nat, w \in Nat \ {0}, big \in BOOLEAN, x \in Nat, X \in Nat :
        n = mode.param /\ w = mode.width /\ big = mode.bigEndian /\ x = Len(p) /\ X = Len(text)
  <2>1. mode.width \in Nat \ {0}
    <3>1. mode.width > 0 /\ mode.width \in Nat
      BY ModeTypes, WireAssumption
    <3> QED
      BY ONLY <3>1
  <2>2. mode.param \in Nat /\ mode.bigEndian \in BOOLEAN /\ Len(p) \in Nat /\ Len(text) \in Nat
    BY ModeTypes, WireAssumption, LenProperties DEF Payloads
  <2> QED
    BY <2>1, <2>2
<1>2. p \in Seq(Nat)
  BY WireAssumption DEF Payloads
<1>3. PICK F \in Seq(Nat) :
        /\ F = Format(p) /\ Len(F) = n + w + x
        /\ \A i \in 1 .. w : F[n + i] = IF i = (IF big THEN w ELSE 1) THEN x ELSE 0
        /\ \A i \in 1 .. x : F[n + w + i] = p[i]
  <2>1. /\ Format(p) \in Seq(Nat)
        /\ Len(Format(p)) = mode.param + mode.width + Len(p)
        /\ \A i \in 1 .. mode.width :
             Format(p)[mode.param + i] = IF i = (IF mode.bigEndian THEN mode.width ELSE 1) THEN Len(p) ELSE 0
        /\ \A i \in 1 .. Len(p) : Format(p)[mode.param + mode.width + i] = p[i]
    BY <1>2, BinaryFormat, Zenon
  <2> QED
    BY <1>1, <2>1
<1> DEFINE fr == checkCompleteMLE(mode, text)
           t == SubSeq(text, n + 1, X)
<1>4. fr = IF X < n THEN OutOfRange ELSE IF X < n + w THEN NoFrame
           ELSE Prefixed(mode, text, BinaryRead(t, w, big), n + w)
  BY <1>1 DEF checkCompleteMLE
<1> HIDE DEF fr, t
<1>5. CASE X < n
  <2>1. ~(Len(F) <= X)
    BY ONLY <1>3, <1>5, n \in Nat, w \in Nat \ {0}, x \in Nat, X \in Nat
  <2> QED
    BY <1>1, <1>3, <1>4, <1>5, <2>1 DEF Frames, AtLength, fr
<1>6. CASE ~(X < n) /\ X < n + w
  <2>1. ~(Len(F) <= X)
    BY ONLY <1>3, <1>6, n \in Nat, w \in Nat \ {0}, x \in Nat, X \in Nat
  <2> QED
    BY <1>1, <1>3, <1>4, <1>6, <2>1 DEF Frames, fr
<1>7. CASE ~(X < n) /\ ~(X < n + w)
  <2>1. /\ t \in Seq(Nat) /\ Len(t) = X - n
        /\ \A i \in 1 .. X - n : t[i] = text[n + i]
    <3>1. n <= Len(text)
      BY <1>1, <1>7
    <3>2. /\ SubSeq(text, n + 1, Len(text)) \in Seq(Nat)
          /\ Len(SubSeq(text, n + 1, Len(text))) = Len(text) - n
          /\ \A i \in 1 .. Len(text) - n : SubSeq(text, n + 1, Len(text))[i] = text[n + i]
      BY ONLY <3>1, TailAt, text \in Seq(Nat), n \in Nat
    <3> QED
      BY <1>1, <3>2 DEF t
  <2>2. ASSUME NEW i \in 1 .. w PROVE t[i] = IF i = (IF big THEN w ELSE 1) THEN x ELSE 0
    <3>1. i \in 1 .. X - n /\ n + i \in 1 .. Len(F) /\ n + i <= X
      BY ONLY <1>3, <1>7, n \in Nat, w \in Nat \ {0}, x \in Nat, X \in Nat, i \in 1 .. w
    <3>2. t[i] = F[n + i]
      BY <1>1, <1>3, <2>1, <3>1 DEF Begins
    <3> QED
      BY <1>3, <3>2
  <2>3. BinaryRead(t, w, big) = x
    <3>1. Len(t) >= w
      BY ONLY <2>1, <1>7, n \in Nat, w \in Nat \ {0}, X \in Nat
    <3> QED
      BY <2>1, <2>2, <3>1, BinaryReads
  <2>4. PICK start \in Nat : start = n + w /\ Len(F) = start + x
    BY <1>3
  <2>5. fr = Prefixed(mode, text, Len(p), start)
    BY <1>1, <1>4, <1>7, <2>3, <2>4
  <2> QED
    BY <1>1, <1>2, <1>3, <2>4, <2>5, PrefixedFrames, ZenonT(60) DEF fr
<1> QED
  BY <1>5, <1>6, <1>7 DEF fr

\* A message of a fixed length.
LEMMA FixedFrames ==
  ASSUME mode \in Modes, mode.kind = "fixed", NEW p \in Payloads, NEW text \in Seq(Nat), NEW behind
  PROVE  Frames(checkCompleteMLEFixed(mode, text), text, behind, p) /\ Format(p) \in Seq(Nat)
<1>1. PICK n \in Nat : n = mode.param
  BY ModeTypes
<1>2. p \in Seq(Nat) /\ Len(text) \in Nat
  BY WireAssumption DEF Payloads
<1>3. PICK F \in Seq(Nat) : F = Format(p) /\ Len(F) = n
  <2>1. PICK f : f = [i \in 1 .. n |-> IF i <= Len(p) THEN p[i] ELSE 0]
    OBVIOUS
  <2>2. f \in [1 .. n -> Nat]
    BY <1>2, <2>1
  <2>3. f \in Seq(Nat) /\ Len(f) = n
    BY ONLY <2>2, FunctionIsSequence, n \in Nat
  <2> QED
    BY <1>1, <2>1, <2>3 DEF Format
<1>4. checkCompleteMLEFixed(mode, text) = IF Len(text) >= n THEN [len |-> n, start |-> 0, pad |-> 0] ELSE NoFrame
  BY <1>1 DEF checkCompleteMLEFixed
<1>5. ShownAs(p) = F
  BY <1>3 DEF ShownAs
<1> QED
  BY <1>2, <1>3, <1>4, <1>5 DEF Frames, Frame

\* A message is a sequence of bytes.
LEMMA FormatIsSequence ==
  ASSUME mode \in Modes, NEW p \in Payloads
  PROVE  Format(p) \in Seq(Nat) /\ p \in Seq(Nat) /\ Len(Format(p)) \in Nat \ {0}
<1>0. p \in Seq(Nat) /\ mode.delimiter \in Seq(Nat)
  BY WireAssumption, ModeTypes DEF Payloads
<1>1. mode.kind = "delimiter" => Format(p) \in Seq(Nat)
  BY <1>0, JoinedAt DEF Format
<1>2. mode.kind = "text" => Format(p) \in Seq(Nat)
  BY TextHasParts DEF TextParts
<1>3. mode.kind = "binary" => Format(p) \in Seq(Nat)
  BY <1>0, BinaryFormat, Zenon
<1>4. mode.kind = "fixed" => Format(p) \in Seq(Nat)
  BY <1>0, FixedFrames
<1> QED
  BY <1>0, <1>1, <1>2, <1>3, <1>4, ModeTypes, FormatHasBytes, Zenon

\* The frame of what begins with a message is the frame of that message, however it is separated
\* from the next: when all of it has arrived, and before that none is found.
LEMMA FirstFrame ==
  ASSUME mode \in Modes, NEW p \in Payloads, NEW text \in Seq(Nat), NEW behind \in Seq(Nat),
         Begins(text, Format(p))
  PROVE  Frames(checkComplete(mode, text, behind), text, behind, p)
<1>1. CASE mode.kind = "delimiter"
  BY <1>1, DelimiterFrames DEF checkComplete
<1>2. CASE mode.kind = "text"
  BY <1>2, TextFrames DEF checkComplete
<1>3. CASE mode.kind = "binary"
  BY <1>3, BinaryFrames DEF checkComplete
<1>4. CASE mode.kind = "fixed"
  BY <1>4, FixedFrames DEF checkComplete
<1> QED
  BY <1>1, <1>2, <1>3, <1>4, ModeTypes

-----------------------------------------------------------------------------
(* What is on the wire: whole messages, and of the last one perhaps a part *)

\* The start of a sequence.
LEMMA StartAt ==
  ASSUME NEW S, NEW s \in Seq(S), NEW n \in Nat, n <= Len(s)
  PROVE  /\ SubSeq(s, 1, n) \in Seq(S) /\ Len(SubSeq(s, 1, n)) = n
         /\ \A i \in 1 .. n : SubSeq(s, 1, n)[i] = s[i]
<1>1. \A i \in 1 .. n : s[i] \in S
  OBVIOUS
<1>2. 1 \in Int /\ n \in Int
  OBVIOUS
<1>3. /\ SubSeq(s, 1, n) \in Seq(S) /\ Len(SubSeq(s, 1, n)) = (IF 1 <= n THEN n - 1 + 1 ELSE 0)
      /\ \A i \in 1 .. n - 1 + 1 : SubSeq(s, 1, n)[i] = s[1 + i - 1]
  BY ONLY <1>1, <1>2, SubSeqProperties, SMT
<1>4. Len(SubSeq(s, 1, n)) = n
  BY ONLY <1>3, n \in Nat
<1>5. ASSUME NEW i \in 1 .. n PROVE SubSeq(s, 1, n)[i] = s[i]
  <2>1. i \in 1 .. n - 1 + 1 /\ 1 + i - 1 = i
    OBVIOUS
  <2> QED
    BY ONLY <1>3, <2>1
<1> QED
  BY <1>3, <1>4, <1>5

\* What rises with every step rises.
LEMMA Rises ==
  ASSUME NEW N \in Nat, NEW f, \A n \in 0 .. N : f[n] \in Nat, \A n \in 1 .. N : f[n - 1] < f[n],
         NEW i \in 0 .. N, NEW j \in 0 .. N, i < j
  PROVE  f[i] < f[j]
<1> DEFINE Bad == {n \in 0 .. N : i < n /\ ~(f[i] < f[n])}
<1> SUFFICES ASSUME Bad # {} PROVE FALSE
  OBVIOUS
<1>1. PICK n \in Bad : \A k \in Bad : n <= k
  <2>1. Bad \in SUBSET Nat
    OBVIOUS
  <2> HIDE DEF Bad
  <2> QED
    BY <2>1, Smallest
<1>2. n \in 1 .. N /\ n - 1 \in 0 .. N /\ i < n /\ ~(f[i] < f[n]) /\ n - 1 \notin Bad
  BY <1>1
<1>3. f[n - 1] < f[n] /\ f[n] \in Nat /\ f[n - 1] \in Nat /\ f[i] \in Nat
  BY <1>2
<1>4. CASE i = n - 1
  BY <1>2, <1>3, <1>4
<1>5. CASE i # n - 1
  <2>1. i < n - 1
    BY <1>2, <1>5
  <2>2. f[i] < f[n - 1]
    BY <1>2, <2>1
  <2> QED
    BY <1>2, <1>3, <2>2
<1> QED
  BY <1>4, <1>5

\* A message goes behind what is filled, whether there is room for it or not.
LEMMA FillStepHolds ==
  ASSUME NEW old, old.buffer \in Seq(Nat), old.length \in Nat, old.length <= Len(old.buffer), NEW p \in Seq(Nat)
  PROVE  /\ FillStep(old, p).buffer \in Seq(Nat) /\ FillStep(old, p).length = old.length + Len(p)
         /\ old.length + Len(p) <= Len(FillStep(old, p).buffer)
         /\ \A i \in 1 .. old.length : FillStep(old, p).buffer[i] = old.buffer[i]
         /\ \A i \in 1 .. Len(p) : FillStep(old, p).buffer[old.length + i] = p[i]
<1>1. PICK C \in Seq(Nat), l \in Nat, n \in Nat, N \in Nat : C = old.buffer /\ l = old.length /\ n = Len(p) /\ N = Len(C)
  OBVIOUS
<1>2. l <= N
  BY <1>1
<1>3. PICK s : s = FillStep(old, p).buffer
  OBVIOUS
<1>4. s = IF l + n > N THEN Extended(C, l, p) ELSE Overwritten(C, l, p)
  BY <1>1, <1>3 DEF FillStep
<1>5. s \in Seq(Nat) /\ l + n <= Len(s) /\ (\A i \in 1 .. l : s[i] = C[i]) /\ \A i \in 1 .. n : s[l + i] = p[i]
  <2>1. CASE l + n > N
    <3>1. PICK u \in Seq(Nat) : u = SubSeq(C, 1, l) /\ Len(u) = l /\ \A i \in 1 .. l : u[i] = C[i]
      <4>1. l <= Len(C)
        BY <1>1, <1>2
      <4>2. /\ SubSeq(C, 1, l) \in Seq(Nat) /\ Len(SubSeq(C, 1, l)) = l
            /\ \A i \in 1 .. l : SubSeq(C, 1, l)[i] = C[i]
        BY ONLY <4>1, StartAt, C \in Seq(Nat), l \in Nat, Zenon
      <4> QED
        BY <4>2
    <3>2. s = u \o p
      BY <1>4, <2>1, <3>1 DEF Extended
    <3>3. /\ u \o p \in Seq(Nat) /\ Len(u \o p) = Len(u) + Len(p)
          /\ \A i \in 1 .. Len(u) : (u \o p)[i] = u[i]
          /\ \A i \in 1 .. Len(p) : (u \o p)[Len(u) + i] = p[i]
      BY JoinedAt
    <3>4. Len(s) = l + n /\ s \in Seq(Nat)
      BY <1>1, <3>1, <3>2, <3>3
    <3>5. \A i \in 1 .. l : s[i] = C[i]
      BY <3>1, <3>2, <3>3
    <3>6. \A i \in 1 .. n : s[l + i] = p[i]
      BY <1>1, <3>1, <3>2, <3>3
    <3>7. l + n <= Len(s)
      BY ONLY <3>4, l \in Nat, n \in Nat
    <3> QED
      BY ONLY <3>4, <3>5, <3>6, <3>7
  <2>2. CASE ~(l + n > N)
    <3>1. s = [i \in 1 .. N |-> IF l < i /\ i <= l + n THEN p[i - l] ELSE C[i]]
      BY <1>1, <1>4, <2>2 DEF Overwritten
    <3>2. ASSUME NEW i \in 1 .. N PROVE s[i] \in Nat /\ (i <= l => s[i] = C[i])
      <4>1. CASE l < i /\ i <= l + n
        <5>1. i - l \in 1 .. n /\ s[i] = p[i - l] /\ ~(i <= l)
          BY <3>1, <4>1
        <5> QED
          BY <1>1, <5>1
      <4>2. CASE ~(l < i /\ i <= l + n)
        <5>1. s[i] = C[i] /\ C[i] \in Nat
          BY <1>1, <3>1, <4>2
        <5> QED
          BY <5>1
      <4> QED
        BY <4>1, <4>2
    <3>3. s \in [1 .. N -> Nat]
      BY <3>1, <3>2
    <3>4. s \in Seq(Nat) /\ Len(s) = N
      BY ONLY <3>3, FunctionIsSequence, N \in Nat
    <3>5. \A i \in 1 .. l : s[i] = C[i]
      BY <1>2, <3>2
    <3>6. ASSUME NEW i \in 1 .. n PROVE s[l + i] = p[i]
      <4>1. l + i \in 1 .. N /\ l < l + i /\ l + i <= l + n /\ (l + i) - l = i
        BY ONLY <2>2, i \in 1 .. n, l \in Nat, n \in Nat, N \in Nat
      <4> QED
        BY <3>1, <4>1
    <3>7. l + n <= Len(s)
      BY ONLY <2>2, <3>4, l \in Nat, n \in Nat, N \in Nat
    <3> QED
      BY <3>4, <3>5, <3>6, <3>7
  <2> QED
    BY <2>1, <2>2
<1>6. FillStep(old, p).length = l + n
  BY <1>1 DEF FillStep
<1> QED
  BY <1>1, <1>3, <1>5, <1>6

\* The first messages are in what is filled, one behind the other.
LEMMA FilledHolds ==
  ASSUME mode \in Modes, buffer \in Seq(Nat), NEW messages \in Seq(Messages)
  PROVE  LET filled == Filled(messages)
             F(n)   == Format(Payload[messages[n]])
         IN \A n \in 0 .. Len(messages) :
              /\ filled[n].buffer \in Seq(Nat) /\ filled[n].length <= Len(filled[n].buffer)
              /\ \A j \in 1 .. n : \A k \in 1 .. Len(F(j)) : filled[n].buffer[filled[j - 1].length + k] = F(j)[k]
<1> DEFINE N == Len(messages)
           filled == Filled(messages)
           F(n) == Format(Payload[messages[n]])
           L(n) == filled[n].length
           Holds(n, b) == \A j \in 1 .. n : \A k \in 1 .. Len(F(j)) : b[L(j - 1) + k] = F(j)[k]
           Good(n) == filled[n].buffer \in Seq(Nat) /\ L(n) <= Len(filled[n].buffer) /\ Holds(n, filled[n].buffer)
<1>1. N \in Nat /\ \A n \in 1 .. N : F(n) \in Seq(Nat)
  <2>1. \A n \in 1 .. N : Payload[messages[n]] \in Payloads
    BY DEF Payloads
  <2> QED
    BY <2>1, FormatIsSequence
<1>2. filled[0] = [buffer |-> buffer, length |-> 0] /\ \A n \in 1 .. N : filled[n] = FillStep(filled[n - 1], F(n))
  BY FilledSteps
<1>3. (\A n \in 0 .. N : L(n) \in Nat) /\ \A n \in 1 .. N : L(n - 1) < L(n)
  BY FilledGrows
<1>0. \A old, p : FillStep(old, p).length = old.length + Len(p)
  BY DEF FillStep
<1> HIDE DEF N, filled, F
<1>5. ASSUME NEW i \in 0 .. N, NEW j \in 0 .. N, i <= j PROVE L(i) <= L(j)
  <2>1. PICK f : f = [n \in 0 .. N |-> L(n)]
    OBVIOUS
  <2>2. (\A n \in 0 .. N : f[n] \in Nat) /\ \A n \in 1 .. N : f[n - 1] < f[n]
    <3>1. \A n \in 1 .. N : n \in 0 .. N /\ n - 1 \in 0 .. N
      BY <1>1
    <3> QED
      BY ONLY <1>3, <2>1, <3>1
  <2>3. i < j => f[i] < f[j]
    BY <1>1, <2>2, Rises
  <2>4. f[i] = L(i) /\ f[j] = L(j) /\ L(i) \in Nat /\ L(j) \in Nat
    BY <1>3, <2>1
  <2> QED
    BY <1>1, <1>5, <2>3, <2>4
<1>4. ASSUME NEW n \in 1 .. N, Good(n - 1) PROVE Good(n)
  <2>1. n - 1 \in 0 .. N /\ n \in 0 .. N
    BY <1>1
  <2>2. PICK old, p : old = filled[n - 1] /\ p = F(n) /\ p \in Seq(Nat)
    BY <1>1
  <2>3. old.buffer \in Seq(Nat) /\ old.length \in Nat /\ old.length <= Len(old.buffer)
    BY <1>3, <1>4, <2>1, <2>2
  <2>4. PICK new : new = FillStep(old, p) /\ new = filled[n]
    BY <1>2, <2>2
  <2>5. /\ new.buffer \in Seq(Nat) /\ new.length = old.length + Len(p)
        /\ old.length + Len(p) <= Len(new.buffer)
        /\ \A i \in 1 .. old.length : new.buffer[i] = old.buffer[i]
        /\ \A i \in 1 .. Len(p) : new.buffer[old.length + i] = p[i]
    <3>0. p \in Seq(Nat)
      BY <2>2
    <3>1. /\ FillStep(old, p).buffer \in Seq(Nat) /\ FillStep(old, p).length = old.length + Len(p)
          /\ old.length + Len(p) <= Len(FillStep(old, p).buffer)
          /\ \A i \in 1 .. old.length : FillStep(old, p).buffer[i] = old.buffer[i]
          /\ \A i \in 1 .. Len(p) : FillStep(old, p).buffer[old.length + i] = p[i]
      BY ONLY <2>3, <3>0, FillStepHolds, Zenon
    <3> QED
      BY <2>4, <3>1
  <2>6. ASSUME NEW j \in 1 .. n, NEW k \in 1 .. Len(F(j)) PROVE new.buffer[L(j - 1) + k] = F(j)[k]
    <3>1. CASE j = n
      BY <2>2, <2>5, <3>1
    <3>2. CASE j # n
      <4>1. j \in 1 .. n - 1 /\ j \in 1 .. N /\ j - 1 \in 0 .. N /\ j \in 0 .. N
        BY <1>1, <3>2
      <4>2. old.buffer[L(j - 1) + k] = F(j)[k]
        BY <1>4, <2>2, <4>1
      <4>3. L(j - 1) + k \in 1 .. old.length
        <5>1. L(j) = L(j - 1) + Len(F(j)) /\ Len(F(j)) \in Nat
          BY <1>0, <1>1, <1>2, <4>1
        <5>2. L(j) <= L(n - 1)
          BY <1>5, <2>1, <4>1
        <5>3. old.length = L(n - 1) /\ L(n - 1) \in Nat /\ L(j) \in Nat /\ L(j - 1) \in Nat
          BY <1>3, <2>1, <2>2, <4>1
        <5> QED
          BY ONLY <5>1, <5>2, <5>3, k \in 1 .. Len(F(j)), SMTT(30)
      <4> QED
        BY <2>5, <4>2, <4>3
    <3> QED
      BY <3>1, <3>2
  <2> QED
    BY <2>4, <2>5, <2>6
<1>6. Good(0)
  BY <1>2
<1>7. \A n \in 0 .. N : Good(n)
  <2> DEFINE Bad == {n \in 0 .. N : ~Good(n)}
  <2> SUFFICES ASSUME Bad # {} PROVE FALSE
    BY Zenon
  <2>1. PICK n \in Bad : \A k \in Bad : n <= k
    <3>1. Bad \in SUBSET Nat
      BY <1>1
    <3> HIDE DEF Bad
    <3> QED
      BY <3>1, Smallest
  <2> HIDE DEF Good
  <2>2. n # 0
    BY <1>6, <2>1
  <2>3. n \in 1 .. N /\ n - 1 \in 0 .. N /\ n - 1 \notin Bad
    BY <1>1, <2>1, <2>2
  <2>4. Good(n - 1)
    BY <2>3
  <2> QED
    BY <1>4, <2>1, <2>3, <2>4
<1> QED
  BY <1>7 DEF N, filled, F

\* The whole messages are the first ones.
LEMMA WholeAreFirst ==
  ASSUME mode \in Modes, NEW messages \in Seq(Messages), NEW length \in Nat
  PROVE  /\ Whole(messages, length) \in 0 .. Len(messages)
         /\ \A n \in 1 .. Len(messages) : Filled(messages)[n].length <= length <=> n <= Whole(messages, length)
<1> DEFINE N == Len(messages)
           filled == Filled(messages)
           whole == {n \in 1 .. N : filled[n].length <= length}
           Over == {n \in 1 .. N + 1 : n = N + 1 \/ filled[n].length > length}
<1>1. /\ N \in Nat
      /\ \A n \in 0 .. N : filled[n].length \in Nat
      /\ \A n \in 1 .. N : filled[n - 1].length < filled[n].length
  BY FilledGrows
<1>0. Whole(messages, length) = Cardinality(whole)
  BY DEF Whole
<1> HIDE DEF N, filled
<1>2. PICK f : f = [n \in 0 .. N |-> filled[n].length]
  OBVIOUS
<1>3. (\A n \in 0 .. N : f[n] \in Nat /\ f[n] = filled[n].length) /\ \A n \in 1 .. N : f[n - 1] < f[n]
  <2>1. \A n \in 1 .. N : n \in 0 .. N /\ n - 1 \in 0 .. N
    BY <1>1
  <2> QED
    BY ONLY <1>1, <1>2, <2>1
<1>4. PICK s \in Over : \A k \in Over : s <= k
  <2>1. Over \in SUBSET Nat /\ N + 1 \in Over
    BY <1>1
  <2> HIDE DEF Over
  <2> QED
    BY <2>1, Smallest
<1>5. s \in 1 .. N + 1 /\ (s = N + 1 \/ filled[s].length > length)
  OBVIOUS
<1>6. ASSUME NEW n \in 1 .. N PROVE filled[n].length <= length <=> n <= s - 1
  <2>1. n \in 0 .. N /\ filled[n].length \in Nat
    BY <1>1
  <2>2. CASE n < s
    <3>1. n \notin Over
      BY <1>1, <1>4, <2>2
    <3>2. ~(filled[n].length > length)
      BY <1>1, <3>1
    <3> QED
      BY <1>1, <1>5, <2>1, <2>2, <3>2
  <2>3. CASE ~(n < s)
    <3>1. s \in 1 .. N /\ s \in 0 .. N
      BY <1>1, <1>5, <2>3
    <3>2. filled[s].length > length /\ filled[s].length \in Nat
      BY <1>1, <1>5, <3>1
    <3>3. s = n \/ s < n
      BY <1>1, <2>3, <3>1
    <3>4. s < n => f[s] < f[n]
      BY <1>1, <1>3, <2>1, <3>1, Rises
    <3>5. filled[n].length >= filled[s].length
      BY <1>3, <2>1, <3>1, <3>2, <3>3, <3>4
    <3>6. ~(filled[n].length <= length) /\ ~(n <= s - 1)
      BY <2>1, <2>3, <3>1, <3>2, <3>5
    <3> QED
      BY <3>6
  <2> QED
    BY <2>2, <2>3
<1>7. whole = 1 .. s - 1
  <2>1. \A n \in 1 .. s - 1 : n \in 1 .. N
    BY <1>1, <1>5
  <2>2. \A n \in 1 .. N : n <= s - 1 => n \in 1 .. s - 1
    BY <1>1, <1>5
  <2> QED
    BY <1>6, <2>1, <2>2
<1>8. Cardinality(whole) = s - 1
  <2>1. 1 \in Int /\ s - 1 \in Int /\ s - 1 >= 0
    BY <1>1, <1>5
  <2>2. Cardinality(1 .. s - 1) = IF 1 > s - 1 THEN 0 ELSE (s - 1) - 1 + 1
    BY ONLY <2>1, FS_Interval, Zenon
  <2>3. Cardinality(1 .. s - 1) = s - 1
    BY ONLY <2>1, <2>2
  <2> HIDE DEF whole
  <2> QED
    BY ONLY <1>7, <2>3
<1>9. s - 1 \in 0 .. N
  BY <1>1, <1>5
<1> QED
  BY <1>0, <1>6, <1>8, <1>9 DEF N, filled

\* The bytes of a message.
Bytes(m) == Format(Payload[m])

\* Where the messages that have been written begin and end on the wire,
Offsets(o) ==
  /\ o \in [0 .. Len(written) -> Nat] /\ o[0] = 0
  /\ \A i \in 1 .. Len(written) : o[i] = o[i - 1] + Len(Bytes(written[i]))
  /\ \A i \in 1 .. Len(written) : \A k \in 1 .. Len(Bytes(written[i])) : wire[o[i - 1] + k] = Bytes(written[i])[k]

\* and what is behind them, if the connection was lost in the middle of one.
Rest(o) ==
  LET last == o[Len(written)]
  IN /\ last <= arrived
     /\ last = arrived \/ (dead /\ \E m \in Messages : /\ arrived - last < Len(Bytes(m))
                                                      /\ \A k \in 1 .. arrived - last : wire[last + k] = Bytes(m)[k])

\* The reader is at the end of a message.
Position(o) == Len(received) \in 0 .. Len(written) /\ read - (end - begin) = o[Len(received)]

WireTypes == wire \in [1 .. arrived -> Nat] /\ arrived \in Nat /\ buffer \in Seq(Nat) /\ dead \in BOOLEAN
DataTypes == data \in [1 .. size -> Nat]
WireLayout == WireTypes /\ DataTypes /\ \E o : Offsets(o) /\ Rest(o) /\ Position(o)

\* The bytes of the messages that are there.
LEMMA BytesTypes ==
  ASSUME mode \in Modes, NEW m \in Messages
  PROVE  Bytes(m) \in Seq(Nat) /\ Len(Bytes(m)) \in Nat \ {0} /\ Payload[m] \in Payloads
<1>1. Payload[m] \in Payloads
  BY DEF Payloads
<1> QED
  BY <1>1, FormatIsSequence DEF Bytes

\* The messages are in order.
LEMMA OffsetsRise ==
  ASSUME mode \in Modes, written \in Seq(Messages), NEW o, Offsets(o)
  PROVE  \A i \in 0 .. Len(written), j \in 0 .. Len(written) : i <= j => o[i] <= o[j]
<1>1. PICK K \in Nat : K = Len(written)
  OBVIOUS
<1>2. \A i \in 0 .. K : o[i] \in Nat
  BY <1>1 DEF Offsets
<1>3. ASSUME NEW i \in 1 .. K PROVE o[i - 1] < o[i]
  <2>1. Len(Bytes(written[i])) \in Nat \ {0}
    <3>1. written[i] \in Messages
      BY <1>1
    <3> QED
      BY <3>1, BytesTypes
  <2>2. o[i] = o[i - 1] + Len(Bytes(written[i])) /\ o[i - 1] \in Nat
    <3>1. i - 1 \in 0 .. K
      OBVIOUS
    <3> QED
      BY <1>1, <1>2, <3>1 DEF Offsets
  <2> QED
    BY ONLY <2>1, <2>2
<1>4. ASSUME NEW i \in 0 .. K, NEW j \in 0 .. K, i <= j PROVE o[i] <= o[j]
  <2>1. i < j => o[i] < o[j]
    BY <1>2, <1>3, Rises
  <2>2. o[i] \in Nat /\ o[j] \in Nat
    BY <1>2
  <2> QED
    BY <1>4, <2>1, <2>2
<1> QED
  BY <1>1, <1>4

\* A transmission puts messages behind those that are there, and the start of another one only if
\* nothing can follow it.
LEMMA TransmitKeepsLayout ==
  ASSUME mode \in Modes, WireTypes, written \in Seq(Messages), NEW messages \in Seq(Messages), NEW length \in Nat,
         NEW o, Offsets(o), Rest(o), Transmit(Filled(messages), messages, length),
         length <= Filled(messages)[Len(messages)].length, dead => length = 0 /\ dead',
         length < Filled(messages)[Len(messages)].length /\ length > 0 => dead', dead' \in BOOLEAN
  PROVE  /\ WireTypes' /\ \E q : Offsets(q)' /\ Rest(q)' /\ \A i \in 0 .. Len(written) : q[i] = o[i]
         /\ Len(written') >= Len(written) /\ \A i \in 1 .. Len(written) : written'[i] = written[i]
<1> DEFINE L(n) == Filled(messages)[n].length
           F(n) == Bytes(messages[n])
<1>0. PICK N \in Nat, A \in Nat, K \in Nat : N = Len(messages) /\ A = arrived /\ K = Len(written)
  <2>1. arrived \in Nat
    BY DEF WireTypes
  <2>2. Len(messages) \in Nat /\ Len(written) \in Nat
    BY LenProperties
  <2> QED
    BY ONLY <2>1, <2>2
<1>1. PICK W : N = Len(messages) /\ A = arrived /\ K = Len(written) /\ W = Whole(messages, length)
  BY <1>0
<1>2. W \in 0 .. N /\ W \in Nat /\ W <= N
  <2>1. W \in 0 .. Len(messages)
    BY <1>1, WholeAreFirst
  <2> QED
    BY <1>0, <2>1
<1>3. /\ L(0) = 0
      /\ \A n \in 0 .. N : L(n) \in Nat
      /\ \A n \in 1 .. N : L(n - 1) < L(n)
      /\ \A n \in 1 .. N : L(n) = L(n - 1) + Len(F(n))
  <2>1. /\ L(0) = 0
        /\ \A n \in 0 .. N : L(n) \in Nat
        /\ \A n \in 1 .. N : L(n - 1) < L(n)
    BY <1>1, FilledGrows
  <2>2. \A n \in 1 .. N : L(n) = L(n - 1) + Len(F(n))
    <3>1. \A old, p : FillStep(old, p).length = old.length + Len(p)
      BY DEF FillStep
    <3> QED
      BY <1>1, <3>1, FilledSteps DEF Bytes
  <2> QED
    BY <2>1, <2>2
<1>4. \A n \in 1 .. N : F(n) \in Seq(Nat) /\ Len(F(n)) \in Nat \ {0}
  <2>1. \A n \in 1 .. N : Payload[messages[n]] \in Payloads
    BY <1>1 DEF Payloads
  <2> QED
    BY <2>1, FormatIsSequence DEF Bytes
<1>5. \A n \in 1 .. N : L(n) <= length <=> n <= W
  BY <1>1, WholeAreFirst
<1>6. PICK content \in Seq(Nat) :
        /\ content = Filled(messages)[N].buffer /\ L(N) <= Len(content)
        /\ \A j \in 1 .. N : \A k \in 1 .. Len(F(j)) : content[L(j - 1) + k] = F(j)[k]
  <2>1. N \in 0 .. N
    OBVIOUS
  <2> QED
    BY <1>1, <2>1, FilledHolds, ZenonT(60) DEF Bytes, WireTypes
<1> HIDE DEF L, F
<1>7. /\ wire' = [k \in 1 .. A + length |-> IF k <= A THEN wire[k] ELSE content[k - A]]
      /\ arrived' = A + length /\ buffer' = content
      /\ written' = written \o SubSeq(messages, 1, W) /\ mode' = mode
  BY <1>1, <1>6 DEF Transmit, Whole
<1>8. PICK added \in Seq(Messages) : /\ added = SubSeq(messages, 1, W) /\ Len(added) = W
                                     /\ \A i \in 1 .. W : added[i] = messages[i]
  <2>1. W \in Nat /\ W <= Len(messages)
    BY <1>1, <1>2
  <2>2. SubSeq(messages, 1, W) \in Seq(Messages) /\ Len(SubSeq(messages, 1, W)) = W
        /\ \A i \in 1 .. W : SubSeq(messages, 1, W)[i] = messages[i]
    BY ONLY <2>1, StartAt, messages \in Seq(Messages), Zenon
  <2> QED
    BY <2>2
<1>9. /\ Len(written') = K + W
      /\ \A i \in 1 .. K : written'[i] = written[i]
      /\ \A i \in 1 .. W : written'[K + i] = messages[i]
  <2>1. Len(written \o added) = K + W
    BY <1>1, <1>8
  <2>2. \A i \in 1 .. K : (written \o added)[i] = written[i]
    BY <1>1, <1>8
  <2>3. \A i \in 1 .. W : (written \o added)[K + i] = added[i]
    BY <1>1, <1>8
  <2> QED
    BY <1>7, <1>8, <2>1, <2>2, <2>3
<1>10. A + length \in Nat /\ \A k \in 1 .. A + length :
         wire'[k] = (IF k <= A THEN wire[k] ELSE content[k - A]) /\ wire'[k] \in Nat
  <2>1. length <= Len(content)
    <3>1. L(N) \in Nat /\ length <= L(N) /\ Len(content) \in Nat
      BY <1>1, <1>3 DEF L
    <3> QED
      BY ONLY <1>6, <3>1, length \in Nat
  <2>2. ASSUME NEW k \in 1 .. A + length
        PROVE  wire'[k] = (IF k <= A THEN wire[k] ELSE content[k - A]) /\ wire'[k] \in Nat
    <3>1. CASE k <= A
      <4>1. k \in 1 .. A
        BY <3>1
      <4> QED
        BY <1>1, <1>7, <3>1, <4>1 DEF WireTypes
    <3>2. CASE ~(k <= A)
      <4>1. k - A \in 1 .. Len(content)
        BY <2>1, <3>2
      <4>2. content[k - A] \in Nat
        BY ONLY <4>1, content \in Seq(Nat)
      <4>3. wire'[k] = content[k - A]
        BY <1>7, <3>2
      <4> QED
        BY ONLY <3>2, <4>2, <4>3
    <3> QED
      BY ONLY <3>1, <3>2
  <2>3. A + length \in Nat
    OBVIOUS
  <2> QED
    BY <2>2, <2>3
<1>11. WireTypes'
  BY <1>7, <1>10 DEF WireTypes
<1>12. \A m : Bytes(m)' = Bytes(m)
  BY <1>7 DEF Bytes, Format
<1>13. /\ o \in [0 .. K -> Nat] /\ o[0] = 0 /\ o[K] <= A
       /\ \A i \in 1 .. K : o[i] = o[i - 1] + Len(Bytes(written[i]))
       /\ \A i \in 1 .. K : \A k \in 1 .. Len(Bytes(written[i])) : wire[o[i - 1] + k] = Bytes(written[i])[k]
       /\ o[K] = A \/ (dead /\ \E m \in Messages : /\ A - o[K] < Len(Bytes(m))
                                                   /\ \A k \in 1 .. A - o[K] : wire[o[K] + k] = Bytes(m)[k])
  BY <1>1 DEF Offsets, Rest
<1>16. \A i \in 1 .. K : Len(Bytes(written[i])) \in Nat /\ o[i - 1] \in Nat /\ o[i] \in Nat /\ o[i] <= A
  <2> TAKE i \in 1 .. K
  <2>1. written[i] \in Messages /\ i - 1 \in 0 .. K /\ i \in 0 .. K /\ K \in 0 .. K
    BY <1>1
  <2>2. o[i] <= o[K] /\ o[i] \in Nat /\ o[K] \in Nat /\ o[i - 1] \in Nat /\ o[K] <= A
    <3>1. i <= K
      OBVIOUS
    <3>2. o[i] <= o[K]
      BY <1>1, <2>1, <3>1, OffsetsRise
    <3> QED
      BY ONLY <1>13, <2>1, <3>2
  <2>3. o[i] <= A
    BY ONLY <2>2, A \in Nat
  <2>4. Len(Bytes(written[i])) \in Nat
    BY <2>1, BytesTypes
  <2> QED
    BY ONLY <2>2, <2>3, <2>4
<1>17. \A i \in 1 .. K : \A k \in 1 .. Len(Bytes(written[i])) : o[i - 1] + k \in 1 .. A
  <2> TAKE i \in 1 .. K
  <2> TAKE k \in 1 .. Len(Bytes(written[i]))
  <2>1. /\ Len(Bytes(written[i])) \in Nat /\ o[i - 1] \in Nat /\ o[i] \in Nat /\ o[i] <= A
        /\ o[i] = o[i - 1] + Len(Bytes(written[i]))
    BY ONLY <1>13, <1>16, i \in 1 .. K
  <2> QED
    BY ONLY <2>1, k \in 1 .. Len(Bytes(written[i])), A \in Nat
<1>14. CASE length = 0
  <2>1. W = 0
    <3> SUFFICES ASSUME W # 0 PROVE FALSE
      OBVIOUS
    <3>1. 1 \in 1 .. N /\ 1 <= W /\ 1 - 1 = 0
      BY <1>2
    <3>2. L(0) < L(1) /\ L(1) <= 0 /\ L(0) = 0
      BY <1>3, <1>5, <1>14, <3>1
    <3>3. L(0) \in Nat /\ L(1) \in Nat
      BY <1>2, <1>3, <3>1
    <3> QED
      BY ONLY <3>2, <3>3
  <2>0. A + length = A
    BY <1>14
  <2>2. Len(written') = K /\ arrived' = A /\ \A k \in 1 .. A : wire'[k] = wire[k]
    <3>1. K + W = K
      BY <2>1
    <3>2. \A k \in 1 .. A : wire'[k] = wire[k]
      <4> TAKE k \in 1 .. A
      <4>1. k \in 1 .. A + length /\ k <= A
        BY <2>0
      <4> QED
        BY ONLY <1>10, <4>1
    <3> QED
      BY <1>7, <1>9, <2>0, <3>1, <3>2
  <2>4. Offsets(o)'
    <3>1. \A i \in 1 .. K : \A k \in 1 .. Len(Bytes(written[i])) :
            wire'[o[i - 1] + k] = Bytes(written[i])[k]
      BY <1>13, <1>17, <2>2
    <3>2. o \in [0 .. Len(written') -> Nat] /\ o[0] = 0
      BY <1>13, <2>2
    <3>3. \A i \in 1 .. Len(written') :
            o[i] = o[i - 1] + Len(Bytes(written[i])) /\ written'[i] = written[i]
      BY <1>9, <1>13, <2>2
    <3>4. \A i \in 1 .. Len(written') : \A k \in 1 .. Len(Bytes(written[i])) :
            wire'[o[i - 1] + k] = Bytes(written[i])[k]
      BY <2>2, <3>1
    <3>5. \A i \in 1 .. Len(written') : (Bytes(written[i]))' = Bytes(written[i])
      BY <1>7, <3>3 DEF Bytes, Format
    <3>6. \A i \in 1 .. Len(written') : o[i] = o[i - 1] + Len((Bytes(written[i]))')
      BY ONLY <3>3, <3>5
    <3>7. \A i \in 1 .. Len(written') : \A k \in 1 .. Len((Bytes(written[i]))') :
            wire'[o[i - 1] + k] = ((Bytes(written[i]))')[k]
      BY ONLY <3>4, <3>5
    <3> QED
      BY ONLY <3>2, <3>6, <3>7, Zenon DEF Offsets
  <2>5. Rest(o)'
    <3>1. dead => dead'
      BY <1>14
    <3>2. \A k \in 1 .. A - o[K] : wire'[o[K] + k] = wire[o[K] + k]
      <4> TAKE k \in 1 .. A - o[K]
      <4>1. o[K] + k \in 1 .. A
        BY <1>13
      <4> QED
        BY <2>2, <4>1
    <3>3. o[K] <= A /\ (o[K] = A \/ (dead' /\ \E m \in Messages :
             A - o[K] < Len(Bytes(m)') /\ \A k \in 1 .. A - o[K] : wire'[o[K] + k] = (Bytes(m)')[k]))
      BY <1>12, <1>13, <3>1, <3>2
    <3> QED
      BY <2>2, <3>3 DEF Rest
  <2>6. Len(written') >= Len(written)
    BY ONLY <1>1, <2>2, K \in Nat
  <2>7. \E r : Offsets(r)' /\ Rest(r)' /\ \A i \in 0 .. Len(written) : r[i] = o[i]
    BY ONLY <2>4, <2>5, Zenon
  <2> QED
    BY ONLY <1>1, <1>9, <1>11, <2>6, <2>7
<1>15. CASE length # 0
  <2>0. PICK q : q = [i \in 0 .. K + W |-> IF i <= K THEN o[i] ELSE A + L(i - K)]
    OBVIOUS
  <2>1. ~dead /\ o[K] = A /\ length > 0 /\ o[K] \in Nat
    BY <1>13, <1>15
  <2>2. /\ K + W \in Nat /\ \A i \in 0 .. K : q[i] = o[i] /\ q[i] \in Nat
        /\ \A j \in 0 .. W : q[K + j] = A + L(j) /\ L(j) \in Nat
        /\ q \in [0 .. K + W -> Nat] /\ q[0] = 0
    <3>1. ASSUME NEW i \in 0 .. K PROVE q[i] = o[i] /\ q[i] \in Nat
      <4>1. i \in 0 .. K + W /\ i <= K
        BY <1>2
      <4> QED
        BY <1>13, <2>0, <4>1
    <3>2. ASSUME NEW j \in 0 .. W PROVE q[K + j] = A + L(j) /\ L(j) \in Nat
      <4>1. j \in 0 .. N /\ K + j \in 0 .. K + W
        BY <1>2
      <4>2. L(j) \in Nat
        BY <1>3, <4>1
      <4>3. CASE j = 0
        <5>1. K + j = K /\ K \in 0 .. K /\ A + L(j) = A
          BY <1>3, <4>3
        <5> QED
          BY <2>1, <3>1, <4>2, <5>1
      <4>4. CASE j # 0
        <5>1. ~(K + j <= K) /\ (K + j) - K = j
          BY <4>4
        <5>2. q[K + j] = A + L((K + j) - K)
          BY <2>0, <4>1, <5>1
        <5> QED
          BY ONLY <4>2, <5>1, <5>2
      <4> QED
        BY <4>3, <4>4
    <3>3. ASSUME NEW i \in 0 .. K + W PROVE q[i] \in Nat
      <4>1. CASE i <= K
        <5>1. i \in 0 .. K
          BY <4>1
        <5> QED
          BY <3>1, <5>1
      <4>2. CASE ~(i <= K)
        <5>1. i - K \in 0 .. W /\ K + (i - K) = i
          BY <1>2, <4>2
        <5>2. q[K + (i - K)] = A + L(i - K) /\ L(i - K) \in Nat
          BY <3>2, <5>1
        <5> QED
          BY ONLY <5>1, <5>2, A \in Nat
      <4> QED
        BY <4>1, <4>2
    <3>4. K + W \in Nat /\ 0 \in 0 .. K
      BY <1>2
    <3> QED
      BY <1>13, <2>0, <3>1, <3>2, <3>3, <3>4
  <2>3. ASSUME NEW j \in 1 .. W
        PROVE  /\ q[K + j] = q[K + j - 1] + Len(F(j)) /\ (Bytes(written[K + j]))' = F(j)
               /\ \A k \in 1 .. Len(F(j)) : wire'[q[K + j - 1] + k] = F(j)[k]
    <3>1. j \in 1 .. N /\ j \in 0 .. W /\ j - 1 \in 0 .. W /\ K + (j - 1) = K + j - 1
      BY <1>2
    <3>2. q[K + j] = A + L(j) /\ q[K + j - 1] = A + L(j - 1) /\ L(j) \in Nat /\ L(j - 1) \in Nat
      BY <2>2, <3>1
    <3>3. L(j) = L(j - 1) + Len(F(j)) /\ L(j) <= length /\ Len(F(j)) \in Nat
      <4>1. j <= W
        BY <1>2
      <4> QED
        BY <1>3, <1>4, <1>5, <3>1, <4>1
    <3>4. q[K + j] = q[K + j - 1] + Len(F(j))
      BY ONLY <3>2, <3>3, A \in Nat
    <3>5. (Bytes(written[K + j]))' = F(j)
      BY <1>7, <1>9 DEF Bytes, Format, F
    <3>6. ASSUME NEW k \in 1 .. Len(F(j)) PROVE wire'[q[K + j - 1] + k] = F(j)[k]
      <4>1. PICK x : x = A + (L(j - 1) + k)
        OBVIOUS
      <4>2. x = q[K + j - 1] + k /\ x \in 1 .. A + length /\ ~(x <= A) /\ x - A = L(j - 1) + k
        BY ONLY <3>2, <3>3, <4>1, A \in Nat, length \in Nat, k \in 1 .. Len(F(j)), SMTT(30)
      <4>3. wire'[x] = content[L(j - 1) + k]
        BY <1>10, <4>2
      <4>4. content[L(j - 1) + k] = F(j)[k]
        BY <1>6, <3>1
      <4> QED
        BY ONLY <4>2, <4>3, <4>4
    <3> QED
      BY <3>4, <3>5, <3>6
  <2>4. ASSUME NEW i \in 1 .. K + W
        PROVE  /\ q[i] = q[i - 1] + Len((Bytes(written[i]))')
               /\ \A k \in 1 .. Len((Bytes(written[i]))') : wire'[q[i - 1] + k] = ((Bytes(written[i]))')[k]
    <3>1. CASE i <= K
      <4>1. i \in 1 .. K /\ i \in 0 .. K /\ i - 1 \in 0 .. K
        BY <3>1
      <4>2. (Bytes(written[i]))' = Bytes(written[i])
        BY <1>7, <1>9, <4>1 DEF Bytes, Format
      <4>3. q[i] = o[i] /\ q[i - 1] = o[i - 1]
        BY <2>2, <4>1
      <4>4. \A k \in 1 .. Len(Bytes(written[i])) : wire'[o[i - 1] + k] = Bytes(written[i])[k]
        <5> TAKE k \in 1 .. Len(Bytes(written[i]))
        <5>1. o[i - 1] + k \in 1 .. A
          BY <1>17, <4>1
        <5>2. o[i - 1] + k \in 1 .. A + length /\ o[i - 1] + k <= A
          BY ONLY <5>1, A \in Nat, length \in Nat
        <5>3. wire'[o[i - 1] + k] = wire[o[i - 1] + k]
          BY <1>10, <5>2
        <5> QED
          BY <1>13, <4>1, <5>3
      <4>5. o[i] = o[i - 1] + Len(Bytes(written[i]))
        BY <1>13, <4>1
      <4> QED
        BY ONLY <4>2, <4>3, <4>4, <4>5
    <3>2. CASE ~(i <= K)
      <4>1. i - K \in 1 .. W /\ K + (i - K) = i
        BY <1>2, <3>2
      <4>2. PICK j \in 1 .. W : K + j = i
        BY <4>1
      <4>3. K + j = i /\ K + j - 1 = i - 1 /\ (Bytes(written[i]))' = F(j)
        <5>1. K + j - 1 = i - 1
          BY ONLY <4>2, K \in Nat, j \in 1 .. W
        <5>2. (Bytes(written[K + j]))' = F(j)
          BY <2>3
        <5> QED
          BY <4>2, <5>1, <5>2
      <4>4. /\ q[K + j] = q[K + j - 1] + Len(F(j))
            /\ \A k \in 1 .. Len(F(j)) : wire'[q[K + j - 1] + k] = F(j)[k]
        BY <2>3
      <4> QED
        BY ONLY <4>3, <4>4
    <3> QED
      BY <3>1, <3>2
  <2>5. Offsets(q)'
    <3>1. Len(written') = K + W
      BY <1>9
    <3> QED
      BY ONLY <2>2, <2>4, <3>1, Zenon DEF Offsets
  <2>6. q[K + W] = A + L(W) /\ L(W) \in Nat /\ L(W) <= length
    <3>1. W \in 0 .. W
      BY <1>2
    <3>2. CASE W = 0
      BY <1>3, <2>2, <3>1, <3>2
    <3>3. CASE W # 0
      <4>1. W \in 1 .. N /\ W <= W
        BY <1>2, <3>3
      <4> QED
        BY <1>5, <2>2, <3>1, <4>1
    <3> QED
      BY <3>2, <3>3
  <2>7. ASSUME L(W) = length PROVE Rest(q)'
    <3>1. Len(written') = K + W /\ arrived' = q[K + W] /\ arrived' \in Nat
      BY <1>7, <1>9, <1>10, <2>6, <2>7
    <3>2. Rest(q)'
      BY ONLY <3>1 DEF Rest
    <3> QED
      BY <3>2
  <2>8. ASSUME L(W) # length PROVE Rest(q)'
    <3>1. W < N /\ length < L(N)
      <4>1. L(N) \in Nat /\ length <= L(N)
        BY <1>1, <1>3 DEF L
      <4>2. CASE W = N
        BY ONLY <2>6, <2>8, <4>1, <4>2, length \in Nat
      <4>3. CASE W # N
        <5>1. W < N /\ N \in 1 .. N /\ ~(N <= W)
          BY <1>2, <4>3
        <5>2. ~(L(N) <= length)
          BY <1>5, <5>1
        <5> QED
          BY ONLY <4>1, <5>1, <5>2, length \in Nat
      <4> QED
        BY <4>2, <4>3
    <3>2. W + 1 \in 1 .. N /\ (W + 1) - 1 = W /\ ~(W + 1 <= W)
      BY <1>2, <3>1
    <3>3. ~(L(W + 1) <= length) /\ L(W + 1) = L(W) + Len(F(W + 1)) /\ Len(F(W + 1)) \in Nat
      BY <1>3, <1>4, <1>5, <3>2
    <3>4. dead'
      BY <1>1, <1>15, <2>1, <3>1 DEF L
    <3>5. ASSUME NEW k \in 1 .. length - L(W) PROVE wire'[q[K + W] + k] = F(W + 1)[k]
      <4>1. PICK x : x = A + (L(W) + k)
        OBVIOUS
      <4>2. x = q[K + W] + k /\ x \in 1 .. A + length /\ ~(x <= A) /\ x - A = L(W) + k /\ k \in 1 .. Len(F(W + 1))
        BY ONLY <2>6, <3>3, <4>1, A \in Nat, length \in Nat, k \in 1 .. length - L(W), SMTT(30)
      <4>3. wire'[x] = content[L(W) + k]
        BY <1>10, <4>2
      <4>4. content[L(W) + k] = F(W + 1)[k]
        BY <1>6, <3>2, <4>2
      <4> QED
        BY ONLY <4>2, <4>3, <4>4
    <3>6. PICK m \in Messages : m = messages[W + 1]
      BY <1>1, <3>2
    <3>7. Bytes(m)' = F(W + 1)
      BY <1>12, <3>6 DEF F
    <3>8. q[K + W] <= A + length /\ (A + length) - q[K + W] = length - L(W) /\ length - L(W) < Len(F(W + 1))
      BY ONLY <2>6, <3>3, A \in Nat, length \in Nat
    <3>9. Len(written') = K + W /\ arrived' = A + length
      BY <1>7, <1>9
    <3>10. Rest(q)'
      BY <3>4, <3>5, <3>7, <3>8, <3>9 DEF Rest
    <3> QED
      BY <3>10
  <2>9. \E r : Offsets(r)' /\ Rest(r)' /\ \A i \in 0 .. Len(written) : r[i] = o[i]
    <3>1. Offsets(q)' /\ Rest(q)'
      BY <2>5, <2>7, <2>8
    <3> QED
      BY <1>1, <2>2, <3>1
  <2>10. Len(written') >= Len(written)
    BY <1>1, <1>2, <1>9
  <2> QED
    BY ONLY <1>1, <1>9, <1>11, <2>9, <2>10
<1> QED
  BY <1>14, <1>15

-----------------------------------------------------------------------------
(* What the reader makes of it *)

\* Where the reader may panic.
InLength == \/ mode.kind = "binary" /\ end - begin < mode.param
            \/ mode.kind = "text" /\ size - begin < mode.param + 2 + Len(mode.delimiter)

\* The frame of m, if it has been read, or none.
FrameOf(m) ==
  IF Len(Bytes(m)) <= end - begin
    THEN /\ frame \in Frame /\ frame.start + frame.len + frame.pad = Len(Bytes(m)) /\ frame.len = Len(Shown(m))
         /\ \A k \in 1 .. frame.len : data[begin + frame.start + k] = Shown(m)[k]
         /\ Len(received) < Len(written) /\ m = written[Len(received) + 1]
    ELSE frame = NoFrame \/ (frame = OutOfRange /\ InLength)

\* What is in the buffer, as sequences.
LEMMA WindowAt ==
  ASSUME DataTypes, BufferInv
  PROVE  LET text   == SubSeq(data, begin + 1, end)
             behind == SubSeq(data, end + 1, size)
         IN /\ text \in Seq(Nat) /\ behind \in Seq(Nat) /\ Len(text) = end - begin /\ Len(behind) = size - end
            /\ \A k \in 1 .. end - begin : text[k] = data[begin + k] /\ data[begin + k] = wire[read - (end - begin) + k]
<1>1. /\ begin \in Nat /\ end \in Nat /\ size \in Nat /\ begin <= end /\ end <= size
      /\ \A i \in 1 .. size : data[i] \in Nat
      /\ \A k \in 1 .. end - begin : data[begin + k] = wire[read - (end - begin) + k]
  BY DEF BufferInv, BufferTypes, ThereIsRoom, WindowIsStream, DataTypes
<1>2. PICK b \in Nat, e \in Nat, z \in Nat, D \in {data} :
        b = begin /\ e = end /\ z = size /\ D = data /\ b <= e /\ e <= z /\ \A i \in 1 .. z : D[i] \in Nat
  BY <1>1
<1>3. PICK x \in Int, y \in Int : x = b + 1 /\ y = e + 1
  OBVIOUS
<1>4. /\ SubSeq(D, x, e) \in Seq(Nat) /\ Len(SubSeq(D, x, e)) = (IF x <= e THEN e - x + 1 ELSE 0)
      /\ \A i \in 1 .. e - x + 1 : SubSeq(D, x, e)[i] = D[x + i - 1]
  <2>1. \A i \in x .. e : D[i] \in Nat
    BY <1>2, <1>3
  <2>2. e \in Int
    OBVIOUS
  <2> QED
    BY ONLY <2>1, <2>2, x \in Int, SubSeqProperties, SMT
<1>5. /\ SubSeq(D, y, z) \in Seq(Nat) /\ Len(SubSeq(D, y, z)) = (IF y <= z THEN z - y + 1 ELSE 0)
  <2>1. \A i \in y .. z : D[i] \in Nat
    BY <1>2, <1>3
  <2>2. z \in Int
    OBVIOUS
  <2> QED
    BY ONLY <2>1, <2>2, y \in Int, SubSeqProperties, SMT
<1>6. Len(SubSeq(D, x, e)) = e - b /\ Len(SubSeq(D, y, z)) = z - e
  BY ONLY <1>2, <1>3, <1>4, <1>5, b \in Nat, e \in Nat, z \in Nat
<1>7. ASSUME NEW k \in 1 .. e - b PROVE SubSeq(D, x, e)[k] = D[b + k]
  <2>1. k \in 1 .. e - x + 1 /\ x + k - 1 = b + k
    BY <1>2, <1>3
  <2> QED
    BY ONLY <1>4, <2>1
<1> QED
  BY <1>1, <1>2, <1>3, <1>4, <1>5, <1>6, <1>7

\* What the reader looks at is the start of the next message, and none that is not whole on the
\* wire is read as a whole.
LEMMA NextMessage ==
  ASSUME mode \in Modes, written \in Seq(Messages), BufferInv, WireLayout, begin < end
  PROVE  \E m \in Messages :
           /\ Begins(SubSeq(data, begin + 1, end), Bytes(m))
           /\ Len(Bytes(m)) <= end - begin => Len(received) < Len(written)
           /\ Len(received) < Len(written) => m = written[Len(received) + 1]
<1>1. PICK o : Offsets(o) /\ Rest(o) /\ Position(o)
  BY DEF WireLayout
<1>2. PICK K, R, A, n, p : K = Len(written) /\ R = Len(received) /\ A = arrived /\ n = end - begin /\ p = o[R]
  OBVIOUS
<1>3. K \in Nat /\ R \in 0 .. K /\ A \in Nat /\ n \in Nat \ {0} /\ p + n = read /\ read \in Nat /\ read <= A /\ p \in Nat
  <2>1. K \in Nat /\ R \in 0 .. K
    BY <1>1, <1>2, LenProperties DEF Position
  <2>2. begin \in Nat /\ end \in Nat /\ read \in Nat /\ read <= A /\ A \in Nat
    BY <1>2 DEF BufferInv, BufferTypes, WindowIsStream
  <2>3. p \in Nat /\ read - n = p
    BY <1>1, <1>2, <2>1 DEF Position, Offsets
  <2>4. n \in Nat \ {0}
    BY ONLY <1>2, <2>2, begin < end
  <2> QED
    BY ONLY <2>1, <2>2, <2>3, <2>4
<1> DEFINE text == SubSeq(data, begin + 1, end)
<1>4. Len(text) = n /\ \A k \in 1 .. n : text[k] = wire[p + k]
  <2>1. Len(text) = end - begin /\ \A k \in 1 .. end - begin : text[k] = wire[read - (end - begin) + k]
    BY WindowAt DEF WireLayout
  <2> HIDE DEF text
  <2>2. read - n = p
    BY ONLY <1>3
  <2> QED
    BY ONLY <1>2, <2>1, <2>2
<1> HIDE DEF text
<1>5. CASE R < K
  <2>1. R + 1 \in 1 .. K /\ (R + 1) - 1 = R
    BY ONLY <1>3, <1>5
  <2>2. PICK m \in Messages : m = written[R + 1]
    BY <1>2, <2>1
  <2>3. \A k \in 1 .. Len(Bytes(m)) : wire[p + k] = Bytes(m)[k]
    BY <1>1, <1>2, <2>1, <2>2 DEF Offsets
  <2>4. Len(Bytes(m)) \in Nat
    BY BytesTypes
  <2>5. \A k \in 1 .. Len(Bytes(m)) : k <= n => k \in 1 .. n
    BY ONLY <1>3, <2>4
  <2>6. Begins(text, Bytes(m))
    BY <1>4, <2>3, <2>5 DEF Begins
  <2> QED
    BY <1>2, <1>5, <2>2, <2>6 DEF text
<1>6. CASE ~(R < K)
  <2>1. R = K /\ p < A /\ n <= A - p
    BY ONLY <1>3, <1>6
  <2>2. PICK m \in Messages : A - p < Len(Bytes(m)) /\ \A k \in 1 .. A - p : wire[p + k] = Bytes(m)[k]
    <3>1. p # A
      BY ONLY <1>3, <2>1
    <3> QED
      BY <1>1, <1>2, <2>1, <3>1 DEF Rest
  <2>3. Len(Bytes(m)) \in Nat
    BY BytesTypes
  <2>4. \A k \in 1 .. Len(Bytes(m)) : k <= n => k \in 1 .. n /\ k \in 1 .. A - p
    BY ONLY <1>3, <2>1, <2>3
  <2>5. Begins(text, Bytes(m))
    BY <1>4, <2>2, <2>4 DEF Begins
  <2>6. ~(Len(Bytes(m)) <= n)
    BY ONLY <1>3, <2>1, <2>2, <2>3
  <2> QED
    BY <1>2, <1>6, <2>5, <2>6 DEF text
<1> QED
  BY <1>5, <1>6

\* So the frame is that of the next message, or there is none.
LEMMA ThisFrame ==
  ASSUME mode \in Modes, written \in Seq(Messages), BufferInv, WireLayout, begin < end
  PROVE  \E m \in Messages : FrameOf(m) /\ (Len(received) < Len(written) => m = written[Len(received) + 1])
<1> DEFINE text == SubSeq(data, begin + 1, end)
           behind == SubSeq(data, end + 1, size)
<1>1. PICK m \in Messages :
        /\ Begins(text, Bytes(m))
        /\ Len(Bytes(m)) <= end - begin => Len(received) < Len(written)
        /\ Len(received) < Len(written) => m = written[Len(received) + 1]
  BY NextMessage
<1>2. /\ text \in Seq(Nat) /\ behind \in Seq(Nat) /\ Len(text) = end - begin /\ Len(behind) = size - end
      /\ \A k \in 1 .. end - begin : text[k] = data[begin + k]
  BY WindowAt DEF WireLayout
<1>3. PICK p \in Payloads : p = Payload[m] /\ Format(p) = Bytes(m) /\ ShownAs(p) = Shown(m)
  BY DEF Payloads, Bytes, ShownAs, Shown
<1>4. frame = checkComplete(mode, text, behind)
  BY DEF frame
<1> HIDE DEF text, behind
<1>5. Frames(frame, text, behind, p)
  BY <1>1, <1>2, <1>3, <1>4, FirstFrame
<1>6. Bytes(m) \in Seq(Nat) /\ Len(Bytes(m)) \in Nat /\ begin \in Nat /\ end \in Nat /\ size \in Nat
  BY BytesTypes DEF BufferInv, BufferTypes
<1>7. CASE Len(Bytes(m)) <= end - begin
  <2>1. /\ frame \in Frame /\ frame.start + frame.len + frame.pad = Len(Bytes(m)) /\ frame.len = Len(Shown(m))
        /\ \A k \in 1 .. frame.len : Bytes(m)[frame.start + k] = Shown(m)[k]
    BY <1>2, <1>3, <1>5, <1>7 DEF Frames
  <2>2. PICK fr : fr = frame
    OBVIOUS
  <2>3. fr.start \in Nat /\ fr.len \in Nat /\ fr.pad \in Nat
    BY <2>1, <2>2 DEF Frame
  <2>4. ASSUME NEW k \in 1 .. fr.len PROVE data[begin + fr.start + k] = Bytes(m)[fr.start + k]
    <3>1. PICK x : x = fr.start + k
      OBVIOUS
    <3>2. x \in 1 .. Len(Bytes(m)) /\ x \in 1 .. end - begin /\ begin + fr.start + k = begin + x
      <4>1. fr.start + fr.len + fr.pad = Len(Bytes(m))
        BY <2>1, <2>2
      <4>2. PICK s \in Nat, l \in Nat, d \in Nat, N \in Nat, b \in Nat, w \in Int :
              s = fr.start /\ l = fr.len /\ d = fr.pad /\ N = Len(Bytes(m)) /\ b = begin /\ w = end - begin
        BY <1>6, <2>3
      <4>3. s + l + d = N /\ N <= w /\ k \in 1 .. l /\ x = s + k
        BY <1>7, <3>1, <4>1, <4>2
      <4>4. x \in 1 .. N /\ x \in 1 .. w /\ b + s + k = b + x
        BY ONLY <4>3, s \in Nat, l \in Nat, d \in Nat, N \in Nat, b \in Nat, w \in Int
      <4> QED
        BY ONLY <4>2, <4>4
    <3>3. text[x] = Bytes(m)[x]
      BY <1>1, <1>2, <3>2 DEF Begins
    <3> QED
      BY <1>2, <3>1, <3>2, <3>3
  <2> QED
    BY <1>1, <1>7, <2>1, <2>2, <2>4 DEF FrameOf
<1>8. CASE ~(Len(Bytes(m)) <= end - begin)
  <2>1. frame = NoFrame \/ (frame = OutOfRange /\ AtLength(text, behind))
    BY <1>2, <1>3, <1>5, <1>8 DEF Frames
  <2>2. AtLength(text, behind) => InLength
    <3>1. Len(text) + Len(behind) = size - begin
      BY ONLY <1>2, <1>6
    <3> QED
      BY <1>2, <3>1 DEF AtLength, InLength
  <2> QED
    BY <1>1, <1>8, <2>1, <2>2 DEF FrameOf
<1> QED
  BY <1>1, <1>7, <1>8

\* What the callback has been given: the messages that were written, in order, and none is empty.
Taken ==
  /\ received \in Seq([data : Seq(Nat), sequence : Nat])
  /\ sequence = Len(received)
  /\ \A i \in 1 .. Len(received) : /\ received[i].sequence = i - 1 /\ received[i].data # <<>>
                                   /\ received[i].data = Shown(written[i])

\* The inductive invariant, from what reaches the wire to what comes out of the reader.
StreamInv == WireLayout /\ Taken /\ (panicked => InLength) /\ GrowsForLongMessages

\* What the reader leaves alone.
LEMMA LayoutStays ==
  ASSUME UNCHANGED <<mode, wire, arrived, written, dead>>, NEW o, Offsets(o), Rest(o)
  PROVE  Offsets(o)' /\ Rest(o)'
<1>1. \A m : Bytes(m)' = Bytes(m)
  BY DEF Bytes, Format
<1>2. \A i : (Bytes(written[i]))' = Bytes(written[i])
  BY DEF Bytes, Format
<1> QED
  BY <1>1, <1>2 DEF Offsets, Rest

\* And what the writer does.
LEMMA TakenStays ==
  ASSUME Taken, UNCHANGED <<mode, received, sequence>>, Len(received) \in 0 .. Len(written),
         \A i \in 1 .. Len(written) : written'[i] = written[i], Len(written) \in Nat
  PROVE  Taken'
<1>1. \A i \in 1 .. Len(received) : (Shown(written[i]))' = Shown(written[i])
  <2> TAKE i \in 1 .. Len(received)
  <2>1. written'[i] = written[i]
    OBVIOUS
  <2> QED
    BY <2>1 DEF Shown, Format
<1> QED
  BY <1>1 DEF Taken

\* The bytes in the buffer are bytes.
LEMMA DataStays ==
  ASSUME BufferInv, WireTypes, DataTypes, ReadOne, GrowSize \in Nat
  PROVE  DataTypes'
<1>0. /\ begin \in Nat /\ end \in Nat /\ size \in Nat /\ read \in Nat /\ arrived \in Nat /\ begin <= end /\ end <= size
      /\ (\A i \in 1 .. size : data[i] \in Nat) /\ \A i \in 1 .. arrived : wire[i] \in Nat
  BY DEF BufferInv, BufferTypes, ThereIsRoom, WireTypes, DataTypes
<1>1. ASSUME NEW n \in 1 .. size, Read(n) PROVE DataTypes'
  <2>1. /\ n \in 1 .. size - end /\ read + n <= arrived /\ size' = size
        /\ data' = [i \in 1 .. size |-> IF end < i /\ i <= end + n THEN wire[read + i - end] ELSE data[i]]
    BY <1>1 DEF Read
  <2>2. ASSUME NEW i \in 1 .. size PROVE data'[i] \in Nat
    <3>1. CASE end < i /\ i <= end + n
      <4>1. read + i - end \in 1 .. arrived
        BY ONLY <1>0, <2>1, <3>1, i \in 1 .. size
      <4> QED
        BY <1>0, <2>1, <3>1, <4>1
    <3>2. CASE ~(end < i /\ i <= end + n)
      BY <1>0, <2>1, <3>2
    <3> QED
      BY <3>1, <3>2
  <2> QED
    BY <2>1, <2>2 DEF DataTypes
<1>2. CASE Deliver \/ Wait \/ Panic
  BY <1>2 DEF Deliver, Wait, Panic, DataTypes
<1>3. CASE Compact
  <2>1. /\ size' = size
        /\ data' = [i \in 1 .. size |-> IF i <= end - begin THEN data[begin + i] ELSE data[i]]
    BY <1>3 DEF Compact
  <2>2. ASSUME NEW i \in 1 .. size PROVE data'[i] \in Nat
    <3>1. CASE i <= end - begin
      <4>1. begin + i \in 1 .. size
        BY ONLY <1>0, <3>1, i \in 1 .. size
      <4> QED
        BY <1>0, <2>1, <3>1, <4>1
    <3>2. CASE ~(i <= end - begin)
      BY <1>0, <2>1, <3>2
    <3> QED
      BY <3>1, <3>2
  <2> QED
    BY <2>1, <2>2 DEF DataTypes
<1>4. CASE Grow
  <2>1. /\ size' = size + GrowSize
        /\ data' = [i \in 1 .. size + GrowSize |-> IF i <= size THEN data[i] ELSE 0]
    BY <1>4 DEF Grow
  <2>2. \A i \in 1 .. size + GrowSize : i <= size => i \in 1 .. size
    BY <1>0
  <2>3. \A i \in 1 .. size + GrowSize : data'[i] \in Nat
    BY <1>0, <2>1, <2>2
  <2> QED
    BY <2>1, <2>3 DEF DataTypes
<1> QED
  BY <1>1, <1>2, <1>3, <1>4 DEF ReadOne

\* A message that has been found is the next one, unchanged.
LEMMA DeliversNext ==
  ASSUME mode \in Modes, written \in Seq(Messages), BufferInv, WireLayout, ~incomplete, Complete
  PROVE  \E m \in Messages :
           /\ Len(received) < Len(written) /\ m = written[Len(received) + 1]
           /\ nextBegin = begin + Len(Bytes(m)) /\ Shown(m) # <<>> /\ Shown(m) \in Seq(Nat)
           /\ SubSeq(data, begin + frame.start + 1, begin + frame.start + frame.len) = Shown(m)
<1>0. begin \in Nat /\ end \in Nat /\ size \in Nat /\ begin < end /\ end <= size
  BY DEF BufferInv, BufferTypes, ThereIsRoom
<1>1. PICK m \in Messages : FrameOf(m)
  BY <1>0, ThisFrame
<1>2. Bytes(m) \in Seq(Nat) /\ Len(Bytes(m)) \in Nat /\ Shown(m) \in Seq(Nat)
  <2>1. Bytes(m) \in Seq(Nat) /\ Len(Bytes(m)) \in Nat /\ Payload[m] \in Seq(Nat)
    BY BytesTypes, WireAssumption
  <2> QED
    BY <2>1 DEF Shown, Bytes
<1>3. frame \in Frame /\ frame.len > 0 /\ nextBegin <= end
  BY DEF Complete
<1>4. Len(Bytes(m)) <= end - begin
  <2> SUFFICES ASSUME ~(Len(Bytes(m)) <= end - begin) PROVE FALSE
    OBVIOUS
  <2>1. frame = NoFrame \/ frame = OutOfRange
    BY <1>1 DEF FrameOf
  <2> QED
    BY <1>3, <2>1 DEF NoFrame, OutOfRange, Frame
<1>5. /\ frame.start + frame.len + frame.pad = Len(Bytes(m)) /\ frame.len = Len(Shown(m))
      /\ \A k \in 1 .. frame.len : data[begin + frame.start + k] = Shown(m)[k]
      /\ Len(received) < Len(written) /\ m = written[Len(received) + 1]
  BY <1>1, <1>4 DEF FrameOf
<1>6. PICK s \in Nat, l \in Nat, d \in Nat : s = frame.start /\ l = frame.len /\ d = frame.pad
  BY <1>3 DEF Frame
<1>7. PICK a \in Nat, N \in Nat : a = begin + s /\ N = Len(Bytes(m)) /\ s + l + d = N /\ l = Len(Shown(m)) /\ l > 0
  <2>1. s + l + d = Len(Bytes(m)) /\ l = Len(Shown(m)) /\ l > 0
    BY <1>3, <1>5, <1>6
  <2>2. begin + s \in Nat /\ Len(Bytes(m)) \in Nat
    BY <1>0, <1>2
  <2> QED
    BY ONLY <2>1, <2>2
<1>8. nextBegin = begin + N /\ a + l <= size
  <2>1. nextBegin = begin + s + l + d
    BY <1>6 DEF nextBegin
  <2> QED
    BY ONLY <1>0, <1>4, <1>7, <2>1, s \in Nat, l \in Nat, d \in Nat, a \in Nat, N \in Nat
<1>9. PICK D \in Seq(Nat) : D = data /\ Len(D) = size
  <2>1. data \in [1 .. size -> Nat]
    BY DEF WireLayout, DataTypes
  <2>2. data \in Seq(Nat) /\ Len(data) = size
    BY ONLY <1>0, <2>1, FunctionIsSequence
  <2> QED
    BY <2>2
<1>10. SubSeq(D, a + 1, a + l) = Shown(m)
  <2>1. \A i \in 1 .. Len(Shown(m)) : D[a + i] = Shown(m)[i]
    BY <1>5, <1>6, <1>7, <1>9
  <2>2. a + Len(Shown(m)) <= Len(D)
    BY <1>7, <1>8, <1>9
  <2>3. SubSeq(D, a + 1, a + Len(Shown(m))) = Shown(m)
    BY ONLY <1>2, <2>1, <2>2, PartIs, D \in Seq(Nat), a \in Nat
  <2> QED
    BY <1>7, <2>3
<1>11. Shown(m) # <<>>
  BY <1>2, <1>7, EmptySeq
<1> QED
  BY <1>2, <1>5, <1>6, <1>7, <1>8, <1>9, <1>10, <1>11

\* A message that is delivered is the next one, and the reader goes on behind it.
LEMMA InvUnderDeliver ==
  ASSUME mode \in Modes, written \in Seq(Messages), BufferInv, StreamInv, Deliver, UNCHANGED writerVars
  PROVE  StreamInv'
<1>1. PICK o : Offsets(o) /\ Rest(o) /\ Position(o)
  BY DEF StreamInv, WireLayout
<1>2. PICK m \in Messages :
        /\ Len(received) < Len(written) /\ m = written[Len(received) + 1]
        /\ nextBegin = begin + Len(Bytes(m)) /\ Shown(m) # <<>> /\ Shown(m) \in Seq(Nat)
        /\ SubSeq(data, begin + frame.start + 1, begin + frame.start + frame.len) = Shown(m)
  BY DeliversNext DEF StreamInv, Deliver
<1>3. /\ received' = Append(received, [data |-> Shown(m), sequence |-> sequence]) /\ sequence' = sequence + 1
      /\ begin' = (IF nextBegin = end THEN 0 ELSE nextBegin) /\ end' = (IF nextBegin = end THEN 0 ELSE end)
      /\ UNCHANGED <<mode, data, size, wire, arrived, read, panicked>> /\ ~panicked
  BY <1>2 DEF Deliver, NextSequence
<1>4. UNCHANGED <<written, dead, buffer>>
  BY DEF writerVars
<1>5. Offsets(o)' /\ Rest(o)'
  BY <1>1, <1>3, <1>4, LayoutStays
<1>6. PICK R \in Nat, K \in Nat : R = Len(received) /\ K = Len(written) /\ R < K
  <2>1. Len(received) \in Nat /\ Len(written) \in Nat
    BY LenProperties DEF StreamInv, Taken
  <2> QED
    BY <1>2, <2>1
<1>7. PICK new \in [data : Seq(Nat), sequence : Nat] :
        new = [data |-> Shown(m), sequence |-> sequence] /\ new.data = Shown(m) /\ new.sequence = R
  <2>1. PICK d \in Seq(Nat), q \in Nat : d = Shown(m) /\ q = sequence /\ q = R
    <3>1. sequence = R
      BY <1>6 DEF StreamInv, Taken
    <3> QED
      BY <1>2, <3>1
  <2>2. [data |-> d, sequence |-> q] \in [data : Seq(Nat), sequence : Nat]
    OBVIOUS
  <2> QED
    BY <2>1, <2>2
<1>8. /\ received' \in Seq([data : Seq(Nat), sequence : Nat]) /\ Len(received') = R + 1
      /\ \A i \in 1 .. R : received'[i] = received[i]
      /\ received'[R + 1] = new
  <2>1. received \in Seq([data : Seq(Nat), sequence : Nat])
    BY DEF StreamInv, Taken
  <2> QED
    BY <1>3, <1>6, <1>7, <2>1, AppendProperties
<1>9. Position(o)'
  <2>1. o[R + 1] = o[R] + Len(Bytes(m)) /\ o[R] \in Nat
    <3>1. R + 1 \in 1 .. K /\ (R + 1) - 1 = R /\ R \in 0 .. K
      BY <1>6
    <3> QED
      BY <1>1, <1>2, <1>6, <3>1 DEF Offsets
  <2>2. read - (end - begin) = o[R] /\ begin \in Nat /\ end \in Nat /\ read \in Nat /\ Len(Bytes(m)) \in Nat
    BY <1>1, <1>6, BytesTypes DEF Position, BufferInv, BufferTypes
  <2>3. PICK b \in Nat, e \in Nat, r \in Nat, l \in Nat, p \in Nat :
          b = begin /\ e = end /\ r = read /\ l = Len(Bytes(m)) /\ p = o[R]
    BY <2>1, <2>2
  <2>6. nextBegin = b + l /\ read' = r /\ o[R + 1] = p + l /\ r - (e - b) = p
    BY <1>2, <1>3, <2>1, <2>2, <2>3
  <2>7. ASSUME nextBegin = end PROVE read' - (end' - begin') = o[R + 1]
    <3>1. begin' = 0 /\ end' = 0 /\ e = b + l
      BY <1>3, <2>3, <2>6, <2>7
    <3> QED
      BY ONLY <2>6, <3>1, b \in Nat, e \in Nat, r \in Nat, l \in Nat, p \in Nat
  <2>8. ASSUME nextBegin # end PROVE read' - (end' - begin') = o[R + 1]
    <3>1. begin' = b + l /\ end' = e
      BY <1>3, <2>3, <2>6, <2>8
    <3> QED
      BY ONLY <2>6, <3>1, b \in Nat, e \in Nat, r \in Nat, l \in Nat, p \in Nat
  <2>4. read' - (end' - begin') = o[R + 1]
    BY <2>7, <2>8
  <2>5. Len(received') \in 0 .. Len(written')
    BY <1>4, <1>6, <1>8
  <2> QED
    BY <1>8, <2>4, <2>5 DEF Position
<1>10. WireLayout'
  <2>1. WireTypes' /\ DataTypes'
    BY <1>3, <1>4 DEF StreamInv, WireLayout, WireTypes, DataTypes
  <2> QED
    BY <1>5, <1>9, <2>1 DEF WireLayout
<1>11. Taken'
  <2>1. \A n : Shown(n)' = Shown(n)
    BY <1>3 DEF Shown, Format
  <2>2. \A i \in 1 .. Len(received') : (Shown(written[i]))' = Shown(written[i])
    BY <1>3, <1>4 DEF Shown, Format
  <2>3. ASSUME NEW i \in 1 .. R + 1
        PROVE  /\ received'[i].sequence = i - 1 /\ received'[i].data # <<>>
               /\ received'[i].data = Shown(written[i])
    <3>1. CASE i \in 1 .. R
      BY <1>6, <1>8, <3>1 DEF StreamInv, Taken
    <3>2. CASE i = R + 1
      <4>1. received'[i] = new /\ m = written[i] /\ R = i - 1
        BY <1>2, <1>6, <1>8, <3>2
      <4> QED
        BY <1>2, <1>7, <4>1
    <3> QED
      BY <3>1, <3>2
  <2>4. sequence' = R + 1
    BY <1>3, <1>6 DEF StreamInv, Taken
  <2>5. \A i \in 1 .. Len(received') :
           /\ received'[i].sequence = i - 1 /\ received'[i].data # <<>>
           /\ received'[i].data = (Shown(written[i]))'
    BY <1>8, <2>2, <2>3
  <2> QED
    BY <1>8, <2>4, <2>5 DEF Taken
<1>12. ~panicked'
  BY <1>3
<1>13. GrowsForLongMessages'
  BY <1>3 DEF StreamInv, GrowsForLongMessages, Shown, Format
<1> QED
  BY <1>10, <1>11, <1>12, <1>13 DEF StreamInv

\* The steps that deliver nothing leave the reader where it is on the wire.
LEMMA InvWhileNothingComes ==
  ASSUME StreamInv, UNCHANGED <<mode, wire, arrived, written, dead, buffer, received, sequence>>,
         DataTypes', read' - (end' - begin') = read - (end - begin)
  PROVE  WireLayout' /\ Taken'
<1>1. PICK o : Offsets(o) /\ Rest(o) /\ Position(o)
  BY DEF StreamInv, WireLayout
<1>2. Offsets(o)' /\ Rest(o)'
  BY <1>1, LayoutStays
<1>3. Position(o)'
  BY <1>1 DEF Position
<1>4. WireTypes'
  BY DEF StreamInv, WireLayout, WireTypes
<1>5. \A i : (Shown(written[i]))' = Shown(written[i])
  BY DEF Shown, Format
<1>6. Taken'
  BY <1>5 DEF StreamInv, Taken
<1> QED
  BY <1>2, <1>3, <1>4, <1>6 DEF WireLayout

\* The buffer grows only for a message that is longer than it.
LEMMA InvUnderGrow ==
  ASSUME mode \in Modes, written \in Seq(Messages), BufferInv, StreamInv, Grow, GrowSize \in Nat \ {0}
  PROVE  GrowsForLongMessages'
<1>1. /\ ~incomplete /\ frame \in Frame /\ ~Complete /\ end = size /\ begin = 0
      /\ size' = size + GrowSize /\ mode' = mode
  BY DEF Grow, Missing, MustGrow
<1>2. begin < end /\ size \in Nat /\ end \in Nat
  BY <1>1 DEF BufferInv, BufferTypes, ThereIsRoom
<1>3. PICK m \in Messages : FrameOf(m)
  BY <1>2, ThisFrame DEF StreamInv
<1>4. Bytes(m) \in Seq(Nat) /\ Len(Bytes(m)) \in Nat /\ Shown(m) \in Seq(Nat)
  <2>1. Bytes(m) \in Seq(Nat) /\ Len(Bytes(m)) \in Nat /\ Payload[m] \in Seq(Nat)
    BY BytesTypes, WireAssumption
  <2> QED
    BY <2>1 DEF Shown, Bytes
<1>5. ASSUME Shown(m) # <<>> PROVE Len(Bytes(m)) > size
  <2> SUFFICES ASSUME Len(Bytes(m)) <= end - begin PROVE FALSE
    BY <1>1, <1>2, <1>4
  <2>1. /\ frame.start + frame.len + frame.pad = Len(Bytes(m)) /\ frame.len = Len(Shown(m))
    BY <1>3 DEF FrameOf
  <2>2. frame.len > 0
    <3>1. Len(Shown(m)) \in Nat /\ Len(Shown(m)) # 0
      BY <1>4, <1>5, EmptySeq
    <3> QED
      BY ONLY <2>1, <3>1
  <2>3. nextBegin <= end
    <3>1. PICK s \in Nat, l \in Nat, d \in Nat, N \in Nat :
            s = frame.start /\ l = frame.len /\ d = frame.pad /\ N = Len(Bytes(m)) /\ s + l + d = N
      <4>1. frame.start \in Nat /\ frame.len \in Nat /\ frame.pad \in Nat
        BY <1>1 DEF Frame
      <4> QED
        BY <1>4, <2>1, <4>1
    <3>2. nextBegin = 0 + s + l + d /\ N <= end
      BY <1>1, <1>2, <3>1 DEF nextBegin
    <3> QED
      BY ONLY <3>1, <3>2, <1>2, s \in Nat, l \in Nat, d \in Nat, N \in Nat
  <2> QED
    BY <1>1, <2>2, <2>3 DEF Complete
<1>6. \A k : Shown(k)' = Shown(k) /\ Bytes(k)' = Bytes(k)
  BY <1>1 DEF Shown, Bytes, Format
<1>7. ASSUME \A k \in Messages : Shown(k)' # <<>> PROVE size' < Len(Bytes(m)') + GrowSize
  <2>1. Shown(m) # <<>> /\ Bytes(m)' = Bytes(m)
    BY <1>6, <1>7
  <2>2. Len(Bytes(m)) > size
    BY <1>5, <2>1
  <2> QED
    BY ONLY <1>1, <1>2, <1>4, <2>1, <2>2, GrowSize \in Nat \ {0}
<1>8. GrowsForLongMessages' = ((\A k \in Messages : Shown(k)' # <<>>) =>
                                 \E n \in {Len(Bytes(k)') : k \in Messages} : size' < n + GrowSize)
  BY DEF GrowsForLongMessages, Bytes
<1> QED
  BY <1>7, <1>8

\* However a call of ReadOne goes on.
LEMMA InvUnderReadOne ==
  ASSUME mode \in Modes, written \in Seq(Messages), BufferInv, StreamInv, ReadOne, UNCHANGED writerVars,
         GrowSize \in Nat \ {0}
  PROVE  StreamInv'
<1>0. /\ begin \in Nat /\ end \in Nat /\ size \in Nat /\ read \in Nat /\ begin <= end
      /\ UNCHANGED <<written, dead, buffer>>
  BY DEF BufferInv, BufferTypes, ThereIsRoom, writerVars
<1>1. DataTypes'
  BY DataStays DEF StreamInv, WireLayout
<1>2. CASE Deliver
  BY <1>2, InvUnderDeliver
<1>3. ASSUME NEW n \in 1 .. size, Read(n) PROVE StreamInv'
  <2>1. /\ UNCHANGED <<mode, size, begin, sequence, wire, arrived, received, panicked>> /\ ~panicked
        /\ end' = end + n /\ read' = read + n
    BY <1>3 DEF Read
  <2>2. read' - (end' - begin') = read - (end - begin)
    BY ONLY <1>0, <2>1, n \in 1 .. size
  <2>3. WireLayout' /\ Taken'
    BY <1>0, <1>1, <2>1, <2>2, InvWhileNothingComes
  <2>4. GrowsForLongMessages'
    BY <2>1 DEF StreamInv, GrowsForLongMessages, Shown, Format
  <2> QED
    BY <2>1, <2>3, <2>4 DEF StreamInv
<1>4. CASE Wait
  <2>1. /\ UNCHANGED <<mode, size, begin, end, sequence, wire, arrived, read, received, panicked>> /\ ~panicked
    BY <1>4 DEF Wait, Missing
  <2>2. read' - (end' - begin') = read - (end - begin)
    BY <2>1
  <2>3. WireLayout' /\ Taken'
    BY <1>0, <1>1, <2>1, <2>2, InvWhileNothingComes
  <2>4. GrowsForLongMessages'
    BY <2>1 DEF StreamInv, GrowsForLongMessages, Shown, Format
  <2> QED
    BY <2>1, <2>3, <2>4 DEF StreamInv
<1>5. CASE Compact
  <2>1. /\ UNCHANGED <<mode, size, sequence, wire, arrived, read, received, panicked>> /\ ~panicked
        /\ begin' = 0 /\ end' = end - begin
    BY <1>5 DEF Compact, CompactedEnd, Missing
  <2>2. read' - (end' - begin') = read - (end - begin)
    BY ONLY <1>0, <2>1
  <2>3. WireLayout' /\ Taken'
    BY <1>0, <1>1, <2>1, <2>2, InvWhileNothingComes
  <2>4. GrowsForLongMessages'
    BY <2>1 DEF StreamInv, GrowsForLongMessages, Shown, Format
  <2> QED
    BY <2>1, <2>3, <2>4 DEF StreamInv
<1>6. CASE Grow
  <2>1. /\ UNCHANGED <<mode, begin, end, sequence, wire, arrived, read, received, panicked>> /\ ~panicked
    BY <1>6 DEF Grow, Missing
  <2>2. read' - (end' - begin') = read - (end - begin)
    BY <2>1
  <2>3. WireLayout' /\ Taken'
    BY <1>0, <1>1, <2>1, <2>2, InvWhileNothingComes
  <2>4. GrowsForLongMessages'
    BY <1>6, InvUnderGrow
  <2> QED
    BY <2>1, <2>3, <2>4 DEF StreamInv
<1>7. CASE Panic
  <2>1. /\ UNCHANGED <<mode, size, begin, end, sequence, wire, arrived, read, received>>
        /\ ~incomplete /\ frame \notin Frame
    BY <1>7 DEF Panic
  <2>2. read' - (end' - begin') = read - (end - begin)
    BY <2>1
  <2>3. WireLayout' /\ Taken'
    BY <1>0, <1>1, <2>1, <2>2, InvWhileNothingComes
  <2>4. GrowsForLongMessages'
    BY <2>1 DEF StreamInv, GrowsForLongMessages, Shown, Format
  <2>5. PICK m \in Messages : FrameOf(m)
    <3>1. begin < end
      BY <2>1 DEF BufferInv, ThereIsRoom
    <3> QED
      BY <3>1, ThisFrame DEF StreamInv
  <2>6. InLength
    BY <2>1, <2>5 DEF FrameOf, NoFrame, Frame
  <2>7. InLength'
    BY <2>1, <2>6 DEF InLength
  <2> QED
    BY <2>3, <2>4, <2>7 DEF StreamInv
<1> QED
  BY <1>2, <1>3, <1>4, <1>5, <1>6, <1>7 DEF ReadOne

\* What a writer leaves alone of the reader, and that it only adds to what is written.
WriterAdds(o) ==
  /\ UNCHANGED <<mode, data, size, begin, end, sequence, read, received, panicked>>
  /\ WireTypes' /\ \E q : Offsets(q)' /\ Rest(q)' /\ \A i \in 0 .. Len(written) : q[i] = o[i]
  /\ Len(written') >= Len(written) /\ \A i \in 1 .. Len(written) : written'[i] = written[i]
  /\ Len(written') \in Nat

\* That holds of each of its steps.
LEMMA WriterKeepsLayout ==
  ASSUME mode \in Modes, written \in Seq(Messages), WriterInv, StreamInv, WriterNext, NEW o, Offsets(o), Rest(o)
  PROVE  WriterAdds(o)
<1> DEFINE Reader == <<mode, data, size, begin, end, sequence, read, received, panicked>>
<1>1. UNCHANGED Reader
  <2>1. CASE StartWrite \/ NoWriter \/ SetWriter
    BY <2>1 DEF StartWrite, NoWriter, SetWriter, readerVars
  <2>2. ASSUME NEW length \in 0 .. LongestWrite, NEW choice \in BOOLEAN,
               Write(length, choice) \/ WriteFails(length, choice)
        PROVE  UNCHANGED Reader
    BY <2>2 DEF Write, WriteFails, Transmit
  <2> QED
    BY <2>1, <2>2 DEF WriterNext
<1>2. Offsets(o) /\ Rest(o)
  OBVIOUS
<1> DEFINE Layout == /\ WireTypes' /\ \E q : Offsets(q)' /\ Rest(q)' /\ \A i \in 0 .. Len(written) : q[i] = o[i]
                     /\ Len(written') >= Len(written) /\ \A i \in 1 .. Len(written) : written'[i] = written[i]
                     /\ Len(written') \in Nat
<1>3. Layout
  <2>1. ASSUME UNCHANGED <<wire, arrived, written, dead, buffer>> PROVE Layout
    <3>1. Offsets(o)' /\ Rest(o)'
      BY <1>1, <1>2, <2>1, LayoutStays
    <3>2. WireTypes'
      BY <2>1 DEF StreamInv, WireLayout, WireTypes
    <3>3. Len(written) \in Nat
      OBVIOUS
    <3> QED
      BY <2>1, <3>1, <3>2, <3>3
  <2>2. ASSUME NEW length \in 0 .. LongestWrite, NEW choice \in BOOLEAN,
               Write(length, choice) \/ WriteFails(length, choice)
        PROVE  Layout
    <3>1. PICK messages \in Seq(Messages) : messages = Head(batches)
      BY <2>2, FirstBatch DEF Write, WriteFails
    <3> DEFINE all == Filled(messages)[Len(messages)].length
    <3>2. /\ Transmit(Filled(messages), messages, length) /\ length <= all
          /\ dead => length = 0 /\ dead'
          /\ length < all /\ length > 0 => dead'
          /\ dead' \in BOOLEAN
      <4>1. all \in Nat /\ length \in Nat
        <5>1. Len(messages) \in 0 .. Len(messages)
          OBVIOUS
        <5> QED
          BY <5>1, FilledGrows
      <4>2. CASE Write(length, choice)
        <5>1. Transmit(Filled(messages), messages, length) /\ length = all /\ ~dead /\ dead' = dead
          BY <3>1, <4>2 DEF Write
        <5>2. dead \in BOOLEAN /\ length <= all /\ ~(length < all)
          BY ONLY <4>1, <5>1, StreamInv DEF StreamInv, WireLayout, WireTypes
        <5> QED
          BY ONLY <5>1, <5>2
      <4>3. CASE WriteFails(length, choice)
        <5>1. /\ Transmit(Filled(messages), messages, length) /\ length < all
              /\ dead => length = 0
              /\ dead \/ length > 0 => choice
              /\ dead' = choice
          BY <3>1, <4>3 DEF WriteFails
        <5>2. length <= all
          BY ONLY <4>1, <5>1
        <5> QED
          BY <5>1, <5>2
      <4> QED
        BY <2>2, <4>2, <4>3
    <3>3. length \in Nat
      OBVIOUS
    <3>4. /\ WireTypes' /\ \E q : Offsets(q)' /\ Rest(q)' /\ \A i \in 0 .. Len(written) : q[i] = o[i]
          /\ Len(written') >= Len(written) /\ \A i \in 1 .. Len(written) : written'[i] = written[i]
      BY <1>2, <3>2, <3>3, TransmitKeepsLayout DEF StreamInv, WireLayout
    <3>5. written' \in Seq(Messages)
      BY <3>2, <3>3, Transmitted
    <3> QED
      BY <3>4, <3>5
  <2>3. CASE StartWrite \/ NoWriter \/ SetWriter
    BY <2>1, <2>3 DEF StartWrite, NoWriter, SetWriter, readerVars
  <2> QED
    BY <2>2, <2>3 DEF WriterNext
<1> QED
  BY <1>1, <1>3 DEF WriterAdds

\* Whatever becomes of a Write.
LEMMA InvUnderWrites ==
  ASSUME mode \in Modes, written \in Seq(Messages), WriterInv, StreamInv, WriterNext
  PROVE  StreamInv'
<1>1. PICK o : Offsets(o) /\ Rest(o) /\ Position(o)
  BY DEF StreamInv, WireLayout
<1>2. WriterAdds(o)
  BY <1>1, WriterKeepsLayout
<1>3. UNCHANGED <<mode, data, size, begin, end, sequence, read, received, panicked>>
  BY <1>2 DEF WriterAdds
<1>4. PICK q : Offsets(q)' /\ Rest(q)' /\ \A i \in 0 .. Len(written) : q[i] = o[i]
  BY <1>2 DEF WriterAdds
<1>5. /\ Len(received) \in 0 .. Len(written) /\ Len(written) \in Nat /\ Len(received) \in 0 .. Len(written')
      /\ read - (end - begin) = q[Len(received)]
  <2>1. Len(received) \in 0 .. Len(written) /\ read - (end - begin) = o[Len(received)]
    BY <1>1 DEF Position
  <2>2. Len(written) \in Nat /\ Len(written') \in Nat /\ Len(written') >= Len(written)
    BY <1>2 DEF WriterAdds
  <2> QED
    BY <1>4, <2>1, <2>2
<1>6. Position(q)'
  BY <1>3, <1>5 DEF Position
<1>7. WireLayout'
  <2>1. DataTypes'
    BY <1>3 DEF StreamInv, WireLayout, DataTypes
  <2> QED
    BY <1>2, <1>4, <1>6, <2>1 DEF WireLayout, WriterAdds
<1>8. Taken'
  BY <1>3, <1>2, <1>5, TakenStays DEF StreamInv, WriterAdds
<1>9. (panicked => InLength)' /\ GrowsForLongMessages'
  BY <1>3 DEF StreamInv, InLength, GrowsForLongMessages, Shown, Format
<1> QED
  BY <1>7, <1>8, <1>9 DEF StreamInv

\* At first nothing is on the wire, and the buffer has room for less than any message needs.
LEMMA StreamInvAtFirst ==
  ASSUME Init
  PROVE  StreamInv
<1>1. /\ mode \in Modes /\ wire = <<>> /\ arrived = 0 /\ read = 0 /\ begin = 0 /\ end = 0
      /\ received = <<>> /\ sequence = 0 /\ written = <<>> /\ buffer = <<>> /\ dead = FALSE /\ panicked = FALSE
      /\ size = GrowSize /\ data = [i \in 1 .. GrowSize |-> 0]
  BY DEF Init, ReaderInit
<1>2. Len(written) = 0 /\ Len(received) = 0
  BY <1>1
<1>3. DataTypes
  BY <1>1, ReaderAssumption DEF DataTypes
<1>4. WireTypes
  <2>1. wire \in Seq(Nat) /\ Len(wire) = arrived /\ buffer \in Seq(Nat)
    BY <1>1
  <2>3. arrived \in Nat /\ dead \in BOOLEAN
    BY <1>1
  <2>2. wire \in [1 .. arrived -> Nat]
    BY <2>1, LenProperties
  <2> QED
    BY ONLY <2>1, <2>2, <2>3 DEF WireTypes
<1>5. PICK o : o = [i \in 0 .. 0 |-> 0]
  OBVIOUS
<1>6. o \in [0 .. 0 -> Nat] /\ o[0] = 0 /\ 1 .. 0 = {}
  BY <1>5
<1>7. Offsets(o)
  BY <1>2, <1>6 DEF Offsets
<1>8. Rest(o) /\ Position(o)
  BY <1>1, <1>2, <1>6 DEF Rest, Position
<1>9. WireLayout
  BY <1>3, <1>4, <1>7, <1>8 DEF WireLayout
<1>10. Taken
  BY <1>1, <1>2 DEF Taken
<1>11. GrowsForLongMessages
  <2>1. PICK m \in Messages : TRUE
    BY SeparationAssumption
  <2>2. Len(Format(Payload[m])) \in Nat \ {0}
    BY <1>1, BytesTypes DEF Bytes
  <2>3. size < Len(Format(Payload[m])) + GrowSize
    BY <1>1, <2>2, ReaderAssumption
  <2> QED
    BY <2>3 DEF GrowsForLongMessages
<1> QED
  BY <1>1, <1>9, <1>10, <1>11 DEF StreamInv

\* What the reader keeps, whatever the writer sends.
LEMMA StreamInvariant == Spec => []StreamInv
<1>1. Init => StreamInv
  BY StreamInvAtFirst
<1>2. BufferInv /\ WriterInv /\ StreamInv /\ [Next]_vars => StreamInv'
  <2> SUFFICES ASSUME BufferInv, WriterInv, StreamInv, [Next]_vars
               PROVE  StreamInv'
    OBVIOUS
  <2>1. mode \in Modes /\ written \in Seq(Messages)
    BY DEF WriterInv, WriterTypes
  <2>2. CASE WriterNext
    BY <2>1, <2>2, InvUnderWrites
  <2>3. CASE Receiving
    BY <2>1, <2>3, InvUnderReadOne, ReaderAssumption DEF Receiving
  <2>4. CASE UNCHANGED vars
    <3>1. /\ UNCHANGED <<mode, data, size, begin, end, sequence, wire, arrived, read, received, panicked>>
          /\ UNCHANGED <<written, dead, buffer>>
      BY <2>4 DEF vars, readerVars, writerVars
    <3>2. DataTypes'
      BY <3>1 DEF StreamInv, WireLayout, DataTypes
    <3>3. WireLayout' /\ Taken'
      BY <3>1, <3>2, InvWhileNothingComes
    <3> QED
      BY <3>1, <3>3 DEF StreamInv, InLength, GrowsForLongMessages, Shown, Format
  <2> QED
    BY <2>2, <2>3, <2>4 DEF Next
<1> QED
  BY <1>1, <1>2, BufferInvariant, WriterInvariant, PTL DEF Spec

\* Whatever is sent, in whatever pieces it arrives, and wherever a write breaks off, the reader
\* (bufferedreader.go, ReadOne) numbers the messages without a gap, runs out of its buffer only
\* inside a length, and grows its buffer only for a message that does not fit.
THEOREM ReaderStaysInBounds == Spec => []ReaderKeepsItsBounds
<1>1. StreamInv => ReaderKeepsItsBounds
  BY DEF StreamInv, Taken, InLength, ReaderKeepsItsBounds, StopsOnlyAtLengths
<1> QED
  BY <1>1, StreamInvariant, PTL

-----------------------------------------------------------------------------
(* Writer, wire and reader are a channel *)

\* The messages that came out, and those that are put in.
Out == [i \in 1 .. Len(received) |-> received[i].data]
In == IF panicked THEN Out ELSE Deliverable

\* What can be delivered are the messages in front of the first that is empty.
Reached(last) ==
  /\ last \in 0 .. Len(written) /\ Deliverable = [i \in 1 .. last |-> Shown(written[i])]
  /\ \A i \in 1 .. last : Shown(written[i]) # <<>>
  /\ last # Len(written) => Shown(written[last + 1]) = <<>>

ReachesSome == written \in Seq(Messages) => \E last : Reached(last)

\* There always is such a place.
LEMMA DeliverableReaches == ReachesSome
<1> SUFFICES ASSUME written \in Seq(Messages) PROVE \E last : Reached(last)
  BY DEF ReachesSome
<1> DEFINE stalls == {i \in 1 .. Len(written) : Shown(written[i]) = <<>>}
           first == CHOOSE i \in stalls : \A k \in stalls : i <= k
           last == IF stalls = {} THEN Len(written) ELSE first - 1
<1>1. Deliverable = [i \in 1 .. last |-> Shown(written[i])]
  BY DEF Deliverable
<1>2. Len(written) \in Nat /\ stalls \in SUBSET Nat
  OBVIOUS
<1>3. CASE stalls = {}
  <2>1. last = Len(written)
    BY <1>3
  <2>2. last \in 0 .. Len(written) /\ \A i \in 1 .. last : Shown(written[i]) # <<>>
    BY <1>2, <1>3, <2>1
  <2> QED
    BY <1>1, <2>1, <2>2 DEF Reached
<1>4. CASE stalls # {}
  <2>1. first \in stalls /\ \A k \in stalls : first <= k
    BY <1>2, <1>4, Smallest
  <2>2. last = first - 1
    BY <1>4
  <2>3. first \in 1 .. Len(written) /\ Shown(written[first]) = <<>>
    BY <2>1
  <2>4. \A i \in 1 .. Len(written) : i < first => Shown(written[i]) # <<>>
    <3> SUFFICES ASSUME NEW i \in 1 .. Len(written), i < first, i \in stalls PROVE FALSE
      OBVIOUS
    <3>1. first <= i
      BY <2>1
    <3> HIDE DEF stalls, first
    <3> QED
      BY <1>2, <2>3, <3>1
  <2> HIDE DEF stalls, first, last
  <2>5. last \in 0 .. Len(written) /\ last + 1 = first
    BY <1>2, <2>2, <2>3
  <2>6. \A i \in 1 .. last : i \in 1 .. Len(written) /\ i < first
    BY <1>2, <2>2, <2>3
  <2> QED
    BY <1>1, <2>3, <2>4, <2>5, <2>6 DEF Reached
<1> QED
  BY <1>3, <1>4

\* How the messages look that there are.
LEMMA ShownTypes ==
  ASSUME mode \in Modes
  PROVE  \A m \in Messages : Shown(m) \in Seq(Nat)
<1> TAKE m \in Messages
<1>1. Bytes(m) \in Seq(Nat) /\ Payload[m] \in Seq(Nat)
  BY BytesTypes, WireAssumption
<1> QED
  BY <1>1 DEF Shown, Bytes

\* The start of a sequence.
LEMMA StartOf ==
  ASSUME NEW S, NEW f \in Seq(S), NEW g \in Seq(S), Len(g) <= Len(f), \A i \in 1 .. Len(g) : f[i] = g[i]
  PROVE  SubSeq(f, 1, Len(g)) = g
<1>1. Len(f) \in Nat /\ Len(g) \in Nat
  OBVIOUS
<1>2. PICK n \in Int : n = Len(g)
  BY <1>1
<1>3. SubSeq(f, 1, n) \in Seq(S) /\ Len(SubSeq(f, 1, n)) = n /\ \A i \in 1 .. n : SubSeq(f, 1, n)[i] = f[i]
  <2>1. \A i \in 1 .. n : f[i] \in S
    BY <1>1, <1>2
  <2>2. 1 \in Int
    OBVIOUS
  <2>3. /\ SubSeq(f, 1, n) \in Seq(S) /\ Len(SubSeq(f, 1, n)) = (IF 1 <= n THEN n - 1 + 1 ELSE 0)
        /\ \A i \in 1 .. n - 1 + 1 : SubSeq(f, 1, n)[i] = f[1 + i - 1]
    BY ONLY <2>1, <2>2, n \in Int, SubSeqProperties, SMT
  <2>4. \A i \in 1 .. n : i \in 1 .. n - 1 + 1 /\ 1 + i - 1 = i
    OBVIOUS
  <2>5. Len(SubSeq(f, 1, n)) = n
    BY ONLY <1>1, <1>2, <2>3
  <2> QED
    BY ONLY <2>3, <2>4, <2>5
<1>4. \A i \in 1 .. Len(SubSeq(f, 1, n)) : SubSeq(f, 1, n)[i] = g[i]
  BY <1>2, <1>3
<1>5. SubSeq(f, 1, n) = g
  BY ONLY <1>2, <1>3, <1>4, SeqEqual, g \in Seq(S)
<1> QED
  BY ONLY <1>2, <1>5

\* More messages on the wire are more that can be delivered, or as many.
LEMMA DeliverableGrows ==
  ASSUME written \in Seq(Messages), mode \in Modes, mode' = mode, NEW last, Reached(last), NEW next, Reached(next)',
         written' \in Seq(Messages), Len(written') >= Len(written), \A i \in 1 .. Len(written) : written'[i] = written[i]
  PROVE  \/ Deliverable' = Deliverable
         \/ Len(Deliverable) < Len(Deliverable') /\ SubSeq(Deliverable', 1, Len(Deliverable)) = Deliverable
<1>1. last \in 0 .. Len(written) /\ next \in 0 .. Len(written') /\ last \in Nat /\ next \in Nat /\ Len(written) \in Nat
  BY DEF Reached
<1>2. \A i \in 1 .. Len(written) : Shown(written'[i]) = Shown(written[i])
  OBVIOUS
<1>3. \A i : (Shown(written[i]))' = Shown(written'[i])
  BY DEF Shown, Format
<1>4. last <= next
  <2> SUFFICES ASSUME next < last PROVE FALSE
    BY <1>1
  <2>1. next + 1 \in 1 .. last /\ next + 1 \in 1 .. Len(written) /\ next # Len(written')
    BY <1>1
  <2>2. (Shown(written[next + 1]))' = <<>>
    BY <2>1 DEF Reached
  <2>3. Shown(written[next + 1]) # <<>>
    BY <2>1 DEF Reached
  <2> QED
    BY <1>2, <1>3, <2>1, <2>2, <2>3
<1>5. Deliverable' = [i \in 1 .. next |-> Shown(written'[i])]
  BY <1>3 DEF Reached
<1>6. Deliverable = [i \in 1 .. last |-> Shown(written[i])]
  BY DEF Reached
<1>7. \A i \in 1 .. last : i \in 1 .. Len(written) /\ i \in 1 .. next
  BY <1>1, <1>4
<1>8. CASE last = next
  BY <1>2, <1>5, <1>6, <1>7, <1>8
<1>9. CASE last # next
  <2>1. \A m \in Messages : Shown(m) \in Seq(Nat)
    BY ShownTypes
  <2>2. /\ \A i \in 1 .. last : Shown(written[i]) \in Seq(Nat)
        /\ \A i \in 1 .. next : Shown(written'[i]) \in Seq(Nat)
    BY <1>1, <2>1
  <2>3. PICK f \in [1 .. next -> Seq(Nat)], g \in [1 .. last -> Seq(Nat)] : f = Deliverable' /\ g = Deliverable
    BY <1>5, <1>6, <2>2
  <2>4. \A i \in 1 .. last : f[i] = g[i]
    BY <1>2, <1>5, <1>6, <1>7, <2>3
  <2>5. last < next
    BY ONLY <1>1, <1>4, <1>9
  <2>6. f \in Seq(Seq(Nat)) /\ Len(f) = next /\ g \in Seq(Seq(Nat)) /\ Len(g) = last
    BY ONLY <1>1, <2>3, FunctionIsSequence, Zenon
  <2>7. SubSeq(f, 1, last) = g
    BY ONLY <1>1, <2>4, <2>5, <2>6, StartOf
  <2> QED
    BY <2>3, <2>5, <2>6, <2>7
<1> QED
  BY <1>8, <1>9

\* A step of the channel, or none.
ChannelStep == [ChannelOfMessages!Next]_ChannelOfMessages!vars

\* Nothing comes out, and nothing more can.
LEMMA ChannelStutters ==
  ASSUME UNCHANGED <<mode, written, received, panicked>>
  PROVE  ChannelStep
<1>1. Deliverable' = Deliverable
  BY DEF Deliverable, Shown, Format
<1> QED
  BY <1>1 DEF ChannelStep, ChannelOfMessages!vars

\* One more at the end.
LEMMA Appended ==
  ASSUME NEW S, NEW f \in Seq(S), NEW g \in Seq(S), NEW e \in S, Len(g) = Len(f) + 1,
         \A i \in 1 .. Len(f) : g[i] = f[i], g[Len(f) + 1] = e
  PROVE  g = Append(f, e)
<1>1. /\ Append(f, e) \in Seq(S) /\ Len(Append(f, e)) = Len(f) + 1
      /\ \A i \in 1 .. Len(f) : Append(f, e)[i] = f[i]
      /\ Append(f, e)[Len(f) + 1] = e
  BY AppendProperties
<1>2. \A i \in 1 .. Len(f) + 1 : i \in 1 .. Len(f) \/ i = Len(f) + 1
  OBVIOUS
<1>3. \A i \in 1 .. Len(g) : g[i] = Append(f, e)[i]
  BY <1>1, <1>2
<1> QED
  BY ONLY <1>1, <1>3, SeqEqual, g \in Seq(S), Len(g) = Len(f) + 1

\* What the writer puts on the wire is sent, unless it waits behind an empty message.
LEMMA WriterSends ==
  ASSUME mode \in Modes, written \in Seq(Messages), written' \in Seq(Messages), WriterInv, StreamInv, WriterNext
  PROVE  ChannelStep
<1>1. PICK o : Offsets(o) /\ Rest(o)
  BY DEF StreamInv, WireLayout
<1>2. /\ UNCHANGED <<mode, received, panicked>> /\ Len(written') >= Len(written) /\ Len(written') \in Nat
      /\ \A i \in 1 .. Len(written) : written'[i] = written[i]
  BY <1>1, WriterKeepsLayout DEF WriterAdds
<1>3. PICK last : Reached(last)
  BY DeliverableReaches DEF ReachesSome
<1>4. ReachesSome'
  BY DeliverableReaches, PTL
<1>5. PICK next : Reached(next)'
  BY <1>4 DEF ReachesSome
<1>6. \/ Deliverable' = Deliverable
      \/ Len(Deliverable) < Len(Deliverable') /\ SubSeq(Deliverable', 1, Len(Deliverable)) = Deliverable
  BY <1>2, <1>3, <1>5, DeliverableGrows
<1>7. CASE panicked
  BY <1>2, <1>7 DEF ChannelStep, ChannelOfMessages!vars
<1>8. CASE ~panicked
  BY <1>2, <1>6, <1>8 DEF ChannelStep, ChannelOfMessages!vars, ChannelOfMessages!Next, ChannelOfMessages!Send
<1> QED
  BY <1>7, <1>8

\* The callback receives the next message that was sent.
LEMMA ReaderReceives ==
  ASSUME mode \in Modes, written \in Seq(Messages), BufferInv, StreamInv, Deliver, UNCHANGED writerVars
  PROVE  ChannelStep
<1>1. PICK m \in Messages :
        /\ Len(received) < Len(written) /\ m = written[Len(received) + 1]
        /\ Shown(m) # <<>> /\ Shown(m) \in Seq(Nat)
        /\ SubSeq(data, begin + frame.start + 1, begin + frame.start + frame.len) = Shown(m)
  BY DeliversNext DEF StreamInv, Deliver
<1>2. /\ received' = Append(received, [data |-> Shown(m), sequence |-> sequence])
      /\ UNCHANGED <<mode, written, panicked>> /\ ~panicked
  BY <1>1 DEF Deliver, writerVars
<1>3. PICK last : Reached(last)
  BY DeliverableReaches DEF ReachesSome
<1>4. PICK R \in Nat, K \in Nat : R = Len(received) /\ K = Len(written) /\ R < K
  BY <1>1, LenProperties DEF StreamInv, Taken
<1>5. PICK l \in 0 .. K : l = last
  BY <1>3, <1>4 DEF Reached
<1>6. R < l
  <2> SUFFICES ASSUME ~(R < l) PROVE FALSE
    OBVIOUS
  <2>1. l + 1 \in 1 .. R + 1 /\ l # K
    BY <1>4, <1>5
  <2>2. Shown(written[l + 1]) = <<>>
    BY <1>3, <1>4, <1>5, <2>1 DEF Reached
  <2>3. CASE l + 1 = R + 1
    BY <1>1, <1>4, <2>2, <2>3
  <2>4. CASE l + 1 # R + 1
    <3>1. l + 1 \in 1 .. R
      BY <1>4, <2>1, <2>4
    <3> QED
      BY <1>4, <2>2, <3>1 DEF StreamInv, Taken
  <2> QED
    BY <2>3, <2>4
<1>7. Deliverable = [i \in 1 .. l |-> Shown(written[i])] /\ Deliverable' = Deliverable
  <2>1. Deliverable' = Deliverable
    BY <1>2 DEF Deliverable, Shown, Format
  <2> QED
    BY <1>3, <1>5, <2>1 DEF Reached
<1>8. R < Len(Deliverable) /\ Deliverable[R + 1] = Shown(m)
  <2>1. R + 1 \in 1 .. l
    BY <1>4, <1>5, <1>6
  <2>2. Len(Deliverable) = l
    BY <1>5, <1>7
  <2> QED
    BY <1>1, <1>4, <1>6, <1>7, <2>1, <2>2
<1>9. Len(Out) = R /\ Out' = Append(Out, Shown(m))
  <2>1. PICK new \in [data : Seq(Nat), sequence : Nat] : new = [data |-> Shown(m), sequence |-> sequence] /\ new.data = Shown(m)
    <3>1. PICK d \in Seq(Nat), q \in Nat : d = Shown(m) /\ q = sequence
      BY <1>1, <1>4 DEF StreamInv, Taken
    <3>2. [data |-> d, sequence |-> q] \in [data : Seq(Nat), sequence : Nat]
      OBVIOUS
    <3> QED
      BY <3>1, <3>2
  <2>2. received \in Seq([data : Seq(Nat), sequence : Nat])
    BY DEF StreamInv, Taken
  <2>3. /\ received' = Append(received, new) /\ Len(received') = R + 1
        /\ \A i \in 1 .. R : received'[i] = received[i]
        /\ received'[R + 1] = new
    BY <1>2, <1>4, <2>1, <2>2, AppendProperties
  <2>4. Out' = [i \in 1 .. R + 1 |-> received'[i].data]
    BY <2>3 DEF Out
  <2>5. /\ \A i \in 1 .. R : received[i].data \in Seq(Nat) /\ received'[i].data \in Seq(Nat)
        /\ new.data \in Seq(Nat)
    <3>1. ASSUME NEW i \in 1 .. R PROVE received[i].data \in Seq(Nat)
      <4>1. received[i] \in [data : Seq(Nat), sequence : Nat]
        <5>1. i \in 1 .. Len(received)
          BY <1>4
        <5> QED
          BY ONLY <2>2, <5>1, ElementOfSeq, Zenon
      <4> QED
        BY <4>1
    <3> QED
      BY <2>1, <2>3, <3>1
  <2>6. PICK f \in [1 .. R -> Seq(Nat)], g \in [1 .. R + 1 -> Seq(Nat)] : f = Out /\ g = Out'
    <3>1. \A i \in 1 .. R + 1 : received'[i].data \in Seq(Nat)
      BY <1>4, <2>3, <2>5
    <3> QED
      BY <1>4, <2>4, <2>5, <3>1 DEF Out
  <2>7. f \in Seq(Seq(Nat)) /\ Len(f) = R /\ g \in Seq(Seq(Nat)) /\ Len(g) = R + 1
    <3>1. R + 1 \in Nat
      BY <1>4
    <3> QED
      BY ONLY <1>4, <2>6, <3>1, FunctionIsSequence, Zenon
  <2>8. \A i \in 1 .. R : g[i] = f[i]
    BY <1>4, <2>3, <2>4, <2>6 DEF Out
  <2>9. g[R + 1] = Shown(m)
    BY <1>4, <2>1, <2>3, <2>4, <2>6
  <2>10. g = Append(f, Shown(m))
    BY ONLY <1>1, <1>4, <2>7, <2>8, <2>9, Appended
  <2> QED
    BY <2>6, <2>7, <2>10
<1>10. In = Deliverable /\ In' = Deliverable
  BY <1>2, <1>7 DEF In
<1>11. ChannelOfMessages!Receive
  BY <1>2, <1>8, <1>9, <1>10 DEF ChannelOfMessages!Receive, In, Out
<1> QED
  BY <1>11 DEF ChannelStep, ChannelOfMessages!Next

\* The reader breaks, and what has come out is all there is.
LEMMA ReaderBreaks ==
  ASSUME Panic, UNCHANGED writerVars
  PROVE  ChannelStep
<1>1. UNCHANGED received /\ ~panicked /\ panicked' = TRUE
  BY DEF Panic
<1> QED
  BY <1>1 DEF ChannelStep, ChannelOfMessages!Next, ChannelOfMessages!Break

\* Writer, wire and reader implement what may happen on a channel: however the stream is cut and
\* wherever a write breaks off, the callback of the reader is given the messages that were written
\* as a whole (writerassembly.go, Write; bufferedreader.go, ReadOne), in order, once, unchanged.
THEOREM ReaderIsAChannel == Spec => ChannelOfMessages!Safety
<1>1. Init => ChannelOfMessages!Init
  <2> SUFFICES ASSUME Init PROVE ChannelOfMessages!Init
    OBVIOUS
  <2>1. written = <<>> /\ received = <<>> /\ panicked = FALSE
    BY DEF Init, ReaderInit
  <2>2. PICK last : Reached(last)
    BY <2>1, DeliverableReaches DEF ReachesSome
  <2>3. last = 0
    BY <2>1, <2>2 DEF Reached
  <2>4. Deliverable = <<>>
    BY <2>2, <2>3 DEF Reached
  <2> QED
    BY <2>1, <2>4 DEF ChannelOfMessages!Init
<1>2. BufferInv /\ WriterInv /\ StreamInv /\ WriterInv' /\ [Next]_vars => ChannelStep
  <2> SUFFICES ASSUME BufferInv, WriterInv, StreamInv, WriterInv', [Next]_vars
               PROVE  ChannelStep
    OBVIOUS
  <2>1. mode \in Modes /\ written \in Seq(Messages) /\ written' \in Seq(Messages)
    BY DEF WriterInv, WriterTypes
  <2>2. CASE WriterNext
    BY <2>1, <2>2, WriterSends
  <2>3. CASE Receiving
    <3>1. UNCHANGED writerVars /\ UNCHANGED written
      BY <2>3 DEF Receiving, writerVars
    <3>2. CASE Deliver
      BY <2>1, <3>1, <3>2, ReaderReceives
    <3>3. CASE Panic
      BY <3>1, <3>3, ReaderBreaks
    <3>4. CASE (\E n \in 1 .. size : Read(n)) \/ Wait \/ Compact \/ Grow
      <4>1. UNCHANGED <<mode, received, panicked>>
        BY <3>4 DEF Read, Wait, Compact, Grow
      <4> QED
        BY <3>1, <4>1, ChannelStutters
    <3> QED
      BY <2>3, <3>2, <3>3, <3>4 DEF Receiving, ReadOne
  <2>4. CASE UNCHANGED vars
    BY <2>4, ChannelStutters DEF vars, readerVars, writerVars
  <2> QED
    BY <2>2, <2>3, <2>4 DEF Next
<1> QED
  BY <1>1, <1>2, BufferInvariant, WriterInvariant, StreamInvariant, PTL DEF Spec, ChannelStep, ChannelOfMessages!Safety

-----------------------------------------------------------------------------
(* Nothing is left behind *)

\* A reader that is going to read has not got the next message yet, or it is empty.
WaitsForMore ==
  incomplete /\ Len(received) < Len(written) =>
    LET m == written[Len(received) + 1] IN end - begin < Len(Bytes(m)) \/ Shown(m) = <<>>

\* The reader asks for more only if the next message is not there, or empty.
LEMMA MoreIsMissing ==
  ASSUME mode \in Modes, written \in Seq(Messages), BufferInv, StreamInv, Missing, Len(received) < Len(written)
  PROVE  LET m == written[Len(received) + 1] IN end - begin < Len(Bytes(m)) \/ Shown(m) = <<>>
<1>1. begin < end /\ begin \in Nat /\ end \in Nat
  BY DEF BufferInv, BufferTypes, ThereIsRoom, Missing
<1>2. PICK m \in Messages : FrameOf(m) /\ m = written[Len(received) + 1]
  BY <1>1, ThisFrame DEF StreamInv
<1>3. Len(Bytes(m)) \in Nat /\ Shown(m) \in Seq(Nat)
  <2>1. Bytes(m) \in Seq(Nat) /\ Len(Bytes(m)) \in Nat /\ Payload[m] \in Seq(Nat)
    BY BytesTypes, WireAssumption
  <2> QED
    BY <2>1 DEF Shown, Bytes
<1>4. ASSUME Len(Bytes(m)) <= end - begin PROVE Shown(m) = <<>>
  <2>1. frame \in Frame /\ frame.start + frame.len + frame.pad = Len(Bytes(m)) /\ frame.len = Len(Shown(m))
    BY <1>2, <1>4 DEF FrameOf
  <2>2. nextBegin <= end
    <3>1. frame.start \in Nat /\ frame.len \in Nat /\ frame.pad \in Nat
      BY <2>1 DEF Frame
    <3>2. PICK s \in Nat, l \in Nat, d \in Nat, N \in Nat :
            s = frame.start /\ l = frame.len /\ d = frame.pad /\ N = Len(Bytes(m)) /\ s + l + d = N
      BY <1>3, <2>1, <3>1
    <3>3. PICK b \in Nat, e \in Nat : b = begin /\ e = end
      BY <1>1
    <3>4. nextBegin = b + s + l + d /\ N <= e - b /\ s + l + d = N
      BY <1>4, <3>2, <3>3 DEF nextBegin
    <3>5. nextBegin <= e
      BY ONLY <3>4, b \in Nat, e \in Nat, s \in Nat, l \in Nat, d \in Nat, N \in Nat
    <3> QED
      BY <3>3, <3>5
  <2>3. ~(frame.len > 0)
    BY <2>1, <2>2 DEF Missing, Complete
  <2>4. Len(Shown(m)) = 0
    BY <1>3, <2>1, <2>3
  <2> QED
    BY <1>3, <2>4, EmptySeq
<1>5. end - begin < Len(Bytes(m)) \/ Shown(m) = <<>>
  BY <1>1, <1>3, <1>4
<1> QED
  BY <1>2, <1>5

\* What is written is added to only while the connection lasts.
LEMMA OnlyTheLivingAdd ==
  ASSUME mode \in Modes, written \in Seq(Messages), WriterInv, WriterNext, dead
  PROVE  written' = written
<1>1. CASE StartWrite \/ NoWriter \/ SetWriter
  BY <1>1 DEF StartWrite, NoWriter, SetWriter
<1>2. ASSUME NEW length \in 0 .. LongestWrite, NEW choice \in BOOLEAN,
             Write(length, choice) \/ WriteFails(length, choice)
      PROVE  written' = written
  <2>1. PICK messages \in Seq(Messages) : messages = Head(batches)
    BY <1>2, FirstBatch DEF Write, WriteFails
  <2>2. length = 0 /\ Transmit(Filled(messages), messages, length)
    BY <1>2, <2>1 DEF Write, WriteFails
  <2>3. Whole(messages, length) = 0
    BY <2>2, WholeMessages
  <2>4. written' = written \o SubSeq(messages, 1, 0)
    BY <2>2, <2>3 DEF Transmit, Whole
  <2>5. SubSeq(messages, 1, 0) = <<>>
    BY SMT
  <2> QED
    BY <2>4, <2>5
<1> QED
  BY <1>1, <1>2 DEF WriterNext

\* A message the writer adds is missing as a whole, as nothing is written behind a part.
LEMMA WriterKeepsMore ==
  ASSUME mode \in Modes, written \in Seq(Messages), written' \in Seq(Messages), BufferInv, WriterInv, StreamInv,
         WaitsForMore, WriterNext
  PROVE  WaitsForMore'
<1>1. PICK o : Offsets(o) /\ Rest(o) /\ Position(o)
  BY DEF StreamInv, WireLayout
<1>2. WriterAdds(o)
  BY <1>1, WriterKeepsLayout
<1>3. UNCHANGED <<mode, begin, end, read, received>> /\ incomplete' = incomplete
  <2>1. incomplete' = incomplete
    BY DEF WriterNext, StartWrite, NoWriter, SetWriter, Write, WriteFails, Transmit, readerVars
  <2> QED
    BY <1>2, <2>1 DEF WriterAdds
<1>4. PICK R, K : R = Len(received) /\ K = Len(written) /\ R \in 0 .. K /\ K \in Nat
  BY <1>1, LenProperties DEF Position
<1>5. \A m : Bytes(m)' = Bytes(m) /\ Shown(m)' = Shown(m)
  BY <1>3 DEF Bytes, Shown, Format
<1>6. SUFFICES ASSUME incomplete, R < Len(written')
               PROVE  end - begin < Len(Bytes(written'[R + 1])) \/ Shown(written'[R + 1]) = <<>>
  <2> DEFINE m == written'[R + 1]
  <2>1. (Bytes(written[Len(received) + 1]))' = Bytes(m) /\ (Shown(written[Len(received) + 1]))' = Shown(m)
    BY <1>3, <1>4 DEF Bytes, Shown, Format
  <2> QED
    BY <1>3, <1>4, <2>1 DEF WaitsForMore
<1>7. CASE R < K
  <2>1. R + 1 \in 1 .. K
    BY <1>4, <1>7
  <2>2. written'[R + 1] = written[R + 1]
    BY <1>2, <1>4, <2>1 DEF WriterAdds
  <2> QED
    BY <1>4, <1>6, <1>7, <2>2 DEF WaitsForMore
<1>8. CASE R = K
  <2>1. ~dead
    <3>1. written' # written
      BY <1>4, <1>6, <1>8
    <3> QED
      BY <3>1, OnlyTheLivingAdd
  <2>2. end - begin = 0
    <3>1. o[R] = arrived /\ read - (end - begin) = o[R]
      BY <1>1, <1>4, <1>8, <2>1 DEF Rest, Position
    <3>2. begin \in Nat /\ end \in Nat /\ begin <= end /\ read \in Nat /\ read <= arrived
      BY DEF BufferInv, BufferTypes, ThereIsRoom, WindowIsStream
    <3>3. arrived \in Nat
      BY DEF StreamInv, WireLayout, WireTypes
    <3> QED
      BY <3>1, <3>2, <3>3
  <2>3. Len(Bytes(written'[R + 1])) \in Nat \ {0}
    <3>1. R + 1 \in 1 .. Len(written')
      BY <1>4, <1>6
    <3>2. written'[R + 1] \in Messages
      BY <3>1
    <3> QED
      BY <3>2, BytesTypes
  <2> QED
    BY <2>2, <2>3
<1> QED
  BY <1>4, <1>7, <1>8

\* However the reader goes on.
LEMMA ReaderKeepsMore ==
  ASSUME mode \in Modes, written \in Seq(Messages), BufferInv, StreamInv, WaitsForMore, ReadOne, UNCHANGED writerVars
  PROVE  WaitsForMore'
<1>1. UNCHANGED <<mode, written>>
  BY DEF ReadOne, Read, Deliver, Wait, Compact, Grow, Panic, writerVars
<1>2. (Bytes(written[Len(received) + 1]))' = Bytes(written'[Len(received') + 1])
      /\ (Shown(written[Len(received) + 1]))' = Shown(written'[Len(received') + 1])
  BY <1>1 DEF Bytes, Shown, Format
<1>3. begin \in Nat /\ end \in Nat
  BY DEF BufferInv, BufferTypes
<1>4. CASE \E n \in 1 .. size : Read(n)
  BY <1>4 DEF Read, WaitsForMore
<1>5. CASE Deliver
  <2> SUFFICES ASSUME incomplete', Len(received') < Len(written')
               PROVE  end' - begin' < Len(Bytes(written'[Len(received') + 1]))
    BY <1>2 DEF WaitsForMore
  <2>1. begin' = 0 /\ end' = 0
    BY <1>5 DEF Deliver
  <2>2. Len(received') \in Nat /\ Len(written) \in Nat
    <3>1. received \in Seq([data : Seq(Nat), sequence : Nat])
      BY DEF StreamInv, Taken
    <3>2. Len(received') = Len(received) + 1
      BY <1>5, <3>1 DEF Deliver
    <3> QED
      BY <3>1, <3>2
  <2>3. written'[Len(received') + 1] \in Messages
    BY <1>1, <2>2
  <2>4. Len(Bytes(written'[Len(received') + 1])) \in Nat \ {0}
    BY <2>3, BytesTypes
  <2> QED
    BY <2>1, <2>4
<1>6. CASE Wait \/ Compact \/ Grow
  <2>1. Missing /\ received' = received /\ end' - begin' = end - begin
    BY <1>3, <1>6 DEF Wait, Compact, Grow, CompactedEnd
  <2> QED
    BY <1>1, <1>2, <2>1, MoreIsMissing DEF WaitsForMore
<1>7. CASE Panic
  BY <1>1, <1>2, <1>7 DEF Panic, WaitsForMore
<1> QED
  BY <1>4, <1>5, <1>6, <1>7 DEF ReadOne

\* Whatever the writer and the reader do, in every state.
LEMMA WaitsForMoreAlways == Spec => []WaitsForMore
<1>1. Init => WaitsForMore
  <2>1. Init => written = <<>> /\ received = <<>>
    BY DEF Init, ReaderInit
  <2> QED
    BY <2>1 DEF WaitsForMore
<1>2. BufferInv /\ WriterInv /\ WriterInv' /\ StreamInv /\ WaitsForMore /\ [Next]_vars => WaitsForMore'
  <2> SUFFICES ASSUME BufferInv, WriterInv, WriterInv', StreamInv, WaitsForMore, [Next]_vars
               PROVE  WaitsForMore'
    OBVIOUS
  <2>1. mode \in Modes /\ written \in Seq(Messages) /\ written' \in Seq(Messages)
    BY DEF WriterInv, WriterTypes
  <2>2. CASE WriterNext
    BY <2>1, <2>2, WriterKeepsMore
  <2>3. CASE Receiving
    BY <2>1, <2>3, ReaderKeepsMore DEF Receiving
  <2>4. CASE UNCHANGED vars
    BY <2>4 DEF vars, readerVars, writerVars, WaitsForMore, Bytes, Shown, Format
  <2> QED
    BY <2>2, <2>3, <2>4 DEF Next
<1> QED
  BY <1>1, <1>2, BufferInvariant, WriterInvariant, StreamInvariant, PTL DEF Spec

\* A reader that has read everything and is going to read has delivered everything.
LEMMA AllIsOut ==
  ASSUME mode \in Modes, written \in Seq(Messages), BufferInv, StreamInv, WaitsForMore, incomplete, read = arrived
  PROVE  Out = Deliverable
<1>1. PICK o : Offsets(o) /\ Rest(o) /\ Position(o)
  BY DEF StreamInv, WireLayout
<1>2. PICK R, K : R = Len(received) /\ K = Len(written) /\ R \in 0 .. K /\ K \in Nat
  BY <1>1, LenProperties DEF Position
<1>3. PICK last : Reached(last)
  BY DeliverableReaches DEF ReachesSome
<1>4. PICK l \in 0 .. K : l = last
  BY <1>2, <1>3 DEF Reached
<1>5. ASSUME R < K PROVE Shown(written[R + 1]) = <<>>
  <2>1. PICK m \in Messages : m = written[R + 1]
    BY <1>2, <1>5
  <2>2. Len(Bytes(m)) \in Nat
    BY BytesTypes
  <2>3. o[R + 1] = o[R] + Len(Bytes(m)) /\ o[R] \in Nat /\ o[R + 1] \in Nat /\ o[K] \in Nat
    <3>1. R \in 0 .. K /\ R + 1 \in 1 .. K /\ R + 1 \in 0 .. K /\ (R + 1) - 1 = R /\ K \in 0 .. K
      BY <1>2, <1>5
    <3> QED
      BY <1>1, <1>2, <2>1, <3>1 DEF Offsets
  <2>4. o[R + 1] <= o[K]
    <3>1. R + 1 \in 0 .. K /\ K \in 0 .. K /\ R + 1 <= K
      BY <1>2, <1>5
    <3> QED
      BY <1>1, <1>2, <3>1, OffsetsRise
  <2>5. o[K] <= arrived /\ read - (end - begin) = o[R]
    BY <1>1, <1>2 DEF Rest, Position
  <2>6. begin \in Nat /\ end \in Nat /\ read \in Nat
    BY DEF BufferInv, BufferTypes
  <2>7. ~(end - begin < Len(Bytes(m)))
    BY ONLY <2>2, <2>3, <2>4, <2>5, <2>6, read = arrived
  <2> QED
    BY <1>2, <1>5, <2>1, <2>7 DEF WaitsForMore
<1>6. l = R
  <2>1. ~(l < R)
    <3> SUFFICES ASSUME l < R PROVE FALSE
      OBVIOUS
    <3>1. l + 1 \in 1 .. R /\ l # K
      BY <1>2
    <3>2. Shown(written[l + 1]) = <<>>
      BY <1>2, <1>3, <1>4, <3>1 DEF Reached
    <3> QED
      BY <1>2, <3>1, <3>2 DEF StreamInv, Taken
  <2>2. ~(R < l)
    <3> SUFFICES ASSUME R < l PROVE FALSE
      OBVIOUS
    <3>1. R + 1 \in 1 .. l /\ R < K
      BY <1>2, <1>4
    <3> QED
      BY <1>3, <1>4, <1>5, <3>1 DEF Reached
  <2> QED
    BY <1>2, <1>4, <2>1, <2>2
<1>7. Deliverable = [i \in 1 .. R |-> Shown(written[i])]
  BY <1>3, <1>4, <1>6 DEF Reached
<1>8. \A i \in 1 .. R : received[i].data = Shown(written[i])
  BY <1>2 DEF StreamInv, Taken
<1> QED
  BY <1>2, <1>7, <1>8 DEF Out

\* The guard of Receiving: a call of ReadOne reads or parses, if there is something to read.
ReaderGoesOn == ~panicked /\ (incomplete => read < arrived)

\* When the reader cannot go on, its callback has been given all that can be delivered.
EverythingComesOut == ~panicked /\ ~ReaderGoesOn => Out = Deliverable

\* The reader (bufferedreader.go, ReadOne) leaves nothing in its buffer: wherever the stream is
\* cut and however often the buffer was compacted, reset or had to grow, it does not wait for
\* more bytes while a whole message is there, unless one that is empty has stopped it.
THEOREM NothingIsLeftBehind == Spec => []EverythingComesOut
<1>1. BufferInv /\ WriterInv /\ StreamInv /\ WaitsForMore => EverythingComesOut
  <2> SUFFICES ASSUME BufferInv, WriterInv, StreamInv, WaitsForMore, ~panicked, ~ReaderGoesOn
               PROVE  Out = Deliverable
    BY DEF EverythingComesOut
  <2>1. mode \in Modes /\ written \in Seq(Messages)
    BY DEF WriterInv, WriterTypes
  <2>2. incomplete
    BY DEF ReaderGoesOn
  <2>3. read = arrived
    <3>1. read \in Nat /\ read <= arrived /\ arrived \in Nat /\ ~(read < arrived)
      BY DEF ReaderGoesOn, BufferInv, BufferTypes, WindowIsStream, StreamInv, WireLayout, WireTypes
    <3> QED
      BY ONLY <3>1
  <2> QED
    BY <2>1, <2>2, <2>3, AllIsOut
<1> QED
  BY <1>1, BufferInvariant, WriterInvariant, StreamInvariant, WaitsForMoreAlways, PTL
=============================================================================
