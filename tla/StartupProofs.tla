---------------------------- MODULE StartupProofs ----------------------------
(***************************************************************************)
(* Proofs about Startup and the files consumer, for every tree of files,   *)
(* every configuration and any number of plugins and signals.              *)
(***************************************************************************)
EXTENDS Startup, FiniteSetTheorems, SequenceTheorems, WellFoundedInduction, TLAPS

-----------------------------------------------------------------------------
(* Sums *)

\* As many different pairs as the numbers f[i] for i in S add up to.
Units(f, S) == UNION {{i} \X (1 .. f[i]) : i \in S}
SumOf(f, S) == Cardinality(Units(f, S))

\* Sums over finite sets are numbers.
LEMMA UnitsAreFinite ==
  ASSUME NEW S, IsFiniteSet(S), NEW f, \A i \in S : f[i] \in Nat
  PROVE  IsFiniteSet(Units(f, S)) /\ SumOf(f, S) \in Nat
<1> DEFINE pairs == [i \in S |-> {i} \X (1 .. f[i])]
           T == {{i} \X (1 .. f[i]) : i \in S}
<1>1. pairs \in Surjection(S, T)
  BY DEF Surjection
<1>2. IsFiniteSet(T)
  BY <1>1, FS_Surjection
<1>3. \A i \in S : IsFiniteSet({i} \X (1 .. f[i]))
  <2> TAKE i \in S
  <2>1. IsFiniteSet({i})
    BY FS_Singleton
  <2>2. IsFiniteSet(1 .. f[i])
    BY FS_Interval
  <2> QED
    BY <2>1, <2>2, FS_Product
<1>4. \A U \in T : IsFiniteSet(U)
  BY <1>3
<1>5. IsFiniteSet(UNION T)
  BY <1>2, <1>4, FS_UNION
<1> QED
  BY <1>5, FS_CardinalityType DEF Units, SumOf

\* One summand and the others.
LEMMA SumSplit ==
  ASSUME NEW S, IsFiniteSet(S), NEW f, \A i \in S : f[i] \in Nat, NEW x \in S
  PROVE  SumOf(f, S) = f[x] + SumOf(f, S \ {x})
<1> DEFINE A == {x} \X (1 .. f[x])
           B == Units(f, S \ {x})
<1>1. IsFiniteSet(A) /\ Cardinality(A) = f[x]
  <2>1. IsFiniteSet({x}) /\ Cardinality({x}) = 1
    BY FS_Singleton
  <2>2. IsFiniteSet(1 .. f[x]) /\ Cardinality(1 .. f[x]) = f[x]
    BY FS_Interval
  <2>3. IsFiniteSet(A) /\ Cardinality(A) = 1 * f[x]
    BY <2>1, <2>2, FS_Product
  <2> QED
    BY <2>3
<1>2. IsFiniteSet(B) /\ Cardinality(B) \in Nat /\ Cardinality(B) = SumOf(f, S \ {x})
  <2>1. IsFiniteSet(S \ {x})
    BY FS_RemoveElement
  <2> QED
    BY <2>1, UnitsAreFinite DEF SumOf
<1>3. Units(f, S) = A \cup B
  BY DEF Units
<1>4. A \cap B = {}
  BY DEF Units
<1>5. Cardinality(A \cup B) = Cardinality(A) + Cardinality(B) - Cardinality(A \cap B)
  BY <1>1, <1>2, FS_Union
<1>6. Cardinality(A \cup B) = f[x] + Cardinality(B) - 0
  BY <1>1, <1>4, <1>5, FS_EmptySet
<1> HIDE DEF A, B
<1> QED
  BY <1>2, <1>3, <1>6 DEF SumOf

\* A set of natural numbers that is not empty has a smallest number.
LEMMA MinExists ==
  ASSUME NEW T \in SUBSET Nat, T # {}
  PROVE  Min(T) \in T /\ \A y \in T : Min(T) <= y
<1>1. PICK x \in T : \A y \in T : ~(<<y, x>> \in OpToRel(<, Nat))
  BY WFMin, NatLessThanWellFounded
<1>2. \A y \in T : x <= y
  <2> SUFFICES ASSUME NEW y \in T, y < x PROVE FALSE
    OBVIOUS
  <2>1. <<y, x>> \in Nat \X Nat /\ <<y, x>>[1] < <<y, x>>[2]
    OBVIOUS
  <2> QED
    BY <1>1, <2>1 DEF OpToRel
<1> QED
  BY <1>1, <1>2 DEF Min

\* The total of the model, a fold, is this sum.
LEMMA TotalIsSum ==
  ASSUME NEW S, IsFiniteSet(S), NEW f, \A i \in S : f[i] \in Nat
  PROVE  Total(f, S) = SumOf(f, S)
<1> DEFINE Pick(s) == CHOOSE x \in s : TRUE
           Folds(h) == h = [s \in SUBSET S |-> IF s = {} THEN 0 ELSE f[Pick(s)] + h[s \ {Pick(s)}]]
           iter == CHOOSE h : Folds(h)
           sums == [s \in SUBSET S |-> SumOf(f, s)]
<1>1. Total(f, S) = iter[S]
  BY DEF Total, FoldFunctionOnSet, MapThenFoldSet
<1>2. ASSUME NEW s \in SUBSET S, s # {}
      PROVE  /\ Pick(s) \in s /\ s \ {Pick(s)} \in SUBSET S
             /\ SumOf(f, s) = f[Pick(s)] + SumOf(f, s \ {Pick(s)})
  <2>1. Pick(s) \in s
    BY <1>2
  <2>2. IsFiniteSet(s)
    BY FS_Subset
  <2>3. \A i \in s : f[i] \in Nat
    OBVIOUS
  <2> HIDE DEF Pick
  <2>4. SumOf(f, s) = f[Pick(s)] + SumOf(f, s \ {Pick(s)})
    BY ONLY <2>1, <2>2, <2>3, SumSplit
  <2> QED
    BY <2>1, <2>4
<1>3. SumOf(f, {}) = 0
  BY FS_EmptySet DEF SumOf, Units
<1> HIDE DEF Pick
<1>4. Folds(sums)
  BY <1>2, <1>3
<1>5. Folds(iter)
  <2> HIDE DEF Folds
  <2> QED
    BY <1>4
<1> HIDE DEF iter
<1>6. \A s \in SUBSET S : iter[s] = IF s = {} THEN 0 ELSE f[Pick(s)] + iter[s \ {Pick(s)}]
  BY <1>5
<1> DEFINE Wrong == {Cardinality(s) : s \in {t \in SUBSET S : iter[t] # SumOf(f, t)}}
<1>7. Wrong = {}
  <2> SUFFICES ASSUME Wrong # {} PROVE FALSE
    OBVIOUS
  <2>1. Wrong \in SUBSET Nat
    BY FS_Subset, FS_CardinalityType
  <2>2. Min(Wrong) \in Wrong /\ \A n \in Wrong : Min(Wrong) <= n
    <3> HIDE DEF Wrong
    <3> QED
      BY <2>1, MinExists
  <2>3. PICK s \in SUBSET S : iter[s] # SumOf(f, s) /\ Cardinality(s) = Min(Wrong)
    BY <2>2
  <2>4. s # {}
    BY <1>3, <1>6, <2>3
  <2>5. /\ Pick(s) \in s /\ s \ {Pick(s)} \in SUBSET S
        /\ SumOf(f, s) = f[Pick(s)] + SumOf(f, s \ {Pick(s)})
    BY <1>2, <2>4
  <2>6. /\ IsFiniteSet(s) /\ Cardinality(s) \in Nat
        /\ Cardinality(s \ {Pick(s)}) = Cardinality(s) - 1
    BY <2>5, FS_Subset, FS_RemoveElement, FS_CardinalityType
  <2>7. Cardinality(s \ {Pick(s)}) \notin Wrong
    <3>1. Cardinality(s \ {Pick(s)}) < Min(Wrong)
      BY <2>3, <2>6
    <3> HIDE DEF Wrong
    <3> SUFFICES ASSUME Cardinality(s \ {Pick(s)}) \in Wrong PROVE FALSE
      OBVIOUS
    <3>2. Min(Wrong) <= Cardinality(s \ {Pick(s)})
      BY <2>2
    <3>3. Min(Wrong) \in Nat /\ Cardinality(s \ {Pick(s)}) \in Nat
      BY <2>1, <2>2
    <3> QED
      BY <3>1, <3>2, <3>3
  <2>8. iter[s \ {Pick(s)}] = SumOf(f, s \ {Pick(s)})
    BY <2>5, <2>7
  <2> QED
    BY <1>6, <2>3, <2>4, <2>5, <2>8
<1>8. iter[S] = SumOf(f, S)
  BY <1>7
<1> QED
  BY <1>1, <1>8

\* Sums of functions that differ in one summand, and of functions without further summands.
LEMMA SumChanged ==
  ASSUME NEW S, IsFiniteSet(S), NEW f, NEW g, \A i \in S : f[i] \in Nat /\ g[i] \in Nat,
         NEW x \in S, \A i \in S \ {x} : g[i] = f[i]
  PROVE  SumOf(g, S) = SumOf(f, S) + g[x] - f[x]
<1>1. SumOf(f, S \ {x}) = SumOf(g, S \ {x})
  BY DEF SumOf, Units
<1>2. IsFiniteSet(S \ {x})
  BY FS_RemoveElement
<1>3. SumOf(f, S \ {x}) \in Nat
  BY <1>2, UnitsAreFinite
<1>4. SumOf(f, S) = f[x] + SumOf(f, S \ {x}) /\ SumOf(g, S) = g[x] + SumOf(g, S \ {x})
  BY SumSplit
<1> QED
  BY <1>1, <1>3, <1>4

\* What counts for nothing can be left out of a sum.
LEMMA SumRestricted ==
  ASSUME NEW S, NEW f, NEW g, NEW T \in SUBSET S, \A i \in T : f[i] = g[i],
         \A i \in S \ T : f[i] = 0
  PROVE  SumOf(f, S) = SumOf(g, T)
<1>1. Units(f, S) = Units(g, T)
  BY DEF Units
<1> QED
  BY <1>1 DEF SumOf

-----------------------------------------------------------------------------
(* The inductive invariant *)

FileStates == {"none", "open", "read", "bytes", "finish", "done"}

FilesTypes ==
  /\ concurrency \in Nat /\ currentProcNum \in Int
  /\ position \in 1 .. Len(Entries) + 1
  /\ file \in [Positions -> FileStates]
  /\ left \in [Positions -> Nat]
  /\ store \in [Names -> Nat]

\* A directory that is passed over with all that is below it.
Skipped(d) == Entries[d].dir /\ ~Entries[d].err /\ skipDir(d)

\* The walker has started the wanted files before its position, and is not below a directory
\* that it passes over.
StartedInv ==
  /\ \A i \in Positions : file[i] # "none" <=> i < position /\ i \in Wanted
  /\ \A d \in Positions : d < position /\ Skipped(d) => d + Entries[d].below < position

\* What the goroutines have counted is what is in the metrics.
MessagesIn(i) == IF Entries[i].readable THEN Slices(Entries[i].size) ELSE 0
messagesOf ==
  [i \in Positions |-> IF file[i] \in {"none", "open"} THEN 0 ELSE MessagesIn(i) - left[i]]
bytesOf == [i \in Positions |-> IF file[i] \in {"finish", "done"} THEN Entries[i].size ELSE 0]
Sized(t) ==
  {i \in Positions : file[i] \in {"bytes", "finish", "done"} /\ SizeTag(Entries[i].size) = t}

CountsInv ==
  /\ \A i \in Positions : left[i] <= MessagesIn(i) /\ (file[i] \in {"bytes", "finish", "done"} => left[i] = 0)
  /\ store[<<"messages">>] = SumOf(messagesOf, Positions)
  /\ store[<<"bytes">>] = SumOf(bytesOf, Positions)
  /\ \A t \in 0 .. NumTags - 1 : store[<<"size", t>>] = Cardinality(Sized(t))

\* The goroutines of this batch and those that the walker may add to it.
BatchInv ==
  concurrency > 0 =>
    /\ currentProcNum >= 0
    /\ currentProcNum + Cardinality({i \in Positions : Running(i)}) <= concurrency

\* The walker reports when nothing runs and nothing is left to start.
WalkInv ==
  /\ walker \in {"report", "interrupt", "leave", "left", "done"} =>
       position = Len(Entries) + 1 /\ NoneRuns
  /\ ReportIsComplete

FilesInv == FilesTypes /\ StartedInv /\ CountsInv /\ BatchInv /\ WalkInv

\* The walker is in the wait group from its first step to its last, and its goroutine is
\* started once, by the files consumer.
WaitInv ==
  /\ walker \in {"none", "starting", "left", "done"} => workers = 0
  /\ walker \notin {"none", "starting", "left", "done"} => workers = 1
  /\ walker # "none" => plugin[FilesConsumer] \in {"loop", "ended"}
  /\ main \in {"configure", "producers"} => plugin[FilesConsumer] = "none"
  /\ DOMAIN plugin = Plugins

\* When main has waited, the walker has left, or had not counted itself.
SeenInv == main \in {"stop producers", "stopped"} => unseen \/ walker \in {"left", "done"}

\* Every size has a tag.
LEMMA SizeTagInRange == \A n \in Nat : SizeTag(n) \in 0 .. NumTags - 1
<1> SUFFICES ASSUME NEW n \in Nat PROVE SizeTag(n) \in 0 .. NumTags - 1
  OBVIOUS
<1> DEFINE T == {t \in 0 .. (NumTags - 1) : t + 1 = NumTags \/ n < 1000 * 10^t}
<1>1. T \in SUBSET Nat /\ T \subseteq 0 .. NumTags - 1
  BY FilesAssumption
<1>2. NumTags - 1 \in T
  BY FilesAssumption
<1>3. SizeTag(n) = Min(T)
  BY DEF SizeTag
<1> HIDE DEF T
<1>4. Min(T) \in T
  BY <1>1, <1>2, MinExists
<1> QED
  BY <1>1, <1>3, <1>4

\* What the assumptions say of the entries of the walk.
LEMMA EntriesAreTyped ==
  /\ Len(Entries) \in Nat /\ IsFiniteSet(Positions) /\ Positions \subseteq Nat
  /\ \A i \in Positions :
       /\ Entries[i].size \in Nat /\ Entries[i].below \in Nat
       /\ Entries[i].dir \in BOOLEAN /\ Entries[i].err \in BOOLEAN /\ Entries[i].readable \in BOOLEAN
       /\ i + Entries[i].below <= Len(Entries)
       /\ Slices(Entries[i].size) \in Nat /\ MessagesIn(i) \in Nat
       /\ SizeTag(Entries[i].size) \in 0 .. NumTags - 1
<1>1. Len(Entries) \in Nat
  BY FilesAssumption
<1>2. IsFiniteSet(Positions) /\ Positions \subseteq Nat
  BY <1>1, FS_Interval DEF Positions
<1>3. ASSUME NEW i \in Positions
      PROVE  /\ Entries[i].size \in Nat /\ Entries[i].below \in Nat
             /\ Entries[i].dir \in BOOLEAN /\ Entries[i].err \in BOOLEAN /\ Entries[i].readable \in BOOLEAN
  <2> DEFINE R == [path : STRING, base : STRING, dir : BOOLEAN, below : Nat,
                   err : BOOLEAN, size : Nat, readable : BOOLEAN]
  <2>1. Entries \in Seq(R) /\ i \in 1 .. Len(Entries)
    BY FilesAssumption DEF Positions
  <2> HIDE DEF R
  <2>2. Entries[i] \in R
    BY <2>1
  <2> QED
    BY <2>2 DEF R
<1>4. ASSUME NEW n \in Nat PROVE Slices(n) \in Nat
  <2>1. n \in Int /\ SliceSize \in Int /\ SliceSize > 0 /\ n >= 0
    BY FilesAssumption
  <2>2. n \div SliceSize \in Nat
    BY ONLY <2>1, SMTT(30)
  <2> QED
    BY <2>2 DEF Slices
<1>5. ASSUME NEW i \in Positions PROVE MessagesIn(i) \in Nat
  BY <1>3, <1>4 DEF MessagesIn
<1> QED
  BY <1>1, <1>2, <1>3, <1>4, <1>5, SizeTagInRange, FilesAssumption

\* The steps that neither the files nor their metrics see.
Elsewhere == UNCHANGED <<filesVars, store>>

\* The files consumer starts the walker's goroutine.
StartWalker ==
  /\ walker' = "starting"
  /\ UNCHANGED <<concurrency, keepRunning, position, currentProcNum, fileVars, workers, reported, store>>

\* The steps, as the files consumer sees them.
LEMMA FilesSteps ==
  ASSUME [Next]_vars
  PROVE  \/ Elsewhere
         \/ StartWalker
         \/ OwnInterrupt
         \/ Walker
         \/ \E i \in Positions : process(i)
<1> USE DEF Elsewhere, StartWalker, filesVars, walkVars, fileVars, metricVars, otherThanMain
<1>1. CASE Main
  BY <1>1 DEF Main, AskForMetric, LaunchProducers, LaunchConsumers, newSignalHandler, Send, Roll, Exit,
              StopProducers, Stopped, AskForNew
<1>2. ASSUME NEW p \in Plugins, Plugin(p) PROVE Elsewhere \/ StartWalker
  <2>1. CASE Consume(p)
    BY <2>1 DEF Consume
  <2>2. CASE Produce(p) \/ ProduceCounted(p) \/ ControlLoop(p)
    BY <2>2 DEF Produce, ProduceCounted, ControlLoop
  <2> QED
    BY <1>2, <2>1, <2>2 DEF Plugin
<1>3. CASE LateNew \/ CreateMetric
  BY <1>3 DEF LateNew, CreateMetric, AskForNew, New
<1>4. CASE Dump /\ UNCHANGED <<others, filesVars>>
  BY <1>4 DEF Dump, StartUpdate, BeginSet, EndSet, EndUpdate, BeginMarshal, EndMarshal
<1>5. CASE UserSignal
  BY <1>5 DEF UserSignal
<1>6. CASE UNCHANGED vars
  BY <1>6 DEF vars
<1> QED
  BY <1>1, <1>2, <1>3, <1>4, <1>5, <1>6 DEF Next, Work

\* Nothing is read or counted at first.
LEMMA FilesInvInit == Init => FilesInv
<1> SUFFICES ASSUME Init PROVE FilesInv
  OBVIOUS
<1> USE EntriesAreTyped DEF Init, FilesInit, MetricsInit
<1>1. FilesTypes
  BY FilesAssumption DEF FilesTypes, FileStates
<1>2. StartedInv
  BY DEF StartedInv, Positions
<1>3. CountsInv
  <2>1. SumOf(messagesOf, Positions) = 0 /\ SumOf(bytesOf, Positions) = 0
    <3>1. Units(messagesOf, Positions) = {} /\ Units(bytesOf, Positions) = {}
      BY DEF Units, messagesOf, bytesOf
    <3> QED
      BY <3>1, FS_EmptySet DEF SumOf
  <2>2. \A t : Sized(t) = {}
    BY DEF Sized
  <2>3. \A t : Cardinality(Sized(t)) = 0
    BY <2>2, FS_EmptySet
  <2>4. \A t \in 0 .. NumTags - 1 : <<"size", t>> \in Names
    BY FilesAssumption
  <2>5. <<"messages">> \in Names /\ <<"bytes">> \in Names
    BY FilesAssumption
  <2> QED
    BY <2>1, <2>3, <2>4, <2>5 DEF CountsInv
<1>4. BatchInv
  <2>1. {i \in Positions : Running(i)} = {}
    BY DEF Running
  <2>2. Cardinality({i \in Positions : Running(i)}) = 0
    BY <2>1, FS_EmptySet
  <2>3. concurrency > 0 => currentProcNum = 0
    BY <1>1 DEF FilesTypes
  <2> QED
    BY <1>1, <2>2, <2>3 DEF BatchInv, FilesTypes
<1>5. WalkInv
  BY DEF WalkInv, ReportIsComplete
<1> QED
  BY <1>1, <1>2, <1>3, <1>4, <1>5 DEF FilesInv

\* Steps that leave the files consumer alone.
LEMMA FilesElsewhere ==
  ASSUME FilesInv, Elsewhere PROVE FilesInv'
<1> USE DEF FilesInv, Elsewhere, filesVars, walkVars, fileVars
<1>1. FilesTypes'
  BY DEF FilesTypes
<1>2. StartedInv'
  BY DEF StartedInv
<1>3. CountsInv'
  BY DEF CountsInv, messagesOf, bytesOf, Sized
<1>4. BatchInv'
  BY DEF BatchInv, Running
<1>5. WalkInv'
  BY DEF WalkInv, ReportIsComplete, NoneRuns, Running
<1> QED
  BY <1>1, <1>2, <1>3, <1>4, <1>5

\* Steps of the walker that move only the walker.
LEMMA WalkerMoves ==
  ASSUME FilesInv, UNCHANGED <<concurrency, position, currentProcNum, fileVars, store>>
  PROVE  FilesTypes' /\ StartedInv' /\ CountsInv' /\ BatchInv' /\ NoneRuns' = NoneRuns
<1> USE DEF FilesInv, fileVars
<1>1. FilesTypes'
  BY DEF FilesTypes
<1>2. StartedInv'
  BY DEF StartedInv
<1>3. CountsInv'
  BY DEF CountsInv, messagesOf, bytesOf, Sized
<1>4. BatchInv'
  BY DEF BatchInv, Running
<1>5. NoneRuns' = NoneRuns
  BY DEF NoneRuns, Running
<1> QED
  BY <1>1, <1>2, <1>3, <1>4, <1>5

\* When nothing runs and nothing is left to start, the metrics are what is expected.
LEMMA MetricsAreComplete ==
  ASSUME FilesInv, position = Len(Entries) + 1, NoneRuns
  PROVE  store = Expected
<1> USE EntriesAreTyped DEF FilesInv
<1>1. \A i \in Positions : i < position
  BY DEF Positions
<1>2. \A i \in Positions : file[i] \in {"none", "done"} /\ (file[i] = "done" <=> i \in Wanted)
  BY <1>1 DEF NoneRuns, Running, StartedInv
<1>3. Wanted \subseteq Positions
  BY DEF Wanted
<1>4. store[<<"bytes">>] = Total([i \in Positions |-> Entries[i].size], Wanted)
  <2> DEFINE sizes == [i \in Positions |-> Entries[i].size]
  <2>1. \A i \in Wanted : bytesOf[i] = sizes[i]
    BY <1>2, <1>3 DEF bytesOf
  <2>2. \A i \in Positions \ Wanted : bytesOf[i] = 0
    BY <1>2 DEF bytesOf
  <2>3. IsFiniteSet(Wanted) /\ \A i \in Wanted : sizes[i] \in Nat
    BY <1>3, FS_Subset
  <2>4. SumOf(bytesOf, Positions) = SumOf(sizes, Wanted)
    <3> HIDE DEF sizes
    <3>1. Wanted \in SUBSET Positions
      BY <1>3
    <3> QED
      BY ONLY <3>1, <2>1, <2>2, SumRestricted
  <2>5. Total(sizes, Wanted) = SumOf(sizes, Wanted)
    BY <2>3, TotalIsSum
  <2> QED
    BY <2>4, <2>5 DEF CountsInv
<1>5. store[<<"messages">>]
        = Total([i \in Positions |-> Slices(Entries[i].size)], {i \in Wanted : Entries[i].readable})
  <2> DEFINE slices == [i \in Positions |-> Slices(Entries[i].size)]
             readable == {i \in Wanted : Entries[i].readable}
  <2>1. \A i \in readable : messagesOf[i] = slices[i]
    <3> TAKE i \in readable
    <3>1. i \in Positions /\ file[i] = "done" /\ Entries[i].readable
      BY <1>2, <1>3
    <3>2. left[i] = 0
      BY <3>1 DEF CountsInv
    <3>3. messagesOf[i] = MessagesIn(i) - 0
      BY <3>1, <3>2 DEF messagesOf
    <3> QED
      BY <3>1, <3>3 DEF MessagesIn
  <2>2. \A i \in Positions \ readable : messagesOf[i] = 0
    BY <1>2 DEF messagesOf, MessagesIn, CountsInv, FilesTypes
  <2>3. readable \in SUBSET Positions
    BY <1>3
  <2>4. IsFiniteSet(readable) /\ \A i \in readable : slices[i] \in Nat
    BY <2>3, FS_Subset
  <2> HIDE DEF slices, readable
  <2>5. SumOf(messagesOf, Positions) = SumOf(slices, readable)
    BY ONLY <2>1, <2>2, <2>3, SumRestricted
  <2>6. Total(slices, readable) = SumOf(slices, readable)
    BY <2>4, TotalIsSum
  <2> QED
    BY <2>5, <2>6 DEF CountsInv, slices, readable
<1>6. ASSUME NEW t \in 0 .. NumTags - 1
      PROVE  store[<<"size", t>>] = Cardinality({i \in Wanted : SizeTag(Entries[i].size) = t})
  <2>1. Sized(t) = {i \in Wanted : SizeTag(Entries[i].size) = t}
    BY <1>2, <1>3 DEF Sized
  <2> QED
    BY <2>1 DEF CountsInv
<1>7. ASSUME NEW n \in Names PROVE store[n] = Expected[n]
  <2>1. CASE n = <<"bytes">>
    <3>1. n[1] = "bytes"
      BY <2>1
    <3>2. Expected[n] = Total([i \in Positions |-> Entries[i].size], Wanted)
      BY <3>1 DEF Expected
    <3> QED
      BY <1>4, <2>1, <3>2
  <2>2. CASE n = <<"messages">>
    <3>1. n[1] = "messages"
      BY <2>2
    <3>2. Expected[n] = Total([i \in Positions |-> Slices(Entries[i].size)],
                              {i \in Wanted : Entries[i].readable})
      BY <3>1 DEF Expected
    <3> QED
      BY <1>5, <2>2, <3>2
  <2>3. ASSUME NEW t \in 0 .. NumTags - 1, n = <<"size", t>> PROVE store[n] = Expected[n]
    <3>1. n[1] = "size" /\ n[2] = t
      BY <2>3
    <3>2. Expected[n] = Cardinality({i \in Wanted : SizeTag(Entries[i].size) = t})
      BY <3>1 DEF Expected
    <3> QED
      BY <1>6, <2>3, <3>2
  <2> QED
    BY <2>1, <2>2, <2>3, FilesAssumption
<1> QED
  BY <1>7 DEF Expected, FilesTypes

\* The walker starts and leaves,
LEMMA WalkerStarts ==
  ASSUME FilesInv, StartWalker \/ OwnInterrupt \/ AddMainWorker \/ StartWalk \/ WorkerDone \/ Leave
  PROVE  FilesInv'
<1>1. /\ UNCHANGED <<concurrency, position, currentProcNum, fileVars, store, reported>>
      /\ \/ walker' \in {"starting", "counted", "steps"}
         \/ walker = "interrupt" /\ walker' = "leave"
         \/ walker = "leave" /\ walker' = "left"
         \/ walker = "left" /\ walker' = "done"
  BY DEF StartWalker, OwnInterrupt, AddMainWorker, StartWalk, WorkerDone, Leave, metricVars, fileVars
<1>2. FilesTypes' /\ StartedInv' /\ CountsInv' /\ BatchInv' /\ NoneRuns' = NoneRuns
  BY <1>1, WalkerMoves
<1>3. WalkInv'
  BY <1>1, <1>2 DEF FilesInv, WalkInv, ReportIsComplete
<1> QED
  BY <1>2, <1>3 DEF FilesInv

\* and adds up what has been counted when nothing runs.
LEMMA WalkerReports ==
  ASSUME FilesInv, waitAllComplete \/ dumpMetric
  PROVE  FilesInv'
<1>1. CASE dumpMetric
  <2> USE <1>1 DEF dumpMetric
  <2>1. FilesTypes' /\ StartedInv' /\ CountsInv' /\ BatchInv' /\ NoneRuns' = NoneRuns
    BY WalkerMoves DEF metricVars
  <2>2. store = Expected
    BY MetricsAreComplete DEF FilesInv, WalkInv
  <2>3. WalkInv'
    BY <2>1, <2>2 DEF FilesInv, WalkInv, ReportIsComplete
  <2> QED
    BY <2>1, <2>3 DEF FilesInv
<1>2. CASE waitAllComplete
  <2> USE <1>2 DEF waitAllComplete, FilesInv, fileVars, metricVars
  <2>1. FilesTypes'
    BY DEF FilesTypes
  <2>2. StartedInv'
    BY DEF StartedInv
  <2>3. CountsInv'
    BY DEF CountsInv, messagesOf, bytesOf, Sized
  <2>4. BatchInv'
    <3>1. {i \in Positions : Running(i)}' = {}
      BY DEF NoneRuns, Running
    <3>2. Cardinality({i \in Positions : Running(i)}') = 0
      BY <3>1, FS_EmptySet
    <3> QED
      BY <3>2 DEF BatchInv, FilesTypes
  <2>5. WalkInv'
    BY EntriesAreTyped DEF WalkInv, ReportIsComplete, FilesTypes, NoneRuns, Running
  <2> QED
    BY <2>1, <2>2, <2>3, <2>4, <2>5
<1> QED
  BY <1>1, <1>2

\* What MayStep gives the walker: room in the batch, or a new batch.
LEMMA BatchRefilled ==
  ASSUME FilesInv, MayStep, concurrency > 0
  PROVE  /\ Refilled \in Nat /\ Refilled > 0
         /\ Refilled + Cardinality({i \in Positions : Running(i)}) <= concurrency
<1> DEFINE running == {i \in Positions : Running(i)}
<1>1. concurrency \in Nat /\ currentProcNum \in Int
  BY DEF FilesInv, FilesTypes
<1>2. CASE currentProcNum # 0
  BY <1>1, <1>2 DEF FilesInv, BatchInv, Refilled
<1>3. CASE NoneRuns /\ currentProcNum = 0
  <2>1. running = {}
    BY <1>3 DEF NoneRuns
  <2>2. Cardinality(running) = 0
    BY <2>1, FS_EmptySet
  <2> QED
    BY <1>1, <1>3, <2>2 DEF Refilled
<1> QED
  BY <1>2, <1>3 DEF MayStep

\* The budget is a number.
LEMMA RefilledIsInt == ASSUME FilesTypes PROVE Refilled \in Int
  BY DEF FilesTypes, Refilled

\* What is passed over is not wanted, nor what is below it.
LEMMA WalkerPasses ==
  ASSUME FilesInv, Pass
  PROVE  FilesInv'
<1> USE DEF Pass, FilesInv, fileVars, metricVars
<1> USE EntriesAreTyped
<1>1. /\ position \in Positions /\ walker = "steps"
      /\ UNCHANGED <<concurrency, walker, file, left, reported, store>>
  BY DEF Positions, FilesTypes
<1>2. \/ /\ position' = position + 1
         /\ Entries[position].err \/ Entries[position].dir \/ skipFile(position)
         /\ ~Skipped(position)
      \/ position' = position + 1 + Entries[position].below /\ Skipped(position)
  BY <1>1 DEF Skipped
<1>3. position < position' /\ position' \in 1 .. Len(Entries) + 1
  BY <1>1, <1>2 DEF Positions
<1>4. FilesTypes'
  BY <1>1, <1>3, RefilledIsInt DEF FilesTypes
<1>5. StartedInv'
  <2>1. ASSUME NEW i \in Positions, position <= i, i < position' PROVE i \notin Wanted
    <3>1. CASE i = position
      BY <1>2, <3>1 DEF Wanted, Skipped
    <3>2. CASE i > position
      <4>1. Skipped(position) /\ i <= position + Entries[position].below
        BY <1>1, <1>2, <1>3, <2>1, <3>2
      <4>2. position \in 1 .. (i - 1)
        BY <1>1, <3>2 DEF Positions
      <4> QED
        BY <4>1, <4>2 DEF Wanted, Skipped
    <3>3. i = position \/ i > position
      BY ONLY <2>1, <1>1, EntriesAreTyped
    <3> QED
      BY ONLY <3>1, <3>2, <3>3
  <2>2. \A i \in Positions : file[i] # "none" <=> i < position' /\ i \in Wanted
    <3> TAKE i \in Positions
    <3>1. i \in Nat /\ position \in Nat /\ position' \in Nat
      BY ONLY <1>1, <1>3, i \in Positions, EntriesAreTyped
    <3>2. i < position' => i < position \/ (position <= i /\ i < position')
      BY ONLY <3>1
    <3>3. i < position => i < position'
      BY ONLY <3>1, <1>3
    <3> QED
      BY <2>1, <3>2, <3>3 DEF StartedInv
  <2>3. ASSUME NEW d \in Positions, d < position', Skipped(d)
        PROVE  d + Entries[d].below < position'
    <3>1. CASE d < position
      <4>1. d + Entries[d].below < position
        BY <2>3, <3>1 DEF StartedInv
      <4>2. d + Entries[d].below \in Int /\ position \in Int /\ position' \in Int /\ position < position'
        BY ONLY <1>1, <1>3, <2>3, EntriesAreTyped
      <4> QED
        BY ONLY <4>1, <4>2
    <3>2. CASE d = position
      <4>1. position' = position + 1 + Entries[position].below
        BY ONLY <1>2, <2>3, <3>2
      <4>2. position \in Nat /\ Entries[position].below \in Nat
        BY ONLY <1>1, EntriesAreTyped
      <4> QED
        BY ONLY <3>2, <4>1, <4>2
    <3>3. CASE d > position
      <4>1. Skipped(position) /\ position' = position + 1 + Entries[position].below
        <5>1. position \in Nat /\ d \in Nat
          BY ONLY <1>1, <2>3, EntriesAreTyped
        <5>2. position' # position + 1
          BY ONLY <2>3, <3>3, <5>1
        <5> QED
          BY ONLY <1>2, <5>2
      <4>2. d \in (position + 1) .. (position + Entries[position].below)
        <5>1. d \in Nat /\ position \in Nat /\ Entries[position].below \in Nat
          BY ONLY <1>1, <2>3, EntriesAreTyped
        <5> QED
          BY ONLY <1>1, <2>3, <3>3, <4>1, <5>1
      <4>3. d + Entries[d].below <= position + Entries[position].below
        BY <1>1, <4>2, FilesAssumption
      <4>4. d \in Nat /\ Entries[d].below \in Nat /\ position \in Nat /\ Entries[position].below \in Nat
        BY ONLY <1>1, <2>3, EntriesAreTyped
      <4> QED
        BY ONLY <4>1, <4>3, <4>4
    <3>4. d < position \/ d = position \/ d > position
      BY ONLY <1>1, <2>3, EntriesAreTyped
    <3> QED
      BY ONLY <3>1, <3>2, <3>3, <3>4
  <2> QED
    BY <1>1, <2>2, <2>3 DEF StartedInv, Skipped, Wanted
<1>6. CountsInv'
  BY <1>1 DEF CountsInv, messagesOf, bytesOf, Sized
<1>7. BatchInv'
  <2> DEFINE running == {i \in Positions : Running(i)}
  <2>1. running' = running
    BY <1>1 DEF Running
  <2>2. concurrency' = concurrency /\ currentProcNum' = Refilled
    OBVIOUS
  <2>3. concurrency > 0 => Refilled \in Nat /\ Refilled + Cardinality(running) <= concurrency
    BY BatchRefilled
  <2> HIDE DEF running
  <2>4. concurrency' > 0 => currentProcNum' >= 0 /\ currentProcNum' + Cardinality(running') <= concurrency'
    BY ONLY <2>1, <2>2, <2>3
  <2> QED
    BY <2>4 DEF BatchInv, running
<1>8. WalkInv'
  BY <1>1 DEF WalkInv, ReportIsComplete
<1> QED
  BY <1>4, <1>5, <1>6, <1>7, <1>8

\* The walker starts a file that is wanted, within its budget.
LEMMA WalkerStartsFile ==
  ASSUME FilesInv, goConcurrency
  PROVE  FilesInv'
<1> USE DEF goConcurrency, FilesInv, fileVars, metricVars
<1> USE EntriesAreTyped
<1>1. /\ position \in Positions /\ walker = "steps"
      /\ UNCHANGED <<concurrency, walker, left, reported, store>>
      /\ position' = position + 1
      /\ file' = [file EXCEPT ![position] = "open"]
  BY DEF Positions, FilesTypes
<1>2. file \in [Positions -> FileStates] /\ file[position] = "none"
  BY <1>1 DEF FilesTypes, StartedInv
<1>3. FilesTypes'
  BY <1>1, RefilledIsInt DEF FilesTypes, FileStates, Positions
<1>4. StartedInv'
  <2>1. position \in Wanted
    <3>1. ASSUME NEW d \in 1 .. (position - 1), Skipped(d), position <= d + Entries[d].below
          PROVE  FALSE
      <4>1. d \in Positions /\ d < position
        BY <1>1 DEF Positions
      <4>2. d + Entries[d].below < position
        BY <3>1, <4>1 DEF StartedInv
      <4>3. d \in Nat /\ Entries[d].below \in Nat /\ position \in Nat
        BY <1>1, <4>1
      <4> QED
        BY ONLY <3>1, <4>2, <4>3
    <3> QED
      BY <1>1, <3>1 DEF Wanted, Skipped
  <2>2. ~Skipped(position)
    BY DEF Skipped
  <2>3. \A i \in Positions : file'[i] # "none" <=> i < position' /\ i \in Wanted
    BY <1>1, <1>2, <2>1 DEF StartedInv, FilesTypes
  <2>4. \A d \in Positions : d < position' /\ Skipped(d) => d + Entries[d].below < position'
    <3>1. ASSUME NEW d \in Positions, d < position', Skipped(d)
          PROVE  d + Entries[d].below < position'
      <4>1. d \in Nat /\ Entries[d].below \in Nat /\ position \in Nat
        BY ONLY <1>1, <3>1, EntriesAreTyped
      <4>2. d < position
        BY ONLY <1>1, <2>2, <3>1, <4>1
      <4>3. d + Entries[d].below < position
        BY <3>1, <4>2 DEF StartedInv
      <4> QED
        BY ONLY <1>1, <4>1, <4>3
    <3> QED
      BY <3>1
  <2> QED
    BY <2>3, <2>4 DEF StartedInv, Skipped, Wanted
<1>5. CountsInv'
  <2>1. messagesOf' = messagesOf /\ bytesOf' = bytesOf /\ \A t : Sized(t)' = Sized(t)
    BY <1>1, <1>2 DEF messagesOf, bytesOf, Sized
  <2> QED
    BY <1>1, <1>2, <2>1 DEF CountsInv
<1>6. BatchInv'
  <2> DEFINE running == {i \in Positions : Running(i)}
  <2>1. running' = running \cup {position}
    BY <1>1, <1>2 DEF Running
  <2>2. IsFiniteSet(running)
    BY FS_Subset
  <2>3. /\ Cardinality(running) \in Nat
        /\ Cardinality(running') \in {Cardinality(running), Cardinality(running) + 1}
    <3> HIDE DEF running
    <3> QED
      BY ONLY <2>1, <2>2, FS_AddElement, FS_CardinalityType
  <2>4. concurrency' = concurrency /\ currentProcNum' = Refilled - 1
    OBVIOUS
  <2> HIDE DEF running
  <2>5. concurrency > 0 => Refilled \in Nat /\ Refilled > 0 /\ Refilled + Cardinality(running) <= concurrency
    BY BatchRefilled DEF running
  <2>6. concurrency \in Nat
    BY DEF FilesTypes
  <2>7. concurrency' > 0 => currentProcNum' >= 0 /\ currentProcNum' + Cardinality(running') <= concurrency'
    BY ONLY <2>3, <2>4, <2>5, <2>6
  <2> QED
    BY <2>7 DEF BatchInv, running
<1>7. WalkInv'
  BY <1>1 DEF WalkInv, ReportIsComplete
<1> QED
  BY <1>3, <1>4, <1>5, <1>6, <1>7

\* Steps of the goroutine of a file: it stays started, and no other goroutine starts or moves.
LEMMA FileMoves ==
  ASSUME FilesInv, NEW i \in Positions, file[i] \notin {"none", "done"},
         NEW s \in FileStates \ {"none"},
         file' = [file EXCEPT ![i] = s], UNCHANGED <<concurrency, position, currentProcNum, walker, reported>>
  PROVE  /\ StartedInv' /\ BatchInv' /\ WalkInv'
         /\ file' \in [Positions -> FileStates]
<1>1. file \in [Positions -> FileStates]
  BY DEF FilesInv, FilesTypes
<1>2. StartedInv'
  <2>1. \A k \in Positions : file'[k] # "none" <=> file[k] # "none"
    BY <1>1
  <2> QED
    BY <2>1 DEF FilesInv, StartedInv, Skipped, Wanted
<1>3. BatchInv'
  <2> DEFINE running == {k \in Positions : Running(k)}
  <2>1. running' \in SUBSET running
    BY <1>1 DEF Running
  <2>2. IsFiniteSet(running)
    BY EntriesAreTyped, FS_Subset
  <2>3. concurrency \in Nat /\ currentProcNum \in Int
    BY DEF FilesInv, FilesTypes
  <2> HIDE DEF running
  <2>4. Cardinality(running') <= Cardinality(running) /\ Cardinality(running) \in Nat /\ Cardinality(running') \in Nat
    BY ONLY <2>1, <2>2, FS_Subset, FS_CardinalityType
  <2>5. concurrency > 0 => currentProcNum >= 0 /\ currentProcNum + Cardinality(running) <= concurrency
    BY DEF FilesInv, BatchInv, running
  <2>6. concurrency' > 0 => currentProcNum' >= 0 /\ currentProcNum' + Cardinality(running') <= concurrency'
    BY <2>3, <2>4, <2>5
  <2> QED
    BY <2>6 DEF BatchInv, running
<1>4. WalkInv'
  <2>1. ~NoneRuns
    BY DEF NoneRuns, Running
  <2> QED
    BY <2>1 DEF FilesInv, WalkInv, ReportIsComplete
<1> QED
  BY <1>1, <1>2, <1>3, <1>4

\* A sum grows by what one file adds to it.
LEMMA CountsAreTyped ==
  ASSUME FilesInv
  PROVE  \A i \in Positions : messagesOf[i] \in Nat /\ bytesOf[i] \in Nat
<1> SUFFICES ASSUME NEW i \in Positions PROVE messagesOf[i] \in Nat /\ bytesOf[i] \in Nat
  OBVIOUS
<1>1. left[i] \in Nat /\ left[i] <= MessagesIn(i)
  BY DEF FilesInv, FilesTypes, CountsInv
<1> QED
  BY <1>1, EntriesAreTyped DEF messagesOf, bytesOf

\* A file is opened, or cannot be,
LEMMA OpenKeeps ==
  ASSUME FilesInv, NEW i \in Positions, Open(i)
  PROVE  FilesInv'
<1> USE DEF Open
<1>1. /\ file' = [file EXCEPT ![i] = "read"] /\ left' = [left EXCEPT ![i] = MessagesIn(i)]
      /\ file \in [Positions -> FileStates] /\ left \in [Positions -> Nat] /\ file[i] = "open"
      /\ UNCHANGED <<concurrency, position, currentProcNum, walker, reported, store>>
  BY DEF FilesInv, FilesTypes, MessagesIn, walkVars, metricVars
<1>2. StartedInv' /\ BatchInv' /\ WalkInv' /\ file' \in [Positions -> FileStates]
  BY <1>1, FileMoves DEF FileStates
<1>3. FilesTypes'
  BY <1>1, <1>2, EntriesAreTyped DEF FilesInv, FilesTypes
<1>4. CountsInv'
  <2>1. messagesOf' = messagesOf
    <3>1. MessagesIn(i) - MessagesIn(i) = 0
      BY EntriesAreTyped
    <3> QED
      BY <1>1, <3>1 DEF messagesOf
  <2>2. bytesOf' = bytesOf /\ \A t : Sized(t)' = Sized(t)
    BY <1>1 DEF bytesOf, Sized
  <2>3. \A k \in Positions : /\ left'[k] <= MessagesIn(k)
                             /\ file'[k] \in {"bytes", "finish", "done"} => left'[k] = 0
    BY <1>1, EntriesAreTyped DEF FilesInv, CountsInv
  <2> QED
    BY <1>1, <2>1, <2>2, <2>3 DEF FilesInv, CountsInv, MessagesIn
<1> QED
  BY <1>2, <1>3, <1>4 DEF FilesInv

\* a message of it is read,
LEMMA ProcessKeeps ==
  ASSUME FilesInv, NEW i \in Positions, Process(i)
  PROVE  FilesInv'
<1> USE DEF Process, Change
<1>1. /\ left' = [left EXCEPT ![i] = left[i] - 1] /\ left[i] > 0
      /\ file \in [Positions -> FileStates] /\ left \in [Positions -> Nat] /\ file[i] = "read"
      /\ UNCHANGED <<file, concurrency, position, currentProcNum, walker, reported>>
      /\ store' = [store EXCEPT ![<<"messages">>] = store[<<"messages">>] + 1]
      /\ store \in [Names -> Nat] /\ <<"messages">> \in Names
  BY FilesAssumption DEF FilesInv, FilesTypes, walkVars
<1>2. file' = [file EXCEPT ![i] = "read"]
  BY <1>1
<1>3. StartedInv' /\ BatchInv' /\ WalkInv' /\ file' \in [Positions -> FileStates]
  BY <1>1, <1>2, FileMoves DEF FileStates
<1>4. FilesTypes'
  BY <1>1, <1>3 DEF FilesInv, FilesTypes
<1>5. \A k \in Positions : /\ left'[k] <= MessagesIn(k)
                           /\ file'[k] \in {"bytes", "finish", "done"} => left'[k] = 0
  BY <1>1, EntriesAreTyped DEF FilesInv, CountsInv
<1>6. SumOf(messagesOf, Positions)' = SumOf(messagesOf, Positions) + 1
  <2> DEFINE m == messagesOf
  <2>1. \A k \in Positions : m[k] \in Nat
    BY CountsAreTyped
  <2>2. left[i] <= MessagesIn(i) /\ MessagesIn(i) \in Nat
    BY EntriesAreTyped DEF FilesInv, CountsInv
  <2>3. m'[i] = m[i] + 1
    BY <1>1, <2>2 DEF messagesOf
  <2>4. \A k \in Positions \ {i} : m'[k] = m[k]
    BY <1>1 DEF messagesOf
  <2> HIDE DEF m
  <2>5. \A k \in Positions : m'[k] \in Nat
    BY <2>1, <2>3, <2>4
  <2>6. SumOf(m', Positions) = SumOf(m, Positions) + m'[i] - m[i]
    <3>1. IsFiniteSet(Positions) /\ i \in Positions
      BY EntriesAreTyped
    <3>2. \A k \in Positions : m[k] \in Nat /\ m'[k] \in Nat
      BY <2>1, <2>5
    <3>3. ASSUME NEW f, NEW g, f = m, g = m'
          PROVE  SumOf(g, Positions) = SumOf(f, Positions) + g[i] - f[i]
      <4>1. \A k \in Positions : f[k] \in Nat /\ g[k] \in Nat
        BY <3>2, <3>3
      <4>2. \A k \in Positions \ {i} : g[k] = f[k]
        BY <2>4, <3>3
      <4> QED
        BY ONLY <3>1, <4>1, <4>2, SumChanged
    <3> QED
      BY <3>3
  <2>7. SumOf(m, Positions) \in Nat /\ m[i] \in Nat
    BY <2>1, UnitsAreFinite, EntriesAreTyped
  <2>8. SumOf(m', Positions) = SumOf(m, Positions) + 1
    BY <2>3, <2>6, <2>7
  <2> QED
    BY <2>8 DEF m, SumOf, Units
<1>7. CountsInv'
  <2>1. bytesOf' = bytesOf /\ \A t : Sized(t)' = Sized(t)
    BY <1>1 DEF bytesOf, Sized
  <2>2. store'[<<"messages">>] = store[<<"messages">>] + 1 /\ store'[<<"bytes">>] = store[<<"bytes">>]
    BY <1>1
  <2>3. \A t \in 0 .. NumTags - 1 : store'[<<"size", t>>] = store[<<"size", t>>]
    BY <1>1
  <2> QED
    BY <1>5, <1>6, <2>1, <2>2, <2>3 DEF FilesInv, CountsInv, MessagesIn
<1> QED
  BY <1>3, <1>4, <1>7 DEF FilesInv

\* its size is counted by its tag,
LEMMA statisticFilesKeeps ==
  ASSUME FilesInv, NEW i \in Positions, statisticFiles(i)
  PROVE  FilesInv'
<1> DEFINE tag == SizeTag(Entries[i].size)
<1> USE DEF statisticFiles, Change
<1>0. tag \in 0 .. NumTags - 1 /\ <<"size", tag>> \in Names
  BY EntriesAreTyped, FilesAssumption
<1>1. /\ file' = [file EXCEPT ![i] = "bytes"] /\ left[i] = 0
      /\ file \in [Positions -> FileStates] /\ left \in [Positions -> Nat] /\ file[i] = "read"
      /\ UNCHANGED <<left, concurrency, position, currentProcNum, walker, reported>>
      /\ store' = [store EXCEPT ![<<"size", tag>>] = store[<<"size", tag>>] + 1]
      /\ store \in [Names -> Nat]
  BY DEF FilesInv, FilesTypes, walkVars
<1> HIDE DEF tag
<1>2. StartedInv' /\ BatchInv' /\ WalkInv' /\ file' \in [Positions -> FileStates]
  BY <1>1, FileMoves DEF FileStates
<1>3. FilesTypes'
  <2>1. store' \in [Names -> Nat]
    BY <1>0, <1>1
  <2> QED
    BY <1>1, <1>2, <2>1 DEF FilesInv, FilesTypes
<1>4. CountsInv'
  <2>1. messagesOf' = messagesOf /\ bytesOf' = bytesOf
    BY <1>1 DEF messagesOf, bytesOf
  <2>2. \A k \in Positions : /\ left'[k] <= MessagesIn(k)
                             /\ file'[k] \in {"bytes", "finish", "done"} => left'[k] = 0
    BY <1>1 DEF FilesInv, CountsInv
  <2>3. store'[<<"messages">>] = store[<<"messages">>] /\ store'[<<"bytes">>] = store[<<"bytes">>]
    BY <1>1
  <2>4. ASSUME NEW t \in 0 .. NumTags - 1 PROVE store'[<<"size", t>>] = Cardinality(Sized(t))'
    <3>1. <<"size", t>> \in Names /\ store[<<"size", t>>] = Cardinality(Sized(t))
      BY FilesAssumption DEF FilesInv, CountsInv
    <3>2. CASE t # tag
      <4>1. Sized(t)' = Sized(t)
        BY <1>1, <3>2 DEF Sized, tag
      <4>2. store'[<<"size", t>>] = store[<<"size", t>>]
        BY <1>0, <1>1, <3>1, <3>2
      <4> QED
        BY <3>1, <4>1, <4>2
    <3>3. CASE t = tag
      <4>1. Sized(t)' = Sized(t) \cup {i} /\ i \notin Sized(t)
        BY <1>1, <3>3 DEF Sized, tag
      <4>2. IsFiniteSet(Sized(t))
        BY EntriesAreTyped, FS_Subset DEF Sized
      <4>3. Cardinality(Sized(t) \cup {i}) = Cardinality(Sized(t)) + 1
        BY <4>1, <4>2, FS_AddElement
      <4>4. store'[<<"size", t>>] = store[<<"size", t>>] + 1
        BY <1>0, <1>1, <3>3
      <4> QED
        BY <3>1, <4>1, <4>3, <4>4
    <3> QED
      BY <3>2, <3>3
  <2> QED
    BY <2>1, <2>2, <2>3, <2>4 DEF FilesInv, CountsInv, MessagesIn
<1> QED
  BY <1>2, <1>3, <1>4 DEF FilesInv

\* its bytes are counted,
LEMMA CountBytesKeeps ==
  ASSUME FilesInv, NEW i \in Positions, CountBytes(i)
  PROVE  FilesInv'
<1> USE DEF CountBytes, Change
<1>1. /\ file' = [file EXCEPT ![i] = "finish"]
      /\ file \in [Positions -> FileStates] /\ file[i] = "bytes"
      /\ UNCHANGED <<left, concurrency, position, currentProcNum, walker, reported>>
      /\ store' = [store EXCEPT ![<<"bytes">>] = store[<<"bytes">>] + Entries[i].size]
      /\ store \in [Names -> Nat] /\ <<"bytes">> \in Names
  BY FilesAssumption DEF FilesInv, FilesTypes, walkVars
<1>2. StartedInv' /\ BatchInv' /\ WalkInv' /\ file' \in [Positions -> FileStates]
  BY <1>1, FileMoves DEF FileStates
<1>3. FilesTypes'
  <2>1. Entries[i].size \in Nat
    BY EntriesAreTyped
  <2>2. store' \in [Names -> Nat]
    BY ONLY <1>1, <2>1
  <2> QED
    BY <1>1, <1>2, <2>2 DEF FilesInv, FilesTypes
<1>4. SumOf(bytesOf, Positions)' = SumOf(bytesOf, Positions) + Entries[i].size
  <2> DEFINE b == bytesOf
  <2>1. \A k \in Positions : b[k] \in Nat
    BY CountsAreTyped
  <2>2. b[i] = 0 /\ b'[i] = Entries[i].size
    BY <1>1 DEF bytesOf
  <2>3. \A k \in Positions \ {i} : b'[k] = b[k]
    BY <1>1 DEF bytesOf
  <2>4. IsFiniteSet(Positions) /\ Entries[i].size \in Nat
    BY EntriesAreTyped
  <2> HIDE DEF b
  <2>5. ASSUME NEW f, NEW g, f = b, g = b'
        PROVE  SumOf(g, Positions) = SumOf(f, Positions) + g[i] - f[i]
    <3>1. \A k \in Positions : f[k] \in Nat /\ g[k] \in Nat
      BY <2>1, <2>2, <2>3, <2>4, <2>5
    <3>2. \A k \in Positions \ {i} : g[k] = f[k]
      BY <2>3, <2>5
    <3>3. IsFiniteSet(Positions) /\ i \in Positions
      BY <2>4
    <3> QED
      BY ONLY <3>1, <3>2, <3>3, SumChanged
  <2>6. SumOf(b', Positions) = SumOf(b, Positions) + b'[i] - b[i]
    BY <2>5
  <2>7. SumOf(b, Positions) \in Nat
    BY <2>1, <2>4, UnitsAreFinite
  <2>8. SumOf(b', Positions) = SumOf(b, Positions) + Entries[i].size
    BY <2>2, <2>4, <2>6, <2>7
  <2> QED
    BY <2>8 DEF b, SumOf, Units
<1>5. CountsInv'
  <2>1. messagesOf' = messagesOf /\ \A t : Sized(t)' = Sized(t)
    BY <1>1 DEF messagesOf, Sized
  <2>2. \A k \in Positions : /\ left'[k] <= MessagesIn(k)
                             /\ file'[k] \in {"bytes", "finish", "done"} => left'[k] = 0
    BY <1>1 DEF FilesInv, CountsInv
  <2>3. /\ store'[<<"bytes">>] = store[<<"bytes">>] + Entries[i].size
        /\ store'[<<"messages">>] = store[<<"messages">>]
    BY <1>1
  <2>4. \A t \in 0 .. NumTags - 1 : store'[<<"size", t>>] = store[<<"size", t>>]
    BY <1>1
  <2> QED
    BY <1>4, <2>1, <2>2, <2>3, <2>4 DEF FilesInv, CountsInv, MessagesIn
<1> QED
  BY <1>2, <1>3, <1>5 DEF FilesInv

\* and it is done with.
LEMMA DoneKeeps ==
  ASSUME FilesInv, NEW i \in Positions, Done(i)
  PROVE  FilesInv'
<1>1. /\ file' = [file EXCEPT ![i] = "done"]
      /\ file \in [Positions -> FileStates] /\ file[i] = "finish"
      /\ UNCHANGED <<left, concurrency, position, currentProcNum, walker, reported, store>>
  BY DEF Done, FilesInv, FilesTypes, walkVars, metricVars
<1>2. StartedInv' /\ BatchInv' /\ WalkInv' /\ file' \in [Positions -> FileStates]
  BY <1>1, FileMoves DEF FileStates
<1>3. FilesTypes'
  BY <1>1, <1>2 DEF FilesInv, FilesTypes
<1>4. CountsInv'
  BY <1>1 DEF FilesInv, CountsInv, messagesOf, bytesOf, Sized, MessagesIn
<1> QED
  BY <1>2, <1>3, <1>4 DEF FilesInv

\* Every step keeps what is known of the files.
LEMMA FilesInvStep == FilesInv /\ [Next]_vars => FilesInv'
<1> SUFFICES ASSUME FilesInv, [Next]_vars PROVE FilesInv'
  OBVIOUS
<1>1. CASE Elsewhere
  BY <1>1, FilesElsewhere
<1>2. CASE Walker \/ StartWalker \/ OwnInterrupt
  BY <1>2, WalkerStarts, WalkerReports, WalkerPasses, WalkerStartsFile DEF Walker
<1>3. ASSUME NEW i \in Positions, process(i) PROVE FilesInv'
  BY <1>3, OpenKeeps, ProcessKeeps, statisticFilesKeeps, CountBytesKeeps, DoneKeeps DEF process
<1> QED
  BY <1>1, <1>2, <1>3, FilesSteps

\* The report of the walker is complete: every wanted file is in it once, with its size, its
\* bytes and its messages (start, process and dumpMetric in consumer/files.go).
THEOREM ReportsAreComplete == Spec => []ReportIsComplete
<1>1. FilesInv => ReportIsComplete
  BY DEF FilesInv, WalkInv
<1> QED
  BY <1>1, FilesInvInit, FilesInvStep, PTL DEF Spec

\* A positive concurrency bounds the files that are read at a time, although the walker only
\* counts down and waits for a whole batch (monitorConcurrency, goConcurrency).
THEOREM ConcurrencyIsKept == Spec => []WithinConcurrency
<1>1. FilesInv => WithinConcurrency
  <2> SUFFICES ASSUME FilesInv, concurrency > 0
               PROVE  Cardinality({i \in Positions : Running(i)}) <= concurrency
    BY DEF WithinConcurrency
  <2> DEFINE running == {i \in Positions : Running(i)}
  <2>1. currentProcNum >= 0 /\ currentProcNum + Cardinality(running) <= concurrency
    BY DEF FilesInv, BatchInv
  <2>2. concurrency \in Nat /\ currentProcNum \in Int
    BY DEF FilesInv, FilesTypes
  <2>3. Cardinality(running) \in Nat
    BY EntriesAreTyped, FS_Subset, FS_CardinalityType
  <2> HIDE DEF running
  <2>4. Cardinality(running) <= concurrency
    BY <2>1, <2>2, <2>3
  <2> QED
    BY <2>4 DEF running
<1> QED
  BY <1>1, FilesInvInit, FilesInvStep, PTL DEF Spec

-----------------------------------------------------------------------------
(* The order of shutdown *)

\* Consumers and producers are plugins.
LEMMA PluginsOfBoth ==
  /\ Range(Consumers) \subseteq Plugins /\ Range(Producers) \subseteq Plugins
  /\ FilesConsumer \in Plugins
<1> DEFINE both == Consumers \o Producers
<1>1. /\ Len(Consumers) \in Nat /\ DOMAIN Consumers = 1 .. Len(Consumers)
      /\ Len(Producers) \in Nat /\ DOMAIN Producers = 1 .. Len(Producers)
  BY StartupAssumption
<1>2. /\ DOMAIN both = 1 .. Len(Consumers) + Len(Producers)
      /\ \A i \in 1 .. Len(Consumers) + Len(Producers) :
           both[i] = IF i <= Len(Consumers) THEN Consumers[i] ELSE Producers[i - Len(Consumers)]
  BY StartupAssumption, <1>1
<1> HIDE DEF both
<1>3. ASSUME NEW i \in DOMAIN Consumers PROVE Consumers[i] \in Range(both)
  <2>1. i \in DOMAIN both /\ both[i] = Consumers[i]
    BY <1>1, <1>2
  <2> QED
    BY <2>1 DEF Range
<1>4. ASSUME NEW i \in DOMAIN Producers PROVE Producers[i] \in Range(both)
  <2>1. i + Len(Consumers) \in DOMAIN both /\ both[i + Len(Consumers)] = Producers[i]
    BY <1>1, <1>2
  <2> QED
    BY <2>1 DEF Range
<1>5. Range(Consumers) \subseteq Range(both) /\ Range(Producers) \subseteq Range(both)
  BY <1>3, <1>4 DEF Range
<1> QED
  BY <1>5, StartupAssumption DEF Plugins, both


\* Nobody is counted at first.
LEMMA WaitInvInit == Init => WaitInv
<1> SUFFICES ASSUME Init PROVE WaitInv
  OBVIOUS
<1>1. FilesConsumer \in Plugins
  BY StartupAssumption, PluginsOfBoth
<1> QED
  BY <1>1 DEF Init, FilesInit, WaitInv

\* Steps of main.
LEMMA MainWaits ==
  ASSUME WaitInv, Main
  PROVE  WaitInv'
<1> USE PluginsOfBoth, StartupAssumption
<1> USE DEF WaitInv, filesVars, walkVars, otherThanMain, pluginVars, signalVars
<1>1. CASE AskForMetric \/ Send \/ Roll \/ newSignalHandler \/ Exit \/ StopProducers \/ Stopped
  BY <1>1 DEF AskForMetric, Send, Roll, newSignalHandler, Exit, StopProducers, Stopped
<1>2. CASE LaunchProducers
  BY <1>2 DEF LaunchProducers, Launch
<1>3. CASE LaunchConsumers
  BY <1>3 DEF LaunchConsumers, Launch
<1> QED
  BY <1>1, <1>2, <1>3 DEF Main

\* Steps of the plugins.
LEMMA PluginWaits ==
  ASSUME WaitInv, NEW p \in Plugins, Plugin(p)
  PROVE  WaitInv'
<1> USE PluginsOfBoth, StartupAssumption
<1> USE DEF WaitInv, filesVars, walkVars, plexVars, signalVars
<1>1. CASE Produce(p) \/ ProduceCounted(p)
  BY <1>1 DEF Produce, ProduceCounted
<1>2. CASE Consume(p)
  BY <1>2 DEF Consume
<1>3. CASE ControlLoop(p)
  BY <1>3 DEF ControlLoop
<1> QED
  BY <1>1, <1>2, <1>3 DEF Plugin

\* Steps of the walker.
LEMMA WalkerWaits ==
  ASSUME WaitInv, (Walker /\ UNCHANGED others) \/ OwnInterrupt
  PROVE  WaitInv'
<1> USE DEF WaitInv, plexVars, pluginVars, others
<1>1. CASE OwnInterrupt
  BY <1>1 DEF OwnInterrupt
<1>2. CASE Walker /\ UNCHANGED others
  <2>1. CASE AddMainWorker \/ StartWalk
    BY <1>2, <2>1 DEF AddMainWorker, StartWalk
  <2>2. CASE Pass \/ goConcurrency
    BY <1>2, <2>2 DEF Pass, goConcurrency
  <2>3. CASE waitAllComplete \/ dumpMetric
    BY <1>2, <2>3 DEF waitAllComplete, dumpMetric
  <2>4. CASE WorkerDone \/ Leave
    BY <1>2, <2>4 DEF WorkerDone, Leave
  <2> QED
    BY <1>2, <2>1, <2>2, <2>3, <2>4 DEF Walker
<1> QED
  BY <1>1, <1>2

\* Every step keeps what is known of the wait group of the walker.
LEMMA WaitInvStep == WaitInv /\ [Next]_vars => WaitInv'
<1> SUFFICES ASSUME WaitInv, [Next]_vars PROVE WaitInv'
  OBVIOUS
<1> DEFINE Kept == UNCHANGED <<workers, walker, plugin, main>>
<1> USE DEF filesVars, walkVars, plexVars, pluginVars
<1>1. Kept => WaitInv'
  BY DEF WaitInv
<1>2. CASE LateNew
  BY <1>1, <1>2 DEF LateNew, otherThanMain
<1>3. CASE CreateMetric \/ (Dump /\ UNCHANGED <<others, filesVars>>)
  BY <1>1, <1>3 DEF CreateMetric, otherThanMain, others
<1>4. ASSUME NEW i \in Positions, process(i) /\ UNCHANGED others PROVE WaitInv'
  BY <1>1, <1>4 DEF process, Open, Process, statisticFiles, CountBytes, Done, others
<1>5. CASE UserSignal
  BY <1>1, <1>5 DEF UserSignal
<1>6. CASE UNCHANGED vars
  BY <1>1, <1>6 DEF vars
<1> QED
  BY <1>2, <1>3, <1>4, <1>5, <1>6, MainWaits, PluginWaits, WalkerWaits DEF Next, Work

\* Steps other than that of main after its wait: the walker does not come back.
LEMMA WalkerStaysAway ==
  ASSUME WaitInv, [Next]_vars
  PROVE  \/ StopProducers
         \/ /\ UNCHANGED unseen
            /\ main' \in {"stop producers", "stopped"} => main \in {"stop producers", "stopped"}
            /\ walker \in {"left", "done"} => walker' \in {"left", "done"}
<1> USE DEF filesVars, walkVars, plexVars, pluginVars, signalVars, others, otherThanMain
<1>1. CASE Main
  BY <1>1 DEF Main, AskForMetric, LaunchProducers, LaunchConsumers, newSignalHandler, Send, Roll, Exit, Stopped
<1>2. ASSUME NEW p \in Plugins, Plugin(p)
      PROVE  /\ UNCHANGED <<main, unseen>>
             /\ walker \in {"left", "done"} => walker' \in {"left", "done"}
  <2>1. CASE Consume(p)
    <3>1. p = FilesConsumer => walker = "none"
      BY <2>1 DEF Consume, WaitInv
    <3> QED
      BY <2>1, <3>1 DEF Consume
  <2>2. CASE Produce(p) \/ ProduceCounted(p) \/ ControlLoop(p)
    BY <2>2 DEF Produce, ProduceCounted, ControlLoop
  <2> QED
    BY <1>2, <2>1, <2>2 DEF Plugin
<1>3. CASE LateNew \/ CreateMetric \/ (Dump /\ UNCHANGED <<others, filesVars>>)
  BY <1>3 DEF LateNew, CreateMetric
<1>4. CASE Walker /\ UNCHANGED others
  BY <1>4 DEF Walker, AddMainWorker, StartWalk, Pass, goConcurrency, waitAllComplete, dumpMetric,
              WorkerDone, Leave
<1>5. CASE OwnInterrupt \/ UserSignal
  BY <1>5 DEF OwnInterrupt, UserSignal
<1>6. ASSUME NEW i \in Positions, process(i) /\ UNCHANGED others PROVE UNCHANGED <<main, unseen, walker>>
  BY <1>6 DEF process, Open, Process, statisticFiles, CountBytes, Done
<1>7. CASE UNCHANGED vars
  BY <1>7 DEF vars
<1> QED
  BY <1>1, <1>2, <1>3, <1>4, <1>5, <1>6, <1>7 DEF Next, Work

\* And that the walker stays away when main has passed its wait.
LEMMA SeenInvStep == WaitInv /\ SeenInv /\ [Next]_vars => SeenInv'
<1> SUFFICES ASSUME WaitInv, SeenInv, [Next]_vars PROVE SeenInv'
  OBVIOUS
<1>1. CASE StopProducers
  <2>1. walker \in {"none", "starting", "left", "done"}
    <3>1. workers = 0
      BY <1>1 DEF StopProducers, ConsumersDone
    <3> QED
      BY <3>1 DEF WaitInv
  <2>2. unseen' = (walker \in {"none", "starting"}) /\ walker' = walker
    BY <1>1 DEF StopProducers, filesVars, walkVars
  <2>3. CASE walker \in {"none", "starting"}
    BY <2>2, <2>3 DEF SeenInv
  <2>4. CASE walker \in {"left", "done"}
    BY <2>2, <2>4 DEF SeenInv
  <2> QED
    BY <2>1, <2>3, <2>4
<1>2. CASE /\ UNCHANGED unseen
           /\ main' \in {"stop producers", "stopped"} => main \in {"stop producers", "stopped"}
           /\ walker \in {"left", "done"} => walker' \in {"left", "done"}
  BY <1>2 DEF SeenInv
<1> QED
  BY <1>1, <1>2, WalkerStaysAway

\* Producers are told to stop only after the walker has reported and nothing reads any more,
\* unless the walker had not counted itself when main waited (shutdown in multiplexer.go).
THEOREM ConsumersEndFirst == Spec => []ConsumersFirst
<1>1. FilesInv /\ SeenInv => ConsumersFirst
  BY DEF FilesInv, WalkInv, SeenInv, ConsumersFirst
<1>2. Init => SeenInv
  BY DEF Init, SeenInv
<1>3. Spec => []FilesInv
  BY FilesInvInit, FilesInvStep, PTL DEF Spec
<1>4. Spec => [](WaitInv /\ SeenInv)
  BY <1>2, WaitInvInit, WaitInvStep, SeenInvStep, PTL DEF Spec
<1> QED
  BY <1>1, <1>3, <1>4, PTL

-----------------------------------------------------------------------------
(* The plugins and the commands that main sends them *)

MainStates ==
  {"configure", "producers", "consumers", "run", "stop consumers", "stop producers", "stopped"}
PluginStates == {"none", "starting", "counted", "loop", "ended"}
BeforeStop == {"configure", "producers", "consumers", "run"}

ProcessTypes ==
  /\ main \in MainStates
  /\ plugin \in [Plugins -> PluginStates]
  /\ control \in [Plugins -> {<<>>, <<"roll">>, <<"stop">>}]
  /\ todo \in Seq(Plugins \X {"roll", "stop"})

\* Who has been launched.
LaunchInv ==
  /\ \A p \in Range(Producers) : plugin[p] = "none" <=> main = "configure"
  /\ \A p \in Range(Consumers) : plugin[p] = "none" <=> main \in {"configure", "producers"}
  /\ \A p \in Range(Consumers) : plugin[p] # "counted"

\* The wait group of the producers counts those that have started and not ended.
CountedProducers == {p \in Range(Producers) : plugin[p] \in {"counted", "loop"}}
CountedInv == producing = Cardinality(CountedProducers)

\* Main sends one command at a time to each of the plugins it is meant for.
CommandInv ==
  /\ \A i, j \in DOMAIN todo : todo[i][1] = todo[j][1] => i = j
  /\ main \in {"configure", "producers", "consumers", "stopped"} => todo = <<>>
  /\ main = "run" => \A i \in DOMAIN todo : todo[i][2] = "roll"
  /\ main = "stop consumers" => \A i \in DOMAIN todo : todo[i][2] = "stop" /\ todo[i][1] \in Range(Consumers)
  /\ main = "stop producers" => \A i \in DOMAIN todo : todo[i][2] = "stop" /\ todo[i][1] \in Range(Producers)

\* A plugin is told to stop once, the consumers before the producers, and hears nothing
\* afterwards.
Told(p) == plugin[p] = "ended" \/ control[p] = <<"stop">>
ToBeTold(p) == \E i \in DOMAIN todo : todo[i][1] = p
StopInv ==
  /\ main \in BeforeStop => \A p \in Plugins : ~Told(p)
  /\ main = "stop consumers" => \A p \in Range(Producers) : ~Told(p)
  /\ main \in {"stop producers", "stopped"} => \A p \in Range(Producers) : Told(p) \/ ToBeTold(p)
  /\ \A p \in Plugins : Told(p) => ~ToBeTold(p)
  /\ \A p \in Plugins : plugin[p] = "ended" => control[p] = <<>>

ProcessInv == ProcessTypes /\ LaunchInv /\ CountedInv /\ CommandInv /\ StopInv

\* No plugin is a consumer and a producer.
LEMMA PluginsAreApart ==
  /\ Plugins = Range(Consumers) \cup Range(Producers)
  /\ Range(Consumers) \cap Range(Producers) = {}
  /\ IsInjective(Consumers) /\ IsInjective(Producers)
  /\ IsFiniteSet(Range(Producers))
<1> DEFINE both == Consumers \o Producers
<1>1. /\ Len(Consumers) \in Nat /\ DOMAIN Consumers = 1 .. Len(Consumers)
      /\ Len(Producers) \in Nat /\ DOMAIN Producers = 1 .. Len(Producers)
  BY StartupAssumption
<1>2. /\ DOMAIN both = 1 .. Len(Consumers) + Len(Producers)
      /\ \A i \in 1 .. Len(Consumers) + Len(Producers) :
           both[i] = IF i <= Len(Consumers) THEN Consumers[i] ELSE Producers[i - Len(Consumers)]
  BY StartupAssumption, <1>1
<1>3. \A i, j \in DOMAIN both : both[i] = both[j] => i = j
  BY StartupAssumption DEF IsInjective
<1> HIDE DEF both
<1>4. \A i \in DOMAIN Consumers : i \in DOMAIN both /\ both[i] = Consumers[i]
  BY <1>1, <1>2
<1>5. \A i \in DOMAIN Producers : i + Len(Consumers) \in DOMAIN both /\ both[i + Len(Consumers)] = Producers[i]
  BY <1>1, <1>2
<1>6. \A i \in DOMAIN both : \/ i \in DOMAIN Consumers /\ both[i] = Consumers[i]
                             \/ i - Len(Consumers) \in DOMAIN Producers /\ both[i] = Producers[i - Len(Consumers)]
  BY <1>1, <1>2
<1>7. Range(both) = Range(Consumers) \cup Range(Producers)
  BY <1>4, <1>5, <1>6 DEF Range
<1>8. Range(Consumers) \cap Range(Producers) = {}
  <2> SUFFICES ASSUME NEW i \in DOMAIN Consumers, NEW j \in DOMAIN Producers, Consumers[i] = Producers[j]
               PROVE  FALSE
    BY DEF Range
  <2>1. i = j + Len(Consumers)
    BY <1>3, <1>4, <1>5
  <2> QED
    BY <1>1, <2>1
<1>9. IsInjective(Consumers)
  BY <1>3, <1>4 DEF IsInjective
<1>10. IsInjective(Producers)
  <2> SUFFICES ASSUME NEW i \in DOMAIN Producers, NEW j \in DOMAIN Producers, Producers[i] = Producers[j]
               PROVE  i = j
    BY DEF IsInjective
  <2>1. i + Len(Consumers) = j + Len(Consumers)
    BY <1>3, <1>5
  <2> QED
    BY <1>1, <2>1
<1>11. IsFiniteSet(Range(Producers))
  <2>1. Producers \in Surjection(DOMAIN Producers, Range(Producers))
    <3>1. Producers \in [DOMAIN Producers -> Range(Producers)]
      BY StartupAssumption, <1>1
    <3> QED
      BY <3>1 DEF Surjection, Range
  <2>2. IsFiniteSet(DOMAIN Producers)
    BY <1>1, FS_Interval
  <2> QED
    BY <2>1, <2>2, FS_Surjection
<1> QED
  BY <1>7, <1>8, <1>9, <1>10, <1>11 DEF Plugins, both

\* The commands for a sequence of different plugins.
LEMMA CommandsForEach ==
  ASSUME NEW ps, ps \in Seq(Plugins), IsInjective(ps), NEW c \in {"roll", "stop"}
  PROVE  /\ Commands(ps, c) \in Seq(Plugins \X {"roll", "stop"})
         /\ DOMAIN Commands(ps, c) = DOMAIN ps
         /\ \A i \in DOMAIN ps : Commands(ps, c)[i] = <<ps[i], c>>
         /\ \A i, j \in DOMAIN ps : ps[i] = ps[j] => i = j
<1>1. Len(ps) \in Nat /\ DOMAIN ps = 1 .. Len(ps) /\ \A i \in DOMAIN ps : ps[i] \in Plugins
  OBVIOUS
<1>2. Commands(ps, c) \in [1 .. Len(ps) -> Plugins \X {"roll", "stop"}]
  BY <1>1 DEF Commands
<1>3. Commands(ps, c) \in Seq(Plugins \X {"roll", "stop"})
  BY <1>1, <1>2, SeqDef
<1> QED
  BY <1>1, <1>3 DEF Commands, IsInjective

\* Steps that neither main nor the plugins see.
Aside == UNCHANGED <<main, todo, control, plugin, producing>>

\* The steps, as main and the plugins see them.
LEMMA ProcessSteps ==
  ASSUME [Next]_vars
  PROVE  \/ Aside
         \/ LaunchProducers \/ LaunchConsumers \/ newSignalHandler
         \/ Send \/ Roll \/ Exit \/ StopProducers \/ Stopped
         \/ \E p \in Plugins : Plugin(p)
<1> USE DEF Aside, plexVars, pluginVars, otherThanMain, others
<1>1. CASE AskForMetric \/ LateNew \/ CreateMetric \/ OwnInterrupt \/ UserSignal
  BY <1>1 DEF AskForMetric, LateNew, CreateMetric, OwnInterrupt, UserSignal
<1>2. CASE (Walker \/ Dump \/ \E i \in Positions : process(i)) /\ UNCHANGED others
  BY <1>2
<1>3. CASE UNCHANGED vars
  BY <1>3 DEF vars
<1> QED
  BY <1>1, <1>2, <1>3 DEF Next, Work, Main

\* No plugin runs and no command is sent at first.
LEMMA ProcessInvInit == Init => ProcessInv
<1> SUFFICES ASSUME Init PROVE ProcessInv
  OBVIOUS
<1> USE PluginsOfBoth DEF Init
<1>1. ProcessTypes
  BY DEF ProcessTypes, MainStates, PluginStates
<1>2. LaunchInv
  BY DEF LaunchInv
<1>3. CountedInv
  <2>1. CountedProducers = {}
    BY DEF CountedProducers
  <2> QED
    BY <2>1, FS_EmptySet DEF CountedInv
<1>4. CommandInv /\ StopInv
  BY DEF CommandInv, StopInv, Told, ToBeTold, BeforeStop
<1> QED
  BY <1>1, <1>2, <1>3, <1>4 DEF ProcessInv

\* main starts the plugins.
LEMMA LaunchKeeps ==
  ASSUME ProcessInv, LaunchProducers \/ LaunchConsumers \/ newSignalHandler
  PROVE  ProcessInv'
<1> USE PluginsOfBoth, PluginsAreApart
<1>1. ProcessTypes /\ LaunchInv /\ CountedInv /\ CommandInv /\ StopInv
  BY DEF ProcessInv
<1>2. /\ UNCHANGED <<todo, control, producing>>
      /\ \/ LaunchProducers /\ main = "configure" /\ main' = "producers"
         \/ LaunchConsumers /\ main = "producers" /\ main' = "consumers"
         \/ newSignalHandler /\ main = "consumers" /\ main' = "run" /\ plugin' = plugin
  BY DEF LaunchProducers, LaunchConsumers, newSignalHandler, pluginVars
<1>3. /\ LaunchProducers => plugin' = [p \in Plugins |-> IF p \in Range(Producers) THEN "starting" ELSE plugin[p]]
      /\ LaunchConsumers => plugin' = [p \in Plugins |-> IF p \in Range(Consumers) THEN "starting" ELSE plugin[p]]
  BY DEF LaunchProducers, LaunchConsumers, Launch
<1>4. ProcessTypes'
  BY <1>1, <1>2, <1>3 DEF ProcessTypes, MainStates, PluginStates
<1>5. LaunchInv'
  BY <1>1, <1>2, <1>3 DEF LaunchInv, ProcessTypes
<1>6. CountedInv'
  <2>1. CountedProducers' = CountedProducers
    BY <1>1, <1>2, <1>3 DEF CountedProducers, LaunchInv, ProcessTypes
  <2> QED
    BY <1>1, <1>2, <2>1 DEF CountedInv
<1>7. CommandInv'
  <2>1. todo' = <<>>
    BY <1>1, <1>2 DEF CommandInv
  <2>2. DOMAIN todo' = {}
    BY <2>1
  <2> QED
    BY <2>1, <2>2 DEF CommandInv
<1>8. StopInv'
  <2>1. \A p \in Plugins : Told(p)' => Told(p)
    BY <1>2, <1>3 DEF Told
  <2>2. \A p \in Plugins : ~Told(p)
    BY <1>1, <1>2 DEF StopInv, BeforeStop
  <2> QED
    BY <1>2, <2>1, <2>2 DEF StopInv, BeforeStop, Told
<1> QED
  BY <1>4, <1>5, <1>6, <1>7, <1>8 DEF ProcessInv

\* main goes on to commands for other plugins.
LEMMA CommandsKeep ==
  ASSUME ProcessInv, Roll \/ Exit \/ StopProducers \/ Stopped
  PROVE  ProcessInv'
<1> USE PluginsOfBoth, PluginsAreApart
<1>1. ProcessTypes /\ LaunchInv /\ CountedInv /\ CommandInv /\ StopInv
  BY DEF ProcessInv
<1>2. /\ UNCHANGED <<plugin, control, producing>> /\ todo = <<>>
      /\ \/ main = "run" /\ main' = "run" /\ todo' = Commands(Consumers \o Producers, "roll")
         \/ main = "run" /\ main' = "stop consumers" /\ todo' = Commands(Consumers, "stop")
         \/ main = "stop consumers" /\ main' = "stop producers" /\ todo' = Commands(Producers, "stop")
         \/ main = "stop producers" /\ main' = "stopped" /\ todo' = todo
  BY DEF Roll, Exit, StopProducers, Stopped, pluginVars
<1>3. /\ Consumers \in Seq(Plugins) /\ Producers \in Seq(Plugins)
      /\ Consumers \o Producers \in Seq(Plugins) /\ IsInjective(Consumers \o Producers)
  <2>1. Consumers \in Seq(Plugins) /\ Producers \in Seq(Plugins)
    <3>1. \A R : R \subseteq Plugins => Seq(R) \subseteq Seq(Plugins)
      OBVIOUS
    <3> QED
      BY <3>1, StartupAssumption
  <2> QED
    BY <2>1, StartupAssumption
<1>4. ProcessTypes'
  <2>1. todo' \in Seq(Plugins \X {"roll", "stop"})
    <3>1. \A ps \in Seq(Plugins), c \in {"roll", "stop"} :
            IsInjective(ps) => Commands(ps, c) \in Seq(Plugins \X {"roll", "stop"})
      BY CommandsForEach
    <3>2. IsInjective(Consumers) /\ IsInjective(Producers)
      BY PluginsAreApart
    <3> HIDE PluginsAreApart, PluginsOfBoth
    <3> QED
      BY <1>1, <1>2, <1>3, <3>1, <3>2 DEF ProcessTypes
  <2> QED
    BY <1>1, <1>2, <2>1 DEF ProcessTypes, MainStates
<1>5. LaunchInv' /\ CountedInv'
  BY <1>1, <1>2 DEF LaunchInv, CountedInv, CountedProducers
<1>6. CommandInv'
  <2>0. ASSUME NEW ps \in Seq(Plugins), IsInjective(ps), NEW c \in {"roll", "stop"}, todo' = Commands(ps, c)
        PROVE  /\ \A i, j \in DOMAIN todo' : todo'[i][1] = todo'[j][1] => i = j
               /\ \A i \in DOMAIN todo' : todo'[i][2] = c /\ todo'[i][1] \in Range(ps)
    <3>1. /\ DOMAIN todo' = DOMAIN ps /\ \A i \in DOMAIN ps : todo'[i] = <<ps[i], c>>
          /\ \A i, j \in DOMAIN ps : ps[i] = ps[j] => i = j
      BY <2>0, CommandsForEach
    <3> QED
      BY <3>1 DEF Range
  <2>1. CASE main' = "run"
    <3>1. todo' = Commands(Consumers \o Producers, "roll")
      BY <1>2, <2>1
    <3> QED
      BY <1>3, <2>0, <2>1, <3>1 DEF CommandInv
  <2>2. CASE main' = "stop consumers"
    <3>1. todo' = Commands(Consumers, "stop")
      BY <1>2, <2>2
    <3> QED
      BY <1>3, <2>0, <2>2, <3>1 DEF CommandInv
  <2>3. CASE main' = "stop producers"
    <3>1. todo' = Commands(Producers, "stop")
      BY <1>2, <2>3
    <3> QED
      BY <1>3, <2>0, <2>3, <3>1 DEF CommandInv
  <2>4. CASE main' = "stopped"
    BY <1>1, <1>2, <2>4 DEF CommandInv
  <2> QED
    BY <1>2, <2>1, <2>2, <2>3, <2>4
<1>7. StopInv'
  <2>1. \A p \in Plugins : Told(p)' = Told(p)
    BY <1>2 DEF Told
  <2>2. CASE main' \in {"run", "stop consumers"}
    BY <1>1, <1>2, <2>1, <2>2 DEF StopInv, BeforeStop
  <2>3. CASE main' = "stop producers"
    <3>1. DOMAIN todo' = DOMAIN Producers /\ \A i \in DOMAIN Producers : todo'[i] = <<Producers[i], "stop">>
      BY <1>2, <1>3, <2>3, CommandsForEach
    <3>2. \A p \in Plugins : ToBeTold(p)' <=> p \in Range(Producers)
      BY <3>1 DEF ToBeTold, Range
    <3> QED
      BY <1>1, <1>2, <2>1, <2>3, <3>2 DEF StopInv, BeforeStop
  <2>4. CASE main' = "stopped"
    BY <1>1, <1>2, <2>1, <2>4 DEF StopInv, BeforeStop, ToBeTold
  <2> QED
    BY <1>2, <2>2, <2>3, <2>4
<1> QED
  BY <1>4, <1>5, <1>6, <1>7 DEF ProcessInv

\* main sends the next command.
LEMMA SendKeeps ==
  ASSUME ProcessInv, Send
  PROVE  ProcessInv'
<1> USE PluginsOfBoth, PluginsAreApart
<1>1. ProcessTypes /\ LaunchInv /\ CountedInv /\ CommandInv /\ StopInv
  BY DEF ProcessInv
<1>0. todo \in Seq(Plugins \X {"roll", "stop"}) /\ todo # <<>>
  BY <1>1 DEF Send, ProcessTypes
<1>q. PICK q \in Plugins, c \in {"roll", "stop"} : Head(todo) = <<q, c>>
  <2>1. Head(todo) \in Plugins \X {"roll", "stop"}
    BY <1>0
  <2> QED
    BY <2>1
<1>2. /\ todo \in Seq(Plugins \X {"roll", "stop"}) /\ todo # <<>>
      /\ todo' = Tail(todo) /\ control' = [control EXCEPT ![q] = <<c>>] /\ control[q] = <<>>
      /\ UNCHANGED <<main, plugin, producing>>
  <2>1. Head(todo)[1] = q /\ Head(todo)[2] = c
    BY <1>q
  <2> QED
    BY <1>0, <2>1 DEF Send
<1>3. /\ 1 \in DOMAIN todo /\ Head(todo) = todo[1]
      /\ \A i \in DOMAIN todo' : i + 1 \in DOMAIN todo /\ todo'[i] = todo[i + 1] /\ i + 1 # 1
      /\ \A i \in DOMAIN todo : i = 1 \/ (i - 1 \in DOMAIN todo' /\ todo'[i - 1] = todo[i])
      /\ todo' \in Seq(Plugins \X {"roll", "stop"})
  BY <1>2
<1>4. q = todo[1][1] /\ c = todo[1][2] /\ q \in Plugins /\ c \in {"roll", "stop"} /\ main \notin {"configure", "producers", "consumers", "stopped"}
  <2>1. todo[1] = <<q, c>>
    BY <1>q, <1>3
  <2>2. main \notin {"configure", "producers", "consumers", "stopped"}
    BY <1>1, <1>2 DEF CommandInv
  <2> QED
    BY <2>1, <2>2
<1>5. ProcessTypes'
  BY <1>1, <1>2, <1>3, <1>4 DEF ProcessTypes
<1>6. LaunchInv' /\ CountedInv'
  BY <1>1, <1>2 DEF LaunchInv, CountedInv, CountedProducers
<1>7. CommandInv'
  <2>1. \A i, j \in DOMAIN todo' : todo'[i][1] = todo'[j][1] => i = j
    <3> TAKE i, j \in DOMAIN todo'
    <3>0. i + 1 \in DOMAIN todo /\ j + 1 \in DOMAIN todo /\ todo'[i] = todo[i + 1] /\ todo'[j] = todo[j + 1]
      BY <1>3
    <3>1. todo'[i][1] = todo'[j][1] => i + 1 = j + 1
      BY <1>1, <3>0 DEF CommandInv
    <3>2. i \in Int /\ j \in Int
      BY <1>3
    <3> QED
      BY <3>1, <3>2
  <2>2. \A i \in DOMAIN todo' : \E k \in DOMAIN todo : todo'[i] = todo[k]
    BY <1>3
  <2>3. main = "run" => \A i \in DOMAIN todo' : todo'[i][2] = "roll"
    BY <1>1, <2>2 DEF CommandInv
  <2>4. main = "stop consumers" => \A i \in DOMAIN todo' : todo'[i][2] = "stop" /\ todo'[i][1] \in Range(Consumers)
    BY <1>1, <2>2 DEF CommandInv
  <2>5. main = "stop producers" => \A i \in DOMAIN todo' : todo'[i][2] = "stop" /\ todo'[i][1] \in Range(Producers)
    BY <1>1, <2>2 DEF CommandInv
  <2> QED
    BY <1>2, <1>4, <2>1, <2>3, <2>4, <2>5 DEF CommandInv
<1>8. StopInv'
  <2>1. \A p \in Plugins : ToBeTold(p)' <=> ToBeTold(p) /\ p # q
    <3> TAKE p \in Plugins
    <3>1. ToBeTold(p)' => ToBeTold(p) /\ p # q
      <4> SUFFICES ASSUME NEW i \in DOMAIN todo', todo'[i][1] = p PROVE ToBeTold(p) /\ p # q
        BY DEF ToBeTold
      <4>1. i + 1 \in DOMAIN todo /\ todo[i + 1][1] = p /\ i + 1 # 1
        BY <1>3
      <4> QED
        BY <1>1, <1>3, <1>4, <4>1 DEF ToBeTold, CommandInv
    <3>2. ToBeTold(p) /\ p # q => ToBeTold(p)'
      BY <1>3, <1>4 DEF ToBeTold
    <3> QED
      BY <3>1, <3>2
  <2>2. \A p \in Plugins : p # q => (Told(p)' <=> Told(p))
    BY <1>1, <1>2 DEF Told, ProcessTypes
  <2>3. ToBeTold(q) /\ ~Told(q)
    BY <1>1, <1>3, <1>4 DEF ToBeTold, StopInv
  <2>4. Told(q)' <=> c = "stop"
    <3>1. control'[q] = <<c>> /\ plugin'[q] # "ended"
      BY <1>1, <1>2, <1>4, <2>3 DEF Told, ProcessTypes
    <3>2. <<c>> = <<"stop">> <=> c = "stop"
      BY <1>4
    <3> QED
      BY <3>1, <3>2 DEF Told
  <2>5. /\ main = "run" => c = "roll"
        /\ main = "stop consumers" => q \in Range(Consumers)
        /\ main = "stop producers" => c = "stop"
    BY <1>1, <1>3, <1>4 DEF CommandInv
  <2>6. \A p \in Plugins : plugin'[p] = "ended" => control'[p] = <<>>
    BY <1>1, <1>2, <2>3 DEF StopInv, Told, ProcessTypes
  <2>7. main \in BeforeStop => main = "run"
    BY <1>4 DEF BeforeStop
  <2>8. main \in BeforeStop => \A p \in Plugins : ~Told(p)'
    BY <1>1, <1>4, <2>2, <2>4, <2>5, <2>7 DEF StopInv
  <2>9. main = "stop consumers" => \A p \in Range(Producers) : ~Told(p)'
    BY <1>1, <2>2, <2>5 DEF StopInv
  <2>10. main \in {"stop producers", "stopped"} => \A p \in Range(Producers) : Told(p)' \/ ToBeTold(p)'
    BY <1>1, <1>4, <2>1, <2>2, <2>4, <2>5 DEF StopInv
  <2>11. \A p \in Plugins : Told(p)' => ~ToBeTold(p)'
    BY <1>1, <2>1, <2>2 DEF StopInv
  <2> QED
    BY <1>2, <2>6, <2>8, <2>9, <2>10, <2>11 DEF StopInv
<1> QED
  BY <1>5, <1>6, <1>7, <1>8 DEF ProcessInv

\* A plugin starts, or reads its control channel.
LEMMA PluginKeeps ==
  ASSUME ProcessInv, NEW p \in Plugins, Plugin(p)
  PROVE  ProcessInv'
<1> USE PluginsOfBoth, PluginsAreApart
<1>1. ProcessTypes /\ LaunchInv /\ CountedInv /\ CommandInv /\ StopInv
  BY DEF ProcessInv
<1>2. UNCHANGED <<main, todo>> /\ plugin \in [Plugins -> PluginStates]
  BY <1>1 DEF Plugin, Produce, ProduceCounted, Consume, ControlLoop, plexVars, ProcessTypes
<1>3. IsFiniteSet(CountedProducers) /\ producing = Cardinality(CountedProducers)
  <2>1. IsFiniteSet(CountedProducers)
    BY FS_Subset DEF CountedProducers
  <2> QED
    BY <1>1, <2>1 DEF CountedInv
<1>4. CASE Produce(p) \/ ProduceCounted(p) \/ Consume(p)
  <2>1. /\ control' = control
        /\ \/ /\ Produce(p) /\ plugin[p] = "starting" /\ p \in Range(Producers)
              /\ plugin' = [plugin EXCEPT ![p] = "counted"] /\ producing' = producing + 1
           \/ /\ ProduceCounted(p) /\ plugin[p] = "counted"
              /\ plugin' = [plugin EXCEPT ![p] = "loop"] /\ producing' = producing
           \/ /\ Consume(p) /\ plugin[p] = "starting" /\ p \in Range(Consumers)
              /\ plugin' = [plugin EXCEPT ![p] = "loop"] /\ producing' = producing
    BY <1>4 DEF Produce, ProduceCounted, Consume
  <2>2. ProcessTypes'
    BY <1>1, <1>2, <2>1 DEF ProcessTypes, PluginStates
  <2>3. LaunchInv'
    <3>1. \A r \in Plugins : plugin'[r] = "none" <=> plugin[r] = "none"
      BY <1>2, <2>1
    <3>2. \A r \in Range(Consumers) : plugin'[r] # "counted"
      BY <1>1, <1>2, <2>1 DEF LaunchInv
    <3> QED
      BY <1>1, <1>2, <3>1, <3>2 DEF LaunchInv
  <2>4. CountedInv'
    <3>1. CASE Produce(p)
      <4>1. plugin' = [plugin EXCEPT ![p] = "counted"] /\ producing' = producing + 1
            /\ p \in Range(Producers) /\ plugin[p] = "starting"
        BY <3>1 DEF Produce
      <4>2. CountedProducers' = CountedProducers \cup {p} /\ p \notin CountedProducers
        BY <1>2, <4>1 DEF CountedProducers
      <4> QED
        BY <1>3, <4>1, <4>2, FS_AddElement DEF CountedInv
    <3>2. CASE ~Produce(p)
      <4>1. CountedProducers' = CountedProducers
        BY <1>1, <1>2, <2>1, <3>2 DEF CountedProducers, LaunchInv
      <4> QED
        BY <1>3, <2>1, <3>2, <4>1 DEF CountedInv
    <3> QED
      BY <3>1, <3>2
  <2>5. CommandInv'
    BY <1>1, <1>2 DEF CommandInv
  <2>6. StopInv'
    <3>1. \A r \in Plugins : plugin'[r] = "ended" <=> plugin[r] = "ended"
      BY <1>2, <2>1
    <3>2. \A r \in Plugins : (Told(r)' <=> Told(r)) /\ (ToBeTold(r)' <=> ToBeTold(r))
      BY <1>2, <2>1, <3>1 DEF Told, ToBeTold
    <3> QED
      BY <1>1, <1>2, <2>1, <3>1, <3>2 DEF StopInv
  <2> QED
    BY <2>2, <2>3, <2>4, <2>5, <2>6 DEF ProcessInv
<1>5. CASE ControlLoop(p)
  <2>1. /\ plugin[p] = "loop" /\ control[p] \in {<<"roll">>, <<"stop">>}
        /\ control' = [control EXCEPT ![p] = <<>>]
        /\ plugin' = [plugin EXCEPT ![p] = IF control[p] = <<"stop">> THEN "ended" ELSE "loop"]
        /\ producing' = IF control[p] = <<"stop">> /\ p \in Range(Producers) THEN producing - 1 ELSE producing
    BY <1>1, <1>5 DEF ControlLoop, ProcessTypes
  <2>2. ProcessTypes'
    BY <1>1, <1>2, <2>1 DEF ProcessTypes, PluginStates
  <2>3. LaunchInv'
    <3>1. \A r \in Plugins : plugin'[r] = "none" <=> plugin[r] = "none"
      BY <1>2, <2>1
    <3>2. \A r \in Range(Consumers) : plugin'[r] # "counted"
      BY <1>1, <1>2, <2>1 DEF LaunchInv
    <3> QED
      BY <1>1, <1>2, <3>1, <3>2 DEF LaunchInv
  <2>4. CountedInv'
    <3>1. CASE control[p] = <<"stop">> /\ p \in Range(Producers)
      <4>1. CountedProducers' = CountedProducers \ {p} /\ p \in CountedProducers
        BY <1>2, <2>1, <3>1 DEF CountedProducers
      <4> QED
        BY <1>3, <2>1, <3>1, <4>1, FS_RemoveElement DEF CountedInv
    <3>2. CASE ~(control[p] = <<"stop">> /\ p \in Range(Producers))
      <4>1. CountedProducers' = CountedProducers
        BY <1>2, <2>1, <3>2 DEF CountedProducers
      <4> QED
        BY <1>3, <2>1, <3>2, <4>1 DEF CountedInv
    <3> QED
      BY <3>1, <3>2
  <2>5. CommandInv'
    BY <1>1, <1>2 DEF CommandInv
  <2>6. StopInv'
    <3>1. \A r \in Plugins : r # p => plugin'[r] = plugin[r] /\ control'[r] = control[r]
      BY <1>1, <2>1 DEF ProcessTypes
    <3>2. control'[p] = <<>> /\ (plugin'[p] = "ended" <=> control[p] = <<"stop">>)
      BY <1>1, <2>1 DEF ProcessTypes
    <3>3. \A r \in Plugins : (Told(r)' <=> Told(r)) /\ (ToBeTold(r)' <=> ToBeTold(r))
      <4> TAKE r \in Plugins
      <4>1. Told(r)' <=> Told(r)
        BY <2>1, <3>1, <3>2 DEF Told
      <4> QED
        BY <1>2, <4>1 DEF ToBeTold
    <3>4. \A r \in Plugins : plugin'[r] = "ended" => control'[r] = <<>>
      BY <1>1, <3>1, <3>2 DEF StopInv
    <3> QED
      BY <1>1, <1>2, <3>3, <3>4 DEF StopInv
  <2> QED
    BY <2>2, <2>3, <2>4, <2>5, <2>6 DEF ProcessInv
<1> QED
  BY <1>4, <1>5 DEF Plugin

\* Every step keeps what is known of main and the plugins.
LEMMA ProcessInvStep == ProcessInv /\ [Next]_vars => ProcessInv'
<1> SUFFICES ASSUME ProcessInv, [Next]_vars PROVE ProcessInv'
  OBVIOUS
<1>1. CASE Aside
  BY <1>1 DEF Aside, ProcessInv, ProcessTypes, LaunchInv, CountedInv, CountedProducers, CommandInv, StopInv,
              Told, ToBeTold
<1> QED
  BY <1>1, ProcessSteps, LaunchKeeps, CommandsKeep, SendKeeps, PluginKeeps

-----------------------------------------------------------------------------
(* The lock of the metrics *)

WalkerStates ==
  {"none", "starting", "counted", "steps", "report", "interrupt", "leave", "left", "done"}

\* A request has the read lock as often as it has asked for it.
LockInv ==
  /\ wanted \in BOOLEAN /\ updated \in 0 .. SystemMetrics /\ dumps \in 0 .. MaxDumps
  /\ \/ dumping \in {"idle", "write"} /\ held = 0
     \/ dumping \in {"update", "marshal"} /\ held = 1
     \/ dumping = "set" /\ held = 2 /\ updated < SystemMetrics

\* What the other invariants leave to say of the types.
RestInv ==
  /\ LockInv
  /\ walker \in WalkerStates
  /\ signals \in {<<>>, <<"exit">>, <<"roll">>}
  /\ news \in Nat /\ (main = "configure" => news <= MaxNew)
  /\ plugin[FilesConsumer] \in {"loop", "ended"} => walker # "none"

\* Every step of the metrics keeps the count of the read locks.
LEMMA LockSteps ==
  ASSUME LockInv, \/ AskForNew \/ New \/ Dump \/ UNCHANGED <<held, wanted, dumpVars>>
  PROVE  LockInv'
<1> USE MetricsAssumption DEF LockInv, dumpVars
<1>1. CASE AskForNew \/ New \/ UNCHANGED <<held, wanted, dumpVars>>
  BY <1>1 DEF AskForNew, New
<1>2. CASE StartUpdate \/ BeginSet \/ BeginMarshal
  BY <1>2 DEF StartUpdate, BeginSet, BeginMarshal, RLock
<1>3. CASE EndSet \/ EndUpdate \/ EndMarshal
  BY <1>3 DEF EndSet, EndUpdate, EndMarshal, RUnlock
<1> QED
  BY <1>1, <1>2, <1>3 DEF Dump

\* Nobody holds the lock at first.
LEMMA RestInvInit == Init => RestInv
<1> SUFFICES ASSUME Init PROVE RestInv
  OBVIOUS
<1>1. LockInv
  <2>1. wanted = FALSE /\ updated = 0 /\ dumps = 0 /\ dumping = "idle" /\ held = 0
    BY DEF Init, MetricsInit
  <2>2. 0 \in 0 .. SystemMetrics /\ 0 \in 0 .. MaxDumps
    BY MetricsAssumption
  <2> QED
    BY <2>1, <2>2 DEF LockInv
<1>2. walker = "none" /\ signals = <<>> /\ news = 0 /\ plugin[FilesConsumer] = "none"
  BY PluginsOfBoth DEF Init, FilesInit
<1> QED
  BY <1>1, <1>2, StartupAssumption DEF RestInv, WalkerStates

\* Every step keeps the rest.
LEMMA RestInvStep == RestInv /\ ProcessInv /\ [Next]_vars => RestInv'
<1> SUFFICES ASSUME RestInv, ProcessInv, [Next]_vars PROVE RestInv'
  OBVIOUS
<1> USE DEF plexVars, pluginVars, signalVars, filesVars, walkVars, metricVars, others, otherThanMain
<1> DEFINE LockStep == AskForNew \/ New \/ Dump \/ UNCHANGED <<held, wanted, dumpVars>>
<1>1. CASE Main
  <2>1. LockStep /\ walker' = walker
    BY <1>1 DEF Main, AskForMetric, LaunchProducers, LaunchConsumers, newSignalHandler, Send, Roll, Exit,
                StopProducers, Stopped, dumpVars
  <2>2. signals' \in {signals, <<>>}
    BY <1>1 DEF Main, AskForMetric, LaunchProducers, LaunchConsumers, newSignalHandler, Send, Roll, Exit,
                StopProducers, Stopped
  <2>3. \/ news' = news /\ (main' = "configure" => main = "configure")
        \/ news' = news + 1 /\ news < MaxNew
    BY <1>1 DEF Main, AskForMetric, LaunchProducers, LaunchConsumers, newSignalHandler, Send, Roll, Exit,
                StopProducers, Stopped
  <2>4. plugin'[FilesConsumer] \in {"loop", "ended"} => plugin[FilesConsumer] \in {"loop", "ended"}
    BY <1>1, PluginsOfBoth
       DEF Main, AskForMetric, LaunchProducers, LaunchConsumers, Launch, newSignalHandler, Send, Roll, Exit,
           StopProducers, Stopped
  <2>5. news' \in Nat /\ (main' = "configure" => news' <= MaxNew)
    BY <2>3, StartupAssumption DEF RestInv
  <2> QED
    BY <2>1, <2>2, <2>4, <2>5, LockSteps DEF RestInv
<1>2. ASSUME NEW p \in Plugins, Plugin(p) PROVE RestInv'
  <2>1. LockStep /\ UNCHANGED <<main, news, signals>> /\ walker' \in {walker, "starting"}
    BY <1>2 DEF Plugin, Produce, ProduceCounted, Consume, ControlLoop, dumpVars
  <2>2. plugin'[FilesConsumer] \in {"loop", "ended"} => walker' # "none"
    <3>1. CASE Consume(p) /\ p = FilesConsumer
      BY <3>1 DEF Consume
    <3>2. CASE ~(Consume(p) /\ p = FilesConsumer)
      <4>1. p = FilesConsumer => ControlLoop(p)
        <5>1. FilesConsumer \in Range(Consumers) /\ FilesConsumer \notin Range(Producers)
          BY StartupAssumption
        <5> QED
          BY <1>2, <3>2, <5>1 DEF Plugin, Produce, ProduceCounted, ProcessInv, LaunchInv
      <4>2. plugin'[FilesConsumer] \in {"loop", "ended"} => plugin[FilesConsumer] \in {"loop", "ended"}
        BY <1>2, <4>1, PluginsOfBoth
           DEF Plugin, Produce, ProduceCounted, Consume, ControlLoop, ProcessInv, ProcessTypes
      <4>3. walker' = walker \/ walker' = "starting"
        BY <2>1
      <4> QED
        BY <4>2, <4>3 DEF RestInv
    <3> QED
      BY <3>1, <3>2
  <2> QED
    BY <2>1, <2>2, LockSteps DEF RestInv, WalkerStates
<1>3. CASE LateNew
  <2>1. main # "configure"
    <3>1. \E p \in Plugins : plugin[p] = "loop"
      BY <1>3 DEF LateNew
    <3> QED
      BY <3>1, PluginsAreApart DEF ProcessInv, LaunchInv
  <2> QED
    BY <1>3, <2>1, LockSteps DEF LateNew, RestInv
<1>4. CASE CreateMetric
  BY <1>4, LockSteps DEF CreateMetric, RestInv
<1>5. CASE Walker /\ UNCHANGED others
  BY <1>5, LockSteps DEF Walker, AddMainWorker, StartWalk, Pass, goConcurrency, waitAllComplete, dumpMetric,
                         WorkerDone, Leave, RestInv, WalkerStates, dumpVars
<1>6. CASE OwnInterrupt \/ UserSignal
  <2>1. LockStep /\ walker' \in {walker, "leave"} /\ UNCHANGED <<news, main, plugin>>
    BY <1>6 DEF OwnInterrupt, UserSignal, dumpVars
  <2>2. \E s \in {"exit", "roll"} : Signal(s)
    BY <1>6 DEF OwnInterrupt, UserSignal
  <2>3. signals' \in {<<>>, <<"exit">>, <<"roll">>}
    <3>1. PICK s \in {"exit", "roll"} : Signal(s)
      BY <2>2
    <3>2. signals' = signals \/ (signals' = Append(signals, s) /\ Len(signals) < 1)
      BY <3>1 DEF Signal
    <3>3. signals = <<>> => Append(signals, s) = <<s>>
      OBVIOUS
    <3>4. signals # <<>> => ~(Len(signals) < 1)
      BY DEF RestInv
    <3> QED
      BY <3>2, <3>3, <3>4 DEF RestInv
  <2> QED
    BY <2>1, <2>3, LockSteps DEF RestInv, WalkerStates
<1>7. ASSUME NEW i \in Positions, process(i) /\ UNCHANGED others PROVE RestInv'
  BY <1>7, LockSteps DEF process, Open, Process, statisticFiles, CountBytes, Done, Change, RestInv, dumpVars
<1>8. CASE Dump /\ UNCHANGED <<others, filesVars>>
  BY <1>8, LockSteps DEF RestInv
<1>9. CASE UNCHANGED vars
  BY <1>9, LockSteps DEF vars, RestInv, dumpVars
<1> QED
  BY <1>1, <1>2, <1>3, <1>4, <1>5, <1>6, <1>7, <1>8, <1>9 DEF Next, Work

\* All of it holds always.
LEMMA AllInvariants == Spec => [](FilesInv /\ WaitInv /\ ProcessInv /\ RestInv)
BY FilesInvInit, FilesInvStep, WaitInvInit, WaitInvStep, ProcessInvInit, ProcessInvStep,
   RestInvInit, RestInvStep, PTL DEF Spec

\* The types of all variables, with the bounds of the wait groups.
THEOREM TypesOfStartup == Spec => []TypeOK
<1>1. FilesInv /\ WaitInv /\ ProcessInv /\ RestInv => TypeOK
  <2> SUFFICES ASSUME FilesInv, WaitInv, ProcessInv, RestInv PROVE TypeOK
    OBVIOUS
  <2>1. MetricsTypeOK
    BY DEF MetricsTypeOK, RestInv, LockInv, FilesInv, FilesTypes
  <2>2. workers \in 0 .. 1
    BY DEF WaitInv
  <2>3. producing \in 0 .. Cardinality(Range(Producers))
    <3>1. CountedProducers \subseteq Range(Producers)
      BY DEF CountedProducers
    <3>2. /\ Cardinality(CountedProducers) \in Nat /\ Cardinality(Range(Producers)) \in Nat
          /\ Cardinality(CountedProducers) <= Cardinality(Range(Producers))
      BY <3>1, PluginsAreApart, FS_Subset, FS_CardinalityType
    <3> QED
      BY <3>2 DEF ProcessInv, CountedInv
  <2>4. /\ concurrency \in Nat /\ currentProcNum \in Int /\ position \in 1 .. (Len(Entries) + 1)
        /\ \A i \in Positions : file[i] \in FileStates /\ left[i] \in Nat
    BY DEF FilesInv, FilesTypes
  <2>5. /\ main \in MainStates
        /\ \A p \in Plugins : plugin[p] \in PluginStates /\ control[p] \in {<<>>, <<"roll">>, <<"stop">>}
    BY DEF ProcessInv, ProcessTypes
  <2> QED
    BY <2>1, <2>2, <2>3, <2>4, <2>5 DEF TypeOK, RestInv, WalkerStates, FileStates, MainStates, PluginStates
<1> QED
  BY <1>1, AllInvariants, PTL

-----------------------------------------------------------------------------
(* Nobody waits for nobody *)

\* The guards of the actions: who can go on.  Signals of the user, new requests for the metrics
\* and new metrics of rate filters do not count.
MetricsGoOn ==
  \/ wanted /\ held = 0
  \/ dumping \in {"set", "marshal"}
  \/ dumping = "update" /\ (~wanted \/ updated = SystemMetrics)
  \/ dumping = "write" /\ ~wanted
MainGoesOn ==
  \/ main = "configure" /\ ~wanted
  \/ main \in {"producers", "consumers"}
  \/ todo # <<>> /\ control[Head(todo)[1]] = <<>>
  \/ todo = <<>> /\ \/ main = "run" /\ signals # <<>>
                    \/ main = "stop consumers" /\ workers = 0
                    \/ main = "stop producers" /\ producing = 0
PluginGoesOn(p) ==
  \/ plugin[p] = "starting"
  \/ plugin[p] = "counted" /\ ~wanted
  \/ plugin[p] = "loop" /\ control[p] # <<>>
WalkerGoesOn ==
  \/ walker \in {"starting", "interrupt", "leave"}
  \/ walker \in {"counted", "report", "left"} /\ ~wanted
  \/ walker = "steps" /\ IF position <= Len(Entries) THEN MayStep ELSE NoneRuns
FileGoesOn(i) == file[i] \in {"open", "finish"} \/ (file[i] \in {"read", "bytes"} /\ ~wanted)
SomebodyGoesOn ==
  \/ MetricsGoOn \/ MainGoesOn \/ WalkerGoesOn
  \/ \E p \in Plugins : PluginGoesOn(p)
  \/ \E i \in Positions : FileGoesOn(i)

\* A process in which nobody can go on has ended, waits for a signal with all plugins in their
\* loops, all commands read and all files done, or a request for the metrics waits for its
\* own lock.
OnlySignalsMissing ==
  Alive /\ ~SomebodyGoesOn =>
    \/ Stuck
    \/ /\ main = "run" /\ todo = <<>> /\ signals = <<>>
       /\ \A p \in Plugins : plugin[p] = "loop" /\ control[p] = <<>>
       /\ walker = "done" /\ NoneRuns

\* However main, the plugins, the walker and the requests wait for each other's channels, wait
\* groups and lock, the nested read lock of UpdateSystemMetrics is the only cycle: in every
\* other state of the shutdown somebody can go on.
THEOREM ShutdownGoesOn == Spec => []OnlySignalsMissing
<1>1. FilesInv /\ WaitInv /\ ProcessInv /\ RestInv => OnlySignalsMissing
  <2> SUFFICES ASSUME FilesInv, WaitInv, ProcessInv, RestInv, Alive, ~SomebodyGoesOn, ~Stuck
               PROVE  /\ main = "run" /\ todo = <<>> /\ signals = <<>>
                      /\ \A p \in Plugins : plugin[p] = "loop" /\ control[p] = <<>>
                      /\ walker = "done" /\ NoneRuns
    BY DEF OnlySignalsMissing
  <2>1. ProcessTypes /\ LaunchInv /\ CountedInv /\ CommandInv /\ StopInv /\ LockInv
    BY DEF ProcessInv, RestInv
  <2>2. ~wanted
    <3> SUFFICES ASSUME wanted PROVE FALSE
      BY <2>1 DEF LockInv
    <3>1. dumping = "update" /\ updated # SystemMetrics
      BY <2>1 DEF SomebodyGoesOn, MetricsGoOn, LockInv
    <3>2. updated < SystemMetrics
      BY <2>1, <3>1, MetricsAssumption DEF LockInv
    <3> QED
      BY <3>1, <3>2 DEF Stuck
  <2>3. NoneRuns
    BY <2>2 DEF SomebodyGoesOn, FileGoesOn, NoneRuns, Running, FilesInv, FilesTypes, FileStates
  <2>4. walker \in {"none", "done"}
    BY <2>2, <2>3 DEF SomebodyGoesOn, WalkerGoesOn, MayStep, RestInv, WalkerStates
  <2>5. workers = 0
    BY <2>4 DEF WaitInv
  <2>6. main \notin {"configure", "producers", "consumers", "stopped"}
    BY <2>2 DEF SomebodyGoesOn, MainGoesOn, Alive
  <2>7. \A p \in Plugins : \/ plugin[p] = "loop" /\ control[p] = <<>>
                           \/ plugin[p] = "ended" /\ control[p] = <<>>
    <3> TAKE p \in Plugins
    <3>1. plugin[p] \in PluginStates /\ plugin[p] # "none"
      BY <2>1, <2>6, PluginsAreApart DEF ProcessTypes, LaunchInv
    <3>2. ~PluginGoesOn(p)
      BY DEF SomebodyGoesOn
    <3> QED
      BY <2>1, <2>2, <3>1, <3>2 DEF PluginGoesOn, PluginStates, StopInv
  <2>8. todo = <<>>
    <3> SUFFICES ASSUME todo # <<>> PROVE FALSE
      OBVIOUS
    <3>1. Head(todo) \in Plugins \X {"roll", "stop"}
      BY <2>1 DEF ProcessTypes
    <3> QED
      BY <2>7, <3>1 DEF SomebodyGoesOn, MainGoesOn
  <2>9. main # "stop consumers"
    BY <2>5, <2>8 DEF SomebodyGoesOn, MainGoesOn
  <2>10. main # "stop producers"
    <3> SUFFICES ASSUME main = "stop producers" PROVE FALSE
      OBVIOUS
    <3>1. \A p \in Range(Producers) : plugin[p] = "ended"
      <4> TAKE p \in Range(Producers)
      <4>1. p \in Plugins /\ ~ToBeTold(p)
        <5>1. DOMAIN todo = {}
          BY ONLY <2>8
        <5> QED
          BY <5>1, PluginsOfBoth DEF ToBeTold
      <4>2. control[p] = <<>>
        BY <2>7, <4>1
      <4>3. <<>> # <<"stop">>
        OBVIOUS
      <4> QED
        BY <2>1, <4>1, <4>2, <4>3 DEF StopInv, Told
    <3>2. CountedProducers = {}
      BY <3>1 DEF CountedProducers
    <3>3. producing = 0
      BY <2>1, <3>2, FS_EmptySet DEF CountedInv
    <3> QED
      BY <2>8, <3>3 DEF SomebodyGoesOn, MainGoesOn
  <2>11. main = "run"
    BY <2>1, <2>6, <2>9, <2>10 DEF ProcessTypes, MainStates
  <2>12. signals = <<>>
    BY <2>8, <2>11 DEF SomebodyGoesOn, MainGoesOn
  <2>13. \A p \in Plugins : plugin[p] # "ended"
    BY <2>1, <2>11 DEF StopInv, BeforeStop, Told
  <2>14. walker = "done"
    BY <2>4, <2>7, PluginsOfBoth DEF RestInv
  <2> QED
    BY <2>3, <2>7, <2>8, <2>11, <2>12, <2>13, <2>14
<1> QED
  BY <1>1, AllInvariants, PTL
===============================================================================
