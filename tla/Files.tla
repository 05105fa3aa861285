------------------------------- MODULE Files -------------------------------
(***************************************************************************)
(* The files consumer: a walker goroutine steps through a directory tree   *)
(* and starts one goroutine for every file it accepts, in batches of       *)
(* Concurrency.  The goroutines read their file in slices of a fixed size  *)
(* (tidings.Profile) and count messages, sizes and bytes in the metrics.   *)
(* After the last one the walker reports the counts and, unless            *)
(* KeepRunning is set, interrupts its own process.                         *)
(*                                                                         *)
(* Abstracted: contents of files are their size.  The walk is external: a  *)
(* sequence of entries in the order of fs.Walk, each with the number of    *)
(* entries below it.                                                       *)
(***************************************************************************)
EXTENDS Metrics, Integers, Sequences, FiniteSetsExt

CONSTANTS
  Entries,          \* what the walk meets, with the number of entries below each
  AcceptFiles,      \* configuration: patterns of names, all files if there are none
  ExceptPaths,      \* configuration: patterns of paths
  Matches(_, _),    \* external: filepath.Match
  Concurrencies,    \* values of the setting Concurrency
  SliceSize,        \* configuration of the tidings
  NumTags           \* the number of size classes

Positions == 1..Len(Entries)

ASSUME FilesAssumption ==
  /\ Concurrencies \subseteq Nat
  /\ SliceSize \in Nat \ {0} /\ NumTags \in Nat \ {0, 1}
  /\ Entries \in Seq([path : STRING, base : STRING, dir : BOOLEAN, below : Nat,
                      err : BOOLEAN, size : Nat, readable : BOOLEAN])
  \* What is below an entry follows it, and is below all that this entry is below.
  /\ \A i \in Positions :
       /\ i + Entries[i].below <= Len(Entries)
       /\ \A k \in (i + 1)..(i + Entries[i].below) :
            k + Entries[k].below <= i + Entries[i].below
  /\ Names = {<<"messages">>, <<"bytes">>} \cup {<<"size", t>> : t \in 0..(NumTags - 1)}

VARIABLES
  concurrency, keepRunning,   \* configuration
  walker,           \* where the walker goroutine is
  position,         \* the next entry
  currentProcNum,   \* how many goroutines it starts before it waits
  file,             \* where the goroutine of each file is
  left,             \* the slices it has not processed
  workers,          \* the count of the consumer wait group
  reported          \* what the walker has read from the metrics

walkVars == <<walker, position, currentProcNum>>
fileVars == <<file, left>>
filesVars == <<concurrency, keepRunning, walkVars, fileVars, workers, reported>>

FilesInit ==
  /\ concurrency \in Concurrencies /\ keepRunning \in BOOLEAN
  /\ walker = "none" /\ position = 1
  /\ currentProcNum = (IF concurrency = 0 THEN 1 ELSE 0)
  /\ file = [i \in Positions |-> "none"]
  /\ left = [i \in Positions |-> 0]
  /\ workers = 0
  /\ reported = [n \in Names |-> 0]

(***************************************************************************)
(* Which entries count.                                                    *)
(***************************************************************************)
skipFile(i) ==
  AcceptFiles # {} /\ ~\E p \in AcceptFiles : Matches(p, Entries[i].base)
skipDir(i) == \E p \in ExceptPaths : Matches(p, Entries[i].path)

\* The class of a size in thousands: one for each power of ten, the last is open.
SizeTag(size) ==
  Min({t \in 0..(NumTags - 1) : t + 1 = NumTags \/ size < 1000 * 10^t})

\* What Profile.Identify makes of a file: a rest is smaller than a slice and not
\* delivered.
Slices(size) == size \div SliceSize

(***************************************************************************)
(* The wait group of the goroutines.                                       *)
(***************************************************************************)
\* Mutant: a goroutine is done before it has counted the bytes.
Running_Early(i) == file[i] \notin {"none", "bytes", "done"}
Running(i) == file[i] \notin {"none", "done"}
NoneRuns == \A i \in Positions : ~Running(i)

\* Mutant: the wait is left out.
MayStep_NoWait == TRUE
MayStep == currentProcNum # 0 \/ NoneRuns
Refilled == IF currentProcNum = 0 THEN concurrency ELSE currentProcNum

(***************************************************************************)
(* The walker.                                                             *)
(***************************************************************************)
\* The walker counts itself in the wait group, and then in the metrics, which can make it
\* wait; likewise when it leaves.
AddMainWorker ==
  /\ walker = "starting"
  /\ walker' = "counted" /\ workers' = workers + 1
  /\ UNCHANGED <<concurrency, keepRunning, position, currentProcNum, fileVars, reported, metricVars>>

StartWalk ==
  /\ walker = "counted" /\ ~wanted
  /\ walker' = "steps"
  /\ UNCHANGED <<concurrency, keepRunning, position, currentProcNum, fileVars, workers, reported, metricVars>>

\* An entry that is passed over, a directory with all that is below it.
Pass ==
  /\ walker = "steps" /\ position <= Len(Entries) /\ MayStep
  /\ LET e == Entries[position] IN
       \/ /\ e.err \/ (e.dir /\ ~skipDir(position)) \/ (~e.dir /\ skipFile(position))
          /\ position' = position + 1
       \/ /\ ~e.err /\ e.dir /\ skipDir(position)
          /\ position' = position + 1 + e.below
  /\ currentProcNum' = Refilled
  /\ UNCHANGED <<concurrency, keepRunning, walker, fileVars, workers, reported, metricVars>>
goConcurrency ==
  /\ walker = "steps" /\ position <= Len(Entries) /\ MayStep
  /\ LET e == Entries[position] IN ~e.err /\ ~e.dir /\ ~skipFile(position)
  /\ currentProcNum' = Refilled - 1
  /\ file' = [file EXCEPT ![position] = "open"]
  /\ position' = position + 1
  /\ UNCHANGED <<concurrency, keepRunning, walker, left, workers, reported, metricVars>>

waitAllComplete ==
  /\ walker = "steps" /\ position > Len(Entries) /\ NoneRuns
  /\ walker' = "report" /\ currentProcNum' = concurrency
  /\ UNCHANGED <<concurrency, keepRunning, position, fileVars, workers, reported, metricVars>>
\* One step: the goroutines are done, and nobody else changes these metrics.
dumpMetric ==
  /\ walker = "report" /\ ~wanted
  /\ reported' = store
  /\ walker' = IF keepRunning THEN "leave" ELSE "interrupt"
  /\ UNCHANGED <<concurrency, keepRunning, position, currentProcNum, fileVars, workers, metricVars>>
\* Mutant: a walker that does not leave.
WorkerDone_Forgotten ==
  /\ walker = "leave"
  /\ walker' = "left"
  /\ UNCHANGED <<concurrency, keepRunning, position, currentProcNum, fileVars, workers, reported, metricVars>>
WorkerDone ==
  /\ walker = "leave"
  /\ walker' = "left" /\ workers' = workers - 1
  /\ UNCHANGED <<concurrency, keepRunning, position, currentProcNum, fileVars, reported, metricVars>>
Leave ==
  /\ walker = "left" /\ ~wanted
  /\ walker' = "done"
  /\ UNCHANGED <<concurrency, keepRunning, position, currentProcNum, fileVars, workers, reported, metricVars>>

(***************************************************************************)
(* The goroutine of a file.                                                *)
(***************************************************************************)
\* A file that cannot be opened is not read, but its size counts.
Open(i) ==
  /\ file[i] = "open"
  /\ file' = [file EXCEPT ![i] = "read"]
  /\ left' = [left EXCEPT ![i] = IF Entries[i].readable THEN Slices(Entries[i].size) ELSE 0]
  /\ UNCHANGED <<concurrency, keepRunning, walkVars, workers, reported, metricVars>>
\* Profile.Process
Process(i) ==
  /\ file[i] = "read" /\ left[i] > 0
  /\ Change(<<"messages">>, 1)
  /\ left' = [left EXCEPT ![i] = @ - 1]
  /\ UNCHANGED <<concurrency, keepRunning, walkVars, file, workers, reported>>
statisticFiles(i) ==
  /\ file[i] = "read" /\ left[i] = 0
  /\ Change(<<"size", SizeTag(Entries[i].size)>>, 1)
  /\ file' = [file EXCEPT ![i] = "bytes"]
  /\ UNCHANGED <<concurrency, keepRunning, walkVars, left, workers, reported>>
CountBytes(i) ==
  /\ file[i] = "bytes"
  /\ Change(<<"bytes">>, Entries[i].size)
  /\ file' = [file EXCEPT ![i] = "finish"]
  /\ UNCHANGED <<concurrency, keepRunning, walkVars, left, workers, reported>>
Done(i) ==
  /\ file[i] = "finish"
  /\ file' = [file EXCEPT ![i] = "done"]
  /\ UNCHANGED <<concurrency, keepRunning, walkVars, left, workers, reported, metricVars>>

process(i) == Open(i) \/ Process(i) \/ statisticFiles(i) \/ CountBytes(i) \/ Done(i)

-----------------------------------------------------------------------------
(***************************************************************************)
(* What the walker promises.                                               *)
(***************************************************************************)
\* The files that are to be read: accepted, and not below a directory that is passed
\* over or that failed.
Wanted ==
  {i \in Positions :
    /\ ~Entries[i].err /\ ~Entries[i].dir /\ ~skipFile(i)
    /\ ~\E d \in 1..(i - 1) :
          /\ Entries[d].dir /\ ~Entries[d].err /\ skipDir(d)
          /\ i <= d + Entries[d].below}

Total(f, S) == FoldFunctionOnSet(+, 0, f, S)
Expected ==
  [n \in Names |->
     CASE n[1] = "bytes"    -> Total([i \in Positions |-> Entries[i].size], Wanted)
       [] n[1] = "messages" -> Total([i \in Positions |-> Slices(Entries[i].size)],
                                     {i \in Wanted : Entries[i].readable})
       [] n[1] = "size"     -> Cardinality({i \in Wanted : SizeTag(Entries[i].size) = n[2]})]

\* The report of the walker has every file it is to read once and completely, although
\* the goroutines count while it goes on (start, process, dumpMetric in consumer/files.go).
ReportIsComplete ==
  walker \in {"interrupt", "leave", "left", "done"} => reported = Expected

\* A positive concurrency bounds the goroutines that read files at any time, over all
\* batches (monitorConcurrency and goConcurrency in consumer/files.go).
WithinConcurrency ==
  concurrency > 0 => Cardinality({i \in Positions : Running(i)}) <= concurrency
=============================================================================
