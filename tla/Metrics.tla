------------------------------ MODULE Metrics ------------------------------
(***************************************************************************)
(* shared.Metric: a map of counters behind a sync.RWMutex.  Every change   *)
(* of a counter takes the read lock, New takes the write lock;             *)
(* UpdateSystemMetrics takes the read lock and, holding it, takes it again *)
(* for each metric it sets.                                                *)
(*                                                                         *)
(* The mutex is external: a goroutine that asks for the write lock waits   *)
(* for the readers there are and keeps new ones out, even those that have  *)
(* the read lock already.  A change of a counter is one step: it neither   *)
(* waits nor asks for anything while it has the read lock.                 *)
(***************************************************************************)
EXTENDS Naturals, FiniteSets

CONSTANTS
  Names,            \* counters
  SystemMetrics,    \* how many metrics UpdateSystemMetrics sets
  MaxDumps          \* bound: requests

ASSUME MetricsAssumption == SystemMetrics \in Nat \ {0} /\ MaxDumps \in Nat

VARIABLES
  held,             \* how often a request holds the read lock
  wanted,           \* somebody asks for the write lock, or has it
  store,            \* the value of each counter
  dumping,          \* where a request is
  updated,          \* how many metrics it has set
  dumps             \* requests so far

metricVars == <<held, wanted, store, dumping, updated, dumps>>
dumpVars == <<dumping, updated, dumps>>

MetricsTypeOK ==
  /\ held \in 0..2
  /\ wanted \in BOOLEAN
  /\ store \in [Names -> Nat]
  /\ dumping \in {"idle", "update", "set", "write", "marshal"}
  /\ updated \in 0..SystemMetrics
  /\ dumps \in 0..MaxDumps

MetricsInit ==
  /\ held = 0
  /\ wanted = FALSE
  /\ store = [n \in Names |-> 0]
  /\ dumping = "idle" /\ updated = 0 /\ dumps = 0

\* External: RWMutex.
RLock == ~wanted /\ held' = held + 1
RUnlock == held' = held - 1

\* Inc and Add.
Change(name, value) ==
  /\ ~wanted
  /\ store' = [store EXCEPT ![name] = @ + value]
  /\ UNCHANGED <<held, wanted, dumpVars>>

\* New: the name is added while nobody has the read lock.
AskForNew == ~wanted /\ wanted' = TRUE /\ UNCHANGED <<held, store, dumpVars>>
New == wanted /\ held = 0 /\ wanted' = FALSE /\ UNCHANGED <<held, store, dumpVars>>

(***************************************************************************)
(* Dump: UpdateSystemMetrics with its nested read locks, then the read     *)
(* lock once more to write the JSON.                                       *)
(***************************************************************************)
StartUpdate ==
  /\ dumping = "idle" /\ dumps < MaxDumps
  /\ RLock
  /\ dumping' = "update" /\ updated' = 0 /\ dumps' = dumps + 1
  /\ UNCHANGED <<wanted, store>>
BeginSet ==
  /\ dumping = "update" /\ updated < SystemMetrics
  /\ RLock
  /\ dumping' = "set"
  /\ UNCHANGED <<wanted, store, updated, dumps>>
EndSet ==
  /\ dumping = "set"
  /\ RUnlock
  /\ dumping' = "update" /\ updated' = updated + 1
  /\ UNCHANGED <<wanted, store, dumps>>
EndUpdate ==
  /\ dumping = "update" /\ updated = SystemMetrics
  /\ RUnlock
  /\ dumping' = "write"
  /\ UNCHANGED <<wanted, store, updated, dumps>>
BeginMarshal ==
  /\ dumping = "write"
  /\ RLock
  /\ dumping' = "marshal"
  /\ UNCHANGED <<wanted, store, updated, dumps>>
EndMarshal ==
  /\ dumping = "marshal"
  /\ RUnlock
  /\ dumping' = "idle"
  /\ UNCHANGED <<wanted, store, updated, dumps>>

Dump == StartUpdate \/ BeginSet \/ EndSet \/ EndUpdate \/ BeginMarshal \/ EndMarshal

\* The request waits for the lock it holds, and New for the request.
Stuck == wanted /\ dumping = "update" /\ updated < SystemMetrics
=============================================================================
