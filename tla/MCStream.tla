------------------------------ MODULE MCStream ------------------------------
(* Model-checking instance of Stream. *)
EXTENDS Stream

CONSTANTS t1, t2

\* One goroutine uses the stream and the other one does nothing, or both use it.
OneUser  == [t \in Threads |-> IF t = t1 THEN {"Enqueue", "Pause", "Flush"} ELSE {}]
TwoUsers == [t \in Threads |-> IF t = t1 THEN {"Enqueue", "Resume"}
                               ELSE {"Enqueue", "Pause", "Resume", "Flush"}]
MCCallSets == {OneUser, TwoUsers}
=============================================================================
