--------------------------- MODULE MCMessageBatch ---------------------------
(* Model-checking instances of MessageBatch. *)
EXTENDS MessageBatch, TLC

CONSTANTS writer1, writer2, flusher

MCThreads == {writer1, writer2, flusher}

\* Two appending goroutines and one that flushes, closes or rotates.
MCCalls == writer1 :> {"Append", "AppendOrFlush"} @@ writer2 :> {"AppendOrBlock"}
           @@ flusher :> {"Flush", "Close", "AfterFlushDo"}
=============================================================================
