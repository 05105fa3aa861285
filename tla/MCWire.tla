------------------------------- MODULE MCWire -------------------------------
(* Every way to separate messages, with messages shorter and longer than the buffer. *)
EXTENDS Wire, TLC

CONSTANTS m1, m2, m3, m4

Mode(kind, param, width, bigEndian, delimiter, everything) ==
  [kind |-> kind, param |-> param, width |-> width, bigEndian |-> bigEndian,
   delimiter |-> delimiter, everything |-> everything]
MCModes == {
  Mode("delimiter", 0, 0, FALSE, <<10>>, FALSE), Mode("delimiter", 0, 0, FALSE, <<13, 10>>, TRUE),
  Mode("text", 0, 0, FALSE, <<58>>, FALSE), Mode("text", 1, 0, FALSE, <<58>>, TRUE),
  Mode("binary", 0, 2, TRUE, <<>>, TRUE), Mode("binary", 2, 1, FALSE, <<>>, FALSE), Mode("fixed", 2, 0, FALSE, <<>>, FALSE)}
\* m2 is empty: with a delimiter of which everything is kept it arrives, and else it does not.
MCPayload == m1 :> <<97, 98, 99>> @@ m2 :> <<>> @@ m3 :> <<100>> @@ m4 :> <<101, 102>>
MCBatches == <<<<m1>>, <<m3, m2>>, <<m4>>>>
MCSettings == {[handleError |-> "none", validate |-> FALSE], [handleError |-> "keep", validate |-> FALSE],
               [handleError |-> "flush", validate |-> FALSE], [handleError |-> "flush", validate |-> TRUE]}
=============================================================================
