------------------------------ MODULE Channel ------------------------------
(***************************************************************************)
(* What a stream of messages between a writer and a reader promises:       *)
(* messages come out as they were put in, in order, none of them twice,    *)
(* and all of them in the end - unless the reader breaks, after which      *)
(* nothing more comes.                                                     *)
(***************************************************************************)
EXTENDS Sequences, Naturals

VARIABLES sent, received, broken

Init == sent = <<>> /\ received = <<>> /\ broken = FALSE

Send ==
  /\ ~broken
  /\ Len(sent) < Len(sent') /\ SubSeq(sent', 1, Len(sent)) = sent
  /\ UNCHANGED <<received, broken>>

Receive ==
  /\ Len(received) < Len(sent)
  /\ received' = Append(received, sent[Len(received) + 1])
  /\ UNCHANGED <<sent, broken>>

Break ==
  /\ ~broken /\ broken' = TRUE
  /\ sent' = received
  /\ UNCHANGED received

Next == Send \/ Receive \/ Break

vars == <<sent, received, broken>>

\* What may happen, and what must.
Safety == Init /\ [][Next]_vars
Spec == Safety /\ WF_vars(Receive)
=============================================================================
