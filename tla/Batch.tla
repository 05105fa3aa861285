------------------------------- MODULE Batch -------------------------------
(***************************************************************************)
(* What a message batch promises its users: a message that is accepted is  *)
(* handed to the callback once, and in the end.  After Close messages may  *)
(* still be accepted, but nothing is promised of those it came too late    *)
(* for; when Close has returned no other is left.  A panic of the callback *)
(* ends all promises.                                                      *)
(***************************************************************************)
EXTENDS Naturals

CONSTANTS
  Messages, Contents,   \* messages, and whatever the callback may be given
  CloseWaits            \* whether Close waits for its flush, however long it takes

VARIABLES
  pending, loose,       \* messages accepted and not handed over; those that are too late
  refused,
  handed,               \* how often the callback has been given something
  closed, returned,     \* Close has been called, and has returned
  broken

vars == <<pending, loose, refused, handed, closed, returned, broken>>

Init ==
  /\ pending = {} /\ loose = {} /\ refused = {} /\ handed = [c \in Contents |-> 0]
  /\ closed = FALSE /\ returned = FALSE /\ broken = FALSE

New(m) == m \notin pending \cup loose \cup refused /\ handed[m] = 0

Accept(m) ==
  /\ ~broken /\ New(m) /\ ~(returned /\ CloseWaits)
  /\ pending' = pending \cup {m}
  /\ UNCHANGED <<loose, refused, handed, closed, returned, broken>>

AcceptLate(m) ==
  /\ ~broken /\ New(m) /\ closed
  /\ loose' = loose \cup {m}
  /\ UNCHANGED <<pending, refused, handed, closed, returned, broken>>

Refuse(m) ==
  /\ ~broken /\ New(m)
  /\ refused' = refused \cup {m}
  /\ UNCHANGED <<pending, loose, handed, closed, returned, broken>>

Hand(m) ==
  /\ m \in pending \cup loose
  /\ pending' = pending \ {m} /\ loose' = loose \ {m}
  /\ handed' = [handed EXCEPT ![m] = @ + 1]
  /\ UNCHANGED <<refused, closed, returned, broken>>

Close ==
  /\ closed' = TRUE
  /\ UNCHANGED <<pending, loose, refused, handed, returned, broken>>

Return ==
  /\ closed /\ (CloseWaits => pending = {})
  /\ returned' = TRUE
  /\ UNCHANGED <<pending, loose, refused, handed, closed, broken>>

Break ==
  /\ broken' = TRUE
  /\ pending' = {} /\ loose' = {} /\ refused' = {} /\ handed' = [c \in Contents |-> 0]
  /\ UNCHANGED <<closed, returned>>

Next == \/ \E m \in Messages : Accept(m) \/ AcceptLate(m) \/ Refuse(m) \/ Hand(m)
        \/ Close \/ Return \/ Break

\* What may happen, and what must.
Safety == Init /\ [][Next]_vars
Spec == Safety /\ \A m \in Messages : WF_vars(m \in pending /\ Hand(m))
=============================================================================
