----------------------------- MODULE DelayQueue -----------------------------
(***************************************************************************)
(* What a topic relies on the timing wheel for: a message that is added    *)
(* waits, falls due once, and is handed over once; after a stop no message *)
(* is taken any more.  When a message falls due is left open.              *)
(***************************************************************************)
EXTENDS Naturals

CONSTANT Messages

VARIABLES
  scheduled,    \* messages waiting for their delay
  due,          \* taken off the wheel, not yet handed over
  stopped

vars == <<scheduled, due, stopped>>

Init ==
  /\ scheduled = {}
  /\ due = {}
  /\ stopped = FALSE

Schedule(m) ==
  /\ ~stopped
  /\ m \notin scheduled \cup due
  /\ scheduled' = scheduled \cup {m}
  /\ UNCHANGED <<due, stopped>>

FallDue(S) ==
  /\ due = {}
  /\ due' = S
  /\ scheduled' = scheduled \ S
  /\ UNCHANGED stopped

HandOver(m) ==
  /\ m \in due
  /\ due' = due \ {m}
  /\ UNCHANGED <<scheduled, stopped>>

Stop ==
  /\ stopped' = TRUE
  /\ UNCHANGED <<scheduled, due>>

Next ==
  \/ \E m \in Messages : Schedule(m) \/ HandOver(m)
  \/ \E S \in SUBSET scheduled : FallDue(S)
  \/ Stop

Spec == Init /\ [][Next]_vars
=============================================================================
