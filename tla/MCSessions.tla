----------------------------- MODULE MCSessions -----------------------------
(* Small instances of Sessions for TLC. *)
EXTENDS Sessions

\* Bound: a second task only among process-bound Sessions, before any handle starts.
SecondTaskAlone == (\E h \in Handles : Exists(h)) => \A t \in Tasks \ {1} : task[t].status = "absent"

=============================================================================
