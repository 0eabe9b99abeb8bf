------------------------- MODULE MCWorkAssignments -------------------------
(* Small instances of WorkAssignments for TLC. *)
EXTENDS WorkAssignments

\* A budget with no deadline, and a longer budget cut short by a deadline.
MCRequests == {[budget |-> 1, deadline |-> NoDeadline], [budget |-> 2, deadline |-> 1]}

=============================================================================
