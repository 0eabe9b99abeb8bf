---------------------------- MODULE MCGovernance ----------------------------
(* A small instance of Governance for TLC. *)
EXTENDS Governance

CONSTANTS p1, p2, h1, h2

Callers == {p \in All : proc[p] # Idle}

\* Bound: two people answer at once only while one process has called.  The processes are
\* interchangeable, and so are the people: p1 calls before p2, h2 answers beside h1.
\* Nor is an answer half written while a sweep is, with two callers: they share no row.
InTurn ==
    /\ proc[p2] # Idle => proc[p1] # Idle
    /\ reading[h2] # 0 => Cardinality(Callers) <= 1
    /\ reading[h1] # 0 /\ Cardinality(Callers) = 2 => sweep = NoSweep

\* Bound: a gate shares nothing with the others but the sweep, and calls alone.
GatesAlone == Callers \cap Gates # {} => Cardinality(Callers) = 1

=============================================================================
