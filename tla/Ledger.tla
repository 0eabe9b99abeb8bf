------------------------------- MODULE Ledger -------------------------------
(* What an audit log promises: entries are only ever added at its end, and *)
(* none is added once some of them, or the record of the last, were lost.  *)
EXTENDS Integers, Sequences

VARIABLES
    history,  \* the actions recorded, oldest first
    lost      \* whether entries, or the record of the last one, were lost

LedgerInit == DOMAIN history = 1 .. Len(history) /\ lost = FALSE

\* One or more entries are added.
Add ==
    /\ ~lost /\ lost' = FALSE
    /\ Len(history') > Len(history)
    /\ \A i \in DOMAIN history : history'[i] = history[i]

Lose == lost' = TRUE /\ history' = history

LedgerSpec == LedgerInit /\ [][Add \/ Lose]_<<history, lost>>
=============================================================================
