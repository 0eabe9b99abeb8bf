------------------------------ MODULE Handoffs ------------------------------
(***************************************************************************)
(* The handoff of one Workspace: control/handoffs.py.  set_handoff holds   *)
(* the lock of the Workspace; pick_handoff without a Session and           *)
(* clear_handoff read the active handoff without one, and write later.     *)
(***************************************************************************)
EXTENDS Integers, Sequences, FiniteSets

CONSTANTS
    Callers,       \* processes that set, pick and clear
    Titles,        \* what a handoff says, and who set it
    MaxHandoffs    \* bound: handoffs set

ASSUME HandoffAssumption == MaxHandoffs \in Nat

VARIABLES
    handoffs,  \* the table, oldest first
    held,      \* per caller: the handoff its pick or clear has read
    given      \* per handoff: the callers whose pick returned it

handoffVars == <<handoffs, held, given>>

Active == {i \in DOMAIN handoffs : handoffs[i].status = "active"}
Latest(S) == CHOOSE i \in S : \A j \in S : j <= i

NotHeld == [op |-> "none", id |-> 0]

\* set_handoff: an exact retry of the active one changes nothing, otherwise it is replaced.
Replaced(log) ==
    [i \in DOMAIN log |-> IF log[i].status = "active" THEN [log[i] EXCEPT !.status = "cleared"] ELSE log[i]]

set_handoff(title) ==
    /\ Len(handoffs) < MaxHandoffs
    /\ Active # {} => handoffs[Latest(Active)].title # title
    /\ handoffs' = Append(Replaced(handoffs), [title |-> title, status |-> "active", old |-> FALSE])
    /\ UNCHANGED <<held, given>>

\* pick_handoff and clear_handoff look for the active one.
LooksUp(c, op) ==
    /\ held[c] = NotHeld /\ Active # {}
    /\ held' = [held EXCEPT ![c] = [op |-> op, id |-> Latest(Active)]]
    /\ UNCHANGED <<handoffs, given>>

StillActive(id) == handoffs[id].status = "active"

\* The conditional update of pick_handoff: the loser of a race is told that there is none.
pick_handoff(c) ==
    LET id == held[c].id
    IN  /\ held[c].op = "pick"
        /\ IF StillActive(id)
           THEN /\ handoffs' = [handoffs EXCEPT ![id].status = "picked_up"]
                /\ given' = [given EXCEPT ![id] = @ \cup {c}]
           ELSE UNCHANGED <<handoffs, given>>
        /\ held' = [held EXCEPT ![c] = NotHeld]

\* clear_handoff writes the status of the row it read, whatever became of it.
clear_handoff(c) ==
    /\ held[c].op = "clear"
    /\ handoffs' = [handoffs EXCEPT ![held[c].id].status = "cleared"]
    /\ held' = [held EXCEPT ![c] = NotHeld]
    /\ UNCHANGED given

Aged(q) == q.status = "active" /\ q.old

\* mark_stale_handoffs, at every listing
mark_stale_handoffs ==
    /\ \E i \in DOMAIN handoffs : Aged(handoffs[i])
    /\ handoffs' = [i \in DOMAIN handoffs |->
                       IF Aged(handoffs[i]) THEN [handoffs[i] EXCEPT !.status = "stale"] ELSE handoffs[i]]
    /\ UNCHANGED <<held, given>>

HandoffAges(i) ==
    /\ ~handoffs[i].old
    /\ handoffs' = [handoffs EXCEPT ![i].old = TRUE]
    /\ UNCHANGED <<held, given>>

HandoffInit ==
    /\ handoffs = << >>
    /\ held = [c \in Callers |-> NotHeld]
    /\ given = [i \in 1 .. MaxHandoffs |-> {}]

HandoffNext ==
    \/ \E title \in Titles : set_handoff(title)
    \/ \E c \in Callers : LooksUp(c, "pick") \/ LooksUp(c, "clear") \/ pick_handoff(c) \/ clear_handoff(c)
    \/ \E i \in DOMAIN handoffs : HandoffAges(i)
    \/ mark_stale_handoffs

-----------------------------------------------------------------------------
\* A Workspace never offers two handoffs at once.
OneActive == Cardinality(Active) <= 1

\* A handoff is handed over once, however picks, sets, clears and the sweep interleave.
HandedOnce == \A i \in DOMAIN given : Cardinality(given[i]) <= 1

\* A handoff that somebody was given is never offered again nor reported as stale; only a
\* clear that had read it before (clear_handoff compares nothing) may call it cleared.
PickRemembered ==
    \A i \in DOMAIN given : given[i] # {} => handoffs[i].status \in {"picked_up", "cleared"}
=============================================================================
