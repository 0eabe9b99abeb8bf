--------------------------- MODULE SessionsProofs ---------------------------
(***************************************************************************)
(* The safety of Sessions for every set of handles and agents, every       *)
(* number of tasks and every length of lease, claim and staleness.  That   *)
(* owners are awake is inductive with the types and with what a start in   *)
(* progress may rely on: a handle it read as ended is still ended.         *)
(* After it, the safety of SessionCommands, and of the two beside each     *)
(* other.                                                                  *)
(***************************************************************************)
EXTENDS MCHeldSession, FiniteSetTheorems, TLAPS

Awake(s) == Exists(s) /\ ~session[s].ended /\ session[s].state # "dormant"

TasksInOrder ==
    \A t, u \in Tasks : u < t /\ task[t].status # "absent" => task[u].status # "absent"

RowsMakeSense ==
    \A s \in Ids : /\ session[s].ended => Exists(s)
                   /\ session[s].state = "dormant" => s \in Handles

CallKnows ==
    /\ call.pc \in {"renew", "create"} /\ call.ended => call.pick \in Ids /\ session[call.pick].ended
    /\ call.pc = "renew" => call.pick \in Handles /\ Exists(call.pick)
    /\ call.pc \in {"reap", "sweep", "reuse", "link"} => ~call.ended
    /\ call.pc = "claim" => call.who \in Ids
    /\ call.op = "claim" => call.who \in Ids

TasksHaveOwners == \A t \in Tasks : task[t].status = "in_progress" => task[t].owner \in Ids

SessionRows == [state : States, ended : BOOLEAN]
TaskRows == [status : {"absent", "available", "in_progress", "done"},
             owner : Ids \cup {None}, deps : SUBSET Tasks]

\* What the invariant says of holdings.
Holdings ==
    /\ claim \in [owner : Ids \cup {None}, left : -1 .. ClaimLength]
    /\ task \in [Tasks -> TaskRows]
    /\ OwnersAreAwake
    /\ NoEarlyStart
    /\ TasksInOrder
    /\ TasksHaveOwners

IInv ==
    /\ session \in [Ids -> SessionRows]
    /\ lease \in [Handles -> -1 .. LeaseLength]
    /\ quiet \in [Agents -> 0 .. StaleTTL + 1]
    /\ alive \subseteq Agents
    /\ successor \in [Ids -> Ids \cup {None}]
    /\ call \in Call
    /\ Holdings
    /\ RowsMakeSense
    /\ CallKnows

\* The inductive invariant contains the type invariant.
LEMMA IInvTyped == IInv => TypeOK
BY DEF IInv, TypeOK, Holdings, SessionRows, TaskRows

\* The initial state satisfies every part of the inductive invariant.
LEMMA InitEstablishesIInv ==
    ASSUME Init
    PROVE  IInv
<1>1. -1 \in -1 .. LeaseLength /\ -1 \in -1 .. ClaimLength /\ 0 \in 0 .. StaleTTL + 1
  BY ConstantsAssumption
<1>2. Holdings
  BY <1>1, ConstantsAssumption DEF Init, Holdings, OwnersAreAwake, Owns, NoEarlyStart, TasksInOrder, TasksHaveOwners, NoClaim,
        NoTask, TaskRows, Ids
<1>3. call \in Call
  BY DEF Init, Call, NoCall, States
<1> QED BY <1>1, <1>2, <1>3 DEF Init, IInv, SessionRows, States, RowsMakeSense, CallKnows, NoCall

-----------------------------------------------------------------------------
(* Time and activity.                                                      *)

\* Renewing one Session keeps the two clocks typed.
LEMMA TouchTyped ==
    ASSUME IInv, NEW s, Touch(s)
    PROVE  lease' \in [Handles -> -1 .. LeaseLength] /\ quiet' \in [Agents -> 0 .. StaleTTL + 1]
<1>1. LeaseLength \in -1 .. LeaseLength /\ 0 \in 0 .. StaleTTL + 1
  BY ConstantsAssumption
<1> QED BY <1>1 DEF Touch, IInv

-----------------------------------------------------------------------------
(* Holdings.                                                               *)

\* Nothing changes hands and nobody falls asleep.
LEMMA HoldingsKept ==
    ASSUME Holdings, UNCHANGED <<claim, task>>, \A s \in Ids : Awake(s) => Awake(s)'
    PROVE  Holdings'
BY DEF Holdings, OwnersAreAwake, Owns, NoEarlyStart, TasksInOrder, TasksHaveOwners, Awake, Exists

\* Whoever falls asleep is released first.
LEMMA HoldingsReleased ==
    ASSUME Holdings, NEW S, ReleaseOwnership(S),
           \A s \in Ids : s \notin S /\ Awake(s) => Awake(s)'
    PROVE  Holdings'
<1>1. claim' \in [owner : Ids \cup {None}, left : -1 .. ClaimLength]
  BY ConstantsAssumption DEF Holdings, ReleaseOwnership, NoClaim
<1>2. task' \in [Tasks -> TaskRows]
  <2>1. ASSUME NEW t \in Tasks PROVE GivenBack(t) \in TaskRows
    <3>1. task[t] \in TaskRows
      BY DEF Holdings
    <3> QED BY <3>1 DEF GivenBack, TaskRows
  <2> QED BY <2>1 DEF Holdings, ReleaseOwnership
<1>3. /\ claim'.owner # None => claim' = claim /\ claim.owner \notin S
      /\ \A t \in Tasks : /\ task'[t].deps = task[t].deps
                          /\ task'[t].status = "absent" <=> task[t].status = "absent"
                          /\ task'[t].status = "done" <=> task[t].status = "done"
                          /\ task'[t].status = "in_progress" => task'[t] = task[t] /\ task[t].owner \notin S
  BY DEF Holdings, ReleaseOwnership, GivenBack, NoClaim, TaskRows
<1>4. OwnersAreAwake'
  <2> SUFFICES ASSUME NEW s \in Ids, Owns(s)' PROVE s \notin S /\ Owns(s)
    BY DEF Holdings, OwnersAreAwake, Awake, Exists
  <2>1. s # None
    BY ConstantsAssumption DEF Ids
  <2> QED BY <1>3, <2>1 DEF Owns
<1>5. NoEarlyStart'
  <2>1. \A t \in Tasks : task[t].deps \subseteq Tasks
    BY DEF Holdings, TaskRows
  <2> QED BY <1>3, <2>1 DEF Holdings, NoEarlyStart
<1>6. TasksInOrder' /\ TasksHaveOwners'
  BY <1>3 DEF Holdings, TasksInOrder, TasksHaveOwners
<1> QED BY <1>1, <1>2, <1>4, <1>5, <1>6 DEF Holdings

\* What a predecessor holds passes to a Session that is awake afterwards.
LEMMA HoldingsMoved ==
    ASSUME Holdings, NEW p \in Ids, NEW h \in Ids, MoveOwnership(p, h), Awake(h)',
           \A s \in Ids : s # p /\ Awake(s) => Awake(s)'
    PROVE  Holdings'
<1>1. claim' \in [owner : Ids \cup {None}, left : -1 .. ClaimLength]
  BY DEF Holdings, MoveOwnership
<1>2. task' \in [Tasks -> TaskRows]
  BY DEF Holdings, MoveOwnership, TaskRows
<1>3. /\ claim'.owner \in {claim.owner, h} /\ (claim'.owner = p => h = p)
      /\ \A t \in Tasks : /\ task'[t].deps = task[t].deps
                          /\ task'[t].status = task[t].status
                          /\ task'[t].status = "in_progress" =>
                                task'[t].owner \in {task[t].owner, h} /\ (task'[t].owner = p => h = p)
  BY DEF Holdings, MoveOwnership, TaskRows
<1>4. OwnersAreAwake'
  <2> SUFFICES ASSUME NEW s \in Ids, Owns(s)', s # h PROVE s # p /\ Owns(s)
    BY DEF Holdings, OwnersAreAwake, Awake, Exists
  <2> QED BY <1>3 DEF Owns
<1>5. NoEarlyStart'
  <2>1. \A t \in Tasks : task[t].deps \subseteq Tasks
    BY DEF Holdings, TaskRows
  <2> QED BY <1>3, <2>1 DEF Holdings, NoEarlyStart
<1>6. TasksInOrder' /\ TasksHaveOwners'
  BY <1>3 DEF Holdings, TasksInOrder, TasksHaveOwners
<1> QED BY <1>1, <1>2, <1>4, <1>5, <1>6 DEF Holdings

-----------------------------------------------------------------------------
(* One step per action: the invariant is preserved, and ended Sessions     *)
(* stay ended, which the start in progress relies on.                      *)

EndedKept == \A s \in Ids : session[s].ended => session'[s].ended

\* A step that leaves the call alone only has to keep the rest.
LEMMA CallUntouched ==
    ASSUME IInv, call' = call, EndedKept,
           session' \in [Ids -> SessionRows],
           lease' \in [Handles -> -1 .. LeaseLength],
           quiet' \in [Agents -> 0 .. StaleTTL + 1],
           alive' \subseteq Agents,
           successor' \in [Ids -> Ids \cup {None}],
           \A s \in Ids : Exists(s) => Exists(s)',
           RowsMakeSense', Holdings'
    PROVE  IInv'
<1>1. CallKnows'
  BY DEF IInv, CallKnows, EndedKept, Ids
<1> QED BY <1>1 DEF IInv

\* Passing time and exiting processes change no Session and no holding.
LEMMA TimePreserves ==
    ASSUME IInv, Tick \/ \E a \in Agents : ProcessExit(a)
    PROVE  IInv' /\ EndedKept
<1>1. CASE Tick
  <2>1. lease' \in [Handles -> -1 .. LeaseLength] /\ quiet' \in [Agents -> 0 .. StaleTTL + 1]
    BY <1>1, ConstantsAssumption DEF Tick, IInv
  <2>2. claim'.owner = claim.owner /\ claim' \in [owner : Ids \cup {None}, left : -1 .. ClaimLength]
    BY <1>1, ConstantsAssumption DEF Tick, IInv, Holdings
  <2>3. Holdings'
    BY <1>1, <2>2 DEF Tick, IInv, Holdings, OwnersAreAwake, Owns, Exists, NoEarlyStart, TasksInOrder,
                      TasksHaveOwners
  <2> QED BY <1>1, <2>1, <2>3 DEF Tick, IInv, EndedKept, RowsMakeSense, Exists, CallKnows
<1>2. CASE \E a \in Agents : ProcessExit(a)
  <2>1. Holdings'
    BY <1>2, HoldingsKept DEF ProcessExit, IInv, Awake, Exists
  <2> QED BY <1>2, <2>1 DEF ProcessExit, IInv, EndedKept, RowsMakeSense, Exists, CallKnows
<1> QED BY <1>1, <1>2

\* A heartbeat renews, and wakes a dormant handle that has no successor.
LEMMA HeartbeatPreserves ==
    ASSUME IInv, NEW s \in Ids, heartbeat_session(s)
    PROVE  IInv' /\ EndedKept
<1>1. session' \in [Ids -> SessionRows]
  BY DEF heartbeat_session, IInv, SessionRows, States
<1>2. /\ \A q \in Ids : q # s => session'[q] = session[q]
      /\ session'[s].ended = session[s].ended
      /\ session'[s].state \in {session[s].state, "running"}
  BY DEF heartbeat_session, IInv, SessionRows
<1>3. Holdings'
  BY <1>2, HoldingsKept DEF heartbeat_session, IInv, Awake, Exists
<1>4. EndedKept /\ RowsMakeSense' /\ \A q \in Ids : Exists(q) => Exists(q)'
  BY <1>2 DEF EndedKept, RowsMakeSense, Exists, IInv
<1> QED BY <1>1, <1>3, <1>4, TouchTyped, CallUntouched DEF heartbeat_session, IInv

\* Any other event in a Session's name renews it and nothing else.
LEMMA AppendPreserves ==
    ASSUME IInv, NEW s \in Ids, append_event(s)
    PROVE  IInv' /\ EndedKept
<1>1. Holdings'
  BY HoldingsKept DEF append_event, IInv, Awake, Exists
<1>2. EndedKept /\ RowsMakeSense' /\ \A q \in Ids : Exists(q) => Exists(q)'
  BY DEF append_event, EndedKept, RowsMakeSense, Exists, IInv
<1> QED BY <1>1, <1>2, TouchTyped, CallUntouched DEF append_event, IInv

\* One Session is given a state, and released if the state is terminal.
LEMMA StatePreserves ==
    ASSUME IInv, NEW s \in Ids, NEW row \in SessionRows, Exists(s),
           session' = [session EXCEPT ![s] = row],
           row.state # "absent", row.state = "dormant" => s \in Handles,
           session[s].ended => row.ended,
           \/ ReleaseOwnership({s})
           \/ UNCHANGED <<claim, task>> /\ ~row.ended /\ row.state # "dormant",
           UNCHANGED <<lease, quiet, alive, successor, call>>
    PROVE  IInv' /\ EndedKept
<1>1. session' \in [Ids -> SessionRows]
  BY DEF IInv
<1>2. session'[s] = row /\ \A q \in Ids : q # s => session'[q] = session[q]
  BY DEF IInv
<1>3. Holdings'
  <2>1. CASE ReleaseOwnership({s})
    BY <1>2, <2>1, HoldingsReleased DEF IInv, Awake, Exists
  <2>2. CASE UNCHANGED <<claim, task>> /\ ~row.ended /\ row.state # "dormant"
    BY <1>2, <2>2, HoldingsKept DEF IInv, Awake, Exists
  <2> QED BY <2>1, <2>2
<1>4. EndedKept /\ RowsMakeSense' /\ \A q \in Ids : Exists(q) => Exists(q)'
  BY <1>2 DEF EndedKept, RowsMakeSense, Exists, IInv
<1> QED BY <1>1, <1>3, <1>4, CallUntouched DEF IInv

\* A reported state.
LEMMA SetStatePreserves ==
    ASSUME IInv, NEW s \in Ids, NEW state \in ReportedStates, set_session_state(s, state)
    PROVE  IInv' /\ EndedKept
<1>1. state \in {"spawning", "running", "blocked", "completed", "failed"}
  BY ConstantsAssumption
<1>2. CASE TerminalOrEnded(s)
  <2>1. session' = [session EXCEPT ![s] = session[s]] /\ session[s] \in SessionRows
    BY <1>2 DEF set_session_state, IInv
  <2>2. ReleaseOwnership({s})
    BY <1>2 DEF set_session_state
  <2> QED BY <2>1, <2>2, StatePreserves DEF set_session_state, Exists, IInv, RowsMakeSense
<1>3. CASE ~TerminalOrEnded(s)
  <2> DEFINE row == [state |-> state, ended |-> state \in TERMINAL]
  <2>1. row \in SessionRows /\ row.state \notin {"absent", "dormant"} /\ ~session[s].ended
    BY <1>1, <1>3 DEF SessionRows, States, TERMINAL, TerminalOrEnded
  <2>2. session' = [session EXCEPT ![s] = row]
    BY <1>3 DEF set_session_state
  <2>3. \/ ReleaseOwnership({s})
        \/ UNCHANGED <<claim, task>> /\ ~row.ended /\ row.state # "dormant"
    BY <1>1, <1>3 DEF set_session_state, TERMINAL
  <2> HIDE DEF row
  <2> QED BY <2>1, <2>2, <2>3, StatePreserves DEF set_session_state
<1> QED BY <1>2, <1>3

\* A Session ends by itself, or is ended by an operator or its Runtime.
LEMMA EndPreserves ==
    ASSUME IInv, NEW s \in Ids,
           end_session(s) \/ \E state \in TERMINAL : finalize_session(s, state)
    PROVE  IInv' /\ EndedKept
<1>1. session[s] \in SessionRows
  BY DEF IInv
<1>2. CASE end_session(s)
  <2> DEFINE row == [state |-> IF session[s].state \in TERMINAL THEN session[s].state
                               ELSE "completed", ended |-> TRUE]
  <2>1. row \in SessionRows /\ row.state \notin {"absent", "dormant"} /\ row.ended
    BY <1>1 DEF SessionRows, States, TERMINAL
  <2>2. session' = [session EXCEPT ![s] = row]
    BY <1>2 DEF end_session
  <2> HIDE DEF row
  <2> QED BY <1>2, <2>1, <2>2, StatePreserves DEF end_session
<1>3. ASSUME NEW state \in TERMINAL, finalize_session(s, state) PROVE IInv' /\ EndedKept
  <2> DEFINE row == [state |-> state, ended |-> TRUE]
  <2>1. row \in SessionRows /\ row.state \notin {"absent", "dormant"} /\ row.ended
    BY <1>1 DEF SessionRows, States, TERMINAL
  <2>2. session' = [session EXCEPT ![s] = row]
    BY <1>3 DEF finalize_session
  <2> HIDE DEF row
  <2> QED BY <1>3, <2>1, <2>2, StatePreserves DEF finalize_session
<1> QED BY <1>2, <1>3

\* What every transition of Sessions keeps, besides the types of the clocks
\* and of the links.
Kept ==
    /\ session' \in [Ids -> SessionRows]
    /\ Holdings'
    /\ EndedKept
    /\ RowsMakeSense'
    /\ \A q \in Ids : Exists(q) => Exists(q)'

\* The sweep puts handles to sleep and releases exactly those.
LEMMA SweepKeeps ==
    ASSUME IInv, SweepLeases
    PROVE  Kept
<1>1. session' \in [Ids -> SessionRows]
  BY DEF SweepLeases, IInv, SessionRows, States
<1>2. \A q \in Ids : /\ session'[q].ended = session[q].ended
                     /\ q \notin Lapsed => session'[q] = session[q]
                     /\ Exists(q) => session'[q].state # "absent"
                     /\ q \in Lapsed => q \in Handles
  BY DEF SweepLeases, IInv, SessionRows, Exists, Lapsed
<1>3. Holdings'
  BY <1>2, HoldingsReleased DEF SweepLeases, IInv, Awake, Exists
<1> QED BY <1>1, <1>2, <1>3 DEF Kept, EndedKept, RowsMakeSense, Exists, IInv

\* RowsMakeSense, for one row.
LEMMA RowSense ==
    ASSUME IInv, NEW r \in Ids
    PROVE  /\ session[r].ended => session[r].state # "absent"
           /\ session[r].state = "dormant" => r \in Handles
<1>1. RowsMakeSense /\ session[r].ended \in BOOLEAN
  BY DEF IInv, SessionRows
<1> QED BY <1>1 DEF RowsMakeSense, Exists

\* Succession moves what the predecessor holds to a Session that is awake.
LEMMA SupersedeKeeps ==
    ASSUME IInv, NEW q \in Ids, NEW h \in Ids, q # h, Exists(q),
           NEW pState, NEW pEnded \in BOOLEAN, pEnded => session[q].ended,
           NEW others \in [Ids -> SessionRows],
           \A r \in Ids : r # h => others[r] = session[r],
           others[h].state \notin {"absent", "dormant"}, ~others[h].ended, ~session[h].ended,
           Supersede(q, h, pState, pEnded, others)
    PROVE  Kept
<1>1. CASE q \in Handles /\ ~pEnded
  <2>1. session' \in [Ids -> SessionRows]
    BY <1>1 DEF Supersede, SessionRows, States
  <2>2. /\ session'[h] = others[h]
        /\ \A r \in Ids : r \notin {h, q} => session'[r] = session[r]
        /\ session'[q].ended = session[q].ended
        /\ session'[q].state # "absent"
    BY <1>1 DEF Supersede, Exists, SessionRows
  <2>3. Holdings'
    BY <1>1, <2>2, HoldingsMoved DEF Supersede, Awake, Exists, IInv
  <2>4. RowsMakeSense' /\ EndedKept /\ \A r \in Ids : Exists(r) => Exists(r)'
    <3> SUFFICES ASSUME NEW r \in Ids
                 PROVE  /\ session'[r].ended => session'[r].state # "absent"
                        /\ session'[r].state = "dormant" => r \in Handles
                        /\ session[r].ended => session'[r].ended
                        /\ session[r].state # "absent" => session'[r].state # "absent"
      BY DEF RowsMakeSense, EndedKept, Exists
    <3>0. /\ session[r].ended => session[r].state # "absent"
          /\ session[r].state = "dormant" => r \in Handles
      BY RowSense
    <3>1. CASE r = h
      <4>1. session'[r] = others[h] /\ ~session[r].ended
        BY <2>2, <3>1
      <4> QED BY <4>1
    <3>2. CASE r = q
      BY <1>1, <2>2, <3>2
    <3>3. CASE r \notin {h, q}
      <4>1. session'[r] = session[r]
        BY <2>2, <3>3
      <4> QED BY <3>0, <4>1
    <3> QED BY <3>1, <3>2, <3>3
  <2> QED BY <2>1, <2>3, <2>4 DEF Kept
<1>2. CASE ~(q \in Handles /\ ~pEnded)
  <2>1. session' = others /\ UNCHANGED <<claim, task>>
    BY <1>2 DEF Supersede
  <2>2. Holdings'
    BY <2>1, HoldingsKept DEF Awake, Exists, IInv
  <2>3. RowsMakeSense' /\ EndedKept /\ \A r \in Ids : Exists(r) => Exists(r)'
    <3> SUFFICES ASSUME NEW r \in Ids
                 PROVE  /\ session'[r].ended => session'[r].state # "absent"
                        /\ session'[r].state = "dormant" => r \in Handles
                        /\ session[r].ended => session'[r].ended
                        /\ session[r].state # "absent" => session'[r].state # "absent"
      BY DEF RowsMakeSense, EndedKept, Exists
    <3>0. /\ session[r].ended => session[r].state # "absent"
          /\ session[r].state = "dormant" => r \in Handles
      BY RowSense
    <3>1. CASE r = h
      <4>1. session'[r] = others[h] /\ ~session[r].ended
        BY <2>1, <3>1
      <4> QED BY <4>1
    <3>2. CASE r # h
      <4>1. session'[r] = session[r]
        BY <2>1, <3>2
      <4> QED BY <3>0, <4>1
    <3> QED BY <3>1, <3>2
  <2> QED BY <2>1, <2>2, <2>3 DEF Kept
<1> QED BY <1>1, <1>2

\* An explicit link.
LEMMA LinkPreserves ==
    ASSUME IInv, NEW q \in Ids, NEW h \in Ids, link_session_successor(q, h)
    PROVE  IInv' /\ EndedKept
<1>1. session \in [Ids -> SessionRows] /\ session[q].ended \in BOOLEAN
  BY DEF IInv, SessionRows
<1>2. session[h].state \notin {"absent", "dormant"} /\ ~session[h].ended
  BY DEF link_session_successor, Live, Exists, TerminalOrEnded, IInv, RowsMakeSense
<1>3. Kept
  BY <1>1, <1>2, SupersedeKeeps DEF link_session_successor
<1> QED BY <1>3, TouchTyped, CallUntouched DEF link_session_successor, Kept, IInv

\* The maintenance sweep.
LEMMA SweepPreserves ==
    ASSUME IInv, sweep_stale_session_leases
    PROVE  IInv' /\ EndedKept
BY SweepKeeps, CallUntouched DEF sweep_stale_session_leases, Kept, IInv

\* A call that begins, or moves to its next step without touching anything
\* else, must only stay typed and know what it knows.
LEMMA OnlyCallPreserves ==
    ASSUME IInv, call' \in Call, CallKnows',
           UNCHANGED <<session, lease, quiet, alive, successor, claim, task>>
    PROVE  IInv' /\ EndedKept
<1>1. Holdings'
  BY HoldingsKept DEF IInv, Awake, Exists
<1> QED BY <1>1 DEF IInv, EndedKept, RowsMakeSense, Exists

\* claim_workspace and start_session begin with the reaper's read.
LEMMA BeginPreserves ==
    ASSUME IInv, NEW op \in {"claim", "start", "new"}, NEW who \in Ids \cup {None},
           NEW pick \in Ids \cup {None}, op = "claim" => who \in Ids,
           Begin(op, who, pick)
    PROVE  IInv' /\ EndedKept
<1> DEFINE seen == {a \in Agents : Exists(a) /\ ~session[a].ended /\ quiet[a] > StaleTTL}
<1>1. call' = [op |-> op, pc |-> "reap", who |-> who, seen |-> seen,
               pick |-> pick, state |-> "absent", ended |-> FALSE]
  BY DEF Begin, NoCall
<1>2. seen \in SUBSET Agents
  OBVIOUS
<1> HIDE DEF seen
<1>3. call' \in Call
  BY <1>1, <1>2 DEF Call, States
<1>4. CallKnows'
  BY <1>1 DEF CallKnows
<1> QED BY <1>3, <1>4, OnlyCallPreserves DEF Begin

\* The reaper's write ends its victims and releases exactly those, whatever
\* happened to them since they were read.
LEMMA ReapPreserves ==
    ASSUME IInv, ReapWrite
    PROVE  IInv' /\ EndedKept
<1>0. call.seen \subseteq Agents /\ Victims \subseteq Agents
  BY DEF IInv, Call, Victims
<1>1. session' \in [Ids -> SessionRows]
  BY DEF ReapWrite, IInv, SessionRows, States, TERMINAL
<1>2. \A q \in Ids : /\ q \notin Victims => session'[q] = session[q]
                     /\ q \in Victims => session'[q] = [state |-> "failed", ended |-> TRUE]
  BY DEF ReapWrite
<1>3. Holdings'
  BY <1>2, HoldingsReleased DEF ReapWrite, IInv, Awake, Exists
<1>4. EndedKept /\ RowsMakeSense' /\ \A q \in Ids : Exists(q) => Exists(q)'
  BY <1>2 DEF EndedKept, RowsMakeSense, Exists, IInv
<1>5. /\ call' \in Call /\ call'.op = call.op /\ call'.who = call.who
      /\ call.pc = "reap" /\ call'.ended = call.ended
      /\ call'.pc = (IF call.op = "claim" THEN "claim" ELSE "sweep")
  BY DEF ReapWrite, IInv, Call
<1>6. CallKnows'
  BY <1>5 DEF CallKnows, IInv
<1> QED BY <1>1, <1>3, <1>4, <1>5, <1>6 DEF ReapWrite, IInv

-----------------------------------------------------------------------------
(* Claims and tasks.                                                       *)

\* A Session that passes require_live_session is awake.
LEMMA LiveIsAwake ==
    ASSUME IInv, NEW s \in Ids, Live(s)
    PROVE  Awake(s)
BY RowSense DEF Live, Awake, TerminalOrEnded, Ids

\* Sessions and tasks stand still; the claim goes to nobody or to a Session
\* that is awake.
LEMMA ClaimChanges ==
    ASSUME Holdings, UNCHANGED <<session, task>>,
           claim' \in [owner : Ids \cup {None}, left : -1 .. ClaimLength],
           claim'.owner \in Ids => Awake(claim'.owner)
    PROVE  Holdings'
<1>1. OwnersAreAwake'
  BY DEF Holdings, OwnersAreAwake, Owns, Awake, Exists
<1> QED BY <1>1 DEF Holdings, NoEarlyStart, TasksInOrder, TasksHaveOwners

\* The second half of claim_workspace.
LEMMA ClaimPreserves ==
    ASSUME IInv, ClaimCommit
    PROVE  IInv' /\ EndedKept
<1>1. call' \in Call /\ CallKnows'
  BY DEF ClaimCommit, NoCall, Call, States, CallKnows
<1>2. call.who \in Ids
  BY DEF ClaimCommit, IInv, CallKnows
<1>3. CASE Live(call.who) /\ ClaimFree(call.who)
  <2>1. Awake(call.who)
    BY <1>2, <1>3, LiveIsAwake
  <2>2. ClaimLength \in -1 .. ClaimLength
    BY ConstantsAssumption
  <2>3. Holdings'
    BY <1>2, <1>3, <2>1, <2>2, ClaimChanges DEF ClaimCommit, IInv
  <2> QED BY <1>1, <1>3, <2>3, TouchTyped DEF ClaimCommit, IInv, EndedKept, RowsMakeSense, Exists
<1>4. CASE ~(Live(call.who) /\ ClaimFree(call.who))
  BY <1>1, <1>4, OnlyCallPreserves DEF ClaimCommit
<1> QED BY <1>3, <1>4

\* A claim given up or expired.
LEMMA UnclaimPreserves ==
    ASSUME IInv, expire_claims \/ \E s \in Ids : release_workspace(s)
    PROVE  IInv' /\ EndedKept
<1>1. -1 \in -1 .. ClaimLength /\ None \notin Ids
  BY ConstantsAssumption DEF Ids
<1>2. claim' = NoClaim /\ UNCHANGED <<session, task, alive, successor, call>>
  BY DEF expire_claims, release_workspace
<1>3. Holdings'
  BY <1>1, <1>2, ClaimChanges DEF NoClaim, IInv
<1>4. lease' \in [Handles -> -1 .. LeaseLength] /\ quiet' \in [Agents -> 0 .. StaleTTL + 1]
  BY TouchTyped DEF expire_claims, release_workspace, IInv
<1> QED BY <1>2, <1>3, <1>4 DEF IInv, EndedKept, RowsMakeSense, Exists, CallKnows

\* Only tasks change: done stays done, and what is newly in progress has an
\* owner who is awake and everything older it waits for is done.
LEMMA TaskChanges ==
    ASSUME IInv, UNCHANGED <<session, claim>>,
           task' \in [Tasks -> TaskRows],
           \A u \in Tasks : task[u].status = "done" => task'[u].status = "done",
           \A u \in Tasks : task'[u].status = "in_progress" =>
               \/ task'[u] = task[u]
               \/ /\ task'[u].owner \in Ids /\ Awake(task'[u].owner)
                  /\ \A d \in task'[u].deps : d < u => task[d].status = "done",
           TasksInOrder'
    PROVE  Holdings'
<1>1. OwnersAreAwake'
  BY DEF IInv, Holdings, OwnersAreAwake, Owns, Awake, Exists
<1>2. NoEarlyStart'
  <2> SUFFICES ASSUME NEW u \in Tasks, task'[u].status = "in_progress",
                      NEW d \in task'[u].deps, d < u
               PROVE  task[d].status = "done" /\ d \in Tasks
    BY DEF NoEarlyStart
  <2>1. d \in Tasks
    BY DEF TaskRows
  <2> QED BY <2>1 DEF IInv, Holdings, NoEarlyStart
<1>3. TasksHaveOwners'
  BY DEF IInv, Holdings, TasksHaveOwners
<1> QED BY <1>1, <1>2, <1>3 DEF IInv, Holdings

\* The steps on tasks share their frame.
LEMMA TaskFrame ==
    ASSUME IInv, Holdings', UNCHANGED <<session, alive, successor, call>>,
           lease' \in [Handles -> -1 .. LeaseLength],
           quiet' \in [Agents -> 0 .. StaleTTL + 1]
    PROVE  IInv' /\ EndedKept
BY DEF IInv, EndedKept, RowsMakeSense, Exists, CallKnows

\* A task written over by one that is not absent, at a code that existed or at
\* the next one.
LEMMA OrderKept ==
    ASSUME IInv, NEW t \in Tasks, NEW new \in TaskRows, new.status # "absent",
           task[t].status # "absent" \/ IsNextCode(t),
           task' = [task EXCEPT ![t] = new]
    PROVE  TasksInOrder' /\ task' \in [Tasks -> TaskRows]
<1>1. task \in [Tasks -> TaskRows] /\ TasksInOrder
  BY DEF IInv, Holdings
<1>2. task'[t] = new /\ \A u \in Tasks : u # t => task'[u] = task[u]
  BY <1>1
<1>3. TasksInOrder'
  <2> SUFFICES ASSUME NEW w \in Tasks, NEW v \in Tasks, v < w, task'[w].status # "absent"
               PROVE  task'[v].status # "absent"
    BY DEF TasksInOrder
  <2>1. CASE v = t
    BY <1>2, <2>1
  <2>2. CASE v # t /\ w # t
    BY <1>1, <1>2, <2>2 DEF TasksInOrder
  <2>3. CASE v # t /\ w = t
    BY <1>1, <1>2, <2>3 DEF TasksInOrder, IsNextCode
  <2> QED BY <2>1, <2>2, <2>3
<1> QED BY <1>1, <1>3

\* A new task.
LEMMA CreateTaskPreserves ==
    ASSUME IInv, NEW t \in Tasks, NEW deps \in SUBSET Tasks, create_task(t, deps)
    PROVE  IInv' /\ EndedKept
<1> DEFINE new == [status |-> "available", owner |-> None, deps |-> deps]
<1>1. new \in TaskRows /\ new.status # "absent" /\ task' = [task EXCEPT ![t] = new]
  BY DEF create_task, TaskRows
<1>2. task[t].status = "absent"
  BY ConstantsAssumption DEF create_task, IsNextCode, Tasks
<1>3. task'[t].status = "available" /\ \A u \in Tasks : u # t => task'[u] = task[u]
  BY <1>1 DEF IInv, Holdings
<1> HIDE DEF new
<1>4. TasksInOrder' /\ task' \in [Tasks -> TaskRows]
  BY <1>1, OrderKept DEF create_task
<1>5. Holdings'
  BY <1>2, <1>3, <1>4, TaskChanges DEF create_task
<1> QED BY <1>5, TaskFrame DEF create_task, IInv

\* A task is claimed, completed or given back by a live Session.
LEMMA WorkPreserves ==
    ASSUME IInv, NEW s \in Ids, NEW t \in Tasks,
           claim_task(s, t) \/ complete_task(s, t) \/ release_task(s, t)
    PROVE  IInv' /\ EndedKept
<1>0. task[t] \in TaskRows /\ Awake(s)
  BY LiveIsAwake DEF claim_task, complete_task, release_task, IInv, Holdings
<1>1. CASE claim_task(s, t)
  <2> DEFINE new == [task[t] EXCEPT !.status = "in_progress", !.owner = s]
  <2>1. new \in TaskRows /\ new.status = "in_progress" /\ new.owner = s /\ new.deps = task[t].deps
    BY <1>0 DEF TaskRows
  <2>2. task' = [task EXCEPT ![t] = new]
    BY <1>0, <1>1 DEF claim_task, IInv, Holdings, TaskRows
  <2> HIDE DEF new
  <2>3. TasksInOrder' /\ task' \in [Tasks -> TaskRows]
    BY <1>1, <2>1, <2>2, OrderKept DEF claim_task, Startable
  <2>4. task'[t] = new /\ \A u \in Tasks : u # t => task'[u] = task[u]
    BY <2>2 DEF IInv, Holdings
  <2>5. task[t].status = "available"
    BY <1>1 DEF claim_task, Startable
  <2>6. \A d \in task[t].deps : d < t => task[d].status = "done"
    <3> SUFFICES ASSUME NEW d \in task[t].deps, d < t PROVE task[d].status = "done"
      OBVIOUS
    <3>1. d \in Tasks
      BY <1>0 DEF TaskRows
    <3>2. task[d].status # "absent"
      BY <2>5, <3>1 DEF IInv, Holdings, TasksInOrder
    <3> QED BY <1>1, <3>2 DEF claim_task, Startable
  <2>7. Holdings'
    BY <1>0, <1>1, <2>1, <2>3, <2>4, <2>5, <2>6, TaskChanges DEF claim_task
  <2> QED BY <1>1, <2>7, TaskFrame, TouchTyped DEF claim_task
<1>2. CASE complete_task(s, t)
  <2> DEFINE new == [task[t] EXCEPT !.status = "done"]
  <2>1. new \in TaskRows /\ new.status = "done"
    BY <1>0 DEF TaskRows
  <2>2. task' = [task EXCEPT ![t] = new]
    BY <1>0, <1>2 DEF complete_task, IInv, Holdings, TaskRows
  <2> HIDE DEF new
  <2>3. TasksInOrder' /\ task' \in [Tasks -> TaskRows]
    BY <1>2, <2>1, <2>2, OrderKept DEF complete_task, MayComplete
  <2>4. task'[t] = new /\ \A u \in Tasks : u # t => task'[u] = task[u]
    BY <2>2 DEF IInv, Holdings
  <2>5. Holdings'
    BY <1>2, <2>1, <2>3, <2>4, TaskChanges DEF complete_task
  <2> QED BY <1>2, <2>5, TaskFrame, TouchTyped DEF complete_task
<1>3. CASE release_task(s, t)
  <2>1. GivenBack(t) \in TaskRows /\ GivenBack(t).status = "available"
    BY <1>0 DEF GivenBack, TaskRows
  <2>3. TasksInOrder' /\ task' \in [Tasks -> TaskRows]
    BY <1>3, <2>1, OrderKept DEF release_task
  <2>4. task'[t] = GivenBack(t) /\ \A u \in Tasks : u # t => task'[u] = task[u]
    BY <1>3 DEF release_task, IInv, Holdings
  <2>5. Holdings'
    BY <1>3, <2>1, <2>3, <2>4, TaskChanges DEF release_task
  <2> QED BY <1>3, <2>5, TaskFrame, TouchTyped DEF release_task
<1> QED BY <1>1, <1>2, <1>3

\* A task is finished and its follow-up exists, in one step.
LEMMA HandoffPreserves ==
    ASSUME IInv, NEW s \in Ids, NEW t \in Tasks, NEW next \in Tasks,
           NEW extra \in SUBSET Tasks, handoff_task(s, t, next, extra)
    PROVE  IInv' /\ EndedKept
<1> DEFINE done == [task[t] EXCEPT !.status = "done"]
           new  == [status |-> "available", owner |-> None, deps |-> {t} \cup extra]
<1>0. task \in [Tasks -> TaskRows] /\ TasksInOrder /\ task[t].status # "absent"
  BY DEF IInv, Holdings, handoff_task, MayComplete
<1>1. done \in TaskRows /\ done.status = "done" /\ new \in TaskRows /\ new.status = "available"
  BY <1>0 DEF TaskRows
<1>2. task[next].status = "absent" /\ next # t
  BY <1>0, ConstantsAssumption DEF handoff_task, IsNextCode, Tasks
<1>3. task' = [[task EXCEPT ![t] = done] EXCEPT ![next] = new]
  BY <1>0 DEF handoff_task, TaskRows
<1> HIDE DEF done, new
<1>4. /\ task' \in [Tasks -> TaskRows] /\ task'[t] = done /\ task'[next] = new
      /\ \A u \in Tasks : u \notin {t, next} => task'[u] = task[u]
  BY <1>0, <1>1, <1>2, <1>3
<1>5. TasksInOrder'
  <2> SUFFICES ASSUME NEW w \in Tasks, NEW v \in Tasks, v < w, task'[w].status # "absent"
               PROVE  task'[v].status # "absent"
    BY DEF TasksInOrder
  <2>1. CASE v \in {t, next}
    BY <1>1, <1>4, <2>1
  <2>2. CASE v \notin {t, next} /\ w # next
    BY <1>0, <1>4, <2>2 DEF TasksInOrder
  <2>3. CASE v \notin {t, next} /\ w = next
    BY <1>4, <2>3 DEF handoff_task, IsNextCode
  <2> QED BY <2>1, <2>2, <2>3
<1>6. Holdings'
  BY <1>1, <1>2, <1>4, <1>5, TaskChanges DEF handoff_task
<1> QED BY <1>6, TaskFrame, TouchTyped DEF handoff_task

-----------------------------------------------------------------------------
(* The steps of start_session.                                             *)

\* The call that is over, or goes on, after a step that keeps the rest.
LEMMA StartFrame ==
    ASSUME IInv, Kept, call' \in Call, CallKnows',
           lease' \in [Handles -> -1 .. LeaseLength],
           quiet' \in [Agents -> 0 .. StaleTTL + 1],
           alive' \subseteq Agents,
           successor' \in [Ids -> Ids \cup {None}]
    PROVE  IInv' /\ EndedKept
BY DEF IInv, Kept

\* A call that is over knows nothing.
LEMMA CallOver ==
    ASSUME call' = NoCall
    PROVE  call' \in Call /\ CallKnows'
BY DEF NoCall, Call, States, CallKnows

\* The sweep.
LEMMA StartSweepPreserves ==
    ASSUME IInv, StartSweep
    PROVE  IInv' /\ EndedKept
<1>1. Kept
  BY SweepKeeps DEF StartSweep
<1>2. /\ call \in Call /\ ~call.ended /\ CallKnows
      /\ call.pc = "sweep"
  BY DEF StartSweep, IInv, CallKnows
<1>3. /\ call'.op = call.op /\ call'.who = call.who /\ call'.ended = call.ended
      /\ call'.pc \in {"reuse", "link", "create"} /\ call' \in Call
  BY <1>2 DEF StartSweep, Call
<1>4. CallKnows'
  BY <1>2, <1>3 DEF CallKnows
<1> QED BY <1>1, <1>3, <1>4, StartFrame DEF StartSweep, IInv

\* The two choices: the handle chosen exists, and its attributes are the ones
\* it has now.
LEMMA PickPreserves ==
    ASSUME IInv, StartReuse \/ StartLink
    PROVE  IInv' /\ EndedKept
<1>1. call \in Call /\ ~call.ended /\ CallKnows
  BY DEF StartReuse, StartLink, IInv, CallKnows
<1>2. PICK candidates \in SUBSET Candidates, found \in {"renew", "create"}, otherwise \in {"link", "create"} :
          PickNext(candidates, found, otherwise)
  BY DEF StartReuse, StartLink
<1>3. CASE call' = NoCall
  BY <1>3, CallOver, OnlyCallPreserves DEF StartReuse, StartLink
<1>4. ASSUME NEW h \in Picks(candidates),
             call' = [call EXCEPT !.pc = found, !.pick = h, !.state = session[h].state,
                                  !.ended = session[h].ended]
      PROVE  IInv' /\ EndedKept
  <2>1. h \in Handles /\ Exists(h) /\ session[h] \in SessionRows
    BY DEF Picks, Candidates, IInv, Ids
  <2>2. call' \in Call
    BY <1>1, <1>4, <2>1 DEF Call, SessionRows, Ids
  <2>3. /\ call'.pick = h /\ call'.ended = session[h].ended /\ call'.pc = found
        /\ call'.op = call.op /\ call'.who = call.who
    BY <1>1, <1>4 DEF Call
  <2>4. UNCHANGED <<session, lease, quiet, alive, successor, claim, task>>
    BY DEF StartReuse, StartLink
  <2>5. CallKnows'
    BY <1>1, <2>1, <2>3, <2>4 DEF CallKnows, Ids, Exists
  <2> QED BY <2>2, <2>4, <2>5, OnlyCallPreserves
<1>5. CASE call' = [call EXCEPT !.pc = otherwise]
  <2>1. call' \in Call /\ call'.ended = call.ended /\ call'.op = call.op
        /\ call'.who = call.who /\ call'.pc = otherwise
    BY <1>1, <1>5 DEF Call
  <2>2. CallKnows'
    BY <1>1, <2>1 DEF CallKnows
  <2> QED BY <2>1, <2>2, OnlyCallPreserves DEF StartReuse, StartLink
<1> QED BY <1>2, <1>3, <1>4, <1>5 DEF PickNext

\* Reuse writes on attributes that may be stale: it may set running a handle
\* that ended, but it never un-ends it and never takes from an owner.
LEMMA StartRenewPreserves ==
    ASSUME IInv, StartRenew
    PROVE  IInv' /\ EndedKept
<1> DEFINE h == call.pick
<1>1. h \in Handles /\ h \in Ids /\ Exists(h) /\ session \in [Ids -> SessionRows]
  BY DEF StartRenew, IInv, CallKnows, Ids
<1>2. \/ session' = session
      \/ session' = [session EXCEPT ![h].state = "running"]
  BY DEF StartRenew
<1>3. lease' \in [Handles -> -1 .. LeaseLength] /\ quiet' \in [Agents -> 0 .. StaleTTL + 1]
  BY TouchTyped DEF StartRenew, IInv
<1> HIDE DEF h
<1>4. /\ session' \in [Ids -> SessionRows]
      /\ \A q \in Ids : session'[q].ended = session[q].ended
      /\ \A q \in Ids : session'[q].state = session[q].state \/ (q = h /\ session'[q].state = "running")
  BY <1>1, <1>2 DEF SessionRows, States
<1>5. Holdings'
  BY <1>4, HoldingsKept DEF StartRenew, IInv, Awake, Exists
<1>6. Kept
  BY <1>1, <1>4, <1>5 DEF Kept, EndedKept, RowsMakeSense, Exists, IInv
<1> QED BY <1>3, <1>6, StartFrame, CallOver DEF StartRenew, IInv

\* A new Session is awake and nobody else is disturbed.
LEMMA NewSessionKeeps ==
    ASSUME IInv, NEW s \in Ids, ~Exists(s), UNCHANGED <<claim, task>>,
           session' = [session EXCEPT ![s] = [state |-> "running", ended |-> FALSE]]
    PROVE  Kept
<1>1. session' \in [Ids -> SessionRows]
  BY DEF IInv, SessionRows, States
<1>2. session'[s] = [state |-> "running", ended |-> FALSE]
      /\ \A q \in Ids : q # s => session'[q] = session[q]
  BY DEF IInv
<1>3. Holdings'
  BY <1>2, HoldingsKept DEF IInv, Awake, Exists
<1> QED BY <1>1, <1>2, <1>3 DEF Kept, EndedKept, RowsMakeSense, Exists, IInv

\* A new handle takes over from its predecessor.
LEMMA StartCreatePreserves ==
    ASSUME IInv, NEW h \in Handles, StartCreate(h)
    PROVE  IInv' /\ EndedKept
<1> DEFINE others == [session EXCEPT ![h] = [state |-> "running", ended |-> FALSE]]
           chosen == call.state # "absent"
           pState == IF chosen THEN call.state ELSE session[call.pick].state
           pEnded == IF chosen THEN call.ended ELSE session[call.pick].ended
<1>1. h \in Ids /\ ~Exists(h) /\ call' = NoCall /\ alive' = alive /\ call.pc = "create"
  BY DEF StartCreate, Ids
<1>2. CASE call.pick = None
  <2>1. Kept
    BY <1>1, <1>2, NewSessionKeeps DEF StartCreate
  <2> QED BY <1>1, <1>2, <2>1, StartFrame, CallOver, TouchTyped DEF StartCreate, IInv
<1>3. CASE call.pick # None /\ (~Exists(call.pick) \/ ~MayLink(call.pick))
  BY <1>1, <1>3, CallOver, OnlyCallPreserves DEF StartCreate
<1>4. CASE call.pick # None /\ Exists(call.pick) /\ MayLink(call.pick)
  <2>1. call.pick \in Ids /\ call.pick # h /\ session[call.pick] \in SessionRows /\ call \in Call
    BY <1>1, <1>4 DEF IInv, Call
  <2>2. /\ Supersede(call.pick, h, pState, pEnded, others)
        /\ successor' = [successor EXCEPT ![call.pick] = h]
        /\ Touch(h)
    BY <1>4 DEF StartCreate
  <2>3. pEnded \in BOOLEAN /\ (pEnded => session[call.pick].ended)
    BY <1>1, <2>1 DEF Call, SessionRows, IInv, CallKnows
  <2>4. /\ others \in [Ids -> SessionRows]
        /\ \A r \in Ids : r # h => others[r] = session[r]
        /\ others[h].state \notin {"absent", "dormant"} /\ ~others[h].ended
    BY <1>1 DEF IInv, SessionRows, States
  <2>5. ~session[h].ended
    BY <1>1, RowSense DEF Exists
  <2> HIDE DEF others, pState, pEnded
  <2>6. Kept
    BY <1>1, <1>4, <2>1, <2>2, <2>3, <2>4, <2>5, SupersedeKeeps
  <2>7. successor' \in [Ids -> Ids \cup {None}]
    BY <1>1, <2>2 DEF IInv
  <2> QED BY <1>1, <2>2, <2>6, <2>7, StartFrame, CallOver, TouchTyped DEF IInv
<1> QED BY <1>2, <1>3, <1>4

\* A new process-bound Session.
LEMMA StartAgentPreserves ==
    ASSUME IInv, NEW a \in Agents, start_agent(a)
    PROVE  IInv' /\ EndedKept
<1>1. Kept
  BY NewSessionKeeps DEF start_agent, Ids
<1> QED BY <1>1, TouchTyped, CallUntouched DEF start_agent, Kept, IInv

-----------------------------------------------------------------------------
(* The theorems.                                                           *)

\* Every step preserves the inductive invariant and un-ends nobody.
LEMMA NextPreserves ==
    ASSUME IInv, [Next]_vars
    PROVE  IInv' /\ EndedKept
<1>1. CASE LifecycleStep
  BY <1>1, SweepPreserves, TimePreserves, StartAgentPreserves, HeartbeatPreserves, AppendPreserves,
     EndPreserves, SetStatePreserves, LinkPreserves DEF LifecycleStep
<1>2. CASE CallStep
  <2>1. CASE \E s \in Ids : claim_workspace(s)
    BY <2>1, BeginPreserves DEF claim_workspace
  <2>2. CASE start_session
    BY <2>2, BeginPreserves DEF start_session
  <2>3. CASE \E s \in Ids \cup {None} : start_new_session(s)
    BY <2>3, BeginPreserves DEF start_new_session
  <2>4. CASE StartExhausted
    BY <2>4, CallOver, OnlyCallPreserves DEF StartExhausted
  <2> QED BY <1>2, <2>1, <2>2, <2>3, <2>4, ReapPreserves, ClaimPreserves, StartSweepPreserves,
             PickPreserves, StartRenewPreserves, StartCreatePreserves DEF CallStep
<1>3. CASE OwnershipStep
  BY <1>3, UnclaimPreserves, CreateTaskPreserves, WorkPreserves, HandoffPreserves DEF OwnershipStep
<1>4. CASE UNCHANGED vars
  BY <1>4, OnlyCallPreserves DEF vars, IInv, CallKnows, Exists
<1> QED BY <1>1, <1>2, <1>3, <1>4, TimePreserves DEF Next

\* The inductive invariant holds in every reachable state.
LEMMA IInvHolds == Spec => []IInv
<1>1. Init => IInv
  BY InitEstablishesIInv
<1>2. IInv /\ [Next]_vars => IInv'
  BY NextPreserves
<1> QED BY <1>1, <1>2, PTL DEF Spec

\* Every table keeps its types, for any number of Sessions and tasks.
THEOREM TypeCorrect == Spec => []TypeOK
BY IInvHolds, IInvTyped, PTL

\* Rows keep their types, only awake Sessions own, and no task starts early.
THEOREM OwnershipHolds == Spec => []OwnershipIsSound
<1>1. IInv => OwnershipIsSound
  BY IInvTyped DEF IInv, Holdings, OwnershipIsSound
<1> QED BY <1>1, IInvHolds, PTL

\* No claim and no task in progress is ever held by a Session that has ended
\* or gone dormant, although the reaper and start_session write on what they
\* read before they locked.
THEOREM OwnersStayAwake == Spec => []OwnersAreAwake
<1>1. IInv => OwnersAreAwake
  BY DEF IInv, Holdings
<1> QED BY <1>1, IInvHolds, PTL

\* No task is worked on before the older tasks it depends on are done.
THEOREM DependenciesFirst == Spec => []NoEarlyStart
<1>1. IInv => NoEarlyStart
  BY DEF IInv, Holdings
<1> QED BY <1>1, IInvHolds, PTL

\* A Session that has ended never becomes live again.
THEOREM EndingIsFinal == Spec => [][EndedStays]_vars
<1>1. IInv /\ [Next]_vars => [EndedStays]_vars
  BY NextPreserves DEF EndedKept, EndedStays
<1> QED BY <1>1, IInvHolds, PTL DEF Spec

-----------------------------------------------------------------------------
(* Nobody takes what another Session holds.                                *)

\* Holdings that stay where they are.
LEMMA KeptIsNotStolen ==
    ASSUME UNCHANGED <<claim, task>>
    PROVE  NotStolen
BY DEF NotStolen, ClaimNotStolen, TaskNotStolen

\* Holdings that are released belong to nobody.
LEMMA ReleasedIsNotStolen ==
    ASSUME IInv, NEW S, ReleaseOwnership(S)
    PROVE  NotStolen
<1>1. \A t \in Tasks : GivenBack(t).owner = None /\ GivenBack(t).status = "available"
  BY DEF GivenBack, IInv, Holdings, TaskRows
<1> QED BY <1>1 DEF ReleaseOwnership, NoClaim, NotStolen, ClaimNotStolen, TaskNotStolen

\* Holdings that move, move to the successor.
LEMMA MovedIsNotStolen ==
    ASSUME IInv, NEW q \in Ids, NEW h \in Ids, NEW pState, NEW pEnded, NEW others,
           Supersede(q, h, pState, pEnded, others),
           successor' = [successor EXCEPT ![q] = h]
    PROVE  NotStolen
<1>1. successor'[q] = h
  BY DEF IInv
<1>2. CASE UNCHANGED <<claim, task>>
  BY <1>2, KeptIsNotStolen
<1>3. CASE MoveOwnership(q, h)
  <2>1. ClaimNotStolen
    BY <1>1, <1>3 DEF MoveOwnership, ClaimNotStolen, IInv, Holdings
  <2>2. ASSUME NEW t \in Tasks PROVE TaskNotStolen(t)
    <3>1. task[t] \in TaskRows
      BY DEF IInv, Holdings
    <3> QED BY <1>1, <1>3, <3>1 DEF MoveOwnership, TaskNotStolen, TaskRows
  <2> QED BY <2>1, <2>2 DEF NotStolen
<1> QED BY <1>2, <1>3 DEF Supersede

\* A task changes hands only through its owner.
LEMMA WorkIsNotStolen ==
    ASSUME IInv, OwnershipStep
    PROVE  NotStolen
<1>0. task \in [Tasks -> TaskRows] /\ TasksHaveOwners /\ None \notin Ids
  BY ConstantsAssumption DEF IInv, Holdings, Ids
<1>1. CASE expire_claims \/ \E s \in Ids : release_workspace(s)
  BY <1>1 DEF expire_claims, release_workspace, NoClaim, NotStolen, ClaimNotStolen, TaskNotStolen
<1>2. ASSUME NEW t \in Tasks, NEW deps \in SUBSET Tasks, create_task(t, deps) PROVE NotStolen
  <2>1. task[t].status = "absent"
    BY <1>2, ConstantsAssumption DEF create_task, IsNextCode, Tasks
  <2> QED BY <1>0, <1>2, <2>1 DEF create_task, NotStolen, ClaimNotStolen, TaskNotStolen
<1>3. ASSUME NEW s \in Ids, NEW t \in Tasks, claim_task(s, t) PROVE NotStolen
  BY <1>0, <1>3 DEF claim_task, Startable, NotStolen, ClaimNotStolen, TaskNotStolen
<1>4. ASSUME NEW s \in Ids, NEW t \in Tasks, complete_task(s, t) PROVE NotStolen
  <2>1. task[t].status = "in_progress" => task[t].owner = s
    BY <1>0, <1>4 DEF complete_task, MayComplete, TasksHaveOwners
  <2> QED BY <1>0, <1>4, <2>1 DEF complete_task, NotStolen, ClaimNotStolen, TaskNotStolen, TaskRows
<1>5. ASSUME NEW s \in Ids, NEW t \in Tasks, release_task(s, t) PROVE NotStolen
  <2>1. GivenBack(t).owner = None /\ GivenBack(t).status = "available"
    BY <1>0 DEF GivenBack, TaskRows
  <2> QED BY <1>0, <1>5, <2>1 DEF release_task, NotStolen, ClaimNotStolen, TaskNotStolen
<1>6. ASSUME NEW s \in Ids, NEW t \in Tasks, NEW next \in Tasks, NEW extra \in SUBSET Tasks,
             handoff_task(s, t, next, extra)
      PROVE  NotStolen
  <2>1. task[next].status = "absent" /\ next # t
    BY <1>6, ConstantsAssumption DEF handoff_task, IsNextCode, MayComplete, Tasks
  <2>2. task[t].status = "in_progress" => task[t].owner = s
    BY <1>0, <1>6 DEF handoff_task, MayComplete, TasksHaveOwners
  <2> QED BY <1>0, <1>6, <2>1, <2>2 DEF handoff_task, NotStolen, ClaimNotStolen, TaskNotStolen, TaskRows
<1> QED BY <1>1, <1>2, <1>3, <1>4, <1>5, <1>6 DEF OwnershipStep

\* No step takes anything from its holder.
LEMMA NextIsNotStolen ==
    ASSUME IInv, [Next]_vars
    PROVE  NotStolen
<1>1. CASE Tick
  BY <1>1 DEF Tick, NotStolen, ClaimNotStolen, TaskNotStolen, IInv, Holdings
<1>2. CASE LifecycleStep
  <2>1. CASE sweep_stale_session_leases
    BY <2>1, ReleasedIsNotStolen DEF sweep_stale_session_leases, SweepLeases
  <2>2. CASE \E a \in Agents : ProcessExit(a) \/ start_agent(a)
    BY <2>2, KeptIsNotStolen DEF ProcessExit, start_agent
  <2>3. ASSUME NEW s \in Ids, heartbeat_session(s) \/ append_event(s) PROVE NotStolen
    BY <2>3, KeptIsNotStolen DEF heartbeat_session, append_event
  <2>4. ASSUME NEW s \in Ids, end_session(s) PROVE NotStolen
    BY <2>4, ReleasedIsNotStolen DEF end_session
  <2>5. ASSUME NEW s \in Ids, NEW state \in ReportedStates, set_session_state(s, state) PROVE NotStolen
    BY <2>5, ReleasedIsNotStolen, KeptIsNotStolen DEF set_session_state
  <2>6. ASSUME NEW s \in Ids, NEW state \in TERMINAL, finalize_session(s, state) PROVE NotStolen
    BY <2>6, ReleasedIsNotStolen DEF finalize_session
  <2>7. ASSUME NEW s \in Ids, NEW h \in Ids, link_session_successor(s, h) PROVE NotStolen
    BY <2>7, MovedIsNotStolen DEF link_session_successor
  <2> QED BY <1>2, <2>1, <2>2, <2>3, <2>4, <2>5, <2>6, <2>7 DEF LifecycleStep
<1>3. CASE CallStep
  <2>1. CASE ReapWrite
    BY <2>1, ReleasedIsNotStolen DEF ReapWrite
  <2>2. CASE ClaimCommit
    BY <2>2 DEF ClaimCommit, ClaimFree, NotStolen, ClaimNotStolen, TaskNotStolen, IInv, Holdings
  <2>3. CASE StartSweep
    BY <2>3, ReleasedIsNotStolen DEF StartSweep, SweepLeases
  <2>4. ASSUME NEW h \in Handles, StartCreate(h) PROVE NotStolen
    <3>1. CASE UNCHANGED <<claim, task>>
      BY <3>1, KeptIsNotStolen
    <3>2. CASE ~UNCHANGED <<claim, task>>
      <4>1. call.pick \in Ids /\ h \in Ids
        BY <2>4, <3>2 DEF StartCreate, IInv, Call, Ids
      <4> QED BY <2>4, <3>2, <4>1, MovedIsNotStolen DEF StartCreate
    <3> QED BY <3>1, <3>2
  <2>5. CASE StartReuse \/ StartRenew \/ StartLink \/ StartExhausted
    BY <2>5, KeptIsNotStolen DEF StartReuse, StartRenew, StartLink, StartExhausted
  <2>6. CASE start_session \/ \E s \in Ids \cup {None} : claim_workspace(s) \/ start_new_session(s)
    BY <2>6, KeptIsNotStolen DEF start_session, claim_workspace, start_new_session, Begin
  <2> QED BY <1>3, <2>1, <2>2, <2>3, <2>4, <2>5, <2>6 DEF CallStep
<1>4. CASE OwnershipStep
  BY <1>4, WorkIsNotStolen
<1>5. CASE UNCHANGED vars
  BY <1>5, KeptIsNotStolen DEF vars
<1> QED BY <1>1, <1>2, <1>3, <1>4, <1>5 DEF Next

\* An unexpired claim and a task in progress leave their holder only by being
\* released or by succession, and a task is completed only while its owner is live.
THEOREM NothingIsStolen == Spec => [][NotStolen]_vars
<1>1. IInv /\ [Next]_vars => [NotStolen]_vars
  BY NextIsNotStolen
<1> QED BY <1>1, IInvHolds, PTL DEF Spec

-----------------------------------------------------------------------------
(* Succession.                                                             *)

\* A step that sets no other link and wakes nobody that has a successor.
LEMMA Asleep ==
    ASSUME UNCHANGED successor,
           \A s \in Ids : session[s].state = "dormant" /\ successor[s] # None
                           => session'[s].state # "running"
    PROVE  SuccessionStands
BY DEF SuccessionStands

\* Superseding links a Session that had no successor, and wakes nobody.
LEMMA SupersedeIsSuccession ==
    ASSUME IInv, NEW q \in Ids, NEW h \in Ids, MayLink(q), NEW pState, NEW pEnded,
           NEW others \in [Ids -> SessionRows],
           \A s \in Ids : session[s].state = "dormant" => others[s].state = "dormant",
           Supersede(q, h, pState, pEnded, others),
           successor' = [successor EXCEPT ![q] = h]
    PROVE  SuccessionStands
<1>1. \A s \in Ids : session[s].state = "dormant" => session'[s].state = "dormant"
  BY DEF Supersede, SessionRows
<1> QED BY <1>1 DEF SuccessionStands, MayLink, IInv

\* No step re-points a link or wakes a superseded handle but a reported state.
LEMMA NextIsSuccession ==
    ASSUME IInv, [Next]_vars
    PROVE  SuccessionStands
<1>0. session \in [Ids -> SessionRows]
  BY DEF IInv
<1>1. CASE Tick \/ OwnershipStep \/ UNCHANGED vars
  BY <1>1, Asleep DEF Tick, OwnershipStep, expire_claims, release_workspace, create_task, claim_task,
        complete_task, release_task, handoff_task, vars
<1>2. CASE LifecycleStep
  <2>1. CASE sweep_stale_session_leases
    BY <1>0, <2>1, Asleep DEF sweep_stale_session_leases, SweepLeases, SessionRows
  <2>2. ASSUME NEW a \in Agents, ProcessExit(a) \/ start_agent(a) PROVE SuccessionStands
    BY <1>0, <2>2, Asleep DEF ProcessExit, start_agent, Exists, SessionRows
  <2>3. ASSUME NEW s \in Ids, heartbeat_session(s) \/ append_event(s) PROVE SuccessionStands
    BY <1>0, <2>3, Asleep DEF heartbeat_session, append_event, MayWake, SessionRows
  <2>4. ASSUME NEW s \in Ids, end_session(s) PROVE SuccessionStands
    BY <1>0, <2>4, Asleep DEF end_session, SessionRows, TERMINAL
  <2>5. ASSUME NEW s \in Ids, NEW state \in ReportedStates, set_session_state(s, state)
        PROVE  SuccessionStands
    <3>1. \A r \in Ids : r # s => session'[r] = session[r]
      BY <1>0, <2>5 DEF set_session_state
    <3>2. session[s].state = "dormant" /\ session'[s].state = "running" => state = "running"
      BY <1>0, <2>5 DEF set_session_state, SessionRows
    <3> QED BY <2>5, <3>1, <3>2 DEF SuccessionStands, set_session_state
  <2>6. ASSUME NEW s \in Ids, NEW state \in TERMINAL, finalize_session(s, state)
        PROVE  SuccessionStands
    BY <1>0, <2>6, Asleep DEF finalize_session, SessionRows, TERMINAL
  <2>7. ASSUME NEW s \in Ids, NEW h \in Ids, link_session_successor(s, h) PROVE SuccessionStands
    BY <1>0, <2>7, SupersedeIsSuccession DEF link_session_successor
  <2> QED BY <1>2, <2>1, <2>2, <2>3, <2>4, <2>5, <2>6, <2>7 DEF LifecycleStep
<1>3. CASE CallStep
  <2>1. CASE ReapWrite
    BY <1>0, <2>1, Asleep DEF ReapWrite, SessionRows
  <2>2. CASE ClaimCommit \/ StartReuse \/ StartLink \/ StartExhausted
    BY <2>2, Asleep DEF ClaimCommit, StartReuse, StartLink, StartExhausted
  <2>3. CASE StartSweep
    BY <1>0, <2>3, Asleep DEF StartSweep, SweepLeases, SessionRows
  <2>4. CASE StartRenew
    BY <1>0, <2>4, Asleep DEF StartRenew, SessionRows
  <2>5. ASSUME NEW h \in Handles, StartCreate(h) PROVE SuccessionStands
    <3> DEFINE others == [session EXCEPT ![h] = [state |-> "running", ended |-> FALSE]]
    <3>1. /\ others \in [Ids -> SessionRows]
          /\ \A s \in Ids : session[s].state = "dormant" => others[s].state = "dormant"
      BY <1>0, <2>5 DEF StartCreate, Exists, SessionRows, States, Ids
    <3>2. CASE UNCHANGED successor /\ (session' = others \/ UNCHANGED session)
      BY <3>1, <3>2, Asleep
    <3>3. CASE ~(UNCHANGED successor /\ (session' = others \/ UNCHANGED session))
      <4>1. call.pick \in Ids /\ h \in Ids
        BY <2>5, <3>3 DEF StartCreate, IInv, Call, Ids
      <4>2. PICK pState, pEnded : /\ MayLink(call.pick)
                                  /\ Supersede(call.pick, h, pState, pEnded, others)
                                  /\ successor' = [successor EXCEPT ![call.pick] = h]
        BY <2>5, <3>3 DEF StartCreate
      <4> QED BY <3>1, <4>1, <4>2, SupersedeIsSuccession
    <3> QED BY <3>2, <3>3
  <2>6. CASE start_session \/ \E s \in Ids \cup {None} : claim_workspace(s) \/ start_new_session(s)
    BY <2>6, Asleep DEF start_session, claim_workspace, start_new_session, Begin
  <2> QED BY <1>3, <2>1, <2>2, <2>3, <2>4, <2>5, <2>6 DEF CallStep
<1> QED BY <1>1, <1>2, <1>3 DEF Next

\* Links are never re-pointed and superseded handles are not woken by accident.
THEOREM SuccessionIsFinal == Spec => [][SuccessionStands]_vars
<1>1. IInv /\ [Next]_vars => [SuccessionStands]_vars
  BY NextIsSuccession
<1> QED BY <1>1, IInvHolds, PTL DEF Spec

\* What a Session's life has settled stands: holdings, links and ends.
THEOREM LifecycleIsFinal == Spec => LifecycleStands
BY NothingIsStolen, SuccessionIsFinal, EndingIsFinal, PTL DEF LifecycleStands

-----------------------------------------------------------------------------
(* SessionCommands, for any operators, consumers, commands and claims.  The *)
(* argument: sequences and stop epochs are handed out without gaps, and an  *)
(* epoch is pressed only after every stop before it was settled, so the     *)
(* unique key leaves one stop open; a settled row is never written again;   *)
(* and who still holds a row made its latest claim.                         *)


\* A row that can be claimed again has claims left, and counts no more attempts than claims.
RowInOrder(n) ==
    /\ command[n].attempt <= command[n].claims
    /\ command[n].status = "requested" => command[n].claims <= MaxClaims
    /\ command[n].status = "delivered" => command[n].claims >= 1
    /\ command[n].status = "delivered" /\ command[n].lapsed => command[n].claims <= MaxClaims
    /\ command[n].status = "acknowledged" /\ command[n].result \in PROVES_TERMINAL => agent = GONE

\* A consumer works on a command that exists, and while it holds it, under the latest claim.
ConsumerInOrder(c) ==
    /\ consumer[c] # Free => consumer[c].n \in Recorded
    /\ consumer[c].at = "claiming" => consumer[c].attempt <= command[consumer[c].n].claims + 1
    /\ consumer[c].at \in {"holding", "executed"} /\ Holds(c) => consumer[c].claim = command[consumer[c].n].claims
    /\ consumer[c].at = "executed" /\ consumer[c].result \in PROVES_TERMINAL => agent = GONE

ExpiryInOrder == expiring # NoExpiry => expiring.n \in Recorded /\ expiring.claim <= MaxClaims

\* Stops carry the epochs 1, 2, ... in the order of their sequences; only the last may be open.
Epoch(n) == command[n].key[2]
LastEpoch == Cardinality(Stops)
StopsInOrder ==
    /\ \A n \in Stops : Epoch(n) \in 1 .. LastEpoch /\ (n \in Open => Epoch(n) = LastEpoch)
    /\ \A n, m \in Stops : n < m => Epoch(n) < Epoch(m)
    /\ \A e \in 1 .. LastEpoch : \E n \in Stops : Epoch(n) = e

\* An enqueue inserts at most one past the last sequence and, for a stop, one past the last
\* epoch, and then no stop is open.
FirstStates == {<<"acknowledged", "already_terminal">>, <<"failed", "session_ended">>, <<"failed", "unsupported">>,
                <<"requested", "none">>}
PressInOrder(o) ==
    pressing[o] # NoPress =>
        /\ pressing[o].sequence <= Cardinality(Recorded) + 1
        /\ pressing[o].state \in FirstStates
        /\ pressing[o].key[1] = "stop" => /\ pressing[o].key[2] <= LastEpoch + 1
                                          /\ pressing[o].key[2] = LastEpoch + 1 => Stops \cap Open = {}

CommandInv ==
    /\ CommandTypeOK
    /\ \A n \in Recorded : RowInOrder(n)
    /\ \A c \in Consumers : ConsumerInOrder(c)
    /\ ExpiryInOrder /\ StopsInOrder
    /\ \A o \in Operators : PressInOrder(o)

-----------------------------------------------------------------------------
(* Rows, keys and how a row moves.                                         *)

\* A key is a message's, or the word stop with an epoch.
LEMMA Keys ==
    /\ \A key \in OperationKeys : key[1] \in {"message", "stop"}
    /\ \A key \in OperationKeys : key[1] = "stop" => key = <<"stop", key[2]>> /\ key[2] \in Commands
BY DEF OperationKeys

\* A recorded row has all its fields.
LEMMA RowTyped ==
    ASSUME CommandTypeOK
    PROVE  /\ \A n \in Recorded : command[n] \in Command /\ n \in Commands
           /\ \A n \in Commands : n \notin Recorded => command[n] = NoCommand
           /\ IsFiniteSet(Recorded) /\ IsFiniteSet(Stops) /\ Cardinality(Recorded) \in Nat /\ LastEpoch \in Nat
<1>1. Recorded \subseteq 1 .. MaxCommands /\ Stops \subseteq 1 .. MaxCommands
  BY DEF Recorded, Stops, Commands
<1>2. IsFiniteSet(1 .. MaxCommands)
  BY FS_Interval, CommandAssumption
<1>3. IsFiniteSet(Recorded) /\ IsFiniteSet(Stops)
  BY <1>1, <1>2, FS_Subset
<1>4. \A n \in Recorded : command[n] \in Command
  BY DEF Recorded, NoCommand, CommandTypeOK
<1>5. \A n \in Commands : n \notin Recorded => command[n] = NoCommand
  BY DEF Recorded, NoCommand, CommandTypeOK, Command, OPEN_STATUSES, SETTLED
<1> QED BY <1>1, <1>3, <1>4, <1>5, FS_CardinalityType DEF LastEpoch, Commands

\* A consumer reports on row n under its latest claim.
Reported(n) == \E c \in Consumers : /\ consumer[c].at = "executed" /\ consumer[c].n = n
                                     /\ consumer[c].claim = command[n].claims

\* What any step but an insert does to row n: nothing, or it writes an open one, which keeps
\* its key, goes back only while it has claims left, is acknowledged only by its holder, and
\* is answered for good only if the agent is gone.
RowMoves(n) ==
    \/ command'[n] = command[n]
    \/ /\ n \in Open
       /\ command'[n] \in Command /\ command'[n].key = command[n].key
       /\ command'[n].claims >= command[n].claims
       /\ command'[n].attempt <= command'[n].claims
       /\ command'[n].status = "requested" => command'[n].claims <= MaxClaims
       /\ command'[n].status = "delivered" => command'[n].claims >= 1
       /\ command'[n].status = "delivered" /\ command'[n].lapsed => command'[n].claims <= MaxClaims
       /\ command'[n].status = "acknowledged" => Reported(n)
       /\ command'[n].status = "acknowledged" /\ command'[n].result \in PROVES_TERMINAL => agent' = GONE
Moves == /\ command' \in [Commands -> Command \cup {NoCommand}] /\ \A n \in Commands : RowMoves(n)
         /\ agent = GONE => agent' = GONE

\* Rows that move keep the sequences, the stops and the order of both.
LEMMA MovesKeep ==
    ASSUME CommandInv, Moves
    PROVE  /\ Recorded' = Recorded /\ Stops' = Stops /\ Open' \subseteq Open
           /\ \A n \in Recorded : command'[n].key = command[n].key
           /\ \A n \in Recorded : command'[n].claims >= command[n].claims
           /\ \A n \in Recorded : RowInOrder(n)'
           /\ StopsInOrder'
           /\ \A n, m \in Recorded' : command'[n].key = command'[m].key => n = m
<1>0. CommandTypeOK /\ \A n \in Recorded : command[n] \in Command /\ n \in Commands
  BY RowTyped DEF CommandInv
<1>1. \A n \in Commands : n \in Recorded <=> n \in Recorded'
  BY DEF Moves, RowMoves, Open, Recorded, Command, OPEN_STATUSES, SETTLED
<1>2. Recorded' = Recorded
  BY <1>1 DEF Recorded
<1>3. \A n \in Recorded : command'[n].key = command[n].key
  BY <1>0 DEF Moves, RowMoves
<1>4. Stops' = Stops
  BY <1>2, <1>3 DEF Stops
<1>5. Open' \subseteq Open
  BY <1>0, <1>2 DEF Moves, RowMoves, Open
<1>6. \A n \in Recorded : command'[n].claims >= command[n].claims
  BY <1>0, CommandAssumption DEF Moves, RowMoves, Command
<1>7. ASSUME NEW n \in Recorded PROVE RowInOrder(n)'
  <2>1. RowInOrder(n) /\ RowMoves(n)
    BY <1>0 DEF CommandInv, Moves
  <2>2. CASE command'[n] = command[n]
    BY <2>1, <2>2 DEF Moves, RowInOrder
  <2>3. CASE command'[n] # command[n]
    <3>1. command'[n].attempt <= command'[n].claims /\ (command'[n].status = "requested" => command'[n].claims <= MaxClaims)
      BY <2>1, <2>3 DEF RowMoves
    <3>2. /\ command'[n].status = "delivered" => command'[n].claims >= 1
          /\ command'[n].status = "delivered" /\ command'[n].lapsed => command'[n].claims <= MaxClaims
      BY <2>1, <2>3 DEF RowMoves
    <3>3. command'[n].status = "acknowledged" /\ command'[n].result \in PROVES_TERMINAL => agent' = GONE
      BY <2>1, <2>3 DEF RowMoves
    <3> QED BY <3>1, <3>2, <3>3 DEF RowInOrder
  <2> QED BY <2>2, <2>3
<1>8. LastEpoch' = LastEpoch /\ \A n \in Stops : Epoch(n)' = Epoch(n)
  BY <1>3, <1>4 DEF LastEpoch, Epoch, Stops
<1>9. StopsInOrder'
  BY <1>4, <1>5, <1>8 DEF CommandInv, StopsInOrder
<1>10. \A n, m \in Recorded' : command'[n].key = command'[m].key => n = m
  BY <1>0, <1>2, <1>3 DEF CommandTypeOK
<1> QED BY <1>2, <1>3, <1>4, <1>5, <1>6, <1>7, <1>9, <1>10

\* A step that moves rows and leaves the presses alone keeps the invariant, if it keeps what
\* concerns the consumers, the expiry and the cleanup.
Consuming == {Free} \cup [at: {"claiming"}, n: Commands, attempt: 1 .. MaxClaims + 1]
                    \cup [at: {"holding"}, n: Commands, claim: 1 .. MaxClaims + 1]
                    \cup [at: {"executed"}, n: Commands, claim: 1 .. MaxClaims + 1, result: Results]
                    \cup [at: {"stopped"}, n: Commands]
OthersTyped ==
    /\ consumer' \in [Consumers -> Consuming]
    /\ expiring' \in {NoExpiry} \cup [n: Commands, claim: 1 .. MaxClaims + 1, spent: BOOLEAN]
    /\ ended' \in BOOLEAN /\ HandleOK'
    /\ cleanup' \in [due: BOOLEAN, left: SUBSET Commands]
LEMMA MovesAreSound ==
    ASSUME CommandInv, Moves, UNCHANGED pressing, OthersTyped,
           \A c \in Consumers : ConsumerInOrder(c)', ExpiryInOrder'
    PROVE  CommandInv' /\ Moves
<1>1. /\ Recorded' = Recorded /\ Stops' = Stops /\ Open' \subseteq Open
      /\ \A n \in Recorded : RowInOrder(n)'
      /\ StopsInOrder'
      /\ \A n, m \in Recorded' : command'[n].key = command'[m].key => n = m
  BY MovesKeep
<1>2. CommandTypeOK'
  BY <1>1 DEF CommandInv, CommandTypeOK, Moves, OthersTyped, Consuming
<1>3. \A o \in Operators : PressInOrder(o)'
  BY <1>1 DEF CommandInv, PressInOrder, LastEpoch
<1> QED BY <1>1, <1>2, <1>3 DEF CommandInv

\* A consumer that does nothing, and whose commands nobody claims for it, stays in order.
LEMMA ConsumerStays ==
    ASSUME CommandInv, Moves, NEW c \in Consumers, consumer'[c] = consumer[c],
           \A n \in Recorded : command'[n].status = "delivered" /\ command'[n].by = c =>
               command[n].status = "delivered" /\ command[n].by = c /\ command'[n].claims = command[n].claims
    PROVE  ConsumerInOrder(c)'
<1>1. ConsumerInOrder(c)
  BY DEF CommandInv
<1>2. CASE consumer[c] = Free
  BY <1>2 DEF ConsumerInOrder, Free
<1>3. CASE consumer[c] # Free
  <2>1. PICK n \in Recorded : n = consumer[c].n
    BY <1>1, <1>3 DEF ConsumerInOrder
  <2>2. Recorded' = Recorded /\ command'[n].claims >= command[n].claims
    BY MovesKeep
  <2>3. command[n].claims \in Nat /\ command'[n].claims \in Nat
    BY <2>2, RowTyped, CommandAssumption DEF CommandInv, Moves, RowMoves, Command
  <2>4. consumer[c].at = "claiming" => consumer[c].attempt \in Nat
    BY DEF CommandInv, CommandTypeOK, Free
  <2>5. consumer'[c].at = "claiming" => consumer'[c].attempt <= command'[n].claims + 1
    BY <1>1, <2>1, <2>2, <2>3, <2>4 DEF ConsumerInOrder
  <2>6. consumer'[c].at \in {"holding", "executed"} /\ Holds(c)' => consumer'[c].claim = command'[n].claims
    BY <1>1, <2>1 DEF ConsumerInOrder, Holds
  <2>7. consumer'[c].at = "executed" /\ consumer'[c].result \in PROVES_TERMINAL => agent' = GONE
    BY <1>1 DEF ConsumerInOrder, Moves
  <2> QED BY <2>1, <2>2, <2>5, <2>6, <2>7 DEF ConsumerInOrder
<1> QED BY <1>2, <1>3

\* The expiry keeps the lease it has read.
LEMMA ExpiryStays ==
    ASSUME CommandInv, Moves, UNCHANGED expiring
    PROVE  ExpiryInOrder'
BY MovesKeep DEF CommandInv, ExpiryInOrder

\* The cleanup stays a flag and a set of commands.
LEMMA CleanupTyped ==
    ASSUME CommandInv,
           \/ cleanup' = cleanup \/ cleanup' = [due |-> TRUE, left |-> cleanup.left]
           \/ cleanup' = [due |-> FALSE, left |-> cleanup.left \cup Open] \/ cleanup' = [due |-> FALSE, left |-> {}]
           \/ \E n \in Commands : cleanup' = [cleanup EXCEPT !.left = cleanup.left \ {n}]
    PROVE  cleanup' \in [due: BOOLEAN, left: SUBSET Commands]
<1>1. cleanup \in [due: BOOLEAN, left: SUBSET Commands]
  BY DEF CommandInv, CommandTypeOK
<1>2. PICK l \in SUBSET Commands : l = cleanup.left
  BY <1>1
<1>3. l \cup Open \in SUBSET Commands /\ {} \in SUBSET Commands
  BY DEF Open, Recorded
<1>4. ASSUME NEW n \in Commands, cleanup' = [cleanup EXCEPT !.left = cleanup.left \ {n}]
      PROVE  cleanup' \in [due: BOOLEAN, left: SUBSET Commands]
  <2>1. PICK k \in SUBSET Commands : k = cleanup.left \ {n}
    BY <1>1
  <2>2. cleanup' = [cleanup EXCEPT !.left = k]
    BY <1>4, <2>1
  <2> QED BY <1>1, <2>2
<1>5. ASSUME NEW d \in BOOLEAN, NEW k \in SUBSET Commands, cleanup' = [due |-> d, left |-> k]
      PROVE  cleanup' \in [due: BOOLEAN, left: SUBSET Commands]
  BY <1>5
<1>6. TRUE \in BOOLEAN /\ FALSE \in BOOLEAN
  OBVIOUS
<1>7. CASE cleanup' = [due |-> TRUE, left |-> cleanup.left]
  BY <1>2, <1>5, <1>6, <1>7
<1>8. CASE cleanup' = [due |-> FALSE, left |-> cleanup.left \cup Open]
  BY <1>2, <1>3, <1>5, <1>6, <1>8
<1>9. CASE cleanup' = [due |-> FALSE, left |-> {}]
  BY <1>3, <1>5, <1>6, <1>9
<1> QED BY <1>1, <1>4, <1>7, <1>8, <1>9

\* Nothing moves when no row is written.
LEMMA NothingMoves ==
    ASSUME CommandInv, UNCHANGED command, agent = GONE => agent' = GONE
    PROVE  Moves
BY DEF Moves, RowMoves, CommandInv, CommandTypeOK

\* One open row is written.
LEMMA OneMoves ==
    ASSUME CommandInv, NEW n \in Open, NEW r \in Command, command' = [command EXCEPT ![n] = r],
           r.key = command[n].key, r.claims >= command[n].claims, r.attempt <= r.claims,
           r.status = "requested" => r.claims <= MaxClaims,
           r.status = "delivered" => r.claims >= 1,
           r.status = "delivered" /\ r.lapsed => r.claims <= MaxClaims,
           r.status = "acknowledged" => Reported(n),
           r.status = "acknowledged" /\ r.result \in PROVES_TERMINAL => agent' = GONE,
           agent = GONE => agent' = GONE
    PROVE  Moves /\ command'[n] = r /\ \A m \in Commands : m # n => command'[m] = command[m]
BY DEF Moves, RowMoves, CommandInv, CommandTypeOK, Open, Recorded

\* An open row is settled.
LEMMA SettlingMoves ==
    ASSUME CommandInv, NEW n \in Open, NEW status \in SETTLED, NEW result \in Results,
           command' = Settled(n, status, result),
           status = "acknowledged" => Reported(n),
           status = "acknowledged" /\ result \in PROVES_TERMINAL => agent' = GONE,
           agent = GONE => agent' = GONE
    PROVE  /\ Moves /\ command'[n].status = status
           /\ \A m \in Commands : m # n => command'[m] = command[m]
<1> DEFINE r == [command[n] EXCEPT !.status = status, !.result = result, !.lapsed = FALSE]
<1>1. command[n] \in Command /\ RowInOrder(n)
  BY RowTyped DEF CommandInv, Open
<1>a. r \in Command
  BY <1>1 DEF Command
<1>b. r.key = command[n].key /\ r.claims = command[n].claims /\ r.attempt = command[n].attempt
      /\ r.status = status /\ r.result = result
  BY <1>1 DEF Command
<1>c. command[n].claims \in Int /\ command[n].attempt <= command[n].claims
  BY <1>1, CommandAssumption DEF Command, RowInOrder
<1>2. /\ r.key = command[n].key /\ r.claims >= command[n].claims /\ r.attempt <= r.claims
      /\ r.status = status /\ r.result = result
  BY <1>b, <1>c
<1>3. status \notin OPEN_STATUSES
  BY DEF SETTLED, OPEN_STATUSES
<1>4. command' = [command EXCEPT ![n] = r]
  BY DEF Settled
<1> HIDE DEF r
<1>5. status # "requested" /\ status # "delivered"
  BY <1>3 DEF OPEN_STATUSES
<1>6. Moves /\ command'[n] = r /\ \A m \in Commands : m # n => command'[m] = command[m]
  BY <1>a, <1>2, <1>4, <1>5, OneMoves
<1> QED BY <1>2, <1>6

\* An open row is given back to be claimed again.
LEMMA ReturningMoves ==
    ASSUME CommandInv, NEW n \in Open, command[n].claims <= MaxClaims, NEW result \in Results,
           command' = [command EXCEPT ![n] = [command[n] EXCEPT !.status = "requested", !.by = NoConsumer,
                                                                !.lapsed = FALSE, !.result = result]],
           UNCHANGED agent
    PROVE  /\ Moves /\ command'[n].status = "requested"
           /\ \A m \in Commands : m # n => command'[m] = command[m]
<1> DEFINE r == [command[n] EXCEPT !.status = "requested", !.by = NoConsumer, !.lapsed = FALSE, !.result = result]
<1>1. command[n] \in Command /\ RowInOrder(n)
  BY RowTyped DEF CommandInv, Open
<1>a. r \in Command
  <2>1. "requested" \in OPEN_STATUSES
    BY DEF OPEN_STATUSES
  <2> QED BY <1>1, <2>1 DEF Command
<1>b. r.key = command[n].key /\ r.claims = command[n].claims /\ r.attempt = command[n].attempt
      /\ r.status = "requested"
  BY <1>1 DEF Command
<1>c. command[n].claims \in Int /\ command[n].attempt <= command[n].claims
  BY <1>1, CommandAssumption DEF Command, RowInOrder
<1>2. /\ r.key = command[n].key /\ r.claims >= command[n].claims /\ r.attempt <= r.claims
      /\ r.status = "requested" /\ r.claims <= MaxClaims
  BY <1>b, <1>c
<1>3. command' = [command EXCEPT ![n] = r]
  OBVIOUS
<1> HIDE DEF r
<1>4. Moves /\ command'[n] = r /\ \A m \in Commands : m # n => command'[m] = command[m]
  BY <1>a, <1>2, <1>3, OneMoves
<1> QED BY <1>2, <1>4

-----------------------------------------------------------------------------
(* Every step keeps the invariant.                                         *)

\* The reading half of a claim, and the claim.
LEMMA ClaimKeeps ==
    ASSUME CommandInv, NEW c \in Consumers, (\E n \in Commands : ClaimReads(c, n)) \/ claim_command(c)
    PROVE  CommandInv' /\ Moves
<1>1. ASSUME NEW n \in Commands, ClaimReads(c, n) PROVE CommandInv' /\ Moves
  <2> DEFINE new == [at |-> "claiming", n |-> n, attempt |-> command[n].attempt + 1]
  <2>1. /\ UNCHANGED <<command, pressing, expiring, ended, agent, exited, cleanup>> /\ n \in Recorded
        /\ command[n].status = "requested" /\ consumer' = [consumer EXCEPT ![c] = new]
    BY <1>1 DEF ClaimReads
  <2>2. command[n] \in Command /\ RowInOrder(n)
    BY <2>1, RowTyped DEF CommandInv
  <2>3. command[n].attempt + 1 \in 1 .. MaxClaims + 1 /\ command[n].attempt + 1 <= command[n].claims + 1
    BY <2>1, <2>2, CommandAssumption DEF RowInOrder, Command
  <2>4. OthersTyped
    BY <2>1, <2>3 DEF OthersTyped, Consuming, CommandInv, CommandTypeOK, HandleOK
  <2>5. Moves
    BY <2>1, NothingMoves
  <2>6. consumer'[c] = new /\ \A d \in Consumers : d # c => consumer'[d] = consumer[d]
    BY <2>1 DEF CommandInv, CommandTypeOK
  <2>7. ConsumerInOrder(c)'
    BY <2>1, <2>3, <2>6 DEF ConsumerInOrder, Recorded
  <2>8. \A d \in Consumers : d # c => ConsumerInOrder(d)'
    BY <2>1, <2>5, <2>6, ConsumerStays
  <2> QED BY <2>1, <2>4, <2>5, <2>7, <2>8, ExpiryStays, MovesAreSound
<1>2. CASE claim_command(c)
  <2>0. PICK n : n = consumer[c].n
    OBVIOUS
  <2>1. /\ consumer[c].at = "claiming" /\ consumer[c] # Free /\ UNCHANGED <<pressing, expiring, ended, agent, exited, cleanup>>
        /\ n \in Recorded /\ n \in Commands /\ consumer[c].attempt \in 1 .. MaxClaims + 1
        /\ consumer[c].attempt <= command[n].claims + 1
    BY <1>2, <2>0, RowTyped DEF claim_command, CommandInv, ConsumerInOrder, CommandTypeOK, Free
  <2>2. command[n] \in Command /\ RowInOrder(n)
    BY <2>1, RowTyped DEF CommandInv
  <2>3. CASE command[n].status = "requested"
    <3> DEFINE r == [command[n] EXCEPT !.status = "delivered", !.by = c, !.lapsed = FALSE,
                                       !.attempt = consumer[c].attempt, !.claims = command[n].claims + 1]
               new == [at |-> "holding", n |-> n, claim |-> command[n].claims + 1]
    <3>1. command' = [command EXCEPT ![n] = r] /\ consumer' = [consumer EXCEPT ![c] = new]
      BY <1>2, <2>0, <2>3 DEF claim_command
    <3>2. command[n].claims + 1 \in 1 .. MaxClaims + 1
      BY <2>2, <2>3, CommandAssumption DEF RowInOrder, Command
    <3>a. r \in Command
      <4>1. "delivered" \in OPEN_STATUSES /\ command[n].claims + 1 \in 0 .. MaxClaims + 1
            /\ consumer[c].attempt \in 0 .. MaxClaims + 1
        BY <2>1, <3>2, CommandAssumption DEF OPEN_STATUSES
      <4> QED BY <2>2, <4>1 DEF Command
    <3>b. r.key = command[n].key /\ r.claims = command[n].claims + 1 /\ r.attempt = consumer[c].attempt
          /\ r.status = "delivered" /\ r.lapsed = FALSE /\ r.by = c
      BY <2>2 DEF Command
    <3>c. command[n].claims \in Int
      BY <2>2, CommandAssumption DEF Command
    <3>3. /\ r.key = command[n].key /\ r.claims >= command[n].claims /\ r.attempt <= r.claims
          /\ r.status = "delivered" /\ ~r.lapsed /\ r.by = c /\ r.claims = command[n].claims + 1 /\ r.claims >= 1
      BY <2>1, <3>2, <3>b, <3>c
    <3>4. n \in Open
      BY <2>1, <2>3 DEF Open, OPEN_STATUSES
    <3> HIDE DEF r
    <3>5. Moves /\ command'[n] = r /\ \A m \in Commands : m # n => command'[m] = command[m]
      BY <2>1, <3>1, <3>a, <3>3, <3>4, OneMoves
    <3>6. OthersTyped
      BY <2>1, <3>1, <3>2 DEF OthersTyped, Consuming, CommandInv, CommandTypeOK, HandleOK
    <3>7. consumer'[c] = new /\ \A d \in Consumers : d # c => consumer'[d] = consumer[d]
      BY <3>1 DEF CommandInv, CommandTypeOK
    <3>8. ConsumerInOrder(c)'
      BY <2>1, <3>3, <3>5, <3>7, MovesKeep DEF ConsumerInOrder
    <3>9. \A d \in Consumers : d # c => ConsumerInOrder(d)'
      BY <3>3, <3>5, <3>7, ConsumerStays DEF Recorded
    <3> QED BY <2>1, <3>5, <3>6, <3>8, <3>9, ExpiryStays, MovesAreSound
  <2>4. CASE command[n].status # "requested"
    <3>1. UNCHANGED command /\ consumer' = [consumer EXCEPT ![c] = Free]
      BY <1>2, <2>0, <2>4 DEF claim_command
    <3>2. Moves /\ OthersTyped
      BY <2>1, <3>1, NothingMoves DEF OthersTyped, Consuming, CommandInv, CommandTypeOK, HandleOK
    <3>3. consumer'[c] = Free /\ \A d \in Consumers : d # c => consumer'[d] = consumer[d]
      BY <3>1 DEF CommandInv, CommandTypeOK
    <3>4. ConsumerInOrder(c)'
      BY <3>3 DEF ConsumerInOrder, Free
    <3>5. \A d \in Consumers : d # c => ConsumerInOrder(d)'
      BY <3>1, <3>2, <3>3, ConsumerStays
    <3> QED BY <2>1, <3>2, <3>4, <3>5, ExpiryStays, MovesAreSound
  <2> QED BY <2>3, <2>4
<1> QED BY <1>1, <1>2

\* A step that claims no command for anybody, and moves at most one consumer.
NobodyClaims ==
    \A n \in Recorded : command'[n].status = "delivered" =>
        command[n].status = "delivered" /\ command'[n].by = command[n].by /\ command'[n].claims = command[n].claims
LEMMA OneConsumer ==
    ASSUME CommandInv, Moves, NobodyClaims, UNCHANGED <<pressing, expiring>>, NEW c \in Consumers, NEW new \in Consuming,
           consumer' = [consumer EXCEPT ![c] = new], consumer'[c] = new => ConsumerInOrder(c)',
           ended' \in BOOLEAN, HandleOK', cleanup' \in [due: BOOLEAN, left: SUBSET Commands]
    PROVE  CommandInv' /\ Moves
<1>1. OthersTyped
  BY DEF OthersTyped, Consuming, CommandInv, CommandTypeOK
<1>2. consumer'[c] = new /\ \A d \in Consumers : d # c => consumer'[d] = consumer[d]
  BY DEF CommandInv, CommandTypeOK
<1>3. \A d \in Consumers : d # c => ConsumerInOrder(d)'
  BY <1>2, ConsumerStays DEF NobodyClaims
<1> QED BY <1>1, <1>2, <1>3, ExpiryStays, MovesAreSound

\* One that moves no consumer.
LEMMA NoConsumerMoves ==
    ASSUME CommandInv, Moves, NobodyClaims, UNCHANGED <<pressing, consumer>>, ExpiryInOrder',
           expiring' \in {NoExpiry} \cup [n: Commands, claim: 1 .. MaxClaims + 1, spent: BOOLEAN],
           ended' \in BOOLEAN, HandleOK', cleanup' \in [due: BOOLEAN, left: SUBSET Commands]
    PROVE  CommandInv' /\ Moves
<1>1. OthersTyped
  BY DEF OthersTyped, Consuming, CommandInv, CommandTypeOK
<1>2. \A d \in Consumers : ConsumerInOrder(d)'
  BY ConsumerStays DEF NobodyClaims
<1> QED BY <1>1, <1>2, MovesAreSound

\* A consumer that is free is in order.
LEMMA FreeInOrder ==
    ASSUME NEW c \in Consumers, consumer'[c] = Free
    PROVE  ConsumerInOrder(c)'
BY DEF ConsumerInOrder, Free

\* What the agent's process answers: a stop is reported as done only when it is gone.
LEMMA ExecuteKeeps ==
    ASSUME CommandInv, NEW c \in Consumers, execute(c)
    PROVE  CommandInv' /\ Moves
<1> DEFINE n == consumer[c].n
           what == Outcome(c, command[n].key[1])
           new == [at |-> "executed", n |-> n, claim |-> consumer[c].claim, result |-> what]
<1>1. /\ UNCHANGED <<command, pressing, expiring, ended, cleanup>> /\ consumer[c].at = "holding" /\ consumer[c] # Free
      /\ consumer' = [consumer EXCEPT ![c] = new] /\ agent' = IF what = "stopped" THEN GONE ELSE agent
      /\ exited' \in {NoConsumer, exited} /\ (what = "stopped" => agent = c)
      /\ what = "already_exited" => exited = c
  BY DEF execute, Free, Outcome
<1>2. n \in Recorded /\ n \in Commands /\ consumer[c].claim \in 1 .. MaxClaims + 1
  BY <1>1, RowTyped DEF CommandInv, ConsumerInOrder, CommandTypeOK
<1>a. HandleOK /\ c # NoConsumer /\ NoConsumer # GONE
  BY CommandAssumption DEF CommandInv, CommandTypeOK, GONE
<1>3. what \in Results /\ (what \in PROVES_TERMINAL => agent' = GONE)
  BY <1>1, <1>a DEF HandleOK, Outcome, Results, PROVES_TERMINAL
<1>4. new \in Consuming
  BY <1>2, <1>3 DEF Consuming
<1>5. Moves /\ NobodyClaims
  BY <1>1, NothingMoves DEF NobodyClaims
<1>6. ASSUME consumer'[c] = new PROVE ConsumerInOrder(c)'
  <2>1. ConsumerInOrder(c)
    BY DEF CommandInv
  <2> HIDE DEF what
  <2> QED BY <1>1, <1>2, <1>3, <1>6, <2>1 DEF ConsumerInOrder, Holds, Recorded
<1>7. HandleOK' /\ ended' \in BOOLEAN /\ cleanup' \in [due: BOOLEAN, left: SUBSET Commands]
  BY <1>1, <1>a DEF CommandInv, CommandTypeOK, HandleOK
<1> HIDE DEF new
<1> QED BY <1>1, <1>4, <1>5, <1>6, <1>7, OneConsumer

\* The report: only of a command the consumer still holds.
LEMMA AcknowledgeKeeps ==
    ASSUME CommandInv, NEW c \in Consumers, acknowledge(c)
    PROVE  CommandInv' /\ Moves
<1>0. PICK n, what : n = consumer[c].n /\ what = consumer[c].result
  OBVIOUS
<1> DEFINE proven == what \in PROVES_TERMINAL /\ command[n].key[1] = "stop"
           ok == what = "delivered" \/ proven
           new == IF Holds(c) /\ proven THEN [at |-> "stopped", n |-> n] ELSE Free
<1>1. /\ UNCHANGED <<pressing, expiring, ended, agent, exited, cleanup>> /\ consumer[c].at = "executed" /\ consumer[c] # Free
      /\ consumer' = [consumer EXCEPT ![c] = new]
      /\ command' = IF Holds(c) THEN Settled(n, IF ok THEN "acknowledged" ELSE "failed", what) ELSE command
  BY <1>0 DEF acknowledge, Free
<1>2. /\ n \in Recorded /\ n \in Commands /\ what \in Results
      /\ what \in PROVES_TERMINAL => agent = GONE
  BY <1>0, <1>1, RowTyped DEF CommandInv, ConsumerInOrder, CommandTypeOK
<1>3. new \in Consuming /\ (new # Free => new.at = "stopped" /\ new.n = n)
  BY <1>2 DEF Consuming, Free
<1>4. Moves /\ NobodyClaims
  <2>1. CASE Holds(c)
    <3>1. n \in Open
      BY <1>0, <1>2, <2>1 DEF Holds, Open, OPEN_STATUSES
    <3>2. PICK status \in SETTLED : status = IF ok THEN "acknowledged" ELSE "failed"
      BY DEF SETTLED
    <3>3. command' = Settled(n, status, what) /\ status # "delivered"
      BY <1>1, <2>1, <3>2
    <3>a. Reported(n)
      BY <1>0, <1>1, <2>1 DEF Reported, CommandInv, ConsumerInOrder
    <3>4. Moves /\ command'[n].status = status /\ \A m \in Commands : m # n => command'[m] = command[m]
      BY <1>1, <1>2, <3>1, <3>3, <3>a, SettlingMoves
    <3> QED BY <3>3, <3>4 DEF NobodyClaims, Recorded
  <2>2. CASE ~Holds(c)
    BY <1>1, <2>2, NothingMoves DEF NobodyClaims
  <2> QED BY <2>1, <2>2
<1>5. ASSUME consumer'[c] = new PROVE ConsumerInOrder(c)'
  <2>1. CASE new = Free
    BY <1>5, <2>1, FreeInOrder
  <2>2. CASE new # Free
    <3>1. Recorded' = Recorded
      BY <1>4, MovesKeep
    <3>2. consumer'[c].at = "stopped" /\ consumer'[c].n = n
      BY <1>3, <1>5, <2>2
    <3> QED BY <1>2, <3>1, <3>2 DEF ConsumerInOrder
  <2> QED BY <2>1, <2>2
<1>6. HandleOK' /\ ended' \in BOOLEAN /\ cleanup' \in [due: BOOLEAN, left: SUBSET Commands]
  BY <1>1 DEF CommandInv, CommandTypeOK, HandleOK
<1> HIDE DEF new
<1> QED BY <1>1, <1>3, <1>4, <1>5, <1>6, OneConsumer

\* The stop that was proven ends the Session; a holder hands its command back; a consumer dies.
LEMMA LeavingKeeps ==
    ASSUME CommandInv, NEW c \in Consumers, _synchronize_terminal_state(c) \/ release(c) \/ Restart(c)
    PROVE  CommandInv' /\ Moves
<1>1. UNCHANGED <<pressing, expiring>> /\ consumer' = [consumer EXCEPT ![c] = Free]
  BY DEF _synchronize_terminal_state, release, Restart
<1>2. Free \in Consuming /\ (consumer'[c] = Free => ConsumerInOrder(c)')
  BY FreeInOrder DEF Consuming
<1>3. HandleOK /\ ended \in BOOLEAN /\ cleanup \in [due: BOOLEAN, left: SUBSET Commands]
  BY DEF CommandInv, CommandTypeOK
<1>4. CASE _synchronize_terminal_state(c) \/ Restart(c)
  <2>1. UNCHANGED command /\ (agent = GONE => agent' = GONE)
    BY <1>4, CommandAssumption DEF _synchronize_terminal_state, Restart, GONE
  <2>2. Moves /\ NobodyClaims
    BY <2>1, NothingMoves DEF NobodyClaims
  <2>3. HandleOK' /\ ended' \in BOOLEAN
    BY <1>3, <1>4, CommandAssumption DEF HandleOK, _synchronize_terminal_state, Restart, GONE
  <2>4. cleanup' = cleanup \/ cleanup' = [due |-> TRUE, left |-> cleanup.left]
    BY <1>4 DEF _synchronize_terminal_state, Restart
  <2>5. cleanup' \in [due: BOOLEAN, left: SUBSET Commands]
    BY <2>4, CleanupTyped
  <2> QED BY <1>1, <1>2, <2>2, <2>3, <2>5, OneConsumer
<1>5. CASE release(c)
  <2>0. PICK n : n = consumer[c].n
    OBVIOUS
  <2>1. UNCHANGED <<ended, agent, exited, cleanup>> /\ consumer[c].at = "holding" /\ consumer[c] # Free /\ command[n].claims <= MaxClaims
    BY <1>5, <2>0 DEF release, Free
  <2>2. n \in Recorded /\ n \in Commands /\ command[n] \in Command
    BY <2>0, <2>1, RowTyped DEF CommandInv, ConsumerInOrder
  <2>3. CASE Holds(c)
    <3>1. n \in Open
      BY <2>0, <2>2, <2>3 DEF Holds, Open, OPEN_STATUSES
    <3>2. PICK result \in Results : result = command[n].result
      BY <2>2 DEF Command
    <3>3. command' = [command EXCEPT ![n] = [command[n] EXCEPT !.status = "requested", !.by = NoConsumer,
                                                               !.lapsed = FALSE, !.result = result]]
      <4>1. command' = [command EXCEPT ![n] = [command[n] EXCEPT !.status = "requested", !.by = NoConsumer, !.lapsed = FALSE]]
        BY <1>5, <2>0, <2>3 DEF release
      <4>2. [command[n] EXCEPT !.status = "requested", !.by = NoConsumer, !.lapsed = FALSE]
              = [command[n] EXCEPT !.status = "requested", !.by = NoConsumer, !.lapsed = FALSE, !.result = result]
        BY <2>2, <3>2 DEF Command
      <4> QED BY <4>1, <4>2
    <3>4. Moves /\ command'[n].status = "requested" /\ \A m \in Commands : m # n => command'[m] = command[m]
      BY <2>1, <3>1, <3>3, ReturningMoves
    <3>5. NobodyClaims
      BY <3>4 DEF NobodyClaims, Recorded
    <3> QED BY <1>1, <1>2, <1>3, <2>1, <3>4, <3>5, OneConsumer DEF HandleOK
  <2>4. CASE ~Holds(c)
    <3>1. UNCHANGED command
      BY <1>5, <2>4 DEF release
    <3>2. Moves /\ NobodyClaims
      BY <2>1, <3>1, NothingMoves DEF NobodyClaims
    <3> QED BY <1>1, <1>2, <1>3, <2>1, <3>2, OneConsumer DEF HandleOK
  <2> QED BY <2>3, <2>4
<1> QED BY <1>4, <1>5

\* A lease lapses, is read as lapsed, and is taken back or its command given up.
LEMMA ExpiryKeeps ==
    ASSUME CommandInv, (\E n \in Commands : LeaseLapses(n)) \/ Expire
    PROVE  CommandInv' /\ Moves
<1>0. HandleOK /\ ended \in BOOLEAN /\ cleanup \in [due: BOOLEAN, left: SUBSET Commands]
  BY DEF CommandInv, CommandTypeOK
<1>a. UNCHANGED <<pressing, consumer, ended, agent, exited, cleanup>>
  BY DEF LeaseLapses, Expire, ExpiryReads, expire_leases
<1>1. ASSUME NEW n \in Commands, LeaseLapses(n) PROVE CommandInv' /\ Moves
  <2> DEFINE r == [command[n] EXCEPT !.lapsed = TRUE]
  <2>1. /\ n \in Open /\ command[n].status = "delivered" /\ command[n].claims <= MaxClaims /\ UNCHANGED expiring
        /\ command' = [command EXCEPT ![n] = r]
    BY <1>1 DEF LeaseLapses, Open, OPEN_STATUSES
  <2>2. command[n] \in Command /\ RowInOrder(n)
    BY <2>1, RowTyped DEF CommandInv, Open
  <2>3. r \in Command
    BY <2>2 DEF Command
  <2>4. r.key = command[n].key /\ r.claims = command[n].claims /\ r.attempt = command[n].attempt
        /\ r.status = "delivered" /\ r.by = command[n].by
    BY <2>1, <2>2 DEF Command
  <2>5. r.claims >= command[n].claims /\ r.attempt <= r.claims /\ r.claims <= MaxClaims /\ r.claims >= 1
    BY <2>1, <2>2, <2>4, CommandAssumption DEF Command, RowInOrder
  <2> HIDE DEF r
  <2>6. Moves /\ command'[n] = r /\ \A m \in Commands : m # n => command'[m] = command[m]
    BY <1>a, <2>1, <2>3, <2>4, <2>5, OneMoves
  <2>7. NobodyClaims
    BY <2>1, <2>4, <2>6 DEF NobodyClaims, Recorded
  <2> QED BY <1>0, <1>a, <2>1, <2>6, <2>7, ExpiryStays, NoConsumerMoves DEF CommandInv, CommandTypeOK, HandleOK
<1>2. ASSUME NEW n \in Commands, ExpiryReads(n) PROVE CommandInv' /\ Moves
  <2>1. /\ UNCHANGED command /\ n \in Recorded /\ command[n].status = "delivered" /\ command[n].lapsed
        /\ expiring' = [n |-> n, claim |-> command[n].claims, spent |-> command[n].attempt >= MaxAttempts]
    BY <1>2 DEF ExpiryReads
  <2>2. command[n] \in Command /\ RowInOrder(n)
    BY <2>1, RowTyped DEF CommandInv
  <2>3. Moves /\ NobodyClaims
    BY <1>a, <2>1, NothingMoves DEF NobodyClaims
  <2>4. command[n].claims <= MaxClaims /\ command[n].claims \in 1 .. MaxClaims + 1
    BY <2>1, <2>2, CommandAssumption DEF RowInOrder, Command
  <2>5. ExpiryInOrder'
    BY <2>1, <2>4 DEF ExpiryInOrder, Recorded
  <2> QED BY <1>0, <1>a, <2>1, <2>3, <2>4, <2>5, NoConsumerMoves DEF HandleOK
<1>3. CASE expire_leases
  <2>0. PICK n : n = expiring.n
    OBVIOUS
  <2>1. /\ expiring # NoExpiry /\ expiring' = NoExpiry /\ n \in Recorded /\ n \in Commands
        /\ expiring.claim <= MaxClaims
    BY <1>3, <2>0, RowTyped DEF expire_leases, CommandInv, ExpiryInOrder
  <2>2. Moves /\ NobodyClaims
    <3>1. CASE UNCHANGED command
      BY <1>a, <3>1, NothingMoves DEF NobodyClaims
    <3>2. CASE n \in Open /\ command' = Settled(n, "failed", "abandoned")
      <4>1. "failed" \in SETTLED /\ "abandoned" \in Results
        BY DEF SETTLED, Results
      <4>2. Moves /\ command'[n].status = "failed" /\ \A m \in Commands : m # n => command'[m] = command[m]
        BY <1>a, <3>2, <4>1, SettlingMoves
      <4> QED BY <4>2 DEF NobodyClaims, Recorded
    <3>3. CASE SameLease /\ command' = [command EXCEPT ![n] = [command[n] EXCEPT !.status = "requested", !.by = NoConsumer,
                                                                                  !.lapsed = FALSE, !.result = "none"]]
      <4>1. n \in Open /\ command[n].claims <= MaxClaims
        BY <2>0, <2>1, <3>3 DEF SameLease, Open, OPEN_STATUSES
      <4>2. "none" \in Results
        BY DEF Results
      <4>3. Moves /\ command'[n].status = "requested" /\ \A m \in Commands : m # n => command'[m] = command[m]
        BY <1>a, <3>3, <4>1, <4>2, ReturningMoves
      <4> QED BY <4>3 DEF NobodyClaims, Recorded
    <3> QED BY <1>3, <2>0, <3>1, <3>2, <3>3 DEF expire_leases
  <2>3. ExpiryInOrder'
    BY <2>1 DEF ExpiryInOrder
  <2> QED BY <1>0, <1>a, <2>1, <2>2, <2>3, NoConsumerMoves DEF HandleOK
<1> QED BY <1>1, <1>2, <1>3 DEF Expire

\* The agent exits and is forgotten, the Session ends or sleeps, and its queue is cancelled.
LEMMA EndingKeeps ==
    ASSUME CommandInv, \/ AgentExits \/ unregister \/ SessionEnds \/ SessionSleeps \/ CancelReads \/ CleanupLost
                 \/ \E n \in Commands : cancel_open_for_session(n)
    PROVE  CommandInv' /\ Moves
<1>0. /\ HandleOK' /\ ended' \in BOOLEAN /\ (agent = GONE => agent' = GONE)
      /\ UNCHANGED <<pressing, consumer, expiring>> /\ expiring \in {NoExpiry} \cup [n: Commands, claim: 1 .. MaxClaims + 1, spent: BOOLEAN]
  BY DEF CommandInv, CommandTypeOK, HandleOK, AgentExits, unregister, SessionEnds, SessionSleeps, CancelReads,
         CleanupLost, cancel_open_for_session
<1>1. cleanup' \in [due: BOOLEAN, left: SUBSET Commands]
  <2>1. \/ cleanup' = cleanup \/ cleanup' = [due |-> TRUE, left |-> cleanup.left]
        \/ cleanup' = [due |-> FALSE, left |-> cleanup.left \cup Open] \/ cleanup' = [due |-> FALSE, left |-> {}]
        \/ \E n \in Commands : cleanup' = [cleanup EXCEPT !.left = cleanup.left \ {n}]
    BY DEF AgentExits, unregister, SessionEnds, SessionSleeps, CancelReads, CleanupLost, cancel_open_for_session,
           NoCleanup
  <2> QED BY <2>1, CleanupTyped
<1>2. Moves /\ NobodyClaims
  <2>1. CASE UNCHANGED command
    BY <1>0, <2>1, NothingMoves DEF NobodyClaims
  <2>2. ASSUME NEW n \in Open, command' = Settled(n, "cancelled", "session_ended") PROVE Moves /\ NobodyClaims
    <3>1. "cancelled" \in SETTLED /\ "session_ended" \in Results
      BY DEF SETTLED, Results
    <3>2. Moves /\ command'[n].status = "cancelled" /\ \A m \in Commands : m # n => command'[m] = command[m]
      BY <1>0, <2>2, <3>1, SettlingMoves
    <3> QED BY <3>2 DEF NobodyClaims, Recorded
  <2>3. CASE SessionSleeps
    <3> DEFINE r(n) == [command[n] EXCEPT !.status = "cancelled", !.result = "session_dormant", !.lapsed = FALSE]
    <3>1. command' = [n \in Commands |-> IF n \in Open THEN r(n) ELSE command[n]]
      BY <2>3 DEF SessionSleeps, Settled, CommandInv, CommandTypeOK
    <3>2. ASSUME NEW n \in Open
          PROVE  /\ r(n) \in Command /\ r(n).key = command[n].key /\ r(n).claims >= command[n].claims
                 /\ r(n).attempt <= r(n).claims /\ r(n).status = "cancelled"
      <4>1. command[n] \in Command /\ RowInOrder(n)
        BY RowTyped DEF CommandInv, Open
      <4>2. "cancelled" \in OPEN_STATUSES \cup SETTLED /\ "session_dormant" \in Results
        BY DEF SETTLED, Results
      <4>3. r(n) \in Command
        BY <4>1, <4>2 DEF Command
      <4>4. r(n).key = command[n].key /\ r(n).claims = command[n].claims /\ r(n).attempt = command[n].attempt
            /\ r(n).status = "cancelled"
        BY <4>1 DEF Command
      <4> QED BY <4>1, <4>3, <4>4, CommandAssumption DEF RowInOrder, Command
    <3> HIDE DEF r
    <3>3. \A n \in Commands : command'[n] = IF n \in Open THEN r(n) ELSE command[n]
      BY <3>1
    <3>4. \A n \in Commands : RowMoves(n)
      BY <3>2, <3>3 DEF RowMoves
    <3>5. command' \in [Commands -> Command \cup {NoCommand}]
      BY <3>1, <3>2 DEF CommandInv, CommandTypeOK
    <3> QED BY <1>0, <3>2, <3>3, <3>4, <3>5 DEF Moves, NobodyClaims, Recorded
  <2> QED BY <2>1, <2>2, <2>3 DEF AgentExits, unregister, SessionEnds, SessionSleeps, CancelReads, CleanupLost,
                                  cancel_open_for_session
<1> QED BY <1>0, <1>1, <1>2, ExpiryStays, NoConsumerMoves

-----------------------------------------------------------------------------
(* Stops and the insert of a command.                                      *)

\* The latest stop is the one with the last epoch; an open stop is it.
LEMMA LatestStop ==
    ASSUME CommandInv, Stops # {}
    PROVE  /\ Latest(Stops) \in Stops /\ Epoch(Latest(Stops)) = LastEpoch
           /\ \A n \in Stops \cap Open : n = Latest(Stops)
<1>1. CommandTypeOK /\ StopsInOrder /\ LastEpoch \in Nat /\ Stops \subseteq Recorded /\ Recorded \subseteq Commands
  BY RowTyped DEF CommandInv, Stops, Recorded
<1>2. \A n \in Stops : n \in Nat /\ Epoch(n) \in Nat
  BY <1>1 DEF StopsInOrder, Commands
<1>3. PICK n \in Stops : Epoch(n) = LastEpoch
  BY <1>1 DEF StopsInOrder
<1>4. \A m \in Stops : m <= n /\ (Epoch(m) = LastEpoch => m = n)
  <2> TAKE m \in Stops
  <2>1. Epoch(m) <= LastEpoch
    BY <1>1 DEF StopsInOrder
  <2>2. (n < m => Epoch(n) < Epoch(m)) /\ (m < n => Epoch(m) < Epoch(n))
    BY <1>1 DEF StopsInOrder
  <2> QED BY <1>1, <1>2, <1>3, <2>1, <2>2
<1>5. Latest(Stops) = n
  <2>1. \A m \in Stops : (\A k \in Stops : k <= m) => m = n
    BY <1>2, <1>4
  <2> QED BY <1>4, <2>1 DEF Latest
<1> QED BY <1>1, <1>3, <1>4, <1>5 DEF StopsInOrder

\* What an enqueue reads: it presses a stop only when none is open.
LEMMA ReadingKeeps ==
    ASSUME CommandInv, NEW o \in Operators, NEW key \in OperationKeys, EnqueueReads(o, key)
    PROVE  CommandInv' /\ Moves
<1>1. /\ UNCHANGED <<command, consumer, expiring, ended, agent, exited, cleanup>> /\ Cardinality(Recorded) < MaxCommands
      /\ pressing' = [pressing EXCEPT ![o] = [key |-> key, sequence |-> Cardinality(Recorded) + 1,
                                              state |-> _initial_state(key[1])]]
      /\ key[1] = "stop" => key[2] \in _default_stop_slot
  BY DEF EnqueueReads, NextSequence
<1>2. Recorded' = Recorded /\ Stops' = Stops /\ Open' = Open /\ LastEpoch' = LastEpoch
  BY <1>1 DEF Recorded, Stops, Open, LastEpoch
<1>3. Cardinality(Recorded) + 1 \in Commands
  BY <1>1, RowTyped, CommandAssumption DEF CommandInv, Commands
<1>4. PICK state \in FirstStates : state = _initial_state(key[1])
  BY Keys DEF _initial_state, FirstStates
<1>5. state \in (OPEN_STATUSES \cup SETTLED) \X Results
  BY DEF FirstStates, OPEN_STATUSES, SETTLED, Results
<1> DEFINE new == [key |-> key, sequence |-> Cardinality(Recorded) + 1, state |-> state]
<1>6. new \in [key: OperationKeys, sequence: Commands, state: (OPEN_STATUSES \cup SETTLED) \X Results]
  BY <1>3, <1>5
<1>7. pressing' = [pressing EXCEPT ![o] = new]
  BY <1>1, <1>4
<1>8. key[1] = "stop" => key[2] = LastEpoch + 1 /\ Stops \cap Open = {}
  <2> SUFFICES ASSUME key[1] = "stop" PROVE key[2] = LastEpoch + 1 /\ Stops \cap Open = {}
    OBVIOUS
  <2>1. key[2] = LastEpoch + 1 /\ (Stops # {} => _stop_attempt_is_spent(Latest(Stops)))
    BY <1>1 DEF _default_stop_slot, LastEpoch
  <2>2. Stops # {} => Latest(Stops) \notin Open
    BY <2>1 DEF _stop_attempt_is_spent, Open
  <2>3. Stops # {} => Stops \cap Open = {}
    BY <2>2, LatestStop
  <2> QED BY <2>1, <2>3
<1>9. PressInOrder(o)'
  <2>1. pressing'[o] = new
    BY <1>7 DEF CommandInv, CommandTypeOK
  <2>2. new.sequence = Cardinality(Recorded) + 1 /\ new.state = state /\ new.key = key
    OBVIOUS
  <2>3. LastEpoch + 1 <= LastEpoch + 1 /\ Cardinality(Recorded) + 1 <= Cardinality(Recorded) + 1
    BY RowTyped DEF CommandInv
  <2> HIDE DEF new
  <2> QED BY <1>2, <1>4, <1>8, <2>1, <2>2, <2>3 DEF PressInOrder
<1>10. \A p \in Operators : PressInOrder(p)'
  <2> TAKE p \in Operators
  <2>1. CASE p = o
    BY <1>9, <2>1
  <2>2. CASE p # o
    <3>1. pressing'[p] = pressing[p] /\ PressInOrder(p)
      BY <1>7, <2>2 DEF CommandInv, CommandTypeOK
    <3> QED BY <1>2, <3>1 DEF PressInOrder
  <2> QED BY <2>1, <2>2
<1> HIDE DEF new
<1>11. CommandTypeOK'
  BY <1>1, <1>2, <1>6, <1>7 DEF CommandInv, CommandTypeOK, HandleOK
<1>12. (\A n \in Recorded : RowInOrder(n))' /\ (\A c \in Consumers : ConsumerInOrder(c))' /\ ExpiryInOrder' /\ StopsInOrder'
  BY <1>1, <1>2 DEF CommandInv, RowInOrder, ConsumerInOrder, Holds, ExpiryInOrder, StopsInOrder, Epoch
<1> QED BY <1>1, <1>10, <1>11, <1>12, NothingMoves DEF CommandInv

\* The insert, when neither the sequence nor the key was taken.
Inserts(n, r) ==
    /\ n \in Commands \ Recorded /\ r \in Command /\ command' = [command EXCEPT ![n] = r]
    /\ \A m \in Recorded : command[m].key # r.key
    /\ <<r.status, r.result>> \in FirstStates /\ r.attempt = 0 /\ r.claims = 0

\* An insert leaves every recorded row alone and numbers the new one next.
LEMMA InsertGrows ==
    ASSUME CommandInv, NEW n, NEW r, Inserts(n, r), n <= Cardinality(Recorded) + 1
    PROVE  /\ n = Cardinality(Recorded) + 1 /\ Recorded' = Recorded \cup {n} /\ Cardinality(Recorded)' = n
           /\ command'[n] = r /\ \A m \in Recorded : command'[m] = command[m]
<1>1. Cardinality(Recorded) \in Nat /\ IsFiniteSet(Recorded) /\ Recorded = 1 .. Cardinality(Recorded)
  BY RowTyped DEF CommandInv, CommandTypeOK
<1>2. n \in Nat /\ n >= 1 /\ n \notin Recorded
  BY DEF Inserts, Commands
<1>3. n = Cardinality(Recorded) + 1
  <2>1. ~(n \in 1 .. Cardinality(Recorded))
    BY <1>1, <1>2
  <2> QED BY <1>1, <1>2, <2>1
<1>4. command'[n] = r /\ \A m \in Commands : m # n => command'[m] = command[m]
  BY DEF Inserts, CommandInv, CommandTypeOK
<1>5. r.status # "absent"
  BY DEF Inserts, FirstStates
<1>6. \A m \in Commands : m \in Recorded' <=> m \in Recorded \cup {n}
  BY <1>2, <1>4, <1>5 DEF Recorded
<1>7. Recorded' \subseteq Commands /\ Recorded \cup {n} \subseteq Commands
  BY DEF Recorded, Inserts
<1>8. Recorded' = Recorded \cup {n}
  BY <1>6, <1>7
<1>9. Cardinality(Recorded)' = n
  BY <1>1, <1>2, <1>3, <1>8, FS_AddElement
<1> QED BY <1>2, <1>3, <1>4, <1>8, <1>9 DEF Recorded

\* An insert keeps the rows, the consumers and the expiry in order.
LEMMA InsertKeepsRows ==
    ASSUME CommandInv, NEW n, NEW r, Inserts(n, r), n <= Cardinality(Recorded) + 1,
           UNCHANGED <<consumer, expiring, ended, agent, exited, cleanup>>
    PROVE  /\ (\A m \in Recorded : RowInOrder(m))' /\ (\A c \in Consumers : ConsumerInOrder(c))' /\ ExpiryInOrder'
           /\ command' \in [Commands -> Command \cup {NoCommand}] /\ Recorded' = 1 .. Cardinality(Recorded)'
           /\ \A m, k \in Recorded' : command'[m].key = command'[k].key => m = k
<1>1. /\ n = Cardinality(Recorded) + 1 /\ Recorded' = Recorded \cup {n} /\ Cardinality(Recorded)' = n
      /\ command'[n] = r /\ \A m \in Recorded : command'[m] = command[m]
  BY InsertGrows
<1>2. r.attempt = 0 /\ r.claims = 0 /\ r.status # "delivered" /\ ~(r.status = "acknowledged" /\ r.result \in PROVES_TERMINAL)
  BY DEF Inserts, FirstStates, PROVES_TERMINAL
<1>3. RowInOrder(n)'
  BY <1>1, <1>2, CommandAssumption DEF RowInOrder
<1>4. \A m \in Recorded : RowInOrder(m)'
  BY <1>1 DEF CommandInv, RowInOrder
<1>5. ASSUME NEW c \in Consumers PROVE ConsumerInOrder(c)'
  <2>1. ConsumerInOrder(c)
    BY DEF CommandInv
  <2>2. CASE consumer[c] = Free
    BY <2>2, FreeInOrder
  <2>3. CASE consumer[c] # Free
    <3>1. consumer[c].n \in Recorded /\ consumer[c].n \in Recorded' /\ command'[consumer[c].n] = command[consumer[c].n]
      BY <1>1, <2>1, <2>3 DEF ConsumerInOrder
    <3> QED BY <2>1, <3>1 DEF ConsumerInOrder, Holds
  <2> QED BY <2>2, <2>3
<1>6. ExpiryInOrder'
  BY <1>1 DEF CommandInv, ExpiryInOrder
<1>7. Recorded' = 1 .. Cardinality(Recorded)'
  <2>1. Cardinality(Recorded) \in Nat /\ Recorded = 1 .. Cardinality(Recorded)
    BY RowTyped DEF CommandInv, CommandTypeOK
  <2> QED BY <1>1, <2>1
<1>8. \A m, k \in Recorded' : command'[m].key = command'[k].key => m = k
  BY <1>1 DEF CommandInv, CommandTypeOK, Inserts
<1>9. command' \in [Commands -> Command \cup {NoCommand}]
  BY DEF CommandInv, CommandTypeOK, Inserts
<1> QED BY <1>1, <1>3, <1>4, <1>5, <1>6, <1>7, <1>8, <1>9

\* An insert keeps the stops in order: a stop carries the epoch after the last one.
LEMMA InsertKeepsStops ==
    ASSUME CommandInv, NEW n, NEW r, Inserts(n, r), n <= Cardinality(Recorded) + 1,
           r.key[1] = "stop" => /\ r.key[2] <= LastEpoch + 1
                                /\ r.key[2] = LastEpoch + 1 => Stops \cap Open = {}
    PROVE  /\ StopsInOrder'
           /\ \/ LastEpoch' = LastEpoch + 1
              \/ LastEpoch' = LastEpoch /\ Stops' \cap Open' = Stops \cap Open
<1>1. /\ n = Cardinality(Recorded) + 1 /\ Recorded' = Recorded \cup {n}
      /\ command'[n] = r /\ \A m \in Recorded : command'[m] = command[m]
  BY InsertGrows
<1>2. StopsInOrder /\ LastEpoch \in Nat /\ IsFiniteSet(Stops) /\ n \notin Stops
  BY RowTyped DEF CommandInv, Inserts, Stops
<1>3. \A m \in Stops : Epoch(m)' = Epoch(m) /\ (m \in Open' <=> m \in Open) /\ m < n /\ m \in Nat
  <2>1. \A m \in Recorded : m < n /\ m \in Nat
    <3>1. Cardinality(Recorded) \in Nat /\ Recorded = 1 .. Cardinality(Recorded)
      BY RowTyped DEF CommandInv, CommandTypeOK
    <3> QED BY <1>1, <3>1
  <2> QED BY <1>1, <2>1 DEF Epoch, Open, Stops
<1>4. CASE r.key[1] # "stop"
  <2>1. Stops' = Stops
    BY <1>1, <1>4 DEF Stops, Inserts
  <2>2. LastEpoch' = LastEpoch
    BY <2>1 DEF LastEpoch
  <2>3. StopsInOrder'
    BY <1>2, <1>3, <2>1, <2>2 DEF StopsInOrder
  <2> QED BY <1>3, <2>1, <2>2, <2>3
<1>5. CASE r.key[1] = "stop"
  <2>1. Stops' = Stops \cup {n}
    BY <1>1, <1>5 DEF Stops
  <2>2. LastEpoch' = LastEpoch + 1
    BY <1>2, <2>1, FS_AddElement DEF LastEpoch
  <2>3. r.key = <<"stop", r.key[2]>> /\ r.key[2] \in Nat /\ r.key[2] >= 1
    BY <1>5, Keys DEF Inserts, Command, Commands
  <2>4. r.key[2] = LastEpoch + 1
    <3> SUFFICES ASSUME r.key[2] # LastEpoch + 1 PROVE FALSE
      OBVIOUS
    <3>1. r.key[2] \in 1 .. LastEpoch
      BY <1>2, <1>5, <2>3
    <3>2. PICK m \in Stops : Epoch(m) = r.key[2]
      BY <1>2, <3>1 DEF StopsInOrder
    <3>3. command[m].key = <<"stop", Epoch(m)>>
      BY <3>2, RowTyped, Keys DEF CommandInv, Stops, Epoch, Command
    <3> QED BY <2>3, <3>2, <3>3 DEF Inserts, Stops
  <2>5. Stops \cap Open = {} /\ Epoch(n)' = LastEpoch'
    BY <1>1, <1>5, <2>2, <2>4 DEF Epoch
  <2>6. \A m \in Stops : Epoch(m) \in 1 .. LastEpoch
    BY <1>2 DEF StopsInOrder
  <2>7. \A m \in Stops' : Epoch(m)' \in 1 .. LastEpoch' /\ (m \in Open' => Epoch(m)' = LastEpoch')
    BY <1>2, <1>3, <2>1, <2>2, <2>5, <2>6
  <2>8. \A m, k \in Stops' : m < k => Epoch(m)' < Epoch(k)'
    <3> TAKE m, k \in Stops'
    <3>1. CASE m \in Stops /\ k \in Stops
      BY <1>2, <1>3, <3>1 DEF StopsInOrder
    <3>2. CASE m \in Stops /\ k = n
      BY <1>2, <1>3, <2>2, <2>5, <2>6, <3>2
    <3>3. CASE m = n
      BY <1>1, <1>3, <2>1, <3>3, RowTyped DEF CommandInv
    <3> QED BY <2>1, <3>1, <3>2, <3>3
  <2>9. \A e \in 1 .. LastEpoch' : \E m \in Stops' : Epoch(m)' = e
    <3> TAKE e \in 1 .. LastEpoch'
    <3>1. e \in 1 .. LastEpoch \/ e = LastEpoch'
      BY <1>2, <2>2
    <3>2. CASE e \in 1 .. LastEpoch
      BY <1>2, <1>3, <2>1, <3>2 DEF StopsInOrder
    <3> QED BY <2>1, <2>5, <3>1, <3>2
  <2> QED BY <2>2, <2>7, <2>8, <2>9 DEF StopsInOrder
<1> QED BY <1>4, <1>5

\* What enqueue inserts, or finds taken.
LEMMA InsertingKeeps ==
    ASSUME CommandInv, NEW o \in Operators, enqueue(o)
    PROVE  /\ CommandInv'
           /\ Moves \/ \E n, r : Inserts(n, r)
<1>1. /\ pressing[o] # NoPress /\ pressing' = [pressing EXCEPT ![o] = NoPress]
      /\ UNCHANGED <<consumer, expiring, ended, agent, exited, cleanup>>
  BY DEF enqueue
<1>2. pressing[o] \in [key: OperationKeys, sequence: Commands, state: (OPEN_STATUSES \cup SETTLED) \X Results]
  BY <1>1 DEF CommandInv, CommandTypeOK
<1>3. PICK n \in Commands, key \in OperationKeys, state \in (OPEN_STATUSES \cup SETTLED) \X Results :
          n = pressing[o].sequence /\ key = pressing[o].key /\ state = pressing[o].state
  BY <1>2
<1>4. /\ n <= Cardinality(Recorded) + 1 /\ state \in FirstStates
      /\ key[1] = "stop" => key[2] <= LastEpoch + 1 /\ (key[2] = LastEpoch + 1 => Stops \cap Open = {})
  BY <1>1, <1>3 DEF CommandInv, PressInOrder
<1>5. pressing' \in [Operators -> {NoPress} \cup [key: OperationKeys, sequence: Commands,
                                                 state: (OPEN_STATUSES \cup SETTLED) \X Results]]
  BY <1>1 DEF CommandInv, CommandTypeOK
<1>6. \A p \in Operators : pressing'[p] # NoPress => pressing'[p] = pressing[p]
  BY <1>1 DEF CommandInv, CommandTypeOK
<1>7. CASE UNCHANGED command
  <2>1. Recorded' = Recorded /\ Stops' = Stops /\ Open' = Open /\ LastEpoch' = LastEpoch
    BY <1>7 DEF Recorded, Stops, Open, LastEpoch
  <2>2. CommandTypeOK'
    BY <1>1, <1>5, <1>7, <2>1 DEF CommandInv, CommandTypeOK, HandleOK
  <2>3. (\A m \in Recorded : RowInOrder(m))' /\ (\A c \in Consumers : ConsumerInOrder(c))' /\ ExpiryInOrder' /\ StopsInOrder'
    BY <1>1, <1>7, <2>1 DEF CommandInv, RowInOrder, ConsumerInOrder, Holds, ExpiryInOrder, StopsInOrder, Epoch
  <2>4. \A p \in Operators : PressInOrder(p)'
    BY <1>6, <2>1 DEF CommandInv, PressInOrder
  <2> QED BY <1>1, <1>7, <2>2, <2>3, <2>4, NothingMoves DEF CommandInv
<1>8. CASE n \notin Recorded /\ \A m \in Recorded : command[m].key # key
  <2> DEFINE r == [key |-> key, status |-> state[1], result |-> state[2], by |-> NoConsumer, lapsed |-> FALSE,
                   attempt |-> 0, claims |-> 0]
  <2>1. command' = [command EXCEPT ![n] = r]
    BY <1>3, <1>8 DEF enqueue
  <2>2. r \in Command
    <3>1. state[1] \in OPEN_STATUSES \cup SETTLED /\ state[2] \in Results /\ 0 \in 0 .. MaxClaims + 1
      BY CommandAssumption
    <3> QED BY <3>1 DEF Command
  <2>3. /\ r.key = key /\ r.status = state[1] /\ r.result = state[2] /\ r.attempt = 0 /\ r.claims = 0
        /\ state = <<state[1], state[2]>>
    OBVIOUS
  <2> HIDE DEF r
  <2>4. Inserts(n, r)
    BY <1>4, <1>8, <2>1, <2>2, <2>3 DEF Inserts
  <2>5. Cardinality(Recorded)' = n /\ n = Cardinality(Recorded) + 1
    BY <1>4, <2>4, InsertGrows
  <2>6. /\ (\A m \in Recorded : RowInOrder(m))' /\ (\A c \in Consumers : ConsumerInOrder(c))' /\ ExpiryInOrder'
        /\ command' \in [Commands -> Command \cup {NoCommand}] /\ Recorded' = 1 .. Cardinality(Recorded)'
        /\ \A m, k \in Recorded' : command'[m].key = command'[k].key => m = k
    BY <1>1, <1>4, <2>4, InsertKeepsRows
  <2>7. /\ StopsInOrder'
        /\ \/ LastEpoch' = LastEpoch + 1
           \/ LastEpoch' = LastEpoch /\ Stops' \cap Open' = Stops \cap Open
    BY <1>4, <2>3, <2>4, InsertKeepsStops
  <2>8. CommandTypeOK'
    BY <1>1, <1>5, <2>6 DEF CommandInv, CommandTypeOK, HandleOK
  <2>9. ASSUME NEW p \in Operators, pressing'[p] # NoPress PROVE PressInOrder(p)'
    <3>1. pressing'[p] = pressing[p] /\ PressInOrder(p) /\ pressing[p] # NoPress
      BY <1>6, <2>9 DEF CommandInv
    <3>2. pressing[p].sequence \in Nat /\ (pressing[p].key[1] = "stop" => pressing[p].key[2] \in Nat)
      BY <3>1, Keys DEF CommandInv, CommandTypeOK, Commands
    <3>3. LastEpoch \in Nat /\ Cardinality(Recorded) \in Nat
      BY RowTyped DEF CommandInv
    <3>4. pressing[p].sequence <= Cardinality(Recorded)' + 1
      BY <2>5, <3>1, <3>2, <3>3 DEF PressInOrder
    <3>5. pressing[p].key[1] = "stop" => /\ pressing[p].key[2] <= LastEpoch' + 1
                                         /\ pressing[p].key[2] = LastEpoch' + 1 => Stops' \cap Open' = {}
      BY <2>7, <3>1, <3>2, <3>3 DEF PressInOrder
    <3> QED BY <3>1, <3>4, <3>5 DEF PressInOrder
  <2>10. \A p \in Operators : PressInOrder(p)'
    BY <2>9 DEF PressInOrder
  <2> QED BY <2>4, <2>6, <2>7, <2>8, <2>10 DEF CommandInv
<1> QED BY <1>3, <1>7, <1>8 DEF enqueue

-----------------------------------------------------------------------------
(* The theorems.                                                           *)

\* A new Session has no commands, and a consumer holds the agent it launched.
LEMMA Begins ==
    ASSUME CommandInit
    PROVE  CommandInv
<1>1. /\ command = [n \in Commands |-> NoCommand] /\ pressing = [o \in Operators |-> NoPress]
      /\ consumer = [c \in Consumers |-> Free] /\ expiring = NoExpiry /\ ended = FALSE
      /\ agent \in Consumers /\ exited = NoConsumer /\ cleanup = NoCleanup
  BY DEF CommandInit
<1>2. Recorded = {}
  BY <1>1 DEF Recorded, NoCommand
<1>3. Stops = {} /\ LastEpoch = 0 /\ Cardinality(Recorded) = 0 /\ 1 .. 0 = {}
  BY <1>2, FS_EmptySet DEF Stops, LastEpoch
<1>4. cleanup \in [due: BOOLEAN, left: SUBSET Commands]
  BY <1>1 DEF NoCleanup
<1>5. CommandTypeOK
  BY <1>1, <1>2, <1>3, <1>4 DEF CommandTypeOK, HandleOK
<1>6. StopsInOrder
  BY <1>3 DEF StopsInOrder
<1>7. (\A c \in Consumers : ConsumerInOrder(c)) /\ ExpiryInOrder /\ \A o \in Operators : PressInOrder(o)
  BY <1>1 DEF ConsumerInOrder, Free, ExpiryInOrder, PressInOrder
<1> QED BY <1>2, <1>5, <1>6, <1>7 DEF CommandInv

\* A step inserts the next row or moves rows, and keeps the invariant.
LEMMA Steps ==
    ASSUME CommandInv, [CommandNext]_commandVars
    PROVE  CommandInv' /\ (Moves \/ \E n, r : Inserts(n, r))
<1>1. CASE UNCHANGED commandVars
  <2>1. UNCHANGED <<command, pressing, consumer, expiring, ended, agent, exited, cleanup>>
    BY <1>1 DEF commandVars
  <2>2. Moves /\ NobodyClaims
    BY <2>1, NothingMoves DEF NobodyClaims
  <2>3. HandleOK' /\ ended' \in BOOLEAN /\ cleanup' \in [due: BOOLEAN, left: SUBSET Commands]
        /\ expiring' \in {NoExpiry} \cup [n: Commands, claim: 1 .. MaxClaims + 1, spent: BOOLEAN]
    BY <2>1 DEF CommandInv, CommandTypeOK, HandleOK
  <2> QED BY <2>1, <2>2, <2>3, ExpiryStays, NoConsumerMoves
<1>2. ASSUME NEW o \in Operators, enqueue(o) \/ \E key \in OperationKeys : EnqueueReads(o, key)
      PROVE  CommandInv' /\ (Moves \/ \E n, r : Inserts(n, r))
  BY <1>2, InsertingKeeps, ReadingKeeps
<1>3. ASSUME NEW c \in Consumers, Consume(c) \/ release(c) \/ Restart(c)
      PROVE  CommandInv' /\ Moves
  BY <1>3, ClaimKeeps, ExecuteKeeps, AcknowledgeKeeps, LeavingKeeps DEF Consume
<1>4. CASE Expire \/ \E n \in Commands : LeaseLapses(n)
  BY <1>4, ExpiryKeeps
<1>5. CASE \/ AgentExits \/ unregister \/ SessionEnds \/ SessionSleeps \/ CancelReads \/ CleanupLost
           \/ \E n \in Commands : cancel_open_for_session(n)
  BY <1>5, EndingKeeps
<1> QED BY <1>1, <1>2, <1>3, <1>4, <1>5 DEF CommandNext

\* The inductive invariant holds, for any operators, consumers, commands and claims.
THEOREM CommandInvHolds == CommandSpec => []CommandInv
<1>1. CommandInit => CommandInv
  BY Begins
<1>2. CommandInv /\ [CommandNext]_commandVars => CommandInv'
  BY Steps
<1> QED BY <1>1, <1>2, PTL DEF CommandSpec

\* One stop is open however often it is pressed; and no stop that proved nothing is returned
\* to every further press while the agent still runs.
THEOREM CommandsHold == CommandSpec => []CommandsAreSound
<1>1. CommandInv => CommandsAreSound
  <2> SUFFICES ASSUME CommandInv PROVE CommandsAreSound
    OBVIOUS
  <2>1. Stops \cap Open = {} \/ Stops \cap Open = {Latest(Stops)}
    BY LatestStop
  <2>2. Cardinality(Stops \cap Open) = 0 \/ Cardinality(Stops \cap Open) = 1
    BY <2>1, FS_EmptySet, FS_Singleton
  <2>a. OneOpenStop
    BY <2>2 DEF OneOpenStop
  <2>3. ASSUME ~ended, Stops # {}, Latest(Stops) \notin Open, _default_stop_slot = {} PROVE agent = GONE
    <3>1. PICK n \in Recorded : n = Latest(Stops)
      BY <2>3, LatestStop DEF Stops
    <3>2. command[n].status \notin OPEN_STATUSES
      BY <2>3, <3>1 DEF Open
    <3>3. ~_stop_attempt_is_spent(n)
      BY <2>3, <3>1 DEF _default_stop_slot
    <3>4. command[n].status = "acknowledged" /\ command[n].result \in PROVES_TERMINAL
      BY <2>3, <3>2, <3>3 DEF _stop_attempt_is_spent
    <3> QED BY <3>4 DEF CommandInv, RowInOrder
  <2>4. StopIsNotInert
    BY <2>3 DEF StopIsNotInert
  <2> QED BY <2>a, <2>4 DEF CommandsAreSound, CommandInv
<1> QED BY <1>1, CommandInvHolds, PTL

\* A settled command is never written again, and a command is acknowledged only by the
\* consumer whose claim is its latest.
THEOREM CommandsStay == CommandSpec => CommandsStand
<1>1. CommandInv /\ [CommandNext]_commandVars => [OutcomesStand /\ HolderReports]_commandVars
  <2> SUFFICES ASSUME CommandInv, [CommandNext]_commandVars PROVE OutcomesStand /\ HolderReports
    OBVIOUS
  <2>1. Moves \/ \E n, r : Inserts(n, r)
    BY Steps
  <2>2. CASE Moves
    <3>1. \A n \in Recorded : RowMoves(n)
      BY <2>2 DEF Moves, Recorded
    <3>2. OutcomesStand
      BY <3>1 DEF OutcomesStand, RowMoves, Open, OPEN_STATUSES, SETTLED
    <3>3. HolderReports
      BY <3>1 DEF HolderReports, RowMoves, Reported
    <3> QED BY <3>2, <3>3
  <2>3. ASSUME NEW n, NEW r, Inserts(n, r) PROVE OutcomesStand /\ HolderReports
    <3>1. \A m \in Recorded : command'[m] = command[m]
      BY <2>3 DEF Inserts, CommandInv, CommandTypeOK, Recorded
    <3> QED BY <3>1 DEF OutcomesStand, HolderReports
  <2> QED BY <2>1, <2>2, <2>3
<1> QED BY <1>1, CommandInvHolds, PTL DEF CommandSpec, CommandsStand

-----------------------------------------------------------------------------
(* The two beside each other.                                              *)

\* While one of them moves the other stutters, which each allows.
LEMMA HeldImplementsBoth == HeldSpec => Spec /\ CommandSpec
<1>1. HeldInit => Init /\ CommandInit
  BY DEF HeldInit, CommandStart
<1>2. [\/ CommandStart /\ Next /\ UNCHANGED commandVars
       \/ Init /\ CommandNext /\ UNCHANGED vars]_HeldVars => [Next]_vars /\ [CommandNext]_commandVars
  BY DEF HeldVars
<1> QED BY <1>1, <1>2, PTL DEF HeldSpec, Spec, CommandSpec

\* The Sessions of a machine keep what is theirs, and the commands of one of them their order,
\* whichever of the two moves.
THEOREM HeldSessionHolds == HeldSpec => [](OwnershipIsSound /\ CommandsAreSound) /\ LifecycleStands /\ CommandsStand
BY HeldImplementsBoth, OwnershipHolds, LifecycleIsFinal, CommandsHold, CommandsStay, PTL
=============================================================================
