-------------------------- MODULE GovernanceProofs --------------------------
(***************************************************************************)
(* The safety of Governance for every set of processes, gates, keys and    *)
(* people, and every length of lease and approval.  The argument: as long  *)
(* as nobody wrote on an action it had lost (overrun is empty), the point  *)
(* a process has reached determines the status of the row it owns, and no  *)
(* two processes share an attempt; so an effect finds none before it.      *)
(***************************************************************************)
EXTENDS Governance, TLAPS, FiniteSetTheorems

\* A process in a call has its row.
CallsHaveRows == \A p \in All : proc[p].at \in Points => Exists(proc[p].key)

\* The sweep has a row, and only a pending one is swept as expired.
SweepIsApt == sweep # NoSweep => Exists(sweep.key) /\ (sweep.to = "expired" => sweep.status = "pending")

\* Nobody answers an ask that was not filed.
ReadersHaveAsks == \A h \in People : reading[h] # 0 => reading[h] \in Filed

Typed == TypeOK /\ CallsHaveRows /\ SweepIsApt /\ ReadersHaveAsks

-----------------------------------------------------------------------------
(* The approval behind an effect.                                          *)

\* Codes are handed out in order, so a new one is nobody's.
CodesInOrder == \E n \in 0 .. MaxCode : Filed = 1 .. n

\* An ask that approves was granted by somebody.
ApprovalsAreGranted == \A c \in Filed : ask[c].approves => ask[c].granted

\* An ask p filed for an outward action.
Asked(p) == /\ proc[p].tier = "outward"
            /\ proc[p].code \in Filed /\ ask[proc[p].code].filer = p

\* What a process may rely on at each point.
CallIsApproved(p) ==
    /\ proc[p].at \in {"waiting", "approved"} => Asked(p)
    /\ proc[p].at = "approved" => ask[proc[p].code].granted
    /\ proc[p].at \in {"allowed", "marked", "effect", "ended", "released"} =>
          proc[p].tier = "local" \/ (Asked(p) /\ ask[proc[p].code].granted)
CallsAreApproved == \A p \in All : CallIsApproved(p)

EffectsHaveRows == \A k \in Actions : effects[k] # {} => Exists(k)

Approved == CodesInOrder /\ ApprovalsAreGranted /\ CallsAreApproved /\ EffectsHaveRows /\ EffectIsApproved

-----------------------------------------------------------------------------
(* Attempts and their owners, short of an overrun.                         *)

Past == {"executing"} \cup TERMINAL_STATUSES
Engaged(p) == proc[p].at \in Points \ {"lapsed"}

\* Two processes do not work on one attempt.
Apart(p, q) ==
    Engaged(p) /\ Engaged(q) /\ proc[p].key = proc[q].key /\ proc[p].attempt = proc[q].attempt => p = q

\* The owner of a row finds it in the status of the point it has reached.
OwnerKnows(p) ==
    LET status == row[proc[p].key].status IN
    Owns(p) => /\ proc[p].at = "reserved" => status = "requested"
               /\ proc[p].at \in {"waiting", "approved"} => status = "pending"
               /\ proc[p].at = "allowed" => status = "authorized"

\* A row is executed by one process until it is settled, and the effect has happened or not.
ExecutesAlone(p) ==
    LET k == proc[p].key IN
    /\ proc[p].at \in {"marked", "effect", "ended", "released"} => row[k].attempt = proc[p].attempt
    /\ proc[p].at \in {"marked", "effect", "ended"} =>
          row[k].status = "executing" \/ (row[k].status = "failed" /\ ~row[k].untouched)
    /\ proc[p].at = "released" => row[k].status = "released"
    /\ proc[p].at \in {"marked", "released"} => effects[k] = {}
    /\ proc[p].at \in {"effect", "ended"} => effects[k] # {}

\* A beater that is on time has beaten within the lease.
BeatsInTime(p) ==
    p \in Procs /\ proc[p].at \in {"marked", "effect"} /\ Beats(p) /\ proc[p].beater = "on"
       => row[proc[p].key].silence < Lease

CallInStep(p) ==
    /\ proc[p].attempt <= row[proc[p].key].attempt
    /\ OwnerKnows(p) /\ ExecutesAlone(p) /\ BeatsInTime(p)

\* Whoever found attempt a of k silent while it was executing: it is not over, and its owner
\* does not keep its beat.
FoundSilent(k, a) ==
    /\ a <= row[k].attempt
    /\ row[k].attempt = a =>
          /\ row[k].status \in Past
          /\ \A q \in Procs : proc[q].at \in {"marked", "effect"} /\ proc[q].key = k /\ Beats(q)
                                 => proc[q].beater # "on"

TakerIsRight(p) ==
    proc[p].at = "lapsed" /\ proc[p].seen = "executing" => FoundSilent(proc[p].key, proc[p].attempt)
SweepIsRight ==
    sweep # NoSweep => (sweep.status = "executing" => FoundSilent(sweep.key, sweep.attempt))

\* An effect leaves its row executing or settled, was one, and is what the record says.
KeyInStep(k) ==
    /\ effects[k] # {} => row[k].status \in Past
    /\ Exists(k) /\ row[k].untouched => row[k].status \in {"failed", "expired"}
    /\ \A e, f \in effects[k] : e = f
    /\ row[k].status \in {"denied", "expired"} => effects[k] = {}
    /\ row[k].status = "failed" /\ row[k].untouched => effects[k] = {}
    /\ row[k].status = "succeeded" => effects[k] # {}

InStep ==
    /\ \A p \in All : proc[p].at \in Points => CallInStep(p) /\ TakerIsRight(p)
    /\ \A p, q \in All : Apart(p, q)
    /\ \A k \in Actions : KeyInStep(k)
    /\ SweepIsRight

IInv == Typed /\ Approved /\ (overrun = {} => InStep)

-----------------------------------------------------------------------------
(* Types.                                                                  *)

Statuses == INFLIGHT \cup TERMINAL_STATUSES

\* The values that steps write are of the types they should be.
LEMMA Values ==
    /\ 0 \in 0 .. Lease /\ 0 \in 0 .. MaxCode /\ 1 \in 1 .. MaxAttempt
    /\ {"requested", "pending", "authorized", "executing", "succeeded", "failed", "released", "denied", "expired"}
          \subseteq Statuses
    /\ {"lapsed", "reserved", "waiting", "approved", "allowed", "marked", "effect", "ended", "released"} = Points
    /\ INFLIGHT \subseteq Statuses /\ "requested" \in INFLIGHT
    /\ "absent" \notin Statuses /\ Idle.at \notin Points /\ Gone.at \notin Points
BY ConstantsAssumption DEF Statuses, INFLIGHT, TERMINAL_STATUSES, Points, Idle, Gone

\* A process at a point of a call has all its fields, and so has its row.
LEMMA InACall ==
    ASSUME Typed, NEW p \in All, proc[p].at \in Points
    PROVE  /\ proc[p] \in Proc /\ proc[p].key \in Actions
           /\ Exists(proc[p].key) /\ row[proc[p].key] \in Row
<1>1. proc[p] \in Proc /\ proc[p].key \in Actions
  BY DEF Typed, TypeOK, Points, Idle, Gone, Proc
<1> QED BY <1>1 DEF Typed, TypeOK, CallsHaveRows, Exists, NoRow

\* What a step of a call does: it writes one row or none, moves one process, and keeps the
\* types of what else it changes.
Wrote(k, new) == row' = row \/ row' = [row EXCEPT ![k] = new]
Moved(p, new) == proc' = [proc EXCEPT ![p] = new]
OthersTyped == /\ ask' \in [Codes -> Ask \cup {NoAsk}] /\ Filed \subseteq Filed'
               /\ effects' \in [Actions -> SUBSET (All \X Tiers \X (0 .. MaxCode))]
               /\ overrun' \subseteq All /\ UNCHANGED <<reading, sweep>>

\* Such a step keeps the types, if the call it moves to has a row.
LEMMA CallTyped ==
    ASSUME Typed, NEW p \in All, NEW k \in Actions, NEW r \in Row, NEW new \in Proc \cup {Idle, Gone},
           Wrote(k, r), Moved(p, new), OthersTyped,
           new.at \in Points => row'[new.key].status # "absent"
    PROVE  Typed'
<1>1. \A j \in Actions : row[j].status # "absent" => row'[j].status # "absent"
  BY DEF Typed, TypeOK, Row, INFLIGHT, TERMINAL_STATUSES, Wrote
<1>2. ASSUME NEW q \in All, proc'[q].at \in Points PROVE row'[proc'[q].key].status # "absent"
  <2>1. CASE q = p
    BY <1>2, <2>1 DEF Typed, TypeOK, Moved
  <2>2. CASE q # p
    BY <1>1, <1>2, <2>2, InACall DEF Typed, TypeOK, Exists, Moved
  <2> QED BY <2>1, <2>2
<1>3. CallsHaveRows'
  BY <1>2 DEF CallsHaveRows, Exists
<1>4. SweepIsApt'
  BY <1>1 DEF Typed, TypeOK, SweepIsApt, Exists, NoSweep, OthersTyped
<1> QED BY <1>3, <1>4 DEF Typed, TypeOK, ReadersHaveAsks, Wrote, Moved, OthersTyped

\* A call that goes on with its action, or stops.
LEMMA CallGoesOn ==
    ASSUME Typed, NEW p \in All, proc[p].at \in Points, NEW r \in Row, NEW new \in Proc \cup {Gone},
           new = Gone \/ new.key = proc[p].key,
           Wrote(proc[p].key, r), Moved(p, new), OthersTyped
    PROVE  Typed'
<1>1. proc[p].key \in Actions /\ row[proc[p].key].status # "absent"
  BY InACall DEF Exists
<1>2. row'[proc[p].key].status # "absent"
  BY <1>1 DEF Wrote, Typed, TypeOK, Row, INFLIGHT, TERMINAL_STATUSES
<1>3. new.at \in Points => row'[new.key].status # "absent"
  BY <1>2, Values
<1> QED BY <1>1, <1>3, CallTyped

\* Every step of a call keeps the types.
LEMMA CallKeepsTypes ==
    ASSUME Typed, NEW p \in All, Call(p)
    PROVE  Typed'
<1> DEFINE k == proc[p].key
           At(to) == [proc[p] EXCEPT !.at = to]
           Settled(status, code) == [row[k] EXCEPT !.status = status, !.code = IF code = 0 THEN @ ELSE code]
<1>b. proc[p].at \in Points => proc[p] \in Proc /\ k \in Actions /\ row[k] \in Row /\ row[k].status # "absent"
  BY InACall DEF Exists
<1>c. proc[p].at \in Points => \A to \in Points : At(to) \in Proc /\ At(to).key = k
  BY <1>b DEF Proc
<1>d. proc[p].at \in Points =>
        \A status \in Statuses, code \in 0 .. MaxCode : Settled(status, code) \in Row
  BY <1>b DEF Row, Statuses
<1>e. ASSUME NEW status \in Statuses, NEW code \in 0 .. MaxCode, proc[p].at \in Points, _settle(p, status, code),
             NEW new \in {Gone} \cup {At(to) : to \in Points}, Moved(p, new),
             ask' \in [Codes -> Ask \cup {NoAsk}], Filed \subseteq Filed', UNCHANGED <<reading, sweep, effects>>
      PROVE  Typed'
  <2>1. Wrote(k, Settled(status, code))
    BY <1>e DEF _settle, Wrote
  <2>2. OthersTyped
    BY <1>e DEF _settle, Noted, OthersTyped, Filed, Typed, TypeOK
  <2>3. new \in Proc \cup {Gone} /\ (new = Gone \/ new.key = k)
    BY <1>c, <1>e
  <2> QED BY <1>d, <1>e, <2>1, <2>2, <2>3, CallGoesOn
<1>f. \A to \in Points : Move(p, to) => Moved(p, At(to))
  BY DEF Move, Moved
<1>g. Stop(p) => Moved(p, Gone)
  BY DEF Stop, Moved
<1>h. ask \in [Codes -> Ask \cup {NoAsk}] /\ (UNCHANGED ask => Filed \subseteq Filed')
  BY DEF Typed, TypeOK, Filed
<1>1. ASSUME NEW j \in Actions, NEW tier \in Tiers, reserve(p, j, tier) PROVE Typed'
  <2>0. OthersTyped
    BY <1>1 DEF reserve, OthersTyped, Filed, Typed, TypeOK
  <2> DEFINE began(at, seen, attempt) == [at |-> at, key |-> j, tier |-> tier, seen |-> seen, attempt |-> attempt,
                                          code |-> 0, ok |-> FALSE, beater |-> "off"]
  <2>1. CASE ~Exists(j)
    <3>1. Requested(1) \in Row
      BY Values DEF Requested, Row, Statuses
    <3>2. began("reserved", "requested", 1) \in Proc
      BY Values DEF Proc
    <3>3. row' = [row EXCEPT ![j] = Requested(1)] /\ Moved(p, began("reserved", "requested", 1))
      BY <1>1, <2>1 DEF reserve, Began, Moved
    <3>4. row'[j].status # "absent"
      BY <3>3 DEF Typed, TypeOK, Requested
    <3> QED BY <2>0, <3>1, <3>2, <3>3, <3>4, CallTyped DEF Wrote
  <2>2. CASE Exists(j) /\ Lapsed(j) /\ Began(p, j, tier, "lapsed", row[j].status, row[j].attempt)
    <3>1. row[j] \in Row
      BY <2>2 DEF Typed, TypeOK, Exists, NoRow
    <3>2. began("lapsed", row[j].status, row[j].attempt) \in Proc
      BY <2>2, <3>1, Values DEF Proc, Lapsed, Row
    <3>3. row' = row /\ Moved(p, began("lapsed", row[j].status, row[j].attempt))
      BY <1>1, <2>2 DEF reserve, Began, Moved
    <3> QED BY <2>0, <2>2, <3>1, <3>2, <3>3, CallTyped DEF Wrote, Exists
  <2>3. CASE Exists(j) /\ Stop(p)
    <3>1. row[j] \in Row /\ row' = row
      BY <1>1, <2>3 DEF Typed, TypeOK, Exists, NoRow, reserve
    <3> QED BY <1>g, <2>0, <2>3, <3>1, CallTyped, Values DEF Wrote
  <2> QED BY <1>1, <2>1, <2>2, <2>3 DEF reserve
<1>2. CASE _resume_or_refuse(p)
  <2>0. proc[p].at \in Points /\ OthersTyped
    BY <1>2, Values DEF _resume_or_refuse, OthersTyped, Filed, Typed, TypeOK
  <2>1. CASE Stop(p) /\ row' = [row EXCEPT ![k].status = "failed"]
    <3>1. [row[k] EXCEPT !.status = "failed"] \in Row
      BY <1>b, <2>0, Values DEF Row, Statuses
    <3>2. Wrote(k, [row[k] EXCEPT !.status = "failed"])
      BY <2>1 DEF Wrote
    <3> QED BY <1>g, <2>0, <2>1, <3>1, <3>2, CallGoesOn
  <2>2. CASE /\ row[k].attempt < MaxAttempt
             /\ row' = [row EXCEPT ![k] = Requested(@.attempt + 1)]
             /\ Began(p, k, proc[p].tier, "reserved", "requested", row[k].attempt + 1)
    <3> DEFINE began == [at |-> "reserved", key |-> k, tier |-> proc[p].tier, seen |-> "requested",
                         attempt |-> row[k].attempt + 1, code |-> 0, ok |-> FALSE, beater |-> "off"]
    <3>0. row[k].attempt + 1 \in 1 .. MaxAttempt
      BY <1>b, <2>0, <2>2, ConstantsAssumption DEF Row
    <3>1. Requested(row[k].attempt + 1) \in Row
      BY <1>b, <2>0, <3>0, Values DEF Row, Statuses, Requested
    <3>2. began \in Proc /\ began.key = k
      BY <1>b, <2>0, <3>0, Values DEF Proc
    <3>3. Wrote(k, Requested(row[k].attempt + 1)) /\ Moved(p, began)
      BY <2>2 DEF Wrote, Began, Moved
    <3> QED BY <2>0, <3>1, <3>2, <3>3, CallGoesOn
  <2>3. CASE Stop(p) /\ UNCHANGED row
    BY <1>b, <1>g, <2>0, <2>3, CallGoesOn DEF Wrote
  <2> QED BY <1>2, <2>1, <2>2, <2>3 DEF _resume_or_refuse
<1>3. CASE AuthorizeDirectly(p) \/ AuthorizeUnattributed(p)
  BY <1>3, <1>e, <1>f, <1>g, <1>h, Values DEF AuthorizeDirectly, AuthorizeUnattributed
<1>4. ASSUME NEW wait \in BOOLEAN, _file_approval(p, wait) PROVE Typed'
  <2> DEFINE c == Cardinality(Filed) + 1
             r == [row[k] EXCEPT !.status = "pending", !.window = c]
             new == [proc[p] EXCEPT !.at = "waiting", !.code = c]
  <2>1. proc[p].at \in Points /\ c \in Codes /\ c \in 0 .. MaxCode
    <3>1. Filed \subseteq 1 .. MaxCode
      BY DEF Filed, Codes
    <3>2. IsFiniteSet(1 .. MaxCode)
      BY FS_Interval, ConstantsAssumption
    <3>3. Cardinality(Filed) \in Nat
      BY <3>1, <3>2, FS_Subset, FS_CardinalityType
    <3> QED BY <1>4, <3>3, Values, ConstantsAssumption DEF _file_approval, Codes
  <2>2. r \in Row
    BY <1>b, <2>1, Values DEF Row, Statuses
  <2>3. new \in Proc /\ new.key = k
    BY <1>b, <2>1, Values DEF Proc
  <2>4. Wrote(k, r)
    BY <1>4, <1>b, <2>1 DEF _file_approval, Wrote, Typed, TypeOK
  <2>5. OthersTyped
    BY <1>4, <2>1, ConstantsAssumption DEF _file_approval, Noted, OthersTyped, Filed, Typed, TypeOK, Ask
  <2>6. Moved(p, new) \/ Moved(p, Gone)
    BY <1>4, <1>g DEF _file_approval, Moved, Typed, TypeOK
  <2> QED BY <2>1, <2>2, <2>3, <2>4, <2>5, <2>6, CallGoesOn
<1>5. CASE PollAnswered(p) \/ PollTimesOut(p)
  <2>1. proc[p].at \in Points /\ proc[p].code \in 0 .. MaxCode
    BY <1>5, <1>b, Values DEF PollAnswered, PollTimesOut, Proc
  <2>2. CASE Move(p, "approved") /\ UNCHANGED <<row, ask, reading, sweep, effects, overrun>>
    BY <1>b, <1>c, <1>f, <2>1, <2>2, CallGoesOn, Values DEF Wrote, OthersTyped, Filed, Typed, TypeOK
  <2> QED BY <1>5, <1>e, <1>g, <1>h, <2>1, <2>2, Values DEF PollAnswered, PollTimesOut
<1>6. CASE consume_approval(p)
  <2>1. proc[p].at \in Points /\ proc[p].code \in 0 .. MaxCode /\ UNCHANGED <<reading, sweep, effects>>
    BY <1>6, <1>b, Values DEF consume_approval, Proc
  <2>2. ask' \in [Codes -> Ask \cup {NoAsk}] /\ Filed \subseteq Filed'
    BY <1>6 DEF consume_approval, Typed, TypeOK, Ask, NoAsk, Filed
  <2> QED BY <1>6, <1>e, <1>f, <1>g, <2>1, <2>2, Values DEF consume_approval
<1>7. CASE mark_executing(p)
  <2> DEFINE new == [proc[p] EXCEPT !.at = "marked", !.attempt = row[k].attempt,
                                    !.beater = IF p \in Gates THEN "off" ELSE "on"]
             r == [row[k] EXCEPT !.status = "executing", !.silence = 0]
  <2>1. proc[p].at \in Points
    BY <1>7, Values DEF mark_executing
  <2>2. r \in Row
    BY <1>b, <2>1, Values DEF Row, Statuses
  <2>3. new \in Proc /\ new.key = k
    BY <1>b, <2>1, Values DEF Proc, Row
  <2>4. Wrote(k, r) /\ Moved(p, new) /\ OthersTyped
    BY <1>7 DEF mark_executing, Wrote, Moved, Noted, OthersTyped, Filed, Typed, TypeOK
  <2> QED BY <2>1, <2>2, <2>3, <2>4, CallGoesOn
<1>8. CASE EffectStarts(p)
  <2>1. proc[p].at \in Points /\ row' = row /\ Moved(p, At("effect"))
    BY <1>8, <1>f, Values DEF EffectStarts
  <2>2. OthersTyped
    BY <1>8, <1>b, <2>1 DEF EffectStarts, Performs, OthersTyped, Filed, Typed, TypeOK, Proc
  <2> QED BY <1>b, <1>c, <2>1, <2>2, CallGoesOn, Values DEF Wrote
<1>9. ASSUME NEW ok \in BOOLEAN, EffectEnds(p, ok) PROVE Typed'
  <2> DEFINE new == [proc[p] EXCEPT !.at = "ended", !.ok = ok, !.beater = "off"]
  <2>1. proc[p].at \in Points /\ row' = row /\ Moved(p, new) /\ OthersTyped
    BY <1>9, Values DEF EffectEnds, Moved, OthersTyped, Filed, Typed, TypeOK
  <2>2. new \in Proc /\ new.key = k
    BY <1>b, <2>1, Values DEF Proc
  <2> QED BY <1>b, <2>1, <2>2, CallGoesOn DEF Wrote
<1>10. CASE complete(p) \/ release_for_handoff(p)
  BY <1>10, <1>e, <1>f, <1>g, <1>h, Values DEF complete, release_for_handoff
<1>11. CASE Execv(p)
  <2>1. proc[p].at \in Points /\ Moved(p, Gone)
    BY <1>11, <1>g, Values DEF Execv
  <2>2. [row[k] EXCEPT !.status = "failed"] \in Row
    BY <1>b, <2>1, Values DEF Row, Statuses
  <2>3. Wrote(k, [row[k] EXCEPT !.status = "failed"])
    BY <1>11 DEF Execv, Wrote
  <2>4. OthersTyped
    BY <1>11, <1>b, <2>1 DEF Execv, Performs, OthersTyped, Filed, Typed, TypeOK, Proc
  <2> QED BY <2>1, <2>2, <2>3, <2>4, CallGoesOn
<1> QED
  BY <1>1, <1>2, <1>3, <1>4, <1>5, <1>6, <1>7, <1>8, <1>9, <1>10, <1>11 DEF Call

\* The heartbeat, the answers, the sweep and the clock keep the types.
LEMMA StepKeepsTypes ==
    ASSUME Typed, Next
    PROVE  Typed'
<1>1. ASSUME NEW p \in All, Call(p) PROVE Typed'
  BY <1>1, CallKeepsTypes
<1>2. ASSUME NEW p \in All, proc[p].at \in Points, heartbeat(p) \/ BeaterStalls(p) \/ Crash(p) PROVE Typed'
  <2> DEFINE k == proc[p].key
             New(beater) == [proc[p] EXCEPT !.beater = beater]
  <2>1. proc[p] \in Proc /\ k \in Actions /\ row[k] \in Row
    BY <1>2, InACall
  <2>2. New("off") \in Proc /\ New("late") \in Proc /\ New("off").key = k /\ New("late").key = k
    BY <2>1 DEF Proc
  <2>3. [row[k] EXCEPT !.silence = 0] \in Row
    BY <2>1, Values DEF Row
  <2>4. Wrote(k, [row[k] EXCEPT !.silence = 0])
    BY <1>2 DEF heartbeat, BeaterStalls, Crash, Wrote
  <2>5. OthersTyped
    BY <1>2 DEF heartbeat, BeaterStalls, Crash, OthersTyped, Filed, Typed, TypeOK
  <2>6. Moved(p, New("off")) \/ Moved(p, New("late")) \/ Moved(p, Gone) \/ Moved(p, proc[p])
    BY <1>2 DEF heartbeat, BeaterStalls, Crash, Stop, Moved, Typed, TypeOK
  <2> QED BY <1>2, <2>1, <2>2, <2>3, <2>4, <2>5, <2>6, CallGoesOn
<1>3. ASSUME NEW h \in People, Answer(h) PROVE Typed'
  <2>1. /\ ask' \in [Codes -> Ask \cup {NoAsk}] /\ Filed \subseteq Filed'
        /\ reading' \in [People -> 0 .. MaxCode]
        /\ \A g \in People : reading'[g] # 0 => reading'[g] \in Filed
    <3>1. ASSUME NEW c \in Codes, ReadAsk(h, c)
          PROVE  /\ ask' = ask /\ reading' = [reading EXCEPT ![h] = c]
                 /\ c \in Filed /\ c \in 0 .. MaxCode
      BY <3>1, ConstantsAssumption DEF ReadAsk, Codes, Filed
    <3>2. ASSUME NEW status \in {"resolved", "refused"}, NEW approves \in BOOLEAN, resolve_decision(h, status, approves)
          PROVE  ask' \in [Codes -> Ask \cup {NoAsk}] /\ Filed \subseteq Filed' /\ reading' = [reading EXCEPT ![h] = 0]
      <4>1. reading[h] \in Filed /\ ask[reading[h]] \in Ask
        BY <3>2 DEF resolve_decision, Typed, TypeOK, ReadersHaveAsks, Filed, NoAsk
      <4> QED BY <3>2, <4>1 DEF resolve_decision, Typed, TypeOK, Filed, Ask
    <3>3. \/ ask' = ask /\ \E c \in Filed \cap 0 .. MaxCode : reading' = [reading EXCEPT ![h] = c]
          \/ /\ ask' \in [Codes -> Ask \cup {NoAsk}] /\ Filed \subseteq Filed'
             /\ reading' = [reading EXCEPT ![h] = 0]
      BY <1>3, <3>1, <3>2 DEF Answer
    <3> QED BY <3>3, Values DEF Typed, TypeOK, ReadersHaveAsks, Filed
  <2> QED BY <1>3, <2>1 DEF Answer, ReadAsk, resolve_decision, Typed, TypeOK, CallsHaveRows, SweepIsApt, ReadersHaveAsks, Exists
<1>4. ASSUME NEW k \in Actions, SweepReads(k) PROVE Typed'
  <2>1. row[k] \in Row /\ row[k].status \in INFLIGHT
    BY <1>4 DEF SweepReads, Lapsed, WindowClosed, Exists, Typed, TypeOK, NoRow, INFLIGHT
  <2>2. WindowClosed(k) => row[k].status = "pending"
    BY DEF WindowClosed
  <2> QED BY <1>4, <2>1, <2>2 DEF SweepReads, Typed, TypeOK, CallsHaveRows, SweepIsApt, ReadersHaveAsks, Filed, Exists, Row
<1>5. CASE expire_stale_pending
  <2> DEFINE k == sweep.key
             r == [row[k] EXCEPT !.status = sweep.to, !.untouched = sweep.status # "executing"]
  <2>0. k \in Actions /\ sweep.status \in INFLIGHT /\ sweep.to \in Statuses
    BY <1>5, Values DEF expire_stale_pending, Typed, TypeOK
  <2>1. SameAsRead => r \in Row /\ r.status # "absent"
    <3>1. SameAsRead => row[k] \in Row
      BY <2>0, Values DEF SameAsRead, Typed, TypeOK, NoRow
    <3> QED BY <2>0, <3>1, Values DEF Row, Statuses
  <2>2. row' = row \/ (SameAsRead /\ row' = [row EXCEPT ![k] = r])
    BY <1>5 DEF expire_stale_pending
  <2>3. row' \in [Actions -> Row \cup {NoRow}] /\ \A j \in Actions : row[j].status # "absent" => row'[j].status # "absent"
    <3>1. row \in [Actions -> Row \cup {NoRow}]
      BY DEF Typed, TypeOK
    <3> HIDE DEF r
    <3>2. CASE row' = row
      BY <3>1, <3>2
    <3>3. CASE SameAsRead /\ row' = [row EXCEPT ![k] = r]
      BY <2>0, <2>1, <3>1, <3>3
    <3> QED BY <2>2, <3>2, <3>3
  <2>4. CallsHaveRows'
    BY <1>5, <2>3, InACall DEF expire_stale_pending, CallsHaveRows, Exists
  <2> QED BY <1>5, <2>3, <2>4 DEF expire_stale_pending, Typed, TypeOK, SweepIsApt, ReadersHaveAsks, Filed
<1>6. CASE Tick
  <2>1. ASSUME NEW k \in Actions PROVE Older(k) \in Row \cup {NoRow} /\ Older(k).status = row[k].status
    <3>1. CASE row[k].status \in INFLIGHT /\ row[k].silence < Lease
      <4>1. row[k] \in Row
        BY <3>1, Values DEF Typed, TypeOK, NoRow
      <4>2. row[k].silence + 1 \in 0 .. Lease
        BY <3>1, <4>1, ConstantsAssumption DEF Row
      <4> QED BY <3>1, <4>1, <4>2 DEF Older, Row
    <3> QED BY <3>1 DEF Older, Typed, TypeOK
  <2>2. row' \in [Actions -> Row \cup {NoRow}] /\ \A j \in Actions : row'[j].status = row[j].status
    BY <1>6, <2>1 DEF Tick
  <2>3. ask' \in [Codes -> Ask \cup {NoAsk}] /\ Filed \subseteq Filed'
    BY <1>6, ConstantsAssumption DEF Tick, Typed, TypeOK, Ask, NoAsk, Filed
  <2>4. CallsHaveRows'
    BY <1>6, <2>2, InACall DEF Tick, CallsHaveRows, Exists
  <2> QED BY <1>6, <2>2, <2>3, <2>4 DEF Tick, Typed, TypeOK, SweepIsApt, ReadersHaveAsks, Exists, NoSweep
<1>7. ASSUME NEW p \in All, Crash(p) PROVE proc[p].at \in Points
  BY <1>7 DEF Crash
<1> QED BY <1>1, <1>2, <1>3, <1>4, <1>5, <1>6, <1>7 DEF Next, Beating, Sweep

-----------------------------------------------------------------------------
(* Approvals.                                                              *)

\* No step deletes a row, or changes who filed an ask or that somebody granted it.
RowsStay == \A k \in Actions : Exists(k) => Exists(k)'
AsksStay ==
    /\ Filed \subseteq Filed'
    /\ \A c \in Filed : ask'[c].filer = ask[c].filer /\ (ask[c].granted => ask'[c].granted)

\* So what a process relied on and what stands behind an effect last.
LEMMA ApprovalsLast ==
    ASSUME Typed, Approved, RowsStay, AsksStay
    PROVE  /\ \A p \in All : proc'[p] = proc[p] => CallIsApproved(p)'
           /\ \A k \in Actions : effects[k] # {} => Exists(k)'
           /\ \A k \in Actions : \A e \in effects[k] :
                 e[2] # "local" => /\ e[2] = "outward" /\ e[3] \in Filed'
                                   /\ ask'[e[3]].granted /\ ask'[e[3]].filer = e[1]
<1>1. ASSUME NEW p \in All, proc'[p] = proc[p] PROVE CallIsApproved(p)'
  <2>1. proc[p].at \in Points => proc[p].key \in Actions /\ Exists(proc[p].key)
    BY InACall
  <2>2. CallIsApproved(p)
    BY DEF Approved, CallsAreApproved
  <2> QED BY <1>1, <2>1, <2>2, Values DEF CallIsApproved, Asked, RowsStay, AsksStay
<1>2. ASSUME NEW k \in Actions, effects[k] # {} PROVE Exists(k) /\ Exists(k)'
  BY <1>2 DEF Approved, EffectsHaveRows, RowsStay
<1> QED BY <1>1, <1>2 DEF Approved, EffectIsApproved, AsksStay

\* Rows and asks that no step touches stay.
LEMMA AsksUntouched ==
    ASSUME Approved, UNCHANGED ask
    PROVE  AsksStay /\ CodesInOrder' /\ ApprovalsAreGranted'
BY DEF Approved, AsksStay, CodesInOrder, ApprovalsAreGranted, Filed

\* Writing a row deletes none.
LEMMA RowsKept ==
    ASSUME Typed, NEW k \in Actions, NEW new, Wrote(k, new), Exists(k) => new.status # "absent"
    PROVE  RowsStay
BY DEF RowsStay, Wrote, Exists, Typed, TypeOK

\* A step of p that runs no effect keeps approval if it keeps that of p.
LEMMA CallApproved ==
    ASSUME Typed, Approved, RowsStay, AsksStay, CodesInOrder', ApprovalsAreGranted',
           NEW p \in All, NEW new, Moved(p, new), CallIsApproved(p)', UNCHANGED effects
    PROVE  Approved'
<1>1. CallsAreApproved'
  BY ApprovalsLast DEF CallsAreApproved, Moved, Typed, TypeOK
<1> QED BY <1>1, ApprovalsLast DEF Approved, EffectsHaveRows, EffectIsApproved

\* A step of p that runs the effect keeps approval.
LEMMA EffectApproved ==
    ASSUME Typed, Approved, NEW p \in All, proc[p].at \in {"marked", "released"}, UNCHANGED <<row, ask>>,
           NEW new, Moved(p, new), Performs(p), CallIsApproved(p)'
    PROVE  Approved'
<1> DEFINE k == proc[p].key
<1>1. proc[p].at \in Points /\ k \in Actions /\ Exists(k)
  BY InACall, Values
<1>2. proc[p].tier = "local" \/ (Asked(p) /\ ask[proc[p].code].granted)
  BY DEF Approved, CallsAreApproved, CallIsApproved
<1>3. RowsStay /\ AsksStay /\ CodesInOrder' /\ ApprovalsAreGranted'
  BY AsksUntouched DEF RowsStay, Exists
<1>4. CallsAreApproved'
  BY <1>3, ApprovalsLast DEF CallsAreApproved, Moved, Typed, TypeOK
<1>5. \A j \in Actions : effects'[j] = IF j = k THEN effects[k] \cup {<<p, proc[p].tier, proc[p].code>>} ELSE effects[j]
  BY <1>1 DEF Performs, Typed, TypeOK
<1>6. EffectsHaveRows'
  BY <1>1, <1>3, <1>5, ApprovalsLast DEF EffectsHaveRows, RowsStay
<1>7. ASSUME NEW j \in Actions, NEW e \in effects'[j], e[2] # "local"
      PROVE  e[2] = "outward" /\ e[3] \in Filed' /\ ask'[e[3]].granted /\ ask'[e[3]].filer = e[1]
  <2>1. CASE e \in effects[j]
    BY <1>3, <1>7, <2>1, ApprovalsLast
  <2>2. CASE e \notin effects[j]
    <3>1. j = k /\ e = <<p, proc[p].tier, proc[p].code>>
      BY <1>5, <1>7, <2>2
    <3> QED BY <1>2, <1>7, <3>1 DEF Asked, Filed
  <2> QED BY <2>1, <2>2
<1>8. EffectIsApproved'
  BY <1>7 DEF EffectIsApproved
<1> QED BY <1>3, <1>4, <1>6, <1>8 DEF Approved

\* Every step of a call keeps approval.
LEMMA CallKeepsApproval ==
    ASSUME Typed, Approved, NEW p \in All, Call(p)
    PROVE  Approved'
<1> DEFINE k == proc[p].key
           At(to) == [proc[p] EXCEPT !.at = to]
<1>a. proc[p].at \in Points => proc[p] \in Proc /\ k \in Actions /\ row[k] \in Row /\ Exists(k)
  BY InACall
<1>b. CallIsApproved(p)
  BY DEF Approved, CallsAreApproved
<1>c. ASSUME Moved(p, Gone) PROVE CallIsApproved(p)'
  BY <1>c DEF Moved, CallIsApproved, Gone, Typed, TypeOK
<1>d. ASSUME NEW to \in Points, proc[p].at \in Points, Move(p, to)
      PROVE  Moved(p, At(to)) /\ proc'[p].at = to /\ proc'[p].key = k /\ proc'[p].tier = proc[p].tier
             /\ proc'[p].code = proc[p].code
  BY <1>a, <1>d DEF Move, Moved, Typed, TypeOK, Proc
<1>e. ASSUME NEW status, NEW code, proc[p].at \in Points, _settle(p, status, code), status # "absent"
      PROVE  RowsStay
  <2> DEFINE r == [row[k] EXCEPT !.status = status, !.code = IF code = 0 THEN @ ELSE code]
  <2>1. Wrote(k, r)
    BY <1>e DEF _settle, Wrote
  <2>2. r.status # "absent"
    BY <1>a, <1>e DEF Row
  <2>3. RowsStay
    BY <1>a, <1>e, <2>1, <2>2, RowsKept
  <2> QED BY <1>a, <1>e, <2>3 DEF RowsStay
<1>g. Stop(p) => Moved(p, Gone)
  BY DEF Stop, Moved
<1>h. ASSUME NEW j, NEW tier, NEW at, NEW seen, NEW attempt, Began(p, j, tier, at, seen, attempt)
      PROVE  \E new : Moved(p, new) /\ new.at = at
  <2> DEFINE new == [at |-> at, key |-> j, tier |-> tier, seen |-> seen, attempt |-> attempt, code |-> 0, ok |-> FALSE,
                 beater |-> "off"]
  <2>1. Moved(p, new) /\ new.at = at
    BY <1>h DEF Began, Moved
  <2> QED BY <2>1
<1>i. Stop(p) => \E new : Moved(p, new) /\ new.at = "gone"
  BY <1>g DEF Gone
<1>1. ASSUME NEW j \in Actions, NEW tier \in Tiers, reserve(p, j, tier) PROVE Approved'
  <2>1. RowsStay
    <3>1. \/ row' = row 
          \/ ~Exists(j) /\ row' = [row EXCEPT ![j] = Requested(1)]
      BY <1>1 DEF reserve
    <3> QED BY <3>1, RowsKept DEF RowsStay, Wrote, Exists
  <2>2. \E new : Moved(p, new) /\ new.at \in {"reserved", "lapsed", "gone"}
    BY <1>1, <1>h, <1>i DEF reserve
  <2>3. CallIsApproved(p)'
    BY <2>2 DEF Moved, CallIsApproved, Typed, TypeOK
  <2> QED BY <1>1, <2>1, <2>2, <2>3, AsksUntouched, CallApproved DEF reserve
<1>2. CASE _resume_or_refuse(p)
  <2>1. RowsStay
    <3>0. proc[p].at \in Points
      BY <1>2, Values DEF _resume_or_refuse
    <3>1. \/ row' = row \/ row' = [row EXCEPT ![k].status = "failed"]
          \/ row' = [row EXCEPT ![k] = Requested(row[k].attempt + 1)]
      BY <1>2 DEF _resume_or_refuse
    <3>2. [row[k] EXCEPT !.status = "failed"].status # "absent"
      BY <1>a, <3>0 DEF Row
    <3>3. Requested(row[k].attempt + 1).status # "absent"
      BY DEF Requested
    <3> QED BY <1>a, <3>0, <3>1, <3>2, <3>3, RowsKept DEF RowsStay, Wrote, Exists
  <2>2. \E new : Moved(p, new) /\ new.at \in {"reserved", "gone"}
    BY <1>2, <1>h, <1>i DEF _resume_or_refuse
  <2>3. CallIsApproved(p)'
    BY <2>2 DEF Moved, CallIsApproved, Typed, TypeOK
  <2> QED BY <1>2, <2>1, <2>2, <2>3, AsksUntouched, CallApproved DEF _resume_or_refuse
<1>3. CASE AuthorizeDirectly(p) \/ AuthorizeUnattributed(p)
  <2>1. proc[p].at \in Points /\ UNCHANGED <<ask, effects>>
    BY <1>3, Values DEF AuthorizeDirectly, AuthorizeUnattributed
  <2>2. \E status : status # "absent" /\ _settle(p, status, 0)
    BY <1>3 DEF AuthorizeDirectly, AuthorizeUnattributed
  <2>3. RowsStay
    BY <1>e, <2>1, <2>2
  <2>4. CASE Stop(p)
    BY <1>c, <1>g, <2>1, <2>3, <2>4, AsksUntouched, CallApproved
  <2>5. CASE proc[p].tier = "local" /\ Move(p, "allowed")
    <3>1. CallIsApproved(p)' /\ Moved(p, At("allowed"))
      BY <1>d, <2>1, <2>3, <2>5, Values DEF CallIsApproved
    <3> QED BY <2>1, <2>3, <3>1, AsksUntouched, CallApproved
  <2> QED BY <1>3, <2>4, <2>5 DEF AuthorizeDirectly, AuthorizeUnattributed
<1>4. ASSUME NEW wait \in BOOLEAN, _file_approval(p, wait) PROVE Approved'
  <2> DEFINE c == Cardinality(Filed) + 1
             r == [row[k] EXCEPT !.status = "pending", !.window = c]
             new == [proc[p] EXCEPT !.at = "waiting", !.code = c]
             filed == [status |-> "open", approves |-> FALSE, age |-> 0, filer |-> p, granted |-> FALSE]
  <2>1. proc[p].at = "reserved" /\ proc[p].at \in Points /\ proc[p].tier = "outward"
    BY <1>4, Values DEF _file_approval
  <2>2. PICK n \in 0 .. MaxCode : Filed = 1 .. n
    BY DEF Approved, CodesInOrder
  <2>3. c = n + 1 /\ c \in Codes /\ c \notin Filed /\ n + 1 \in 0 .. MaxCode
    <3>1. Cardinality(Filed) = n
      BY <2>2, FS_Interval, ConstantsAssumption
    <3> QED BY <1>4, <2>2, <3>1, ConstantsAssumption DEF _file_approval, Codes
  <2>4. ask' = [ask EXCEPT ![c] = filed]
    BY <1>4 DEF _file_approval
  <2>5. Filed' = Filed \cup {c} /\ \A d \in Filed : ask'[d] = ask[d]
    BY <2>3, <2>4 DEF Filed, Typed, TypeOK
  <2>6. AsksStay /\ CodesInOrder' /\ ApprovalsAreGranted'
    <3>1. Filed' = 1 .. n + 1
      BY <2>2, <2>3, <2>5
    <3>2. ApprovalsAreGranted'
      BY <2>3, <2>4, <2>5 DEF Approved, ApprovalsAreGranted, Typed, TypeOK
    <3> QED BY <2>3, <2>5, <3>1, <3>2 DEF AsksStay, CodesInOrder
  <2>7. RowsStay
    <3>1. r.status # "absent"
      BY <1>a, <2>1 DEF Row
    <3>2. Wrote(k, r)
      BY <1>4, <1>a, <2>1 DEF _file_approval, Wrote, Typed, TypeOK
    <3>3. RowsStay
      BY <1>a, <2>1, <3>1, <3>2, RowsKept
    <3> QED BY <1>a, <2>1, <3>3 DEF RowsStay
  <2>8. CASE wait
    <3>1. new.at = "waiting" /\ new.code = c /\ new.key = k /\ new.tier = proc[p].tier
      BY <1>a, <2>1 DEF Proc
    <3>2. Moved(p, new)
      BY <1>4, <2>8 DEF _file_approval, Moved, Typed, TypeOK
    <3>3. CallIsApproved(p)'
      BY <2>1, <2>3, <2>4, <2>5, <3>1, <3>2 DEF CallIsApproved, Asked, Moved, Typed, TypeOK
    <3> QED BY <1>4, <2>6, <2>7, <3>2, <3>3, CallApproved DEF _file_approval
  <2>9. CASE ~wait
    <3>1. Moved(p, Gone) /\ UNCHANGED effects
      BY <1>4, <1>g, <2>9 DEF _file_approval
    <3> QED BY <1>c, <2>6, <2>7, <3>1, CallApproved
  <2> QED BY <2>8, <2>9
<1>5. CASE PollAnswered(p) \/ PollTimesOut(p)
  <2>1. proc[p].at = "waiting" /\ proc[p].at \in Points /\ UNCHANGED <<ask, effects>>
    BY <1>5, Values DEF PollAnswered, PollTimesOut
  <2>2. CASE Stop(p) /\ \E status, code : status # "absent" /\ _settle(p, status, code)
    BY <1>c, <1>e, <1>g, <2>1, <2>2, AsksUntouched, CallApproved
  <2>3. CASE Approves(proc[p].code) /\ Move(p, "approved") /\ UNCHANGED row
    <3>1. Asked(p) /\ ask[proc[p].code].granted
      BY <1>b, <2>1, <2>3 DEF CallIsApproved, Asked, Approves, Approved, ApprovalsAreGranted
    <3>2. CallIsApproved(p)' /\ Moved(p, At("approved"))
      BY <1>d, <2>1, <2>3, <3>1, Values DEF CallIsApproved, Asked, Filed
    <3> QED BY <2>1, <2>3, <3>2, AsksUntouched, CallApproved DEF RowsStay, Exists
  <2> QED BY <1>5, <2>2, <2>3 DEF PollAnswered, PollTimesOut
<1>6. CASE consume_approval(p)
  <2>1. proc[p].at = "approved" /\ proc[p].at \in Points /\ UNCHANGED effects
    BY <1>6, Values DEF consume_approval
  <2>2. Asked(p) /\ ask[proc[p].code].granted /\ proc[p].code \in Codes
    BY <1>b, <2>1 DEF CallIsApproved, Asked, Filed
  <2>3. ask' = ask \/ ask' = [ask EXCEPT ![proc[p].code].status = "consumed"]
    BY <1>6 DEF consume_approval
  <2>4. AsksStay /\ CodesInOrder' /\ ApprovalsAreGranted'
    <3>1. \A c \in Codes : c \in Filed' <=> c \in Filed
      BY <2>2, <2>3 DEF Filed, Typed, TypeOK, Ask, NoAsk, Asked
    <3>2. \A c \in Filed : /\ ask'[c].filer = ask[c].filer /\ ask'[c].granted = ask[c].granted
                           /\ ask'[c].approves = ask[c].approves
      BY <2>2, <2>3 DEF Filed, Typed, TypeOK, Ask, NoAsk
    <3>3. Filed' = Filed
      BY <3>1 DEF Filed
    <3> QED BY <3>2, <3>3 DEF Approved, AsksStay, CodesInOrder, ApprovalsAreGranted
  <2>5. RowsStay
    BY <1>6, <1>e, <2>1 DEF consume_approval
  <2>6. CASE Stop(p)
    BY <1>c, <1>g, <2>1, <2>4, <2>5, <2>6, CallApproved
  <2>7. CASE Move(p, "allowed")
    <3>1. CallIsApproved(p)' /\ Moved(p, At("allowed"))
      BY <1>d, <2>1, <2>2, <2>4, <2>5, <2>7, Values DEF CallIsApproved, Asked, AsksStay
    <3> QED BY <2>1, <2>4, <2>5, <3>1, CallApproved
  <2> QED BY <1>6, <2>6, <2>7 DEF consume_approval
<1>7. CASE mark_executing(p)
  <2> DEFINE new == [proc[p] EXCEPT !.at = "marked", !.attempt = row[k].attempt,
                                    !.beater = IF p \in Gates THEN "off" ELSE "on"]
             r == [row[k] EXCEPT !.status = "executing", !.silence = 0]
  <2>1. proc[p].at = "allowed" /\ proc[p].at \in Points /\ UNCHANGED <<ask, effects>>
    BY <1>7, Values DEF mark_executing
  <2>2. r.status # "absent" /\ new.at = "marked" /\ new.key = k /\ new.code = proc[p].code /\ new.tier = proc[p].tier
    BY <1>a, <2>1 DEF Row, Proc
  <2>3. Wrote(k, r) /\ Moved(p, new)
    BY <1>7 DEF mark_executing, Wrote, Moved, Typed, TypeOK
  <2>4. RowsStay
    BY <1>a, <2>1, <2>2, <2>3, RowsKept DEF RowsStay
  <2>5. CallIsApproved(p)'
    BY <1>b, <2>1, <2>2, <2>3, <2>4 DEF CallIsApproved, Asked, Filed, Moved, Typed, TypeOK
  <2> QED BY <2>1, <2>3, <2>4, <2>5, AsksUntouched, CallApproved
<1>8. CASE EffectStarts(p)
  <2>1. proc[p].at = "marked" /\ proc[p].at \in Points /\ UNCHANGED <<row, ask>>
    BY <1>8, Values DEF EffectStarts
  <2>2. CallIsApproved(p)' /\ Moved(p, At("effect"))
    BY <1>8, <1>b, <1>d, <2>1, Values DEF EffectStarts, CallIsApproved, Asked, Filed
  <2> QED BY <1>8, <2>1, <2>2, EffectApproved DEF EffectStarts
<1>9. ASSUME NEW ok \in BOOLEAN, EffectEnds(p, ok) PROVE Approved'
  <2> DEFINE new == [proc[p] EXCEPT !.at = "ended", !.ok = ok, !.beater = "off"]
  <2>1. proc[p].at = "effect" /\ proc[p].at \in Points /\ UNCHANGED <<row, ask, effects>> /\ Moved(p, new)
    BY <1>9, Values DEF EffectEnds, Moved, Typed, TypeOK
  <2>2. new.at = "ended" /\ new.key = k /\ new.code = proc[p].code /\ new.tier = proc[p].tier
    BY <1>a, <2>1 DEF Proc
  <2>3. CallIsApproved(p)'
    BY <1>b, <2>1, <2>2 DEF CallIsApproved, Asked, Filed, Moved, Typed, TypeOK
  <2> QED BY <2>1, <2>3, AsksUntouched, CallApproved DEF RowsStay, Exists
<1>10. CASE complete(p)
  BY <1>10, <1>c, <1>e, <1>g, AsksUntouched, CallApproved, Values DEF complete
<1>11. CASE release_for_handoff(p)
  <2>1. proc[p].at = "marked" /\ proc[p].at \in Points /\ UNCHANGED <<ask, effects>> /\ Move(p, "released")
    BY <1>11, Values DEF release_for_handoff
  <2>2. RowsStay
    BY <1>11, <1>e, <2>1 DEF release_for_handoff
  <2>3. CallIsApproved(p)' /\ Moved(p, At("released"))
    BY <1>b, <1>d, <2>1, <2>2, Values DEF CallIsApproved, Asked, Filed
  <2> QED BY <2>1, <2>2, <2>3, AsksUntouched, CallApproved
<1>12. CASE Execv(p)
  <2>1. proc[p].at = "released" /\ proc[p].at \in Points /\ UNCHANGED ask /\ Moved(p, Gone)
    BY <1>12, <1>g, Values DEF Execv
  <2>2. CASE Performs(p) /\ UNCHANGED row
    BY <1>c, <2>1, <2>2, EffectApproved
  <2>3. CASE row' = [row EXCEPT ![k].status = "failed"] /\ UNCHANGED effects
    <3> DEFINE r == [row[k] EXCEPT !.status = "failed"]
    <3>1. r.status # "absent"
      BY <1>a, <2>1 DEF Row
    <3>2. Wrote(k, r)
      BY <2>3 DEF Wrote
    <3> QED BY <1>a, <1>c, <2>1, <2>3, <3>1, <3>2, RowsKept, AsksUntouched, CallApproved
  <2> QED BY <1>12, <2>2, <2>3 DEF Execv
<1> QED
  BY <1>1, <1>2, <1>3, <1>4, <1>5, <1>6, <1>7, <1>8, <1>9, <1>10, <1>11, <1>12 DEF Call

\* The heartbeat, the answers, the sweep and the clock keep approval.
LEMMA StepKeepsApproval ==
    ASSUME Typed, Approved, Next
    PROVE  Approved'
<1>1. ASSUME NEW p \in All, Call(p) PROVE Approved'
  BY <1>1, CallKeepsApproval
<1>2. ASSUME NEW p \in All, proc[p].at \in Points, heartbeat(p) \/ BeaterStalls(p) \/ Crash(p) PROVE Approved'
  <2> DEFINE k == proc[p].key
             New(beater) == [proc[p] EXCEPT !.beater = beater]
             r == [row[k] EXCEPT !.silence = 0]
  <2>1. proc[p] \in Proc /\ k \in Actions /\ row[k] \in Row
    BY <1>2, InACall
  <2>2. RowsStay
    <3>1. r.status = row[k].status /\ (Exists(k) => r.status # "absent")
      BY <2>1 DEF Row, Exists
    <3>2. Wrote(k, r)
      BY <1>2 DEF heartbeat, BeaterStalls, Crash, Wrote
    <3> QED BY <2>1, <3>1, <3>2, RowsKept
  <2>3. \E new \in {New("off"), New("late"), Gone, proc[p]} : Moved(p, new)
    BY <1>2 DEF heartbeat, BeaterStalls, Crash, Stop, Moved, Typed, TypeOK
  <2>4. \A new \in {New("off"), New("late"), proc[p]} : new.at = proc[p].at /\ new.key = k /\ new.code = proc[p].code /\ new.tier = proc[p].tier
    BY <2>1 DEF Proc
  <2>5. CallIsApproved(p)'
    <3>0. CallIsApproved(p) /\ UNCHANGED ask
      BY <1>2, <2>1, <2>2, InACall DEF Approved, CallsAreApproved, RowsStay, heartbeat, BeaterStalls, Crash
    <3>1. PICK new \in {New("off"), New("late"), Gone, proc[p]} : proc'[p] = new
      BY <2>3 DEF Moved, Typed, TypeOK
    <3>2. CASE new = Gone
      BY <3>1, <3>2 DEF CallIsApproved, Gone
    <3>3. CASE new # Gone
      <4>1. proc'[p].at = proc[p].at /\ proc'[p].key = k /\ proc'[p].code = proc[p].code /\ proc'[p].tier = proc[p].tier
        BY <2>4, <3>1, <3>3
      <4> QED BY <3>0, <4>1 DEF CallIsApproved, Asked, Filed
    <3> QED BY <3>2, <3>3
  <2> QED BY <1>2, <2>2, <2>3, <2>5, AsksUntouched, CallApproved DEF heartbeat, BeaterStalls, Crash
<1>3. ASSUME AsksStay, CodesInOrder', ApprovalsAreGranted', RowsStay, UNCHANGED <<proc, effects>> PROVE Approved'
  BY <1>3, ApprovalsLast DEF Approved, CallsAreApproved, EffectsHaveRows, EffectIsApproved
<1>4. ASSUME NEW h \in People, Answer(h) PROVE Approved'
  <2>1. UNCHANGED <<row, proc, effects>>
    BY <1>4 DEF Answer, ReadAsk, resolve_decision
  <2>2. AsksStay /\ CodesInOrder' /\ ApprovalsAreGranted'
    <3>1. CASE UNCHANGED ask
      BY <3>1, AsksUntouched
    <3>2. ASSUME NEW status \in {"resolved", "refused"}, NEW approves \in BOOLEAN, resolve_decision(h, status, approves)
          PROVE  AsksStay /\ CodesInOrder' /\ ApprovalsAreGranted'
      <4> DEFINE c == reading[h]
      <4>1. c \in Filed /\ c \in Codes /\ ask[c] \in Ask
        BY <3>2 DEF resolve_decision, Typed, TypeOK, ReadersHaveAsks, Filed, NoAsk
      <4>2. ask' = [ask EXCEPT ![c] = [ask[c] EXCEPT !.status = status, !.approves = approves, !.granted = @ \/ approves]]
        BY <3>2 DEF resolve_decision
      <4>3. /\ ask'[c].status = status /\ ask'[c].approves = approves /\ ask'[c].filer = ask[c].filer
            /\ ask'[c].granted = (ask[c].granted \/ approves)
        BY <4>1, <4>2 DEF Typed, TypeOK, Ask
      <4>4. \A d \in Codes : d # c => ask'[d] = ask[d]
        BY <4>2 DEF Typed, TypeOK
      <4>5. Filed' = Filed
        BY <4>1, <4>3, <4>4 DEF Filed
      <4> QED BY <4>3, <4>4, <4>5 DEF Approved, AsksStay, CodesInOrder, ApprovalsAreGranted, Filed
    <3> QED BY <1>4, <3>1, <3>2 DEF Answer, ReadAsk
  <2> QED BY <1>3, <2>1, <2>2 DEF RowsStay, Exists
<1>5. ASSUME NEW k \in Actions, SweepReads(k) PROVE Approved'
  BY <1>3, <1>5, AsksUntouched DEF SweepReads, RowsStay, Exists
<1>6. CASE expire_stale_pending
  <2> DEFINE k == sweep.key
             r == [row[k] EXCEPT !.status = sweep.to, !.untouched = sweep.status # "executing"]
  <2>0. k \in Actions /\ sweep.to # "absent"
    BY <1>6 DEF expire_stale_pending, Typed, TypeOK
  <2>1. Exists(k) => r.status # "absent"
    BY <2>0 DEF Typed, TypeOK, Row, NoRow, Exists
  <2>2. Wrote(k, r)
    BY <1>6 DEF expire_stale_pending, Wrote
  <2>3. RowsStay
    BY <2>0, <2>1, <2>2, RowsKept
  <2> QED BY <1>3, <1>6, <2>3, AsksUntouched DEF expire_stale_pending
<1>7. CASE Tick
  <2>1. \A k \in Actions : Older(k).status = row[k].status
    BY Values DEF Older, Typed, TypeOK, Row, NoRow
  <2>2. RowsStay
    BY <1>7, <2>1 DEF Tick, RowsStay, Exists
  <2>3. \A c \in Codes : /\ ask'[c].status = ask[c].status /\ ask'[c].filer = ask[c].filer
                         /\ ask'[c].granted = ask[c].granted /\ ask'[c].approves = ask[c].approves
    BY <1>7 DEF Tick, Typed, TypeOK, Ask, NoAsk
  <2>4. Filed' = Filed
    BY <2>3 DEF Filed
  <2>5. AsksStay /\ CodesInOrder' /\ ApprovalsAreGranted'
    BY <2>3, <2>4 DEF Approved, AsksStay, CodesInOrder, ApprovalsAreGranted, Filed
  <2> QED BY <1>3, <1>7, <2>2, <2>5 DEF Tick
<1> QED BY <1>1, <1>2, <1>4, <1>5, <1>6, <1>7 DEF Next, Beating, Sweep, Crash

-----------------------------------------------------------------------------
(* Attempts and their owners.                                              *)

OnKey(q, k) == proc[q].at \in Points /\ proc[q].key = k
Elsewhere(q, k) == proc[q].at \in Points /\ proc[q].key # k

\* A step that touches one key keeps the rest in step.
LEMMA Confined ==
    ASSUME Typed, Typed', InStep, NEW k \in Actions,
           \A j \in Actions : j # k => row'[j] = row[j] /\ effects'[j] = effects[j],
           \A q \in All : proc'[q] = proc[q] \/ (~Elsewhere(q, k) /\ ~Elsewhere(q, k)'),
           \A q \in All : OnKey(q, k)' => CallInStep(q)' /\ TakerIsRight(q)',
           \A q, r \in All : OnKey(q, k)' /\ OnKey(r, k)' => Apart(q, r)',
           KeyInStep(k)',
           Exists(k) => \A a \in 1 .. MaxAttempt : FoundSilent(k, a) => FoundSilent(k, a)',
           sweep' = sweep \/ sweep' = NoSweep
    PROVE  InStep'
<1>1. \A q \in All : Elsewhere(q, k)' => /\ proc'[q] = proc[q] /\ Elsewhere(q, k) /\ proc[q].key \in Actions
                                         /\ row'[proc[q].key] = row[proc[q].key]
                                         /\ effects'[proc[q].key] = effects[proc[q].key]
  BY InACall DEF Elsewhere
<1>2. ASSUME NEW j \in Actions, NEW a, j # k, FoundSilent(j, a) PROVE FoundSilent(j, a)'
  <2>1. ASSUME NEW q \in Procs, proc'[q].at \in {"marked", "effect"}, proc'[q].key = j
        PROVE  proc'[q] = proc[q] /\ proc[q].key = j
    BY <1>1, <1>2, <2>1, Values DEF Elsewhere, All
  <2> QED BY <1>2, <2>1 DEF FoundSilent, Beats
<1>3. ASSUME NEW q \in All, Elsewhere(q, k)' PROVE CallInStep(q)' /\ TakerIsRight(q)'
  <2>1. CallInStep(q) /\ TakerIsRight(q)
    BY <1>1, <1>3 DEF InStep, Elsewhere
  <2>2. CallInStep(q)'
    BY <1>1, <1>3, <2>1
    DEF CallInStep, OwnerKnows, Owns, Terminal, ExecutesAlone, BeatsInTime, Beats
  <2>3. TakerIsRight(q)'
    BY <1>1, <1>2, <1>3, <2>1 DEF TakerIsRight, Elsewhere
  <2> QED BY <2>2, <2>3
<1>4. ASSUME NEW q \in All, NEW r \in All PROVE Apart(q, r)'
  <2>1. CASE OnKey(q, k)' /\ OnKey(r, k)'
    BY <2>1
  <2>2. CASE Elsewhere(q, k)' /\ Elsewhere(r, k)'
    BY <1>1, <2>2 DEF InStep, Apart, Engaged
  <2> QED BY <2>1, <2>2 DEF OnKey, Elsewhere, Apart, Engaged
<1>5. \A j \in Actions : KeyInStep(j)'
  BY DEF InStep, KeyInStep, Exists
<1>6. SweepIsRight'
  <2>1. CASE sweep' = NoSweep
    BY <2>1 DEF SweepIsRight
  <2>2. CASE sweep' = sweep /\ sweep # NoSweep
    BY <1>2, <2>2 DEF InStep, SweepIsRight, Typed, TypeOK, SweepIsApt
  <2> QED BY <2>1, <2>2
<1> QED BY <1>3, <1>4, <1>5, <1>6 DEF InStep, OnKey, Elsewhere

\* What was found silent stays so when the row goes on to another attempt or is settled.
LEMMA SilenceLasts ==
    ASSUME Typed, Typed', NEW k \in Actions, Exists(k), row'[k].attempt \in Int,
           row'[k].attempt >= row[k].attempt,
           row'[k].attempt = row[k].attempt /\ row[k].status \in Past => row'[k].status \in TERMINAL_STATUSES
    PROVE  \A a \in 1 .. MaxAttempt : FoundSilent(k, a) => FoundSilent(k, a)'
<1>1. row[k].attempt \in Int
  BY DEF Typed, TypeOK, Exists, Row, NoRow
<1> SUFFICES ASSUME NEW a \in 1 .. MaxAttempt, FoundSilent(k, a)
             PROVE  FoundSilent(k, a)'
  OBVIOUS
<1> QED BY <1>1 DEF FoundSilent, Beats, TERMINAL_STATUSES, Past

\* The process with the row's attempt is the only one that acts on it.
LEMMA OwnerIsAlone ==
    ASSUME Typed, InStep, NEW p \in All, Engaged(p), NEW q \in All, q # p, OnKey(q, proc[p].key),
           proc[p].attempt = row[proc[p].key].attempt
    PROVE  /\ proc[q].attempt \in Int /\ proc[q].attempt <= proc[p].attempt
           /\ Engaged(q) => proc[q].attempt < proc[p].attempt
           /\ proc[q].at \notin {"marked", "effect", "ended", "released"}
<1>1. /\ proc[q].attempt \in Int /\ proc[p].attempt \in Int
  BY InACall DEF OnKey, Engaged, Proc
<1>2. CallInStep(q) /\ Apart(q, p) /\ proc[q].attempt <= proc[p].attempt
  BY DEF InStep, OnKey, CallInStep
<1>3. Engaged(q) => proc[q].attempt # proc[p].attempt
  BY <1>2 DEF Apart, OnKey
<1>4. proc[q].at \notin {"marked", "effect", "ended", "released"}
  BY <1>2, <1>3 DEF CallInStep, ExecutesAlone, OnKey, Engaged
<1> QED BY <1>1, <1>2, <1>3, <1>4

\* A step of the process that has the row's attempt, on its row, keeps all in step.
LEMMA OwnerWrites ==
    ASSUME Typed, Typed', InStep, NEW p \in All, Engaged(p), NEW k, k = proc[p].key, proc[p].attempt = row[k].attempt,
           NEW r \in Row, row' = [row EXCEPT ![k] = r], r.attempt = proc[p].attempt,
           NEW new \in Proc \cup {Gone}, Moved(p, new),
           new # Gone => /\ new.key = k /\ new.attempt = proc[p].attempt /\ new.at # "lapsed"
                         /\ CallInStep(p)',
           \A j \in Actions : j # k => effects'[j] = effects[j],
           KeyInStep(k)',
           \A a \in 1 .. MaxAttempt : FoundSilent(k, a) => FoundSilent(k, a)',
           UNCHANGED sweep
    PROVE  InStep'
<1>1. k \in Actions /\ row'[k] = r /\ \A j \in Actions : j # k => row'[j] = row[j]
  BY InACall DEF Engaged, Typed, TypeOK
<1>2. proc'[p] = new /\ \A q \in All : q # p => proc'[q] = proc[q]
  BY DEF Moved, Typed, TypeOK
<1>3. \A q \in All : proc'[q] = proc[q] \/ (~Elsewhere(q, k) /\ ~Elsewhere(q, k)')
  BY <1>2, Values DEF Elsewhere
<1>4. ASSUME NEW q \in All, OnKey(q, k)' PROVE CallInStep(q)' /\ TakerIsRight(q)'
  <2>1. CASE q = p
    BY <1>2, <1>4, <2>1, Values DEF OnKey, TakerIsRight
  <2>2. CASE q # p
    <3>0. OnKey(q, k) /\ proc'[q] = proc[q]
      BY <1>2, <1>4, <2>2 DEF OnKey
    <3>1. OnKey(q, k) /\ proc'[q] = proc[q] /\ proc[q].attempt \in 1 .. MaxAttempt
      BY <3>0, InACall DEF OnKey, Proc
    <3>2. /\ proc[q].attempt \in Int /\ proc[q].attempt <= r.attempt
          /\ Engaged(q) => proc[q].attempt < r.attempt
          /\ proc[q].at \notin {"marked", "effect", "ended", "released"}
      BY <2>2, <3>1, OwnerIsAlone
    <3>3. CallInStep(q)'
      BY <1>1, <3>1, <3>2 DEF CallInStep, OwnerKnows, Owns, ExecutesAlone, BeatsInTime, Engaged, OnKey
    <3>4. TakerIsRight(q)'
      BY <3>1 DEF InStep, TakerIsRight, OnKey
    <3> QED BY <3>3, <3>4
  <2> QED BY <2>1, <2>2
<1>5. ASSUME NEW q \in All, NEW s \in All, OnKey(q, k)', OnKey(s, k)' PROVE Apart(q, s)'
  <2>1. ASSUME NEW u \in All, u # p, OnKey(u, k)', Engaged(u)' PROVE proc'[u].attempt < r.attempt
    BY <1>2, <2>1, OwnerIsAlone DEF OnKey, Engaged
  <2>2. CASE q = p \/ s = p
    BY <1>2, <1>5, <2>1, <2>2, Values DEF Apart, Engaged, Proc, Row
  <2>3. CASE q # p /\ s # p
    BY <1>2, <2>3 DEF InStep, Apart, Engaged
  <2> QED BY <2>2, <2>3
<1> QED BY <1>1, <1>3, <1>4, <1>5, Confined

\* A step that moves one process and writes no row keeps all in step.
LEMMA OneMoves ==
    ASSUME Typed, Typed', InStep, NEW p \in All, NEW k \in Actions, ~Elsewhere(p, k),
           NEW new \in Proc \cup {Gone}, Moved(p, new), UNCHANGED <<row, effects, sweep>>,
           new # Gone => /\ new.key = k /\ CallInStep(p)' /\ TakerIsRight(p)'
                         /\ \A q \in All : Apart(p, q)' /\ Apart(q, p)'
                         /\ new.at \in {"marked", "effect"} /\ new.beater = "on" =>
                               OnKey(p, k) /\ proc[p].at \in {"marked", "effect"} /\ proc[p].beater = "on"
                               /\ proc[p].attempt = new.attempt
    PROVE  InStep'
<1>1. proc'[p] = new /\ \A q \in All : q # p => proc'[q] = proc[q]
  BY DEF Moved, Typed, TypeOK
<1>2. \A q \in All : proc'[q] = proc[q] \/ (~Elsewhere(q, k) /\ ~Elsewhere(q, k)')
  BY <1>1, Values DEF Elsewhere
<1>3. ASSUME NEW a, FoundSilent(k, a) PROVE FoundSilent(k, a)'
  BY <1>1, <1>3, Values DEF FoundSilent, Beats, All, OnKey, Proc, Gone
<1>4. ASSUME NEW q \in All, OnKey(q, k)' PROVE CallInStep(q)' /\ TakerIsRight(q)'
  <2>1. CASE q = p
    BY <1>1, <1>4, <2>1, Values DEF OnKey
  <2>2. CASE q # p
    <3>1. CallInStep(q) /\ TakerIsRight(q) /\ OnKey(q, k)
      BY <1>1, <1>4, <2>2 DEF InStep, OnKey
    <3>2. CallInStep(q)'
      BY <1>1, <2>2, <3>1 DEF CallInStep, OwnerKnows, Owns, Terminal, ExecutesAlone, BeatsInTime, Beats
    <3> QED BY <1>1, <1>3, <2>2, <3>1, <3>2 DEF TakerIsRight, OnKey
  <2> QED BY <2>1, <2>2
<1>5. ASSUME NEW q \in All, NEW s \in All, OnKey(q, k)', OnKey(s, k)' PROVE Apart(q, s)'
  <2>1. CASE q = p \/ s = p
    BY <1>1, <1>5, <2>1, Values DEF OnKey
  <2>2. CASE q # p /\ s # p
    BY <1>1, <2>2 DEF InStep, Apart, Engaged
  <2> QED BY <2>1, <2>2
<1>6. KeyInStep(k)'
  BY DEF InStep, KeyInStep, Exists
<1> QED BY <1>2, <1>3, <1>4, <1>5, <1>6, Confined

\* A settlement by a process that still owns its row keeps all in step.
LEMMA SettlementInStep ==
    ASSUME Typed, Typed', InStep, overrun = {}, overrun' = {}, NEW p \in All, Engaged(p), NEW k, k = proc[p].key,
           NEW status \in Statuses, NEW code \in 0 .. MaxCode, _settle(p, status, code), UNCHANGED <<effects, sweep>>,
           row[k].status = "executing" => status \in {"succeeded", "failed", "released"},
           status = "succeeded" => effects[k] # {},
           NEW new, Moved(p, new),
           \/ new = Gone
           \/ new = [proc[p] EXCEPT !.at = "allowed"] /\ status = "authorized"
           \/ new = [proc[p] EXCEPT !.at = "released"] /\ status = "released" /\ effects[k] = {}
    PROVE  InStep'
<1> DEFINE r == [row[k] EXCEPT !.status = status, !.code = IF code = 0 THEN @ ELSE code]
<1>1. proc[p] \in Proc /\ k \in Actions /\ row[k] \in Row /\ Exists(k)
  BY InACall DEF Engaged
<1>2. Owns(p)
  BY DEF _settle, Noted
<1>3. /\ r \in Row /\ r.status = status /\ r.attempt = proc[p].attempt /\ row[k].attempt = proc[p].attempt
      /\ r.untouched = row[k].untouched /\ r.silence = row[k].silence
  BY <1>1, <1>2 DEF Row, Statuses, Owns
<1>4. row' = [row EXCEPT ![k] = r] /\ row'[k] = r
  BY <1>1 DEF _settle, Typed, TypeOK
<1>5. KeyInStep(k) /\ row[k].status \notin TERMINAL_STATUSES
  BY <1>1, <1>2 DEF InStep, Owns, Terminal
<1>6. KeyInStep(k)'
  <2>1. ~row[k].untouched /\ (effects[k] # {} => row[k].status = "executing")
    BY <1>1, <1>5 DEF KeyInStep, Past, TERMINAL_STATUSES
  <2>2. effects'[k] = effects[k] /\ row'[k].status = status /\ row'[k].untouched = row[k].untouched
    BY <1>3, <1>4
  <2>3. effects[k] # {} => status \in {"succeeded", "failed", "released"}
    BY <2>1
  <2> QED BY <1>5, <2>1, <2>2, <2>3 DEF KeyInStep, Past, TERMINAL_STATUSES
<1>7. \A a \in 1 .. MaxAttempt : FoundSilent(k, a) => FoundSilent(k, a)'
  <2>1. row[k].attempt \in Int /\ row'[k].attempt \in Int /\ row'[k].attempt >= row[k].attempt
    BY <1>1, <1>3, <1>4 DEF Row
  <2>2. row[k].status \in Past => row'[k].status \in TERMINAL_STATUSES
    BY <1>3, <1>4, <1>5 DEF Past, TERMINAL_STATUSES
  <2> QED BY <1>1, <2>1, <2>2, SilenceLasts
<1>8. new # Gone => /\ new \in Proc /\ new.key = k /\ new.attempt = proc[p].attempt /\ new.at \in {"allowed", "released"}
                    /\ new.at = "allowed" => status = "authorized"
                    /\ new.at = "released" => status = "released" /\ effects[k] = {}
  BY <1>1, Values DEF Proc
<1>9. new # Gone => CallInStep(p)'
  <2>1. proc'[p] = new
    BY DEF Moved, Typed, TypeOK
  <2>2. proc[p].attempt \in Int
    BY <1>1 DEF Proc
  <2> SUFFICES ASSUME new # Gone PROVE CallInStep(p)'
    OBVIOUS
  <2>3. /\ proc'[p].key = k /\ proc'[p].attempt = row'[k].attempt /\ row'[k].status = status /\ effects'[k] = effects[k]
        /\ proc'[p].at \in {"allowed", "released"}
    BY <1>3, <1>4, <1>8, <2>1
  <2>4. OwnerKnows(p)'
    BY <1>8, <2>1, <2>3 DEF OwnerKnows
  <2>5. ExecutesAlone(p)' /\ BeatsInTime(p)'
    BY <1>8, <2>1, <2>3 DEF ExecutesAlone, BeatsInTime
  <2> QED BY <1>8, <2>1, <2>2, <2>3, <2>4, <2>5 DEF CallInStep
<1>10. new # Gone => new.at # "lapsed"
  BY <1>8
<1> QED BY <1>3, <1>4, <1>6, <1>7, <1>8, <1>9, <1>10, OwnerWrites

\* A new attempt, of a key that is nobody's or was taken over before its effect, keeps all in step.
LEMMA AttemptInStep ==
    ASSUME Typed, Typed', Approved, InStep, NEW p \in All, NEW k \in Actions, ~Elsewhere(p, k), NEW attempt \in 1 .. MaxAttempt,
           row' = [row EXCEPT ![k] = Requested(attempt)], NEW tier, Began(p, k, tier, "reserved", "requested", attempt),
           UNCHANGED <<effects, sweep>>,
           \/ ~Exists(k)
           \/ row[k].attempt < attempt /\ row[k].status \in {"requested", "pending", "authorized"}
    PROVE  InStep'
<1> DEFINE new == [at |-> "reserved", key |-> k, tier |-> tier, seen |-> "requested", attempt |-> attempt, code |-> 0, ok |-> FALSE,
                   beater |-> "off"]
<1>1. row'[k] = Requested(attempt) /\ \A j \in Actions : j # k => row'[j] = row[j] /\ effects'[j] = effects[j]
  BY DEF Typed, TypeOK
<1>2. proc'[p] = new /\ \A q \in All : q # p => proc'[q] = proc[q]
  BY DEF Began, Typed, TypeOK
<1>3. /\ row'[k].status = "requested" /\ row'[k].attempt = attempt /\ ~row'[k].untouched
      /\ new.at = "reserved" /\ new.key = k /\ new.attempt = attempt
  BY <1>1 DEF Requested
<1>4. effects[k] = {}
  BY DEF InStep, KeyInStep, Past, TERMINAL_STATUSES, Approved, EffectsHaveRows
<1>5. ASSUME NEW q \in All, q # p, OnKey(q, k)'
      PROVE  /\ OnKey(q, k) /\ proc'[q] = proc[q] /\ proc[q].attempt \in Int /\ proc[q].attempt < attempt
             /\ proc[q].at \notin {"marked", "effect", "ended", "released"}
             /\ Exists(k) /\ row[k].attempt \in Int
  <2>1. OnKey(q, k) /\ proc'[q] = proc[q]
    BY <1>2, <1>5 DEF OnKey
  <2>2. Exists(k) /\ row[k] \in Row /\ proc[q] \in Proc /\ CallInStep(q)
    BY <2>1, InACall DEF OnKey, InStep
  <2>3. row[k].attempt \in Int /\ proc[q].attempt \in Int
    BY <2>2 DEF Row, Proc
  <2>4. proc[q].attempt <= row[k].attempt /\ row[k].attempt < attempt
    BY <2>1, <2>2 DEF CallInStep, OnKey
  <2>5. proc[q].at \notin {"marked", "effect", "ended", "released"}
    BY <2>1, <2>2 DEF CallInStep, ExecutesAlone, OnKey
  <2> QED BY <2>1, <2>2, <2>3, <2>4, <2>5
<1>6. \A q \in All : proc'[q] = proc[q] \/ (~Elsewhere(q, k) /\ ~Elsewhere(q, k)')
  BY <1>2, <1>3 DEF Elsewhere
<1>7. Exists(k) => \A a \in 1 .. MaxAttempt : FoundSilent(k, a) => FoundSilent(k, a)'
  <2>1. ASSUME Exists(k) PROVE /\ row[k].attempt \in Int /\ row[k].attempt < attempt
                               /\ row'[k].attempt \in Int /\ row'[k].attempt >= row[k].attempt /\ row'[k].attempt # row[k].attempt
    BY <1>3, <2>1 DEF Typed, TypeOK, Exists, NoRow, Row
  <2> QED BY <2>1, SilenceLasts
<1>8. ASSUME NEW q \in All, OnKey(q, k)' PROVE CallInStep(q)' /\ TakerIsRight(q)'
  <2>1. CASE q = p
    BY <1>2, <1>3, <2>1 DEF CallInStep, OwnerKnows, ExecutesAlone, BeatsInTime, TakerIsRight
  <2>2. CASE q # p
    <3>1. CallInStep(q)'
      BY <1>3, <1>5, <1>8, <2>2 DEF CallInStep, OwnerKnows, Owns, ExecutesAlone, BeatsInTime, OnKey
    <3>2. TakerIsRight(q) /\ proc[q].attempt \in 1 .. MaxAttempt
      BY <1>5, <1>8, <2>2, InACall DEF InStep, OnKey, Proc
    <3> QED BY <1>5, <1>7, <1>8, <2>2, <3>1, <3>2 DEF TakerIsRight, OnKey
  <2> QED BY <2>1, <2>2
<1>9. ASSUME NEW q \in All, NEW s \in All, OnKey(q, k)', OnKey(s, k)' PROVE Apart(q, s)'
  <2>1. CASE q = p \/ s = p
    BY <1>2, <1>3, <1>5, <1>9, <2>1 DEF Apart
  <2>2. CASE q # p /\ s # p
    BY <1>2, <2>2 DEF InStep, Apart, Engaged
  <2> QED BY <2>1, <2>2
<1>10. KeyInStep(k)'
  BY <1>3, <1>4 DEF KeyInStep
<1> QED BY <1>1, <1>6, <1>7, <1>8, <1>9, <1>10, Confined

\* An action failed or expired by somebody who read it as it is: a taker, or the sweep.
LEMMA FailureInStep ==
    ASSUME Typed, Typed', InStep, NEW k \in Actions, Exists(k), row[k].status \in INFLIGHT,
           NEW r \in Row, row' = [row EXCEPT ![k] = r], r.attempt = row[k].attempt,
           \/ r.status = "failed" /\ (row[k].status = "executing" => ~r.untouched)
           \/ r.status = "expired" /\ row[k].status = "pending",
           \A q \in All : proc'[q] = proc[q] \/ (~Elsewhere(q, k) /\ proc'[q] = Gone),
           UNCHANGED effects, sweep' = sweep \/ sweep' = NoSweep
    PROVE  InStep'
<1>1. row'[k] = r /\ row[k] \in Row /\ \A j \in Actions : j # k => row'[j] = row[j] /\ effects'[j] = effects[j]
  BY DEF Typed, TypeOK, Exists, NoRow
<1>2. ASSUME NEW q \in All, OnKey(q, k)' PROVE OnKey(q, k) /\ proc'[q] = proc[q]
  BY <1>2, Values DEF OnKey, Elsewhere
<1>3. \A a \in 1 .. MaxAttempt : FoundSilent(k, a) => FoundSilent(k, a)'
  <2>1. row[k].attempt \in Int /\ row'[k].attempt \in Int /\ row'[k].attempt >= row[k].attempt
    BY <1>1 DEF Row
  <2>2. row'[k].status \in TERMINAL_STATUSES
    BY <1>1 DEF TERMINAL_STATUSES
  <2> QED BY <2>1, <2>2, SilenceLasts
<1>4. ASSUME NEW q \in All, OnKey(q, k)' PROVE CallInStep(q)' /\ TakerIsRight(q)'
  <2>1. CallInStep(q) /\ TakerIsRight(q) /\ OnKey(q, k) /\ proc'[q] = proc[q]
    BY <1>2, <1>4 DEF InStep, OnKey
  <2>2. r.status \in TERMINAL_STATUSES /\ r.status # "executing"
    BY DEF TERMINAL_STATUSES
  <2>3. OwnerKnows(q)' /\ BeatsInTime(q)'
    BY <1>1, <2>1, <2>2 DEF OwnerKnows, Owns, Terminal, BeatsInTime, Beats, OnKey
  <2>4. ExecutesAlone(q)'
    BY <1>1, <2>1 DEF CallInStep, ExecutesAlone, OnKey, INFLIGHT
  <2>5. CallInStep(q)'
    BY <1>1, <2>1, <2>3, <2>4 DEF CallInStep, OnKey
  <2>6. TakerIsRight(q)'
    <3>1. proc[q].attempt \in 1 .. MaxAttempt
      BY <2>1, InACall DEF OnKey, Proc
    <3> QED BY <1>3, <2>1, <3>1 DEF TakerIsRight, OnKey
  <2> QED BY <2>5, <2>6
<1>5. ASSUME NEW q \in All, NEW s \in All, OnKey(q, k)', OnKey(s, k)' PROVE Apart(q, s)'
  BY <1>2, <1>5 DEF InStep, Apart, Engaged
<1>6. KeyInStep(k)'
  <2>1. KeyInStep(k) /\ effects'[k] = effects[k]
    BY DEF InStep
  <2>2. effects[k] # {} => row[k].status = "executing"
    BY <2>1 DEF KeyInStep, Past, INFLIGHT, TERMINAL_STATUSES
  <2> QED BY <1>1, <2>1, <2>2 DEF KeyInStep, Past, TERMINAL_STATUSES
<1>7. \A q \in All : proc'[q] = proc[q] \/ (~Elsewhere(q, k) /\ ~Elsewhere(q, k)')
  BY Values DEF Elsewhere
<1> QED BY <1>1, <1>3, <1>4, <1>5, <1>6, <1>7, Confined

\* Every step of a call keeps all in step.
LEMMA CallKeepsStep ==
    ASSUME Typed, Typed', Approved, InStep, overrun = {}, overrun' = {}, NEW p \in All, Call(p)
    PROVE  InStep'
<1> DEFINE At(to) == [proc[p] EXCEPT !.at = to]
<1>0. PICK k : k = proc[p].key
  OBVIOUS
<1>a. proc[p].at \in Points =>
        /\ proc[p] \in Proc /\ k \in Actions /\ row[k] \in Row /\ Exists(k) /\ OnKey(p, k) /\ ~Elsewhere(p, k)
        /\ CallInStep(p) /\ OwnerKnows(p) /\ ExecutesAlone(p) /\ KeyInStep(k)
  BY <1>0, InACall DEF OnKey, Elsewhere, InStep, CallInStep
<1>b. proc[p].at \in Points /\ proc[p].at # "lapsed" => Engaged(p)
  BY DEF Engaged
<1>c. Stop(p) => Moved(p, Gone)
  BY DEF Stop, Moved
<1>d. \A to : Move(p, to) => Moved(p, At(to))
  BY DEF Move, Moved
<1>e. ASSUME NEW j \in Actions, ~Elsewhere(p, j), Stop(p), UNCHANGED <<row, effects, sweep>> PROVE InStep'
  BY <1>c, <1>e, OneMoves
<1>f. ASSUME Engaged(p), NEW status \in Statuses, NEW code \in 0 .. MaxCode, _settle(p, status, code), Stop(p),
             UNCHANGED <<effects, sweep>>,
             row[k].status = "executing" => status \in {"succeeded", "failed", "released"},
             status = "succeeded" => effects[k] # {}
      PROVE  InStep'
  BY <1>0, <1>c, <1>f, SettlementInStep
<1>g. ASSUME Owns(p), proc[p].at \in {"reserved", "waiting", "approved"} PROVE row[k].status # "executing"
  BY <1>0, <1>a, <1>g, Values DEF OwnerKnows
<1>h. ASSUME NEW status, NEW code, _settle(p, status, code) PROVE Owns(p)
  BY <1>h DEF _settle, Noted
<1>1. ASSUME NEW j \in Actions, NEW tier \in Tiers, reserve(p, j, tier) PROVE InStep'
  <2>0. ~Elsewhere(p, j) /\ UNCHANGED <<effects, sweep>> /\ proc[p].at = "idle"
    BY <1>1, Values DEF reserve, Elsewhere, Points
  <2>1. CASE ~Exists(j) /\ row' = [row EXCEPT ![j] = Requested(1)] /\ Began(p, j, tier, "reserved", "requested", 1)
    BY <2>0, <2>1, AttemptInStep, Values
  <2>2. CASE Exists(j) /\ Lapsed(j) /\ Began(p, j, tier, "lapsed", row[j].status, row[j].attempt) /\ UNCHANGED row
    <3> DEFINE new == [at |-> "lapsed", key |-> j, tier |-> tier, seen |-> row[j].status, attempt |-> row[j].attempt, code |-> 0,
                       ok |-> FALSE, beater |-> "off"]
    <3>1. row[j] \in Row /\ row[j].attempt \in Int /\ row[j].silence \in Int /\ row[j].silence >= Lease
      BY <2>2 DEF Typed, TypeOK, Exists, NoRow, Row, Lapsed
    <3>2. new \in Proc
      BY <2>2, <3>1, Values DEF Proc, Lapsed, Row
    <3>3. Moved(p, new) /\ proc'[p] = new /\ \A q \in All : q # p => proc'[q] = proc[q]
      BY <2>2 DEF Began, Moved, Typed, TypeOK
    <3>4. CallInStep(p)'
      BY <2>2, <3>1, <3>3 DEF CallInStep, OwnerKnows, ExecutesAlone, BeatsInTime
    <3>5. TakerIsRight(p)'
      <4>1. ASSUME NEW q \in Procs, proc'[q].at \in {"marked", "effect"}, proc'[q].key = j, Beats(q)'
            PROVE  proc'[q].beater # "on"
        <5>1. proc'[q] = proc[q] /\ q \in All /\ proc[q].at \in Points /\ proc[q].key = j
          BY <3>3, <4>1, Values DEF All
        <5>2. Beats(q)
          BY <2>2, <4>1, <5>1 DEF Beats
        <5>3. BeatsInTime(q)
          BY <5>1 DEF InStep, CallInStep
        <5> QED BY <3>1, <4>1, <5>1, <5>2, <5>3, ConstantsAssumption DEF BeatsInTime
      <4>2. row[j].status = "executing" => FoundSilent(j, row[j].attempt)'
        BY <2>2, <3>1, <4>1 DEF FoundSilent, Past
      <4> QED BY <2>2, <3>3, <4>2 DEF TakerIsRight
    <3>6. \A q \in All : Apart(p, q)' /\ Apart(q, p)'
      BY <3>3 DEF Apart, Engaged
    <3> QED BY <2>0, <2>2, <3>2, <3>3, <3>4, <3>5, <3>6, OneMoves
  <2>3. CASE Stop(p) /\ UNCHANGED row
    BY <1>e, <2>0, <2>3
  <2> QED BY <1>1, <2>1, <2>2, <2>3 DEF reserve
<1>2. CASE _resume_or_refuse(p)
  <2>0. /\ proc[p].at = "lapsed" /\ proc[p].at \in Points /\ UNCHANGED <<effects, sweep>>
        /\ k \in Actions /\ ~Elsewhere(p, k) /\ row[k] \in Row /\ Exists(k) /\ proc[p].seen \in INFLIGHT
    BY <1>2, <1>a, Values DEF _resume_or_refuse, Proc
  <2>1. CASE /\ row[k].status = "executing" /\ Stop(p)
             /\ row' = [row EXCEPT ![k].status = "failed"]
    <3> DEFINE r == [row[k] EXCEPT !.status = "failed"]
    <3>1. r \in Row /\ r.attempt = row[k].attempt /\ r.status = "failed" /\ r.untouched = row[k].untouched
      BY <2>0, Values DEF Row, Statuses
    <3>2. ~row[k].untouched
      BY <1>a, <2>0, <2>1 DEF KeyInStep
    <3>3. row' = [row EXCEPT ![k] = r]
      BY <2>1
    <3>4. \A q \in All : proc'[q] = proc[q] \/ (~Elsewhere(q, k) /\ proc'[q] = Gone)
      BY <1>c, <2>0, <2>1 DEF Moved, Typed, TypeOK
    <3> QED BY <2>0, <2>1, <3>1, <3>2, <3>3, <3>4, FailureInStep DEF INFLIGHT
  <2>2. CASE /\ row[k].status = proc[p].seen /\ proc[p].seen # "executing" /\ row[k].attempt < MaxAttempt
             /\ row' = [row EXCEPT ![k] = Requested(@.attempt + 1)]
             /\ Began(p, k, proc[p].tier, "reserved", "requested", row[k].attempt + 1)
    <3>1. row[k].attempt \in Int /\ row[k].attempt + 1 \in 1 .. MaxAttempt /\ row[k].attempt < row[k].attempt + 1
      BY <2>0, <2>2, ConstantsAssumption DEF Row
    <3>2. row[k].status \in {"requested", "pending", "authorized"}
      BY <2>0, <2>2 DEF INFLIGHT
    <3>3. row' = [row EXCEPT ![k] = Requested(row[k].attempt + 1)]
      BY <2>2
    <3> QED BY <2>0, <2>2, <3>1, <3>2, <3>3, AttemptInStep
  <2>3. CASE Stop(p) /\ UNCHANGED row
    BY <1>e, <2>0, <2>3
  <2> QED BY <1>0, <1>2, <2>1, <2>2, <2>3 DEF _resume_or_refuse
<1>3. CASE AuthorizeDirectly(p) \/ AuthorizeUnattributed(p)
  <2>1. proc[p].at = "reserved" /\ Engaged(p) /\ UNCHANGED <<effects, sweep>>
    BY <1>3, <1>b, Values DEF AuthorizeDirectly, AuthorizeUnattributed
  <2>2. CASE _settle(p, "denied", 0) /\ Stop(p)
    BY <1>f, <1>g, <1>h, <2>1, <2>2, Values
  <2>3. CASE _settle(p, "authorized", 0) /\ Move(p, "allowed")
    BY <1>0, <1>d, <1>g, <1>h, <2>1, <2>3, SettlementInStep, Values
  <2> QED BY <1>3, <2>2, <2>3 DEF AuthorizeDirectly, AuthorizeUnattributed
<1>4. ASSUME NEW wait \in BOOLEAN, _file_approval(p, wait) PROVE InStep'
  <2> DEFINE c == Cardinality(Filed) + 1
             r == [row[k] EXCEPT !.status = "pending", !.window = c]
             new == [proc[p] EXCEPT !.at = "waiting", !.code = c]
  <2>1. proc[p].at = "reserved" /\ proc[p].at \in Points /\ Engaged(p) /\ UNCHANGED <<effects, sweep>>
    BY <1>4, <1>b, Values DEF _file_approval
  <2>2. Owns(p) /\ row[k].status = "requested" /\ row[k].attempt = proc[p].attempt
    <3>1. Owns(p)
      BY <1>4 DEF _file_approval, Noted
    <3> QED BY <1>0, <1>a, <2>1, <3>1 DEF Owns, OwnerKnows
  <2>3. row' = [row EXCEPT ![k] = r] /\ row'[k] = r
    BY <1>0, <1>4, <1>a, <2>1 DEF _file_approval, Typed, TypeOK
  <2>4. r \in Row /\ new \in Proc
    <3>1. c \in 0 .. MaxCode
      <4>1. Filed \subseteq 1 .. MaxCode /\ IsFiniteSet(1 .. MaxCode)
        BY FS_Interval, ConstantsAssumption DEF Filed, Codes
      <4>2. Cardinality(Filed) \in Nat
        BY <4>1, FS_Subset, FS_CardinalityType
      <4> QED BY <1>4, <4>2, ConstantsAssumption DEF _file_approval
    <3> QED BY <1>a, <2>1, <3>1, Values DEF Row, Proc, Statuses
  <2>5. /\ r.attempt = row[k].attempt /\ r.status = "pending" /\ r.untouched = row[k].untouched
        /\ new.key = k /\ new.attempt = proc[p].attempt /\ new.at = "waiting"
    BY <1>0, <1>a, <2>1 DEF Row, Proc
  <2>6. PICK new1 \in {new, Gone} : Moved(p, new1)
    BY <1>4, <1>c DEF _file_approval, Moved, Typed, TypeOK
  <2>7. KeyInStep(k)'
    BY <1>a, <2>1, <2>2, <2>3, <2>5 DEF KeyInStep, Past, TERMINAL_STATUSES
  <2>8. \A a \in 1 .. MaxAttempt : FoundSilent(k, a) => FoundSilent(k, a)'
    <3>1. row[k].attempt \in Int /\ row'[k].attempt \in Int /\ row'[k].attempt >= row[k].attempt
      BY <1>a, <2>1, <2>3, <2>5 DEF Row
    <3>2. row[k].status \notin Past
      BY <2>2 DEF Past, TERMINAL_STATUSES
    <3> QED BY <1>a, <2>1, <3>1, <3>2, SilenceLasts
  <2>9. new1 # Gone => CallInStep(p)'
    <3> SUFFICES ASSUME new1 # Gone PROVE CallInStep(p)'
      OBVIOUS
    <3>1. /\ proc'[p].at = "waiting" /\ proc'[p].key = k /\ proc'[p].attempt = row'[k].attempt /\ row'[k].status = "pending"
          /\ row'[k].attempt \in Int
      <4>1. proc'[p] = new
        BY <2>6 DEF Moved, Typed, TypeOK
      <4>2. row[k].attempt \in Int
        BY <1>a, <2>1 DEF Row
      <4> QED BY <2>2, <2>3, <2>5, <4>1, <4>2
    <3> QED BY <3>1 DEF CallInStep, OwnerKnows, ExecutesAlone, BeatsInTime
  <2>10. new1 \in Proc \cup {Gone} /\ (new1 # Gone => new1.key = k /\ new1.attempt = proc[p].attempt /\ new1.at # "lapsed")
    BY <2>4, <2>5
  <2>11. r.attempt = proc[p].attempt
    BY <2>2, <2>5
  <2> QED BY <1>0, <2>1, <2>2, <2>3, <2>4, <2>6, <2>7, <2>8, <2>9, <2>10, <2>11, OwnerWrites
<1>5. CASE PollAnswered(p) \/ PollTimesOut(p)
  <2>1. /\ proc[p].at = "waiting" /\ proc[p].at \in Points /\ Engaged(p) /\ UNCHANGED <<effects, sweep>>
        /\ proc[p].code \in 0 .. MaxCode
    BY <1>5, <1>a, <1>b, Values DEF PollAnswered, PollTimesOut, Proc
  <2>2. CASE Stop(p) /\ \E status \in {"denied", "expired"} : _settle(p, status, proc[p].code)
    BY <1>f, <1>g, <1>h, <2>1, <2>2, Values
  <2>3. CASE Move(p, "approved") /\ UNCHANGED row
    <3>1. /\ Moved(p, At("approved")) /\ proc'[p] = At("approved") /\ At("approved") \in Proc
          /\ proc'[p].at = "approved" /\ proc'[p].key = k /\ proc'[p].attempt = proc[p].attempt
      BY <1>0, <1>a, <1>d, <2>1, <2>3, Values DEF Moved, Typed, TypeOK, Proc
    <3>2. Owns(p)' => Owns(p)
      BY <1>0, <2>3, <3>1 DEF Owns, Terminal
    <3>3. CallInStep(p)'
      BY <1>0, <1>a, <2>1, <2>3, <3>1, <3>2 DEF CallInStep, OwnerKnows, ExecutesAlone, BeatsInTime
    <3>4. \A q \in All : Apart(p, q)' /\ Apart(q, p)'
      BY <1>0, <2>1, <2>3, <3>1 DEF InStep, Apart, Engaged, Moved, Typed, TypeOK
    <3>5. TakerIsRight(p)'
      BY <3>1 DEF TakerIsRight
    <3> QED BY <1>a, <2>1, <2>3, <3>1, <3>3, <3>4, <3>5, OneMoves
  <2> QED BY <1>5, <2>2, <2>3 DEF PollAnswered, PollTimesOut
<1>6. CASE consume_approval(p)
  <2>1. /\ proc[p].at = "approved" /\ proc[p].at \in Points /\ Engaged(p) /\ UNCHANGED <<effects, sweep>>
        /\ proc[p].code \in 0 .. MaxCode
    BY <1>6, <1>a, <1>b, Values DEF consume_approval, Proc
  <2>2. CASE Stop(p) /\ \E status \in {"denied", "expired"} : _settle(p, status, 0)
    BY <1>f, <1>g, <1>h, <2>1, <2>2, Values
  <2>3. CASE _settle(p, "authorized", proc[p].code) /\ Move(p, "allowed")
    BY <1>0, <1>d, <1>g, <1>h, <2>1, <2>3, SettlementInStep, Values
  <2> QED BY <1>6, <2>2, <2>3 DEF consume_approval
<1>7. CASE mark_executing(p)
  <2> DEFINE new == [proc[p] EXCEPT !.at = "marked", !.attempt = row[k].attempt,
                                    !.beater = IF p \in Gates THEN "off" ELSE "on"]
             r == [row[k] EXCEPT !.status = "executing", !.silence = 0]
  <2>1. proc[p].at = "allowed" /\ proc[p].at \in Points /\ Engaged(p) /\ UNCHANGED <<effects, sweep>>
    BY <1>7, <1>b, Values DEF mark_executing
  <2>2. row[k].status = "authorized" /\ row[k].attempt = proc[p].attempt
    <3>1. Owns(p)
      BY <1>7 DEF mark_executing, Noted
    <3> QED BY <1>0, <1>a, <2>1, <3>1 DEF Owns, OwnerKnows
  <2>3. row' = [row EXCEPT ![k] = r] /\ row'[k] = r /\ Moved(p, new)
    BY <1>0, <1>7, <1>a, <2>1 DEF mark_executing, Moved, Typed, TypeOK
  <2>4. r \in Row /\ new \in Proc
    BY <1>a, <2>1, Values DEF Row, Proc, Statuses
  <2>5. /\ r.attempt = row[k].attempt /\ r.status = "executing" /\ r.untouched = row[k].untouched /\ r.silence = 0
        /\ new.key = k /\ new.attempt = row[k].attempt /\ new.at = "marked"
    BY <1>0, <1>a, <2>1 DEF Row, Proc
  <2>6. effects[k] = {} /\ ~row[k].untouched
    BY <1>a, <2>1, <2>2 DEF KeyInStep, Past, TERMINAL_STATUSES
  <2>7. KeyInStep(k)'
    BY <2>1, <2>3, <2>5, <2>6 DEF KeyInStep
  <2>8. \A a \in 1 .. MaxAttempt : FoundSilent(k, a) => FoundSilent(k, a)'
    <3>1. row[k].attempt \in Int /\ row'[k].attempt \in Int /\ row'[k].attempt >= row[k].attempt
      BY <1>a, <2>1, <2>3, <2>5 DEF Row
    <3>2. row[k].status \notin Past
      BY <2>2 DEF Past, TERMINAL_STATUSES
    <3> QED BY <1>a, <2>1, <3>1, <3>2, SilenceLasts
  <2>9. CallInStep(p)'
    <3>1. /\ proc'[p].at = "marked" /\ proc'[p].key = k /\ proc'[p].attempt = row'[k].attempt /\ row'[k].status = "executing"
          /\ row'[k].attempt \in Int /\ row'[k].silence < Lease /\ effects'[k] = {}
      BY <1>a, <2>1, <2>2, <2>3, <2>5, <2>6, ConstantsAssumption DEF Moved, Typed, TypeOK, Row
    <3> QED BY <3>1 DEF CallInStep, OwnerKnows, ExecutesAlone, BeatsInTime
  <2>10. r.attempt = proc[p].attempt /\ new.attempt = proc[p].attempt /\ new.at # "lapsed"
    BY <2>2, <2>5
  <2> QED BY <1>0, <2>1, <2>2, <2>3, <2>4, <2>5, <2>7, <2>8, <2>9, <2>10, OwnerWrites
<1>8. CASE EffectStarts(p)
  <2>1. /\ proc[p].at = "marked" /\ proc[p].at \in Points /\ Engaged(p) /\ UNCHANGED <<row, sweep>>
        /\ Performs(p) /\ Move(p, "effect")
    BY <1>8, <1>b, Values DEF EffectStarts
  <2>2. /\ Moved(p, At("effect")) /\ proc'[p] = At("effect") /\ At("effect") \in Proc
        /\ At("effect").at = "effect" /\ At("effect").key = k /\ At("effect").attempt = proc[p].attempt
        /\ At("effect").beater = proc[p].beater
    BY <1>0, <1>a, <1>d, <2>1, Values DEF Moved, Typed, TypeOK, Proc
  <2>3. /\ row[k].attempt = proc[p].attempt /\ effects[k] = {}
        /\ row[k].status = "executing" \/ (row[k].status = "failed" /\ ~row[k].untouched)
    BY <1>0, <1>a, <2>1 DEF ExecutesAlone
  <2>4. effects'[k] = {<<p, proc[p].tier, proc[p].code>>} /\ \A j \in Actions : j # k => effects'[j] = effects[j]
    BY <1>0, <1>a, <2>1, <2>3 DEF Performs, Typed, TypeOK
  <2>5. KeyInStep(k)'
    BY <1>a, <2>1, <2>3, <2>4 DEF KeyInStep, Past, TERMINAL_STATUSES
  <2>6. \A a \in 1 .. MaxAttempt : FoundSilent(k, a) => FoundSilent(k, a)'
    <3>1. ASSUME NEW q \in Procs, proc'[q].at \in {"marked", "effect"}
          PROVE  /\ proc[q].at \in {"marked", "effect"} /\ proc[q].key = proc'[q].key /\ proc[q].beater = proc'[q].beater
                 /\ proc[q].attempt = proc'[q].attempt
      BY <1>0, <2>1, <2>2, <3>1 DEF Moved, Typed, TypeOK, All
    <3> QED BY <2>1, <3>1 DEF FoundSilent, Beats
  <2>7. CallInStep(p)'
    <3>1. BeatsInTime(p)'
      BY <1>0, <1>a, <2>1, <2>2 DEF CallInStep, BeatsInTime, Beats
    <3>2. ExecutesAlone(p)'
      BY <2>1, <2>2, <2>3, <2>4 DEF ExecutesAlone
    <3>3. OwnerKnows(p)'
      BY <2>2 DEF OwnerKnows
    <3> QED BY <1>0, <1>a, <2>1, <2>2, <3>1, <3>2, <3>3 DEF CallInStep
  <2>8. row' = [row EXCEPT ![k] = row[k]] /\ row[k] \in Row
    BY <1>a, <2>1 DEF Typed, TypeOK
  <2> QED BY <1>0, <2>1, <2>2, <2>3, <2>4, <2>5, <2>6, <2>7, <2>8, OwnerWrites
<1>9. ASSUME NEW ok \in BOOLEAN, EffectEnds(p, ok) PROVE InStep'
  <2> DEFINE new == [proc[p] EXCEPT !.at = "ended", !.ok = ok, !.beater = "off"]
  <2>1. /\ proc[p].at = "effect" /\ proc[p].at \in Points /\ UNCHANGED <<row, effects, sweep>>
        /\ Moved(p, new) /\ proc'[p] = new
    BY <1>9, Values DEF EffectEnds, Moved, Typed, TypeOK
  <2>2. new \in Proc /\ new.at = "ended" /\ new.key = k /\ new.attempt = proc[p].attempt
    BY <1>0, <1>a, <2>1, Values DEF Proc
  <2>3. CallInStep(p)'
    BY <1>0, <1>a, <2>1, <2>2 DEF CallInStep, OwnerKnows, ExecutesAlone, BeatsInTime
  <2>4. \A q \in All : Apart(p, q)' /\ Apart(q, p)'
    BY <1>0, <2>1, <2>2 DEF InStep, Apart, Engaged, Moved, Typed, TypeOK
  <2>5. TakerIsRight(p)'
    BY <2>1, <2>2 DEF TakerIsRight
  <2> QED BY <1>a, <2>1, <2>2, <2>3, <2>4, <2>5, OneMoves
<1>10. CASE complete(p)
  <2>1. /\ proc[p].at = "ended" /\ proc[p].at \in Points /\ Engaged(p) /\ UNCHANGED <<effects, sweep>> /\ Stop(p)
        /\ \E status \in {"succeeded", "failed"} : _settle(p, status, 0)
    BY <1>10, <1>b, Values DEF complete
  <2>2. effects[k] # {}
    BY <1>0, <1>a, <2>1 DEF ExecutesAlone
  <2> QED BY <1>f, <2>1, <2>2, Values
<1>11. CASE release_for_handoff(p)
  <2>1. /\ proc[p].at = "marked" /\ proc[p].at \in Points /\ Engaged(p) /\ UNCHANGED <<effects, sweep>>
        /\ _settle(p, "released", 0) /\ Move(p, "released")
    BY <1>11, <1>b, Values DEF release_for_handoff
  <2>2. effects[k] = {}
    BY <1>0, <1>a, <2>1 DEF ExecutesAlone
  <2> QED BY <1>0, <1>d, <2>1, <2>2, SettlementInStep, Values
<1>12. CASE Execv(p)
  <2>1. /\ proc[p].at = "released" /\ proc[p].at \in Points /\ Engaged(p) /\ UNCHANGED sweep /\ Moved(p, Gone)
    BY <1>12, <1>b, <1>c, Values DEF Execv
  <2>2. row[k].attempt = proc[p].attempt /\ effects[k] = {} /\ row[k].status = "released"
    BY <1>0, <1>a, <2>1 DEF ExecutesAlone
  <2>3. ~row[k].untouched
    BY <1>a, <2>1, <2>2 DEF KeyInStep
  <2> DEFINE r == [row[k] EXCEPT !.status = "failed"]
  <2>4. r \in Row /\ r.attempt = row[k].attempt /\ r.status = "failed" /\ r.untouched = row[k].untouched
    BY <1>a, <2>1, Values DEF Row, Statuses
  <2>5. PICK s \in {r, row[k]} : row' = [row EXCEPT ![k] = s] /\ row'[k] = s
    BY <1>0, <1>12, <1>a, <2>1 DEF Execv, Typed, TypeOK
  <2>6. /\ s \in Row /\ s.attempt = row[k].attempt /\ s.status \in {"failed", "released"} /\ ~s.untouched
    BY <1>a, <2>1, <2>2, <2>3, <2>4, <2>5
  <2>7. effects'[k] \in {{}, {<<p, proc[p].tier, proc[p].code>>}} /\ \A j \in Actions : j # k => effects'[j] = effects[j]
    BY <1>0, <1>12, <1>a, <2>1, <2>2 DEF Execv, Performs, Typed, TypeOK
  <2>8. KeyInStep(k)'
    BY <2>5, <2>6, <2>7 DEF KeyInStep, Past, TERMINAL_STATUSES
  <2>9. \A a \in 1 .. MaxAttempt : FoundSilent(k, a) => FoundSilent(k, a)'
    <3>1. row[k].attempt \in Int /\ row'[k].attempt \in Int /\ row'[k].attempt >= row[k].attempt
      BY <1>a, <2>1, <2>5, <2>6 DEF Row
    <3>2. row'[k].status \in TERMINAL_STATUSES
      BY <2>5, <2>6 DEF TERMINAL_STATUSES
    <3> QED BY <1>a, <2>1, <3>1, <3>2, SilenceLasts
  <2>10. s.attempt = proc[p].attempt
    BY <2>2, <2>6
  <2> QED BY <1>0, <2>1, <2>2, <2>5, <2>6, <2>7, <2>8, <2>9, <2>10, OwnerWrites
<1> QED
  BY <1>1, <1>2, <1>3, <1>4, <1>5, <1>6, <1>7, <1>8, <1>9, <1>10, <1>11, <1>12 DEF Call

\* The heartbeat, the answers, the sweep and the clock keep all in step.
LEMMA StepKeepsStep ==
    ASSUME Typed, Typed', Approved, InStep, overrun = {}, overrun' = {}, Next
    PROVE  InStep'
<1>1. ASSUME NEW p \in All, Call(p) PROVE InStep'
  BY <1>1, CallKeepsStep
<1>2. ASSUME NEW p \in All, proc[p].at \in Points, heartbeat(p) \/ BeaterStalls(p) \/ Crash(p) PROVE InStep'
  <2>0. PICK k \in Actions : k = proc[p].key
    BY <1>2, InACall
  <2> DEFINE New(beater) == [proc[p] EXCEPT !.beater = beater]
             r == [row[k] EXCEPT !.silence = 0]
  <2>1. /\ proc[p] \in Proc /\ row[k] \in Row /\ Exists(k) /\ ~Elsewhere(p, k) /\ UNCHANGED <<effects, sweep>>
        /\ CallInStep(p) /\ TakerIsRight(p) /\ KeyInStep(k)
    BY <1>2, <2>0, InACall DEF InStep, Elsewhere, heartbeat, BeaterStalls, Crash
  <2>2. ASSUME NEW beater \in {"off", "late"}, UNCHANGED row, Moved(p, New(beater)) PROVE InStep'
    <3>1. /\ New(beater) \in Proc /\ proc'[p] = New(beater) /\ proc'[p].at = proc[p].at /\ proc'[p].key = k
          /\ proc'[p].attempt = proc[p].attempt /\ proc'[p].seen = proc[p].seen /\ proc'[p].beater # "on"
      BY <2>0, <2>1, <2>2 DEF Moved, Typed, TypeOK, Proc
    <3>2. CallInStep(p)'
      BY <2>0, <2>1, <2>2, <3>1 DEF CallInStep, OwnerKnows, Owns, Terminal, ExecutesAlone, BeatsInTime
    <3>3. TakerIsRight(p)'
      <4>1. \A a : FoundSilent(k, a) => FoundSilent(k, a)'
        BY <2>0, <2>2, <3>1 DEF FoundSilent, Beats, Moved, Typed, TypeOK, All
      <4> QED BY <2>0, <2>1, <3>1, <4>1 DEF TakerIsRight
    <3>4. \A q \in All : Apart(p, q)' /\ Apart(q, p)'
      BY <2>0, <2>2, <3>1 DEF InStep, Apart, Engaged, Moved, Typed, TypeOK
    <3> QED BY <2>0, <2>1, <2>2, <3>1, <3>2, <3>3, <3>4, OneMoves
  <2>3. CASE heartbeat(p) /\ Beats(p) /\ row' = [row EXCEPT ![k].silence = 0] /\ UNCHANGED proc
    <3>0. row' = [row EXCEPT ![k] = r] /\ row'[k] = r /\ \A j \in Actions : j # k => row'[j] = row[j]
      BY <2>3 DEF Typed, TypeOK
    <3>1. r.attempt = row[k].attempt /\ r.status = row[k].status /\ r.untouched = row[k].untouched /\ r.silence = 0
      BY <2>1 DEF Row
    <3>2. \A a \in 1 .. MaxAttempt : FoundSilent(k, a) => FoundSilent(k, a)'
      BY <2>0, <2>1, <2>3, <3>0, <3>1 DEF FoundSilent, Beats
    <3>3. ASSUME NEW q \in All, OnKey(q, k)' PROVE CallInStep(q)' /\ TakerIsRight(q)'
      <4>1. CallInStep(q) /\ TakerIsRight(q) /\ OnKey(q, k) /\ proc'[q] = proc[q] /\ proc[q].attempt \in 1 .. MaxAttempt
        BY <2>3, <3>3, InACall DEF InStep, OnKey, Proc
      <4>a. /\ row'[k].attempt = row[k].attempt /\ row'[k].status = row[k].status
            /\ row'[k].untouched = row[k].untouched /\ row'[k].silence = 0 /\ effects' = effects
            /\ proc[q].key = k
        BY <2>1, <3>0, <3>1, <4>1 DEF OnKey
      <4>b. OwnerKnows(q)' /\ ExecutesAlone(q)'
        BY <4>1, <4>a DEF CallInStep, OwnerKnows, Owns, Terminal, ExecutesAlone
      <4>c. BeatsInTime(q)'
        BY <4>1, <4>a, ConstantsAssumption DEF BeatsInTime
      <4>2. CallInStep(q)'
        BY <4>1, <4>a, <4>b, <4>c DEF CallInStep
      <4> QED BY <3>2, <4>1, <4>2 DEF TakerIsRight, OnKey
    <3>4. \A q, s \in All : Apart(q, s)'
      BY <2>3 DEF InStep, Apart, Engaged
    <3>5. KeyInStep(k)'
      BY <2>1, <3>0, <3>1 DEF KeyInStep, Exists
    <3> QED BY <2>1, <2>3, <3>0, <3>2, <3>3, <3>4, <3>5, Confined
  <2>4. CASE Moved(p, Gone) /\ UNCHANGED row
    BY <2>1, <2>4, OneMoves
  <2> QED BY <1>2, <2>0, <2>2, <2>3, <2>4 DEF heartbeat, BeaterStalls, Crash, Stop, Moved
<1>3. ASSUME UNCHANGED <<row, proc, effects>>, SweepIsRight' PROVE InStep'
  <2>1. \A k, a : FoundSilent(k, a) => FoundSilent(k, a)'
    BY <1>3 DEF FoundSilent, Beats
  <2>2. \A p \in All : CallInStep(p) => CallInStep(p)'
    BY <1>3 DEF CallInStep, OwnerKnows, Owns, Terminal, ExecutesAlone, BeatsInTime, Beats
  <2>3. \A p \in All : TakerIsRight(p) => TakerIsRight(p)'
    BY <1>3, <2>1 DEF TakerIsRight
  <2>4. \A p, q \in All : Apart(p, q) => Apart(p, q)'
    BY <1>3 DEF Apart, Engaged
  <2>5. \A k \in Actions : KeyInStep(k) => KeyInStep(k)'
    BY <1>3 DEF KeyInStep, Exists
  <2> QED BY <1>3, <2>2, <2>3, <2>4, <2>5 DEF InStep
<1>4. ASSUME NEW h \in People, Answer(h) PROVE InStep'
  <2>1. UNCHANGED <<row, proc, effects, sweep>>
    BY <1>4 DEF Answer, ReadAsk, resolve_decision
  <2>2. SweepIsRight'
    BY <2>1 DEF InStep, SweepIsRight, FoundSilent, Beats
  <2> QED BY <1>3, <2>1, <2>2
<1>5. ASSUME NEW k \in Actions, SweepReads(k) PROVE InStep'
  <2>1. /\ UNCHANGED <<row, proc, effects>> /\ Exists(k) /\ sweep'.key = k /\ sweep'.status = row[k].status
        /\ sweep'.attempt = row[k].attempt
    BY <1>5 DEF SweepReads
  <2>2. ASSUME row[k].status = "executing" PROVE FoundSilent(k, row[k].attempt)'
    <3>1. row[k].attempt \in Int /\ row[k].silence \in Int /\ row[k].silence >= Lease
      BY <1>5, <2>1, <2>2 DEF SweepReads, Lapsed, WindowClosed, Typed, TypeOK, Exists, NoRow, Row
    <3>2. ASSUME NEW q \in Procs, proc[q].at \in {"marked", "effect"}, proc[q].key = k, Beats(q)
          PROVE  proc[q].beater # "on"
      <4>1. BeatsInTime(q)
        BY <3>2, Values DEF InStep, CallInStep, All
      <4> QED BY <3>1, <3>2, <4>1, ConstantsAssumption DEF BeatsInTime
    <3>3. FoundSilent(k, row[k].attempt)
      BY <2>2, <3>1, <3>2 DEF FoundSilent, Past
    <3> QED BY <2>1, <3>3 DEF FoundSilent, Beats
  <2>3. SweepIsRight'
    BY <2>1, <2>2 DEF SweepIsRight
  <2> QED BY <1>3, <2>1, <2>3
<1>6. CASE expire_stale_pending
  <2>0. PICK k : k = sweep.key
    OBVIOUS
  <2> DEFINE r == [row[k] EXCEPT !.status = sweep.to, !.untouched = sweep.status # "executing"]
  <2>1. /\ k \in Actions /\ Exists(k) /\ row[k] \in Row /\ sweep' = NoSweep /\ UNCHANGED <<proc, effects>>
        /\ sweep.status \in INFLIGHT /\ sweep.to \in {"failed", "expired"}
        /\ sweep.to = "expired" => sweep.status = "pending"
    BY <1>6, <2>0 DEF expire_stale_pending, Typed, TypeOK, SweepIsApt, Exists, NoRow
  <2>2. CASE UNCHANGED row
    BY <1>3, <2>1, <2>2 DEF SweepIsRight
  <2>3. CASE SameAsRead /\ row' = [row EXCEPT ![k] = r]
    <3>1. r \in Row /\ r.attempt = row[k].attempt /\ r.status = sweep.to /\ r.untouched = (sweep.status # "executing")
      BY <2>1, Values DEF Row, Statuses
    <3>2. row[k].status = sweep.status
      BY <2>0, <2>3 DEF SameAsRead
    <3>3. \/ r.status = "failed" /\ (row[k].status = "executing" => ~r.untouched)
          \/ r.status = "expired" /\ row[k].status = "pending"
      BY <2>1, <3>1, <3>2
    <3> QED BY <2>1, <2>3, <3>1, <3>2, <3>3, FailureInStep
  <2> QED BY <1>6, <2>0, <2>2, <2>3 DEF expire_stale_pending
<1>7. CASE Tick
  <2>1. UNCHANGED <<proc, sweep, effects>>
    BY <1>7 DEF Tick
  <2>2. \A k \in Actions : /\ row'[k].status = row[k].status /\ row'[k].attempt = row[k].attempt
                           /\ row'[k].untouched = row[k].untouched
    BY <1>7, Values DEF Tick, Older, Typed, TypeOK, Row, NoRow
  <2>3. ASSUME NEW k \in Actions, NEW a, FoundSilent(k, a) PROVE FoundSilent(k, a)'
    <3>1. \A q \in Procs : proc[q].key = k => (Beats(q)' => Beats(q))
      BY <2>1, <2>2 DEF Beats
    <3> QED BY <2>1, <2>2, <2>3, <3>1 DEF FoundSilent
  <2>4. ASSUME NEW p \in All, proc[p].at \in Points PROVE CallInStep(p)' /\ TakerIsRight(p)'
    <3>1. CallInStep(p) /\ TakerIsRight(p) /\ proc[p].key \in Actions
      BY <2>4, InACall DEF InStep
    <3>2. BeatsInTime(p)'
      <4> SUFFICES ASSUME p \in Procs, proc[p].at \in {"marked", "effect"}, Beats(p)', proc[p].beater = "on"
                   PROVE  row'[proc[p].key].silence < Lease
        BY <2>1 DEF BeatsInTime
      <4>1. Beats(p)
        BY <2>1, <2>2, <3>1 DEF Beats
      <4>2. row[proc[p].key].silence + 1 < Lease
        BY <1>7, <2>4, <4>1 DEF Tick
      <4>3. row[proc[p].key] \in Row /\ row[proc[p].key].silence \in Int
        BY <2>4, InACall DEF Row
      <4>4. row'[proc[p].key].silence \in {row[proc[p].key].silence, row[proc[p].key].silence + 1}
        BY <1>7, <3>1, <4>3 DEF Tick, Older, Row
      <4> QED BY <4>2, <4>3, <4>4, ConstantsAssumption
    <3>3. CallInStep(p)'
      BY <2>1, <2>2, <3>1, <3>2 DEF CallInStep, OwnerKnows, Owns, Terminal, ExecutesAlone
    <3>4. TakerIsRight(p)'
      BY <2>1, <2>3, <3>1 DEF TakerIsRight
    <3> QED BY <3>3, <3>4
  <2>5. \A p, q \in All : Apart(p, q)'
    BY <2>1 DEF InStep, Apart, Engaged
  <2>6. \A k \in Actions : KeyInStep(k)'
    BY <2>1, <2>2 DEF InStep, KeyInStep, Exists
  <2>7. SweepIsRight'
    BY <2>1, <2>3 DEF InStep, SweepIsRight, Typed, TypeOK
  <2> QED BY <2>1, <2>4, <2>5, <2>6, <2>7 DEF InStep
<1> QED BY <1>1, <1>2, <1>4, <1>5, <1>6, <1>7 DEF Next, Beating, Sweep, Crash

-----------------------------------------------------------------------------
(* The invariant and what follows from it.                                 *)

\* Who wrote on an action it had lost is remembered.
LEMMA OverrunsAreKept ==
    ASSUME Next
    PROVE  overrun \subseteq overrun'
<1>1. ASSUME NEW p \in All, Call(p) PROVE overrun \subseteq overrun'
  <2>1. SUFFICES Noted(p) \/ overrun' = overrun
    BY Zenon DEF Noted
  <2>2. ASSUME NEW status, NEW code, _settle(p, status, code) PROVE Noted(p)
    BY <2>2, Zenon DEF _settle
  <2>3. ASSUME NEW k, NEW tier, reserve(p, k, tier) PROVE overrun' = overrun
    BY <2>3, Zenon DEF reserve
  <2>4. _resume_or_refuse(p) => overrun' = overrun
    BY Zenon DEF _resume_or_refuse
  <2>5. AuthorizeDirectly(p) => Noted(p)
    BY <2>2, Zenon DEF AuthorizeDirectly
  <2>6. AuthorizeUnattributed(p) => Noted(p)
    BY <2>2, Zenon DEF AuthorizeUnattributed
  <2>7. ASSUME NEW wait, _file_approval(p, wait) PROVE Noted(p)
    BY <2>7, Zenon DEF _file_approval
  <2>8. PollAnswered(p) => Noted(p) \/ overrun' = overrun
    BY <2>2, Zenon DEF PollAnswered
  <2>9. PollTimesOut(p) => Noted(p)
    BY <2>2, Zenon DEF PollTimesOut
  <2>10. consume_approval(p) => Noted(p) \/ overrun' = overrun
    BY <2>2, Zenon DEF consume_approval
  <2>11. mark_executing(p) => Noted(p)
    BY Zenon DEF mark_executing
  <2>12. EffectStarts(p) => overrun' = overrun
    BY Zenon DEF EffectStarts
  <2>13. ASSUME NEW ok, EffectEnds(p, ok) PROVE overrun' = overrun
    BY <2>13, Zenon DEF EffectEnds
  <2>14. complete(p) \/ release_for_handoff(p) => Noted(p) \/ overrun' = overrun
    BY <2>2, Zenon DEF complete, release_for_handoff
  <2>15. Execv(p) => overrun' = overrun
    BY Zenon DEF Execv
  <2> QED
    BY <1>1, <2>3, <2>4, <2>5, <2>6, <2>7, <2>8, <2>9, <2>10, <2>11, <2>12, <2>13, <2>14, <2>15,
       Zenon DEF Call
<1>2. ASSUME NEW p \in All, Beating(p) \/ Crash(p) PROVE overrun \subseteq overrun'
  <2>1. overrun' = overrun
    BY <1>2, Zenon DEF Beating, heartbeat, BeaterStalls, Crash
  <2> QED BY <2>1
<1>3. ASSUME NEW h \in People, Answer(h) PROVE overrun \subseteq overrun'
  <2>1. overrun' = overrun
    BY <1>3, Zenon DEF Answer, ReadAsk, resolve_decision
  <2> QED BY <2>1
<1>4. CASE Sweep \/ Tick
  <2>1. overrun' = overrun
    BY <1>4, Zenon DEF Sweep, SweepReads, expire_stale_pending, Tick
  <2> QED BY <2>1
<1> QED BY <1>1, <1>2, <1>3, <1>4 DEF Next

\* It holds when nothing was asked for yet.
LEMMA InitInSync ==
    ASSUME Init
    PROVE  IInv
<1>1. Filed = {} /\ Filed = 1 .. 0
  BY DEF Init, Filed, NoAsk
<1>2. Typed
  BY <1>1, Values DEF Init, Typed, TypeOK, CallsHaveRows, SweepIsApt, ReadersHaveAsks
<1>3. Approved
  BY <1>1, Values DEF Init, Approved, CodesInOrder, ApprovalsAreGranted, CallsAreApproved, CallIsApproved,
                      EffectsHaveRows, EffectIsApproved, Idle
<1>4. InStep
  BY Values DEF Init, InStep, Apart, Engaged, KeyInStep, Exists, NoRow, SweepIsRight, Idle
<1> QED BY <1>2, <1>3, <1>4 DEF IInv

\* Every step keeps it.
LEMMA StepInSync ==
    ASSUME IInv, [Next]_vars
    PROVE  IInv'
<1>1. CASE Next
  <2>1. Typed'
    BY <1>1, StepKeepsTypes DEF IInv
  <2>2. Approved'
    BY <1>1, <2>1, StepKeepsApproval DEF IInv
  <2>3. ASSUME overrun' = {} PROVE InStep'
    <3>1. overrun = {}
      BY <1>1, <2>3, OverrunsAreKept
    <3> QED BY <1>1, <2>1, <2>3, <3>1, StepKeepsStep DEF IInv
  <2> QED BY <2>1, <2>2, <2>3 DEF IInv
<1>2. CASE UNCHANGED vars
  <2>1. Typed'
    BY <1>2 DEF vars, IInv, Typed, TypeOK, CallsHaveRows, SweepIsApt, ReadersHaveAsks, Exists, Filed
  <2>2. Approved'
    BY <1>2 DEF vars, IInv, Approved, CodesInOrder, ApprovalsAreGranted, CallsAreApproved, CallIsApproved, Asked,
                EffectsHaveRows, EffectIsApproved, Exists, Filed
  <2>3. InStep => InStep'
    BY <1>2 DEF vars, InStep, CallInStep, TakerIsRight, OwnerKnows, Owns, Terminal, ExecutesAlone, BeatsInTime, Beats,
                FoundSilent, Apart, Engaged, KeyInStep, SweepIsRight, Exists
  <2> QED BY <1>2, <2>1, <2>2, <2>3 DEF vars, IInv
<1> QED BY <1>1, <1>2

\* Everything these proofs know of the state holds of every state: types, the approval
\* behind each call and effect and, short of an overrun, who works on which attempt.
THEOREM IInvHolds == Spec => []IInv
<1>1. Init => IInv
  BY InitInSync
<1>2. IInv /\ [Next]_vars => IInv'
  BY StepInSync
<1> QED BY <1>1, <1>2, PTL DEF Spec

\* Guarantees 2, 4 and 5 of govern at once: an outward effect was granted by a person on the
\* ask its process filed; and unless a process wrote on an action it had lost, a key has at
\* most one effect and its row tells what happened.
THEOREM EffectsHold == Spec => []EffectsAreSound
<1>1. IInv => EffectsAreSound
  <2> SUFFICES ASSUME IInv PROVE EffectsAreSound
    OBVIOUS
  <2>1. TypeOK /\ EffectIsApproved
    BY DEF IInv, Typed, Approved
  <2>2. ASSUME overrun = {}, NEW k \in Actions PROVE Cardinality(effects[k]) <= 1
    <3>1. \A e, f \in effects[k] : e = f
      BY <2>2 DEF IInv, InStep, KeyInStep
    <3>2. CASE effects[k] = {}
      BY <3>2, FS_EmptySet
    <3>3. CASE effects[k] # {}
      <4>1. PICK e \in effects[k] : effects[k] = {e}
        BY <3>1, <3>3
      <4>2. Cardinality({e}) = 1
        BY FS_Singleton
      <4> QED BY <4>1, <4>2
    <3> QED BY <3>2, <3>3
  <2>3. OneEffectUnlessOverrun
    BY <2>2 DEF OneEffectUnlessOverrun, EffectOnce
  <2>4. RecordIsTrue
    BY DEF IInv, InStep, KeyInStep, RecordIsTrue
  <2> QED BY <2>1, <2>3, <2>4 DEF EffectsAreSound
<1> QED BY <1>1, IInvHolds, PTL

-----------------------------------------------------------------------------
(* What a step may do to a row.                                            *)

\* Short of an overrun, a call changes the status of a row it finds only as the owner of its
\* attempt, as one who takes over what it has read, or when the handoff of its gate failed.
LEMMA WhoWrites ==
    ASSUME Typed, InStep, overrun' = {}, NEW q \in All, Call(q),
           NEW k \in Actions, Exists(k), row'[k].status # row[k].status
    PROVE  /\ proc[q].key = k
           /\ \/ proc[q].at \in Points \ {"lapsed", "effect"} /\ Owns(q) /\ (proc[q].at = "marked" => q \in Gates)
              \/ /\ proc[q].at = "lapsed"
                 /\ row[k].status = proc[q].seen /\ row[k].attempt = proc[q].attempt
              \/ row[k].status = "released" /\ row'[k].status = "failed"
<1>1. row \in [Actions -> Row \cup {NoRow}]
  BY DEF Typed, TypeOK
<1>2. Noted(q) => Owns(q)
  BY DEF Noted
<1>3. ASSUME NEW j \in Actions, NEW tier \in Tiers, reserve(q, j, tier) PROVE FALSE
  BY <1>1, <1>3 DEF reserve, Exists
<1>4. CASE _resume_or_refuse(q)
  BY <1>1, <1>4 DEF _resume_or_refuse
<1>5. ASSUME NEW status, NEW code, _settle(q, status, code) PROVE proc[q].key = k /\ Owns(q)
  BY <1>1, <1>2, <1>5 DEF _settle
<1>6. CASE AuthorizeDirectly(q) \/ AuthorizeUnattributed(q)
  BY <1>5, <1>6, Values DEF AuthorizeDirectly, AuthorizeUnattributed
<1>7. ASSUME NEW wait \in BOOLEAN, _file_approval(q, wait)
      PROVE  proc[q].at \in Points \ {"lapsed", "marked", "effect"} /\ proc[q].key = k /\ Owns(q)
  BY <1>1, <1>2, <1>7, Values DEF _file_approval
<1>8. CASE PollAnswered(q) \/ PollTimesOut(q)
  BY <1>5, <1>8, Values DEF PollAnswered, PollTimesOut
<1>9. CASE consume_approval(q)
  BY <1>5, <1>9, Values DEF consume_approval
<1>10. CASE mark_executing(q)
  BY <1>1, <1>2, <1>10, Values DEF mark_executing
<1>11. CASE EffectStarts(q) \/ \E ok \in BOOLEAN : EffectEnds(q, ok)
  BY <1>11 DEF EffectStarts, EffectEnds
<1>12. CASE complete(q) \/ release_for_handoff(q)
  BY <1>5, <1>12, Values DEF complete, release_for_handoff
<1>13. CASE Execv(q)
  <2>1. proc[q].at = "released" /\ CallInStep(q)
    BY <1>13, Values DEF Execv, InStep
  <2>2. row[proc[q].key].status = "released"
    BY <2>1 DEF CallInStep, ExecutesAlone
  <2>3. PICK j \in Actions : j = proc[q].key
    BY <1>13, InACall, Values DEF Execv
  <2>4. row' = [row EXCEPT ![j] = [row[j] EXCEPT !.status = "failed"]]
    BY <1>13, <2>3 DEF Execv
  <2>5. j = k /\ row[j] \in Row
    BY <1>1, <2>3, <2>4 DEF Exists, NoRow
  <2> QED BY <1>1, <2>2, <2>3, <2>4, <2>5 DEF Row
<1> QED BY <1>3, <1>4, <1>6, <1>7, <1>8, <1>9, <1>10, <1>11, <1>12, <1>13 DEF Call

\* The other steps that change a status: only the sweep's, of the row as it was read.
LEMMA SweepWrites ==
    ASSUME Typed, Next, \A q \in All : ~Call(q), NEW k \in Actions, row'[k].status # row[k].status
    PROVE  sweep # NoSweep /\ sweep.key = k /\ SameAsRead /\ row[k].status \in INFLIGHT
<1>1. row \in [Actions -> Row \cup {NoRow}]
  BY DEF Typed, TypeOK
<1>2. ASSUME NEW q \in All, heartbeat(q) \/ BeaterStalls(q) \/ Crash(q) PROVE FALSE
  <2>1. CASE heartbeat(q)
    <3>1. PICK j : j = proc[q].key
      OBVIOUS
    <3>2. row' = [row EXCEPT ![j].silence = 0] \/ row' = row
      BY <2>1, <3>1 DEF heartbeat
    <3>3. row[k] \in Row \/ row[k] = NoRow
      BY <1>1
    <3> QED BY <1>1, <3>2, <3>3 DEF Row, NoRow
  <2> QED BY <1>2, <2>1 DEF BeaterStalls, Crash
<1>3. ASSUME Tick PROVE FALSE
  BY <1>3, Values DEF Tick, Older, Typed, TypeOK, Row, NoRow
<1>4. CASE expire_stale_pending
  BY <1>1, <1>4 DEF expire_stale_pending, SameAsRead, Typed, TypeOK
<1> QED BY <1>2, <1>3, <1>4 DEF Next, Beating, Answer, ReadAsk, resolve_decision, Sweep, SweepReads

\* Nothing takes a row from the process that executes it under a beater on time.
LEMMA LiveStays ==
    ASSUME IInv, Next
    PROVE  LiveIsNotAbandoned
<1> SUFFICES ASSUME NEW p \in Procs, NEW k \in Keys, proc[p].at \in {"marked", "effect"}, proc[p].key = k,
                    proc[p].beater = "on", Beats(p), overrun' = {}, row'[k].status # "executing"
             PROVE  FALSE
  BY DEF LiveIsNotAbandoned
<1>1. Typed /\ InStep /\ k \in Actions /\ p \in All /\ Engaged(p)
  BY OverrunsAreKept, Values DEF IInv, Actions, All, Engaged
<1>2. row[k].status = "executing" /\ row[k].attempt = proc[p].attempt /\ Exists(k)
  BY DEF Beats, Exists
<1>3. ASSUME FoundSilent(k, row[k].attempt) PROVE FALSE
  BY <1>3 DEF FoundSilent
<1>4. ASSUME NEW q \in All, Call(q) PROVE FALSE
  <2>1. /\ proc[q].key = k
        /\ \/ proc[q].at \in Points \ {"lapsed", "effect"} /\ Owns(q) /\ (proc[q].at = "marked" => q \in Gates)
           \/ /\ proc[q].at = "lapsed"
              /\ row[k].status = proc[q].seen /\ row[k].attempt = proc[q].attempt
    BY <1>1, <1>2, <1>4, WhoWrites
  <2>2. CASE proc[q].at = "lapsed" /\ row[k].status = proc[q].seen /\ row[k].attempt = proc[q].attempt
    BY <1>1, <1>2, <1>3, <2>1, <2>2, Values DEF InStep, TakerIsRight
  <2>3. CASE proc[q].at \in Points \ {"lapsed", "effect"} /\ Owns(q) /\ (proc[q].at = "marked" => q \in Gates)
    <3>1. Apart(p, q)
      BY <1>1 DEF InStep
    <3>2. p = q
      BY <1>1, <1>2, <2>1, <2>3, <3>1 DEF Apart, Engaged, Owns
    <3> QED BY <2>3, <3>2, ConstantsAssumption
  <2> QED BY <2>1, <2>2, <2>3
<1>5. CASE \A q \in All : ~Call(q)
  <2>1. sweep # NoSweep /\ sweep.key = k /\ SameAsRead
    BY <1>1, <1>2, <1>5, SweepWrites
  <2> QED BY <1>1, <1>2, <1>3, <2>1 DEF InStep, SweepIsRight, SameAsRead
<1> QED BY <1>4, <1>5

\* Nothing leaves a settled status, but for a handoff that failed.
LEMMA SettledRemains ==
    ASSUME IInv, Next
    PROVE  SettledStays
<1> SUFFICES ASSUME NEW k \in Actions, Terminal(k), row'[k].status # row[k].status, overrun' = {}
             PROVE  row[k].status = "released" /\ row'[k].status = "failed"
  BY DEF SettledStays
<1>1. Typed /\ InStep /\ Exists(k) /\ row[k].status \notin INFLIGHT
  BY OverrunsAreKept DEF IInv, Exists, Terminal, TERMINAL_STATUSES, INFLIGHT
<1>2. ASSUME NEW q \in All, Call(q) PROVE row[k].status = "released" /\ row'[k].status = "failed"
  <2>1. CASE proc[q].key = k /\ Owns(q)
    BY <2>1 DEF Owns
  <2>2. CASE proc[q].at = "lapsed" /\ row[k].status = proc[q].seen
    <3>1. proc[q] \in Proc
      BY <1>1, <2>2, InACall, Values
    <3> QED BY <1>1, <2>2, <3>1 DEF Proc
  <2> QED BY <1>1, <1>2, <2>1, <2>2, WhoWrites
<1>3. CASE \A q \in All : ~Call(q)
  BY <1>1, <1>3, SweepWrites
<1> QED BY <1>2, <1>3

\* Guarantee 6 of govern and the finality of settled rows, as a step property: a retry, the
\* sweep's second statement or a late answer neither takes a row from its live executor nor
\* reopens a settled one, unless a process wrote on an action it had lost.
THEOREM RecordsStand == Spec => RecordStands
<1>1. IInv /\ [Next]_vars => [LiveIsNotAbandoned /\ SettledStays]_vars
  BY LiveStays, SettledRemains
<1> QED BY <1>1, IInvHolds, PTL DEF Spec, RecordStands

=============================================================================
