-------------------------------- MODULE Help --------------------------------
(***************************************************************************)
(* Peer help: control/help.py.  Sessions file requests for other Sessions, *)
(* some of them blocking for the answer; peers claim, answer and release   *)
(* them, the asker cancels, and both of a request's deadlines may pass.    *)
(*                                                                         *)
(* Claim, answer, release and cancel read the request in one transaction   *)
(* and change it in a second one, which holds the lifecycle lock of the    *)
(* Session and compares the request with what was read.  A target is the   *)
(* set of Sessions it makes eligible (named Session, Workspace, required   *)
(* tool).  Reviewers started by Brains are withdrawn and left out.         *)
(***************************************************************************)
EXTENDS Integers, Sequences, FiniteSets

CONSTANTS
    Codes,          \* requests, numbered in the order of their filing
    Peers,          \* Sessions
    NoPeer,
    MAX_ASK_DEPTH,
    MaxReleases     \* bound: releases of one request

ASSUME HelpAssumption ==
    Codes \subseteq Nat /\ NoPeer \notin Peers /\ MAX_ASK_DEPTH \in Nat \ {0} /\ MaxReleases \in Nat

VARIABLES
    help,     \* help_requests
    alive,    \* whether each Session is live
    calling,  \* what each Session's call has read and is about to change
    asking,   \* what each blocking ask_peer has returned, or waiting
    working   \* requests a Session was told it holds and has not let go of

helpVars == <<help, alive, calling, asking, working>>

Terminal == {"answered", "expired", "cancelled"}
Statuses == {"none", "open", "claimed"} \cup Terminal

\* round counts the releases: it stands for expires_at, and with by for claimed_at.  due
\* says that expires_at has passed, stale that the claim is older than its grace.
NoRequest == [status |-> "none", from |-> NoPeer, to |-> {}, depth |-> 0, by |-> NoPeer,
              round |-> 0, due |-> FALSE, stale |-> FALSE]

NoCall == [op |-> "none", code |-> 0, read |-> NoRequest]

Oldest(S) == CHOOSE r \in S : \A q \in S : r <= q

-----------------------------------------------------------------------------
BugParked(q) == q.status = "open" /\ q.due

\* _expire_due: an open request by its own deadline, a claimed one only by its claim's.
Lapsed(q) == (q.status = "open" /\ q.due) \/ (q.status = "claimed" /\ q.stale)
_expire_due(h) == [r \in Codes |-> IF Lapsed(h[r]) THEN [h[r] EXCEPT !.status = "expired"] ELSE h[r]]

\* _claimable_request_query, for a call that names the request and for one that does not
Offered(q, p) == q.status = "open" /\ p \in q.to
BugOfferedOrOwned(q, p) == p \in q.to /\ q.status \in {"open", "claimed"}
OfferedOrOwned(q, p) == p \in q.to /\ (q.status = "open" \/ (q.status = "claimed" /\ q.by = p))

\* _request_snapshot: what the row is compared with.
Unchanged(r, q) == help[r].status = q.status /\ help[r].by = q.by /\ help[r].round = q.round

-----------------------------------------------------------------------------
\* _current_ask_depth_for_session.  Which of several claims is the latest is not told apart.
Depths(p, h) ==
    LET held == {r \in Codes : h[r].status = "claimed" /\ h[r].by = p}
    IN  IF held = {} THEN {1} ELSE {h[r].depth + 1 : r \in held}

\* file_help_request, and ask_peer when it blocks: one transaction.
file_help_request(p, r, to, blocking) ==
    /\ alive[p] /\ help[r].status = "none" /\ \A q \in Codes : q < r => help[q].status # "none"
    /\ \E depth \in Depths(p, _expire_due(help)) :
          /\ depth <= MAX_ASK_DEPTH
          /\ help' = [_expire_due(help) EXCEPT
                         ![r] = [NoRequest EXCEPT !.status = "open", !.from = p, !.to = to, !.depth = depth]]
    /\ asking' = [asking EXCEPT ![r] = IF blocking THEN "waiting" ELSE "none"]
    /\ UNCHANGED <<alive, calling, working>>

\* get_help_request and wait_help_request, and every call that reads and then refuses.
get_help_request ==
    /\ _expire_due(help) # help
    /\ help' = _expire_due(help)
    /\ UNCHANGED <<alive, calling, asking, working>>

\* The row a call reads once what is due has expired.
Found(r) == _expire_due(help)[r]

\* The first transaction of a call: expiry, and the row.
Read(p, op, r) ==
    /\ alive[p] /\ calling[p] = NoCall
    /\ help' = _expire_due(help)
    /\ calling' = [calling EXCEPT ![p] = [op |-> op, code |-> r, read |-> help'[r]]]
    /\ UNCHANGED <<alive, asking, working>>

ReadClaim(p, r) == OfferedOrOwned(Found(r), p) /\ Read(p, "claim", r)
ReadAnswer(p, r) == Found(r).status = "claimed" /\ Found(r).by = p /\ Read(p, "answer", r)
ReadRelease(p, r) ==
    Found(r).status = "claimed" /\ Found(r).by = p /\ Found(r).round < MaxReleases /\ Read(p, "release", r)
ReadCancel(p, r) == Found(r).status \in {"open", "claimed"} /\ Found(r).from = p /\ Read(p, "cancel", r)
ReadWait(p) ==
    LET open == {r \in Codes : Offered(Found(r), p)}
    IN  open # {} /\ Read(p, "wait", Oldest(open))

-----------------------------------------------------------------------------
Ends(p) == calling' = [calling EXCEPT ![p] = NoCall]
Holds(p, r) == working' = [working EXCEPT ![p] = @ \cup {r}]
LetsGo(p, r) == working' = [working EXCEPT ![p] = @ \ {r}]

\* The second transaction of a claim, of the request r that the locked reading selects.  The
\* one who already holds it is shown it again.
Claim(p, r) ==
    IF help[r].status = "open" /\ ~help[r].due
       /\ (calling[p].code = r => Unchanged(r, calling[p].read))
    THEN help' = [help EXCEPT ![r] = [@ EXCEPT !.status = "claimed", !.by = p, !.stale = FALSE]] /\ Holds(p, r)
    ELSE /\ IF help[r].status = "claimed" /\ ~help[r].stale THEN Holds(p, r) ELSE UNCHANGED working
         /\ UNCHANGED help

claim_help_request(p) ==
    /\ calling[p].op = "claim" /\ Ends(p)
    /\ IF alive[p] /\ OfferedOrOwned(help[calling[p].code], p) THEN Claim(p, calling[p].code)
       ELSE UNCHANGED <<help, working>>
    /\ UNCHANGED <<alive, asking>>

\* wait_for_request looks again for the oldest under the lock.
wait_for_request(p) ==
    LET open == {r \in Codes : Offered(help[r], p) /\ ~help[r].due}
    IN  /\ calling[p].op = "wait" /\ Ends(p)
        /\ IF alive[p] /\ open # {} THEN Claim(p, Oldest(open)) ELSE UNCHANGED <<help, working>>
        /\ UNCHANGED <<alive, asking>>

\* _help_transition: the row is as it was read and not lapsed, the Session still live.
MayChange(p) ==
    LET c == calling[p] IN alive[p] /\ Unchanged(c.code, c.read) /\ ~Lapsed(help[c.code])

answer_request(p) ==
    LET r == calling[p].code
    IN  /\ calling[p].op = "answer" /\ Ends(p) /\ LetsGo(p, r)
        /\ help' = IF MayChange(p) THEN [help EXCEPT ![r].status = "answered"]
                   ELSE IF alive[p] THEN _expire_due(help) ELSE help
        /\ UNCHANGED <<alive, asking>>

Reopened(q) == [q EXCEPT !.status = "open", !.by = NoPeer, !.round = @ + 1, !.due = FALSE, !.stale = FALSE]

release_help_request(p) ==
    LET r == calling[p].code
    IN  /\ calling[p].op = "release" /\ Ends(p) /\ LetsGo(p, r)
        /\ help' = IF MayChange(p) THEN [help EXCEPT ![r] = Reopened(@)] ELSE help
        /\ UNCHANGED <<alive, asking>>

cancel_help_request(p) ==
    /\ calling[p].op = "cancel" /\ Ends(p)
    /\ help' = IF MayChange(p) THEN [help EXCEPT ![calling[p].code].status = "cancelled"] ELSE help
    /\ UNCHANGED <<alive, asking, working>>

-----------------------------------------------------------------------------
\* ask_peer polls: a final status is returned.
AskPoll(r) ==
    /\ asking[r] = "waiting" /\ help[r].status \in Terminal
    /\ asking' = [asking EXCEPT ![r] = help[r].status]
    /\ UNCHANGED <<help, alive, calling, working>>

\* At its own deadline ask_peer applies the durable deadlines and looks again.
AskDeadline(r) ==
    /\ asking[r] = "waiting" /\ _expire_due(help) # help
    /\ help' = _expire_due(help)
    /\ asking' = [asking EXCEPT ![r] = IF help'[r].status \in Terminal THEN help'[r].status ELSE @]
    /\ UNCHANGED <<alive, calling, working>>

\* Time passes, and a Session ends.
DeadlinePasses(r) ==
    /\ help[r].status \in {"open", "claimed"} /\ ~help[r].due
    /\ help' = [help EXCEPT ![r].due = TRUE]
    /\ UNCHANGED <<alive, calling, asking, working>>

GracePasses(r) ==
    /\ help[r].status = "claimed" /\ ~help[r].stale
    /\ help' = [help EXCEPT ![r].stale = TRUE]
    /\ UNCHANGED <<alive, calling, asking, working>>

SessionEnds(p) ==
    /\ alive[p] /\ alive' = [alive EXCEPT ![p] = FALSE]
    /\ UNCHANGED <<help, calling, asking, working>>

-----------------------------------------------------------------------------
HelpInit ==
    /\ help = [r \in Codes |-> NoRequest]
    /\ alive = [p \in Peers |-> TRUE]
    /\ calling = [p \in Peers |-> NoCall]
    /\ asking = [r \in Codes |-> "none"]
    /\ working = [p \in Peers |-> {}]

HelpNext ==
    \/ \E p \in Peers, r \in Codes :
          \/ \E to \in SUBSET Peers \ {{}}, blocking \in BOOLEAN : file_help_request(p, r, to, blocking)
          \/ ReadClaim(p, r) \/ ReadAnswer(p, r) \/ ReadRelease(p, r) \/ ReadCancel(p, r)
    \/ \E p \in Peers : ReadWait(p) \/ claim_help_request(p) \/ wait_for_request(p) \/ answer_request(p)
                        \/ release_help_request(p) \/ cancel_help_request(p) \/ SessionEnds(p)
    \/ \E r \in Codes : AskPoll(r) \/ AskDeadline(r) \/ DeadlinePasses(r) \/ GracePasses(r)
    \/ get_help_request

\* Time passes, and ask_peer polls in a loop.  No peer has to do anything.
HelpFairness ==
    \A r \in Codes : /\ WF_helpVars(AskPoll(r)) /\ WF_helpVars(AskDeadline(r))
                     /\ WF_helpVars(DeadlinePasses(r)) /\ WF_helpVars(GracePasses(r))

HelpSpec == HelpInit /\ [][HelpNext]_helpVars /\ HelpFairness

-----------------------------------------------------------------------------
\* Requests, calls and results keep their types; no request is deeper than the cap.
HelpTypeOK ==
    /\ \A r \in Codes :
          LET q == help[r]
          IN  /\ q.status \in Statuses /\ q.to \subseteq Peers /\ q.round \in 0 .. MaxReleases
              /\ q.depth \in (IF q.status = "none" THEN {0} ELSE 1 .. MAX_ASK_DEPTH)
              /\ q.status = "open" => q.by = NoPeer
              /\ q.status \in {"claimed", "answered"} => q.by \in q.to
    /\ alive \in [Peers -> BOOLEAN]
    /\ \A p \in Peers : working[p] \subseteq Codes
                        /\ calling[p].op \in {"none", "claim", "wait", "answer", "release", "cancel"}

\* However claims, releases and retries of both interleave, two Sessions never believe at
\* once that a request is theirs to answer.
OneWorker == \A r \in Codes : Cardinality({p \in Peers : r \in working[p]}) <= 1

\* An answer, a cancellation or an expiry is final: a call that read the request before it
\* does not undo it.
HelpFinal == \A r \in Codes : help[r].status \in Terminal => help'[r].status = help[r].status

\* A claimed request outlives its original deadline: work in progress is not thrown away
\* before the claim's own grace has passed.
ClaimShields ==
    \A r \in Codes : help[r].status = "claimed" /\ help'[r].status = "expired" => help[r].stale

\* ask_peer returns what the request ended as.
AskTold == \A r \in Codes : asking[r] \in Terminal => help[r].status = asking[r]

\* However claims, releases, answers, expiries and retries interleave: one Session works on
\* a request, and the asker is told what became of it.
HelpIsSound == HelpTypeOK /\ OneWorker /\ AskTold

\* Every blocking ask returns, though nobody answers, everyone asks everyone, or Sessions end.
AsksReturn == \A r \in Codes : asking[r] = "waiting" ~> asking[r] # "waiting"
=============================================================================
