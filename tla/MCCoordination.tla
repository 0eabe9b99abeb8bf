--------------------------- MODULE MCCoordination ---------------------------
(* Small instances of Coordination and of one mailbox, its identity and    *)
(* its inbox, for TLC.  They share no state here, so one of them moves at  *)
(* a time; the inbox models the attachment on its own.                     *)
EXTENDS Coordination, DurableMailbox, DurableMail, TLC

CONSTANTS s1, s2, s3

MessagingInit == Init /\ MailboxInit /\ MailInit
MessagingSpec ==
    /\ MessagingInit
    /\ [][\/ MailboxInit /\ MailInit /\ Next /\ UNCHANGED <<mailboxVars, mailVars>>
          \/ Init /\ MailInit /\ MailboxNext /\ UNCHANGED <<vars, mailVars>>
          \/ Init /\ MailboxInit /\ MailNext /\ UNCHANGED <<vars, mailboxVars>>]_<<vars, mailboxVars, mailVars>>

\* What a mailbox has recorded stands: no reachable Session loses it to another, a version
\* keeps naming one secret, a delivery keeps its first reader, a nudge its outcome.
MailboxStands ==
    [][NoTakeover /\ VersionNamesSecret /\ FirstReadStands /\ OutcomeStands]_<<mailboxVars, mailVars>>

Panel(owner, exchange, rounds, turns) ==
    [participants |-> {s1, s2}, owner |-> owner, rounds |-> rounds, mode |-> exchange, turns |-> turns]

\* An owner in the panel and one outside it, for the replacement of a version.
MCScopes == {Panel(s1, "rounds", 1, 1), Panel(s3, "rounds", 0, 1)}

\* Every way a discussion can run: zero, one and two rounds, shared or threaded.
MCDiscussions ==
    {Panel(s3, "rounds", 0, 1), Panel(s1, "rounds", 2, 1), Panel(s2, "threaded", 0, 2),
     Panel(s3, "threaded", 1, 2), Panel(s1, "threaded", 2, 1)}

MCSpecs == MCScopes \cup MCDiscussions

\* Bound: only the two specifications of MCScopes are replaced.
ReplacesScopes == latest > 1 => \A v \in 1 .. latest : row[v].spec \in MCScopes

\* A stale snapshot is as good as any other: whether a caller passes the fence and
\* whether it knows the current state is all that the next steps depend on.
Staleness ==
    <<latest, row, entries, late, live, mailboxVars, mailVars,
      [c \in Callers |-> latest > 0 /\ seen[c].row.revision = row[latest].revision],
      [c \in Callers |-> latest > 0 /\ seen[c] = Snapshot(latest)]>>

\* One operation retried with two contents, and another one.
MCRequests == {[op |-> "a", thread |-> "t"], [op |-> "a", thread |-> "u"], [op |-> "b", thread |-> "t"]}

\* Bound: two deliveries to one incarnation, or one delivery and two incarnations.
TwoOfOneKind == Len(inbox) > 1 => Cardinality({i \in Incarnations : cursor[i] # -1}) < 2

\* Holders, processes and incarnations are interchangeable; incarnations share the model
\* values of the processes, which are at rest while the inbox moves.
BoxSymmetry == Permutations(Holders) \cup Permutations(Procs)
=============================================================================
