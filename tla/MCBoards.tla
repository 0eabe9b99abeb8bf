------------------------------ MODULE MCBoards ------------------------------
(* The audit chain, peer help, handoffs, topic boards and SMTP copies side *)
(* by side.  They share no state, so one of them moves at a time.          *)
EXTENDS Audit, Help, Handoffs, Topics, SmtpCopies

\* The audit chain at rest while another component moves.
AuditStart == AuditInit /\ head = NoHead

BoardsVars == <<auditVars, helpVars, handoffVars, topicVars, smtpVars>>
BoardsInit == AuditInit /\ HelpInit /\ HandoffInit /\ TopicInit /\ SmtpInit
BoardsNext ==
    \/ /\ HelpInit /\ HandoffInit /\ TopicInit /\ SmtpInit /\ AuditNext
       /\ UNCHANGED <<helpVars, handoffVars, topicVars, smtpVars>>
    \/ /\ AuditStart /\ HandoffInit /\ TopicInit /\ SmtpInit /\ HelpNext
       /\ UNCHANGED <<auditVars, handoffVars, topicVars, smtpVars>>
    \/ /\ AuditStart /\ HelpInit /\ TopicInit /\ SmtpInit /\ HandoffNext
       /\ UNCHANGED <<auditVars, helpVars, topicVars, smtpVars>>
    \/ /\ AuditStart /\ HelpInit /\ HandoffInit /\ SmtpInit /\ TopicNext
       /\ UNCHANGED <<auditVars, helpVars, handoffVars, smtpVars>>
    \/ /\ AuditStart /\ HelpInit /\ HandoffInit /\ TopicInit /\ SmtpNext
       /\ UNCHANGED <<auditVars, helpVars, handoffVars, topicVars>>
BoardsSpec == BoardsInit /\ [][BoardsNext]_BoardsVars /\ HelpFairness

\* What is left for others reaches each of them once and is not skipped: a handoff is offered
\* alone and handed over once, a board's cursor passes no unread post, a copy leaves once.
BoardsAreSound ==
    /\ OneActive /\ HandedOnce /\ PickRemembered
    /\ NoPostSkipped /\ PendingIsNews
    /\ CopiedOnce /\ CopyHonest

\* No slow reader acts on what it read before: a verification beside appends raises no false
\* alarm, a finished request stays finished, a claim in its grace is not thrown away.
SlowReadersDoNoHarm == [][NoFalseAlarm /\ HelpFinal /\ ClaimShields]_<<auditVars, helpVars>>

\* Bound: damage is done where no verification is running and not both effects were taken.
AuditApart == damaged # "none" => verifier.at = "idle" /\ \E p \in Appenders : effect[p] = "none"

\* Bound: a second request is there only while one call runs, nothing was released, every
\* Session is live, and each request blocks and names one Session.
HelpApart ==
    (\E r \in Codes : r > 1 /\ help[r].status # "none")
        => /\ \A p \in Peers : alive[p]
           /\ \A r \in Codes : help[r].status # "none" => asking[r] # "none" /\ Cardinality(help[r].to) = 1
           /\ Cardinality({p \in Peers : calling[p] # NoCall}) <= 1
           /\ \A r \in Codes : help[r].round = 0 /\ (help[r].status \in {"answered", "cancelled"} => ~help[r].due)

\* Bound: subscriptions to one topic at a time.
TopicApart == Cardinality({topic \in Boards : \E s \in Subscribers : seen[s][topic] # -1}) <= 1

\* Bound: a second copy is there only with one destination and one processor.
SmtpApart ==
    (\E o \in Copies : o > 1 /\ outbox[o].status # "none")
        => asked = 1 /\ challenge = 0 /\ Cardinality({w \in Workers : courier[w] # AtRest}) <= 1

Apart == AuditApart /\ HelpApart /\ TopicApart /\ SmtpApart
=============================================================================
