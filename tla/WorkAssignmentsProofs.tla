------------------------ MODULE WorkAssignmentsProofs ------------------------
(***************************************************************************)
(* The safety of WorkAssignments for every set of Sessions, keys and       *)
(* requests and every bound.  The inductive invariant joins the type       *)
(* invariant, the agreement of the two tables, the cancellation fence and  *)
(* what a reconciliation in progress may rely on.                          *)
(***************************************************************************)
EXTENDS WorkAssignments, TLAPS

IInv == TypeOK /\ SingleLiveAttempt /\ CancelFencesCompletion /\ ReconcilerIsCurrent

\* The initial state satisfies every part of the inductive invariant.
LEMMA InitEstablishesIInv ==
    ASSUME Init
    PROVE  IInv
BY ConstantsAssumption
   DEF Init, IInv, TypeOK, SingleLiveAttempt, CancelFencesCompletion,
       ReconcilerIsCurrent, SessionRow, Row, Attempt, NoAttempt, Reconciler, Idle,
       Statuses, UNRESOLVED, CONCLUSIVE, Generations

-----------------------------------------------------------------------------
(* A step that writes keeps the reconciliation's knowledge sound because   *)
(* it moves the revision on: whatever the step changed, the compare-and-   *)
(* set of the reconciliation can no longer succeed on it.                  *)

\* A step that moves revisions on leaves a reconciliation that is not its own
\* with true knowledge.
LEMMA RevisionFencesReconciler ==
    ASSUME TypeOK, ReconcilerIsCurrent, RevisionStep, reconciler' = reconciler,
           \A k \in Keys : row[k].status # "absent" => row'[k].status # "absent"
    PROVE  ReconcilerIsCurrent'
<1> DEFINE k == reconciler.key
<1>1. k \in Keys /\ reconciler.revision \in Nat /\ row[k].revision \in Nat
  BY ConstantsAssumption DEF TypeOK, Reconciler, Row
<1>2. CASE row'[k] = row[k] /\ attempts'[k] = attempts[k]
  BY <1>1, <1>2 DEF ReconcilerIsCurrent
<1>3. CASE row'[k].revision = row[k].revision + 1
  BY <1>1, <1>3 DEF ReconcilerIsCurrent
<1> QED BY <1>1, <1>2, <1>3 DEF RevisionStep

\* Renewing a lease, or not renewing it, keeps the sessions table typed.
LEMMA RenewLeaseTyped ==
    ASSUME TypeOK, NEW s \in Sessions, RenewLease(s)
    PROVE  sessions' \in [Sessions -> SessionRow]
<1>1. now + LeaseLength \in Nat
  BY ConstantsAssumption DEF TypeOK
<1> QED BY <1>1 DEF RenewLease, TypeOK, SessionRow

\* The invariant does not depend on the clock or on the sessions beyond their
\* types.
LEMMA SessionStepPreserves ==
    ASSUME IInv, now' \in 0 .. MaxTime, sessions' \in [Sessions -> SessionRow],
           UNCHANGED <<row, attempts, reconciler>>
    PROVE  IInv'
BY DEF IInv, TypeOK, SingleLiveAttempt, CancelFencesCompletion, ReconcilerIsCurrent

-----------------------------------------------------------------------------
(* The two tables, one assignment at a time.                               *)

\* What the invariant says of one assignment's row r and its attempts as.
AgreeAt(r, as, g) ==
    /\ as[g].settled <=> as[g].status \in CONCLUSIVE
    /\ as[g].cancel => as[g].status \notin {"accepted", "completed"}
    /\ g < r.generation => as[g].status \in CONCLUSIVE
    /\ g > r.generation => as[g] = NoAttempt
    /\ g = r.generation =>
         /\ as[g].source \in Sessions
         /\ IF r.status \in UNRESOLVED
            THEN as[g].status = r.status
            ELSE as[g].status \in CONCLUSIVE

Agree(r, as) == \A g \in Generations : AgreeAt(r, as, g)

\* The inductive invariant, seen from one assignment.
LEMMA IInvMeansAgree ==
    ASSUME IInv
    PROVE  \A k \in Keys : Agree(row[k], attempts[k])
BY DEF IInv, TypeOK, SingleLiveAttempt, CancelFencesCompletion, Agree, AgreeAt

\* A write of one assignment that keeps its row and its attempts in agreement
\* and moves its revision on preserves all of the invariant but the part about
\* the reconciliation, and that too when it is not the reconciliation's write.
LEMMA WritePreserves ==
    ASSUME IInv, NEW k \in Keys, NEW r \in Row, NEW as \in [Generations -> Attempt],
           row' = [row EXCEPT ![k] = r], attempts' = [attempts EXCEPT ![k] = as],
           r.status # "absent", r.revision = row[k].revision + 1,
           Agree(r, as), now' = now, sessions' \in [Sessions -> SessionRow],
           reconciler' \in Reconciler
    PROVE  /\ TypeOK' /\ SingleLiveAttempt' /\ CancelFencesCompletion'
           /\ RevisionStep
           /\ reconciler' = reconciler => IInv'
<1>1. /\ row \in [Keys -> Row] /\ attempts \in [Keys -> [Generations -> Attempt]]
      /\ row[k].revision \in Nat
  BY ConstantsAssumption DEF IInv, TypeOK, Row
<1>2. /\ row' \in [Keys -> Row] /\ attempts' \in [Keys -> [Generations -> Attempt]]
      /\ row'[k] = r /\ attempts'[k] = as
      /\ \A j \in Keys \ {k} : row'[j] = row[j] /\ attempts'[j] = attempts[j]
  BY <1>1
<1>3. RevisionStep
  BY <1>2 DEF RevisionStep
<1>4. \A j \in Keys : Agree(row'[j], attempts'[j])
  BY <1>2, IInvMeansAgree
<1>5. SingleLiveAttempt' /\ CancelFencesCompletion'
  BY <1>4 DEF Agree, AgreeAt, SingleLiveAttempt, CancelFencesCompletion
<1>6. TypeOK'
  <2>1. \A j \in Keys, g \in Generations :
           attempts'[j][g].settled <=> attempts'[j][g].status \in CONCLUSIVE
    BY <1>4 DEF Agree, AgreeAt
  <2>2. \A j \in Keys : IF row'[j].status = "absent"
                        THEN row'[j].revision = 0 /\ row'[j].generation = 0
                        ELSE row'[j].revision >= 1
    BY <1>1, <1>2 DEF IInv, TypeOK
  <2> QED BY <1>2, <2>1, <2>2 DEF IInv, TypeOK
<1>7. ASSUME reconciler' = reconciler PROVE ReconcilerIsCurrent'
  BY <1>2, <1>3, <1>7, RevisionFencesReconciler DEF IInv
<1> QED BY <1>3, <1>5, <1>6, <1>7 DEF IInv

-----------------------------------------------------------------------------
(* One lemma for each operation on assignments.                            *)

\* Creating an assignment.
LEMMA CreatePreserves ==
    ASSUME IInv, NEW k \in Keys, NEW kind \in {"session", "operator"}, NEW request \in Requests,
           CreateRow(k, kind, request), sessions' \in [Sessions -> SessionRow]
    PROVE  IInv' /\ RevisionStep
<1> DEFINE r == [status |-> "ready", revision |-> 1, generation |-> 0,
                 kind |-> kind, request |-> request, cancel |-> FALSE]
<1>1. /\ row[k].status = "absent" /\ row[k].revision = 0 /\ row[k].generation = 0
      /\ row' = [row EXCEPT ![k] = r]
      /\ UNCHANGED <<now, attempts, reconciler>>
  BY DEF IInv, TypeOK, CreateRow, FirstRevision
<1>2. /\ attempts \in [Keys -> [Generations -> Attempt]] /\ reconciler' \in Reconciler
      /\ attempts[k] \in [Generations -> Attempt]
  BY <1>1 DEF IInv, TypeOK
<1>3. r \in Row /\ r.status # "absent" /\ r.revision = row[k].revision + 1
  BY <1>1, ConstantsAssumption DEF Row, Statuses
<1>4. attempts' = [attempts EXCEPT ![k] = attempts[k]]
  BY <1>1, <1>2
<1>5. Agree(r, attempts[k])
  BY <1>1, IInvMeansAgree DEF Agree, AgreeAt, Generations
<1> HIDE DEF r
<1> QED BY <1>1, <1>2, <1>3, <1>4, <1>5, WritePreserves

\* Accepting: the generation that was free becomes the live one.
LEMMA AcceptPreserves ==
    ASSUME IInv, NEW s \in Sessions, NEW k \in Keys, NEW expected \in 1 .. MaxRevision,
           accept_work_assignment(s, k, expected)
    PROVE  IInv' /\ RevisionStep
<1> DEFINE g == row[k].generation + 1
           r == [row[k] EXCEPT !.status = "accepted", !.revision = expected + 1,
                               !.generation = g]
           a == [status |-> "accepted", source |-> s,
                 deadline |-> DeadlineOf(row[k].request),
                 cancel |-> FALSE, settled |-> FALSE, evidence |-> "none"]
           as == [attempts[k] EXCEPT ![g] = a]
<1>1. /\ now \in Nat /\ row[k] \in Row /\ attempts[k] \in [Generations -> Attempt]
      /\ row[k].generation \in 0 .. MaxGeneration
      /\ row \in [Keys -> Row] /\ attempts \in [Keys -> [Generations -> Attempt]]
  BY DEF IInv, TypeOK, Row
<1>2. /\ row[k].status = "ready" /\ row[k].revision = expected /\ expected + 1 \in 0 .. MaxRevision
      /\ g \in Generations /\ g \in 0 .. MaxGeneration
  BY <1>1, ConstantsAssumption DEF accept_work_assignment, Fenced, Generations
<1>3. row' = [row EXCEPT ![k] = r] /\ attempts' = [attempts EXCEPT ![k] = as]
  BY Zenon DEF accept_work_assignment, NextRevision, WriteAttempt
<1>4. r \in Row /\ r.status = "accepted" /\ r.revision = row[k].revision + 1 /\ r.generation = g
  BY <1>1, <1>2 DEF Row, Statuses, UNRESOLVED
<1>5. a \in Attempt
  <2>1. row[k].request \in [budget : Nat \ {0}, deadline : Nat \cup {NoDeadline}]
    BY <1>1, ConstantsAssumption DEF Row
  <2>2. DeadlineOf(row[k].request) \in Nat
    BY <1>1, <2>1, ConstantsAssumption DEF DeadlineOf
  <2> QED BY <2>2 DEF Attempt, Statuses, UNRESOLVED
<1>6. /\ a.status = "accepted" /\ a.settled = FALSE /\ a.cancel = FALSE /\ a.source = s
      /\ as \in [Generations -> Attempt]
      /\ as[g] = a /\ \A h \in Generations \ {g} : as[h] = attempts[k][h]
  BY <1>1, <1>2, <1>5
<1>7. /\ now' = now /\ reconciler' = reconciler /\ reconciler' \in Reconciler
      /\ sessions' \in [Sessions -> SessionRow]
  BY RenewLeaseTyped DEF IInv, TypeOK, accept_work_assignment
<1> HIDE DEF r, a, as
<1>8. Agree(r, as)
  <2> SUFFICES ASSUME NEW h \in Generations PROVE AgreeAt(r, as, h)
    BY DEF Agree
  <2>1. AgreeAt(row[k], attempts[k], h)
    BY IInvMeansAgree DEF Agree
  <2>2. CASE h = g
    <3>0. as[h] = a /\ h = r.generation
      BY <1>4, <1>6, <2>2, Zenon
    <3>1. ~(h < r.generation) /\ ~(h > r.generation)
      BY <3>0, ConstantsAssumption DEF Generations
    <3>2. a.status \notin CONCLUSIVE /\ r.status \in UNRESOLVED
      BY <1>4, <1>6 DEF CONCLUSIVE, UNRESOLVED
    <3> QED BY <1>4, <1>6, <3>0, <3>1, <3>2 DEF AgreeAt
  <2>3. CASE h # g
    <3>1. as[h] = attempts[k][h]
      BY <1>6, <2>3
    <3>2. h < g \/ h > g
      BY <1>1, <2>3 DEF Generations
    <3>3. row[k].status \notin UNRESOLVED
      BY <1>2 DEF UNRESOLVED
    <3> QED BY <1>1, <1>4, <2>1, <3>1, <3>2, <3>3 DEF AgreeAt, Generations
  <2> QED BY <2>2, <2>3
<1> QED BY <1>3, <1>4, <1>6, <1>7, <1>8, WritePreserves

\* Rewriting the newest attempt together with the row keeps the two in
\* agreement: used by settle, cancel and the reconciliation.
LEMMA CurrentAttemptRewritten ==
    ASSUME IInv, NEW k \in Keys, NEW r \in Row, NEW a \in Attempt,
           row[k].generation \in Generations, r.generation = row[k].generation,
           a.source = attempts[k][row[k].generation].source,
           a.settled <=> a.status \in CONCLUSIVE,
           a.cancel => a.status \notin {"accepted", "completed"},
           IF r.status \in UNRESOLVED THEN a.status = r.status ELSE a.status \in CONCLUSIVE
    PROVE  /\ [attempts[k] EXCEPT ![row[k].generation] = a] \in [Generations -> Attempt]
           /\ Agree(r, [attempts[k] EXCEPT ![row[k].generation] = a])
<1> DEFINE g == row[k].generation
           as == [attempts[k] EXCEPT ![g] = a]
<1>1. attempts[k] \in [Generations -> Attempt]
  BY DEF IInv, TypeOK
<1>2. /\ as \in [Generations -> Attempt]
      /\ as[g] = a /\ \A h \in Generations \ {g} : as[h] = attempts[k][h]
  BY <1>1
<1> HIDE DEF as
<1>3. ASSUME NEW h \in Generations PROVE AgreeAt(r, as, h)
  <2>1. AgreeAt(row[k], attempts[k], h)
    BY IInvMeansAgree DEF Agree
  <2>2. CASE h = g
    <3>1. as[h] = a /\ h = r.generation
      BY <1>2, <2>2, Zenon
    <3>2. ~(h < r.generation) /\ ~(h > r.generation)
      BY <3>1, ConstantsAssumption DEF Generations
    <3>3. a.source \in Sessions
      BY <2>1, <2>2 DEF AgreeAt
    <3> QED BY <3>1, <3>2, <3>3 DEF AgreeAt
  <2>3. CASE h # g
    <3>1. as[h] = attempts[k][h] /\ h # r.generation
      BY <1>2, <2>3
    <3> QED BY <2>1, <2>3, <3>1 DEF AgreeAt
  <2> QED BY <2>2, <2>3
<1> QED BY <1>2, <1>3 DEF Agree, as

\* Settling: the row and its current attempt take the outcome together.
LEMMA SettlePreserves ==
    ASSUME IInv, NEW s \in Sessions, NEW k \in Keys, NEW expected \in 1 .. MaxRevision,
           NEW g \in Generations, NEW outcome \in Outcomes, NEW evidence \in Evidence,
           settle_work_assignment(s, k, g, outcome, evidence, expected)
    PROVE  IInv' /\ RevisionStep
<1> DEFINE r == [row[k] EXCEPT !.status = outcome, !.revision = expected + 1]
           settled == outcome \in CONCLUSIVE
           a == [attempts[k][g] EXCEPT !.status = outcome, !.evidence = evidence,
                                       !.settled = settled]
           as == [attempts[k] EXCEPT ![g] = a]
<1>1. row[k] \in Row /\ attempts[k][g] \in Attempt
  BY DEF IInv, TypeOK
<1>2. /\ row[k].status \in {"accepted", "cancel_requested"} /\ row[k].revision = expected
      /\ expected + 1 \in 0 .. MaxRevision /\ g = row[k].generation
      /\ row[k].status = "cancel_requested" => outcome # "completed"
  BY ConstantsAssumption DEF settle_work_assignment, Fenced, MayReport
<1>3. row' = [row EXCEPT ![k] = r] /\ attempts' = [attempts EXCEPT ![k] = as]
  BY Zenon DEF settle_work_assignment, NextRevision, WriteAttempt
<1>4. outcome \in Statuses /\ outcome # "absent" /\ outcome # "accepted"
      /\ (outcome \in UNRESOLVED <=> outcome \notin CONCLUSIVE)
  BY DEF Outcomes, Statuses, CONCLUSIVE, UNRESOLVED
<1>5. r \in Row /\ r.status = outcome /\ r.revision = row[k].revision + 1
      /\ r.generation = row[k].generation
  BY <1>1, <1>2, <1>4 DEF Row
<1>6. settled \in BOOLEAN /\ (settled <=> outcome \in CONCLUSIVE)
  OBVIOUS
<1> HIDE DEF settled
<1>7. a \in Attempt /\ a.status = outcome /\ a.source = attempts[k][g].source
      /\ a.cancel = attempts[k][g].cancel /\ a.settled = settled
  BY <1>1, <1>4, <1>6 DEF Attempt
<1>8. attempts[k][g].cancel => row[k].status # "accepted"
  BY <1>2, IInvMeansAgree DEF Agree, AgreeAt, UNRESOLVED
<1>9. /\ now' = now /\ reconciler' = reconciler /\ reconciler' \in Reconciler
      /\ sessions' \in [Sessions -> SessionRow]
  BY RenewLeaseTyped DEF IInv, TypeOK, settle_work_assignment
<1> HIDE DEF r, a
<1>10. as \in [Generations -> Attempt] /\ Agree(r, as)
  <2>1. a.cancel => a.status \notin {"accepted", "completed"}
    BY <1>2, <1>4, <1>7, <1>8
  <2> QED BY <1>2, <1>4, <1>5, <1>6, <1>7, <2>1, CurrentAttemptRewritten
<1> HIDE DEF as
<1> QED BY <1>3, <1>4, <1>5, <1>9, <1>10, WritePreserves

\* Cancelling: ready work has no live attempt to mark; other work has.
LEMMA CancelPreserves ==
    ASSUME IInv, NEW k \in Keys, NEW expected \in 1 .. MaxRevision,
           CancelAssignment(k, expected), sessions' \in [Sessions -> SessionRow]
    PROVE  IInv' /\ RevisionStep
<1> DEFINE status == CASE row[k].status = "ready"     -> "cancelled"
                       [] row[k].status = "uncertain" -> "uncertain"
                       [] OTHER                       -> "cancel_requested"
           g == row[k].generation
           r == [row[k] EXCEPT !.status = status, !.revision = expected + 1, !.cancel = TRUE]
           a == [attempts[k][g] EXCEPT !.status = status, !.cancel = TRUE]
           as == [attempts[k] EXCEPT ![g] = a]
<1>1. /\ row[k] \in Row /\ attempts[k] \in [Generations -> Attempt]
      /\ attempts \in [Keys -> [Generations -> Attempt]]
  BY DEF IInv, TypeOK
<1>2. /\ row[k].status \in {"ready", "accepted", "uncertain"} /\ row[k].revision = expected
      /\ expected + 1 \in 0 .. MaxRevision
  BY ConstantsAssumption DEF CancelAssignment, Fenced, CancelEffective
<1>3. row' = [row EXCEPT ![k] = r]
  BY Zenon DEF CancelAssignment, NextRevision
<1>4. attempts' = IF g # 0 /\ status # "cancelled" THEN [attempts EXCEPT ![k] = as] ELSE attempts
  BY Zenon DEF CancelAssignment, WriteAttempt, Current
<1>5. /\ row[k].status = "ready" => status = "cancelled"
      /\ row[k].status = "uncertain" => status = "uncertain"
      /\ row[k].status = "accepted" => status = "cancel_requested"
  OBVIOUS
<1>6. status \in Statuses /\ status \notin {"absent", "accepted", "completed"}
  BY <1>2, <1>5 DEF Statuses, UNRESOLVED, CONCLUSIVE
<1> HIDE DEF status
<1>7. r \in Row /\ r.status = status /\ r.revision = row[k].revision + 1
      /\ r.generation = row[k].generation
  BY <1>1, <1>2, <1>6 DEF Row
<1>8. now' = now /\ reconciler' = reconciler /\ reconciler' \in Reconciler
  BY DEF IInv, TypeOK, CancelAssignment
<1>9. g \in 0 .. MaxGeneration
  BY <1>1 DEF Row
<1>10. CASE g # 0 /\ status # "cancelled"
  <2>1. g \in Generations
    BY <1>9, <1>10, ConstantsAssumption DEF Generations
  <2>2. /\ a \in Attempt /\ a.status = status /\ a.source = attempts[k][g].source
        /\ a.cancel = TRUE /\ a.settled = attempts[k][g].settled
    BY <1>1, <1>6, <2>1 DEF Attempt
  <2>3. AgreeAt(row[k], attempts[k], g)
    BY <2>1, IInvMeansAgree DEF Agree
  <2>4. status \in UNRESOLVED /\ status \notin CONCLUSIVE /\ row[k].status \in UNRESOLVED
        /\ row[k].status \notin CONCLUSIVE
    BY <1>2, <1>5, <1>10 DEF UNRESOLVED, CONCLUSIVE
  <2>5. a.settled = FALSE
    <3>1. attempts[k][g].settled \in BOOLEAN
      BY <1>1, <2>1 DEF Attempt
    <3> QED BY <2>2, <2>3, <2>4, <3>1 DEF AgreeAt
  <2> HIDE DEF r, a
  <2>6. as \in [Generations -> Attempt] /\ Agree(r, as)
    BY <1>6, <1>7, <2>1, <2>2, <2>4, <2>5, CurrentAttemptRewritten
  <2>7. attempts' = [attempts EXCEPT ![k] = as]
    BY <1>4, <1>10
  <2> HIDE DEF as
  <2> QED BY <1>3, <1>6, <1>7, <1>8, <2>6, <2>7, WritePreserves
<1>11. CASE ~(g # 0 /\ status # "cancelled")
  <2>1. attempts' = [attempts EXCEPT ![k] = attempts[k]]
    BY <1>1, <1>4, <1>11
  <2>2. Agree(r, attempts[k])
    <3> SUFFICES ASSUME NEW h \in Generations PROVE AgreeAt(r, attempts[k], h)
      BY DEF Agree
    <3>1. AgreeAt(row[k], attempts[k], h)
      BY IInvMeansAgree DEF Agree
    <3>2. CASE g = 0
      BY <1>7, <3>1, <3>2 DEF AgreeAt, Generations
    <3>3. CASE status = "cancelled"
      <4>1. row[k].status \notin UNRESOLVED /\ r.status \notin UNRESOLVED
        BY <1>2, <1>5, <1>7, <3>3 DEF UNRESOLVED
      <4> HIDE DEF r
      <4> QED BY <1>7, <3>1, <4>1 DEF AgreeAt
    <3> QED BY <1>11, <3>2, <3>3
  <2> HIDE DEF r
  <2> QED BY <1>1, <1>3, <1>6, <1>7, <1>8, <2>1, <2>2, WritePreserves
<1> QED BY <1>10, <1>11

\* Retrying: only conclusive attempts are left behind.
LEMMA RetryPreserves ==
    ASSUME IInv, NEW s \in Sessions, NEW k \in Keys, NEW expected \in 1 .. MaxRevision,
           retry_work_assignment(s, k, expected)
    PROVE  IInv' /\ RevisionStep
<1> DEFINE r == [row[k] EXCEPT !.status = "ready", !.revision = expected + 1, !.cancel = FALSE]
<1>1. /\ row[k] \in Row /\ attempts[k] \in [Generations -> Attempt]
      /\ attempts \in [Keys -> [Generations -> Attempt]]
  BY DEF IInv, TypeOK
<1>2. /\ row[k].status \in {"failed", "cancelled"} /\ row[k].revision = expected
      /\ expected + 1 \in 0 .. MaxRevision
  BY ConstantsAssumption DEF retry_work_assignment, Fenced, Retryable
<1>3. row' = [row EXCEPT ![k] = r]
  BY Zenon DEF retry_work_assignment, NextRevision
<1>4. attempts' = [attempts EXCEPT ![k] = attempts[k]]
  BY <1>1 DEF retry_work_assignment
<1>5. r \in Row /\ r.status = "ready" /\ r.revision = row[k].revision + 1
      /\ r.generation = row[k].generation
  BY <1>1, <1>2 DEF Row, Statuses
<1>6. /\ now' = now /\ reconciler' = reconciler /\ reconciler' \in Reconciler
      /\ sessions' \in [Sessions -> SessionRow]
  BY RenewLeaseTyped DEF IInv, TypeOK, retry_work_assignment
<1> HIDE DEF r
<1>7. Agree(r, attempts[k])
  <2>1. row[k].status \notin UNRESOLVED /\ r.status \notin UNRESOLVED
    BY <1>2, <1>5 DEF UNRESOLVED
  <2> QED BY <1>5, <2>1, IInvMeansAgree DEF Agree, AgreeAt
<1> QED BY <1>1, <1>3, <1>4, <1>5, <1>6, <1>7, WritePreserves

-----------------------------------------------------------------------------
(* The reconciliation, step by step.                                       *)

\* A reconciliation that has returned is typed and claims nothing.
LEMMA IdleIsReconciler ==
    ASSUME NEW k \in Keys
    PROVE  /\ Idle(k) \in Reconciler
           /\ Idle(k).pc = "idle" /\ Idle(k).key = k
BY ConstantsAssumption
   DEF Idle, Reconciler, NoAttempt, Attempt, Statuses

\* A step that only reads keeps the tables; its own knowledge is the goal.
LEMMA ReadPreserves ==
    ASSUME IInv, UNCHANGED <<now, sessions, row, attempts>>, reconciler' \in Reconciler,
           ReconcilerIsCurrent'
    PROVE  IInv' /\ RevisionStep
BY DEF IInv, TypeOK, SingleLiveAttempt, CancelFencesCompletion, RevisionStep

\* The reconciliation's read of the row keeps the invariant: what it will
\* compare is what it has just read.
LEMMA ReadRowPreserves ==
    ASSUME IInv, NEW k \in Keys, ReconcileReadRow(k)
    PROVE  IInv' /\ RevisionStep
<1>1. row[k] \in Row /\ row[k].status # "absent" /\ now \in Nat
      /\ UNCHANGED <<now, sessions, row, attempts>>
  BY DEF IInv, TypeOK, ReconcileReadRow
<1>2. reconciler' = [Idle(k) EXCEPT !.pc = "attempts", !.at = now, !.status = row[k].status,
                                    !.revision = row[k].revision]
  BY DEF ReconcileReadRow
<1>3. /\ reconciler' \in Reconciler
      /\ reconciler'.pc = "attempts" /\ reconciler'.key = k
      /\ reconciler'.status = row[k].status /\ reconciler'.revision = row[k].revision
  <2>1. row[k].status \in Statuses /\ row[k].revision \in 0 .. MaxRevision
    BY <1>1 DEF Row
  <2>2. Idle(k) \in Reconciler /\ Idle(k).key = k
    BY IdleIsReconciler
  <2> QED BY <1>1, <1>2, <2>1, <2>2 DEF Reconciler
<1>4. row[k].revision \in Nat
  BY <1>1, ConstantsAssumption DEF Row
<1>5. ReconcilerIsCurrent'
  BY <1>1, <1>3, <1>4 DEF ReconcilerIsCurrent
<1> QED BY <1>1, <1>3, <1>5, ReadPreserves

\* Its read of the attempts does: as long as the revision stands, they are the
\* attempts of the row it read.
LEMMA ReadAttemptsPreserves ==
    ASSUME IInv, ReconcileReadAttempts
    PROVE  IInv' /\ RevisionStep
<1> DEFINE k == reconciler.key
           g == row[k].generation
<1>1. /\ reconciler \in Reconciler /\ k \in Keys /\ row[k] \in Row
      /\ reconciler.pc = "attempts"
      /\ UNCHANGED <<now, sessions, row, attempts>>
  BY DEF IInv, TypeOK, ReconcileReadAttempts, Reconciler
<1>2. CASE reconciler' = Idle(k)
  <2>1. ReconcilerIsCurrent'
    BY <1>1, <1>2, IdleIsReconciler DEF ReconcilerIsCurrent
  <2> QED BY <1>1, <1>2, <2>1, IdleIsReconciler, ReadPreserves
<1>3. CASE /\ g # 0 /\ reconciler.status \in UNRESOLVED
           /\ reconciler' = [reconciler EXCEPT !.pc = "source", !.generation = g,
                                               !.attempt = attempts[k][g]]
  <2>1. g \in Generations /\ g \in 0 .. MaxGeneration
    BY <1>1, <1>3, ConstantsAssumption DEF Row, Generations
  <2>2. attempts[k][g] \in Attempt /\ attempts[k][g].source \in Sessions
    BY <1>1, <2>1 DEF IInv, TypeOK, SingleLiveAttempt
  <2>3. /\ reconciler' \in Reconciler
        /\ reconciler'.key = k /\ reconciler'.status = reconciler.status
        /\ reconciler'.revision = reconciler.revision /\ reconciler'.generation = g
        /\ reconciler'.attempt = attempts[k][g]
    BY <1>1, <1>3, <2>1, <2>2 DEF Reconciler
  <2>4. ReconcilerIsCurrent'
    BY <1>1, <1>3, <2>1, <2>2, <2>3 DEF IInv, ReconcilerIsCurrent
  <2> QED BY <1>1, <2>3, <2>4, ReadPreserves
<1> QED BY <1>2, <1>3 DEF ReconcileReadAttempts, Current

\* Its read of the attempt's Session decides the outcome and nothing else.
LEMMA ReadSourcePreserves ==
    ASSUME IInv, ReconcileReadSource
    PROVE  IInv' /\ RevisionStep
<1> DEFINE k == reconciler.key
<1>1. /\ reconciler \in Reconciler /\ k \in Keys /\ reconciler.pc = "source"
      /\ UNCHANGED <<now, sessions, row, attempts>>
  BY DEF IInv, TypeOK, ReconcileReadSource, Reconciler
<1>2. CASE reconciler' = Idle(k)
  <2>1. ReconcilerIsCurrent'
    BY <1>1, <1>2, IdleIsReconciler DEF ReconcilerIsCurrent
  <2> QED BY <1>1, <1>2, <2>1, IdleIsReconciler, ReadPreserves
<1>3. ASSUME NEW o \in {"failed", "cancelled"},
             reconciler' = [reconciler EXCEPT !.pc = "settle", !.outcome = o]
      PROVE  IInv' /\ RevisionStep
  <2>1. /\ reconciler' \in Reconciler
        /\ reconciler'.key = k /\ reconciler'.status = reconciler.status
        /\ reconciler'.revision = reconciler.revision
        /\ reconciler'.generation = reconciler.generation
        /\ reconciler'.attempt = reconciler.attempt
    BY <1>1, <1>3 DEF Reconciler
  <2>2. ReconcilerIsCurrent'
    BY <1>1, <2>1 DEF IInv, ReconcilerIsCurrent
  <2> QED BY <1>1, <2>1, <2>2, ReadPreserves
<1> QED BY <1>2, <1>3 DEF ReconcileReadSource

\* The compare-and-set: when it succeeds, the row and its newest attempt are
\* the ones that were read, so the settlement closes exactly that attempt.
LEMMA ReconcileSettlePreserves ==
    ASSUME IInv, ReconcileSettle
    PROVE  IInv' /\ RevisionStep
<1> DEFINE k == reconciler.key
           g == reconciler.generation
           o == reconciler.outcome
           r == [row[k] EXCEPT !.status = o, !.revision = row[k].revision + 1]
           a == [attempts[k][g] EXCEPT !.status = o, !.evidence = "reconciled", !.settled = TRUE]
           as == [attempts[k] EXCEPT ![g] = a]
<1>1. /\ reconciler \in Reconciler /\ k \in Keys /\ row[k] \in Row
      /\ o \in {"failed", "cancelled"}
      /\ reconciler.pc = "settle" /\ reconciler' = Idle(k)
      /\ UNCHANGED <<now, sessions>>
  BY DEF IInv, TypeOK, ReconcileSettle, Reconciler
<1>2. reconciler' \in Reconciler /\ reconciler'.pc = "idle"
  BY <1>1, IdleIsReconciler
<1>3. ReconcilerIsCurrent'
  BY <1>2 DEF ReconcilerIsCurrent
<1>4. CASE UNCHANGED <<row, attempts>>
  BY <1>1, <1>2, <1>3, <1>4, ReadPreserves
<1>5. CASE /\ CasMatches(k) /\ row[k].revision < MaxRevision
           /\ row' = [row EXCEPT ![k] = r] /\ attempts' = [attempts EXCEPT ![k] = as]
  <2>1. g \in Generations /\ g = row[k].generation
    BY <1>1, <1>5 DEF IInv, ReconcilerIsCurrent, CasMatches
  <2>2. attempts[k][g] \in Attempt
    BY <1>1, <2>1 DEF IInv, TypeOK
  <2>3. row[k].revision + 1 \in 0 .. MaxRevision
    BY <1>1, <1>5, ConstantsAssumption DEF Row
  <2>4. o \in Statuses /\ o # "absent" /\ o \in CONCLUSIVE /\ o \notin UNRESOLVED
        /\ o \notin {"accepted", "completed"}
    BY <1>1 DEF Statuses, CONCLUSIVE, UNRESOLVED
  <2>5. r \in Row /\ r.status = o /\ r.revision = row[k].revision + 1
        /\ r.generation = row[k].generation
    BY <1>1, <2>3, <2>4 DEF Row
  <2>6. a \in Attempt /\ a.status = o /\ a.source = attempts[k][g].source /\ a.settled = TRUE
    BY <2>2, <2>4 DEF Attempt
  <2> HIDE DEF r, a
  <2>7. as \in [Generations -> Attempt] /\ Agree(r, as)
    BY <1>1, <2>1, <2>4, <2>5, <2>6, CurrentAttemptRewritten
  <2>8. sessions' \in [Sessions -> SessionRow] /\ now' = now
    BY <1>1 DEF IInv, TypeOK
  <2> HIDE DEF as
  <2>9. TypeOK' /\ SingleLiveAttempt' /\ CancelFencesCompletion' /\ RevisionStep
    BY <1>1, <1>2, <1>5, <2>4, <2>5, <2>7, <2>8, WritePreserves
  <2> QED BY <1>3, <2>9 DEF IInv
<1> QED BY <1>4, <1>5 DEF ReconcileSettle, WriteAttempt, NextRevision

-----------------------------------------------------------------------------
(* Every step preserves the invariant and moves revisions.                 *)

\* Every step preserves the inductive invariant.
LEMMA NextPreservesIInv ==
    ASSUME IInv, [Next]_vars
    PROVE  IInv' /\ RevisionStep
<1>1. ASSUME now' \in 0 .. MaxTime, sessions' \in [Sessions -> SessionRow],
             UNCHANGED <<row, attempts, reconciler>>
      PROVE  IInv' /\ RevisionStep
  BY <1>1, SessionStepPreserves DEF RevisionStep
<1>2. /\ now \in 0 .. MaxTime /\ sessions \in [Sessions -> SessionRow]
      /\ now \in Nat /\ now + LeaseLength \in Nat
  BY ConstantsAssumption DEF IInv, TypeOK
<1>3. CASE Tick
  BY <1>1, <1>2, <1>3, ConstantsAssumption DEF Tick
<1>4. ASSUME NEW s \in Sessions, Heartbeat(s) \/ SweepLease(s) \/ EndSession(s)
      PROVE  IInv' /\ RevisionStep
  <2>1. sessions' \in [Sessions -> SessionRow]
    BY <1>2, <1>4 DEF Heartbeat, SweepLease, EndSession, SessionRow
  <2>2. UNCHANGED <<now, row, attempts, reconciler>>
    BY <1>4 DEF Heartbeat, SweepLease, EndSession
  <2> QED BY <1>1, <1>2, <2>1, <2>2
<1>5. ASSUME NEW k \in Keys, NEW request \in Requests,
             \/ create_operator_assignment(k, request)
             \/ \E s \in Sessions : create_work_assignment(s, k, request)
      PROVE  IInv' /\ RevisionStep
  <2>1. CASE create_operator_assignment(k, request)
    BY <1>2, <2>1, CreatePreserves DEF create_operator_assignment
  <2>2. ASSUME NEW s \in Sessions, create_work_assignment(s, k, request)
        PROVE  IInv' /\ RevisionStep
    BY <2>2, CreatePreserves, RenewLeaseTyped DEF IInv, create_work_assignment
  <2> QED BY <1>5, <2>1, <2>2
<1>6. ASSUME NEW k \in Keys, NEW expected \in 1 .. MaxRevision,
             \/ cancel_operator_assignment(k, expected)
             \/ \E s \in Sessions : cancel_work_assignment(s, k, expected)
      PROVE  IInv' /\ RevisionStep
  <2>1. CASE cancel_operator_assignment(k, expected)
    BY <1>2, <2>1, CancelPreserves DEF cancel_operator_assignment
  <2>2. ASSUME NEW s \in Sessions, cancel_work_assignment(s, k, expected)
        PROVE  IInv' /\ RevisionStep
    BY <2>2, CancelPreserves, RenewLeaseTyped DEF IInv, cancel_work_assignment
  <2> QED BY <1>6, <2>1, <2>2
<1>7. CASE SessionStep
  BY <1>4, <1>7 DEF SessionStep
<1>8. CASE AssignmentStep
  BY <1>5, <1>6, <1>8, AcceptPreserves, RetryPreserves, SettlePreserves DEF AssignmentStep
<1>9. CASE ReconcileStep
  BY <1>9, ReadRowPreserves, ReadAttemptsPreserves, ReadSourcePreserves,
     ReconcileSettlePreserves DEF ReconcileStep
<1>10. CASE UNCHANGED vars
  BY <1>1, <1>2, <1>10 DEF vars
<1> QED BY <1>3, <1>7, <1>8, <1>9, <1>10 DEF Next

\* The inductive invariant holds in every reachable state.
LEMMA IInvHolds == Spec => []IInv
<1>1. Init => IInv
  BY InitEstablishesIInv
<1>2. IInv /\ [Next]_vars => IInv'
  BY NextPreservesIInv
<1> QED BY <1>1, <1>2, PTL DEF Spec

-----------------------------------------------------------------------------

\* Every row keeps its columns' types and the table's CHECK constraints.
THEOREM TypeCorrect == Spec => []TypeOK
<1>1. IInv => TypeOK
  BY DEF IInv
<1> QED BY <1>1, IInvHolds, PTL

\* However calls and a lock-free reconciliation interleave, an assignment has
\* at most one unresolved attempt, the newest, in the row's own status.
THEOREM OneLiveAttempt == Spec => []SingleLiveAttempt
<1>1. IInv => SingleLiveAttempt
  BY DEF IInv
<1> QED BY <1>1, IInvHolds, PTL

\* No attempt that was asked to cancel is ever recorded as completed.
THEOREM CancellationFences == Spec => []CancelFencesCompletion
<1>1. IInv => CancelFencesCompletion
  BY DEF IInv
<1> QED BY <1>1, IInvHolds, PTL

\* The compare-and-set of a reconciliation never succeeds on a row or an
\* attempt it has not read.
THEOREM ReconcilerKnowsItsTarget == Spec => []ReconcilerIsCurrent
<1>1. IInv => ReconcilerIsCurrent
  BY DEF IInv
<1> QED BY <1>1, IInvHolds, PTL

\* Nothing about an assignment changes without its revision moving by one.
THEOREM RevisionsNameStates == Spec => [][RevisionStep]_vars
<1>1. IInv /\ [Next]_vars => [RevisionStep]_vars
  BY NextPreservesIInv
<1> QED BY <1>1, IInvHolds, PTL DEF Spec, RevisionStep

-----------------------------------------------------------------------------
(* Conclusive attempts are history.                                        *)

\* Writing an attempt that is not conclusive changes no conclusive one.
LEMMA WriteIsFinal ==
    ASSUME TypeOK, NEW k \in Keys, NEW g \in Generations, NEW a, WriteAttempt(k, g, a),
           attempts[k][g].status \notin CONCLUSIVE
    PROVE  FinalStep
<1> SUFFICES ASSUME NEW j \in Keys, NEW h \in Generations,
                    attempts[j][h].status \in CONCLUSIVE
             PROVE  attempts'[j][h] = attempts[j][h]
  BY DEF FinalStep
<1>1. attempts \in [Keys -> [Generations -> Attempt]] /\ attempts[k] \in [Generations -> Attempt]
  BY DEF TypeOK
<1>2. attempts' = [attempts EXCEPT ![k] = [attempts[k] EXCEPT ![g] = a]]
  BY Zenon DEF WriteAttempt
<1>3. CASE j # k
  BY <1>1, <1>2, <1>3
<1>4. CASE j = k
  <2>1. h # g
    BY <1>4
  <2>2. attempts'[k] = [attempts[k] EXCEPT ![g] = a]
    BY <1>1, <1>2
  <2> QED BY <1>1, <1>4, <2>1, <2>2
<1> QED BY <1>3, <1>4

\* No step changes a conclusive attempt.
LEMMA NextIsFinal ==
    ASSUME IInv, [Next]_vars
    PROVE  FinalStep
<1>0. TypeOK
  BY DEF IInv
<1>1. CASE UNCHANGED attempts
  BY <1>1 DEF FinalStep
<1>2. ASSUME NEW s \in Sessions, NEW k \in Keys, NEW expected \in 1 .. MaxRevision,
             accept_work_assignment(s, k, expected)
      PROVE  FinalStep
  <2> DEFINE g == row[k].generation + 1
  <2>1. row[k].generation \in 0 .. MaxGeneration /\ row[k].generation < MaxGeneration
    BY <1>0, <1>2 DEF TypeOK, Row, accept_work_assignment
  <2>2. g \in Generations /\ g > row[k].generation
    BY <2>1, ConstantsAssumption DEF Generations
  <2>3. attempts[k][g].status = "absent"
    BY <2>2 DEF IInv, SingleLiveAttempt, NoAttempt
  <2> HIDE DEF g
  <2>4. PICK a : WriteAttempt(k, g, a)
    BY <1>2, Zenon DEF accept_work_assignment, g
  <2> QED BY <1>0, <2>2, <2>3, <2>4, WriteIsFinal DEF CONCLUSIVE
<1>3. ASSUME NEW s \in Sessions, NEW k \in Keys, NEW expected \in 1 .. MaxRevision,
             NEW g \in Generations, NEW outcome \in Outcomes, NEW evidence \in Evidence,
             settle_work_assignment(s, k, g, outcome, evidence, expected)
      PROVE  FinalStep
  <2>1. attempts[k][g].status \notin CONCLUSIVE
    BY <1>3 DEF settle_work_assignment, Outcomes
  <2>2. PICK a : WriteAttempt(k, g, a)
    BY <1>3, Zenon DEF settle_work_assignment
  <2> QED BY <1>0, <2>1, <2>2, WriteIsFinal
<1>4. ASSUME NEW k \in Keys, NEW expected \in 1 .. MaxRevision, CancelAssignment(k, expected)
      PROVE  FinalStep
  <2> DEFINE g == row[k].generation
             status == CASE row[k].status = "ready"     -> "cancelled"
                         [] row[k].status = "uncertain" -> "uncertain"
                         [] OTHER                       -> "cancel_requested"
             a == [Current(k) EXCEPT !.status = status, !.cancel = TRUE]
  <2>1. IF g # 0 /\ status # "cancelled" THEN WriteAttempt(k, g, a) ELSE UNCHANGED attempts
    BY <1>4, Zenon DEF CancelAssignment
  <2>2. g \in 0 .. MaxGeneration /\ row[k].status \in {"ready", "accepted", "uncertain"}
    BY <1>0, <1>4 DEF TypeOK, Row, CancelAssignment, CancelEffective
  <2>3. CASE g # 0 /\ status # "cancelled"
    <3>1. row[k].status \in {"accepted", "uncertain"}
      BY <2>2, <2>3
    <3>2. g \in Generations
      BY <2>2, <2>3, ConstantsAssumption DEF Generations
    <3>3. attempts[k][g].status = row[k].status
      BY <3>1, <3>2 DEF IInv, SingleLiveAttempt, UNRESOLVED
    <3> HIDE DEF a
    <3>4. WriteAttempt(k, g, a)
      BY <2>1, <2>3
    <3> QED BY <1>0, <3>1, <3>2, <3>3, <3>4, WriteIsFinal DEF CONCLUSIVE
  <2> QED BY <1>1, <2>1, <2>3
<1>5. CASE ReconcileSettle
  <2> DEFINE k == reconciler.key
             g == reconciler.generation
  <2>1. k \in Keys /\ reconciler.pc = "settle"
    BY <1>0, <1>5 DEF TypeOK, Reconciler, ReconcileSettle
  <2>2. CASE CasMatches(k)
    <3>1. g \in Generations /\ g = row[k].generation /\ row[k].status \in UNRESOLVED
      BY <2>1, <2>2 DEF IInv, ReconcilerIsCurrent, CasMatches
    <3>2. attempts[k][g].status \in UNRESOLVED
      BY <2>1, <3>1 DEF IInv, SingleLiveAttempt
    <3>3. PICK a : WriteAttempt(k, g, a)
      BY <1>5, <2>2, Zenon DEF ReconcileSettle
    <3> QED BY <1>0, <2>1, <3>1, <3>2, <3>3, WriteIsFinal DEF CONCLUSIVE, UNRESOLVED
  <2>3. CASE ~CasMatches(k)
    BY <1>1, <1>5, <2>3 DEF ReconcileSettle
  <2> QED BY <2>2, <2>3
<1>6. CASE Tick \/ SessionStep \/ UNCHANGED vars
  BY <1>1, <1>6 DEF Tick, SessionStep, Heartbeat, SweepLease, EndSession, vars
<1>7. CASE AssignmentStep
  BY <1>1, <1>2, <1>3, <1>4, <1>7
     DEF AssignmentStep, create_operator_assignment, create_work_assignment, CreateRow,
         cancel_operator_assignment, cancel_work_assignment, retry_work_assignment
<1>8. CASE ReconcileStep
  BY <1>1, <1>5, <1>8
     DEF ReconcileStep, ReconcileReadRow, ReconcileReadAttempts, ReconcileReadSource
<1> QED BY <1>6, <1>7, <1>8 DEF Next

\* One live attempt, a reconciliation that settles only what it read, and no
\* completion of cancelled work, together.
THEOREM AttemptsFenced == Spec => []AttemptsAreFenced
<1>1. IInv => AttemptsAreFenced
  BY DEF IInv, AttemptsAreFenced
<1> QED BY <1>1, IInvHolds, PTL

\* Nothing changes without its revision moving by one, and outcome, evidence
\* and source of a conclusive attempt never change again.
THEOREM HistoryStands == Spec => RevisionsAreHistory
<1>1. IInv /\ [Next]_vars => [RevisionStep /\ FinalStep]_vars
  BY NextPreservesIInv, NextIsFinal
<1> QED BY <1>1, IInvHolds, PTL DEF Spec, RevisionsAreHistory, RevisionStep, FinalStep

\* What the operator is shown is what the operations do: a source's availability and the
\* can_cancel permission, each computed apart from the guard it speaks of.
THEOREM ShownTrue == Spec => []ShownIsTrue
<1>1. IInv => ShownIsTrue
  <2> SUFFICES ASSUME IInv PROVE ShownIsTrue
    OBVIOUS
  <2>1. ASSUME NEW s \in Sessions PROVE SourceUnavailable(s, now) <=> ~Live(s)
    <3>1. now \in Nat /\ sessions[s].lease \in Nat
      BY DEF IInv, TypeOK, SessionRow
    <3> QED BY <3>1 DEF SourceUnavailable, Live
  <2>2. ASSUME NEW k \in Keys PROVE CanCancel(k) <=> CancelEffective(k)
    BY DEF CanCancel, CancelEffective
  <2> QED BY <2>1, <2>2 DEF ShownIsTrue, ObservationMatchesAuthority, PermissionMatchesCancel
<1> QED BY <1>1, IInvHolds, PTL

=============================================================================
