----------------------------- MODULE MCCustody -----------------------------
(* The custody of what the host keeps outside one transaction: the         *)
(* operator's backups and restores of the store, what a repair does inside *)
(* its transaction, the settings file of another program that wire puts a  *)
(* hook into, and the identity of a native session whose hooks are short-  *)
(* lived processes.  Recovery has the frame of a repair and Integrity its  *)
(* passes; they share no state, so one of the four moves at a time.        *)
EXTENDS Recovery, Integrity, SettingsFile, OpenCode, TLC

\* The parts of a store that are damaged together: any three of them, and any of those that do
\* not hang on the Workspace's Org or on the Session's own state.
Damaged == {parts \in SUBSET Parts : Cardinality(parts) <= 3} \cup SUBSET (Parts \ {"org", "session"})

\* The repair at rest, over a sound store, while the operator's commands move.
IntegrityStart == db = Sound /\ saved = Sound /\ repair = AtRepair

CustodyVars == <<recoveryVars, integrityVars, handVars, hookVars>>
CustodyStart == RecoveryInit /\ IntegrityStart /\ SettingsInit /\ OpenCodeInit
CustodyInit == RecoveryInit /\ IntegrityInit /\ SettingsInit /\ OpenCodeInit
CustodyNext ==
    \/ /\ IntegrityStart /\ SettingsInit /\ OpenCodeInit /\ RecoveryNext
       /\ UNCHANGED <<integrityVars, handVars, hookVars>>
    \/ /\ RecoveryInit /\ SettingsInit /\ OpenCodeInit /\ IntegrityNext
       /\ UNCHANGED <<recoveryVars, handVars, hookVars>>
    \/ /\ RecoveryInit /\ IntegrityStart /\ OpenCodeInit /\ SettingsNext
       /\ UNCHANGED <<recoveryVars, integrityVars, hookVars>>
    \/ /\ RecoveryInit /\ IntegrityStart /\ SettingsInit /\ OpenCodeNext
       /\ UNCHANGED <<recoveryVars, integrityVars, handVars>>
CustodySpec == CustodyInit /\ [][CustodyNext]_CustodyVars

\* Nothing that a person or another program wrote is lost: the operator's rollback points and
\* archives are what they stand for, the latest edit of the settings file is in a file, and
\* what is needed to take our hook out again is kept as long as the hook is in; and the binding
\* file of a native session proves its identity, which has one reachable incarnation.
FilesAreSafe == RecoveryIsSound /\ EditsSurvive /\ HookIsNamed /\ PriorIsKept /\ IdentityIsOne

\* Bound: two of the processes contend at a time, for edits and deaths that are four together,
\* and one of either where two got into the lock.
HandsApart ==
    /\ Cardinality({p \in Hands : handAt[p] # "out"}) <= 2
    /\ edits + deaths <= 4
    /\ crowded => edits + deaths <= 1

\* Processes of a kind are alike.
HandSymmetry == Permutations(Hands) \cup Permutations(Hooks)
=============================================================================
