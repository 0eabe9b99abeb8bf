----------------------------- MODULE MCPlatform -----------------------------
(* What a host runs beside the coordination itself: schema migrations, the *)
(* supervisor, the native service and the credential store.  They share no *)
(* state, so one of them moves at a time.                                  *)
EXTENDS Migrations, Supervisor, ServiceStop, Credentials

CONSTANTS old, new

\* Two builds: the old one ships two migrations and runs the second on SQLite only.
Corpus == [b \in {old, new} |-> IF b = old THEN {1, 2} ELSE {1, 2, 3}]
Implemented == [b \in {old, new} |-> [sqlite |-> Corpus[b], postgresql |-> IF b = old THEN {1} ELSE {1, 2, 3}]]

\* A component at rest while another moves.
MigrationStart == MigrationInit /\ backend = "sqlite" /\ shape = "none"
ServiceStart == ServiceInit /\ legible

PlatformVars == <<migrationVars, superVars, serviceVars, credentialVars>>
PlatformInit == MigrationInit /\ SuperInit /\ ServiceInit /\ CredentialInit
PlatformNext ==
    \/ /\ SuperInit /\ ServiceStart /\ CredentialInit /\ MigrationNext
       /\ UNCHANGED <<superVars, serviceVars, credentialVars>>
    \/ /\ MigrationStart /\ ServiceStart /\ CredentialInit /\ SuperNext
       /\ UNCHANGED <<migrationVars, serviceVars, credentialVars>>
    \/ /\ MigrationStart /\ SuperInit /\ CredentialInit /\ ServiceNext
       /\ UNCHANGED <<migrationVars, superVars, credentialVars>>
    \/ /\ MigrationStart /\ SuperInit /\ ServiceStart /\ CredentialNext
       /\ UNCHANGED <<migrationVars, superVars, serviceVars>>
PlatformSpec == PlatformInit /\ [][PlatformNext]_PlatformVars /\ SuperFairness

\* One process of a Child lives at a time; the service's stop reports no running supervisor gone,
\* however PIDs are handed on between its steps, and strikes another process than the one it
\* recorded only where the PID changed hands after the last look at it.
HostIsHonest ==
    /\ SuperTypeOK /\ OneProcess
    /\ ServiceTypeOK /\ StopIsTrue /\ OnlyTheRecorded
    /\ CredentialTypeOK

\* What one actor recorded is not undone by another's stale knowledge: a supervisor's PID
\* record by somebody else's stop, but for one written between its last look at the file and the
\* removal; a key's revocation or issue by a passive reconciliation.
HostRecordsStand == [][ReplacementKept /\ RevokedStays /\ OnlyExplicitRevokes]_<<serviceVars, credentialVars>>

\* Bound: processes that run migrations at one time are of one build.
OneBuild == \A p, q \in Runners : runner[p].at # "idle" /\ runner[q].at # "idle" => runner[p].build = runner[q].build
=============================================================================
