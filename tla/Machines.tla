------------------------------ MODULE Machines ------------------------------
(* Connecting a machine: enrolment tokens, the Runtimes it registers, one  *)
(* per tool, and the Org that owns it (control/enrolment.py,               *)
(* control/runtimes.py).  A SELECT sees the store of its own moment; the   *)
(* first write of a transaction takes the write lock, and what follows it  *)
(* up to the commit is one step.                                           *)
EXTENDS Integers, FiniteSets

CONSTANTS Orgs, Tools, Tokens,
          Writers,      \* callers of redeem_token, register_runtime and set_status
          None,
          MaxBeats      \* bound: heartbeats of one Runtime

ASSUME MachinesAssumption == MaxBeats \in Nat

Owners == Orgs \cup {None}

VARIABLES token,        \* enrolment_tokens
          minted,       \* token -> Runtime credentials minted by its redemptions
          credential,   \* token -> its Runtime credential
          runtime,      \* tool -> its row on the machine
          writer,       \* caller -> the call it is in
          sweeping      \* tool -> the heartbeat the sweep read, -1 for none; "rest" between sweeps
machineVars == <<token, minted, credential, runtime, writer, sweeping>>

NoToken == [org |-> None, status |-> "none", expired |-> FALSE]
NoCredential == [org |-> None, status |-> "none"]
NoRuntime == [org |-> None, status |-> "absent", beat |-> 0, silent |-> FALSE]
AtRest == [at |-> "rest", token |-> None, tool |-> None, org |-> None, claimed |-> None, attempts |-> 0, status |-> "absent"]
NoSweep == [t \in Tools |-> -1]

Statuses == {"online", "offline", "draining"}
MachineTypeOK ==
    /\ token \in [Tokens -> [org : Owners, status : {"none", "open", "redeemed"}, expired : BOOLEAN]]
    /\ credential \in [Tokens -> [org : Owners, status : {"none", "live", "revoked"}]]
    /\ runtime \in [Tools -> [org : Owners, status : Statuses \cup {"absent"}, beat : 0..MaxBeats, silent : BOOLEAN]]
    /\ \A w \in Writers : /\ writer[w].at \in {"rest", "redeem", "look", "claim", "insert", "update", "status"}
                          /\ writer[w].attempts \in 0..3 /\ {writer[w].org, writer[w].claimed} \subseteq Owners
    /\ sweeping \in [Tools -> -1..MaxBeats]

MachineInit ==
    /\ token = [k \in Tokens |-> NoToken] /\ minted = [k \in Tokens |-> 0]
    /\ credential = [k \in Tokens |-> NoCredential]
    \* rows of before Orgs, which nobody owns
    /\ runtime \in [Tools -> {NoRuntime, [NoRuntime EXCEPT !.status = "online"]}]
    /\ writer = [w \in Writers |-> AtRest] /\ sweeping = NoSweep

----------------------------------------------------------------------------
(* Who owns the machine.                                                   *)

Declared(others) == {runtime[t].org : t \in others} \ {None}
Credentialed == {credential[k].org : k \in {j \in Tokens : credential[j].status = "live"}} \ {None}
\* machine_claim_org_id: the Runtimes first, then the live credentials.
ClaimedBy(others) ==
    IF Declared(others) # {} THEN CHOOSE o \in Declared(others) : TRUE
    ELSE IF Credentialed # {} THEN CHOOSE o \in Credentialed : TRUE ELSE None
Conflict(claimed, org) == claimed # None /\ org # None /\ claimed # org

Writing(w, record) == writer' = [writer EXCEPT ![w] = record]
Rest(w) == Writing(w, AtRest)

----------------------------------------------------------------------------
(* Enrolment.                                                              *)

mint_token(k) ==
    /\ token[k].status = "none"
    /\ \E org \in Owners : token' = [token EXCEPT ![k] = [org |-> org, status |-> "open", expired |-> FALSE]]
    /\ UNCHANGED <<minted, credential, runtime, writer, sweeping>>
Expire(k) ==
    /\ token[k].status = "open" /\ ~token[k].expired
    /\ token' = [token EXCEPT ![k].expired = TRUE]
    /\ UNCHANGED <<minted, credential, runtime, writer, sweeping>>

\* The row is read, and its deadline compared with the time the call began.
RedeemRead(w) ==
    /\ writer[w].at = "rest"
    /\ \E k \in Tokens : /\ token[k].status # "none" /\ ~token[k].expired
                         /\ Writing(w, [AtRest EXCEPT !.at = "redeem", !.token = k])
    /\ UNCHANGED <<token, minted, credential, runtime, sweeping>>

Unredeemed(k) == token[k].status = "open"
Mint(k, org) ==
    /\ credential' = [credential EXCEPT ![k] = [org |-> org, status |-> "live"]]
    /\ minted' = [minted EXCEPT ![k] = @ + 1]
\* The conditional update takes the token, then the machine's claim is read and the credential
\* minted, or all of it is rolled back; the tools of the machine are registered afterwards.
redeem_token(w) ==
    /\ writer[w].at = "redeem"
    /\ LET k == writer[w].token
           claimed == ClaimedBy(Tools)
           org == IF token[k].org # None THEN token[k].org ELSE claimed
       IN IF Unredeemed(k) /\ ~Conflict(claimed, token[k].org)
          THEN /\ token' = [token EXCEPT ![k].status = "redeemed"]
               /\ Mint(k, org)
               /\ \/ Rest(w)
                  \/ \E t \in Tools : Writing(w, [AtRest EXCEPT !.at = "look", !.tool = t, !.org = org])
          ELSE Rest(w) /\ UNCHANGED <<token, minted, credential>>
    /\ UNCHANGED <<runtime, sweeping>>

\* revoke_credential, revoke_machine_credentials
Revoke(k) ==
    /\ credential[k].status = "live"
    /\ credential' = [credential EXCEPT ![k].status = "revoked"]
    /\ UNCHANGED <<token, minted, runtime, writer, sweeping>>

----------------------------------------------------------------------------
(* register_runtime: at most three attempts of an insert or an update.     *)

register_runtime(w) ==
    /\ writer[w].at = "rest"
    /\ \E t \in Tools, org \in Owners : Writing(w, [AtRest EXCEPT !.at = "look", !.tool = t, !.org = org])
    /\ UNCHANGED <<token, minted, credential, runtime, sweeping>>
Look(w) ==
    /\ writer[w].at = "look"
    /\ Writing(w, [writer[w] EXCEPT !.at = IF runtime[writer[w].tool].status = "absent" THEN "claim" ELSE "update",
                                    !.attempts = @ + 1])
    /\ UNCHANGED <<token, minted, credential, runtime, sweeping>>
\* Refused early, or the Org of the row settled: a registration that names none inherits.
ReadClaim(w) ==
    /\ writer[w].at = "claim"
    /\ LET claimed == ClaimedBy(Tools)
       IN IF Conflict(claimed, writer[w].org) THEN Rest(w)
          ELSE Writing(w, [writer[w] EXCEPT !.at = "insert", !.claimed = claimed])
    /\ UNCHANGED <<token, minted, credential, runtime, sweeping>>

\* A registration is a heartbeat too.
Fresh(t, org) == [runtime EXCEPT ![t].org = org, ![t].status = "online", ![t].silent = FALSE, ![t].beat = @ + 1]
\* The insert, then the claim of the others from inside its transaction: joined, or in conflict.
BugClaimNow(t) == None
ClaimNow(t) == ClaimedBy(Tools \ {t})
Insert(w) ==
    /\ writer[w].at = "insert" /\ runtime[writer[w].tool].beat < MaxBeats
    /\ LET t == writer[w].tool
           org == IF writer[w].org # None THEN writer[w].org ELSE writer[w].claimed
       IN IF runtime[t].status # "absent"
          THEN /\ IF writer[w].attempts < 3 THEN Writing(w, [writer[w] EXCEPT !.at = "look"]) ELSE Rest(w)
               /\ UNCHANGED runtime
          ELSE /\ Rest(w)
               /\ runtime' = IF Conflict(ClaimNow(t), org) THEN runtime
                             ELSE Fresh(t, IF org = None THEN ClaimNow(t) ELSE org)
    /\ UNCHANGED <<token, minted, credential, sweeping>>
\* The update is refused by its own WHERE clause (a row of another Org, this one included), or
\* by the claim read after it.
Siblings(org) == {t \in Tools : runtime[t].org \notin {None, org}}
Update(w) ==
    /\ writer[w].at = "update" /\ runtime[writer[w].tool].beat < MaxBeats
    /\ LET t == writer[w].tool
           org == writer[w].org
       IN runtime' = IF org # None /\ (Siblings(org) # {} \/ Conflict(ClaimNow(t), org)) THEN runtime
                     ELSE Fresh(t, IF org = None THEN runtime[t].org ELSE org)
    /\ Rest(w)
    /\ UNCHANGED <<token, minted, credential, sweeping>>

----------------------------------------------------------------------------
(* Liveness of a Runtime.                                                  *)

\* One update: the status the daemon names, or offline becomes online.
heartbeat(t) ==
    /\ runtime[t].status # "absent" /\ runtime[t].beat < MaxBeats
    /\ \E named \in {"online", "draining", "none"} :
        runtime' = [runtime EXCEPT ![t].beat = @ + 1, ![t].silent = FALSE,
                        ![t].status = IF named # "none" THEN named ELSE IF @ = "offline" THEN "online" ELSE @]
    /\ UNCHANGED <<token, minted, credential, writer, sweeping>>
\* set_status and mark_offline: a row that is read, and a status that is written if it differs.
ReadRuntime(w) ==
    /\ writer[w].at = "rest"
    /\ \E t \in Tools : /\ runtime[t].status # "absent"
                        /\ Writing(w, [AtRest EXCEPT !.at = "status", !.tool = t, !.status = runtime[t].status])
    /\ UNCHANGED <<token, minted, credential, runtime, sweeping>>
set_status(w) ==
    /\ writer[w].at = "status"
    /\ \E s \in Statuses :
        runtime' = IF s = writer[w].status THEN runtime ELSE [runtime EXCEPT ![writer[w].tool].status = s]
    /\ Rest(w)
    /\ UNCHANGED <<token, minted, credential, sweeping>>
\* The lifetime of a heartbeat goes by.
Silence(t) ==
    /\ runtime[t].status # "absent" /\ ~runtime[t].silent
    /\ runtime' = [runtime EXCEPT ![t].silent = TRUE]
    /\ UNCHANGED <<token, minted, credential, writer, sweeping>>

SweepRead ==
    /\ sweeping = NoSweep
    /\ sweeping' = [t \in Tools |-> IF runtime[t].status = "online" /\ runtime[t].silent THEN runtime[t].beat ELSE -1]
    /\ UNCHANGED <<token, minted, credential, runtime, writer>>
\* Each update asks again for the status and for the very heartbeat that was read.
BugStillSilent(t) == runtime[t].status = "online"
StillSilent(t) == runtime[t].status = "online" /\ runtime[t].beat = sweeping[t]
sweep_stale ==
    /\ sweeping # NoSweep
    /\ runtime' = [t \in Tools |-> IF sweeping[t] # -1 /\ StillSilent(t) THEN [runtime[t] EXCEPT !.status = "offline"] ELSE runtime[t]]
    /\ sweeping' = NoSweep
    /\ UNCHANGED <<token, minted, credential, writer>>

MachineNext ==
    \/ \E k \in Tokens : mint_token(k) \/ Expire(k) \/ Revoke(k)
    \/ \E w \in Writers : \/ RedeemRead(w) \/ redeem_token(w) \/ register_runtime(w) \/ Look(w) \/ ReadClaim(w)
                          \/ Insert(w) \/ Update(w) \/ ReadRuntime(w) \/ set_status(w)
    \/ \E t \in Tools : heartbeat(t) \/ Silence(t)
    \/ SweepRead \/ sweep_stale

----------------------------------------------------------------------------
\* "A machine belongs to exactly one Org": whatever races, its Runtimes and its live
\* credentials name at most one (serialize_machine_claim's cross-row rule).
OneOrgPerMachine == Cardinality(Declared(Tools) \cup Credentialed) <= 1

\* "exactly one winner", and "a refused redemption rolls the token claim back": a token is
\* spent exactly when one credential was minted for it.
SpentOnce == \A k \in Tokens : minted[k] = IF token[k].status = "redeemed" THEN 1 ELSE 0

\* Whatever registrations, redemptions and revocations race: the machine has one Org and a
\* token buys one credential.
MachinesAreSound == MachineTypeOK /\ OneOrgPerMachine /\ SpentOnce

\* The sweep takes no Runtime offline that was heard of, or drained, since it was read.
SweptIsSilent ==
    sweep_stale => \A t \in Tools : runtime'[t] # runtime[t] => runtime[t].silent /\ runtime[t].status = "online"
=============================================================================
