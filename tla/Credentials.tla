---------------------------- MODULE Credentials ----------------------------
(* The adoption of keys on disk into the credential store, and the caches  *)
(* each process keeps of both (authz/credentials.py; key files and their   *)
(* rotation in control/operators.py and api/admin_key.py).  The store and  *)
(* the files are shared; a source cache, a synced fingerprint and a        *)
(* negative cache belong to one process.                                   *)
EXTENDS Integers, FiniteSets

CONSTANTS Keys,         \* operator keys
          Processes,
          MaxWrites     \* bound: times a key file appears or goes

ASSUME CredentialAssumption == Keys # {} /\ MaxWrites \in Nat

VARIABLES files,        \* the keys in a file
          stamp,        \* what stat shows of the directory: changes with every write
          row,          \* key -> its row: "none", "active" or "revoked"
          sources,      \* process -> its source cache
          synced,       \* process -> the stamp it last reconciled, -1 for none
          missed,       \* process -> keys in its negative cache
          request       \* process -> the call it is in
credentialVars == <<files, stamp, row, sources, synced, missed, request>>

NoCache == [held |-> FALSE, fresh |-> FALSE, keys |-> {}, stamp |-> -1]
NoRequest == [at |-> "idle", key |-> CHOOSE k \in Keys : TRUE, adopt |-> {}, stamp |-> -1]

CredentialTypeOK ==
    /\ files \subseteq Keys /\ stamp \in 0..MaxWrites /\ row \in [Keys -> {"none", "active", "revoked"}]
    /\ sources \in [Processes -> [held : BOOLEAN, fresh : BOOLEAN, keys : SUBSET Keys, stamp : -1..MaxWrites]]
    /\ synced \in [Processes -> -1..MaxWrites] /\ missed \in [Processes -> SUBSET Keys]
    /\ request \in [Processes -> [at : {"idle", "lookup", "sync", "adopt", "register", "again", "miss",
                                        "issued", "revoke", "invalidate"},
                                  key : Keys, adopt : SUBSET Keys, stamp : -1..MaxWrites]]

CredentialInit ==
    /\ files = {} /\ stamp = 0 /\ row = [k \in Keys |-> "none"]
    /\ sources = [p \in Processes |-> NoCache] /\ synced = [p \in Processes |-> -1]
    /\ missed = [p \in Processes |-> {}] /\ request = [p \in Processes |-> NoRequest]

----------------------------------------------------------------------------
At(p, place) == request[p].at = place
Goto(p, place) == request' = [request EXCEPT ![p].at = place]
Rest(p) == request' = [request EXCEPT ![p] = NoRequest]
Forget(p) == missed' = [missed EXCEPT ![p] = {}]

\* Somebody puts a key file there or takes it away: a restored backup, a mounted directory.
FilesChange ==
    /\ stamp < MaxWrites
    /\ \E k \in Keys : files' = IF k \in files THEN files \ {k} ELSE files \cup {k}
    /\ stamp' = stamp + 1
    /\ UNCHANGED <<row, sources, synced, missed, request>>
\* SOURCE_CACHE_TTL_SECONDS and NEGATIVE_CACHE_TTL_SECONDS go by.
Lapse(p) ==
    /\ sources[p].fresh \/ missed[p] # {}
    /\ \/ sources' = [sources EXCEPT ![p].fresh = FALSE] /\ UNCHANGED missed
       \/ Forget(p) /\ UNCHANGED sources
    /\ UNCHANGED <<files, stamp, row, synced, request>>

----------------------------------------------------------------------------
(* resolve_secret: the negative cache, the store, the files, the store.    *)

Resolve(p) ==
    /\ At(p, "idle")
    /\ \E k \in Keys \ missed[p] : request' = [request EXCEPT ![p] = [NoRequest EXCEPT !.at = "lookup", !.key = k]]
    /\ UNCHANGED <<files, stamp, row, sources, synced, missed>>
Lookup(p) ==
    /\ At(p, "lookup") \/ At(p, "again")
    /\ IF row[request[p].key] = "active" THEN Rest(p)
       ELSE Goto(p, IF At(p, "lookup") THEN "sync" ELSE "miss")
    /\ UNCHANGED <<files, stamp, row, sources, synced, missed>>
RememberMiss(p) ==
    /\ At(p, "miss")
    /\ missed' = [missed EXCEPT ![p] = @ \cup {request[p].key}]
    /\ Rest(p)
    /\ UNCHANGED <<files, stamp, row, sources, synced>>

\* local_key_sources: within the TTL as cached; after it read again if the stamp moved.
Sources(p) ==
    IF sources[p].held /\ sources[p].fresh THEN sources[p]
    ELSE IF sources[p].held /\ sources[p].stamp = stamp THEN [sources[p] EXCEPT !.fresh = TRUE]
    ELSE [held |-> TRUE, fresh |-> TRUE, keys |-> files, stamp |-> stamp]

\* sync_local_credentials: the stamp of now, and the sources as the cache has them.
Sync(p) ==
    /\ At(p, "sync")
    /\ sources' = [sources EXCEPT ![p] = Sources(p)]
    /\ request' = [request EXCEPT ![p].at = IF synced[p] = stamp THEN "again" ELSE "adopt",
                                  ![p].adopt = Sources(p).keys, ![p].stamp = stamp]
    /\ UNCHANGED <<files, stamp, row, synced, missed>>
\* _adopt_if_needed reads the row in a transaction and registers in another.
Adopt(p) ==
    /\ At(p, "adopt") /\ request[p].adopt # {}
    /\ \E k \in request[p].adopt :
        request' = [request EXCEPT ![p].adopt = @ \ {k}, ![p].key = IF row[k] = "none" THEN k ELSE @,
                                   ![p].at = IF row[k] = "none" THEN "register" ELSE @]
    /\ UNCHANGED <<files, stamp, row, sources, synced, missed>>
\* _register_credential_in: a row that exists by now keeps its revocation unless the
\* registration is an explicit one.
Registered(k, explicit) ==
    row' = [row EXCEPT ![k] = IF @ = "revoked" /\ ~explicit THEN "revoked" ELSE "active"]
Register(p) ==
    /\ At(p, "register")
    /\ Registered(request[p].key, FALSE)
    /\ missed' = [missed EXCEPT ![p] = @ \ {request[p].key}]
    /\ Goto(p, "adopt")
    /\ UNCHANGED <<files, stamp, sources, synced>>
Synced(p) ==
    /\ At(p, "adopt") /\ request[p].adopt = {}
    /\ synced' = [synced EXCEPT ![p] = request[p].stamp]
    /\ Goto(p, "again")
    /\ UNCHANGED <<files, stamp, row, sources, missed>>

----------------------------------------------------------------------------
(* Explicit acts.                                                          *)

\* add_operator, and a rotation: the file is written, then the key registered.
Issue(p) ==
    /\ At(p, "idle") /\ stamp < MaxWrites
    /\ \E k \in Keys \ files :
        /\ files' = files \cup {k}
        /\ request' = [request EXCEPT ![p] = [NoRequest EXCEPT !.at = "issued", !.key = k]]
    /\ stamp' = stamp + 1
    /\ UNCHANGED <<row, sources, synced, missed>>
RegisterIssued(p) ==
    /\ At(p, "issued")
    /\ Registered(request[p].key, TRUE)
    /\ Goto(p, "invalidate")
    /\ UNCHANGED <<files, stamp, sources, synced, missed>>
\* remove_operator_key: the file goes, then exactly the key it held is revoked.
Remove(p) ==
    /\ At(p, "idle") /\ stamp < MaxWrites
    /\ \E k \in files :
        /\ files' = files \ {k}
        /\ request' = [request EXCEPT ![p] = [NoRequest EXCEPT !.at = "revoke", !.key = k]]
    /\ stamp' = stamp + 1
    /\ UNCHANGED <<row, sources, synced, missed>>
\* revoke_local_secret
Revoke(p) ==
    /\ At(p, "revoke")
    /\ row' = [row EXCEPT ![request[p].key] = IF @ = "none" THEN @ ELSE "revoked"]
    /\ missed' = [missed EXCEPT ![p] = IF row[request[p].key] = "none" THEN @ ELSE {request[p].key}]
    /\ Goto(p, "invalidate")
    /\ UNCHANGED <<files, stamp, sources, synced>>
\* invalidate_source_cache, then a sync of this process.
Invalidate(p) ==
    /\ At(p, "invalidate")
    /\ sources' = [sources EXCEPT ![p] = NoCache] /\ synced' = [synced EXCEPT ![p] = -1] /\ Forget(p)
    /\ Goto(p, "sync")
    /\ UNCHANGED <<files, stamp, row>>

ResolveStep(p) == Lookup(p) \/ RememberMiss(p) \/ Sync(p) \/ Adopt(p) \/ Register(p) \/ Synced(p)
ActStep(p) == RegisterIssued(p) \/ Revoke(p) \/ Invalidate(p)
CredentialNext ==
    \/ FilesChange
    \/ \E p \in Processes : Lapse(p) \/ Resolve(p) \/ ResolveStep(p) \/ Issue(p) \/ Remove(p) \/ ActStep(p)
\* A call that began goes on, a client keeps trying its key, and time passes.
CredentialFairness ==
    \A p \in Processes :
        WF_credentialVars(ResolveStep(p) \/ ActStep(p) \/ Resolve(p)) /\ WF_credentialVars(Lapse(p))

----------------------------------------------------------------------------
\* A revoked key comes back only by an explicit registration, never by a reconciliation, even
\* one that saw no row before the revocation ("Never revokes ... never reinstated by a
\* passive resync").
RevokedStays ==
    \A k \in Keys : row[k] = "revoked" /\ row'[k] = "active"
        => \E p \in Processes : At(p, "issued") /\ request[p].key = k

\* A reconciliation adds what it saw and takes nothing away ("the removal ... denies the
\* credential install-wide"): a row stops being active only in an explicit revocation.
OnlyExplicitRevokes ==
    \A k \in Keys : row[k] = "active" /\ row'[k] # "active"
        => \E p \in Processes : At(p, "revoke") /\ request[p].key = k

------------------------------------------------------------
(* What the repository says and the code does not do.                      *)

\* "The secret may be one this process has not adopted yet ... a fresh operator key file":
\* a key whose file stays is adopted once it is tried again.
FreshKeyIsAdopted ==
    \A k \in Keys : []<>(k \notin files) \/ []<>(row[k] # "none")
=============================================================================
