---------------------------- MODULE FleetProofs ----------------------------
(***************************************************************************)
(* The safety of Machines, Deliveries and SpawnQueue, of the three beside  *)
(* each other, and of Realtime beside SpawnQueue, for any Orgs, Tools,     *)
(* tokens, callers, daemons, Sessions, handlers and topics.  In the first  *)
(* three the argument is who may still act: one claimant of a machine, one *)
(* handler engaged with a key, one fire of a hook, one agent at work, one  *)
(* daemon of a Session.  In Realtime it is the order of what is on its     *)
(* way: whatever moves the cursor comes behind what the tab is owed.       *)
(***************************************************************************)
EXTENDS MCFleet, MCConsole, FiniteSetTheorems, SequenceTheorems, WellFoundedInduction, TLAPS
-----------------------------------------------------------------------------
(* Machines.  A decision about who owns the machine is taken on reads made  *)
(* inside the transaction that writes it; what was read before only says    *)
(* what to try.                                                             *)

WriterAt == {"rest", "redeem", "look", "claim", "insert", "update", "status"}
Writer == [at : WriterAt, token : Tokens \cup {None}, tool : Tools \cup {None}, org : Owners, claimed : Owners,
           attempts : 0..3, status : Statuses \cup {"absent"}]

MachineTyped ==
    /\ MachineTypeOK /\ minted \in [Tokens -> Nat] /\ writer \in [Writers -> Writer]
    /\ \A w \in Writers : /\ writer[w].at = "redeem" => writer[w].token \in Tokens
                          /\ writer[w].at \notin {"rest", "redeem"} => writer[w].tool \in Tools
                          /\ writer[w].at = "look" => writer[w].attempts < 3

\* Whoever declares to own the machine, or holds a live credential for it, is the same Org.
Claimants == Declared(Tools) \cup Credentialed
OneClaimant == \A a, b \in Claimants : a = b

\* A row that is not there declares nobody.
AbsentIsNobodys == \A t \in Tools : runtime[t].status = "absent" => runtime[t].org = None

\* A Runtime that the sweep read has been silent since, or has been heard of.
SweepIsApt ==
    \A t \in Tools : sweeping[t] # -1 => sweeping[t] <= runtime[t].beat /\ (runtime[t].beat = sweeping[t] => runtime[t].silent)

MachineInv == MachineTyped /\ OneClaimant /\ AbsentIsNobodys /\ SweepIsApt /\ SpentOnce

\* A claim is that of the only claimant, if there is one.
LEMMA ClaimIsTheirs ==
    ASSUME OneClaimant, NEW others \in SUBSET Tools
    PROVE  LET claimed == ClaimedBy(others)
           IN /\ claimed \in Claimants \cup {None}
              /\ Declared(others) \cup Credentialed # {} => claimed \in Declared(others) \cup Credentialed
              /\ Declared(others) \cup Credentialed = {} => claimed = None
<1>1. Declared(others) \subseteq Declared(Tools)
  BY DEF Declared
<1> QED BY <1>1 DEF ClaimedBy, Claimants

LEMMA OwnersClaim ==
    ASSUME MachineTyped, NEW others \in SUBSET Tools
    PROVE  Declared(others) \subseteq Orgs /\ Credentialed \subseteq Orgs /\ Claimants \subseteq Orgs /\ ClaimedBy(others) \in Owners
<1>1. /\ \A t \in Tools : runtime[t].org \in Owners
      /\ \A k \in Tokens : credential[k].org \in Owners
  BY DEF MachineTyped, MachineTypeOK
<1>2. \A s \in SUBSET Tools : Declared(s) \subseteq Orgs
  BY <1>1 DEF Declared, Owners
<1>3. Credentialed \subseteq Orgs
  BY <1>1 DEF Credentialed, Owners
<1> QED BY <1>2, <1>3 DEF Claimants, ClaimedBy, Owners

\* One Org more than those that claim the machine, which none of them contradicts.
LEMMA AgreedClaim ==
    ASSUME MachineInv, NEW others \in SUBSET Tools, Declared(others) = Declared(Tools), NEW org \in Owners,
           ~Conflict(ClaimedBy(others), org)
    PROVE  LET owner == IF org = None THEN ClaimedBy(others) ELSE org
           IN \A a \in Claimants : a = owner
<1>1. Claimants = Declared(others) \cup Credentialed
  BY DEF Claimants
<1>2. \A a \in Claimants : a # None /\ a = ClaimedBy(others)
  BY <1>1, ClaimIsTheirs DEF MachineInv, OneClaimant, Claimants, Declared, Credentialed
<1> QED BY <1>2 DEF Conflict

LEMMA RestIsTyped == AtRest \in Writer /\ AtRest.at = "rest" /\ AtRest.attempts = 0
BY DEF Writer, WriterAt, AtRest, Owners

\* The steps of a caller that only decide what to try.
LEMMA CallersKeep ==
    ASSUME MachineInv, NEW w \in Writers,
           RedeemRead(w) \/ register_runtime(w) \/ Look(w) \/ ReadClaim(w) \/ ReadRuntime(w)
    PROVE  MachineInv'
<1>1. UNCHANGED <<token, minted, credential, runtime, sweeping>>
  BY DEF RedeemRead, register_runtime, Look, ReadClaim, ReadRuntime
<1>2. writer \in [Writers -> Writer]
  BY DEF MachineInv, MachineTyped
<1>3. PICK r \in Writer : /\ writer' = [writer EXCEPT ![w] = r]
                          /\ r.at = "redeem" => r.token \in Tokens
                          /\ r.at \notin {"rest", "redeem"} => r.tool \in Tools
                          /\ r.at = "look" => r.attempts < 3
  <2>1. CASE RedeemRead(w)
    <3>1. PICK k \in Tokens : Writing(w, [AtRest EXCEPT !.at = "redeem", !.token = k])
      BY <2>1 DEF RedeemRead
    <3> DEFINE r == [AtRest EXCEPT !.at = "redeem", !.token = k]
    <3>2. r \in Writer /\ r.at = "redeem" /\ r.token \in Tokens
      BY RestIsTyped DEF Writer, WriterAt
    <3> QED BY <3>1, <3>2 DEF Writing
  <2>2. CASE register_runtime(w)
    <3>1. PICK t \in Tools, org \in Owners : Writing(w, [AtRest EXCEPT !.at = "look", !.tool = t, !.org = org])
      BY <2>2 DEF register_runtime
    <3> DEFINE r == [AtRest EXCEPT !.at = "look", !.tool = t, !.org = org]
    <3>2. r \in Writer /\ r.at = "look" /\ r.tool \in Tools
      BY RestIsTyped DEF Writer, WriterAt
    <3>3. r.attempts = 0
      BY RestIsTyped DEF Writer
    <3> HIDE DEF r
    <3>4. r.attempts < 3
      BY <3>3
    <3> QED BY <3>1, <3>2, <3>4 DEF Writing, r
  <2>3. CASE Look(w)
    <3> DEFINE r == [writer[w] EXCEPT !.at = IF runtime[writer[w].tool].status = "absent" THEN "claim" ELSE "update",
                                      !.attempts = writer[w].attempts + 1]
    <3>1. writer[w] \in Writer /\ writer[w].attempts < 3 /\ writer[w].tool \in Tools
      BY <2>3 DEF Look, MachineInv, MachineTyped
    <3>2. writer[w].attempts + 1 \in 0..3
      BY <3>1 DEF Writer
    <3>3. r \in Writer /\ r.at \in {"claim", "update"} /\ r.tool \in Tools /\ writer' = [writer EXCEPT ![w] = r]
      BY <2>3, <3>1, <3>2 DEF Look, Writing, Writer, WriterAt
    <3> QED BY <3>3
  <2>4. CASE ReadClaim(w)
    <3>1. ClaimedBy(Tools) \in Owners
      BY OwnersClaim DEF MachineInv
    <3>2. writer[w] \in Writer /\ writer[w].tool \in Tools
      BY <2>4 DEF ReadClaim, MachineInv, MachineTyped
    <3>3. CASE Rest(w)
      BY <1>2, <3>3, RestIsTyped DEF Rest, Writing
    <3>4. CASE Writing(w, [writer[w] EXCEPT !.at = "insert", !.claimed = ClaimedBy(Tools)])
      <4> DEFINE r == [writer[w] EXCEPT !.at = "insert", !.claimed = ClaimedBy(Tools)]
      <4>1. r \in Writer /\ r.at = "insert" /\ r.tool \in Tools
        BY <3>1, <3>2 DEF Writer, WriterAt
      <4> QED BY <3>4, <4>1 DEF Writing
    <3> QED BY <2>4, <3>3, <3>4 DEF ReadClaim
  <2>5. CASE ReadRuntime(w)
    <3>1. PICK t \in Tools : Writing(w, [AtRest EXCEPT !.at = "status", !.tool = t, !.status = runtime[t].status])
      BY <2>5 DEF ReadRuntime
    <3>2. runtime[t].status \in Statuses \cup {"absent"}
      BY DEF MachineInv, MachineTyped, MachineTypeOK
    <3> DEFINE r == [AtRest EXCEPT !.at = "status", !.tool = t, !.status = runtime[t].status]
    <3>3. r \in Writer /\ r.at = "status" /\ r.tool \in Tools
      BY <3>2, RestIsTyped DEF Writer, WriterAt
    <3> QED BY <3>1, <3>3 DEF Writing
  <2> QED BY <2>1, <2>2, <2>3, <2>4, <2>5
<1>4. writer' \in [Writers -> Writer] /\ \A v \in Writers : writer'[v] \in {writer[v], r}
  BY <1>2, <1>3
<1>5. MachineTyped'
  BY <1>1, <1>3, <1>4 DEF MachineInv, MachineTyped, MachineTypeOK, Writer, WriterAt
<1> QED BY <1>1, <1>5 DEF MachineInv, OneClaimant, Claimants, Declared, Credentialed, AbsentIsNobodys, SweepIsApt, SpentOnce

\* What holds of the callers, with what MachineTypeOK says of them.
WritersAreApt ==
    /\ writer \in [Writers -> Writer]
    /\ \A v \in Writers : /\ writer[v].at = "redeem" => writer[v].token \in Tokens
                          /\ writer[v].at \notin {"rest", "redeem"} => writer[v].tool \in Tools
                          /\ writer[v].at = "look" => writer[v].attempts < 3
                          /\ writer[v].at \in WriterAt /\ writer[v].attempts \in 0..3
                          /\ {writer[v].org, writer[v].claimed} \subseteq Owners

\* What a write leaves of the callers, when its own call ends or goes on to register tools.
LEMMA CallEnds ==
    ASSUME MachineTyped, NEW w \in Writers, NEW r \in Writer, writer' = [writer EXCEPT ![w] = r],
           r.at = "rest" \/ (r.at = "look" /\ r.tool \in Tools /\ r.attempts < 3)
    PROVE  WritersAreApt'
BY DEF MachineTyped, Writer, WritersAreApt

LEMMA MachineReads ==
    ASSUME MachineInv
    PROVE  /\ MachineTyped /\ MachineTypeOK
           /\ token \in [Tokens -> [org : Owners, status : {"none", "open", "redeemed"}, expired : BOOLEAN]]
           /\ credential \in [Tokens -> [org : Owners, status : {"none", "live", "revoked"}]]
           /\ runtime \in [Tools -> [org : Owners, status : Statuses \cup {"absent"}, beat : 0..MaxBeats, silent : BOOLEAN]]
           /\ writer \in [Writers -> Writer] /\ sweeping \in [Tools -> -1..MaxBeats] /\ minted \in [Tokens -> Nat]
           /\ WritersAreApt
BY DEF MachineInv, MachineTyped, MachineTypeOK, Writer, WriterAt, WritersAreApt

\* Tokens and credentials.
LEMMA TokensKeep ==
    ASSUME MachineInv, NEW k \in Tokens, mint_token(k) \/ Expire(k) \/ Revoke(k)
    PROVE  MachineInv'
<1>1. UNCHANGED <<minted, runtime, writer, sweeping>>
  BY DEF mint_token, Expire, Revoke
<1>2. /\ token' \in [Tokens -> [org : Owners, status : {"none", "open", "redeemed"}, expired : BOOLEAN]]
      /\ \A j \in Tokens : token'[j].status = "redeemed" <=> token[j].status = "redeemed"
  <2>1. CASE mint_token(k)
    BY <2>1, MachineReads DEF mint_token
  <2>2. CASE Expire(k)
    BY <2>2, MachineReads DEF Expire
  <2>3. CASE Revoke(k)
    BY <2>3, MachineReads DEF Revoke
  <2> QED BY <2>1, <2>2, <2>3
<1>3. /\ credential' \in [Tokens -> [org : Owners, status : {"none", "live", "revoked"}]]
      /\ \A j \in Tokens : credential'[j].status = "live" => credential'[j] = credential[j]
  <2>1. CASE credential' = credential
    BY <2>1, MachineReads
  <2>2. CASE Revoke(k)
    BY <2>2, MachineReads DEF Revoke
  <2> QED BY <2>1, <2>2 DEF mint_token, Expire
<1>4. MachineTyped'
  BY <1>1, <1>2, <1>3, MachineReads DEF MachineTyped, MachineTypeOK, WritersAreApt, WriterAt
<1>5. Claimants' \subseteq Claimants
  BY <1>1, <1>3 DEF Claimants, Declared, Credentialed
<1>6. OneClaimant'
  BY <1>5 DEF MachineInv, OneClaimant
<1> QED BY <1>1, <1>2, <1>4, <1>6 DEF MachineInv, AbsentIsNobodys, SweepIsApt, SpentOnce

LEMMA RedeemKeeps ==
    ASSUME MachineInv, NEW w \in Writers, redeem_token(w)
    PROVE  MachineInv'
<1> DEFINE k == writer[w].token
           claimed == ClaimedBy(Tools)
           org == IF token[k].org # None THEN token[k].org ELSE claimed
<1>1. k \in Tokens /\ claimed \in Owners /\ token[k].org \in Owners /\ org \in Owners /\ UNCHANGED <<runtime, sweeping>>
  BY MachineReads, OwnersClaim DEF redeem_token, MachineTyped
<1>2. PICK r \in Writer : writer' = [writer EXCEPT ![w] = r] /\ (r.at = "rest" \/ (r.at = "look" /\ r.tool \in Tools /\ r.attempts < 3))
  <2>1. CASE Rest(w)
    BY <2>1, RestIsTyped DEF Rest, Writing
  <2>2. CASE \E t \in Tools : Writing(w, [AtRest EXCEPT !.at = "look", !.tool = t, !.org = org])
    <3>1. PICK t \in Tools : Writing(w, [AtRest EXCEPT !.at = "look", !.tool = t, !.org = org])
      BY <2>2
    <3> DEFINE r == [AtRest EXCEPT !.at = "look", !.tool = t, !.org = org]
    <3>2. r \in Writer /\ r.at = "look" /\ r.tool \in Tools
      BY <1>1, RestIsTyped DEF Writer, WriterAt
    <3>3. r.attempts = 0
      BY RestIsTyped DEF Writer
    <3> HIDE DEF r
    <3>4. r.attempts < 3
      BY <3>3
    <3> QED BY <3>1, <3>2, <3>4 DEF Writing, r
  <2> QED BY <2>1, <2>2 DEF redeem_token
<1>3. CASE UNCHANGED <<token, minted, credential>>
  <2>1. MachineTyped'
    BY <1>1, <1>2, <1>3, MachineReads, CallEnds DEF MachineTyped, MachineTypeOK, WritersAreApt, WriterAt
  <2> QED BY <1>1, <1>3, <2>1 DEF MachineInv, OneClaimant, Claimants, Declared, Credentialed, AbsentIsNobodys, SweepIsApt, SpentOnce
<1>4. CASE /\ Unredeemed(k) /\ ~Conflict(claimed, token[k].org)
           /\ token' = [token EXCEPT ![k].status = "redeemed"] /\ Mint(k, org)
  <2>1. /\ token' \in [Tokens -> [org : Owners, status : {"none", "open", "redeemed"}, expired : BOOLEAN]]
        /\ credential' \in [Tokens -> [org : Owners, status : {"none", "live", "revoked"}]]
        /\ minted' \in [Tokens -> Nat]
    <3>1. token' \in [Tokens -> [org : Owners, status : {"none", "open", "redeemed"}, expired : BOOLEAN]]
      BY <1>1, <1>4, MachineReads
    <3> HIDE DEF org
    <3>2. credential' \in [Tokens -> [org : Owners, status : {"none", "live", "revoked"}]]
      BY <1>1, <1>4, MachineReads DEF Mint
    <3>3. minted' \in [Tokens -> Nat]
      BY <1>1, <1>4, MachineReads DEF Mint
    <3> QED BY <3>1, <3>2, <3>3
  <2>2. MachineTyped'
    BY <1>1, <1>2, <2>1, MachineReads, CallEnds DEF MachineTyped, MachineTypeOK, WritersAreApt, WriterAt
  <2>3. SpentOnce'
    BY <1>1, <1>4, MachineReads DEF MachineInv, SpentOnce, Mint, Unredeemed
  <2>4. \A a \in Claimants : a = org
    <3>1. ~Conflict(ClaimedBy(Tools), token[k].org)
      BY <1>4
    <3> QED BY <1>1, <3>1, AgreedClaim
  <2>5. \A a \in Claimants' : a \in Claimants \/ a = org
    BY <1>1, <1>4, MachineReads DEF Claimants, Declared, Credentialed, Mint
  <2>6. OneClaimant'
    BY <2>4, <2>5 DEF OneClaimant
  <2> QED BY <1>1, <2>2, <2>3, <2>6 DEF MachineInv, AbsentIsNobodys, SweepIsApt
<1> QED BY <1>3, <1>4 DEF redeem_token

\* A row of a Runtime that is written: heard of, or of another status.
LEMMA RuntimeKeeps ==
    ASSUME MachineInv, NEW t \in Tools,
           NEW r \in [org : Owners, status : Statuses, beat : 0..MaxBeats, silent : BOOLEAN],
           runtime' = [runtime EXCEPT ![t] = r], UNCHANGED <<token, minted, credential, sweeping>>,
           WritersAreApt',
           r.org = runtime[t].org \/ r.org = None \/ \A a \in Claimants : a = r.org,
           r.beat >= runtime[t].beat, r.beat = runtime[t].beat /\ runtime[t].silent => r.silent
    PROVE  MachineInv'
<1>1. /\ runtime' \in [Tools -> [org : Owners, status : Statuses \cup {"absent"}, beat : 0..MaxBeats, silent : BOOLEAN]]
      /\ runtime'[t] = r /\ \A s \in Tools \ {t} : runtime'[s] = runtime[s]
  BY MachineReads
<1>2. MachineTyped'
  BY <1>1, MachineReads DEF MachineTyped, MachineTypeOK, WritersAreApt, WriterAt
<1>3. \A a \in Claimants' : a \in Claimants \/ (a = r.org /\ a # None)
  BY <1>1 DEF Claimants, Declared, Credentialed
<1>4. r.org # None /\ r.org = runtime[t].org => r.org \in Claimants
  BY DEF Claimants, Declared
<1>5. OneClaimant'
  BY <1>3, <1>4 DEF MachineInv, OneClaimant
<1>6. AbsentIsNobodys'
  BY <1>1 DEF MachineInv, AbsentIsNobodys, Statuses
<1>7. SweepIsApt'
  <2>1. r.beat \in Nat /\ runtime[t].beat \in Nat /\ sweeping[t] \in Int
    BY MachineReads
  <2> QED BY <1>1, <2>1 DEF MachineInv, SweepIsApt
<1> QED BY <1>2, <1>5, <1>6, <1>7 DEF MachineInv, SpentOnce

\* A registration, from the row as it is and an owner that nobody contradicts.
LEMMA FreshKeeps ==
    ASSUME MachineInv, NEW t \in Tools, NEW org \in Owners, runtime[t].beat < MaxBeats,
           runtime' = Fresh(t, org), UNCHANGED <<token, minted, credential, sweeping>>, WritersAreApt',
           org = runtime[t].org \/ org = None \/ \A a \in Claimants : a = org
    PROVE  MachineInv'
<1> DEFINE r == [org |-> org, status |-> "online", beat |-> runtime[t].beat + 1, silent |-> FALSE]
<1>1. runtime[t] \in [org : Owners, status : Statuses \cup {"absent"}, beat : 0..MaxBeats, silent : BOOLEAN]
  BY MachineReads
<1>2. runtime[t].beat + 1 \in 0..MaxBeats /\ runtime[t].beat + 1 > runtime[t].beat
  BY <1>1, MachinesAssumption
<1>3. r \in [org : Owners, status : Statuses, beat : 0..MaxBeats, silent : BOOLEAN]
  BY <1>2 DEF Statuses
<1>4. runtime' = [runtime EXCEPT ![t] = r]
  <2>1. runtime'[t] = r
    BY <1>1, MachineReads DEF Fresh
  <2>2. \A s \in Tools \ {t} : runtime'[s] = runtime[s]
    BY MachineReads DEF Fresh
  <2>3. DOMAIN runtime' = Tools /\ runtime' = [s \in Tools |-> runtime'[s]]
    BY MachineReads DEF Fresh
  <2> QED BY <2>1, <2>2, <2>3, MachineReads
<1>5. r.org = org /\ r.beat = runtime[t].beat + 1
  OBVIOUS
<1> HIDE DEF r
<1>6. r.org = runtime[t].org \/ r.org = None \/ \A a \in Claimants : a = r.org
  BY <1>5
<1>7. r.beat >= runtime[t].beat /\ r.beat # runtime[t].beat
  BY <1>1, <1>5
<1> QED BY <1>3, <1>4, <1>6, <1>7, RuntimeKeeps

LEMMA RegistrationsKeep ==
    ASSUME MachineInv, NEW w \in Writers, Insert(w) \/ Update(w)
    PROVE  MachineInv'
<1> DEFINE t == writer[w].tool
           given == writer[w].org
<1>1. /\ t \in Tools /\ given \in Owners /\ writer[w].claimed \in Owners /\ writer[w] \in Writer
      /\ runtime[t].beat < MaxBeats /\ UNCHANGED <<token, minted, credential, sweeping>>
  BY MachineReads DEF Insert, Update, WritersAreApt, Writer
<1>2. PICK r \in Writer : writer' = [writer EXCEPT ![w] = r] /\ (r.at = "rest" \/ (r.at = "look" /\ r.tool \in Tools /\ r.attempts < 3))
  <2>1. CASE Rest(w)
    BY <2>1, RestIsTyped DEF Rest, Writing
  <2>2. CASE Writing(w, [writer[w] EXCEPT !.at = "look"]) /\ writer[w].attempts < 3
    <3> DEFINE r == [writer[w] EXCEPT !.at = "look"]
    <3>1. r \in Writer /\ r.at = "look" /\ r.tool = t /\ r.attempts = writer[w].attempts
      BY <1>1 DEF Writer, WriterAt
    <3> HIDE DEF r
    <3>2. r.tool \in Tools /\ r.attempts < 3
      BY <1>1, <2>2, <3>1
    <3> QED BY <2>2, <3>1, <3>2 DEF Writing, r
  <2> QED BY <2>1, <2>2 DEF Insert, Update
<1>3. WritersAreApt'
  BY <1>2, CallEnds, MachineReads
<1>4. CASE UNCHANGED runtime
  <2>1. MachineTyped'
    BY <1>1, <1>3, <1>4, MachineReads DEF MachineTyped, MachineTypeOK, WritersAreApt, WriterAt
  <2> QED BY <1>1, <1>4, <2>1 DEF MachineInv, OneClaimant, Claimants, Declared, Credentialed, AbsentIsNobodys, SweepIsApt, SpentOnce
<1>5. Tools \ {t} \in SUBSET Tools /\ ClaimNow(t) = ClaimedBy(Tools \ {t}) /\ ClaimNow(t) \in Owners
  BY OwnersClaim, MachineReads DEF ClaimNow
<1>6. CASE Insert(w) /\ runtime' # runtime
  <2> DEFINE org == IF given # None THEN given ELSE writer[w].claimed
             owner == IF org = None THEN ClaimNow(t) ELSE org
  <2>1. runtime[t].status = "absent" /\ ~Conflict(ClaimNow(t), org) /\ runtime' = Fresh(t, owner)
    BY <1>6 DEF Insert
  <2>2. Declared(Tools \ {t}) = Declared(Tools)
    BY <2>1 DEF MachineInv, AbsentIsNobodys, Declared
  <2>3. \A a \in Claimants : a = owner
    BY <1>1, <1>5, <2>1, <2>2, AgreedClaim
  <2>4. owner \in Owners
    BY <1>1, <1>5
  <2> HIDE DEF owner
  <2> QED BY <1>1, <1>3, <2>1, <2>3, <2>4, FreshKeeps
<1>7. CASE Update(w) /\ runtime' # runtime
  <2> DEFINE owner == IF given = None THEN runtime[t].org ELSE given
  <2>1. runtime' = Fresh(t, owner) /\ (given # None => Siblings(given) = {} /\ ~Conflict(ClaimNow(t), given))
    BY <1>7 DEF Update
  <2>2. owner \in Owners
    BY <1>1, MachineReads
  <2>3. given # None => \A a \in Claimants : a = given
    <3> SUFFICES ASSUME given # None, NEW a \in Claimants, a # given PROVE FALSE
      OBVIOUS
    <3>1. a \notin Declared(Tools)
      BY <2>1 DEF Siblings, Declared
    <3>2. a \in Credentialed /\ Declared(Tools \ {t}) = {}
      <4>1. a \in Credentialed
        BY <3>1 DEF Claimants
      <4>2. ASSUME NEW b \in Declared(Tools \ {t}) PROVE FALSE
        <5>1. b \in Declared(Tools) /\ b = a
          BY <4>1 DEF Declared, Claimants, MachineInv, OneClaimant
        <5> QED BY <3>1, <5>1
      <4> QED BY <4>1, <4>2
    <3>3. ClaimNow(t) = a /\ a # None
      BY <1>5, <3>2, ClaimIsTheirs DEF MachineInv, OneClaimant, Claimants, Credentialed
    <3> QED BY <2>1, <3>3 DEF Conflict
  <2> HIDE DEF given
  <2>4. owner = runtime[t].org \/ owner = None \/ \A a \in Claimants : a = owner
    BY <2>3
  <2> HIDE DEF owner
  <2> QED BY <1>1, <1>3, <2>1, <2>2, <2>4, FreshKeeps
<1> QED BY <1>4, <1>6, <1>7

\* Heartbeats, statuses and the sweep.
LEMMA LivenessKeeps ==
    ASSUME MachineInv, (\E t \in Tools : heartbeat(t) \/ Silence(t)) \/ (\E w \in Writers : set_status(w)) \/ SweepRead \/ sweep_stale
    PROVE  MachineInv'
<1>1. UNCHANGED <<token, minted, credential>>
  BY DEF heartbeat, Silence, set_status, SweepRead, sweep_stale
<1>2. ASSUME NEW t \in Tools, heartbeat(t)
      PROVE  MachineInv'
  <2>1. PICK named \in {"online", "draining", "none"} :
        runtime' = [runtime EXCEPT ![t].beat = @ + 1, ![t].silent = FALSE,
                        ![t].status = IF named # "none" THEN named ELSE IF @ = "offline" THEN "online" ELSE @]
    BY <1>2 DEF heartbeat
  <2>2. /\ runtime[t] \in [org : Owners, status : Statuses \cup {"absent"}, beat : 0..MaxBeats, silent : BOOLEAN]
        /\ runtime[t].status # "absent" /\ runtime[t].beat < MaxBeats
    BY <1>2, MachineReads DEF heartbeat
  <2> DEFINE r == [org |-> runtime[t].org, beat |-> runtime[t].beat + 1, silent |-> FALSE,
                   status |-> IF named # "none" THEN named ELSE IF runtime[t].status = "offline" THEN "online" ELSE runtime[t].status]
  <2>3. runtime[t].beat + 1 \in 0..MaxBeats /\ runtime[t].beat + 1 > runtime[t].beat
    BY <2>2, MachinesAssumption
  <2>4. r \in [org : Owners, status : Statuses, beat : 0..MaxBeats, silent : BOOLEAN]
    BY <2>2, <2>3 DEF Statuses
  <2>5. runtime' = [runtime EXCEPT ![t] = r]
    <3>1. runtime'[t] = r
      BY <2>1, <2>2, MachineReads
    <3>2. \A s \in Tools \ {t} : runtime'[s] = runtime[s]
      BY <2>1, MachineReads
    <3>3. runtime' = [s \in Tools |-> runtime'[s]]
      BY <2>1, MachineReads
    <3> QED BY <3>1, <3>2, <3>3, MachineReads
  <2>6. r.org = runtime[t].org /\ r.beat = runtime[t].beat + 1
    OBVIOUS
  <2>7. WritersAreApt' /\ UNCHANGED sweeping
    BY <1>2, MachineReads DEF heartbeat, WritersAreApt
  <2> HIDE DEF r
  <2>8. r.beat >= runtime[t].beat /\ r.beat # runtime[t].beat
    BY <2>2, <2>6
  <2> QED BY <1>1, <2>4, <2>5, <2>6, <2>7, <2>8, RuntimeKeeps
<1>3. ASSUME NEW t \in Tools, Silence(t)
      PROVE  MachineInv'
  <2>1. PICK gone \in BOOLEAN : gone = TRUE
    OBVIOUS
  <2> DEFINE r == [runtime[t] EXCEPT !.silent = gone]
  <2>2. /\ runtime[t] \in [org : Owners, status : Statuses \cup {"absent"}, beat : 0..MaxBeats, silent : BOOLEAN]
        /\ runtime[t].status # "absent" /\ runtime' = [runtime EXCEPT ![t] = r]
    BY <1>3, <2>1, MachineReads DEF Silence
  <2>3. /\ r \in [org : Owners, status : Statuses \cup {"absent"}, beat : 0..MaxBeats, silent : BOOLEAN]
        /\ r.org = runtime[t].org /\ r.status = runtime[t].status /\ r.beat = runtime[t].beat /\ r.silent = gone
    BY <2>2
  <2>4. WritersAreApt' /\ UNCHANGED sweeping
    BY <1>3, MachineReads DEF Silence, WritersAreApt
  <2>5. r.beat >= runtime[t].beat
    BY <2>2, <2>3
  <2> HIDE DEF r
  <2>6. r \in [org : Owners, status : Statuses, beat : 0..MaxBeats, silent : BOOLEAN]
    BY <2>2, <2>3
  <2> QED BY <1>1, <2>1, <2>2, <2>3, <2>4, <2>5, <2>6, RuntimeKeeps
<1>4. ASSUME NEW w \in Writers, set_status(w)
      PROVE  MachineInv'
  <2> DEFINE t == writer[w].tool
  <2>1. t \in Tools /\ Rest(w) /\ UNCHANGED sweeping
    BY <1>4, MachineReads DEF set_status, WritersAreApt
  <2>2. WritersAreApt'
    BY <2>1, RestIsTyped, CallEnds, MachineReads DEF Rest, Writing
  <2>3. CASE UNCHANGED runtime
    <3>1. MachineTyped'
      BY <1>1, <2>1, <2>2, <2>3, MachineReads DEF MachineTyped, MachineTypeOK, WritersAreApt, WriterAt
    <3> QED BY <1>1, <2>1, <2>3, <3>1 DEF MachineInv, OneClaimant, Claimants, Declared, Credentialed, AbsentIsNobodys, SweepIsApt, SpentOnce
  <2>4. CASE \E s \in Statuses : runtime' = [runtime EXCEPT ![t].status = s]
    <3>1. PICK s \in Statuses : runtime' = [runtime EXCEPT ![t].status = s]
      BY <2>4
    <3> DEFINE r == [runtime[t] EXCEPT !.status = s]
    <3>2. /\ runtime[t] \in [org : Owners, status : Statuses \cup {"absent"}, beat : 0..MaxBeats, silent : BOOLEAN]
          /\ runtime' = [runtime EXCEPT ![t] = r]
      BY <2>1, <3>1, MachineReads
    <3>3. /\ r \in [org : Owners, status : Statuses, beat : 0..MaxBeats, silent : BOOLEAN]
          /\ r.org = runtime[t].org /\ r.beat = runtime[t].beat /\ r.silent = runtime[t].silent /\ r.beat >= runtime[t].beat
      BY <3>2
    <3> HIDE DEF r
    <3> QED BY <1>1, <2>1, <2>2, <3>2, <3>3, RuntimeKeeps
  <2> QED BY <1>4, <2>3, <2>4 DEF set_status
<1>5. CASE SweepRead
  <2>1. UNCHANGED <<runtime, writer>> /\ sweeping' = [t \in Tools |-> IF runtime[t].status = "online" /\ runtime[t].silent THEN runtime[t].beat ELSE -1]
    BY <1>5 DEF SweepRead
  <2>2. \A t \in Tools : runtime[t].beat \in 0..MaxBeats /\ runtime[t].beat \in -1..MaxBeats /\ -1 \in -1..MaxBeats /\ runtime[t].beat <= runtime[t].beat
    BY MachineReads, MachinesAssumption
  <2>3. sweeping' \in [Tools -> -1..MaxBeats]
    BY <2>1, <2>2
  <2>4. SweepIsApt'
    BY <2>1, <2>2 DEF SweepIsApt
  <2>5. MachineTyped'
    BY <1>1, <2>1, <2>3, MachineReads DEF MachineTyped, MachineTypeOK, WritersAreApt, WriterAt
  <2> QED BY <1>1, <2>1, <2>4, <2>5 DEF MachineInv, OneClaimant, Claimants, Declared, Credentialed, AbsentIsNobodys, SpentOnce
<1>6. CASE sweep_stale
  <2>1. /\ UNCHANGED writer /\ sweeping' = [t \in Tools |-> -1]
        /\ runtime' = [t \in Tools |-> IF sweeping[t] # -1 /\ StillSilent(t) THEN [runtime[t] EXCEPT !.status = "offline"] ELSE runtime[t]]
    BY <1>6 DEF sweep_stale, NoSweep
  <2>2. \A t \in Tools : /\ runtime'[t] \in [org : Owners, status : Statuses \cup {"absent"}, beat : 0..MaxBeats, silent : BOOLEAN]
                         /\ runtime'[t].org = runtime[t].org
                         /\ runtime'[t].status = "absent" => runtime[t].status = "absent"
    BY <2>1, MachineReads DEF Statuses
  <2>3. runtime' \in [Tools -> [org : Owners, status : Statuses \cup {"absent"}, beat : 0..MaxBeats, silent : BOOLEAN]]
    BY <2>1, <2>2
  <2>4. sweeping' \in [Tools -> -1..MaxBeats]
    BY <2>1, MachinesAssumption
  <2>5. MachineTyped'
    BY <1>1, <2>1, <2>3, <2>4, MachineReads DEF MachineTyped, MachineTypeOK, WritersAreApt, WriterAt
  <2>6. Claimants' = Claimants
    BY <1>1, <2>2 DEF Claimants, Declared, Credentialed
  <2>7. SweepIsApt'
    BY <2>1 DEF SweepIsApt
  <2> QED BY <1>1, <2>2, <2>5, <2>6, <2>7 DEF MachineInv, OneClaimant, AbsentIsNobodys, SpentOnce
<1> QED BY <1>2, <1>3, <1>4, <1>5, <1>6

LEMMA MachineSteps ==
    ASSUME MachineInv, [MachineNext]_machineVars
    PROVE  MachineInv' /\ SweptIsSilent
<1>1. MachineInv'
  <2>1. CASE UNCHANGED machineVars
    BY <2>1 DEF machineVars, MachineInv, MachineTyped, MachineTypeOK, OneClaimant, Claimants, Declared, Credentialed,
                AbsentIsNobodys, SweepIsApt, SpentOnce
  <2> QED BY <2>1, TokensKeep, CallersKeep, RedeemKeeps, RegistrationsKeep, LivenessKeeps DEF MachineNext
<1>2. SweptIsSilent
  BY MachineReads DEF SweptIsSilent, sweep_stale, StillSilent, MachineInv, SweepIsApt
<1> QED BY <1>1, <1>2

LEMMA MachineBegins ==
    ASSUME MachineInit
    PROVE  MachineInv
<1>1. 0 \in 0..MaxBeats /\ -1 \in -1..MaxBeats
  BY MachinesAssumption
<1>2. \A t \in Tools : runtime[t].org = None /\ runtime[t] \in [org : Owners, status : Statuses \cup {"absent"}, beat : 0..MaxBeats, silent : BOOLEAN]
  <2> DEFINE row == [org : Owners, status : Statuses \cup {"absent"}, beat : 0..MaxBeats, silent : BOOLEAN]
  <2>1. NoRuntime \in row /\ NoRuntime.org = None
    BY <1>1 DEF NoRuntime, Owners, Statuses
  <2>2. [NoRuntime EXCEPT !.status = "online"] \in row /\ [NoRuntime EXCEPT !.status = "online"].org = None
    BY <2>1 DEF Statuses
  <2> HIDE DEF row
  <2>3. \A t \in Tools : runtime[t] \in {NoRuntime, [NoRuntime EXCEPT !.status = "online"]}
    BY DEF MachineInit
  <2>4. \A t \in Tools : runtime[t].org = None /\ runtime[t] \in row
    BY <2>1, <2>2, <2>3
  <2> QED BY <2>4 DEF row
<1>3. writer = [w \in Writers |-> AtRest] /\ sweeping = [t \in Tools |-> -1]
  BY DEF MachineInit, NoSweep
<1>4. WritersAreApt
  BY <1>3, RestIsTyped DEF WritersAreApt, Writer
<1>5. MachineTyped
  <2>1. runtime \in [Tools -> [org : Owners, status : Statuses \cup {"absent"}, beat : 0..MaxBeats, silent : BOOLEAN]]
    BY <1>2 DEF MachineInit
  <2>2. /\ token \in [Tokens -> [org : Owners, status : {"none", "open", "redeemed"}, expired : BOOLEAN]]
        /\ credential \in [Tokens -> [org : Owners, status : {"none", "live", "revoked"}]] /\ minted \in [Tokens -> Nat]
    BY DEF MachineInit, NoToken, NoCredential, Owners
  <2>3. sweeping \in [Tools -> -1..MaxBeats]
    BY <1>1, <1>3
  <2> QED BY <1>4, <2>1, <2>2, <2>3 DEF MachineTyped, MachineTypeOK, WritersAreApt, WriterAt
<1>6. Claimants = {}
  BY <1>2 DEF MachineInit, NoCredential, Claimants, Declared, Credentialed
<1> QED BY <1>2, <1>3, <1>5, <1>6 DEF MachineInit, NoToken, MachineInv, OneClaimant, AbsentIsNobodys, SweepIsApt, SpentOnce

LEMMA MachineFollows ==
    ASSUME MachineInv
    PROVE  MachinesAreSound
<1>1. Cardinality(Claimants) <= 1
  <2>1. CASE Claimants = {}
    BY <2>1, FS_EmptySet
  <2>2. CASE Claimants # {}
    <3>1. PICK a : Claimants = {a}
      BY <2>2 DEF MachineInv, OneClaimant
    <3> QED BY <3>1, FS_Singleton
  <2> QED BY <2>1, <2>2
<1> QED BY <1>1, MachineReads DEF MachineInv, MachinesAreSound, OneOrgPerMachine, Claimants

\* control/enrolment.py, control/runtimes.py: whatever registrations, redemptions and revocations
\* race, a machine has one Org and a token buys one credential.
THEOREM OneOrgHolds == MachineInit /\ [][MachineNext]_machineVars => []MachinesAreSound
<1>1. MachineInv /\ [MachineNext]_machineVars => MachineInv'
  BY MachineSteps
<1> QED BY <1>1, MachineBegins, MachineFollows, PTL
-----------------------------------------------------------------------------
(* Deliveries.  Until an attempt is released under its handler, whoever is *)
(* engaged with the key is the only one, and the row says so.              *)

EngagedAt == {"claimed", "effect", "comment", "add", "completed", "failed", "ignored"}
DeliveryStatuses == {"none", "processing", "failed"} \cup Final
RowTyped ==
    /\ kind \in Kinds /\ release \in 0..MaxTries /\ hasty \in BOOLEAN
    /\ delivery \in [status : DeliveryStatuses, attempts : 0..MaxTries]
    /\ (delivery.status = "none") <=> (delivery.attempts = 0)
    /\ world \in [done : BOOLEAN, comments : Nat, sent : Nat]
    /\ handler \in [Handlers -> [at : {"rest", "insert", "retry"} \cup EngagedAt, attempt : 0..MaxTries]]
    /\ \A h \in Handlers : /\ handler[h].attempt <= delivery.attempts
                           /\ handler[h].at \notin {"rest", "insert", "retry", "claimed"} => handler[h].attempt # 0
                           /\ handler[h].at = "claimed" => delivery.status # "none"

Engaged(h) == handler[h].at \in EngagedAt
OneEngaged ==
    hasty \/ /\ \A h \in Handlers : Engaged(h) => /\ delivery.status = "processing"
                                                  /\ handler[h].at # "claimed" => handler[h].attempt = delivery.attempts
             /\ \A g, h \in Handlers : Engaged(g) /\ Engaged(h) => g = h

\* What a key that is completed, or is about to be, stands for has happened.
Happened == (kind = "pull_request" /\ world.done /\ world.comments >= 1) \/ (kind = "send" /\ world.sent >= 1)
EffectIsSaid ==
    /\ delivery.status = "completed" => Happened
    /\ \A h \in Handlers : /\ handler[h].at = "completed" => Happened
                           /\ handler[h].at \in {"comment", "add"} => kind = "pull_request" /\ world.done
    /\ hasty \/ (world.comments <= 1 /\ \A h \in Handlers : handler[h].at = "add" => world.comments = 0)

RowInv == RowTyped /\ OneEngaged /\ EffectIsSaid

\* The webhook: a run is there before its task, and no two fires write the same run.
HookTyped ==
    /\ enabled \in BOOLEAN /\ excused \in BOOLEAN
    /\ runs \in Seq(Nat) /\ hookTasks \in 0..MaxTries /\ accepted \in 0..hookTasks
    /\ \A i \in 1..Len(runs) : runs[i] \in 0..hookTasks
    /\ hook \in [Handlers -> [at : {"rest", "fire", "record", "task", "link", "accept"}, run : Nat, task : Nat]]
    /\ \A h \in Handlers : hook[h].run \in 0..Len(runs) /\ hook[h].task \in 0..hookTasks

Minting == {h \in Handlers : hook[h].at = "task"}
RunsLead == IsFiniteSet(Minting) /\ hookTasks + Cardinality(Minting) <= Len(runs)

RunsAreLinked ==
    /\ \A h \in Handlers : /\ hook[h].at \in {"task", "link"} => hook[h].run # 0 /\ runs[hook[h].run] = 0
                           /\ hook[h].at = "link" => hook[h].task # 0
                           /\ hook[h].at = "accept" => hook[h].run # 0 /\ hook[h].task # 0 /\ runs[hook[h].run] = hook[h].task
    /\ \A g, h \in Handlers : hook[g].at \in {"task", "link"} /\ hook[h].at \in {"task", "link"} /\ hook[g].run = hook[h].run => g = h
    /\ AnswerIsLinked

OneFire ==
    excused \/ /\ \A g, h \in Handlers : hook[g].at # "rest" /\ hook[h].at # "rest" => g = h
               /\ Len(runs) <= 1
               /\ (\E h \in Handlers : hook[h].at \in {"fire", "record"}) => Len(runs) = 0
               /\ Len(runs) = 1 => accepted # 0 \/ \E h \in Handlers : hook[h].at \in {"task", "link", "accept"}

HookInv == HookTyped /\ RunsLead /\ RunsAreLinked /\ OneFire

HandlerRow == [at : {"rest", "insert", "retry"} \cup EngagedAt, attempt : 0..MaxTries]

LEMMA RowReads ==
    ASSUME RowInv
    PROVE  /\ kind \in Kinds /\ release \in 0..MaxTries /\ hasty \in BOOLEAN
           /\ delivery \in [status : DeliveryStatuses, attempts : 0..MaxTries]
           /\ world \in [done : BOOLEAN, comments : Nat, sent : Nat]
           /\ handler \in [Handlers -> HandlerRow] /\ MaxTries \in Nat
BY DeliveriesAssumption DEF RowInv, RowTyped, HandlerRow

LEMMA RestingIsTyped == Resting \in HandlerRow /\ Resting.at = "rest" /\ Resting.attempt = 0
BY DeliveriesAssumption DEF Resting, HandlerRow

\* A handler that moves on, with what its step did to the world.
LEMMA HandlerKeeps ==
    ASSUME RowInv, NEW h \in Handlers, NEW r \in HandlerRow, handler' = [handler EXCEPT ![h] = r],
           UNCHANGED <<kind, delivery, release, hasty>>,
           world' \in [done : BOOLEAN, comments : Nat, sent : Nat],
           world.done => world'.done, world'.comments >= world.comments, world'.sent >= world.sent,
           world' = world \/ Engaged(h),
           r.attempt <= delivery.attempts,
           r.at \notin {"rest", "insert", "retry", "claimed"} => r.attempt # 0,
           r.at = "claimed" => delivery.status # "none",
           r.at \in EngagedAt => Engaged(h) /\ (hasty \/ r.at = "claimed" \/ r.attempt = delivery.attempts),
           r.at = "completed" => Happened',
           r.at \in {"comment", "add"} => kind = "pull_request" /\ world'.done,
           hasty \/ (world'.comments <= 1 /\ (r.at = "add" => world'.comments = 0))
    PROVE  RowInv'
<1>1. handler' \in [Handlers -> HandlerRow] /\ handler'[h] = r /\ \A g \in Handlers \ {h} : handler'[g] = handler[g]
  BY RowReads
<1>2. RowTyped'
  BY <1>1, RowReads DEF RowInv, RowTyped, HandlerRow
<1>3. OneEngaged'
  BY <1>1 DEF RowInv, OneEngaged, Engaged
<1>4. Happened => Happened'
  BY RowReads DEF Happened
<1>5. EffectIsSaid'
  <2>1. delivery'.status = "completed" => Happened'
    BY <1>4 DEF RowInv, EffectIsSaid
  <2>2. ASSUME NEW g \in Handlers
        PROVE  /\ handler'[g].at = "completed" => Happened'
               /\ handler'[g].at \in {"comment", "add"} => kind' = "pull_request" /\ world'.done
    BY <1>1, <1>4 DEF RowInv, EffectIsSaid
  <2>3. ASSUME ~hasty, NEW g \in Handlers, handler'[g].at = "add"
        PROVE  world'.comments = 0
    <3>1. CASE g = h
      BY <1>1, <2>3, <3>1
    <3>2. CASE g # h
      <4>1. handler[g].at = "add" /\ Engaged(g)
        BY <1>1, <2>3, <3>2 DEF Engaged, EngagedAt
      <4>2. ~Engaged(h)
        BY <2>3, <3>2, <4>1 DEF RowInv, OneEngaged
      <4> QED BY <2>3, <4>1, <4>2 DEF RowInv, EffectIsSaid
    <3> QED BY <3>1, <3>2
  <2> QED BY <2>1, <2>2, <2>3 DEF EffectIsSaid
<1> QED BY <1>2, <1>3, <1>5 DEF RowInv

\* The call of a handler that leaves the world as it is.
LEMMA CallKeeps ==
    ASSUME RowInv, NEW h \in Handlers, Lookup(h) \/ ReadBack(h) \/ Fails(h) \/ Comment(h) \/ Ignore(h) \/ Die(h)
    PROVE  RowInv'
<1>1. UNCHANGED <<kind, delivery, world, release, hasty>>
  BY DEF Lookup, ReadBack, Fails, Comment, Ignore, Die
<1>2. handler[h] \in HandlerRow /\ delivery.attempts \in 0..MaxTries /\ world.comments \in Nat /\ world.sent \in Nat
      /\ handler[h].attempt \in 0..MaxTries
  BY RowReads DEF HandlerRow
<1>3. world.comments >= world.comments /\ world.sent >= world.sent /\ delivery.attempts <= delivery.attempts /\ 0 <= delivery.attempts
  BY <1>2
<1>4. PICK r \in HandlerRow :
        /\ handler' = [handler EXCEPT ![h] = r] /\ r.attempt <= delivery.attempts
        /\ r.at \notin {"rest", "insert", "retry", "claimed"} => r.attempt # 0
        /\ r.at # "claimed" /\ (r.at = "completed" => Comment(h) /\ comment_exists)
        /\ r.at \in EngagedAt => Engaged(h) /\ (hasty \/ r.attempt = delivery.attempts)
        /\ r.at \in {"comment", "add"} => handler[h].at = "comment"
        /\ r.at = "add" => ~comment_exists
  <2>1. handler[h].attempt <= delivery.attempts
    BY DEF RowInv, RowTyped
  <2>2. Engaged(h) /\ handler[h].at # "claimed" => handler[h].attempt # 0 /\ (hasty \/ handler[h].attempt = delivery.attempts)
    BY DEF RowInv, RowTyped, OneEngaged, Engaged, EngagedAt
  <2>3. CASE Lookup(h)
    <3> DEFINE to == IF delivery.status = "none" THEN "insert" ELSE "retry"
               r == [handler[h] EXCEPT !.at = to]
    <3>1. r \in HandlerRow /\ r.at = to /\ r.attempt = handler[h].attempt /\ handler' = [handler EXCEPT ![h] = r]
      BY <1>2, <2>3 DEF Lookup, HandlerAt, Handling, HandlerRow
    <3> HIDE DEF r
    <3> QED BY <2>1, <3>1 DEF EngagedAt
  <2>4. CASE ReadBack(h)
    <3> DEFINE r == [at |-> "effect", attempt |-> delivery.attempts]
    <3>1. r \in HandlerRow /\ r.at = "effect" /\ r.attempt = delivery.attempts /\ handler' = [handler EXCEPT ![h] = r]
      BY <1>2, <2>4 DEF ReadBack, Handling, HandlerRow, EngagedAt
    <3>2. delivery.attempts # 0 /\ Engaged(h)
      BY <2>4 DEF ReadBack, RowInv, RowTyped, Engaged, EngagedAt
    <3> HIDE DEF r
    <3> QED BY <1>3, <3>1, <3>2
  <2>5. CASE Fails(h) \/ Ignore(h) \/ Comment(h)
    <3>1. PICK to \in {"failed", "ignored", "completed", "add"} :
            /\ HandlerAt(h, to) /\ Engaged(h) /\ handler[h].at # "claimed"
            /\ to \in {"completed", "add"} => Comment(h) /\ handler[h].at = "comment"
            /\ to = "completed" => comment_exists
            /\ to = "add" => ~comment_exists
      <4>1. CASE Fails(h)
        BY <4>1 DEF Fails, Engaged, EngagedAt
      <4>2. CASE Ignore(h)
        BY <4>2 DEF Ignore, Engaged, EngagedAt
      <4>3. CASE Comment(h)
        BY <4>3 DEF Comment, Engaged, EngagedAt
      <4> QED BY <2>5, <4>1, <4>2, <4>3
    <3> DEFINE r == [handler[h] EXCEPT !.at = to]
    <3>2. r \in HandlerRow /\ r.at = to /\ r.attempt = handler[h].attempt /\ handler' = [handler EXCEPT ![h] = r]
      BY <1>2, <3>1 DEF HandlerAt, Handling, HandlerRow, EngagedAt
    <3> HIDE DEF r
    <3> QED BY <2>1, <2>2, <3>1, <3>2
  <2>6. CASE Die(h)
    BY <1>3, <2>6, RestingIsTyped DEF Die, Handling, EngagedAt
  <2> QED BY <2>3, <2>4, <2>5, <2>6
<1>5. r.at = "completed" => Happened'
  <2> SUFFICES ASSUME r.at = "completed" PROVE Happened'
    OBVIOUS
  <2>1. handler[h].at = "comment" /\ world.comments > 0
    BY <1>4 DEF Comment, comment_exists
  <2> QED BY <1>1, <1>2, <2>1 DEF RowInv, EffectIsSaid, Happened
<1>6. r.at \in {"comment", "add"} => kind = "pull_request" /\ world'.done
  BY <1>1, <1>4 DEF RowInv, EffectIsSaid
<1>7. hasty \/ (world'.comments <= 1 /\ (r.at = "add" => world'.comments = 0))
  BY <1>1, <1>2, <1>4 DEF RowInv, EffectIsSaid, comment_exists
<1>8. world' \in [done : BOOLEAN, comments : Nat, sent : Nat] /\ world' = world
  BY <1>1, RowReads
<1> QED BY <1>1, <1>3, <1>4, <1>5, <1>6, <1>7, <1>8, HandlerKeeps

\* The parts of an effect.
LEMMA EffectKeeps ==
    ASSUME RowInv, NEW h \in Handlers, Done(h) \/ add_comment(h) \/ Send(h)
    PROVE  RowInv'
<1>1. UNCHANGED <<kind, delivery, release, hasty>>
  BY DEF Done, add_comment, Send
<1>2. /\ handler[h] \in HandlerRow /\ handler[h].attempt <= delivery.attempts /\ handler[h].attempt # 0
      /\ Engaged(h) /\ (hasty \/ handler[h].attempt = delivery.attempts)
  BY RowReads DEF Done, add_comment, Send, RowInv, RowTyped, OneEngaged, Engaged, EngagedAt
<1>3. PICK to \in {"comment", "completed", "failed"} :
        /\ handler' = [handler EXCEPT ![h] = [handler[h] EXCEPT !.at = to]]
        /\ to = "comment" => Done(h)
        /\ to = "completed" => add_comment(h) \/ Send(h)
  BY DEF Done, add_comment, Send, HandlerAt, Handling
<1> DEFINE r == [handler[h] EXCEPT !.at = to]
<1>4. r \in HandlerRow /\ r.at = to /\ r.attempt = handler[h].attempt /\ handler' = [handler EXCEPT ![h] = r]
  BY <1>2, <1>3 DEF HandlerRow, EngagedAt
<1>5. world.comments \in Nat /\ world.sent \in Nat /\ world.done \in BOOLEAN
  BY RowReads
<1>6. /\ world' \in [done : BOOLEAN, comments : Nat, sent : Nat]
      /\ world.done => world'.done
      /\ world'.comments >= world.comments /\ world'.sent >= world.sent
      /\ Done(h) => world'.done /\ world'.comments = world.comments
      /\ add_comment(h) => world'.done = world.done /\ world'.comments = world.comments + 1
      /\ Send(h) => world'.comments = world.comments /\ world'.sent = world.sent + 1
  <2>1. CASE Done(h)
    <3>1. world' = [world EXCEPT !.done = TRUE] /\ ~add_comment(h) /\ ~Send(h)
      BY <2>1 DEF Done, add_comment, Send
    <3>2. PICK b \in BOOLEAN : b = TRUE
      OBVIOUS
    <3> DEFINE next == [world EXCEPT !.done = b]
    <3>3. next \in [done : BOOLEAN, comments : Nat, sent : Nat] /\ next.done = b /\ next.comments = world.comments /\ next.sent = world.sent
      BY RowReads
    <3>4. world' = next
      BY <3>1, <3>2
    <3>5. world.comments >= world.comments /\ world.sent >= world.sent
      BY <1>5
    <3> HIDE DEF next
    <3> QED BY <3>1, <3>2, <3>3, <3>4, <3>5
  <2>2. CASE add_comment(h)
    <3>1. world' = [world EXCEPT !.comments = world.comments + 1] /\ ~Done(h) /\ ~Send(h)
      BY <2>2 DEF Done, add_comment, Send
    <3>2. world.comments + 1 \in Nat /\ world.comments + 1 >= world.comments /\ world.sent >= world.sent
      BY <1>5
    <3>3. world' \in [done : BOOLEAN, comments : Nat, sent : Nat] /\ world'.done = world.done /\ world'.comments = world.comments + 1 /\ world'.sent = world.sent
      BY <3>1, <3>2, RowReads
    <3> QED BY <3>1, <3>2, <3>3
  <2>3. CASE Send(h)
    <3>1. world' = [world EXCEPT !.sent = world.sent + 1] /\ ~Done(h) /\ ~add_comment(h)
      BY <2>3 DEF Done, add_comment, Send
    <3>2. world.sent + 1 \in Nat /\ world.sent + 1 >= world.sent /\ world.comments >= world.comments
      BY <1>5
    <3>3. world' \in [done : BOOLEAN, comments : Nat, sent : Nat] /\ world'.done = world.done /\ world'.comments = world.comments /\ world'.sent = world.sent + 1
      BY <3>1, <3>2, RowReads
    <3> QED BY <3>1, <3>2, <3>3
  <2> QED BY <2>1, <2>2, <2>3
<1>7. to = "completed" => Happened'
  <2>1. CASE add_comment(h)
    <3>1. kind = "pull_request" /\ world.done
      BY <2>1 DEF add_comment, RowInv, EffectIsSaid
    <3> QED BY <1>1, <1>5, <1>6, <2>1, <3>1 DEF Happened
  <2>2. CASE Send(h)
    BY <1>1, <1>5, <1>6, <2>2 DEF Send, Happened
  <2> QED BY <1>3, <2>1, <2>2
<1>8. to = "comment" => kind = "pull_request" /\ world'.done
  BY <1>3, <1>6 DEF Done
<1>9. hasty \/ world'.comments <= 1
  BY <1>5, <1>6 DEF Done, add_comment, Send, RowInv, EffectIsSaid
<1> HIDE DEF r
<1> QED BY <1>1, <1>2, <1>3, <1>4, <1>6, <1>7, <1>8, <1>9, HandlerKeeps

\* The claim: the attempt of nobody, or one that failed, and with it the only engagement.
LEMMA ClaimKeeps ==
    ASSUME RowInv, NEW h \in Handlers, InsertDelivery(h) \/ retry_failed(h)
    PROVE  RowInv'
<1>1. UNCHANGED <<kind, world, release, hasty>> /\ handler[h].at \in {"insert", "retry"}
  BY DEF InsertDelivery, retry_failed
<1>2. CASE UNCHANGED delivery /\ handler' = [handler EXCEPT ![h] = Resting]
  <2>1. world.comments \in Nat /\ world.sent \in Nat /\ delivery.attempts \in 0..MaxTries
    BY RowReads
  <2>2. world'.comments >= world.comments /\ world'.sent >= world.sent /\ 0 <= delivery.attempts
    BY <1>1, <2>1
  <2>3. hasty \/ world'.comments <= 1
    BY <1>1 DEF RowInv, EffectIsSaid
  <2>4. world' \in [done : BOOLEAN, comments : Nat, sent : Nat] /\ world' = world
    BY <1>1, RowReads
  <2> QED BY <1>1, <1>2, <2>2, <2>3, <2>4, RestingIsTyped, HandlerKeeps DEF EngagedAt
<1>3. CASE /\ delivery.status \in {"none", "failed"}
           /\ delivery' = [status |-> "processing", attempts |-> delivery.attempts + 1] /\ delivery.attempts < MaxTries
           /\ handler' = [handler EXCEPT ![h] = [handler[h] EXCEPT !.at = "claimed"]]
  <2>1. handler[h] \in HandlerRow /\ delivery.attempts \in 0..MaxTries /\ delivery.attempts + 1 \in 0..MaxTries /\ delivery.attempts + 1 # 0
    BY <1>3, RowReads
  <2> DEFINE r == [handler[h] EXCEPT !.at = "claimed"]
  <2>2. r \in HandlerRow /\ r.at = "claimed" /\ r.attempt = handler[h].attempt
    BY <2>1 DEF HandlerRow, EngagedAt
  <2>3. handler' = [handler EXCEPT ![h] = r]
    BY <1>3
  <2> HIDE DEF r
  <2>4. handler' \in [Handlers -> HandlerRow] /\ handler'[h] = r /\ \A g \in Handlers \ {h} : handler'[g] = handler[g]
    BY <2>2, <2>3, RowReads
  <2>5. \A g \in Handlers : handler[g].attempt \in 0..MaxTries /\ handler[g].attempt <= delivery.attempts
    BY RowReads DEF RowInv, RowTyped, HandlerRow
  <2>6. delivery' \in [status : DeliveryStatuses, attempts : 0..MaxTries] /\ delivery'.status = "processing"
        /\ delivery'.attempts = delivery.attempts + 1
    BY <1>3, <2>1 DEF DeliveryStatuses
  <2>7. \A g \in Handlers : handler'[g].attempt <= delivery'.attempts
    BY <2>1, <2>2, <2>4, <2>5, <2>6
  <2>8. RowTyped'
    BY <1>1, <2>1, <2>2, <2>4, <2>6, <2>7, RowReads DEF RowInv, RowTyped, HandlerRow
  <2>9. hasty \/ \A g \in Handlers : ~Engaged(g)
    BY <1>3 DEF RowInv, OneEngaged
  <2>10. OneEngaged'
    BY <1>1, <2>2, <2>4, <2>6, <2>9 DEF OneEngaged, Engaged
  <2>11. EffectIsSaid'
    BY <1>1, <2>2, <2>4, <2>6 DEF RowInv, EffectIsSaid, Happened
  <2> QED BY <2>8, <2>10, <2>11 DEF RowInv
<1>4. CASE InsertDelivery(h)
  <2>1. delivery.status = "none" => delivery.attempts = 0
    BY DEF RowInv, RowTyped
  <2>2. CASE delivery.status = "none"
    BY <1>3, <1>4, <2>1, <2>2, DeliveriesAssumption DEF InsertDelivery, HandlerAt, Handling
  <2>3. CASE delivery.status # "none"
    BY <1>2, <1>4, <2>3 DEF InsertDelivery, Handling
  <2> QED BY <2>2, <2>3
<1>5. CASE retry_failed(h)
  BY <1>2, <1>3, <1>5 DEF retry_failed, HandlerAt, Handling, Retryable
<1> QED BY <1>4, <1>5

\* A handler settles the attempt that it holds, or none.
LEMMA SettleKeeps ==
    ASSUME RowInv, NEW h \in Handlers, settle(h)
    PROVE  RowInv'
<1>1. /\ UNCHANGED <<kind, world, release, hasty>> /\ handler' = [handler EXCEPT ![h] = Resting]
      /\ handler[h].at \in Final \cup {"failed"} /\ Engaged(h) /\ handler[h].attempt # 0
  BY DEF settle, Handling, Engaged, EngagedAt, Final, RowInv, RowTyped
<1>2. /\ delivery' \in [status : DeliveryStatuses, attempts : 0..MaxTries] /\ delivery'.attempts = delivery.attempts
      /\ delivery'.status = delivery.status \/ (delivery'.status = handler[h].at /\ delivery.status = "processing")
  <2>1. CASE ~Owns(handler[h].attempt)
    BY <2>1, RowReads DEF settle, Settles
  <2>2. CASE Owns(handler[h].attempt)
    <3>1. delivery' = [delivery EXCEPT !.status = handler[h].at]
      BY <2>2 DEF settle, Settles
    <3> QED BY <1>1, <2>2, <3>1, RowReads DEF Owns, DeliveryStatuses
  <2> QED BY <2>1, <2>2
<1>3. handler' \in [Handlers -> HandlerRow] /\ handler'[h] = Resting /\ \A g \in Handlers \ {h} : handler'[g] = handler[g]
  BY <1>1, RowReads, RestingIsTyped
<1>4. RowTyped'
  <2>1. (delivery'.status = "none") <=> (delivery'.attempts = 0)
    BY <1>1, <1>2 DEF RowInv, RowTyped, Final
  <2>2. \A g \in Handlers : /\ handler'[g].attempt <= delivery'.attempts
                            /\ handler'[g].at \notin {"rest", "insert", "retry", "claimed"} => handler'[g].attempt # 0
                            /\ handler'[g].at = "claimed" => delivery'.status # "none"
    <3>1. 0 <= delivery.attempts
      BY RowReads
    <3> QED BY <1>1, <1>2, <1>3, <3>1, RestingIsTyped DEF RowInv, RowTyped, Final
  <2> QED BY <1>1, <1>2, <1>3, <2>1, <2>2, RowReads DEF RowTyped, HandlerRow
<1>5. hasty \/ \A g \in Handlers \ {h} : ~Engaged(g)
  BY <1>1 DEF RowInv, OneEngaged
<1>6. OneEngaged'
  BY <1>1, <1>3, <1>5, RestingIsTyped DEF OneEngaged, Engaged, EngagedAt
<1>7. EffectIsSaid'
  BY <1>1, <1>2, <1>3, RestingIsTyped DEF RowInv, EffectIsSaid, Happened
<1> QED BY <1>4, <1>6, <1>7 DEF RowInv

\* An administrator who fails an attempt does not do it under its handler, or is noted to be hasty.
LEMMA ReleaseKeeps ==
    ASSUME RowInv, Inspect \/ release_integration_delivery
    PROVE  RowInv'
<1>1. UNCHANGED <<kind, world, handler>>
  BY DEF Inspect, release_integration_delivery
<1>2. release' \in 0..MaxTries
  BY RowReads DEF Inspect, release_integration_delivery
<1>3. CASE UNCHANGED <<delivery, hasty>>
  BY <1>1, <1>2, <1>3 DEF RowInv, RowTyped, OneEngaged, Engaged, EffectIsSaid, Happened
<1>4. CASE /\ Owns(release) /\ release_integration_delivery
  <2>1. /\ delivery' = [delivery EXCEPT !.status = "failed"]
        /\ hasty' = (hasty \/ \E h \in Handlers : handler[h].at = "claimed" \/ handler[h].attempt = release)
        /\ release = delivery.attempts /\ delivery.status = "processing"
    BY <1>4 DEF release_integration_delivery, Settles, Owns
  <2>2. /\ delivery' \in [status : DeliveryStatuses, attempts : 0..MaxTries]
        /\ delivery'.status = "failed" /\ delivery'.attempts = delivery.attempts /\ hasty' \in BOOLEAN
    BY <2>1, RowReads DEF DeliveryStatuses
  <2>3. RowTyped'
    BY <1>1, <1>2, <2>1, <2>2 DEF RowInv, RowTyped
  <2>4. hasty' \/ \A h \in Handlers : ~Engaged(h)
    BY <2>1 DEF RowInv, OneEngaged
  <2>5. OneEngaged'
    BY <1>1, <2>4 DEF OneEngaged, Engaged
  <2>6. hasty => hasty'
    BY <2>1
  <2>7. EffectIsSaid'
    BY <1>1, <2>2, <2>6 DEF RowInv, EffectIsSaid, Happened
  <2> QED BY <2>3, <2>5, <2>7 DEF RowInv
<1>5. CASE ~Owns(release) /\ release_integration_delivery
  <2>1. delivery' = delivery /\ hasty' = hasty
    BY <1>5, RowReads DEF release_integration_delivery, Settles
  <2> QED BY <1>3, <2>1
<1>6. CASE Inspect
  BY <1>3, <1>6 DEF Inspect
<1> QED BY <1>4, <1>5, <1>6

HookStep ==
    \/ \E h \in Handlers : \/ deliver_webhook(h) \/ ReadDefinition(h) \/ _record_fire(h) \/ create_task(h)
                           \/ _link_run_task(h) \/ Accept(h) \/ DieFiring(h)
    \/ set_recurring_enabled
RowStep ==
    \/ \E h \in Handlers : \/ Lookup(h) \/ InsertDelivery(h) \/ retry_failed(h) \/ ReadBack(h) \/ Fails(h)
                           \/ Done(h) \/ Comment(h) \/ add_comment(h) \/ Send(h) \/ Ignore(h) \/ settle(h) \/ Die(h)
    \/ Inspect \/ release_integration_delivery

LEMMA RowSteps ==
    ASSUME RowInv, RowStep
    PROVE  RowInv' /\ UNCHANGED hookVars /\ FinalKeyStands
<1>1. RowInv'
  BY CallKeeps, EffectKeeps, ClaimKeeps, SettleKeeps, ReleaseKeeps DEF RowStep
<1>2. UNCHANGED hookVars
  BY DEF RowStep, Lookup, InsertDelivery, retry_failed, ReadBack, Fails, Done, Comment, add_comment, Send, Ignore, settle, Die,
         Inspect, release_integration_delivery
<1>3. delivery' # delivery => delivery.status \in {"none", "failed", "processing"}
  BY DEF RowStep, Lookup, InsertDelivery, retry_failed, Retryable, ReadBack, Fails, Done, Comment, add_comment, Send, Ignore,
         settle, Settles, Owns, Die, Inspect, release_integration_delivery
<1>4. FinalKeyStands
  BY <1>3 DEF FinalKeyStands, Final
<1> QED BY <1>1, <1>2, <1>4

HookRow == [at : {"rest", "fire", "record", "task", "link", "accept"}, run : Nat, task : Nat]

LEMMA HookReads ==
    ASSUME HookInv
    PROVE  /\ hook \in [Handlers -> HookRow] /\ runs \in Seq(Nat) /\ Len(runs) \in Nat
           /\ hookTasks \in 0..MaxTries /\ hookTasks \in Nat /\ accepted \in 0..hookTasks /\ MaxTries \in Nat
           /\ \A i \in 1..Len(runs) : runs[i] \in 0..hookTasks
           /\ \A h \in Handlers : hook[h].run \in 0..Len(runs) /\ hook[h].task \in 0..hookTasks
           /\ enabled \in BOOLEAN /\ excused \in BOOLEAN
           /\ IsFiniteSet(Minting) /\ Cardinality(Minting) \in Nat /\ hookTasks + Cardinality(Minting) <= Len(runs)
BY DeliveriesAssumption, FS_CardinalityType DEF HookInv, HookTyped, HookRow, RunsLead

\* A fire that moves on where no task is being minted, before or after.
LEMMA FireMoves ==
    ASSUME HookInv, NEW h \in Handlers, NEW r \in HookRow, hook' = [hook EXCEPT ![h] = r],
           r.at # "task", UNCHANGED <<runs, hookTasks>>
    PROVE  RunsLead' /\ hook' \in [Handlers -> HookRow] /\ hook'[h] = r /\ \A g \in Handlers \ {h} : hook'[g] = hook[g]
<1>1. hook' \in [Handlers -> HookRow] /\ hook'[h] = r /\ \A g \in Handlers \ {h} : hook'[g] = hook[g]
  BY HookReads
<1>2. Minting' = Minting \/ Minting' = Minting \ {h}
  BY <1>1 DEF Minting
<1>3. IsFiniteSet(Minting') /\ Cardinality(Minting') <= Cardinality(Minting) /\ Cardinality(Minting') \in Nat
  BY <1>2, HookReads, FS_Subset, FS_CardinalityType
<1> QED BY <1>1, <1>3, HookReads DEF RunsLead

LEMMA HookRests == HookRest \in HookRow /\ HookRest.at = "rest" /\ HookRest.run = 0 /\ HookRest.task = 0
BY DEF HookRest, HookRow

\* A delivery that comes, is refused, or dies.
LEMMA FireKeeps ==
    ASSUME HookInv, NEW h \in Handlers, deliver_webhook(h) \/ ReadDefinition(h) \/ DieFiring(h)
    PROVE  HookInv'
<1>1. UNCHANGED <<enabled, runs, hookTasks, accepted>>
  BY DEF deliver_webhook, ReadDefinition, DieFiring
<1>2. hook[h] \in HookRow /\ hook[h].run \in 0..Len(runs) /\ hook[h].task \in 0..hookTasks /\ 0 \in 0..Len(runs) /\ 0 \in 0..hookTasks
  BY HookReads
<1>3. PICK r \in HookRow :
        /\ hook' = [hook EXCEPT ![h] = r] /\ r.at \in {"rest", "fire", "record"}
        /\ r.run \in 0..Len(runs) /\ r.task \in 0..hookTasks
        /\ \/ deliver_webhook(h) /\ r.at = "fire"
           \/ ReadDefinition(h) /\ r.at \in {"rest", "record"}
           \/ DieFiring(h) /\ r.at = "rest"
  <2>1. CASE deliver_webhook(h) \/ ReadDefinition(h)
    <3> DEFINE to == IF deliver_webhook(h) THEN "fire" ELSE IF enabled THEN "record" ELSE "rest"
               r == [hook[h] EXCEPT !.at = to]
    <3>1. r \in HookRow /\ r.at = to /\ r.run = hook[h].run /\ r.task = hook[h].task
      BY <1>2 DEF HookRow
    <3>2. hook' = [hook EXCEPT ![h] = r]
      BY <2>1 DEF deliver_webhook, ReadDefinition, HookAt, Hooking
    <3> HIDE DEF r
    <3> QED BY <1>2, <2>1, <3>1, <3>2
  <2>2. CASE DieFiring(h)
    BY <1>2, <2>2, HookRests DEF DieFiring, Gone, Hooking
  <2> QED BY <2>1, <2>2
<1>4. RunsLead' /\ hook' \in [Handlers -> HookRow] /\ hook'[h] = r /\ \A g \in Handlers \ {h} : hook'[g] = hook[g]
  BY <1>1, <1>3, FireMoves
<1>5. excused' \in BOOLEAN /\ (excused => excused')
  <2>1. excused \in BOOLEAN
    BY HookReads
  <2>2. CASE deliver_webhook(h)
    <3>1. excused' = (excused \/ \E other \in Handlers : hook[other].at # "rest")
      BY <2>2 DEF deliver_webhook
    <3> QED BY <3>1
  <2>3. CASE ReadDefinition(h)
    BY <2>1, <2>3 DEF ReadDefinition
  <2>4. CASE DieFiring(h)
    BY <2>4 DEF DieFiring, Gone
  <2> QED BY <2>2, <2>3, <2>4
<1>6. HookTyped'
  BY <1>1, <1>3, <1>4, <1>5, HookReads DEF HookTyped, HookRow
<1>7. RunsAreLinked'
  BY <1>1, <1>3, <1>4 DEF HookInv, RunsAreLinked, AnswerIsLinked
<1>8. OneFire'
  <2>1. CASE excused'
    BY <2>1 DEF OneFire
  <2>2. CASE deliver_webhook(h) /\ ~excused'
    <3>1. ~excused /\ accepted = 0 /\ \A g \in Handlers : hook[g].at = "rest"
      BY <2>2 DEF deliver_webhook, Unheard
    <3>2. Len(runs) = 0
      <4>1. Len(runs) <= 1 /\ Len(runs) # 1
        BY <3>1 DEF HookInv, OneFire
      <4>2. Len(runs) \in Nat
        BY HookReads
      <4> QED BY <4>1, <4>2
    <3> QED BY <1>1, <1>4, <3>1, <3>2 DEF OneFire
  <2>3. CASE ReadDefinition(h) /\ ~excused'
    <3>1. ~excused /\ hook[h].at = "fire" /\ Len(runs) = 0
      BY <1>5, <2>3 DEF ReadDefinition, HookInv, OneFire
    <3> QED BY <1>1, <1>3, <1>4, <3>1 DEF HookInv, OneFire
  <2>4. CASE DieFiring(h)
    BY <2>1, <2>4 DEF DieFiring, Gone
  <2> QED BY <1>3, <2>1, <2>2, <2>3, <2>4
<1> QED BY <1>4, <1>6, <1>7, <1>8 DEF HookInv

\* The run is there, or there is no fire.
LEMMA RecordKeeps ==
    ASSUME HookInv, NEW h \in Handlers, _record_fire(h)
    PROVE  HookInv'
<1>1. UNCHANGED <<enabled, hookTasks, accepted, excused>> /\ hook[h].at = "record" /\ hook[h] \in HookRow
      /\ hook[h].run \in 0..Len(runs) /\ hook[h].task \in 0..hookTasks
  BY HookReads DEF _record_fire
<1>2. excused \/ (Len(runs) = 0 /\ \A g \in Handlers \ {h} : hook[g].at = "rest")
  BY <1>1 DEF HookInv, OneFire
<1>3. CASE hook' = [hook EXCEPT ![h] = HookRest] /\ UNCHANGED runs
  <2>1. RunsLead' /\ hook' \in [Handlers -> HookRow] /\ hook'[h] = HookRest /\ \A g \in Handlers \ {h} : hook'[g] = hook[g]
    BY <1>1, <1>3, HookRests, FireMoves
  <2>2. HookTyped'
    BY <1>1, <1>3, <2>1, HookReads, HookRests DEF HookTyped, HookRow
  <2>3. RunsAreLinked'
    BY <1>1, <1>3, <2>1, HookRests DEF HookInv, RunsAreLinked, AnswerIsLinked
  <2>4. OneFire'
    <3>1. excused \/ (\A g \in Handlers : hook'[g].at = "rest")
      BY <1>2, <2>1, HookRests
    <3>2. excused \/ (Len(runs') <= 1 /\ Len(runs') # 1)
      BY <1>2, <1>3
    <3> QED BY <1>1, <3>1, <3>2 DEF OneFire
  <2> QED BY <2>1, <2>2, <2>3, <2>4 DEF HookInv
<1>4. CASE runs' = Append(runs, 0) /\ hook' = [hook EXCEPT ![h] = [hook[h] EXCEPT !.at = "task", !.run = Len(runs) + 1]]
  <2> DEFINE r == [hook[h] EXCEPT !.at = "task", !.run = Len(runs) + 1]
  <2>1. r \in HookRow /\ r.at = "task" /\ r.run = Len(runs) + 1 /\ r.task = hook[h].task /\ hook' = [hook EXCEPT ![h] = r]
    <3>1. Len(runs) + 1 \in Nat
      BY HookReads
    <3> QED BY <1>1, <1>4, <3>1 DEF HookRow
  <2> HIDE DEF r
  <2>2. hook' \in [Handlers -> HookRow] /\ hook'[h] = r /\ \A g \in Handlers \ {h} : hook'[g] = hook[g]
    BY <2>1, HookReads
  <2>3. /\ runs' \in Seq(Nat) /\ Len(runs') = Len(runs) + 1 /\ runs'[Len(runs) + 1] = 0
        /\ \A i \in 1..Len(runs) : runs'[i] = runs[i]
    BY <1>4, HookReads
  <2>4. /\ \A i \in 1..Len(runs') : i = Len(runs) + 1 \/ i \in 1..Len(runs)
        /\ 0 \in 0..hookTasks /\ \A n \in 0..Len(runs) : n \in 0..Len(runs') /\ n # Len(runs) + 1
        /\ Len(runs) + 1 \in 0..Len(runs') /\ Len(runs) + 1 # 0
    BY <2>3, HookReads
  <2>5. \A i \in 1..Len(runs') : runs'[i] \in 0..hookTasks
    BY <2>3, <2>4, HookReads
  <2>6. HookTyped'
    BY <1>1, <2>1, <2>2, <2>3, <2>4, <2>5, HookReads DEF HookTyped, HookRow
  <2>7. RunsLead'
    <3>1. Minting' = Minting \cup {h} /\ h \notin Minting
      BY <1>1, <2>1, <2>2 DEF Minting
    <3>2. IsFiniteSet(Minting') /\ Cardinality(Minting') = Cardinality(Minting) + 1
      BY <3>1, HookReads, FS_AddElement
    <3> QED BY <1>1, <2>3, <3>2, HookReads DEF RunsLead
  <2>8. RunsAreLinked'
    <3>1. \A g \in Handlers \ {h} : hook[g].run # Len(runs) + 1 /\ (hook[g].run # 0 => hook[g].run \in 1..Len(runs))
      BY <2>4, HookReads
    <3>2. \A g \in Handlers \ {h} : hook[g].run # 0 => runs'[hook[g].run] = runs[hook[g].run]
      BY <2>3, <3>1
    <3>3. AnswerIsLinked'
      <4>1. DOMAIN runs = 1..Len(runs) /\ DOMAIN runs' = 1..Len(runs') /\ \A i \in 1..Len(runs) : i \in 1..Len(runs')
        BY <2>3, HookReads
      <4> QED BY <1>1, <2>3, <4>1 DEF HookInv, RunsAreLinked, AnswerIsLinked
    <3> QED BY <2>1, <2>2, <2>3, <2>4, <3>1, <3>2, <3>3 DEF HookInv, RunsAreLinked
  <2>9. OneFire'
    BY <1>1, <1>2, <2>1, <2>2, <2>3 DEF OneFire
  <2> QED BY <2>6, <2>7, <2>8, <2>9 DEF HookInv
<1> QED BY <1>3, <1>4 DEF _record_fire, Hooking

LEMMA MintKeeps ==
    ASSUME HookInv, NEW h \in Handlers, create_task(h)
    PROVE  HookInv'
<1>1. UNCHANGED <<enabled, runs, accepted, excused>> /\ hook[h].at = "task" /\ hook[h] \in HookRow
      /\ hookTasks < MaxTries /\ hookTasks' = hookTasks + 1
  BY HookReads DEF create_task
<1> DEFINE r == [hook[h] EXCEPT !.at = "link", !.task = hookTasks + 1]
<1>2. r \in HookRow /\ r.at = "link" /\ r.task = hookTasks + 1 /\ r.run = hook[h].run /\ hook' = [hook EXCEPT ![h] = r]
  <2>1. hookTasks + 1 \in Nat
    BY HookReads
  <2>2. hook' = [hook EXCEPT ![h] = r]
    BY DEF create_task, Hooking
  <2> QED BY <1>1, <2>1, <2>2 DEF HookRow
<1> HIDE DEF r
<1>3. hook' \in [Handlers -> HookRow] /\ hook'[h] = r /\ \A g \in Handlers \ {h} : hook'[g] = hook[g]
  BY <1>2, HookReads
<1>4. hookTasks' \in 0..MaxTries /\ hookTasks + 1 # 0 /\ hookTasks + 1 \in 0..hookTasks' /\ \A n \in 0..hookTasks : n \in 0..hookTasks'
  BY <1>1, HookReads
<1>5. HookTyped'
  BY <1>1, <1>2, <1>3, <1>4, HookReads DEF HookTyped, HookRow
<1>6. RunsLead'
  <2>1. Minting' = Minting \ {h} /\ h \in Minting
    BY <1>1, <1>2, <1>3 DEF Minting
  <2>2. IsFiniteSet(Minting') /\ Cardinality(Minting') = Cardinality(Minting) - 1
    BY <2>1, HookReads, FS_RemoveElement
  <2> QED BY <1>1, <2>2, HookReads DEF RunsLead
<1>7. RunsAreLinked'
  BY <1>1, <1>2, <1>3, <1>4 DEF HookInv, RunsAreLinked, AnswerIsLinked
<1>8. OneFire'
  BY <1>1, <1>2, <1>3 DEF HookInv, OneFire
<1> QED BY <1>5, <1>6, <1>7, <1>8 DEF HookInv

\* The run is linked before the answer of the delivery is there.
LEMMA LinkKeeps ==
    ASSUME HookInv, NEW h \in Handlers, _link_run_task(h) \/ Accept(h)
    PROVE  HookInv'
<1>1. UNCHANGED <<enabled, hookTasks, excused>> /\ hook[h] \in HookRow
      /\ hook[h].run \in 1..Len(runs) /\ hook[h].task \in 1..hookTasks
  BY HookReads DEF _link_run_task, Accept, HookInv, RunsAreLinked
<1>2. CASE _link_run_task(h)
  <2> DEFINE r == [hook[h] EXCEPT !.at = "accept"]
             i == hook[h].run
             k == hook[h].task
  <2>1. r \in HookRow /\ r.at = "accept" /\ r.task = k /\ r.run = i
    BY <1>1 DEF HookRow
  <2>2. /\ runs' = [runs EXCEPT ![i] = k] /\ hook' = [hook EXCEPT ![h] = r] /\ accepted' = accepted
        /\ hook[h].at = "link" /\ runs[i] = 0
    BY <1>2 DEF _link_run_task, HookAt, Hooking, HookInv, RunsAreLinked
  <2>3. i \in 1..Len(runs) /\ k \in 1..hookTasks
    BY <1>1
  <2> HIDE DEF r, i, k
  <2>4. /\ runs' \in Seq(Nat) /\ Len(runs') = Len(runs) /\ runs'[i] = k
        /\ \A j \in 1..Len(runs) : j # i => runs'[j] = runs[j]
    BY <2>2, <2>3, HookReads
  <2>5. RunsLead /\ RunsLead' /\ hook' \in [Handlers -> HookRow] /\ hook'[h] = r /\ \A g \in Handlers \ {h} : hook'[g] = hook[g]
    <3>1. hook' \in [Handlers -> HookRow] /\ hook'[h] = r /\ \A g \in Handlers \ {h} : hook'[g] = hook[g]
      BY <2>1, <2>2, HookReads
    <3>2. Minting' = Minting
      BY <2>1, <2>2, <3>1 DEF Minting
    <3> QED BY <1>1, <2>4, <3>1, <3>2 DEF HookInv, RunsLead
  <2>6. HookTyped'
    <3>1. i \in 0..Len(runs) /\ k \in 0..hookTasks
      BY <2>3, HookReads
    <3>2. \A j \in 1..Len(runs) : runs'[j] \in 0..hookTasks
      <4>1. \A j \in 1..Len(runs) : runs[j] \in 0..hookTasks
        BY HookReads
      <4> QED BY <2>4, <3>1, <4>1
    <3> QED BY <1>1, <2>1, <2>2, <2>4, <2>5, <3>1, <3>2, HookReads DEF HookTyped, HookRow
  <2>7. RunsAreLinked'
    <3>1. \A g \in Handlers \ {h} : hook[g].at \in {"task", "link", "accept"} => hook[g].run \in 1..Len(runs) /\ hook[g].run # i
      <4> SUFFICES ASSUME NEW g \in Handlers \ {h}, hook[g].at \in {"task", "link", "accept"}
                   PROVE  hook[g].run \in 1..Len(runs) /\ hook[g].run # i
        OBVIOUS
      <4>1. hook[g].run \in 1..Len(runs)
        BY HookReads DEF HookInv, RunsAreLinked
      <4>2. CASE hook[g].at = "accept"
        BY <2>2, <4>1, <4>2 DEF HookInv, RunsAreLinked
      <4>3. CASE hook[g].at \in {"task", "link"}
        BY <2>2, <4>1, <4>3 DEF HookInv, RunsAreLinked, i
      <4> QED BY <4>1, <4>2, <4>3
    <3>2. \A g \in Handlers \ {h} : hook[g].at \in {"task", "link", "accept"} => runs'[hook[g].run] = runs[hook[g].run]
      BY <2>4, <3>1
    <3>3. AnswerIsLinked'
      <4> SUFFICES ASSUME accepted # 0 PROVE \E j \in DOMAIN runs' : runs'[j] = accepted
        BY <2>2 DEF AnswerIsLinked
      <4>1. PICK j \in 1..Len(runs) : runs[j] = accepted
        BY HookReads DEF HookInv, RunsAreLinked, AnswerIsLinked
      <4>2. j # i /\ runs'[j] = accepted /\ j \in DOMAIN runs'
        BY <2>2, <2>4, <4>1
      <4> QED BY <4>2
    <3>4. i # 0 /\ k # 0
      BY <2>3
    <3> QED BY <2>1, <2>2, <2>4, <2>5, <3>1, <3>2, <3>3, <3>4 DEF HookInv, RunsAreLinked
  <2>8. OneFire'
    BY <1>1, <2>1, <2>2, <2>4, <2>5 DEF HookInv, OneFire
  <2> QED BY <2>5, <2>6, <2>7, <2>8 DEF HookInv
<1>3. CASE Accept(h)
  <2>1. /\ UNCHANGED runs /\ hook' = [hook EXCEPT ![h] = HookRest] /\ hook[h].at = "accept"
        /\ accepted' = IF accepted = 0 THEN hook[h].task ELSE accepted
        /\ runs[hook[h].run] = hook[h].task
    BY <1>3 DEF Accept, Hooking, HookInv, RunsAreLinked
  <2>2. RunsLead' /\ hook' \in [Handlers -> HookRow] /\ hook'[h] = HookRest /\ \A g \in Handlers \ {h} : hook'[g] = hook[g]
    BY <1>1, <2>1, HookRests, FireMoves
  <2>3. accepted' \in 0..hookTasks /\ accepted' # 0
    BY <1>1, <2>1, HookReads
  <2>4. HookTyped'
    BY <1>1, <2>1, <2>2, <2>3, HookReads, HookRests DEF HookTyped, HookRow
  <2>5. AnswerIsLinked'
    <3>1. DOMAIN runs = 1..Len(runs)
      BY HookReads
    <3> QED BY <1>1, <2>1, <3>1 DEF HookInv, RunsAreLinked, AnswerIsLinked
  <2>6. RunsAreLinked'
    BY <2>1, <2>2, <2>5, HookRests DEF HookInv, RunsAreLinked
  <2>7. OneFire'
    BY <1>1, <2>1, <2>2, <2>3, HookRests DEF HookInv, OneFire
  <2> QED BY <2>2, <2>4, <2>6, <2>7 DEF HookInv
<1> QED BY <1>2, <1>3

LEMMA HookSteps ==
    ASSUME HookInv, HookStep
    PROVE  HookInv' /\ UNCHANGED rowVars
<1>1. CASE set_recurring_enabled
  <2>1. enabled' \in BOOLEAN /\ UNCHANGED <<runs, hookTasks, accepted, hook, excused>>
    BY <1>1 DEF set_recurring_enabled
  <2>2. HookTyped'
    BY <2>1 DEF HookInv, HookTyped
  <2>3. RunsLead'
    BY <2>1 DEF HookInv, RunsLead, Minting
  <2>4. RunsAreLinked' /\ OneFire'
    BY <2>1 DEF HookInv, RunsAreLinked, AnswerIsLinked, OneFire
  <2>5. UNCHANGED rowVars
    BY <1>1 DEF set_recurring_enabled
  <2> QED BY <2>2, <2>3, <2>4, <2>5 DEF HookInv
<1>2. HookInv'
  BY <1>1, FireKeeps, RecordKeeps, MintKeeps, LinkKeeps DEF HookStep
<1>3. UNCHANGED rowVars
  BY DEF HookStep, deliver_webhook, ReadDefinition, _record_fire, create_task, _link_run_task, Accept, DieFiring, set_recurring_enabled
<1> QED BY <1>2, <1>3

LEMMA DeliverySteps ==
    ASSUME RowInv, HookInv, [DeliveryNext]_deliveryVars
    PROVE  RowInv' /\ HookInv' /\ FinalKeyStands
<1>1. UNCHANGED hookVars => HookInv'
  BY DEF hookVars, HookInv, HookTyped, RunsLead, Minting, RunsAreLinked, AnswerIsLinked, OneFire
<1>2. UNCHANGED rowVars => RowInv' /\ FinalKeyStands
  BY DEF rowVars, RowInv, RowTyped, OneEngaged, Engaged, EffectIsSaid, Happened, FinalKeyStands
<1>3. CASE RowStep
  BY <1>1, <1>3, RowSteps
<1>4. CASE HookStep
  BY <1>2, <1>4, HookSteps
<1>5. CASE UNCHANGED deliveryVars
  BY <1>1, <1>2, <1>5 DEF deliveryVars, hookVars, rowVars
<1> QED BY <1>3, <1>4, <1>5 DEF DeliveryNext, RowStep, HookStep

LEMMA DeliveryBegins ==
    ASSUME DeliveryInit
    PROVE  RowInv /\ HookInv
<1>1. 0 \in 0..MaxTries /\ 0 <= 0 /\ 0 \in 0..0 /\ MaxTries \in Nat
  BY DeliveriesAssumption
<1>2. /\ kind \in Kinds /\ delivery = [status |-> "none", attempts |-> 0] /\ release = 0 /\ hasty = FALSE
      /\ world = [done |-> FALSE, comments |-> 0, sent |-> 0]
      /\ handler = [h \in Handlers |-> Resting]
  BY DEF DeliveryInit, NoDelivery
<1>3. \A h \in Handlers : handler[h] = Resting /\ ~Engaged(h)
  BY <1>2, RestingIsTyped DEF Engaged, EngagedAt
<1>4. delivery.status = "none" /\ delivery.attempts = 0 /\ delivery \in [status : DeliveryStatuses, attempts : 0..MaxTries]
  BY <1>1, <1>2 DEF DeliveryStatuses
<1>5. world.comments = 0 /\ world.sent = 0 /\ world \in [done : BOOLEAN, comments : Nat, sent : Nat]
  BY <1>2
<1>6. RowInv
  <2>1. RowTyped
    BY <1>1, <1>2, <1>3, <1>4, <1>5, RestingIsTyped DEF RowTyped, HandlerRow
  <2>2. OneEngaged
    BY <1>3 DEF OneEngaged
  <2>3. EffectIsSaid
    BY <1>3, <1>4, <1>5, RestingIsTyped DEF EffectIsSaid
  <2> QED BY <2>1, <2>2, <2>3 DEF RowInv
<1>7. /\ enabled = TRUE /\ runs = <<>> /\ Len(runs) = 0 /\ hookTasks = 0 /\ accepted = 0 /\ excused = FALSE
      /\ hook = [h \in Handlers |-> HookRest]
  BY DEF DeliveryInit
<1>8. \A h \in Handlers : hook[h] = HookRest
  BY <1>7
<1>9. HookInv
  <2>1. HookTyped
    <3>1. enabled \in BOOLEAN /\ excused \in BOOLEAN
      BY <1>7
    <3>2. hook \in [Handlers -> HookRow]
      BY <1>7, HookRests
    <3>3. runs \in Seq(Nat) /\ \A i \in 1..Len(runs) : runs[i] \in 0..hookTasks
      BY <1>7
    <3> QED BY <1>1, <1>7, <1>8, <3>1, <3>2, <3>3, HookRests DEF HookTyped, HookRow
  <2>2. RunsLead
    <3>1. Minting = {}
      BY <1>8, HookRests DEF Minting
    <3> QED BY <1>7, <3>1, FS_EmptySet DEF RunsLead
  <2>3. RunsAreLinked
    BY <1>7, <1>8, HookRests DEF RunsAreLinked, AnswerIsLinked
  <2>4. OneFire
    BY <1>7, <1>8, HookRests DEF OneFire
  <2> QED BY <2>1, <2>2, <2>3, <2>4 DEF HookInv
<1> QED BY <1>6, <1>9

LEMMA DeliveriesFollow ==
    ASSUME RowInv, HookInv
    PROVE  DeliveriesAreSound
<1>1. DeliveryTypeOK
  <2>1. DOMAIN runs = 1..Len(runs)
    BY HookReads
  <2>2. /\ delivery.status \in {"none", "processing", "failed"} \cup Final /\ delivery.attempts \in 0..MaxTries
        /\ (delivery.status = "none") <=> (delivery.attempts = 0)
    BY DEF RowInv, RowTyped, DeliveryStatuses
  <2>3. \A h \in Handlers : /\ handler[h].attempt \in 0..delivery.attempts
                            /\ handler[h].at \notin {"rest", "insert", "retry", "claimed"} => handler[h].attempt # 0
    <3>1. \A h \in Handlers : handler[h].attempt \in 0..MaxTries /\ handler[h].attempt <= delivery.attempts
      BY RowReads DEF RowInv, RowTyped, HandlerRow
    <3>2. delivery.attempts \in Nat
      BY RowReads
    <3> QED BY <3>1, <3>2 DEF RowInv, RowTyped
  <2> QED BY <2>1, <2>2, <2>3, HookReads DEF DeliveryTypeOK
<1>2. OneHandler
  <2> DEFINE at == {h \in Handlers : handler[h].at \in {"claimed", "effect", "comment", "add"}}
  <2>1. CASE hasty
    BY <2>1 DEF OneHandler
  <2>2. CASE ~hasty /\ at = {}
    BY <2>2, FS_EmptySet DEF OneHandler
  <2>3. CASE ~hasty /\ at # {}
    <3>1. PICK h : h \in at
      BY <2>3
    <3>2. at = {h}
      BY <2>3, <3>1 DEF RowInv, OneEngaged, Engaged, EngagedAt
    <3> HIDE DEF at
    <3>3. Cardinality(at) = 1
      BY <3>2, FS_Singleton
    <3> QED BY <3>3 DEF OneHandler, at
  <2> QED BY <2>1, <2>2, <2>3
<1>3. HandledOnce /\ SentIsSent
  BY DEF RowInv, EffectIsSaid, Happened, HandledOnce, SentIsSent
<1>4. FireIsRecorded
  BY HookReads DEF FireIsRecorded
<1>5. FiresAgainOnlyIf /\ AnswerIsLinked
  BY HookReads DEF HookInv, OneFire, RunsAreLinked, FiresAgainOnlyIf
<1> QED BY <1>1, <1>2, <1>3, <1>4, <1>5 DEF DeliveriesAreSound

\* control/integration_deliveries.py, control/webhooks.py, control/recurring.py: however often a
\* delivery comes, is retried, released or dies halfway, its effect happened once and is what
\* the rows say of it.
THEOREM HandledOnceHolds == DeliveryInit /\ [][DeliveryNext]_deliveryVars => []DeliveriesAreSound
<1>1. RowInv /\ HookInv /\ [DeliveryNext]_deliveryVars => RowInv' /\ HookInv'
  BY DeliverySteps
<1> QED BY <1>1, DeliveryBegins, DeliveriesFollow, PTL
-----------------------------------------------------------------------------
(* The queue.  While nobody opened the Issue under an agent, the one that   *)
(* is at work keeps it from being open; a Session is one daemon's.          *)

DaemonAt == {"idle", "listed", "claimed", "opened", "running", "exited", "failing", "reported", "aborting", "asking", "down"}
CallerAt == {"rest", "planned", "row", "read", "assigned"}
SettlingAt == {"rest", "asked", "end", "block", "write"}
SessionStates == {"none", "spawning", "running", "completed", "failed"}
SessionRow == [state : SessionStates, runtime : Daemons \cup {NoOne}, aged : BOOLEAN]
DaemonRow == [at : DaemonAt, session : Sessions \cup {NoOne}, ok : BOOLEAN, stopped : BOOLEAN]
CallerRow == [at : CallerAt, runtime : Daemons \cup {NoOne}, bound : BOOLEAN, open : BOOLEAN]
SettlingRow == [at : SettlingAt, pending : SUBSET Sessions, session : Sessions \cup {NoOne}]
HoldingAt == {"opened", "running", "exited", "failing", "reported"}
AgentAt == {"opened", "running"}

QueueTyped ==
    /\ issue \in [status : IssueStatuses, runtime : Daemons \cup {NoOne}] /\ reopened \in BOOLEAN
    /\ session \in [Sessions -> SessionRow] /\ daemon \in [Daemons -> DaemonRow]
    /\ caller \in [Dispatchers -> CallerRow] /\ settling \in [Requests -> SettlingRow]
    /\ \A s \in Sessions : (session[s].state = "none") <=> (session[s].runtime = NoOne)
    /\ \A d \in Daemons : daemon[d].at \in HoldingAt => daemon[d].session # NoOne
    /\ \A r \in Requests : settling[r].at \in {"block", "write"} => settling[r].session \in Sessions
    /\ \A c \in Dispatchers : (caller[c].at = "rest") <=> (caller[c].runtime = NoOne)

OneAtWork == reopened \/ /\ \A d, e \in AtWork : d = e
                         /\ AtWork # {} => issue.status # "open"

\* A Session that a daemon or a settlement names is there, and two daemons name two.
SessionsAreThere ==
    /\ \A d \in Daemons : daemon[d].session # NoOne => session[daemon[d].session].state # "none"
    /\ \A d, e \in Daemons : daemon[d].session # NoOne /\ daemon[d].session = daemon[e].session => d = e
    /\ \A r \in Requests : \A s \in settling[r].pending : session[s].state # "none"

\* The Session of an agent is its daemon's, too young for the reconciliation that is asked for,
\* and no settlement is about to end it.
AgentsAreSafe ==
    /\ \A d \in Daemons : settling[<<d, "stop">>].at # "asked"
    /\ \A d \in Daemons : daemon[d].at \in AgentAt =>
        /\ session[daemon[d].session].runtime = d
        /\ settling[<<d, "reconcile">>].at = "asked" => ~session[daemon[d].session].aged
        /\ \A r \in Requests : daemon[d].session \notin settling[r].pending

QueueInv == QueueTyped /\ OneAtWork /\ SessionsAreThere /\ AgentsAreSafe

LEMMA QueueReads ==
    ASSUME QueueInv
    PROVE  /\ issue \in [status : IssueStatuses, runtime : Daemons \cup {NoOne}] /\ reopened \in BOOLEAN
           /\ session \in [Sessions -> SessionRow] /\ daemon \in [Daemons -> DaemonRow]
           /\ caller \in [Dispatchers -> CallerRow] /\ settling \in [Requests -> SettlingRow]
BY DEF QueueInv, QueueTyped

LEMMA RestsAreTyped ==
    /\ Idle \in DaemonRow /\ Idle.at = "idle" /\ Idle.session = NoOne
    /\ NoCall \in CallerRow /\ NoCall.at = "rest" /\ NoCall.runtime = NoOne
    /\ NoRequest \in SettlingRow /\ NoRequest.at = "rest" /\ NoRequest.pending = {} /\ NoRequest.session = NoOne
    /\ NoSession \in SessionRow /\ NoSession.state = "none" /\ NoSession.runtime = NoOne
<1>1. Idle \in DaemonRow /\ Idle.at = "idle" /\ Idle.session = NoOne
  BY DEF Idle, DaemonRow, DaemonAt
<1>2. NoCall \in CallerRow /\ NoCall.at = "rest" /\ NoCall.runtime = NoOne
  BY DEF NoCall, CallerRow, CallerAt
<1>3. NoRequest \in SettlingRow /\ NoRequest.at = "rest" /\ NoRequest.pending = {} /\ NoRequest.session = NoOne
  BY DEF NoRequest, SettlingRow, SettlingAt
<1>4. NoSession \in SessionRow /\ NoSession.state = "none" /\ NoSession.runtime = NoOne
  BY DEF NoSession, SessionRow, SessionStates
<1> QED BY <1>1, <1>2, <1>3, <1>4

IssueKept == issue' \in [status : IssueStatuses, runtime : Daemons \cup {NoOne}] /\ reopened' \in BOOLEAN /\ OneAtWork'

\* The Issue as it was, while nobody begins to work on it.
LEMMA IssueStays ==
    ASSUME QueueInv, AtWork' \subseteq AtWork, UNCHANGED reopened,
           issue' \in [status : IssueStatuses, runtime : Daemons \cup {NoOne}], issue'.status = issue.status
    PROVE  IssueKept
BY QueueReads DEF IssueKept, QueueInv, OneAtWork

\* A status that is written; the ghost notes whom it takes the Issue from.
LEMMA StatusIsWritten ==
    ASSUME QueueInv, AtWork' \subseteq AtWork, NEW status \in IssueStatuses, SetStatus(status)
    PROVE  IssueKept
<1>1. /\ issue' \in [status : IssueStatuses, runtime : Daemons \cup {NoOne}] /\ issue'.status = status
      /\ reopened' = (reopened \/ (status = "open" /\ AtWork # {}))
  BY QueueReads DEF SetStatus
<1>2. reopened' \in BOOLEAN
  BY <1>1
<1>3. OneAtWork'
  <2>1. CASE status = "open" /\ AtWork # {}
    BY <1>1, <2>1 DEF OneAtWork
  <2>2. CASE ~(status = "open" /\ AtWork # {})
    BY <1>1, <2>2 DEF QueueInv, OneAtWork
  <2> QED BY <2>1, <2>2
<1> QED BY <1>1, <1>2, <1>3 DEF IssueKept

\* An agent that is through leaves no ghost behind, if it was the last.
LEMMA AgentIsThrough ==
    ASSUME QueueInv, NEW d \in Daemons, AtWork' = AtWork \ {d}, Through(d),
           issue' \in {issue, [issue EXCEPT !.status = "in_progress"]}
    PROVE  IssueKept
<1>1. issue' \in [status : IssueStatuses, runtime : Daemons \cup {NoOne}] /\ issue'.status \in {issue.status, "in_progress"}
  BY QueueReads DEF IssueStatuses
<1>2. reopened' = (reopened /\ AtWork' # {})
  BY DEF Through
<1>3. reopened' \in BOOLEAN
  BY <1>2
<1>4. OneAtWork'
  <2>1. CASE AtWork' = {}
    BY <2>1 DEF OneAtWork
  <2>2. CASE AtWork' # {}
    <3>1. reopened' = reopened
      BY <1>2, <2>2, QueueReads
    <3> QED BY <1>1, <2>2, <3>1 DEF QueueInv, OneAtWork
  <2> QED BY <2>1, <2>2
<1> QED BY <1>1, <1>3, <1>4 DEF IssueKept

\* What moves a daemon makes of who is at work.
LEMMA DaemonMoves ==
    ASSUME QueueInv, NEW d \in Daemons, NEW row \in DaemonRow, daemon' = [daemon EXCEPT ![d] = row]
    PROVE  /\ daemon' \in [Daemons -> DaemonRow] /\ daemon'[d] = row /\ \A e \in Daemons \ {d} : daemon'[e] = daemon[e]
           /\ AtWork' = IF row.at \in {"claimed", "opened", "running"} THEN AtWork \cup {d} ELSE AtWork \ {d}
BY QueueReads DEF AtWork

LEMMA DaemonGoes ==
    ASSUME QueueInv, NEW d \in Daemons, NEW at \in DaemonAt
    PROVE  LET row == [daemon[d] EXCEPT !.at = at]
           IN row \in DaemonRow /\ row.at = at /\ row.session = daemon[d].session
BY QueueReads DEF DaemonRow

\* Sessions, agents and settlements, when no Session begins, is forgotten or ages, no agent begins
\* and no settlement is asked for or takes a Session on.
LEMMA SessionsKeep ==
    ASSUME QueueInv, session' \in [Sessions -> SessionRow], daemon' \in [Daemons -> DaemonRow], settling' \in [Requests -> SettlingRow],
           \A s \in Sessions : /\ (session'[s].state = "none") <=> (session[s].state = "none")
                               /\ session'[s].runtime = session[s].runtime /\ session'[s].aged = session[s].aged,
           \A d \in Daemons : /\ daemon'[d].session \in {daemon[d].session, NoOne}
                              /\ daemon'[d].at \in AgentAt => daemon[d].at \in AgentAt /\ daemon'[d].session = daemon[d].session,
           \A r \in Requests : settling'[r].pending \subseteq settling[r].pending /\ (settling'[r].at = "asked" => settling[r].at = "asked")
    PROVE  SessionsAreThere' /\ AgentsAreSafe'
<1>1. \A d \in Daemons : daemon[d].session \in Sessions \cup {NoOne} /\ daemon'[d].session \in Sessions \cup {NoOne}
  BY QueueReads DEF DaemonRow
<1>2. \A r \in Requests : settling[r].pending \subseteq Sessions
  BY QueueReads DEF SettlingRow
<1>3. SessionsAreThere'
  BY <1>1, <1>2 DEF QueueInv, SessionsAreThere
<1>4. \A d \in Daemons : <<d, "stop">> \in Requests /\ <<d, "reconcile">> \in Requests
  BY DEF Requests
<1>5. \A d \in Daemons : daemon[d].at \in AgentAt => daemon[d].session \in Sessions
  BY <1>1 DEF QueueInv, QueueTyped, AgentAt, HoldingAt
<1>6. AgentsAreSafe'
  <2>1. \A d \in Daemons : settling'[<<d, "stop">>].at # "asked"
    BY <1>4 DEF QueueInv, AgentsAreSafe
  <2>2. ASSUME NEW d \in Daemons, daemon'[d].at \in AgentAt
        PROVE  /\ session'[daemon'[d].session].runtime = d
               /\ settling'[<<d, "reconcile">>].at = "asked" => ~session'[daemon'[d].session].aged
               /\ \A r \in Requests : daemon'[d].session \notin settling'[r].pending
    <3>1. daemon[d].at \in AgentAt /\ daemon'[d].session = daemon[d].session /\ daemon[d].session \in Sessions
      BY <1>5, <2>2
    <3> DEFINE s == daemon[d].session
    <3>2. /\ session[s].runtime = d
          /\ settling[<<d, "reconcile">>].at = "asked" => ~session[s].aged
          /\ \A r \in Requests : s \notin settling[r].pending
      BY <3>1 DEF QueueInv, AgentsAreSafe
    <3>3. session'[s].runtime = session[s].runtime /\ session'[s].aged = session[s].aged
      BY <3>1
    <3>4. settling'[<<d, "reconcile">>].at = "asked" => settling[<<d, "reconcile">>].at = "asked"
      BY <1>4
    <3>5. daemon'[d].session = s
      BY <3>1
    <3> HIDE DEF s
    <3>6. \A r \in Requests : s \notin settling'[r].pending
      BY <3>2
    <3>7. settling'[<<d, "reconcile">>].at = "asked" => ~session'[s].aged
      BY <3>2, <3>3, <3>4
    <3>8. session'[s].runtime = d
      BY <3>2, <3>3
    <3> QED BY <3>5, <3>6, <3>7, <3>8
  <2> QED BY <2>1, <2>2 DEF AgentsAreSafe
<1> QED BY <1>3, <1>6

\* What a step leaves that writes neither Sessions, daemons nor settlements.
LEMMA OthersKeep ==
    ASSUME QueueInv, UNCHANGED <<session, daemon, settling>>
    PROVE  SessionsAreThere' /\ AgentsAreSafe' /\ AtWork' = AtWork
BY DEF QueueInv, SessionsAreThere, AgentsAreSafe, AtWork

\* The Issue and its dispatchers.
LEMMA DispatchKeeps ==
    ASSUME QueueInv, transition \/ assign \/ \E c \in Dispatchers : dispatch_plan(c) \/ ReadIssue(c) \/ EnqueueAssign(c) \/ EnqueueOpen(c)
    PROVE  QueueInv'
<1>1. UNCHANGED <<session, daemon, settling>>
  BY DEF transition, assign, dispatch_plan, ReadIssue, EnqueueAssign, EnqueueOpen
<1>2. SessionsAreThere' /\ AgentsAreSafe' /\ AtWork' = AtWork
  BY <1>1, OthersKeep
<1>3. IssueKept
  <2>1. CASE KeepIssue
    BY <1>2, <2>1, QueueReads, IssueStays DEF KeepIssue
  <2>2. CASE \E status \in IssueStatuses : SetStatus(status)
    BY <1>2, <2>2, StatusIsWritten
  <2>3. CASE UNCHANGED reopened /\ \E d \in Daemons \cup {NoOne} : issue' = [issue EXCEPT !.runtime = d]
    BY <1>2, <2>3, QueueReads, IssueStays
  <2>4. CASE transition
    BY <2>2, <2>4 DEF transition
  <2>5. CASE assign
    BY <2>3, <2>5 DEF assign
  <2>6. CASE \E c \in Dispatchers : dispatch_plan(c) \/ ReadIssue(c)
    BY <2>1, <2>6 DEF dispatch_plan, ReadIssue
  <2>7. ASSUME NEW c \in Dispatchers, EnqueueAssign(c)
        PROVE  IssueKept
    <3>1. caller[c].runtime \in Daemons \cup {NoOne}
      BY QueueReads DEF CallerRow
    <3>2. UNCHANGED reopened /\ (issue' = issue \/ issue' = [issue EXCEPT !.runtime = caller[c].runtime])
      BY <2>7 DEF EnqueueAssign
    <3> QED BY <2>1, <2>3, <3>1, <3>2 DEF KeepIssue
  <2>8. ASSUME NEW c \in Dispatchers, EnqueueOpen(c)
        PROVE  IssueKept
    BY <2>1, <2>2, <2>8 DEF EnqueueOpen, IssueStatuses
  <2> QED BY <2>4, <2>5, <2>6, <2>7, <2>8
<1>4. caller' \in [Dispatchers -> CallerRow] /\ \A c \in Dispatchers : (caller'[c].at = "rest") <=> (caller'[c].runtime = NoOne)
  <2>1. \A c \in Dispatchers : (caller[c].at = "rest") <=> (caller[c].runtime = NoOne)
    BY DEF QueueInv, QueueTyped
  <2>2. CASE UNCHANGED caller
    BY <2>1, <2>2, QueueReads
  <2>3. ASSUME NEW c \in Dispatchers, NEW row \in CallerRow, caller' = [caller EXCEPT ![c] = row], (row.at = "rest") <=> (row.runtime = NoOne)
        PROVE  caller' \in [Dispatchers -> CallerRow] /\ \A b \in Dispatchers : (caller'[b].at = "rest") <=> (caller'[b].runtime = NoOne)
    BY <2>1, <2>3, QueueReads
  <2>4. ASSUME NEW c \in Dispatchers, dispatch_plan(c)
        PROVE  caller' \in [Dispatchers -> CallerRow] /\ \A b \in Dispatchers : (caller'[b].at = "rest") <=> (caller'[b].runtime = NoOne)
    <3> DEFINE row == [NoCall EXCEPT !.at = "planned", !.runtime = issue.runtime]
    <3>1. issue.runtime # NoOne /\ issue.runtime \in Daemons \cup {NoOne} /\ caller' = [caller EXCEPT ![c] = row]
      BY <2>4, QueueReads DEF dispatch_plan, Calling
    <3>2. row \in CallerRow /\ row.at = "planned" /\ row.runtime = issue.runtime
      BY <3>1, RestsAreTyped DEF CallerRow, CallerAt
    <3> HIDE DEF row
    <3> QED BY <2>3, <3>1, <3>2
  <2>5. ASSUME NEW c \in Dispatchers, ReadIssue(c)
        PROVE  caller' \in [Dispatchers -> CallerRow] /\ \A b \in Dispatchers : (caller'[b].at = "rest") <=> (caller'[b].runtime = NoOne)
    <3>1. PICK bound \in BOOLEAN, open \in BOOLEAN : caller' = [caller EXCEPT ![c] = [caller[c] EXCEPT !.at = "read", !.bound = bound, !.open = open]]
      BY <2>5 DEF ReadIssue, Calling
    <3> DEFINE row == [caller[c] EXCEPT !.at = "read", !.bound = bound, !.open = open]
    <3>2. row \in CallerRow /\ row.at = "read" /\ row.runtime = caller[c].runtime
      BY QueueReads DEF CallerRow, CallerAt
    <3>3. caller' = [caller EXCEPT ![c] = row] /\ caller[c].at = "row"
      BY <2>5, <3>1 DEF ReadIssue
    <3> HIDE DEF row
    <3> QED BY <2>1, <2>3, <3>2, <3>3
  <2>6. ASSUME NEW c \in Dispatchers, EnqueueAssign(c)
        PROVE  caller' \in [Dispatchers -> CallerRow] /\ \A b \in Dispatchers : (caller'[b].at = "rest") <=> (caller'[b].runtime = NoOne)
    <3>1. PICK bound \in BOOLEAN : caller' = [caller EXCEPT ![c] = [caller[c] EXCEPT !.at = "assigned", !.bound = bound]]
      BY <2>6 DEF EnqueueAssign, Calling
    <3> DEFINE row == [caller[c] EXCEPT !.at = "assigned", !.bound = bound]
    <3>2. row \in CallerRow /\ row.at = "assigned" /\ row.runtime = caller[c].runtime
      BY QueueReads DEF CallerRow, CallerAt
    <3>3. caller' = [caller EXCEPT ![c] = row] /\ caller[c].at = "read"
      BY <2>6, <3>1 DEF EnqueueAssign
    <3> HIDE DEF row
    <3> QED BY <2>1, <2>3, <3>2, <3>3
  <2>7. ASSUME NEW c \in Dispatchers, EnqueueOpen(c)
        PROVE  caller' \in [Dispatchers -> CallerRow] /\ \A b \in Dispatchers : (caller'[b].at = "rest") <=> (caller'[b].runtime = NoOne)
    BY <2>3, <2>7, RestsAreTyped DEF EnqueueOpen, Calling
  <2> QED BY <2>2, <2>4, <2>5, <2>6, <2>7 DEF transition, assign
<1>5. QueueTyped'
  BY <1>1, <1>3, <1>4 DEF IssueKept, QueueInv, QueueTyped
<1> QED BY <1>2, <1>3, <1>5 DEF IssueKept, QueueInv

\* Names that are freed, and time that goes by.
LEMMA NamesKeep ==
    ASSUME QueueInv, NEW s \in Sessions, Forget(s) \/ Age(s)
    PROVE  QueueInv'
<1>1. UNCHANGED <<daemon, caller, settling, issue, reopened>> /\ AtWork' = AtWork
  BY DEF Forget, Age, KeepIssue, AtWork
<1>2. \A d \in Daemons : /\ daemon[d].session \in Sessions \cup {NoOne}
                         /\ daemon[d].at \in AgentAt => daemon[d].session \in Sessions
  BY QueueReads DEF DaemonRow, QueueInv, QueueTyped, AgentAt, HoldingAt
<1>3. \A r \in Requests : settling[r].pending \subseteq Sessions
  BY QueueReads DEF SettlingRow
<1>4. CASE Forget(s)
  <2>1. session' = [session EXCEPT ![s] = NoSession] /\ ~Held(s)
    BY <1>4 DEF Forget
  <2>2. session' \in [Sessions -> SessionRow] /\ session'[s] = NoSession /\ \A t \in Sessions \ {s} : session'[t] = session[t]
    BY <2>1, QueueReads, RestsAreTyped
  <2>3. (\A d \in Daemons : daemon[d].session # s) /\ (\A r \in Requests : s \notin settling[r].pending)
    BY <2>1 DEF Held
  <2>4. QueueTyped'
    BY <1>1, <2>2, RestsAreTyped DEF QueueInv, QueueTyped
  <2>5. SessionsAreThere'
    BY <1>1, <1>2, <1>3, <2>2, <2>3 DEF QueueInv, SessionsAreThere
  <2>6. \A d \in Daemons : daemon[d].at \in AgentAt => session'[daemon[d].session] = session[daemon[d].session]
    BY <1>2, <2>2, <2>3
  <2>7. AgentsAreSafe'
    BY <1>1, <2>6 DEF QueueInv, AgentsAreSafe
  <2> QED BY <1>1, <2>4, <2>5, <2>7 DEF QueueInv, OneAtWork
<1>5. CASE Age(s)
  <2>1. session' = [session EXCEPT ![s].aged = TRUE] /\ \A r \in Requests : settling[r].at # "asked"
    BY <1>5 DEF Age
  <2>2. session' \in [Sessions -> SessionRow] /\ \A t \in Sessions : session'[t].state = session[t].state /\ session'[t].runtime = session[t].runtime
    BY <2>1, QueueReads DEF SessionRow
  <2>3. QueueTyped'
    BY <1>1, <2>2 DEF QueueInv, QueueTyped
  <2>4. SessionsAreThere'
    BY <1>1, <1>2, <1>3, <2>2 DEF QueueInv, SessionsAreThere
  <2>5. \A d \in Daemons : <<d, "reconcile">> \in Requests
    BY DEF Requests
  <2>6. AgentsAreSafe'
    BY <1>1, <1>2, <2>1, <2>2, <2>5 DEF QueueInv, AgentsAreSafe
  <2> QED BY <1>1, <2>3, <2>4, <2>6 DEF QueueInv, OneAtWork
<1> QED BY <1>4, <1>5

\* A Session that begins, of a dispatch or of an agent, has a name that nothing else names.
LEMMA NameIsFree ==
    ASSUME QueueInv, NEW s \in Sessions, NEW state \in {"spawning", "running"}, NEW d \in Daemons, NewSession(s, state, d)
    PROVE  /\ session' \in [Sessions -> SessionRow] /\ session'[s].state = state /\ session'[s].runtime = d /\ ~session'[s].aged
           /\ \A t \in Sessions \ {s} : session'[t] = session[t]
           /\ \A t \in Sessions : (session'[t].state = "none") <=> (session'[t].runtime = NoOne)
           /\ \A e \in Daemons : daemon[e].session # s
           /\ \A r \in Requests : s \notin settling[r].pending
<1> DEFINE row == [state |-> state, runtime |-> d, aged |-> FALSE]
<1>1. row \in SessionRow /\ row.state = state /\ row.runtime = d /\ ~row.aged
  BY DEF SessionRow, SessionStates
<1>2. session' = [session EXCEPT ![s] = row] /\ session[s].state = "none"
  BY RestsAreTyped DEF NewSession
<1> HIDE DEF row
<1>3. session' \in [Sessions -> SessionRow] /\ session'[s] = row /\ \A t \in Sessions \ {s} : session'[t] = session[t]
  BY <1>1, <1>2, QueueReads
<1>4. d # NoOne /\ s # NoOne
  BY QueueAssumption
<1>5. \A t \in Sessions : (session'[t].state = "none") <=> (session'[t].runtime = NoOne)
  BY <1>1, <1>3, <1>4 DEF QueueInv, QueueTyped
<1>6. (\A e \in Daemons : daemon[e].session # s) /\ (\A r \in Requests : s \notin settling[r].pending)
  BY <1>2, <1>4 DEF QueueInv, SessionsAreThere
<1> QED BY <1>1, <1>3, <1>5, <1>6

LEMMA SpawnKeeps ==
    ASSUME QueueInv, NEW c \in Dispatchers, open_spawn_session(c)
    PROVE  QueueInv'
<1>1. UNCHANGED <<daemon, settling, issue, reopened>> /\ AtWork' = AtWork /\ caller[c].at = "planned"
  BY DEF open_spawn_session, KeepIssue, AtWork
<1>2. caller[c] \in CallerRow /\ caller[c].runtime \in Daemons
  BY <1>1, QueueReads DEF QueueInv, QueueTyped, CallerRow
<1>3. PICK s \in Sessions : NewSession(s, "spawning", caller[c].runtime)
  BY DEF open_spawn_session
<1>4. /\ session' \in [Sessions -> SessionRow] /\ session'[s].state = "spawning"
      /\ \A t \in Sessions \ {s} : session'[t] = session[t]
      /\ \A t \in Sessions : (session'[t].state = "none") <=> (session'[t].runtime = NoOne)
      /\ \A e \in Daemons : daemon[e].session # s
      /\ \A r \in Requests : s \notin settling[r].pending
  BY <1>2, <1>3, NameIsFree
<1> DEFINE row == [caller[c] EXCEPT !.at = "row"]
<1>5. row \in CallerRow /\ row.at = "row" /\ row.runtime = caller[c].runtime /\ caller' = [caller EXCEPT ![c] = row]
  BY <1>2 DEF CallerRow, CallerAt, open_spawn_session, Calling
<1> HIDE DEF row
<1>6. caller' \in [Dispatchers -> CallerRow] /\ \A b \in Dispatchers : (caller'[b].at = "rest") <=> (caller'[b].runtime = NoOne)
  BY <1>1, <1>5, QueueReads DEF QueueInv, QueueTyped
<1>7. QueueTyped'
  BY <1>1, <1>4, <1>6 DEF QueueInv, QueueTyped
<1>8. \A d \in Daemons : daemon[d].session \in Sessions \cup {NoOne} /\ (daemon[d].at \in AgentAt => daemon[d].session \in Sessions)
  BY QueueReads DEF DaemonRow, QueueInv, QueueTyped, AgentAt, HoldingAt
<1>9. \A r \in Requests : settling[r].pending \subseteq Sessions
  BY QueueReads DEF SettlingRow
<1>10. SessionsAreThere'
  BY <1>1, <1>4, <1>8, <1>9 DEF QueueInv, SessionsAreThere
<1>11. \A d \in Daemons : daemon[d].at \in AgentAt => session'[daemon[d].session] = session[daemon[d].session]
  BY <1>4, <1>8
<1>12. AgentsAreSafe'
  BY <1>1, <1>11 DEF QueueInv, AgentsAreSafe
<1> QED BY <1>1, <1>7, <1>10, <1>12 DEF QueueInv, OneAtWork

\* The Session an agent is to have.
LEMMA OpenKeeps ==
    ASSUME QueueInv, NEW d \in Daemons, open_session(d)
    PROVE  QueueInv'
<1>1. UNCHANGED <<caller, settling>> /\ daemon[d].at = "claimed" /\ daemon[d] \in DaemonRow
  BY QueueReads DEF open_session
<1>2. PICK s \in Sessions :
        /\ NewSession(s, "running", d)
        /\ \/ daemon' = [daemon EXCEPT ![d] = [daemon[d] EXCEPT !.at = "opened", !.session = s]] /\ KeepIssue
           \/ daemon' = [daemon EXCEPT ![d] = [daemon[d] EXCEPT !.at = "aborting"]] /\ issue' = issue /\ Through(d)
  BY DEF open_session, Goes, Becomes
<1>3. /\ session' \in [Sessions -> SessionRow] /\ session'[s].state = "running" /\ session'[s].runtime = d /\ ~session'[s].aged
      /\ \A t \in Sessions \ {s} : session'[t] = session[t]
      /\ \A t \in Sessions : (session'[t].state = "none") <=> (session'[t].runtime = NoOne)
      /\ \A e \in Daemons : daemon[e].session # s
      /\ \A r \in Requests : s \notin settling[r].pending
  BY <1>2, NameIsFree
<1>4. PICK row \in DaemonRow :
        /\ daemon' = [daemon EXCEPT ![d] = row]
        /\ \/ row.at = "opened" /\ row.session = s /\ KeepIssue
           \/ row.at = "aborting" /\ row.session = daemon[d].session /\ issue' = issue /\ Through(d)
  <2>1. CASE daemon' = [daemon EXCEPT ![d] = [daemon[d] EXCEPT !.at = "opened", !.session = s]] /\ KeepIssue
    <3> DEFINE row == [daemon[d] EXCEPT !.at = "opened", !.session = s]
    <3>1. row \in DaemonRow /\ row.at = "opened" /\ row.session = s
      BY <1>1 DEF DaemonRow, DaemonAt
    <3> QED BY <2>1, <3>1
  <2>2. CASE daemon' = [daemon EXCEPT ![d] = [daemon[d] EXCEPT !.at = "aborting"]] /\ issue' = issue /\ Through(d)
    <3> DEFINE row == [daemon[d] EXCEPT !.at = "aborting"]
    <3>1. row \in DaemonRow /\ row.at = "aborting" /\ row.session = daemon[d].session
      BY <1>1 DEF DaemonRow, DaemonAt
    <3> QED BY <2>2, <3>1
  <2> QED BY <1>2, <2>1, <2>2
<1>5. /\ daemon' \in [Daemons -> DaemonRow] /\ daemon'[d] = row /\ \A e \in Daemons \ {d} : daemon'[e] = daemon[e]
      /\ AtWork' = IF row.at \in {"claimed", "opened", "running"} THEN AtWork \cup {d} ELSE AtWork \ {d}
  BY <1>4, DaemonMoves
<1>6. IssueKept
  <2>1. CASE row.at = "opened" /\ KeepIssue
    <3>1. AtWork' \subseteq AtWork
      BY <1>1, <1>5, <2>1 DEF AtWork
    <3> QED BY <2>1, <3>1, IssueStays, QueueReads DEF KeepIssue
  <2>2. CASE row.at = "aborting" /\ issue' = issue /\ Through(d)
    BY <1>5, <2>2, AgentIsThrough
  <2> QED BY <1>4, <2>1, <2>2
<1>7. s # NoOne /\ \A e \in Daemons : daemon[e].session \in Sessions \cup {NoOne}
  BY QueueReads, QueueAssumption DEF DaemonRow
<1>8. QueueTyped'
  BY <1>1, <1>3, <1>4, <1>5, <1>6, <1>7 DEF IssueKept, QueueInv, QueueTyped, HoldingAt
<1>9. \A r \in Requests : settling[r].pending \subseteq Sessions
  BY QueueReads DEF SettlingRow
<1>10. SessionsAreThere'
  <2>1. \A e \in Daemons : daemon'[e].session = s \/ daemon'[e].session = daemon[e].session
    BY <1>4, <1>5
  <2>2. \A e \in Daemons : daemon'[e].session # NoOne => session'[daemon'[e].session].state # "none"
    BY <1>3, <1>7, <2>1 DEF QueueInv, SessionsAreThere
  <2>3. \A e, f \in Daemons : daemon'[e].session # NoOne /\ daemon'[e].session = daemon'[f].session => e = f
    BY <1>3, <1>4, <1>5 DEF QueueInv, SessionsAreThere
  <2>4. \A r \in Requests : \A t \in settling'[r].pending : session'[t].state # "none"
    BY <1>1, <1>3, <1>9 DEF QueueInv, SessionsAreThere
  <2> QED BY <2>2, <2>3, <2>4 DEF SessionsAreThere
<1>11. AgentsAreSafe'
  <2>1. \A e \in Daemons : settling'[<<e, "stop">>].at # "asked"
    BY <1>1 DEF QueueInv, AgentsAreSafe
  <2>2. ASSUME NEW e \in Daemons \ {d}, daemon'[e].at \in AgentAt
        PROVE  /\ session'[daemon'[e].session].runtime = e
               /\ settling'[<<e, "reconcile">>].at = "asked" => ~session'[daemon'[e].session].aged
               /\ \A r \in Requests : daemon'[e].session \notin settling'[r].pending
    <3>1. daemon'[e] = daemon[e] /\ daemon[e].session \in Sessions \ {s}
      BY <1>3, <1>5, <1>7, <2>2 DEF QueueInv, QueueTyped, AgentAt, HoldingAt
    <3>2. session'[daemon[e].session] = session[daemon[e].session]
      BY <1>3, <3>1
    <3> QED BY <1>1, <2>2, <3>1, <3>2 DEF QueueInv, AgentsAreSafe
  <2>3. ASSUME daemon'[d].at \in AgentAt
        PROVE  /\ session'[daemon'[d].session].runtime = d
               /\ settling'[<<d, "reconcile">>].at = "asked" => ~session'[daemon'[d].session].aged
               /\ \A r \in Requests : daemon'[d].session \notin settling'[r].pending
    <3>1. daemon'[d].session = s
      BY <1>4, <1>5, <2>3 DEF AgentAt
    <3> QED BY <1>1, <1>3, <3>1
  <2> QED BY <2>1, <2>2, <2>3 DEF AgentsAreSafe
<1> QED BY <1>6, <1>8, <1>10, <1>11 DEF IssueKept, QueueInv

\* A daemon that goes on, with the Session that it has or without one.
LEMMA DaemonKeeps ==
    ASSUME QueueInv, NEW d \in Daemons, NEW row \in DaemonRow, daemon' = [daemon EXCEPT ![d] = row],
           UNCHANGED <<caller, settling>>, IssueKept,
           session' \in [Sessions -> SessionRow],
           \A s \in Sessions : /\ (session'[s].state = "none") <=> (session[s].state = "none")
                               /\ session'[s].runtime = session[s].runtime /\ session'[s].aged = session[s].aged,
           row.session \in {daemon[d].session, NoOne},
           row.at \in HoldingAt => daemon[d].at \in HoldingAt /\ row.session = daemon[d].session,
           row.at \in AgentAt => daemon[d].at \in AgentAt
    PROVE  QueueInv'
<1>1. daemon' \in [Daemons -> DaemonRow] /\ daemon'[d] = row /\ \A e \in Daemons \ {d} : daemon'[e] = daemon[e]
  BY DaemonMoves
<1>2. QueueTyped'
  BY <1>1 DEF IssueKept, QueueInv, QueueTyped
<1>3. settling' \in [Requests -> SettlingRow] /\ \A r \in Requests : settling'[r].pending \subseteq settling[r].pending /\ (settling'[r].at = "asked" => settling[r].at = "asked")
  BY QueueReads
<1>4. AgentAt \subseteq HoldingAt
  BY DEF AgentAt, HoldingAt
<1>5. \A e \in Daemons : /\ daemon'[e].session \in {daemon[e].session, NoOne}
                         /\ daemon'[e].at \in AgentAt => daemon[e].at \in AgentAt /\ daemon'[e].session = daemon[e].session
  BY <1>1, <1>4
<1>6. SessionsAreThere' /\ AgentsAreSafe'
  BY <1>1, <1>3, <1>5, SessionsKeep
<1> QED BY <1>2, <1>6 DEF IssueKept, QueueInv

LEMMA PollKeeps ==
    ASSUME QueueInv, NEW d \in Daemons, list_assignments_for_runtime(d) \/ claim_assignment(d)
    PROVE  QueueInv'
<1>1. UNCHANGED <<session, caller, settling>>
  BY DEF list_assignments_for_runtime, claim_assignment
<1>2. session' \in [Sessions -> SessionRow] /\ \A s \in Sessions : session'[s] = session[s]
  BY <1>1, QueueReads
<1>3. CASE list_assignments_for_runtime(d)
  <2> DEFINE row == [daemon[d] EXCEPT !.at = "listed"]
  <2>1. row \in DaemonRow /\ row.at = "listed" /\ row.session = daemon[d].session
    BY DaemonGoes DEF DaemonAt
  <2>2. daemon' = [daemon EXCEPT ![d] = row] /\ KeepIssue
    BY <1>3 DEF list_assignments_for_runtime, Goes, Becomes
  <2> HIDE DEF row
  <2>3. AtWork' \subseteq AtWork
    BY <2>1, <2>2, DaemonMoves
  <2>4. IssueKept
    BY <2>2, <2>3, IssueStays, QueueReads DEF KeepIssue
  <2> QED BY <1>1, <1>2, <2>1, <2>2, <2>4, DaemonKeeps DEF HoldingAt, AgentAt
<1>4. CASE claim_assignment(d) /\ ~Claimable(d)
  <2>1. daemon' = [daemon EXCEPT ![d] = Idle] /\ KeepIssue
    BY <1>4 DEF claim_assignment, Becomes
  <2>2. AtWork' \subseteq AtWork
    BY <2>1, DaemonMoves, RestsAreTyped
  <2>3. IssueKept
    BY <2>1, <2>2, IssueStays, QueueReads DEF KeepIssue
  <2> QED BY <1>1, <1>2, <2>1, <2>3, DaemonKeeps, RestsAreTyped DEF HoldingAt, AgentAt
<1>5. CASE claim_assignment(d) /\ Claimable(d)
  <2> DEFINE row == [daemon[d] EXCEPT !.at = "claimed"]
  <2>1. row \in DaemonRow /\ row.at = "claimed" /\ row.session = daemon[d].session
    BY DaemonGoes DEF DaemonAt
  <2>2. daemon' = [daemon EXCEPT ![d] = row] /\ SetStatus("in_progress") /\ issue.status = "open"
    BY <1>5 DEF claim_assignment, Goes, Becomes, Claimable
  <2> HIDE DEF row
  <2>3. AtWork' = AtWork \cup {d}
    BY <2>1, <2>2, DaemonMoves
  <2>4. /\ issue' \in [status : IssueStatuses, runtime : Daemons \cup {NoOne}] /\ issue'.status = "in_progress"
        /\ reopened' = reopened
    BY <2>2, QueueReads DEF SetStatus, IssueStatuses
  <2>5. reopened \/ AtWork = {}
    BY <2>2 DEF QueueInv, OneAtWork
  <2>6. IssueKept
    BY <2>3, <2>4, <2>5, QueueReads DEF IssueKept, OneAtWork
  <2> QED BY <1>1, <1>2, <2>1, <2>2, <2>6, DaemonKeeps DEF HoldingAt, AgentAt
<1> QED BY <1>3, <1>4, <1>5

\* An agent that gets on, or is through.
LEMMA AgentKeeps ==
    ASSUME QueueInv, NEW d \in Daemons, ack_started(d) \/ run_session(d) \/ Crash(d)
    PROVE  QueueInv'
<1>1. UNCHANGED <<session, caller, settling>>
  BY DEF ack_started, run_session, Crash
<1>2. session' \in [Sessions -> SessionRow] /\ \A s \in Sessions : session'[s] = session[s]
  BY <1>1, QueueReads
<1>3. CASE ack_started(d) /\ Goes(d, "running") /\ SetStatus("in_progress")
  <2> DEFINE row == [daemon[d] EXCEPT !.at = "running"]
  <2>1. row \in DaemonRow /\ row.at = "running" /\ row.session = daemon[d].session
    BY DaemonGoes DEF DaemonAt
  <2>2. daemon' = [daemon EXCEPT ![d] = row] /\ daemon[d].at = "opened"
    BY <1>3 DEF ack_started, Goes, Becomes
  <2> HIDE DEF row
  <2>3. AtWork' \subseteq AtWork
    BY <2>1, <2>2, DaemonMoves DEF AtWork
  <2>4. IssueKept
    BY <1>3, <2>3, StatusIsWritten DEF IssueStatuses
  <2> QED BY <1>1, <1>2, <2>1, <2>2, <2>4, DaemonKeeps DEF HoldingAt, AgentAt
<1>4. ASSUME NEW row \in DaemonRow, daemon' = [daemon EXCEPT ![d] = row], Through(d), issue' \in {issue, [issue EXCEPT !.status = "in_progress"]},
             \/ row.at \in {"exited", "failing"} /\ row.session = daemon[d].session /\ daemon[d].at \in HoldingAt
             \/ row.at = "down" /\ row.session = NoOne
      PROVE  QueueInv'
  <2>1. AtWork' = AtWork \ {d}
    BY <1>4, DaemonMoves
  <2>2. IssueKept
    BY <1>4, <2>1, AgentIsThrough
  <2> QED BY <1>1, <1>2, <1>4, <2>2, DaemonKeeps DEF HoldingAt, AgentAt
<1>5. CASE Goes(d, "failing") /\ daemon[d].at \in HoldingAt /\ Through(d) /\ issue' \in {issue, [issue EXCEPT !.status = "in_progress"]}
  <2> DEFINE row == [daemon[d] EXCEPT !.at = "failing"]
  <2>1. row \in DaemonRow /\ row.at = "failing" /\ row.session = daemon[d].session
    BY DaemonGoes DEF DaemonAt
  <2>2. daemon' = [daemon EXCEPT ![d] = row]
    BY <1>5 DEF Goes, Becomes
  <2> HIDE DEF row
  <2> QED BY <1>4, <1>5, <2>1, <2>2
<1>6. CASE run_session(d) /\ \E ok \in BOOLEAN : Becomes(d, [daemon[d] EXCEPT !.at = "exited", !.ok = ok])
  <2>1. PICK ok \in BOOLEAN : Becomes(d, [daemon[d] EXCEPT !.at = "exited", !.ok = ok])
    BY <1>6
  <2> DEFINE row == [daemon[d] EXCEPT !.at = "exited", !.ok = ok]
  <2>2. row \in DaemonRow /\ row.at = "exited" /\ row.session = daemon[d].session
    BY QueueReads DEF DaemonRow, DaemonAt
  <2>3. daemon' = [daemon EXCEPT ![d] = row] /\ daemon[d].at \in HoldingAt /\ Through(d) /\ issue' = issue
    BY <1>6, <2>1 DEF Becomes, run_session, HoldingAt
  <2> HIDE DEF row
  <2> QED BY <1>4, <2>2, <2>3
<1>7. CASE Crash(d)
  <2> DEFINE row == [Idle EXCEPT !.at = "down"]
  <2>1. row \in DaemonRow /\ row.at = "down" /\ row.session = NoOne
    BY RestsAreTyped DEF DaemonRow, DaemonAt
  <2>2. daemon' = [daemon EXCEPT ![d] = row] /\ Through(d) /\ issue' = issue
    BY <1>7 DEF Crash, Becomes
  <2> HIDE DEF row
  <2> QED BY <1>4, <2>1, <2>2
<1>8. CASE ack_started(d)
  BY <1>3, <1>5, <1>8 DEF ack_started, HoldingAt
<1>9. CASE run_session(d)
  BY <1>5, <1>6, <1>9 DEF run_session, HoldingAt
<1> QED BY <1>7, <1>8, <1>9

\* What a daemon tells of the outcome, and when it is idle again.
LEMMA OutcomeKeeps ==
    ASSUME QueueInv, NEW d \in Daemons, report_session_state(d) \/ ack_outcome(d) \/ ack_aborted(d) \/ Answered(d) \/ ComeBack(d)
    PROVE  QueueInv'
<1>1. UNCHANGED <<caller, settling>> /\ daemon[d].at \notin {"claimed", "opened", "running"}
  BY DEF report_session_state, ack_outcome, ack_aborted, Answered, ComeBack
<1>2. PICK row \in DaemonRow :
        /\ daemon' = [daemon EXCEPT ![d] = row] /\ row.session \in {daemon[d].session, NoOne}
        /\ row.at \in {"reported", "aborting", "idle", "failing"}
        /\ row.at \in {"reported", "failing"} => row.session = daemon[d].session /\ daemon[d].at \in HoldingAt
  <2>1. ASSUME NEW at \in {"reported", "aborting", "failing"}, Goes(d, at), at \in {"reported", "failing"} => daemon[d].at \in HoldingAt
        PROVE  \E row \in DaemonRow :
                 /\ daemon' = [daemon EXCEPT ![d] = row] /\ row.session \in {daemon[d].session, NoOne}
                 /\ row.at \in {"reported", "aborting", "idle", "failing"}
                 /\ row.at \in {"reported", "failing"} => row.session = daemon[d].session /\ daemon[d].at \in HoldingAt
    <3> DEFINE row == [daemon[d] EXCEPT !.at = at]
    <3>1. row \in DaemonRow /\ row.at = at /\ row.session = daemon[d].session
      <4>1. at \in DaemonAt
        BY DEF DaemonAt
      <4> QED BY <4>1, DaemonGoes
    <3>2. daemon' = [daemon EXCEPT ![d] = row]
      BY <2>1 DEF Goes, Becomes
    <3> HIDE DEF row
    <3> QED BY <2>1, <3>1, <3>2
  <2>2. CASE Becomes(d, Idle)
    BY <2>2, RestsAreTyped DEF Becomes
  <2>3. CASE report_session_state(d)
    <3>1. \E at \in {"reported", "aborting"} : Goes(d, at) /\ (at = "reported" => daemon[d].at \in HoldingAt)
      BY <2>3 DEF report_session_state, HoldingAt
    <3> QED BY <2>1, <3>1
  <2>4. CASE ack_outcome(d)
    BY <2>1, <2>2, <2>4 DEF ack_outcome, HoldingAt
  <2> QED BY <2>2, <2>3, <2>4 DEF ack_aborted, Answered, ComeBack
<1>3. AtWork' \subseteq AtWork
  <2>1. row.at \notin {"claimed", "opened", "running"}
    BY <1>2
  <2>2. AtWork' = IF row.at \in {"claimed", "opened", "running"} THEN AtWork \cup {d} ELSE AtWork \ {d}
    <3>1. daemon' = [daemon EXCEPT ![d] = row]
      BY <1>2
    <3> QED BY <3>1, DaemonMoves
  <2> QED BY <2>1, <2>2
<1>4. IssueKept
  <2>1. CASE KeepIssue
    BY <1>3, <2>1, IssueStays, QueueReads DEF KeepIssue
  <2>2. CASE \E status \in IssueStatuses : SetStatus(status)
    BY <1>3, <2>2, StatusIsWritten
  <2>3. {"open", "in_review"} \subseteq IssueStatuses
    BY DEF IssueStatuses
  <2> QED BY <2>1, <2>2, <2>3 DEF report_session_state, ack_outcome, ack_aborted, Answered, ComeBack
<1>5. /\ session' \in [Sessions -> SessionRow]
      /\ \A s \in Sessions : /\ (session'[s].state = "none") <=> (session[s].state = "none")
                             /\ session'[s].runtime = session[s].runtime /\ session'[s].aged = session[s].aged
  <2>1. CASE UNCHANGED session
    BY <2>1, QueueReads
  <2>2. ASSUME NEW state \in {"completed", "failed"}, SetState(daemon[d].session, state), report_session_state(d)
        PROVE  /\ session' \in [Sessions -> SessionRow]
               /\ \A s \in Sessions : /\ (session'[s].state = "none") <=> (session[s].state = "none")
                                      /\ session'[s].runtime = session[s].runtime /\ session'[s].aged = session[s].aged
    <3> DEFINE t == daemon[d].session
               ended == [session[t] EXCEPT !.state = state]
    <3>1. t \in Sessions /\ session[t].state # "none"
      BY <2>2, QueueReads DEF report_session_state, QueueInv, QueueTyped, HoldingAt, DaemonRow, SessionsAreThere
    <3>2. ended \in SessionRow /\ ended.state = state /\ ended.runtime = session[t].runtime /\ ended.aged = session[t].aged
      BY <3>1, QueueReads DEF SessionRow, SessionStates
    <3>3. session' = session \/ session' = [session EXCEPT ![t] = ended]
      BY <2>2 DEF SetState
    <3> HIDE DEF ended, t
    <3>4. CASE session' = [session EXCEPT ![t] = ended]
      BY <3>1, <3>2, <3>4, QueueReads
    <3> QED BY <2>1, <3>3, <3>4
  <2>3. CASE report_session_state(d)
    BY <2>1, <2>2, <2>3 DEF report_session_state
  <2> QED BY <2>1, <2>3 DEF ack_outcome, ack_aborted, Answered, ComeBack
<1>6. row.at \in HoldingAt => daemon[d].at \in HoldingAt /\ row.session = daemon[d].session
  BY <1>2 DEF HoldingAt
<1> QED BY <1>1, <1>2, <1>4, <1>5, <1>6, DaemonKeeps DEF HoldingAt, AgentAt

\* A stop and a reconciliation that are asked for, and what the reconciliation is about.
LEMMA StopKeeps ==
    ASSUME QueueInv, NEW d \in Daemons, stop_session(d)
    PROVE  QueueInv'
<1> DEFINE r == <<d, "stop">>
           s == daemon[d].session
           row == [daemon[d] EXCEPT !.at = "exited", !.ok = FALSE, !.stopped = TRUE]
           asked == [NoRequest EXCEPT !.at = "end", !.pending = {s}]
<1>1. /\ UNCHANGED <<session, caller>> /\ daemon' = [daemon EXCEPT ![d] = row] /\ settling' = [settling EXCEPT ![r] = asked]
      /\ daemon[d].at = "running" /\ issue' = issue /\ Through(d) /\ r \in Requests
  BY DEF stop_session, Becomes, Settling, Requests
<1>2. s \in Sessions /\ daemon[d] \in DaemonRow
  BY <1>1, QueueReads DEF QueueInv, QueueTyped, HoldingAt, DaemonRow
<1>3. row \in DaemonRow /\ row.at = "exited" /\ row.session = s
  BY <1>2 DEF DaemonRow, DaemonAt
<1>4. asked \in SettlingRow /\ asked.at = "end" /\ asked.pending = {s}
  BY <1>2, RestsAreTyped DEF SettlingRow, SettlingAt
<1> HIDE DEF row, asked
<1>5. daemon' \in [Daemons -> DaemonRow] /\ daemon'[d] = row /\ (\A e \in Daemons \ {d} : daemon'[e] = daemon[e]) /\ AtWork' = AtWork \ {d}
  BY <1>1, <1>3, DaemonMoves
<1>6. settling' \in [Requests -> SettlingRow] /\ settling'[r] = asked /\ \A q \in Requests \ {r} : settling'[q] = settling[q]
  BY <1>1, <1>4, QueueReads
<1>7. IssueKept
  BY <1>1, <1>5, AgentIsThrough
<1>8. QueueTyped'
  BY <1>1, <1>3, <1>4, <1>5, <1>6, <1>7 DEF IssueKept, QueueInv, QueueTyped, HoldingAt
<1>9. \A e \in Daemons : daemon'[e].session = daemon[e].session
  BY <1>3, <1>5
<1>10. session[s].state # "none" /\ s # NoOne
  BY <1>2, QueueAssumption DEF QueueInv, SessionsAreThere
<1> HIDE DEF s, r
<1>11. SessionsAreThere'
  BY <1>1, <1>4, <1>6, <1>9, <1>10 DEF QueueInv, SessionsAreThere
<1>12. AgentsAreSafe'
  <2>1. \A e \in Daemons : <<e, "stop">> \in Requests /\ <<e, "reconcile">> \in Requests /\ <<e, "reconcile">> # r
    BY DEF Requests, r
  <2>2. \A e \in Daemons : settling'[<<e, "stop">>].at # "asked"
    BY <1>4, <1>6, <2>1 DEF QueueInv, AgentsAreSafe
  <2>3. ASSUME NEW e \in Daemons, daemon'[e].at \in AgentAt
        PROVE  /\ session'[daemon'[e].session].runtime = e
               /\ settling'[<<e, "reconcile">>].at = "asked" => ~session'[daemon'[e].session].aged
               /\ \A q \in Requests : daemon'[e].session \notin settling'[q].pending
    <3>1. e # d /\ daemon'[e] = daemon[e] /\ daemon[e].at \in AgentAt
      BY <1>3, <1>5, <2>3 DEF AgentAt
    <3>2. daemon[e].session # s
      BY <1>10, <3>1 DEF QueueInv, SessionsAreThere, s
    <3>3. \A q \in Requests : daemon[e].session \notin settling'[q].pending
      BY <1>4, <1>6, <3>1, <3>2 DEF QueueInv, AgentsAreSafe
    <3>4. settling'[<<e, "reconcile">>] = settling[<<e, "reconcile">>]
      BY <1>6, <2>1
    <3> QED BY <1>1, <3>1, <3>3, <3>4 DEF QueueInv, AgentsAreSafe
  <2> QED BY <2>2, <2>3 DEF AgentsAreSafe
<1> QED BY <1>7, <1>8, <1>11, <1>12 DEF IssueKept, QueueInv

LEMMA AskKeeps ==
    ASSUME QueueInv, NEW d \in Daemons, reconcile_sessions(d)
    PROVE  QueueInv'
<1> DEFINE r == <<d, "reconcile">>
           row == [daemon[d] EXCEPT !.at = "asking"]
           asked == [NoRequest EXCEPT !.at = "asked"]
<1>1. /\ UNCHANGED <<session, caller>> /\ daemon' = [daemon EXCEPT ![d] = row] /\ settling' = [settling EXCEPT ![r] = asked]
      /\ KeepIssue /\ r \in Requests
  BY DEF reconcile_sessions, Goes, Becomes, Settling, Requests
<1>2. row \in DaemonRow /\ row.at = "asking" /\ row.session = daemon[d].session
  BY DaemonGoes DEF DaemonAt
<1>3. asked \in SettlingRow /\ asked.at = "asked" /\ asked.pending = {}
  BY RestsAreTyped DEF SettlingRow, SettlingAt
<1> HIDE DEF row, asked
<1>4. daemon' \in [Daemons -> DaemonRow] /\ daemon'[d] = row /\ (\A e \in Daemons \ {d} : daemon'[e] = daemon[e]) /\ AtWork' \subseteq AtWork
  <2>1. row.at \notin {"claimed", "opened", "running"}
    BY <1>2
  <2>2. /\ daemon' \in [Daemons -> DaemonRow] /\ daemon'[d] = row /\ \A e \in Daemons \ {d} : daemon'[e] = daemon[e]
        /\ AtWork' = IF row.at \in {"claimed", "opened", "running"} THEN AtWork \cup {d} ELSE AtWork \ {d}
    BY <1>1, <1>2, DaemonMoves
  <2> QED BY <2>1, <2>2
<1>5. settling' \in [Requests -> SettlingRow] /\ settling'[r] = asked /\ \A q \in Requests \ {r} : settling'[q] = settling[q]
  BY <1>1, <1>3, QueueReads
<1>6. IssueKept
  BY <1>1, <1>4, IssueStays, QueueReads DEF KeepIssue
<1>7. QueueTyped'
  BY <1>1, <1>2, <1>3, <1>4, <1>5, <1>6 DEF IssueKept, QueueInv, QueueTyped, HoldingAt
<1>8. \A e \in Daemons : daemon'[e].session = daemon[e].session
  BY <1>2, <1>4
<1>9. \A q \in Requests : settling'[q].pending \subseteq settling[q].pending
  BY <1>3, <1>5
<1>10. SessionsAreThere'
  BY <1>1, <1>8, <1>9 DEF QueueInv, SessionsAreThere
<1>11. AgentsAreSafe'
  <2>1. \A e \in Daemons : <<e, "stop">> \in Requests /\ <<e, "stop">> # r /\ <<e, "reconcile">> \in Requests /\ (e # d => <<e, "reconcile">> # r)
    BY DEF Requests
  <2> HIDE DEF r
  <2>2. \A e \in Daemons : settling'[<<e, "stop">>].at # "asked"
    BY <1>5, <2>1 DEF QueueInv, AgentsAreSafe
  <2>3. ASSUME NEW e \in Daemons, daemon'[e].at \in AgentAt
        PROVE  /\ session'[daemon'[e].session].runtime = e
               /\ settling'[<<e, "reconcile">>].at = "asked" => ~session'[daemon'[e].session].aged
               /\ \A q \in Requests : daemon'[e].session \notin settling'[q].pending
    <3>1. e # d /\ daemon'[e] = daemon[e] /\ daemon[e].at \in AgentAt
      BY <1>2, <1>4, <2>3 DEF AgentAt
    <3>2. settling'[<<e, "reconcile">>] = settling[<<e, "reconcile">>]
      BY <1>5, <2>1, <3>1
    <3>3. \A q \in Requests : daemon[e].session \notin settling'[q].pending
      BY <1>9, <3>1 DEF QueueInv, AgentsAreSafe
    <3> QED BY <1>1, <3>1, <3>2, <3>3 DEF QueueInv, AgentsAreSafe
  <2> QED BY <2>2, <2>3 DEF AgentsAreSafe
<1> QED BY <1>6, <1>7, <1>10, <1>11 DEF IssueKept, QueueInv

\* What the hub does for a request.
LEMMA ReconcileKeeps ==
    ASSUME QueueInv, NEW r \in Requests, reconcile_machine_sessions(r)
    PROVE  QueueInv'
<1> DEFINE found == Unowned(r[1])
           asked == [NoRequest EXCEPT !.at = "end", !.pending = found]
<1>1. /\ UNCHANGED <<session, daemon, caller, issue, reopened>> /\ AtWork' = AtWork /\ settling[r].at = "asked"
      /\ settling' = [settling EXCEPT ![r] = asked]
  BY DEF reconcile_machine_sessions, Settling, KeepIssue, AtWork
<1>2. PICK d \in Daemons : r = <<d, "reconcile">> /\ r[1] = d
  BY <1>1 DEF Requests, QueueInv, AgentsAreSafe
<1>3. found \subseteq Sessions /\ \A s \in found : session[s].state # "none" /\ session[s].runtime = d /\ session[s].aged
  BY <1>2 DEF Unowned, Ongoing
<1> HIDE DEF found
<1>4. asked \in SettlingRow /\ asked.at = "end" /\ asked.pending = found
  BY <1>3, RestsAreTyped DEF SettlingRow, SettlingAt
<1> HIDE DEF asked
<1>5. settling' \in [Requests -> SettlingRow] /\ settling'[r] = asked /\ \A q \in Requests \ {r} : settling'[q] = settling[q]
  BY <1>1, <1>4, QueueReads
<1>6. QueueTyped'
  BY <1>1, <1>4, <1>5 DEF QueueInv, QueueTyped
<1>7. SessionsAreThere'
  BY <1>1, <1>3, <1>4, <1>5 DEF QueueInv, SessionsAreThere
<1>8. AgentsAreSafe'
  <2>1. \A e \in Daemons : <<e, "stop">> \in Requests /\ <<e, "reconcile">> \in Requests
    BY DEF Requests
  <2>2. \A q \in Requests : settling'[q].at = "asked" => settling[q].at = "asked"
    BY <1>4, <1>5
  <2>3. ASSUME NEW e \in Daemons, daemon[e].at \in AgentAt
        PROVE  daemon[e].session \notin found
    <3>1. session[daemon[e].session].runtime = e
      BY <2>3 DEF QueueInv, AgentsAreSafe
    <3>2. settling[<<e, "reconcile">>].at = "asked" => ~session[daemon[e].session].aged
      BY <2>3 DEF QueueInv, AgentsAreSafe
    <3>3. e = d => settling[<<e, "reconcile">>].at = "asked"
      BY <1>1, <1>2
    <3> QED BY <1>3, <3>1, <3>2, <3>3
  <2>4. \A e \in Daemons : daemon[e].at \in AgentAt => \A q \in Requests : daemon[e].session \notin settling'[q].pending
    BY <1>4, <1>5, <2>3 DEF QueueInv, AgentsAreSafe
  <2> QED BY <1>1, <2>1, <2>2, <2>4 DEF QueueInv, AgentsAreSafe
<1> QED BY <1>1, <1>6, <1>7, <1>8 DEF QueueInv, OneAtWork

LEMMA FinalizeKeeps ==
    ASSUME QueueInv, NEW r \in Requests, finalize_session(r) \/ ReadStatus(r) \/ block_issue(r)
    PROVE  QueueInv'
<1>1. UNCHANGED <<daemon, caller>> /\ AtWork' = AtWork /\ settling[r] \in SettlingRow /\ settling[r].pending \subseteq Sessions
  BY QueueReads DEF finalize_session, ReadStatus, block_issue, AtWork, SettlingRow
<1>2. IssueKept
  <2>1. CASE KeepIssue
    BY <1>1, <2>1, IssueStays, QueueReads DEF KeepIssue
  <2>2. CASE SetStatus("blocked")
    BY <1>1, <2>2, StatusIsWritten DEF IssueStatuses
  <2> QED BY <2>1, <2>2 DEF finalize_session, ReadStatus, block_issue
<1>3. PICK row \in SettlingRow :
        /\ settling' = [settling EXCEPT ![r] = row] /\ row.pending \subseteq settling[r].pending /\ row.at # "asked"
        /\ row.at \in {"block", "write"} => row.session \in Sessions
  <2>1. CASE Settling(r, NoRequest)
    BY <2>1, RestsAreTyped DEF Settling
  <2>2. CASE \E s \in settling[r].pending : Settling(r, [at |-> "block", pending |-> settling[r].pending \ {s}, session |-> s])
    <3>1. PICK s \in settling[r].pending : Settling(r, [at |-> "block", pending |-> settling[r].pending \ {s}, session |-> s])
      BY <2>2
    <3> DEFINE row == [at |-> "block", pending |-> settling[r].pending \ {s}, session |-> s]
    <3>2. row \in SettlingRow /\ row.at = "block" /\ row.pending = settling[r].pending \ {s} /\ row.session \in Sessions
      BY <1>1 DEF SettlingRow, SettlingAt
    <3>3. settling' = [settling EXCEPT ![r] = row]
      BY <3>1 DEF Settling
    <3> HIDE DEF row
    <3> QED BY <3>2, <3>3
  <2>3. CASE \E s \in settling[r].pending : settling[r].at = "end" /\ Settling(r, [settling[r] EXCEPT !.pending = settling[r].pending \ {s}])
    <3>1. PICK s \in settling[r].pending : settling[r].at = "end" /\ Settling(r, [settling[r] EXCEPT !.pending = settling[r].pending \ {s}])
      BY <2>3
    <3> DEFINE row == [settling[r] EXCEPT !.pending = settling[r].pending \ {s}]
    <3>2. row \in SettlingRow /\ row.at = "end" /\ row.pending = settling[r].pending \ {s}
      BY <1>1, <3>1 DEF SettlingRow, SettlingAt
    <3>3. settling' = [settling EXCEPT ![r] = row]
      BY <3>1 DEF Settling
    <3> HIDE DEF row
    <3> QED BY <3>2, <3>3
  <2>4. CASE Settling(r, [settling[r] EXCEPT !.at = "write"]) /\ settling[r].at = "block"
    <3> DEFINE row == [settling[r] EXCEPT !.at = "write"]
    <3>1. row \in SettlingRow /\ row.at = "write" /\ row.pending = settling[r].pending /\ row.session = settling[r].session
      BY <1>1 DEF SettlingRow, SettlingAt
    <3>2. settling' = [settling EXCEPT ![r] = row] /\ settling[r].session \in Sessions
      BY <2>4 DEF Settling, QueueInv, QueueTyped
    <3> HIDE DEF row
    <3> QED BY <3>1, <3>2
  <2>5. CASE Settling(r, [settling[r] EXCEPT !.at = "end", !.session = NoOne])
    <3> DEFINE row == [settling[r] EXCEPT !.at = "end", !.session = NoOne]
    <3>1. row \in SettlingRow /\ row.at = "end" /\ row.pending = settling[r].pending
      BY <1>1 DEF SettlingRow, SettlingAt
    <3>2. settling' = [settling EXCEPT ![r] = row]
      BY <2>5 DEF Settling
    <3> HIDE DEF row
    <3> QED BY <3>1, <3>2
  <2>6. CASE finalize_session(r)
    BY <2>1, <2>2, <2>3, <2>6 DEF finalize_session
  <2>7. CASE ReadStatus(r)
    BY <2>4, <2>5, <2>7 DEF ReadStatus
  <2>8. CASE block_issue(r)
    BY <2>5, <2>8 DEF block_issue
  <2> QED BY <2>6, <2>7, <2>8
<1>4. settling' \in [Requests -> SettlingRow] /\ settling'[r] = row /\ \A q \in Requests \ {r} : settling'[q] = settling[q]
  BY <1>3, QueueReads
<1>5. /\ session' \in [Sessions -> SessionRow]
      /\ \A s \in Sessions : /\ (session'[s].state = "none") <=> (session[s].state = "none")
                             /\ session'[s].runtime = session[s].runtime /\ session'[s].aged = session[s].aged
  <2>1. CASE UNCHANGED session
    BY <2>1, QueueReads
  <2>2. ASSUME NEW t \in Sessions, Ongoing(t), session' = [session EXCEPT ![t].state = "failed"]
        PROVE  /\ session' \in [Sessions -> SessionRow]
               /\ \A s \in Sessions : /\ (session'[s].state = "none") <=> (session[s].state = "none")
                                      /\ session'[s].runtime = session[s].runtime /\ session'[s].aged = session[s].aged
    BY <2>2, QueueReads DEF Ongoing, SessionRow, SessionStates
  <2>3. CASE finalize_session(r)
    BY <1>1, <2>1, <2>2, <2>3 DEF finalize_session, Unended
  <2> QED BY <2>1, <2>3 DEF ReadStatus, block_issue
<1>6. QueueTyped'
  BY <1>1, <1>2, <1>3, <1>4, <1>5 DEF IssueKept, QueueInv, QueueTyped
<1>7. \A q \in Requests : settling'[q].pending \subseteq settling[q].pending /\ (settling'[q].at = "asked" => settling[q].at = "asked")
  BY <1>3, <1>4
<1>8. daemon' \in [Daemons -> DaemonRow]
      /\ \A e \in Daemons : /\ daemon'[e].session \in {daemon[e].session, NoOne}
                            /\ daemon'[e].at \in AgentAt => daemon[e].at \in AgentAt /\ daemon'[e].session = daemon[e].session
  BY <1>1, QueueReads
<1>9. SessionsAreThere' /\ AgentsAreSafe'
  BY <1>4, <1>5, <1>7, <1>8, SessionsKeep
<1> QED BY <1>2, <1>6, <1>9 DEF IssueKept, QueueInv

LEMMA QueueSteps ==
    ASSUME QueueInv, [QueueNext]_queueVars
    PROVE  QueueInv'
<1>1. CASE UNCHANGED queueVars
  BY <1>1 DEF queueVars, QueueInv, QueueTyped, OneAtWork, AtWork, SessionsAreThere, AgentsAreSafe
<1>2. CASE \E s \in Sessions : Forget(s) \/ Age(s)
  BY <1>2, NamesKeep
<1>3. CASE transition \/ assign \/ \E c \in Dispatchers : dispatch_plan(c) \/ ReadIssue(c) \/ EnqueueAssign(c) \/ EnqueueOpen(c)
  BY <1>3, DispatchKeeps
<1>4. CASE \E c \in Dispatchers : open_spawn_session(c)
  BY <1>4, SpawnKeeps
<1>5. ASSUME NEW d \in Daemons, DaemonStep(d)
      PROVE  QueueInv'
  BY <1>5, PollKeeps, OpenKeeps, AgentKeeps, OutcomeKeeps DEF DaemonStep
<1>6. ASSUME NEW d \in Daemons, list_assignments_for_runtime(d) \/ Crash(d) \/ stop_session(d) \/ reconcile_sessions(d)
      PROVE  QueueInv'
  BY <1>6, PollKeeps, AgentKeeps, StopKeeps, AskKeeps
<1>7. ASSUME NEW r \in Requests, HubStep(r)
      PROVE  QueueInv'
  BY <1>7, ReconcileKeeps, FinalizeKeeps DEF HubStep
<1> QED BY <1>1, <1>2, <1>3, <1>4, <1>5, <1>6, <1>7 DEF QueueNext

\* Whatever writes a Session takes a name that is free, or asks that it has not ended.
SessionWrites ==
    \A s \in Sessions : session'[s] # session[s] =>
        \/ session[s] = NoSession
        \/ Forget(s)
        \/ Ongoing(s) /\ session'[s] = [session[s] EXCEPT !.aged = TRUE]
        \/ ~Ended(s) /\ \E d \in Daemons : daemon[d].at \in {"exited", "failing"} /\ daemon[d].session = s
        \/ ~Ended(s) /\ \E r \in Requests : s \in settling[r].pending

LEMMA WritesAreApt ==
    ASSUME QueueInv, [QueueNext]_queueVars
    PROVE  SessionWrites
<1> SUFFICES ASSUME NEW s \in Sessions, session'[s] # session[s]
             PROVE  \/ session[s] = NoSession
                    \/ Forget(s)
                    \/ Ongoing(s) /\ session'[s] = [session[s] EXCEPT !.aged = TRUE]
                    \/ ~Ended(s) /\ \E d \in Daemons : daemon[d].at \in {"exited", "failing"} /\ daemon[d].session = s
                    \/ ~Ended(s) /\ \E r \in Requests : s \in settling[r].pending
  BY DEF SessionWrites
<1>1. session # session' /\ session \in [Sessions -> SessionRow]
  BY QueueReads
<1>2. ASSUME NEW t \in Sessions, NEW row, session' = [session EXCEPT ![t] = row]
      PROVE  t = s /\ session'[s] = row
  BY <1>1, <1>2
<1>3. ASSUME NEW t \in Sessions, Forget(t)
      PROVE  Forget(s)
  <2>1. session' = [session EXCEPT ![t] = NoSession]
    BY <1>3 DEF Forget
  <2> QED BY <1>2, <1>3, <2>1
<1>4. ASSUME NEW t \in Sessions, Age(t)
      PROVE  Ongoing(s) /\ session'[s] = [session[s] EXCEPT !.aged = TRUE]
  <2>1. session' = [session EXCEPT ![t] = [session[t] EXCEPT !.aged = TRUE]] /\ Ongoing(t)
    BY <1>4 DEF Age
  <2> QED BY <1>2, <2>1
<1>5. ASSUME NEW t \in Sessions, NEW state, NEW d, NewSession(t, state, d)
      PROVE  session[s] = NoSession
  BY <1>1, <1>5 DEF NewSession
<1>6. CASE \E c \in Dispatchers : open_spawn_session(c)
  BY <1>5, <1>6 DEF open_spawn_session
<1>7. CASE \E d \in Daemons : open_session(d)
  BY <1>5, <1>7 DEF open_session
<1>8. ASSUME NEW d \in Daemons, report_session_state(d)
      PROVE  ~Ended(s) /\ daemon[d].at \in {"exited", "failing"} /\ daemon[d].session = s
  <2> DEFINE t == daemon[d].session
  <2>1. PICK state \in {"completed", "failed"} : SetState(t, state)
    BY <1>1, <1>8 DEF report_session_state
  <2>2. ~Ended(t) /\ session' = [session EXCEPT ![t].state = state] /\ daemon[d].at \in {"exited", "failing"}
    BY <1>1, <1>8, <2>1 DEF SetState, report_session_state
  <2>3. t = s
    BY <1>1, <2>2
  <2> QED BY <2>2, <2>3
<1>9. ASSUME NEW r \in Requests, finalize_session(r)
      PROVE  ~Ended(s) /\ s \in settling[r].pending
  <2>1. PICK t \in settling[r].pending : Unended(t) /\ session' = [session EXCEPT ![t].state = "failed"]
    BY <1>1, <1>9 DEF finalize_session
  <2>2. t = s
    BY <1>1, <2>1
  <2> QED BY <2>1, <2>2 DEF Unended, Ongoing, Ended
<1>10. \/ \E t \in Sessions : Forget(t) \/ Age(t)
       \/ \E c \in Dispatchers : open_spawn_session(c)
       \/ \E d \in Daemons : open_session(d) \/ report_session_state(d)
       \/ \E r \in Requests : finalize_session(r)
  BY <1>1 DEF QueueNext, queueVars, transition, assign, dispatch_plan, ReadIssue, EnqueueAssign, EnqueueOpen, DaemonStep, HubStep,
              list_assignments_for_runtime, claim_assignment, ack_started, run_session, ack_outcome, ack_aborted, Answered, ComeBack,
              Crash, stop_session, reconcile_sessions, reconcile_machine_sessions, ReadStatus, block_issue
<1> QED BY <1>3, <1>4, <1>6, <1>7, <1>8, <1>9, <1>10

\* A Session that ended stays as it ended; that of an agent is nobody else's to end.
LEMMA LateSettlements ==
    ASSUME QueueInv, [QueueNext]_queueVars
    PROVE  SettledOnce /\ AgentKeepsSession
<1>1. SessionWrites
  BY WritesAreApt
<1>2. SettledOnce
  <2> SUFFICES ASSUME NEW s \in Sessions, Ended(s), session'[s] # session[s] PROVE session'[s] = NoSession
    BY DEF SettledOnce
  <2>1. session[s] # NoSession /\ ~Ongoing(s)
    BY RestsAreTyped DEF Ended, Ongoing
  <2>2. Forget(s)
    BY <1>1, <2>1 DEF SessionWrites
  <2> QED BY <2>2, QueueReads DEF Forget
<1>3. AgentKeepsSession
  <2> SUFFICES ASSUME NEW s \in Sessions, NEW d \in Daemons, daemon[d].session = s, daemon[d].at \in {"opened", "running"},
                      daemon'[d] = daemon[d], session'[s] # session[s]
               PROVE  session'[s] = [session[s] EXCEPT !.aged = TRUE]
    BY DEF AgentKeepsSession
  <2>1. s # NoOne /\ session[s] # NoSession
    BY RestsAreTyped, QueueAssumption DEF QueueInv, SessionsAreThere
  <2>2. ~Forget(s)
    BY DEF Forget, Held
  <2>3. ASSUME NEW e \in Daemons, daemon[e].at \in {"exited", "failing"}, daemon[e].session = s
        PROVE  FALSE
    BY <2>1, <2>3 DEF QueueInv, SessionsAreThere
  <2>4. \A r \in Requests : s \notin settling[r].pending
    BY DEF QueueInv, AgentsAreSafe, AgentAt
  <2> QED BY <1>1, <2>1, <2>2, <2>3, <2>4 DEF SessionWrites
<1> QED BY <1>2, <1>3

LEMMA QueueBegins ==
    ASSUME QueueInit
    PROVE  QueueInv
<1>1. /\ issue = [status |-> "open", runtime |-> NoOne] /\ reopened = FALSE
      /\ session = [s \in Sessions |-> NoSession] /\ daemon = [d \in Daemons |-> Idle]
      /\ caller = [c \in Dispatchers |-> NoCall] /\ settling = [r \in Requests |-> NoRequest]
  BY DEF QueueInit
<1>2. issue \in [status : IssueStatuses, runtime : Daemons \cup {NoOne}] /\ reopened \in BOOLEAN
  BY <1>1 DEF IssueStatuses
<1>3. QueueTyped
  BY <1>1, <1>2, RestsAreTyped DEF QueueTyped, HoldingAt
<1>4. AtWork = {}
  BY <1>1, RestsAreTyped DEF AtWork
<1>5. \A d \in Daemons : <<d, "stop">> \in Requests /\ <<d, "reconcile">> \in Requests
  BY DEF Requests
<1>6. SessionsAreThere /\ AgentsAreSafe
  BY <1>1, <1>5, RestsAreTyped DEF SessionsAreThere, AgentsAreSafe, AgentAt
<1> QED BY <1>3, <1>4, <1>6 DEF QueueInv, OneAtWork

LEMMA QueueFollows ==
    ASSUME QueueInv
    PROVE  QueueIsSound
<1>1. QueueTypeOK
  BY DEF QueueInv, QueueTyped, QueueTypeOK, SessionRow, DaemonRow, SettlingRow, HoldingAt
<1>2. OneAgent
  <2>1. CASE reopened
    BY <2>1 DEF OneAgent
  <2>2. CASE AtWork = {}
    BY <2>2, FS_EmptySet DEF OneAgent
  <2>3. CASE ~reopened /\ AtWork # {}
    <3>1. PICK d : AtWork = {d}
      BY <2>3 DEF QueueInv, OneAtWork
    <3> QED BY <3>1, FS_Singleton DEF OneAgent
  <2> QED BY <2>1, <2>2, <2>3
<1> QED BY <1>1, <1>2 DEF QueueIsSound

\* control/assignments.py, control/sessions.py, daemon/daemon.py: whatever daemons, dispatches,
\* stops and reconciliations race, one agent is at work on an Issue unless somebody opened it again.
THEOREM OneAgentHolds == QueueInit /\ [][QueueNext]_queueVars => []QueueIsSound
<1>1. QueueInv /\ [QueueNext]_queueVars => QueueInv'
  BY QueueSteps
<1> QED BY <1>1, QueueBegins, QueueFollows, PTL
-----------------------------------------------------------------------------
(* Realtime, the cursor of a tab.  What is outstanding is owed, not applied, and not  *)
(* excepted.  Whatever moves the cursor past it comes behind its frame, or  *)
(* behind a reset: on the wire, in the queue of the socket and at the bus.  *)

Topical == SUBSET Topics
Cursors == 0 .. MaxEvents
Asking == [type : {"subscribe"}, topics : Topical, cursor : Cursors, ref : 0 .. MaxMoves]
Leaving == [type : {"unsubscribe"}, topics : Topical]
AckFrames == [type : {"ack"}, cursor : Cursors, covers : BOOLEAN, topics : Topical, ref : 0 .. MaxMoves]
ResetFrames == [type : {"reset"}, cursor : Ids]
EventFrames == [type : {"event"}, id : Ids, replayed : BOOLEAN]
Receipts == [type : {"replay_complete"}, cursor : Cursors, covers : BOOLEAN]
AllFrames == AckFrames \cup ResetFrames \cup EventFrames \cup Receipts
Asked == [at : {"asked"}, topics : Topical, cursor : Cursors, covers : BOOLEAN, ref : 0 .. MaxMoves]
Bounded == [at : {"bounded"}, topics : Topical, cursor : Cursors, covers : BOOLEAN, ref : 0 .. MaxMoves,
            newest : Ids, gap : BOOLEAN]
Conns == [held : Topical, queue : Seq(Ids), delivered : [Topics -> SUBSET Ids],
          replaying : {[at |-> "closed"], Live} \cup Asked \cup Bounded]

RealtimeTyped ==
    /\ log \in Seq(Topics) /\ log # << >> /\ Len(log) <= MaxEvents
    /\ floor \in 0 .. Len(log) /\ announcing \in 0 .. Len(log)
    /\ conn \in Conns /\ asks \in Seq(Asking \cup Leaving) /\ wire \in Seq(AllFrames)
    /\ client \in [topics: SUBSET Topics, acked: SUBSET Topics, ref: [Topics -> 0 .. MaxMoves],
                   cursor: 0 .. MaxEvents, applied: SUBSET Ids, retires: BOOLEAN, up: BOOLEAN]
    /\ moves \in 0 .. MaxMoves /\ owed \subseteq Ids /\ elsewhere \subseteq Ids /\ raced \subseteq Ids

Reading == conn.replaying.at \in {"asked", "bounded"}

\* No number is ahead of the log, and no reference ahead of the moves.
NobodyIsAhead ==
    /\ client.cursor <= Len(log) /\ owed \subseteq Committed /\ \A t \in Topics : conn.delivered[t] \subseteq Committed
    /\ \A q \in 1 .. Len(conn.queue) : conn.queue[q] <= Len(log)
    /\ \A k \in 1 .. Len(wire) :
          /\ wire[k].type = "event" => wire[k].id <= Len(log)
          /\ wire[k].type # "event" => wire[k].cursor <= Len(log)
          /\ wire[k].type = "ack" => wire[k].ref <= moves
    /\ \A n \in 1 .. Len(asks) : asks[n].type = "subscribe" => asks[n].cursor <= Len(log) /\ asks[n].ref <= moves
    /\ Reading => conn.replaying.cursor <= Len(log) /\ conn.replaying.ref <= moves
    /\ conn.replaying.at = "bounded" => conn.replaying.newest <= Len(log)
    /\ \A t \in Topics : client.ref[t] <= moves

\* Without a connection nothing is on its way; with one, the tab begins with all its topics.
Connected ==
    /\ ~client.up => conn = NoConn /\ asks = << >> /\ wire = << >>
    /\ client.up => conn.replaying.at # "closed"
Opening ==
    /\ client.up /\ conn.replaying = Live /\ conn.held = {} /\ conn.queue = << >> /\ wire = << >>
    /\ asks # << >> /\ Head(asks).type = "subscribe" /\ Head(asks).cursor = client.cursor
    /\ client.acked \subseteq Head(asks).topics

\* A topic that the tab counts as acknowledged is held for it, and it has not asked to leave it.
Unleft(t, n) == \A m \in n .. Len(asks) : asks[m].type = "unsubscribe" => t \notin asks[m].topics
Current(f) == {t \in f.topics \cap client.topics : client.ref[t] = f.ref}
TopicsAreHeld ==
    /\ client.acked \subseteq client.topics /\ \A i \in owed : log[i] \in client.acked
    /\ client.up => \A t \in client.acked : Unleft(t, 1) /\ (Opening \/ t \in conn.held)
    /\ Reading => \A t \in Current(conn.replaying) : Unleft(t, 1) /\ t \in conn.held
    /\ \A k \in 1 .. Len(wire) : wire[k].type = "ack" => \A t \in Current(wire[k]) : Unleft(t, 1) /\ t \in conn.held
    /\ \A n \in 1 .. Len(asks) : asks[n].type = "subscribe" => \A t \in Current(asks[n]) : Unleft(t, n + 1)
    /\ Reading /\ conn.replaying.covers => conn.replaying.topics = conn.held

\* Without a cursor the tab is owed nothing, and the first frame it gets will give it one.
FirstFrame(f) == f.type = "ack" /\ f.covers /\ f.cursor # 0
NewIsUnowed ==
    client.cursor = 0 =>
        /\ client.acked = {}
        /\ client.up => \/ Opening
                        \/ Reading /\ conn.replaying.covers /\ wire = << >>
                        \/ wire # << >> /\ FirstFrame(Head(wire))

Outstanding == {i \in owed : i \notin client.applied /\ i \notin elsewhere \cup raced}
Brings(n, i) == wire[n].type = "reset" \/ (wire[n].type = "event" /\ wire[n].id = i)
Before(k, i) == \E n \in 1 .. k - 1 : Brings(n, i)
OnWire(i) == \E n \in 1 .. Len(wire) : Brings(n, i)
Caught(i) ==
    /\ Reading /\ conn.replaying.covers
    /\ conn.replaying.cursor # 0 /\ conn.replaying.cursor < i /\ log[i] \in conn.replaying.topics

\* A frame of a batch that does not speak for every topic: it moves nothing.
Quiet(k) ==
    /\ wire[k].replayed
    /\ \/ ~client.retires /\ \A n \in 1 .. k - 1 : wire[n].type \in {"event", "reset"}
       \/ \E m \in 1 .. k - 1 : /\ wire[m].type = "ack" /\ ~wire[m].covers
                                /\ \A n \in m + 1 .. k - 1 : wire[n].type \in {"event", "reset"}

WireInOrder ==
    \A i \in Outstanding : \A k \in 1 .. Len(wire) :
        /\ wire[k].type = "event" /\ i < wire[k].id => Quiet(k) \/ Before(k, i)
        /\ wire[k].type = "replay_complete" /\ wire[k].covers /\ i <= wire[k].cursor => Before(k, i)
QueueInOrder ==
    \A i \in Outstanding : \A q \in 1 .. Len(conn.queue) :
        i < conn.queue[q] => OnWire(i) \/ Caught(i) \/ \E p \in 1 .. q - 1 : conn.queue[p] = i
OnItsWay ==
    \A i \in Outstanding :
        client.up /\ ~Opening => \/ OnWire(i) \/ Caught(i) \/ announcing = i
                                 \/ \E q \in 1 .. Len(conn.queue) : conn.queue[q] = i
DeliveredIsSent == \A t \in Topics : \A i \in conn.delivered[t] \cap Outstanding : OnWire(i)
AsksBegin ==
    \A i \in Outstanding :
        /\ client.cursor < i
        /\ \A n \in 1 .. Len(asks) : asks[n].type = "subscribe" => asks[n].cursor < i
        /\ Reading => conn.replaying.cursor < i

RealtimeInv ==
    /\ RealtimeTyped /\ NobodyIsAhead /\ Connected /\ TopicsAreHeld /\ NewIsUnowed
    /\ WireInOrder /\ QueueInOrder /\ OnItsWay /\ DeliveredIsSent /\ AsksBegin

\* The order of the naturals, for the first and the last of some rows.
NatLess == OpToRel(<, Nat)

LEMMA FrameFacts ==
    ASSUME NEW f \in AllFrames
    PROVE  /\ f.type \in {"ack", "reset", "event", "replay_complete"}
           /\ f.type = "event" => f.id \in Ids /\ f.replayed \in BOOLEAN
           /\ f.type = "ack" => f.cursor \in Cursors /\ f.covers \in BOOLEAN /\ f.topics \in Topical /\ f.ref \in 0 .. MaxMoves
           /\ f.type = "reset" => f.cursor \in Ids
           /\ f.type = "replay_complete" => f.cursor \in Cursors /\ f.covers \in BOOLEAN
<1>1. CASE f \in AckFrames
  BY <1>1 DEF AckFrames
<1>2. CASE f \in ResetFrames
  BY <1>2 DEF ResetFrames
<1>3. CASE f \in EventFrames
  BY <1>3 DEF EventFrames
<1>4. CASE f \in Receipts
  BY <1>4 DEF Receipts
<1> QED BY <1>1, <1>2, <1>3, <1>4 DEF AllFrames

LEMMA AskFacts ==
    ASSUME NEW a \in Asking \cup Leaving
    PROVE  /\ a.type \in {"subscribe", "unsubscribe"} /\ a.topics \in Topical
           /\ a.type = "subscribe" => a.cursor \in Cursors /\ a.ref \in 0 .. MaxMoves
BY DEF Asking, Leaving

LEMMA ConnFacts ==
    ASSUME RealtimeTyped
    PROVE  /\ conn.held \in Topical /\ conn.queue \in Seq(Ids) /\ conn.delivered \in [Topics -> SUBSET Ids]
           /\ conn = [held |-> conn.held, queue |-> conn.queue, delivered |-> conn.delivered, replaying |-> conn.replaying]
           /\ conn.replaying \in {[at |-> "closed"], Live} \cup Asked \cup Bounded
           /\ conn.replaying.at \in {"closed", "live", "asked", "bounded"}
           /\ conn.replaying.at = "live" <=> conn.replaying = Live
           /\ conn.replaying.at = "asked" => conn.replaying \in Asked
           /\ conn.replaying.at = "bounded" => conn.replaying \in Bounded
           /\ Reading => /\ conn.replaying.topics \in Topical /\ conn.replaying.cursor \in Cursors
                         /\ conn.replaying.covers \in BOOLEAN /\ conn.replaying.ref \in 0 .. MaxMoves
<1>1. conn \in Conns
  BY DEF RealtimeTyped
<1>2. conn.replaying \in {[at |-> "closed"], Live} \cup Asked \cup Bounded
  BY <1>1 DEF Conns
<1>3. /\ conn.replaying.at \in {"closed", "live", "asked", "bounded"}
      /\ conn.replaying.at = "live" <=> conn.replaying = Live
      /\ conn.replaying.at = "asked" => conn.replaying \in Asked
      /\ conn.replaying.at = "bounded" => conn.replaying \in Bounded
  BY <1>2 DEF Live, Asked, Bounded
<1>4. Reading => /\ conn.replaying.topics \in Topical /\ conn.replaying.cursor \in Cursors
                 /\ conn.replaying.covers \in BOOLEAN /\ conn.replaying.ref \in 0 .. MaxMoves
  BY <1>3 DEF Reading, Asked, Bounded
<1> QED BY <1>1, <1>2, <1>3, <1>4 DEF Conns

\* The rows of a batch in the order of their ids: all of them, and none twice.
LEMMA InOrderFacts ==
    ASSUME NEW S \in SUBSET Nat, IsFiniteSet(S)
    PROVE  /\ Cardinality(S) \in Nat /\ InOrder(S) \in [1 .. Cardinality(S) -> S]
           /\ \A k, l \in 1 .. Cardinality(S) : k < l => InOrder(S)[k] < InOrder(S)[l]
           /\ \A i \in S : \E k \in 1 .. Cardinality(S) : InOrder(S)[k] = i
<1> DEFINE n == Cardinality(S)
           under(i) == {j \in S : j < i}
           rank(i) == Cardinality(under(i))
<1>1. n \in Nat
  BY FS_CardinalityType
<1>2. \A i \in S : IsFiniteSet(under(i)) /\ rank(i) \in Nat /\ rank(i) < n
  <2>1. ASSUME NEW i \in S PROVE IsFiniteSet(under(i)) /\ rank(i) \in Nat /\ rank(i) < n
    <3>1. under(i) \in SUBSET S /\ i \notin under(i)
      OBVIOUS
    <3>2. under(i) # S
      BY <3>1
    <3> HIDE DEF under
    <3>3. IsFiniteSet(under(i)) /\ rank(i) <= n /\ (n = rank(i) => S = under(i))
      BY <3>1, FS_Subset
    <3>4. rank(i) \in Nat
      BY <3>3, FS_CardinalityType
    <3> QED BY <1>1, <3>2, <3>3, <3>4
  <2> QED BY <2>1
<1>3. \A i, j \in S : i < j => rank(i) < rank(j)
  <2>1. ASSUME NEW i \in S, NEW j \in S, i < j PROVE rank(i) < rank(j)
    <3>0. i \in Nat /\ j \in Nat /\ \A x \in S : x \in Nat
      OBVIOUS
    <3>1. i \in under(j) /\ i \notin under(i) /\ \A x \in S : x < i => x < j
      BY <2>1, <3>0
    <3>4. under(i) \in SUBSET under(j)
      BY <3>1
    <3>2. under(i) # under(j) /\ IsFiniteSet(under(j)) /\ rank(i) \in Nat /\ rank(j) \in Nat
      BY <1>2, <3>1
    <3> HIDE DEF under
    <3>3. rank(i) <= rank(j) /\ (rank(j) = rank(i) => under(j) = under(i))
      BY <3>4, <3>2, FS_Subset
    <3> QED BY <3>2, <3>3
  <2> QED BY <2>1
<1> HIDE DEF rank, n, under
<1>4. \A i, j \in S : rank(i) = rank(j) => i = j
  <2>1. ASSUME NEW i \in S, NEW j \in S, rank(i) = rank(j) PROVE i = j
    <3>1. i \in Nat /\ j \in Nat /\ rank(i) \in Nat /\ rank(j) \in Nat
      BY <1>2
    <3>2. ~(i < j) /\ ~(j < i)
      BY <1>3, <2>1, <3>1
    <3> QED BY <3>1, <3>2
  <2> QED BY <2>1
<1>5. \A k \in 1 .. n : \E i \in S : rank(i) = k - 1
  <2> DEFINE f == [i \in S |-> rank(i) + 1]
  <2>0. \A i \in S : rank(i) \in Nat /\ rank(i) + 1 \in 1 .. n
    BY <1>1, <1>2
  <2>1. f \in [S -> 1 .. n] /\ \A i \in S : f[i] = rank(i) + 1
    BY <2>0
  <2>2. f \in Injection(S, 1 .. n)
    <3> HIDE DEF f
    <3>1. \A i, j \in S : f[i] = f[j] => i = j
      BY <1>4, <2>0, <2>1
    <3> QED BY <2>1, <3>1 DEF Injection, IsInjective
  <2>3. IsFiniteSet(1 .. n) /\ Cardinality(1 .. n) = n
    BY <1>1, FS_Interval
  <2> HIDE DEF f
  <2>4. f \in Surjection(S, 1 .. n)
    BY <2>2, <2>3, FS_Injection DEF n
  <2>5. ASSUME NEW k \in 1 .. n PROVE \E i \in S : rank(i) = k - 1
    <3>1. PICK i \in S : f[i] = k
      BY <2>4 DEF Surjection
    <3> QED BY <2>0, <2>1, <3>1
  <2> QED BY <2>5
<1>6. InOrder(S) = [k \in 1 .. n |-> CHOOSE i \in S : rank(i) = k - 1]
  BY DEF InOrder, rank, n, under
<1>7. ASSUME NEW k \in 1 .. n PROVE InOrder(S)[k] \in S /\ rank(InOrder(S)[k]) = k - 1
  BY <1>5, <1>6, <1>7
<1>8. ASSUME NEW k \in 1 .. n, NEW l \in 1 .. n, k < l PROVE InOrder(S)[k] < InOrder(S)[l]
  <2>1. /\ InOrder(S)[k] \in Nat /\ InOrder(S)[l] \in Nat
        /\ rank(InOrder(S)[k]) < rank(InOrder(S)[l])
        /\ rank(InOrder(S)[k]) \in Nat /\ rank(InOrder(S)[l]) \in Nat
    <3>1. /\ InOrder(S)[k] \in S /\ InOrder(S)[l] \in S
          /\ rank(InOrder(S)[k]) = k - 1 /\ rank(InOrder(S)[l]) = l - 1
      BY <1>7
    <3>2. InOrder(S)[k] \in Nat /\ InOrder(S)[l] \in Nat
      BY <3>1
    <3>3. k \in Nat /\ l \in Nat /\ k - 1 \in Nat /\ l - 1 \in Nat /\ k - 1 < l - 1
      BY <1>1, <1>8
    <3> QED BY <3>1, <3>2, <3>3
  <2>2. ~(InOrder(S)[l] < InOrder(S)[k])
    BY <1>3, <1>7, <2>1
  <2>3. InOrder(S)[k] # InOrder(S)[l]
    BY <2>1
  <2> QED BY <2>1, <2>2, <2>3
<1>9. ASSUME NEW i \in S PROVE \E k \in 1 .. n : InOrder(S)[k] = i
  <2>1. rank(i) + 1 \in 1 .. n /\ (rank(i) + 1) - 1 = rank(i)
    <3>1. rank(i) \in Nat /\ rank(i) < n
      BY <1>2
    <3> HIDE DEF rank, n
    <3> QED BY <1>1, <3>1
  <2>2. rank(InOrder(S)[rank(i) + 1]) = rank(i) /\ InOrder(S)[rank(i) + 1] \in S
    BY <1>7, <2>1
  <2> QED BY <1>4, <2>1, <2>2
<1>10. InOrder(S) \in [1 .. n -> S]
  BY <1>6, <1>7
<1> QED BY <1>1, <1>8, <1>9, <1>10 DEF n

\* A batch is a finite set of committed rows; the last one is what a full batch hands over.
LEMMA LastRow ==
    ASSUME NEW T, T \subseteq Ids, T # {}
    PROVE  Max(T) \in T /\ \A i \in T : i <= Max(T)
<1> DEFINE U == {MaxEvents - i : i \in T}
<1>1. MaxEvents \in Nat /\ T \subseteq 1 .. MaxEvents
  BY RealtimeAssumption DEF Ids
<1>2. PICK t \in T : TRUE
  OBVIOUS
<1>3. U \subseteq Nat /\ MaxEvents - t \in U
  BY <1>1, <1>2
<1>4. IsWellFoundedOn(NatLess, Nat) /\ \A x, y \in Nat : <<y, x>> \in NatLess <=> y < x
  <2>1. NatLess = {ss \in Nat \X Nat : ss[1] < ss[2]}
    BY DEF NatLess, OpToRel
  <2> QED BY <2>1, NatLessThanWellFounded DEF NatLess
<1>5. PICK u \in U : \A w \in U : ~(<<w, u>> \in NatLess)
  BY <1>3, <1>4, WFMin
<1>6. PICK x \in T : u = MaxEvents - x
  OBVIOUS
<1>7. ASSUME NEW y \in T PROVE x >= y
  <2>1. ~(<<MaxEvents - y, u>> \in NatLess) /\ MaxEvents - y \in Nat /\ u \in Nat
    BY <1>3, <1>5
  <2>2. ~(MaxEvents - y < MaxEvents - x)
    BY <1>4, <1>6, <2>1
  <2> QED BY <1>1, <1>6, <2>2
<1>8. Max(T) \in T /\ \A y \in T : Max(T) >= y
  BY <1>7 DEF Max
<1> QED BY <1>1, <1>8

\* What the reads of a replay find.
LEMMA BatchFacts ==
    ASSUME RealtimeTyped, NEW r \in Bounded, r.cursor <= Len(log), r.newest <= Len(log)
    PROVE  /\ Rows(r) \subseteq Committed /\ Committed \subseteq Ids /\ Batch(r) \subseteq Rows(r) /\ IsFiniteSet(Batch(r))
           /\ \A i \in Rows(r) : r.cursor # 0 /\ r.cursor < i /\ log[i] \in r.topics
           /\ ~Gap(r) => Batch(r) = Rows(r)
           /\ ResumeFrom(r) \in Ids /\ ResumeFrom(r) <= Len(log)
           /\ _pre_replay_cursor(r) \in Ids /\ _pre_replay_cursor(r) <= Len(log)
           /\ ResumeFrom(r) > _pre_replay_cursor(r) => ~Gap(r) /\ Batch(r) # {} /\ ResumeFrom(r) = Max(Batch(r))
<1>1. MaxEvents \in Nat /\ Len(log) \in Nat /\ Len(log) <= MaxEvents /\ ReplayLimit \in Nat \ {0}
  BY RealtimeAssumption DEF RealtimeTyped
<1>2. r.cursor \in Nat /\ r.newest \in Ids /\ r.cursor <= Len(log) /\ r.gap \in BOOLEAN
  BY <1>1 DEF Bounded, Cursors
<1>3. Rows(r) \subseteq Committed /\ Committed \subseteq Ids /\ Batch(r) \subseteq Rows(r)
  BY <1>1 DEF Rows, Batch, Committed, Ids
<1>4. IsFiniteSet(Batch(r))
  <2>1. IsFiniteSet(Ids)
    BY <1>1, FS_Interval DEF Ids
  <2> QED BY <1>3, <2>1, FS_Subset
<1>5. \A i \in Rows(r) : r.cursor # 0 /\ r.cursor < i /\ log[i] \in r.topics
  BY DEF Rows
<1>6. ~Gap(r) => Batch(r) = Rows(r)
  BY DEF Gap
<1>7. ASSUME Rows(r) # {} PROVE Batch(r) # {}
  <2>1. IsWellFoundedOn(NatLess, Nat) /\ \A x, y \in Nat : <<y, x>> \in NatLess <=> y < x
    <3>1. NatLess = {ss \in Nat \X Nat : ss[1] < ss[2]}
      BY DEF NatLess, OpToRel
    <3> QED BY <3>1, NatLessThanWellFounded DEF NatLess
  <2>2. Rows(r) \subseteq Nat
    BY <1>1, <1>3 DEF Committed
  <2>3. PICK u \in Rows(r) : \A w \in Rows(r) : ~(<<w, u>> \in NatLess)
    BY <1>7, <2>1, <2>2, WFMin
  <2>4. {j \in Rows(r) : j < u} = {}
    BY <2>1, <2>2, <2>3
  <2>5. Cardinality({j \in Rows(r) : j < u}) = 0
    BY <2>4, FS_EmptySet
  <2> QED BY <1>1, <2>3, <2>5 DEF Batch
<1>8. Rows(r) # {} => Max(Batch(r)) \in Ids /\ Max(Batch(r)) \in Committed
  BY <1>3, <1>7, LastRow
<1>9. ResumeFrom(r) \in Ids /\ ResumeFrom(r) <= Len(log)
  BY <1>1, <1>2, <1>8 DEF ResumeFrom, Committed, Ids
<1>10. _pre_replay_cursor(r) \in Ids /\ _pre_replay_cursor(r) <= Len(log)
  BY <1>1, <1>2, <1>9 DEF _pre_replay_cursor, Ids
<1>11. ASSUME ResumeFrom(r) > _pre_replay_cursor(r) PROVE ~Gap(r) /\ Batch(r) # {} /\ ResumeFrom(r) = Max(Batch(r))
  <2>1. ResumeFrom(r) \in Nat /\ _pre_replay_cursor(r) # ResumeFrom(r)
    BY <1>1, <1>9, <1>10, <1>11 DEF Ids
  <2>2. r.cursor # 0 /\ ~Gap(r) /\ _pre_replay_cursor(r) = r.cursor
    BY <2>1 DEF _pre_replay_cursor
  <2>3. ~r.gap /\ Rows(r) # {}
    BY <1>2, <2>1, <2>2 DEF ResumeFrom, Gap
  <2> QED BY <1>7, <2>2, <2>3 DEF ResumeFrom
<1> QED BY <1>3, <1>4, <1>5, <1>6, <1>9, <1>10, <1>11

\* A frame behind the acknowledgement of a batch: the rows come in their order, the receipt last.
IsOfBatch(F, k, r, B) ==
    /\ F[k].type # "ack"
    /\ F[k].type # "event" => F[k].cursor <= Len(log)
    /\ F[k].type = "event" =>
          /\ F[k].replayed /\ F[k].id \in B
          /\ \A m \in 2 .. k - 1 : F[m].type \in {"event", "reset"}
          /\ \A i \in B : i < F[k].id => \E m \in 2 .. k - 1 : F[m].type = "event" /\ F[m].id = i
    /\ F[k].type = "replay_complete" =>
          /\ \A i \in B : \E m \in 2 .. k - 1 : F[m].type = "event" /\ F[m].id = i
          /\ F[k].covers => r.covers /\ ~Gap(r) /\ B # {} /\ F[k].cursor = Max(B)

\* What a replay sends: an acknowledgement, a reset if there is a gap, the rows in order, and
\* for the whole connection the cursor behind the last one.
Carries(F, r, B) ==
    /\ F \in Seq(AllFrames) /\ Len(F) \in Nat /\ Len(F) >= 1
    /\ F[1] = [type |-> "ack", cursor |-> _pre_replay_cursor(r), covers |-> r.covers, topics |-> r.topics, ref |-> r.ref]
    /\ Gap(r) => Len(F) >= 2 /\ F[2].type = "reset"
    /\ \A k \in 2 .. Len(F) : IsOfBatch(F, k, r, B)
    /\ \A i \in B : \E m \in 2 .. Len(F) : F[m].type = "event" /\ F[m].id = i

LEMMA FramesFacts ==
    ASSUME RealtimeTyped, NEW r \in Bounded, r.cursor <= Len(log), r.newest <= Len(log),
           NEW F, F = Frames(r)
    PROVE  Carries(F, r, Batch(r))
<1> DEFINE A == <<[type |-> "ack", cursor |-> _pre_replay_cursor(r), covers |-> r.covers, topics |-> r.topics, ref |-> r.ref]>>
           R == IF Gap(r) THEN <<[type |-> "reset", cursor |-> ResumeFrom(r)]>> ELSE << >>
           n == Cardinality(Batch(r))
           E == [k \in 1 .. n |-> [type |-> "event", id |-> InOrder(Batch(r))[k], replayed |-> TRUE]]
           C == Receipt(r)
           b == Len(R)
<1>1. /\ Batch(r) \subseteq Ids /\ Batch(r) \subseteq Nat /\ Batch(r) \subseteq Committed /\ IsFiniteSet(Batch(r))
      /\ ResumeFrom(r) \in Ids /\ ResumeFrom(r) <= Len(log)
      /\ _pre_replay_cursor(r) \in Ids /\ _pre_replay_cursor(r) <= Len(log)
      /\ ResumeFrom(r) > _pre_replay_cursor(r) => ~Gap(r) /\ Batch(r) # {} /\ ResumeFrom(r) = Max(Batch(r))
  BY BatchFacts, RealtimeAssumption DEF Ids
<1>2. /\ n \in Nat /\ InOrder(Batch(r)) \in [1 .. n -> Batch(r)]
      /\ \A k, l \in 1 .. n : k < l => InOrder(Batch(r))[k] < InOrder(Batch(r))[l]
      /\ \A i \in Batch(r) : \E k \in 1 .. n : InOrder(Batch(r))[k] = i
  BY <1>1, InOrderFacts
<1>3. Ids \subseteq Cursors /\ Ids \subseteq Nat /\ 0 \in Cursors /\ MaxEvents \in Nat
  BY RealtimeAssumption DEF Ids, Cursors
<1>4. A \in Seq(AllFrames) /\ Len(A) = 1 /\ A[1] \in AckFrames
  <2>1. A[1] \in AckFrames
    BY <1>1, <1>3 DEF AckFrames, Bounded
  <2> QED BY <2>1 DEF AllFrames
<1>5. R \in Seq(AllFrames) /\ b \in Nat /\ b <= 1 /\ (Gap(r) <=> b = 1)
      /\ (b = 1 => R[1].type = "reset" /\ R[1].cursor <= Len(log))
  <2>1. [type |-> "reset", cursor |-> ResumeFrom(r)] \in AllFrames
    BY <1>1 DEF AllFrames, ResetFrames
  <2>2. CASE Gap(r)
    <3>1. R = <<[type |-> "reset", cursor |-> ResumeFrom(r)]>>
      BY <2>2
    <3> QED BY <1>1, <2>1, <2>2, <3>1
  <2>3. CASE ~Gap(r)
    <3>1. R = << >>
      BY <2>3
    <3> QED BY <2>3, <3>1, EmptySeq
  <2> QED BY <2>2, <2>3
<1>6. E \in Seq(AllFrames) /\ Len(E) = n
      /\ \A k \in 1 .. n : E[k].type = "event" /\ E[k].id = InOrder(Batch(r))[k] /\ E[k].replayed /\ E[k].id \in Batch(r)
  <2>1. \A k \in 1 .. n : [type |-> "event", id |-> InOrder(Batch(r))[k], replayed |-> TRUE] \in AllFrames
    BY <1>1, <1>2 DEF AllFrames, EventFrames
  <2>2. E \in [1 .. n -> AllFrames]
    BY <2>1
  <2>3. E \in Seq(AllFrames) /\ Len(E) = n
    <3> DEFINE N == n
    <3>1. N \in Nat /\ E \in [1 .. N -> AllFrames]
      BY <1>2, <2>2
    <3> HIDE DEF N, E
    <3>2. E \in Seq(AllFrames) /\ DOMAIN E = 1 .. N
      BY <3>1, SeqDef
    <3>3. Len(E) = N
      BY <3>1, <3>2, LenProperties
    <3> QED BY <3>2, <3>3 DEF N
  <2> QED BY <1>2, <2>3
<1>7. C \in Seq(AllFrames) /\ Len(C) \in Nat /\ Len(C) <= 1
      /\ (Len(C) = 1 => /\ C[1].type = "replay_complete" /\ C[1].cursor <= Len(log)
                        /\ C[1].covers => r.covers /\ ~Gap(r) /\ Batch(r) # {} /\ C[1].cursor = Max(Batch(r)))
  <2>1. r.covers \in BOOLEAN /\ Len(log) \in Nat
    BY DEF Bounded, RealtimeTyped
  <2>2. CASE C = << >>
    BY <2>2, EmptySeq
  <2>3. CASE C = <<[type |-> "replay_complete", cursor |-> ResumeFrom(r), covers |-> TRUE]>> /\ r.covers /\ ResumeFrom(r) > _pre_replay_cursor(r)
    <3>1. [type |-> "replay_complete", cursor |-> ResumeFrom(r), covers |-> TRUE] \in AllFrames
      BY <1>1, <1>3 DEF AllFrames, Receipts
    <3> QED BY <1>1, <2>3, <3>1
  <2>4. CASE C = <<[type |-> "replay_complete", cursor |-> 0, covers |-> FALSE]>>
    <3>1. [type |-> "replay_complete", cursor |-> 0, covers |-> FALSE] \in AllFrames
      BY <1>3 DEF AllFrames, Receipts
    <3> QED BY <2>1, <2>4, <3>1
  <2> QED BY <2>2, <2>3, <2>4 DEF Receipt
<1>8. F = ((A \o R) \o E) \o C
  BY DEF Frames
<1>18. C \in Seq(AllFrames) /\ Len(C) \in Nat /\ Len(C) <= 1 /\ b \in Nat /\ b <= 1
  <2> HIDE DEF C, b
  <2> QED BY <1>5, <1>7
<1> HIDE DEF A, R, n, E, C
<1>9. /\ F \in Seq(AllFrames) /\ Len(F) = 1 + b + n + Len(C)
      /\ \A k \in 1 .. 1 + b + n + Len(C) :
            F[k] = IF k = 1 THEN A[1] ELSE IF k <= 1 + b THEN R[k - 1] ELSE IF k <= 1 + b + n THEN E[k - 1 - b] ELSE C[k - 1 - b - n]
  <2>1. /\ A \o R \in Seq(AllFrames) /\ Len(A \o R) = 1 + b
        /\ \A k \in 1 .. 1 + b : (A \o R)[k] = IF k <= 1 THEN A[k] ELSE R[k - 1]
    <3>1. /\ A \o R \in Seq(AllFrames) /\ Len(A \o R) = Len(A) + Len(R)
          /\ \A k \in 1 .. Len(A) + Len(R) : (A \o R)[k] = IF k <= Len(A) THEN A[k] ELSE R[k - Len(A)]
      BY <1>4, <1>5, ConcatProperties
    <3> QED BY <1>4, <3>1
  <2>4. b \in Nat /\ n \in Nat /\ Len(C) \in Nat
    BY <1>2, <1>18
  <2> HIDE DEF b
  <2>2. /\ (A \o R) \o E \in Seq(AllFrames) /\ Len((A \o R) \o E) = 1 + b + n
        /\ \A k \in 1 .. 1 + b + n : ((A \o R) \o E)[k] = IF k <= 1 + b THEN (A \o R)[k] ELSE E[k - (1 + b)]
    <3> DEFINE Q == A \o R
    <3>1. Q \in Seq(AllFrames) /\ Len(Q) = 1 + b
      BY <2>1
    <3> HIDE DEF Q
    <3>2. /\ Q \o E \in Seq(AllFrames) /\ Len(Q \o E) = Len(Q) + Len(E)
          /\ \A k \in 1 .. Len(Q) + Len(E) : (Q \o E)[k] = IF k <= Len(Q) THEN Q[k] ELSE E[k - Len(Q)]
      BY <1>6, <3>1, ConcatProperties
    <3>3. Len(Q) + Len(E) = 1 + b + n
      BY <1>6, <2>4, <3>1
    <3> QED BY <3>1, <3>2, <3>3 DEF Q
  <2>3. /\ F \in Seq(AllFrames) /\ Len(F) = 1 + b + n + Len(C)
        /\ \A k \in 1 .. 1 + b + n + Len(C) : F[k] = IF k <= 1 + b + n THEN ((A \o R) \o E)[k] ELSE C[k - (1 + b + n)]
    <3> DEFINE Q == (A \o R) \o E
    <3>1. Q \in Seq(AllFrames) /\ Len(Q) = 1 + b + n /\ F = Q \o C
      BY <1>8, <2>2
    <3> HIDE DEF Q
    <3>2. /\ Q \o C \in Seq(AllFrames) /\ Len(Q \o C) = Len(Q) + Len(C)
          /\ \A k \in 1 .. Len(Q) + Len(C) : (Q \o C)[k] = IF k <= Len(Q) THEN Q[k] ELSE C[k - Len(Q)]
      BY <1>18, <3>1, ConcatProperties
    <3> QED BY <3>1, <3>2 DEF Q
  <2>5. ASSUME NEW k \in 1 .. 1 + b + n + Len(C)
        PROVE  F[k] = IF k = 1 THEN A[1] ELSE IF k <= 1 + b THEN R[k - 1] ELSE IF k <= 1 + b + n THEN E[k - 1 - b] ELSE C[k - 1 - b - n]
    <3>1. k - (1 + b) = k - 1 - b /\ k - (1 + b + n) = k - 1 - b - n /\ (k <= 1 <=> k = 1) /\ k \in Nat
      BY <2>4
    <3>2. k <= 1 + b + n => /\ k \in 1 .. 1 + b + n
                            /\ F[k] = IF k <= 1 + b THEN (A \o R)[k] ELSE E[k - 1 - b]
      <4>1. k <= 1 + b + n => k \in 1 .. 1 + b + n
        BY <2>4, <3>1
      <4>2. k <= 1 + b + n => F[k] = ((A \o R) \o E)[k]
        BY <2>3
      <4>3. k <= 1 + b + n => ((A \o R) \o E)[k] = IF k <= 1 + b THEN (A \o R)[k] ELSE E[k - (1 + b)]
        BY <2>2, <4>1
      <4> QED BY <3>1, <4>1, <4>2, <4>3
    <3>3. k <= 1 + b => k \in 1 .. 1 + b /\ k <= 1 + b + n /\ (A \o R)[k] = IF k = 1 THEN A[1] ELSE R[k - 1]
      BY <2>1, <2>4, <3>1
    <3>4. ~(k <= 1 + b + n) => F[k] = C[k - 1 - b - n] /\ ~(k <= 1 + b) /\ k # 1
      BY <2>3, <2>4, <3>1
    <3>5. k = 1 => k <= 1 + b
      BY <2>4
    <3> QED BY <3>2, <3>3, <3>4, <3>5
  <2> QED BY <2>3, <2>5
<1>10. /\ n \in Nat /\ b \in Nat /\ b <= 1 /\ Len(C) \in Nat /\ Len(C) <= 1
       /\ Len(F) \in Nat /\ Len(F) = 1 + b + n + Len(C)
  <2>1. n \in Nat
    BY <1>2
  <2>2. 1 + b + n + Len(C) \in Nat
    BY <1>18, <2>1
  <2> QED BY <1>9, <1>18, <2>1, <2>2
<1> HIDE DEF b
<1>11. \A l \in 1 .. n : l + 1 + b \in 2 .. Len(F) /\ F[l + 1 + b] = E[l]
  <2>1. ASSUME NEW l \in 1 .. n PROVE l + 1 + b \in 2 .. Len(F) /\ F[l + 1 + b] = E[l]
    <3>1. l + 1 + b \in 2 .. Len(F) /\ l + 1 + b # 1 /\ ~(l + 1 + b <= 1 + b) /\ l + 1 + b <= 1 + b + n /\ (l + 1 + b) - 1 - b = l
      BY <1>10
    <3> QED BY <1>9, <1>10, <3>1
  <2> QED BY <2>1
<1>12. ASSUME NEW k \in 2 .. Len(F)
       PROVE  \/ b = 1 /\ k = 2 /\ F[k] = R[1]
              \/ \E l \in 1 .. n : k = l + 1 + b /\ F[k] = E[l]
              \/ Len(C) = 1 /\ k = 2 + b + n /\ F[k] = C[1]
  <2>1. CASE k <= 1 + b
    <3>1. b = 1 /\ k = 2 /\ k - 1 = 1
      BY <1>10, <2>1
    <3> QED BY <1>9, <1>10, <2>1, <3>1
  <2>2. CASE k > 1 + b /\ k <= 1 + b + n
    <3>1. k - 1 - b \in 1 .. n /\ k = (k - 1 - b) + 1 + b
      BY <1>10, <2>2
    <3> QED BY <1>11, <3>1
  <2>3. CASE k > 1 + b + n
    <3>1. k \in Nat /\ k <= 1 + b + n + Len(C)
      BY <1>10
    <3> DEFINE c == Len(C)
    <3>4. c \in Nat /\ c <= 1 /\ k <= 1 + b + n + c /\ b \in Nat /\ n \in Nat
      BY <1>10, <3>1
    <3> HIDE DEF c
    <3>5. c = 1
      BY <2>3, <3>1, <3>4
    <3>2. Len(C) = 1
      BY <3>5 DEF c
    <3>3. k = 2 + b + n /\ k - 1 - b - n = 1 /\ k # 1 /\ ~(k <= 1 + b)
      BY <1>10, <2>3, <3>1, <3>2
    <3> QED BY <1>9, <1>10, <2>3, <3>1, <3>2, <3>3
  <2> QED BY <1>10, <2>1, <2>2, <2>3
<1>13. \A i \in Batch(r) : \E l \in 1 .. n : E[l].type = "event" /\ E[l].id = i
  BY <1>2, <1>6
<1>14. F[1] = A[1] /\ A[1] = [type |-> "ack", cursor |-> _pre_replay_cursor(r), covers |-> r.covers, topics |-> r.topics, ref |-> r.ref]
  <2>1. F[1] = A[1]
    BY <1>9, <1>10
  <2> QED BY <2>1 DEF A
<1>15. Gap(r) => Len(F) >= 2 /\ F[2].type = "reset"
  <2>1. ASSUME Gap(r) PROVE Len(F) >= 2 /\ F[2].type = "reset"
    <3>1. b = 1 /\ Len(F) >= 2
      BY <1>5, <1>10, <2>1
    <3> QED BY <1>5, <1>9, <1>10, <3>1
  <2> QED BY <2>1
<1>16. \A i \in Batch(r) : \E m \in 2 .. Len(F) : F[m].type = "event" /\ F[m].id = i
  BY <1>11, <1>13
<1>17. ASSUME NEW k \in 2 .. Len(F) PROVE IsOfBatch(F, k, r, Batch(r))
  <2>1. CASE b = 1 /\ k = 2 /\ F[k] = R[1]
    BY <1>5, <2>1 DEF IsOfBatch
  <2>2. CASE \E l \in 1 .. n : k = l + 1 + b /\ F[k] = E[l]
    <3>1. PICK l \in 1 .. n : k = l + 1 + b /\ F[k] = E[l]
      BY <2>2
    <3>2. F[k].type = "event" /\ F[k].replayed /\ F[k].id \in Batch(r) /\ F[k].id = InOrder(Batch(r))[l]
      BY <1>6, <3>1
    <3>3. ASSUME NEW m \in 2 .. k - 1 PROVE F[m].type \in {"event", "reset"}
      <4>1. m \in 2 .. Len(F) /\ m # 2 + b + n
        BY <1>10, <3>1
      <4>2. \/ b = 1 /\ F[m] = R[1]
            \/ \E j \in 1 .. n : F[m] = E[j]
        BY <1>12, <4>1
      <4> QED BY <1>5, <1>6, <4>2
    <3>4. ASSUME NEW i \in Batch(r), i < F[k].id PROVE \E m \in 2 .. k - 1 : F[m].type = "event" /\ F[m].id = i
      <4>1. PICK j \in 1 .. n : InOrder(Batch(r))[j] = i
        BY <1>2
      <4>2. i \in Nat /\ F[k].id \in Nat
        BY <1>1, <3>2
      <4>3. j # l /\ ~(l < j)
        BY <1>2, <3>2, <3>4, <4>1, <4>2
      <4>4. j < l
        BY <1>10, <4>3
      <4>5. j + 1 + b \in 2 .. k - 1
        BY <1>10, <3>1, <4>4
      <4> QED BY <1>6, <1>11, <4>1, <4>5
    <3> QED BY <3>2, <3>3, <3>4 DEF IsOfBatch
  <2>3. CASE Len(C) = 1 /\ k = 2 + b + n /\ F[k] = C[1]
    <3>1. \A i \in Batch(r) : \E m \in 2 .. k - 1 : F[m].type = "event" /\ F[m].id = i
      <4>1. \A l \in 1 .. n : l + 1 + b \in 2 .. k - 1
        BY <1>10, <2>3
      <4> QED BY <1>11, <1>13, <4>1
    <3> QED BY <1>7, <2>3, <3>1 DEF IsOfBatch
  <2> QED BY <1>12, <2>1, <2>2, <2>3
<1> QED BY <1>9, <1>10, <1>14, <1>15, <1>16, <1>17 DEF Carries

\* What every step relies on.
LEMMA InvFacts ==
    ASSUME RealtimeInv
    PROVE  /\ Len(log) \in Nat /\ Len(log) >= 1 /\ Len(log) <= MaxEvents /\ MaxEvents \in Nat /\ MaxMoves \in Nat
           /\ Committed \subseteq Ids /\ Committed \subseteq Nat /\ owed \subseteq Committed /\ Outstanding \subseteq owed
           /\ \A i \in Committed : log[i] \in Topics
           /\ Len(wire) \in Nat /\ Len(asks) \in Nat /\ Len(conn.queue) \in Nat /\ moves \in Nat
           /\ \A k \in 1 .. Len(wire) : wire[k] \in AllFrames
           /\ \A k \in 1 .. Len(asks) : asks[k] \in Asking \cup Leaving
           /\ \A k \in 1 .. Len(conn.queue) : conn.queue[k] \in Ids /\ conn.queue[k] \in Nat
           /\ (wire = << >> <=> Len(wire) = 0) /\ (asks = << >> <=> Len(asks) = 0)
           /\ conn.queue = << >> <=> Len(conn.queue) = 0
<1>1. RealtimeTyped
  BY DEF RealtimeInv
<1>2. log \in Seq(Topics) /\ log # << >> /\ asks \in Seq(Asking \cup Leaving) /\ wire \in Seq(AllFrames) /\ conn.queue \in Seq(Ids)
  BY <1>1, ConnFacts DEF RealtimeTyped
<1>3. Len(log) \in Nat /\ Len(log) <= MaxEvents /\ MaxEvents \in Nat /\ MaxMoves \in Nat /\ moves \in Nat
  BY <1>1, <1>2, RealtimeAssumption DEF RealtimeTyped
<1>4. Len(log) >= 1
  BY <1>2, <1>3, EmptySeq
<1>5. Committed \subseteq Ids /\ Committed \subseteq Nat /\ owed \subseteq Committed /\ Outstanding \subseteq owed
  BY <1>3 DEF Committed, Ids, RealtimeInv, NobodyIsAhead, Outstanding
<1>6. Len(wire) \in Nat /\ Len(asks) \in Nat /\ Len(conn.queue) \in Nat
  BY <1>2
<1>7. /\ \A k \in 1 .. Len(wire) : wire[k] \in AllFrames
      /\ \A k \in 1 .. Len(asks) : asks[k] \in Asking \cup Leaving
      /\ \A k \in 1 .. Len(log) : log[k] \in Topics
      /\ \A k \in 1 .. Len(conn.queue) : conn.queue[k] \in Ids
  BY <1>2, ElementOfSeq
<1>8. \A k \in 1 .. Len(conn.queue) : conn.queue[k] \in Nat
  BY <1>3, <1>7 DEF Ids
<1>9. (wire = << >> <=> Len(wire) = 0) /\ (asks = << >> <=> Len(asks) = 0) /\ (conn.queue = << >> <=> Len(conn.queue) = 0)
  BY <1>2, EmptySeq
<1> QED BY <1>3, <1>4, <1>5, <1>6, <1>7, <1>8, <1>9 DEF Committed

\* A queue that loses its first element.
LEMMA TailFacts ==
    ASSUME NEW S, NEW s \in Seq(S), s # << >>
    PROVE  /\ Len(s) \in Nat /\ Len(s) >= 1 /\ Head(s) = s[1] /\ Head(s) \in S
           /\ Tail(s) \in Seq(S) /\ Len(Tail(s)) = Len(s) - 1
           /\ \A n \in 1 .. Len(Tail(s)) : n + 1 \in 2 .. Len(s) /\ Tail(s)[n] = s[n + 1]
           /\ \A n \in 2 .. Len(s) : n - 1 \in 1 .. Len(Tail(s)) /\ Tail(s)[n - 1] = s[n]
<1>1. Len(s) \in Nat /\ Len(s) >= 1 /\ Head(s) = s[1]
  BY EmptySeq
<1>2. Tail(s) \in Seq(S) /\ Len(Tail(s)) = Len(s) - 1 /\ \A n \in 1 .. Len(s) - 1 : Tail(s)[n] = s[n + 1]
  BY <1>1, HeadTailProperties
<1>3. Head(s) \in S
  BY <1>1, ElementOfSeq
<1>4. \A n \in 1 .. Len(s) - 1 : n + 1 \in 2 .. Len(s)
  BY <1>1
<1>5. \A n \in 2 .. Len(s) : n - 1 \in 1 .. Len(s) - 1 /\ (n - 1) + 1 = n
  BY <1>1
<1> QED BY <1>1, <1>2, <1>3, <1>4, <1>5

\* Frames that are added behind the others settle nothing that was settled before them.
LEMMA WireGrows ==
    ASSUME Len(wire) \in Nat, Len(wire') \in Nat, Len(wire) <= Len(wire'), client'.retires = client.retires,
           \A n \in 1 .. Len(wire) : wire'[n] = wire[n]
    PROVE  /\ \A i : OnWire(i) => OnWire(i)'
           /\ \A i : \A k \in 1 .. Len(wire) + 1 : Before(k, i) <=> Before(k, i)'
           /\ \A k \in 1 .. Len(wire) : Quiet(k) <=> Quiet(k)'
           /\ \A i : \A k \in Len(wire) + 1 .. Len(wire') : OnWire(i) => Before(k, i)'
<1>1. \A i : \A n \in 1 .. Len(wire) : Brings(n, i)' <=> Brings(n, i)
  BY DEF Brings
<1>2. \A i : OnWire(i) => OnWire(i)'
  <2>1. 1 .. Len(wire) \subseteq 1 .. Len(wire')
    OBVIOUS
  <2> QED BY <1>1, <2>1 DEF OnWire
<1>3. \A i : \A k \in 1 .. Len(wire) + 1 : Before(k, i) <=> Before(k, i)'
  <2>1. \A k \in 1 .. Len(wire) + 1 : 1 .. k - 1 \subseteq 1 .. Len(wire)
    OBVIOUS
  <2> QED BY <1>1, <2>1 DEF Before
<1>4. ASSUME NEW k \in 1 .. Len(wire) PROVE Quiet(k) <=> Quiet(k)'
  <2>1. k - 1 \in Int /\ \A n \in 1 .. k - 1 : n \in 1 .. Len(wire)
    OBVIOUS
  <2>2. \A m \in 1 .. k - 1 : \A n \in m + 1 .. k - 1 : n \in 1 .. Len(wire)
    OBVIOUS
  <2>3. wire'[k] = wire[k] /\ \A n \in 1 .. k - 1 : wire'[n] = wire[n]
    BY <2>1
  <2>4. \A m \in 1 .. k - 1 : \A n \in m + 1 .. k - 1 : wire'[n] = wire[n]
    BY <2>2
  <2> QED BY <2>3, <2>4 DEF Quiet
<1>5. \A i : \A k \in Len(wire) + 1 .. Len(wire') : OnWire(i) => Before(k, i)'
  <2>1. \A k \in Len(wire) + 1 .. Len(wire') : 1 .. Len(wire) \subseteq 1 .. k - 1
    OBVIOUS
  <2> QED BY <1>1, <2>1 DEF OnWire, Before
<1> QED BY <1>2, <1>3, <1>4, <1>5

\* The first frame arrives, the others move up.
LEMMA WireMoves ==
    ASSUME wire \in Seq(AllFrames), wire # << >>, wire' = Tail(wire)
    PROVE  /\ \A i : ~Brings(1, i) => (OnWire(i) => OnWire(i)')
           /\ \A i : \A k \in 1 .. Len(wire') : ~Brings(1, i) => (Before(k + 1, i) => Before(k, i)')
<1>1. /\ Len(wire) \in Nat /\ Len(wire) >= 1 /\ Len(wire') = Len(wire) - 1
      /\ \A n \in 2 .. Len(wire) : n - 1 \in 1 .. Len(wire') /\ wire'[n - 1] = wire[n]
  BY TailFacts
<1>2. \A i : \A n \in 2 .. Len(wire) : Brings(n, i) => Brings(n - 1, i)'
  BY <1>1 DEF Brings
<1>3. \A n \in 1 .. Len(wire) : n = 1 \/ n \in 2 .. Len(wire)
  BY <1>1
<1>4. \A i : ~Brings(1, i) => (OnWire(i) => OnWire(i)')
  BY <1>1, <1>2, <1>3 DEF OnWire
<1>5. ASSUME NEW i, NEW k \in 1 .. Len(wire'), ~Brings(1, i), Before(k + 1, i) PROVE Before(k, i)'
  <2>1. PICK n \in 1 .. (k + 1) - 1 : Brings(n, i)
    BY <1>5 DEF Before
  <2>2. n \in 2 .. Len(wire) /\ n - 1 \in 1 .. k - 1
    <3>1. n # 1
      BY <1>5, <2>1
    <3> QED BY <1>1, <3>1
  <2> QED BY <1>2, <2>1, <2>2 DEF Before
<1> QED BY <1>4, <1>5

\* The first message of the tab is handled, the others move up.
LEMMA AsksMove ==
    ASSUME asks \in Seq(Asking \cup Leaving), asks # << >>, asks' = Tail(asks)
    PROVE  /\ \A t : Unleft(t, 1) \/ Unleft(t, 2) => Unleft(t, 1)'
           /\ \A t : \A n \in 1 .. Len(asks') : Unleft(t, (n + 1) + 1) => Unleft(t, n + 1)'
<1>1. /\ Len(asks) \in Nat /\ Len(asks') = Len(asks) - 1
      /\ \A n \in 1 .. Len(asks') : n + 1 \in 2 .. Len(asks) /\ asks'[n] = asks[n + 1]
  BY TailFacts
<1>2. ASSUME NEW t, NEW n \in 1 .. Len(asks') + 1, Unleft(t, n + 1) PROVE Unleft(t, n)'
  <2>1. ASSUME NEW m \in n .. Len(asks'), asks'[m].type = "unsubscribe" PROVE t \notin asks'[m].topics
    <3>1. m \in 1 .. Len(asks') /\ m + 1 \in n + 1 .. Len(asks)
      BY <1>1
    <3> QED BY <1>1, <1>2, <2>1, <3>1 DEF Unleft
  <2> QED BY <2>1 DEF Unleft
<1>3. 1 \in 1 .. Len(asks') + 1 /\ 1 + 1 = 2 /\ \A n \in 1 .. Len(asks') : n + 1 \in 1 .. Len(asks') + 1
  <2>1. Len(asks') \in Nat
    BY TailFacts
  <2> QED BY <2>1
<1>4. \A t : Unleft(t, 1) => Unleft(t, 2)
  BY <1>1 DEF Unleft
<1> QED BY <1>2, <1>3, <1>4

\* A message is added behind the others.
LEMMA AsksGrow ==
    ASSUME asks \in Seq(Asking \cup Leaving), NEW a \in Asking \cup Leaving,
           asks' = IF client.up THEN Append(asks, a) ELSE asks
    PROVE  /\ asks' \in Seq(Asking \cup Leaving) /\ Len(asks) \in Nat /\ Len(asks') \in Nat /\ Len(asks) <= Len(asks')
           /\ \A n \in 1 .. Len(asks) : asks'[n] = asks[n]
           /\ \A n \in 1 .. Len(asks') : n \in 1 .. Len(asks) \/ (n = Len(asks) + 1 /\ Len(asks') = Len(asks) + 1 /\ asks'[n] = a)
           /\ ~client.up => asks' = asks
           /\ asks # << >> => asks' # << >> /\ Head(asks') = Head(asks)
<1>1. Len(asks) \in Nat
  OBVIOUS
<1>2. CASE client.up
  <2>1. /\ asks' \in Seq(Asking \cup Leaving) /\ Len(asks') = Len(asks) + 1
        /\ \A n \in 1 .. Len(asks) : asks'[n] = asks[n]
        /\ asks'[Len(asks) + 1] = a
    BY <1>2, AppendProperties
  <2>2. /\ \A n \in 1 .. Len(asks) + 1 : n \in 1 .. Len(asks) \/ n = Len(asks) + 1
        /\ Len(asks) + 1 \in Nat /\ Len(asks) <= Len(asks) + 1 /\ Len(asks) + 1 # 0
    BY <1>1
  <2>3. ASSUME asks # << >> PROVE asks' # << >> /\ Head(asks') = Head(asks)
    <3>1. Len(asks) # 0
      BY <2>3, EmptySeq
    <3>2. 1 \in 1 .. Len(asks)
      BY <1>1, <3>1
    <3>3. asks' # << >>
      BY <2>1, <2>2
    <3> QED BY <2>1, <2>3, <3>2, <3>3, HeadTailProperties
  <2> QED BY <1>1, <1>2, <2>1, <2>2, <2>3
<1>3. CASE ~client.up
  BY <1>1, <1>3
<1> QED BY <1>2, <1>3

\* The frame that arrives first stays the first.
LEMMA HeadStays ==
    ASSUME wire \in Seq(AllFrames), wire' \in Seq(AllFrames), Len(wire) <= Len(wire'),
           \A n \in 1 .. Len(wire) : wire'[n] = wire[n]
    PROVE  wire # << >> => wire' # << >> /\ Head(wire') = Head(wire)
<1>1. ASSUME wire # << >> PROVE wire' # << >> /\ Head(wire') = Head(wire)
  <2>1. Len(wire) \in Nat /\ Len(wire') \in Nat /\ Len(wire) # 0
    BY <1>1, EmptySeq
  <2>2. Len(wire') # 0 /\ 1 \in 1 .. Len(wire)
    BY <2>1
  <2>3. wire' # << >>
    BY <2>2
  <2> QED BY <1>1, <2>2, <2>3, HeadTailProperties
<1> QED BY <1>1

\* What the log has lost matters to the next replay only.
LEMMA LogIsTrimmed ==
    ASSUME RealtimeInv, floor' \in 0 .. Len(log),
           UNCHANGED <<log, announcing, conn, asks, wire, client, moves, owed, elsewhere, raced>>
    PROVE  RealtimeInv'
<1>1. UNCHANGED <<log, announcing, conn, asks, wire, client, moves, owed, elsewhere, raced>> /\ floor' \in 0 .. Len(log)
  OBVIOUS
<1>2. RealtimeTyped' /\ NobodyIsAhead' /\ Connected'
  BY <1>1 DEF RealtimeInv, RealtimeTyped, NobodyIsAhead, Connected, Reading, Committed
<1>3. Opening' <=> Opening
  BY <1>1 DEF Opening
<1>4. TopicsAreHeld' /\ NewIsUnowed'
  BY <1>1, <1>3 DEF RealtimeInv, TopicsAreHeld, NewIsUnowed, Unleft, Current, FirstFrame, Reading
<1>5. Outstanding' = Outstanding
  BY <1>1 DEF Outstanding
<1>6. WireInOrder'
  BY <1>1, <1>5 DEF RealtimeInv, WireInOrder, Quiet, Before, Brings
<1>7. QueueInOrder' /\ OnItsWay'
  BY <1>1, <1>3, <1>5 DEF RealtimeInv, QueueInOrder, OnItsWay, OnWire, Caught, Reading, Brings
<1>8. DeliveredIsSent' /\ AsksBegin'
  BY <1>1, <1>5 DEF RealtimeInv, DeliveredIsSent, AsksBegin, OnWire, Reading, Brings
<1> QED BY <1>2, <1>4, <1>6, <1>7, <1>8 DEF RealtimeInv

LEMMA PruneKeeps ==
    ASSUME RealtimeInv, prune
    PROVE  RealtimeInv'
<1>1. UNCHANGED <<log, announcing, conn, asks, wire, client, moves, owed, elsewhere, raced>>
  BY DEF prune
<1>2. floor' \in 0 .. Len(log)
  <2>1. floor \in 0 .. Len(log) /\ Retention \in Nat \ {0}
    BY RealtimeAssumption DEF RealtimeInv, RealtimeTyped
  <2> QED BY <2>1, InvFacts DEF prune
<1> QED BY <1>1, <1>2, LogIsTrimmed

\* A new event is ahead of everything that is on its way.
LEMMA CommitKeeps ==
    ASSUME RealtimeInv, NEW t \in Topics, Commit(t),
           \/ announcing = 0 /\ announcing' = Len(log) + 1 /\ UNCHANGED elsewhere
           \/ elsewhere' = elsewhere \cup {Len(log) + 1} /\ UNCHANGED announcing
    PROVE  RealtimeInv'
<1> DEFINE e == Len(log) + 1
<1>1. UNCHANGED <<floor, conn, asks, wire, client, moves, raced>>
  BY DEF Commit
<1>2. RealtimeTyped /\ NobodyIsAhead
  BY DEF RealtimeInv
<1>3. /\ log' \in Seq(Topics) /\ log' # << >> /\ Len(log') = e /\ e \in Ids /\ e \in Nat /\ Len(log) < e /\ Len(log') <= MaxEvents
      /\ \A i \in Committed : log'[i] = log[i]
      /\ log'[e] = t /\ Committed \subseteq Committed' /\ e \in Committed'
  <2>1. log \in Seq(Topics) /\ Len(log) < MaxEvents /\ log' = Append(log, t)
    BY <1>2 DEF Commit, RealtimeTyped
  <2>2. log' \in Seq(Topics) /\ Len(log') = e /\ \A i \in 1 .. Len(log) : log'[i] = log[i]
    BY <2>1, AppendProperties
  <2>3. log'[e] = t
    BY <2>1, AppendProperties
  <2>4. e \in Ids /\ e \in Nat /\ Len(log) < e /\ e <= MaxEvents
    BY <2>1, InvFacts DEF Ids
  <2>5. log' # << >>
    BY <2>2, <2>4, InvFacts, EmptySeq
  <2>6. Committed \subseteq 1 .. e /\ e \in 1 .. e
    BY InvFacts DEF Committed
  <2> QED BY <2>2, <2>3, <2>4, <2>5, <2>6 DEF Committed
<1>4. \/ announcing = 0 /\ announcing' = e /\ elsewhere' = elsewhere
      \/ elsewhere' = elsewhere \cup {e} /\ announcing' = announcing
  OBVIOUS
<1>5. owed' = (IF t \in client.acked THEN owed \cup {e} ELSE owed)
  BY DEF Commit
<1>6. \A i \in Nat : i <= Len(log) => i < e /\ i <= Len(log')
  BY <1>3, InvFacts
<1> HIDE DEF e
<1>7. /\ \A i \in Outstanding' : i \in Outstanding \/ (i = e /\ announcing' = e)
      /\ announcing = 0 \/ announcing' = announcing
  BY <1>1, <1>4, <1>5 DEF Outstanding
<1>8. \A i \in Outstanding : i \in Committed /\ log'[i] = log[i] /\ i <= Len(log) /\ i # 0
  BY <1>3, InvFacts DEF Committed
<1>9. RealtimeTyped'
  <2>1. floor' \in 0 .. Len(log') /\ announcing' \in 0 .. Len(log')
    <3>1. floor \in 0 .. Len(log) /\ announcing \in 0 .. Len(log)
      BY <1>2 DEF RealtimeTyped
    <3>2. floor \in 0 .. e /\ announcing \in 0 .. e /\ e \in 0 .. e
      BY <1>3, <3>1, InvFacts
    <3> QED BY <1>1, <1>3, <1>4, <3>2
  <2>2. owed' \subseteq Ids /\ elsewhere' \subseteq Ids
    BY <1>2, <1>3, <1>4, <1>5 DEF RealtimeTyped
  <2> QED BY <1>1, <1>2, <1>3, <2>1, <2>2 DEF RealtimeTyped
<1>10. NobodyIsAhead'
  <2>1. \A x \in Nat : x <= Len(log) => x <= Len(log')
    BY <1>6
  <2>2. /\ client.cursor \in Nat
        /\ \A k \in 1 .. Len(wire) : /\ wire[k].type = "event" => wire[k].id \in Nat
                                     /\ wire[k].type # "event" => wire[k].cursor \in Nat
        /\ \A n \in 1 .. Len(asks) : asks[n].type = "subscribe" => asks[n].cursor \in Nat
    <3>1. client.cursor \in Nat
      BY <1>2, InvFacts DEF RealtimeTyped
    <3>2. \A k \in 1 .. Len(wire) : /\ wire[k].type = "event" => wire[k].id \in Nat
                                    /\ wire[k].type # "event" => wire[k].cursor \in Nat
      <4>1. Ids \subseteq Nat /\ Cursors \subseteq Nat
        BY InvFacts DEF Ids, Cursors
      <4> QED BY <4>1, InvFacts, FrameFacts
    <3>3. \A n \in 1 .. Len(asks) : asks[n].type = "subscribe" => asks[n].cursor \in Nat
      <4>1. Cursors \subseteq Nat
        BY InvFacts DEF Cursors
      <4> QED BY <4>1, InvFacts, AskFacts
    <3> QED BY <3>1, <3>2, <3>3
  <2>3. /\ Reading => conn.replaying.cursor \in Nat
        /\ conn.replaying.at = "bounded" => conn.replaying.newest \in Nat
    <3>1. Ids \subseteq Nat /\ Cursors \subseteq Nat
      BY InvFacts DEF Ids, Cursors
    <3> QED BY <1>2, <3>1, ConnFacts DEF Bounded
  <2>4. owed' \subseteq Committed'
    BY <1>3, <1>5, InvFacts
  <2>5. \A q \in 1 .. Len(conn.queue) : conn.queue[q] <= Len(log')
    BY <1>2, <2>1, InvFacts DEF NobodyIsAhead
  <2>6. \A s \in Topics : conn.delivered[s] \subseteq Committed'
    BY <1>2, <1>3 DEF NobodyIsAhead
  <2> QED BY <1>1, <1>2, <2>1, <2>2, <2>3, <2>4, <2>5, <2>6 DEF NobodyIsAhead, Reading
<1>11. Opening' <=> Opening
  BY <1>1 DEF Opening
<1>12. Connected' /\ TopicsAreHeld' /\ NewIsUnowed'
  <2>1. Connected' /\ NewIsUnowed'
    BY <1>1, <1>11 DEF RealtimeInv, Connected, NewIsUnowed, FirstFrame, Reading
  <2>2. \A i \in owed' : log'[i] \in client.acked
    BY <1>3, <1>5, InvFacts DEF RealtimeInv, TopicsAreHeld
  <2>3. TopicsAreHeld
    BY DEF RealtimeInv
  <2>4. TopicsAreHeld'
    BY <1>1, <1>11, <2>2, <2>3 DEF TopicsAreHeld, Unleft, Current, Reading
  <2> QED BY <2>1, <2>4
<1>13. /\ \A i : OnWire(i)' <=> OnWire(i)
       /\ \A i, k : Before(k, i)' <=> Before(k, i)
       /\ \A k : Quiet(k)' <=> Quiet(k)
       /\ \A i \in Outstanding : Caught(i)' <=> Caught(i)
  <2>1. \A i : OnWire(i)' <=> OnWire(i)
    BY <1>1 DEF OnWire, Brings
  <2>2. \A i, k : Before(k, i)' <=> Before(k, i)
    BY <1>1 DEF Before, Brings
  <2>3. \A k : Quiet(k)' <=> Quiet(k)
    BY <1>1 DEF Quiet
  <2>4. \A i \in Outstanding : Caught(i)' <=> Caught(i)
    BY <1>1, <1>8 DEF Caught, Reading
  <2> QED BY <2>1, <2>2, <2>3, <2>4
<1>14. /\ \A k \in 1 .. Len(wire) : /\ wire[k].type = "event" => ~(e < wire[k].id)
                                    /\ wire[k].type = "replay_complete" => ~(e <= wire[k].cursor)
       /\ \A q \in 1 .. Len(conn.queue) : ~(e < conn.queue[q])
       /\ client.cursor < e
       /\ \A n \in 1 .. Len(asks) : asks[n].type = "subscribe" => asks[n].cursor < e
       /\ Reading => conn.replaying.cursor < e
       /\ \A s \in Topics : e \notin conn.delivered[s]
  <2>1. Ids \subseteq Nat /\ Cursors \subseteq Nat
    BY InvFacts DEF Ids, Cursors
  <2>2. \A k \in 1 .. Len(wire) : /\ wire[k].type = "event" => wire[k].id \in Nat /\ wire[k].id <= Len(log)
                                  /\ wire[k].type = "replay_complete" => wire[k].cursor \in Nat /\ wire[k].cursor <= Len(log)
    BY <1>2, <2>1, InvFacts, FrameFacts DEF NobodyIsAhead
  <2>3. \A n \in 1 .. Len(asks) : asks[n].type = "subscribe" => asks[n].cursor \in Nat /\ asks[n].cursor <= Len(log)
    BY <1>2, <2>1, InvFacts, AskFacts DEF NobodyIsAhead
  <2>4. client.cursor \in Nat /\ client.cursor <= Len(log)
    BY <1>2, InvFacts DEF NobodyIsAhead, RealtimeTyped
  <2>5. Reading => conn.replaying.cursor \in Nat /\ conn.replaying.cursor <= Len(log)
    BY <1>2, <2>1, ConnFacts DEF NobodyIsAhead
  <2>6. \A q \in 1 .. Len(conn.queue) : conn.queue[q] \in Nat /\ conn.queue[q] <= Len(log)
    BY <1>2, InvFacts DEF NobodyIsAhead
  <2>7. e \notin Committed
    BY <1>3, InvFacts DEF Committed
  <2>8. \A s \in Topics : e \notin conn.delivered[s]
    BY <1>2, <2>7 DEF NobodyIsAhead
  <2>9. \A x \in Nat : x <= Len(log) => x < e /\ ~(e < x) /\ ~(e <= x)
    BY <1>3, InvFacts
  <2> QED BY <2>2, <2>3, <2>4, <2>5, <2>6, <2>8, <2>9
<1>15. WireInOrder'
  <2>1. ASSUME NEW i \in Outstanding', NEW k \in 1 .. Len(wire)
        PROVE  /\ wire[k].type = "event" /\ i < wire[k].id => Quiet(k) \/ Before(k, i)
               /\ wire[k].type = "replay_complete" /\ wire[k].covers /\ i <= wire[k].cursor => Before(k, i)
    BY <1>7, <1>14 DEF RealtimeInv, WireInOrder
  <2> QED BY <1>1, <1>13, <2>1 DEF WireInOrder
<1>16. QueueInOrder' /\ OnItsWay'
  <2>1. QueueInOrder'
    BY <1>1, <1>7, <1>13, <1>14 DEF RealtimeInv, QueueInOrder
  <2>2. OnItsWay'
    BY <1>1, <1>7, <1>8, <1>11, <1>13 DEF RealtimeInv, OnItsWay
  <2> QED BY <2>1, <2>2
<1>17. DeliveredIsSent' /\ AsksBegin'
  <2>1. DeliveredIsSent'
    BY <1>1, <1>7, <1>13, <1>14 DEF RealtimeInv, DeliveredIsSent
  <2>2. AsksBegin'
    BY <1>1, <1>7, <1>14 DEF RealtimeInv, AsksBegin, Reading
  <2> QED BY <2>1, <2>2
<1> QED BY <1>9, <1>10, <1>12, <1>15, <1>16, <1>17 DEF RealtimeInv

\* An event that nobody waits for behind it joins the queue: every earlier one is there already.
LEMMA DeliverKeeps ==
    ASSUME RealtimeInv, deliver
    PROVE  RealtimeInv'
<1> DEFINE a == announcing
<1>1. /\ UNCHANGED <<log, floor, asks, wire, client, moves, owed, elsewhere, raced>> /\ announcing' = 0 /\ a # 0
      /\ conn' = IF log[a] \in conn.held THEN [conn EXCEPT !.queue = Append(@, a)] ELSE conn
  BY DEF deliver
<1>2. RealtimeTyped /\ NobodyIsAhead /\ Connected /\ TopicsAreHeld /\ OnItsWay /\ QueueInOrder
  BY DEF RealtimeInv
<1>3. a \in Committed /\ a \in Ids /\ a \in Nat /\ a <= Len(log)
  <2>1. a \in 0 .. Len(log)
    BY <1>2 DEF RealtimeTyped
  <2> QED BY <1>1, <2>1, InvFacts DEF Committed
<1>4. /\ conn' \in Conns /\ conn'.held = conn.held /\ conn'.delivered = conn.delivered /\ conn'.replaying = conn.replaying
      /\ conn'.queue \in Seq(Ids)
      /\ conn'.queue = IF log[a] \in conn.held THEN Append(conn.queue, a) ELSE conn.queue
  <2>1. conn \in Conns /\ conn.queue \in Seq(Ids) /\ Append(conn.queue, a) \in Seq(Ids)
    BY <1>2, <1>3, ConnFacts, AppendProperties DEF RealtimeTyped
  <2> HIDE DEF a
  <2> QED BY <1>1, <2>1 DEF Conns
<1>5. /\ Len(conn'.queue) \in Nat /\ Len(conn.queue) \in Nat /\ Len(conn.queue) <= Len(conn'.queue)
      /\ \A q \in 1 .. Len(conn.queue) : conn'.queue[q] = conn.queue[q] /\ q \in 1 .. Len(conn'.queue)
      /\ \A q \in 1 .. Len(conn'.queue) : q \in 1 .. Len(conn.queue) \/ (q = Len(conn.queue) + 1 /\ conn'.queue[q] = a /\ log[a] \in conn.held)
      /\ log[a] \in conn.held => Len(conn'.queue) = Len(conn.queue) + 1 /\ conn'.queue[Len(conn.queue) + 1] = a
  <2>1. conn.queue \in Seq(Ids)
    BY <1>2, ConnFacts
  <2>2. CASE log[a] \in conn.held
    BY <1>3, <1>4, <2>1, <2>2, AppendProperties
  <2>3. CASE log[a] \notin conn.held
    BY <1>4, <2>1, <2>3
  <2> QED BY <2>2, <2>3
<1> HIDE DEF a
<1>6. Reading' <=> Reading
  BY <1>4 DEF Reading
<1>7. Opening' <=> Opening
  <2>1. CASE log[a] \in conn.held
    <3>3. Len(conn'.queue) # 0
      BY <1>5, <2>1
    <3>1. conn'.queue # << >>
      BY <3>3
    <3>2. conn.held # {}
      BY <2>1
    <3> QED BY <1>4, <3>1, <3>2 DEF Opening
  <2>2. CASE log[a] \notin conn.held
    <3>1. conn' = conn
      BY <1>1, <2>2
    <3> QED BY <1>1, <3>1 DEF Opening
  <2> QED BY <2>1, <2>2
<1>8. RealtimeTyped'
  <2>1. announcing' \in 0 .. Len(log')
    BY <1>1, InvFacts
  <2> QED BY <1>1, <1>2, <1>4, <2>1 DEF RealtimeTyped
<1>9. NobodyIsAhead'
  <2>1. \A q \in 1 .. Len(conn'.queue) : conn'.queue[q] <= Len(log)
    BY <1>2, <1>3, <1>5 DEF NobodyIsAhead
  <2> QED BY <1>1, <1>2, <1>4, <1>6, <2>1 DEF NobodyIsAhead, Committed
<1>10. Connected'
  <2>1. ~client.up => conn' = conn
    BY <1>1, <1>2 DEF Connected, NoConn
  <2> QED BY <1>1, <1>2, <1>4, <2>1 DEF Connected
<1>11. TopicsAreHeld' /\ NewIsUnowed'
  BY <1>1, <1>4, <1>6, <1>7 DEF RealtimeInv, TopicsAreHeld, NewIsUnowed, Unleft, Current, FirstFrame
<1>12. /\ Outstanding' = Outstanding
       /\ \A i : OnWire(i)' <=> OnWire(i)
       /\ \A i, k : Before(k, i)' <=> Before(k, i)
       /\ \A k : Quiet(k)' <=> Quiet(k)
       /\ \A i : Caught(i)' <=> Caught(i)
  BY <1>1, <1>4, <1>6 DEF Outstanding, OnWire, Before, Quiet, Caught, Brings
<1>13. WireInOrder' /\ DeliveredIsSent' /\ AsksBegin'
  <2>1. WireInOrder'
    BY <1>1, <1>12 DEF RealtimeInv, WireInOrder
  <2> QED BY <1>1, <1>4, <1>6, <1>12, <2>1 DEF RealtimeInv, DeliveredIsSent, AsksBegin
<1>14. ASSUME NEW i \in Outstanding, client.up, ~Opening
       PROVE  OnWire(i) \/ Caught(i) \/ i = a \/ \E q \in 1 .. Len(conn.queue) : conn.queue[q] = i
  BY <1>2, <1>14 DEF OnItsWay, a
<1>15. log[a] \in conn.held => client.up /\ ~Opening
  BY <1>2 DEF Connected, NoConn, Opening
<1>16. QueueInOrder'
  <2>1. ASSUME NEW i \in Outstanding, NEW q \in 1 .. Len(conn'.queue), i < conn'.queue[q]
        PROVE  OnWire(i) \/ Caught(i) \/ \E p \in 1 .. q - 1 : conn'.queue[p] = i
    <3>1. CASE q \in 1 .. Len(conn.queue)
      <4>1. OnWire(i) \/ Caught(i) \/ \E p \in 1 .. q - 1 : conn.queue[p] = i
        BY <1>2, <1>5, <2>1, <3>1 DEF QueueInOrder
      <4>2. \A p \in 1 .. q - 1 : p \in 1 .. Len(conn.queue)
        BY <1>5, <3>1
      <4> QED BY <1>5, <4>1, <4>2
    <3>2. CASE q = Len(conn.queue) + 1 /\ conn'.queue[q] = a /\ log[a] \in conn.held
      <4>1. i # a
        BY <1>3, <2>1, <3>2
      <4>2. OnWire(i) \/ Caught(i) \/ \E p \in 1 .. Len(conn.queue) : conn.queue[p] = i
        BY <1>14, <1>15, <3>2, <4>1
      <4>3. \A p \in 1 .. Len(conn.queue) : p \in 1 .. q - 1
        BY <1>5, <3>2
      <4> QED BY <1>5, <4>2, <4>3
    <3> QED BY <1>5, <3>1, <3>2
  <2> QED BY <1>12, <2>1 DEF QueueInOrder
<1>17. OnItsWay'
  <2>1. ASSUME NEW i \in Outstanding, client.up, ~Opening
        PROVE  OnWire(i) \/ Caught(i) \/ \E q \in 1 .. Len(conn'.queue) : conn'.queue[q] = i
    <3>1. CASE i = a
      <4>1. log[a] \in conn.held
        <5>1. i \in owed
          BY DEF Outstanding
        <5> QED BY <1>2, <2>1, <3>1, <5>1 DEF TopicsAreHeld
      <4>2. Len(conn.queue) + 1 \in 1 .. Len(conn'.queue)
        BY <1>5, <4>1
      <4> QED BY <1>5, <3>1, <4>1, <4>2
    <3>2. CASE i # a
      BY <1>5, <1>14, <2>1, <3>2
    <3> QED BY <3>1, <3>2
  <2> QED BY <1>1, <1>7, <1>12, <2>1 DEF OnItsWay
<1> QED BY <1>8, <1>9, <1>10, <1>11, <1>13, <1>16, <1>17 DEF RealtimeInv

LEMMA ReplayBoundsKeeps ==
    ASSUME RealtimeInv, ReplayBounds
    PROVE  RealtimeInv'
<1> DEFINE r == conn.replaying
           s == [at |-> "bounded", topics |-> r.topics, cursor |-> r.cursor, covers |-> r.covers,
                 ref |-> r.ref, newest |-> Len(log), gap |-> r.cursor # 0 /\ floor < Len(log) /\ r.cursor < floor]
<1>1. /\ UNCHANGED <<log, floor, announcing, asks, wire, client, moves, owed, elsewhere, raced>>
      /\ r.at = "asked" /\ conn' = [conn EXCEPT !.replaying = s]
  BY DEF ReplayBounds
<1>2. RealtimeTyped /\ NobodyIsAhead /\ Connected /\ TopicsAreHeld /\ NewIsUnowed
  BY DEF RealtimeInv
<1>3. s \in Bounded /\ s.newest = Len(log)
  <2>1. r.topics \in Topical /\ r.cursor \in Cursors /\ r.covers \in BOOLEAN /\ r.ref \in 0 .. MaxMoves
    BY <1>1, <1>2, ConnFacts DEF Reading
  <2>2. Len(log) \in Ids
    BY InvFacts DEF Ids
  <2>3. (r.cursor # 0 /\ floor < Len(log) /\ r.cursor < floor) \in BOOLEAN
    OBVIOUS
  <2> QED BY <2>1, <2>2, <2>3 DEF Bounded
<1>4. s.at = "bounded" /\ s.topics = r.topics /\ s.cursor = r.cursor /\ s.covers = r.covers /\ s.ref = r.ref
  OBVIOUS
<1> HIDE DEF s
<1>5. /\ conn' \in Conns /\ conn'.held = conn.held /\ conn'.delivered = conn.delivered /\ conn'.queue = conn.queue
      /\ conn'.replaying = s
  <2>1. conn \in Conns
    BY <1>2 DEF RealtimeTyped
  <2> QED BY <1>1, <1>3, <2>1 DEF Conns
<1>6. Reading /\ Reading' /\ r # Live /\ s # Live
  BY <1>1, <1>4, <1>5 DEF Reading, Live
<1>7. ~Opening /\ ~Opening'
  BY <1>5, <1>6 DEF Opening
<1>8. client.up
  BY <1>1, <1>2 DEF Connected, NoConn
<1>9. RealtimeTyped' /\ Connected'
  BY <1>1, <1>2, <1>4, <1>5, <1>8 DEF RealtimeTyped, Connected
<1>10. NobodyIsAhead'
  BY <1>1, <1>2, <1>3, <1>4, <1>5, <1>6, InvFacts DEF NobodyIsAhead, Committed
<1>11. TopicsAreHeld'
  BY <1>1, <1>2, <1>4, <1>5, <1>6, <1>7 DEF TopicsAreHeld, Unleft, Current
<1>12. NewIsUnowed'
  BY <1>1, <1>2, <1>4, <1>5, <1>6, <1>7 DEF NewIsUnowed, FirstFrame
<1>13. /\ Outstanding' = Outstanding
       /\ \A i : OnWire(i)' <=> OnWire(i)
       /\ \A i, k : Before(k, i)' <=> Before(k, i)
       /\ \A k : Quiet(k)' <=> Quiet(k)
       /\ \A i : Caught(i)' <=> Caught(i)
  BY <1>1, <1>4, <1>5, <1>6 DEF Outstanding, OnWire, Before, Quiet, Caught, Brings
<1>14. WireInOrder' /\ QueueInOrder' /\ OnItsWay'
  <2>1. WireInOrder'
    BY <1>1, <1>13 DEF RealtimeInv, WireInOrder
  <2> QED BY <1>1, <1>5, <1>7, <1>13, <2>1 DEF RealtimeInv, QueueInOrder, OnItsWay
<1>15. DeliveredIsSent' /\ AsksBegin'
  BY <1>1, <1>4, <1>5, <1>6, <1>13 DEF RealtimeInv, DeliveredIsSent, AsksBegin
<1> QED BY <1>9, <1>10, <1>11, <1>12, <1>14, <1>15 DEF RealtimeInv

\* The first subscription of a connection speaks for all its topics: its replay catches
\* whatever the tab has missed.
LEMMA HandleSubscribeKeeps ==
    ASSUME RealtimeInv, HandleSubscribe
    PROVE  RealtimeInv'
<1> DEFINE ask == Head(asks)
           held == conn.held \cup ask.topics
           s == [at |-> "asked", topics |-> ask.topics, cursor |-> ask.cursor, covers |-> ask.topics = held, ref |-> ask.ref]
<1>1. /\ UNCHANGED <<log, floor, announcing, wire, client, moves, owed, elsewhere, raced>>
      /\ conn.replaying = Live /\ asks # << >> /\ ask.type = "subscribe" /\ asks' = Tail(asks)
      /\ conn' = [conn EXCEPT !.held = held, !.replaying = s]
  BY DEF HandleSubscribe
<1>2. RealtimeTyped /\ NobodyIsAhead /\ Connected /\ TopicsAreHeld /\ NewIsUnowed /\ AsksBegin
  BY DEF RealtimeInv
<1>3. /\ asks \in Seq(Asking \cup Leaving) /\ asks' \in Seq(Asking \cup Leaving) /\ ask = asks[1] /\ ask \in Asking \cup Leaving
      /\ Len(asks) \in Nat /\ 1 \in 1 .. Len(asks) /\ Len(asks') = Len(asks) - 1
      /\ \A n \in 1 .. Len(asks') : n + 1 \in 2 .. Len(asks) /\ asks'[n] = asks[n + 1]
  <2>1. asks \in Seq(Asking \cup Leaving)
    BY <1>2 DEF RealtimeTyped
  <2> QED BY <1>1, <2>1, TailFacts
<1>4. ask.topics \in Topical /\ ask.cursor \in Cursors /\ ask.ref \in 0 .. MaxMoves
  BY <1>1, <1>3, AskFacts
<1>5. s \in Asked /\ held \in Topical
  <2>1. (ask.topics = held) \in BOOLEAN
    OBVIOUS
  <2>2. conn.held \in Topical
    BY <1>2, ConnFacts
  <2> QED BY <1>4, <2>1, <2>2 DEF Asked, Topical
<1>6. s.at = "asked" /\ s.topics = ask.topics /\ s.cursor = ask.cursor /\ s.ref = ask.ref /\ (s.covers <=> ask.topics = held)
  OBVIOUS
<1>7. conn.held \subseteq held /\ ask.topics \subseteq held /\ (conn.held = {} => held = ask.topics)
  OBVIOUS
<1> HIDE DEF ask, s, held
<1>8. /\ conn' \in Conns /\ conn'.held = held /\ conn'.delivered = conn.delivered /\ conn'.queue = conn.queue
      /\ conn'.replaying = s
  <2>1. conn \in Conns
    BY <1>2 DEF RealtimeTyped
  <2> QED BY <1>1, <1>5, <2>1 DEF Conns
<1>9. ~Reading /\ Reading' /\ s # Live /\ ~Opening'
  BY <1>1, <1>6, <1>8 DEF Reading, Live, Opening
<1>10. client.up
  BY <1>1, <1>2 DEF Connected
<1>11. RealtimeTyped' /\ Connected'
  BY <1>1, <1>2, <1>3, <1>6, <1>8, <1>10 DEF RealtimeTyped, Connected
<1>12. \A n \in 1 .. Len(asks') : n + 1 \in 1 .. Len(asks)
  BY <1>3
<1>13. NobodyIsAhead'
  <2>1. \A n \in 1 .. Len(asks') : asks'[n].type = "subscribe" => asks'[n].cursor <= Len(log) /\ asks'[n].ref <= moves
    BY <1>2, <1>3, <1>12 DEF NobodyIsAhead
  <2>2. ask.cursor <= Len(log) /\ ask.ref <= moves
    BY <1>1, <1>2, <1>3 DEF NobodyIsAhead
  <2> QED BY <1>1, <1>2, <1>6, <1>8, <1>9, <2>1, <2>2 DEF NobodyIsAhead, Committed
<1>14. TopicsAreHeld'
  <2>1. \A t : \A n \in 1 .. Len(asks') : Unleft(t, (n + 1) + 1) => Unleft(t, n + 1)'
    BY <1>1, <1>3, AsksMove
  <2>2. \A t : Unleft(t, 1) \/ Unleft(t, 2) => Unleft(t, 1)'
    BY <1>1, <1>3, AsksMove
  <2>3. \A t \in client.acked : Unleft(t, 1)' /\ t \in held
    <3>1. ASSUME NEW t \in client.acked PROVE t \in held
      <4>1. Opening => t \in ask.topics
        BY DEF Opening, ask
      <4> QED BY <1>2, <1>7, <1>10, <4>1 DEF TopicsAreHeld
    <3> QED BY <1>2, <1>10, <2>2, <3>1 DEF TopicsAreHeld
  <2>4. \A t \in Current(s) : Unleft(t, 1)' /\ t \in held
    <3>1. Current(s) = Current(ask)
      BY <1>6 DEF Current
    <3>2. ASSUME NEW t \in Current(ask) PROVE Unleft(t, 1)' /\ t \in held
      <4>1. Unleft(t, 1 + 1) /\ 1 + 1 = 2
        BY <1>1, <1>2, <1>3 DEF TopicsAreHeld
      <4>2. t \in ask.topics
        BY DEF Current
      <4> QED BY <1>7, <2>2, <4>1, <4>2
    <3> QED BY <3>1, <3>2
  <2>5. \A k \in 1 .. Len(wire) : wire[k].type = "ack" => \A t \in Current(wire[k]) : Unleft(t, 1)' /\ t \in held
    BY <1>2, <1>7, <2>2 DEF TopicsAreHeld
  <2>6. \A n \in 1 .. Len(asks') : asks'[n].type = "subscribe" => \A t \in Current(asks'[n]) : Unleft(t, n + 1)'
    <3> QED BY <1>2, <1>3, <1>12, <2>1 DEF TopicsAreHeld
  <2>9. client.acked \subseteq client.topics /\ \A i \in owed : log[i] \in client.acked
    BY <1>2 DEF TopicsAreHeld
  <2>10. /\ \A t \in Current(conn.replaying)' : Unleft(t, 1)' /\ t \in held
         /\ \A k \in 1 .. Len(wire') : wire'[k].type = "ack" => \A t \in Current(wire[k])' : Unleft(t, 1)' /\ t \in held
         /\ \A n \in 1 .. Len(asks') : asks'[n].type = "subscribe" => \A t \in Current(asks[n])' : Unleft(t, n + 1)'
    <3>1. Current(conn.replaying)' = Current(s)
      BY <1>1, <1>8 DEF Current
    <3>2. \A k : Current(wire[k])' = Current(wire[k])
      BY <1>1 DEF Current
    <3>3. \A n : Current(asks[n])' = Current(asks'[n])
      BY <1>1 DEF Current
    <3> QED BY <1>1, <2>4, <2>5, <2>6, <3>1, <3>2, <3>3
  <2>11. conn'.replaying.covers => conn'.replaying.topics = conn'.held
    BY <1>6, <1>8
  <2> QED BY <1>1, <1>6, <1>8, <1>9, <2>3, <2>9, <2>10, <2>11 DEF TopicsAreHeld
<1>15. Opening => s.covers /\ conn.queue = << >> /\ wire = << >> /\ s.cursor = client.cursor /\ client.acked \subseteq s.topics
  BY <1>6, <1>7 DEF Opening, ask
<1>16. NewIsUnowed'
  <2>1. ASSUME client.cursor = 0
        PROVE  client.acked = {} /\ ((s.covers /\ wire = << >>) \/ (wire # << >> /\ FirstFrame(Head(wire))))
    BY <1>2, <1>9, <1>10, <1>15, <2>1 DEF NewIsUnowed
  <2> QED BY <1>1, <1>8, <1>9, <2>1 DEF NewIsUnowed, FirstFrame
<1>17. /\ Outstanding' = Outstanding
       /\ \A i : OnWire(i)' <=> OnWire(i)
       /\ \A i, k : Before(k, i)' <=> Before(k, i)
       /\ \A k : Quiet(k)' <=> Quiet(k)
       /\ \A i : ~Caught(i)
  BY <1>1, <1>9 DEF Outstanding, OnWire, Before, Quiet, Caught, Brings
<1>18. ASSUME NEW i \in Outstanding, Opening PROVE Caught(i)'
  <2>1. log[i] \in client.acked /\ client.cursor < i
    BY <1>2 DEF TopicsAreHeld, AsksBegin, Outstanding
  <2>2. client.cursor # 0
    BY <1>2, <2>1 DEF NewIsUnowed
  <2> QED BY <1>1, <1>8, <1>9, <1>15, <1>18, <2>1, <2>2 DEF Caught
<1>19. WireInOrder' /\ DeliveredIsSent'
  <2>1. WireInOrder'
    BY <1>1, <1>17 DEF RealtimeInv, WireInOrder
  <2> QED BY <1>8, <1>17, <2>1 DEF RealtimeInv, DeliveredIsSent
<1>20. QueueInOrder'
  BY <1>8, <1>17 DEF RealtimeInv, QueueInOrder
<1>21. OnItsWay'
  BY <1>1, <1>8, <1>10, <1>17, <1>18 DEF RealtimeInv, OnItsWay
<1>22. AsksBegin'
  <2>1. \A i \in Outstanding : ask.cursor < i
    BY <1>1, <1>2, <1>3 DEF AsksBegin
  <2>2. \A i \in Outstanding : \A n \in 1 .. Len(asks') : asks'[n].type = "subscribe" => asks'[n].cursor < i
    BY <1>2, <1>3, <1>12 DEF AsksBegin
  <2> QED BY <1>1, <1>2, <1>6, <1>8, <1>17, <2>1, <2>2 DEF AsksBegin
<1> QED BY <1>11, <1>13, <1>14, <1>16, <1>19, <1>20, <1>21, <1>22 DEF RealtimeInv

\* A topic that is left is one the tab counts on no more.
LEMMA HandleUnsubscribeKeeps ==
    ASSUME RealtimeInv, HandleUnsubscribe
    PROVE  RealtimeInv'
<1> DEFINE ask == Head(asks)
           f == [type |-> "ack", cursor |-> 0, covers |-> FALSE, topics |-> {}, ref |-> 0]
           d == [t \in Topics |-> IF t \in ask.topics THEN {} ELSE conn.delivered[t]]
<1>1. /\ UNCHANGED <<log, floor, announcing, client, moves, owed, elsewhere, raced>>
      /\ conn.replaying = Live /\ asks # << >> /\ ask.type = "unsubscribe" /\ asks' = Tail(asks)
      /\ conn' = [conn EXCEPT !.held = conn.held \ ask.topics, !.delivered = d]
      /\ wire' = Append(wire, f)
  BY DEF HandleUnsubscribe
<1>2. RealtimeTyped /\ NobodyIsAhead /\ Connected /\ TopicsAreHeld /\ NewIsUnowed /\ AsksBegin
  BY DEF RealtimeInv
<1>3. /\ asks \in Seq(Asking \cup Leaving) /\ asks' \in Seq(Asking \cup Leaving) /\ ask = asks[1] /\ ask \in Asking \cup Leaving
      /\ Len(asks) \in Nat /\ 1 \in 1 .. Len(asks) /\ Len(asks') = Len(asks) - 1
      /\ \A n \in 1 .. Len(asks') : n + 1 \in 2 .. Len(asks) /\ asks'[n] = asks[n + 1] /\ n + 1 \in 1 .. Len(asks)
  <2>1. asks \in Seq(Asking \cup Leaving)
    BY <1>2 DEF RealtimeTyped
  <2> QED BY <1>1, <2>1, TailFacts
<1>4. f \in AllFrames /\ f.type = "ack" /\ f.cursor = 0 /\ f.topics = {} /\ f.ref = 0
  <2>1. 0 \in Cursors /\ 0 \in 0 .. MaxMoves
    BY InvFacts DEF Cursors
  <2> QED BY <2>1 DEF AllFrames, AckFrames, Topical
<1>5. d \in [Topics -> SUBSET Ids] /\ \A t \in Topics : d[t] \subseteq conn.delivered[t]
  <2>1. conn.delivered \in [Topics -> SUBSET Ids]
    BY <1>2, ConnFacts
  <2> QED BY <2>1
<1> HIDE DEF d, f, ask
<1>6. /\ conn' \in Conns /\ conn'.held = conn.held \ ask.topics /\ conn'.delivered = d /\ conn'.queue = conn.queue
      /\ conn'.replaying = conn.replaying
  <2>1. conn \in Conns
    BY <1>2 DEF RealtimeTyped
  <2> QED BY <1>1, <1>5, <2>1 DEF Conns, Topical
<1>7. ~Reading /\ ~Reading' /\ client.up
  BY <1>1, <1>2, <1>6 DEF Reading, Live, Connected
<1>8. /\ wire \in Seq(AllFrames) /\ wire' \in Seq(AllFrames) /\ Len(wire) \in Nat /\ Len(wire') = Len(wire) + 1 /\ Len(wire') \in Nat
      /\ \A n \in 1 .. Len(wire) : wire'[n] = wire[n]
      /\ \A n \in 1 .. Len(wire') : n \in 1 .. Len(wire) \/ wire'[n] = f
  <2>1. wire \in Seq(AllFrames)
    BY <1>2 DEF RealtimeTyped
  <2>2. /\ Append(wire, f) \in Seq(AllFrames) /\ Len(Append(wire, f)) = Len(wire) + 1
        /\ \A n \in 1 .. Len(wire) : Append(wire, f)[n] = wire[n]
        /\ Append(wire, f)[Len(wire) + 1] = f
    BY <1>4, <2>1, AppendProperties
  <2>3. Len(wire) \in Nat
    BY <2>1
  <2>4. \A n \in 1 .. Len(wire) + 1 : n \in 1 .. Len(wire) \/ n = Len(wire) + 1
    BY <2>3
  <2> QED BY <1>1, <2>1, <2>2, <2>3, <2>4
<1>9. ~Opening /\ ~Opening'
  <2>1. wire' # << >>
    <3>1. Len(wire') # 0
      BY <1>8
    <3> QED BY <3>1
  <2> QED BY <1>1, <2>1 DEF Opening, ask
<1>10. RealtimeTyped' /\ Connected'
  BY <1>1, <1>2, <1>3, <1>6, <1>7, <1>8 DEF RealtimeTyped, Connected
<1>11. NobodyIsAhead'
  <2>1. \A n \in 1 .. Len(asks') : asks'[n].type = "subscribe" => asks'[n].cursor <= Len(log) /\ asks'[n].ref <= moves
    BY <1>2, <1>3 DEF NobodyIsAhead
  <2>2. \A k \in 1 .. Len(wire') :
          /\ wire'[k].type = "event" => wire'[k].id <= Len(log)
          /\ wire'[k].type # "event" => wire'[k].cursor <= Len(log)
          /\ wire'[k].type = "ack" => wire'[k].ref <= moves
    <3>1. 0 <= Len(log) /\ 0 <= moves
      BY InvFacts
    <3>2. f.type # "event"
      BY <1>4
    <3> QED BY <1>2, <1>4, <1>8, <3>1, <3>2 DEF NobodyIsAhead
  <2>3. \A t \in Topics : conn'.delivered[t] \subseteq Committed
    BY <1>2, <1>5, <1>6 DEF NobodyIsAhead
  <2>4. conn'.replaying.at # "bounded"
    BY <1>7 DEF Reading
  <2> QED BY <1>1, <1>2, <1>6, <1>7, <2>1, <2>2, <2>3, <2>4 DEF NobodyIsAhead, Committed
<1>12. TopicsAreHeld'
  <2>1. \A t : \A n \in 1 .. Len(asks') : Unleft(t, (n + 1) + 1) => Unleft(t, n + 1)'
    BY <1>1, <1>3, AsksMove
  <2>2. \A t : Unleft(t, 1) \/ Unleft(t, 2) => Unleft(t, 1)'
    BY <1>1, <1>3, AsksMove
  <2>3. \A t : Unleft(t, 1) /\ t \in conn.held => t \in conn'.held
    BY <1>1, <1>3, <1>6 DEF Unleft
  <2>4. \A t \in client.acked : Unleft(t, 1)' /\ t \in conn'.held
    BY <1>2, <1>7, <1>9, <2>2, <2>3 DEF TopicsAreHeld
  <2>5. \A k \in 1 .. Len(wire') : wire'[k].type = "ack" => \A t \in Current(wire'[k]) : Unleft(t, 1)' /\ t \in conn'.held
    <3>1. Current(f) = {}
      BY <1>4 DEF Current
    <3> QED BY <1>2, <1>8, <2>2, <2>3, <3>1 DEF TopicsAreHeld
  <2>6. \A n \in 1 .. Len(asks') : asks'[n].type = "subscribe" => \A t \in Current(asks'[n]) : Unleft(t, n + 1)'
    BY <1>2, <1>3, <2>1 DEF TopicsAreHeld
  <2>7. /\ \A k : Current(wire[k])' = Current(wire'[k])
        /\ \A n : Current(asks[n])' = Current(asks'[n])
    BY <1>1 DEF Current
  <2>8. client.acked \subseteq client.topics /\ \A i \in owed : log[i] \in client.acked
    BY <1>2 DEF TopicsAreHeld
  <2> QED BY <1>1, <1>7, <2>4, <2>5, <2>6, <2>7, <2>8 DEF TopicsAreHeld
<1>13. NewIsUnowed'
  <2>1. wire # << >> => wire' # << >> /\ Head(wire') = Head(wire)
    <3>1. Len(wire) <= Len(wire')
      BY <1>8
    <3> QED BY <1>8, <3>1, HeadStays
  <2> QED BY <1>1, <1>2, <1>7, <1>9, <2>1 DEF NewIsUnowed, FirstFrame
<1>14. /\ Outstanding' = Outstanding /\ \A i : ~Caught(i)
       /\ \A i : OnWire(i) => OnWire(i)'
       /\ \A i : \A k \in 1 .. Len(wire) : Before(k, i) <=> Before(k, i)'
       /\ \A k \in 1 .. Len(wire) : Quiet(k) <=> Quiet(k)'
  <2>1. /\ \A i : OnWire(i) => OnWire(i)'
        /\ \A i : \A k \in 1 .. Len(wire) + 1 : Before(k, i) <=> Before(k, i)'
        /\ \A k \in 1 .. Len(wire) : Quiet(k) <=> Quiet(k)'
    <3>1. Len(wire) <= Len(wire') /\ client'.retires = client.retires
      BY <1>1, <1>8
    <3> QED BY <1>8, <3>1, WireGrows
  <2>2. \A k \in 1 .. Len(wire) : k \in 1 .. Len(wire) + 1
    BY <1>8
  <2>3. Outstanding' = Outstanding /\ \A i : ~Caught(i)
    BY <1>1, <1>7 DEF Outstanding, Caught
  <2> QED BY <2>1, <2>2, <2>3
<1>15. WireInOrder'
  <2>1. f.type # "event" /\ f.type # "replay_complete"
    BY <1>4
  <2> QED BY <1>8, <1>14, <2>1 DEF RealtimeInv, WireInOrder
<1>16. QueueInOrder' /\ OnItsWay'
  <2>1. QueueInOrder'
    BY <1>6, <1>14 DEF RealtimeInv, QueueInOrder
  <2> QED BY <1>1, <1>6, <1>7, <1>9, <1>14, <2>1 DEF RealtimeInv, OnItsWay
<1>17. DeliveredIsSent' /\ AsksBegin'
  <2>1. DeliveredIsSent'
    BY <1>5, <1>6, <1>14 DEF RealtimeInv, DeliveredIsSent
  <2>2. \A i \in Outstanding : \A n \in 1 .. Len(asks') : asks'[n].type = "subscribe" => asks'[n].cursor < i
    BY <1>2, <1>3 DEF AsksBegin
  <2> QED BY <1>1, <1>2, <1>7, <1>14, <2>1, <2>2 DEF AsksBegin
<1> QED BY <1>10, <1>11, <1>12, <1>13, <1>15, <1>16, <1>17 DEF RealtimeInv

\* A frame of the queue is sent, or a batch has brought it, or nobody wants it any more.
LEMMA SendLiveKeeps ==
    ASSUME RealtimeInv, send_live
    PROVE  RealtimeInv'
<1>0. PICK i : i = Head(conn.queue)
  OBVIOUS
<1> DEFINE f == [type |-> "event", id |-> i, replayed |-> FALSE]
<1>1. /\ UNCHANGED <<log, floor, announcing, asks, client, moves, owed, elsewhere, raced>>
      /\ conn.replaying = Live /\ conn.queue # << >>
      /\ conn' = [conn EXCEPT !.queue = Tail(@)]
      /\ wire' = IF _superseded(i) THEN wire ELSE Append(wire, f)
  BY <1>0 DEF send_live, LiveOpen
<1>2. RealtimeTyped /\ NobodyIsAhead /\ Connected /\ TopicsAreHeld /\ NewIsUnowed /\ QueueInOrder
  BY DEF RealtimeInv
<1>3. /\ conn.queue \in Seq(Ids) /\ Tail(conn.queue) \in Seq(Ids) /\ i = conn.queue[1] /\ i \in Ids
      /\ Len(conn.queue) \in Nat /\ 1 \in 1 .. Len(conn.queue) /\ Len(Tail(conn.queue)) = Len(conn.queue) - 1
      /\ \A q \in 1 .. Len(Tail(conn.queue)) : q + 1 \in 1 .. Len(conn.queue) /\ Tail(conn.queue)[q] = conn.queue[q + 1]
      /\ \A q \in 2 .. Len(conn.queue) : q - 1 \in 1 .. Len(Tail(conn.queue)) /\ Tail(conn.queue)[q - 1] = conn.queue[q]
  <2>1. conn.queue \in Seq(Ids)
    BY <1>2, ConnFacts
  <2> QED BY <1>0, <1>1, <2>1, TailFacts
<1>4. f \in AllFrames /\ f.type = "event" /\ f.id = i /\ i <= Len(log) /\ i \in Committed /\ i \in Nat
  <2>1. i <= Len(log) /\ i \in Nat /\ i # 0
    BY <1>2, <1>3, InvFacts DEF NobodyIsAhead, Ids
  <2> QED BY <1>3, <2>1, InvFacts DEF AllFrames, EventFrames, Committed
<1> HIDE DEF f
<1>5. /\ conn' \in Conns /\ conn'.held = conn.held /\ conn'.delivered = conn.delivered /\ conn'.queue = Tail(conn.queue)
      /\ conn'.replaying = conn.replaying
  <2>1. conn \in Conns
    BY <1>2 DEF RealtimeTyped
  <2> QED BY <1>1, <1>3, <2>1 DEF Conns
<1>6. ~Reading /\ ~Reading' /\ client.up /\ ~Opening
  BY <1>1, <1>2, <1>5 DEF Reading, Live, Connected, NoConn, Opening
<1>7. /\ wire \in Seq(AllFrames) /\ wire' \in Seq(AllFrames) /\ Len(wire) \in Nat /\ Len(wire') \in Nat /\ Len(wire) <= Len(wire')
      /\ \A n \in 1 .. Len(wire) : wire'[n] = wire[n]
      /\ \A n \in 1 .. Len(wire') : n \in 1 .. Len(wire) \/ (n = Len(wire) + 1 /\ wire'[n] = f)
      /\ ~_superseded(i) => Len(wire') = Len(wire) + 1 /\ wire'[Len(wire) + 1] = f
  <2>1. wire \in Seq(AllFrames) /\ Len(wire) \in Nat
    BY <1>2, InvFacts DEF RealtimeTyped
  <2>2. CASE _superseded(i)
    BY <1>1, <2>1, <2>2
  <2>3. CASE ~_superseded(i)
    <3>1. /\ wire' \in Seq(AllFrames) /\ Len(wire') = Len(wire) + 1
          /\ \A n \in 1 .. Len(wire) : wire'[n] = wire[n]
          /\ wire'[Len(wire) + 1] = f
      BY <1>1, <1>4, <2>1, <2>3, AppendProperties
    <3>2. \A n \in 1 .. Len(wire) + 1 : n \in 1 .. Len(wire) \/ n = Len(wire) + 1
      BY <2>1
    <3>3. Len(wire) + 1 \in Nat /\ Len(wire) <= Len(wire) + 1
      BY <2>1
    <3> QED BY <2>1, <2>3, <3>1, <3>2, <3>3
  <2> QED BY <2>2, <2>3
<1>8. RealtimeTyped' /\ Connected'
  BY <1>1, <1>2, <1>5, <1>6, <1>7 DEF RealtimeTyped, Connected
<1>9. NobodyIsAhead'
  <2>1. \A q \in 1 .. Len(conn'.queue) : conn'.queue[q] <= Len(log)
    BY <1>2, <1>3, <1>5 DEF NobodyIsAhead
  <2>2. \A k \in 1 .. Len(wire') :
          /\ wire'[k].type = "event" => wire'[k].id <= Len(log)
          /\ wire'[k].type # "event" => wire'[k].cursor <= Len(log)
          /\ wire'[k].type = "ack" => wire'[k].ref <= moves
    <3>1. f.type # "ack"
      BY <1>4
    <3> QED BY <1>2, <1>4, <1>7, <3>1 DEF NobodyIsAhead
  <2>3. conn'.replaying.at # "bounded"
    BY <1>6 DEF Reading
  <2> QED BY <1>1, <1>2, <1>5, <1>6, <2>1, <2>2, <2>3 DEF NobodyIsAhead, Committed
<1>10. TopicsAreHeld'
  <2>1. \A k \in 1 .. Len(wire') : wire'[k].type = "ack" => \A t \in Current(wire'[k]) : Unleft(t, 1) /\ t \in conn.held
    <3>1. f.type # "ack"
      BY <1>4
    <3> QED BY <1>2, <1>7, <3>1 DEF TopicsAreHeld
  <2>2. /\ \A k : Current(wire[k])' = Current(wire'[k])
        /\ \A n : Current(asks[n])' = Current(asks[n])
        /\ \A t, n : Unleft(t, n)' <=> Unleft(t, n)
    BY <1>1 DEF Current, Unleft
  <2> QED BY <1>1, <1>2, <1>5, <1>6, <2>1, <2>2 DEF TopicsAreHeld
<1>11. NewIsUnowed'
  <2>1. wire # << >> => wire' # << >> /\ Head(wire') = Head(wire)
    <3>1. Len(wire) <= Len(wire')
      BY <1>7
    <3> QED BY <1>7, <3>1, HeadStays
  <2> QED BY <1>1, <1>2, <1>6, <2>1 DEF NewIsUnowed, FirstFrame
<1>12. /\ Outstanding' = Outstanding /\ \A j : ~Caught(j)
       /\ \A j : OnWire(j) => OnWire(j)'
       /\ \A j : \A k \in 1 .. Len(wire) : Before(k, j) <=> Before(k, j)'
       /\ \A k \in 1 .. Len(wire) : Quiet(k) <=> Quiet(k)'
       /\ \A j : \A k \in Len(wire) + 1 .. Len(wire') : OnWire(j) => Before(k, j)'
  <2>1. /\ \A j : OnWire(j) => OnWire(j)'
        /\ \A j : \A k \in 1 .. Len(wire) + 1 : Before(k, j) <=> Before(k, j)'
        /\ \A k \in 1 .. Len(wire) : Quiet(k) <=> Quiet(k)'
        /\ \A j : \A k \in Len(wire) + 1 .. Len(wire') : OnWire(j) => Before(k, j)'
    <3>1. client'.retires = client.retires
      BY <1>1
    <3> QED BY <1>7, <3>1, WireGrows
  <2>2. \A k \in 1 .. Len(wire) : k \in 1 .. Len(wire) + 1
    BY <1>7
  <2>3. Outstanding' = Outstanding /\ \A j : ~Caught(j)
    BY <1>1, <1>6 DEF Outstanding, Caught
  <2> QED BY <2>1, <2>2, <2>3
<1>13. i \in Outstanding => OnWire(i)'
  <2>1. CASE ~_superseded(i)
    <3>1. Len(wire) + 1 \in 1 .. Len(wire')
      BY <1>7, <2>1
    <3> QED BY <1>4, <1>7, <2>1, <3>1 DEF OnWire, Brings
  <2>2. ASSUME _superseded(i), i \in Outstanding PROVE OnWire(i)'
    <3>1. log[i] \in conn.held /\ log[i] \in Topics
      BY <1>2, <1>4, <1>6, <2>2, InvFacts DEF TopicsAreHeld, Outstanding
    <3>2. i \in conn.delivered[log[i]]
      BY <2>2, <3>1 DEF _superseded
    <3> QED BY <1>12, <2>2, <3>1, <3>2 DEF RealtimeInv, DeliveredIsSent
  <2> QED BY <2>1, <2>2
<1>14. WireInOrder'
  <2>1. ASSUME NEW j \in Outstanding, NEW k \in 1 .. Len(wire')
        PROVE  /\ wire'[k].type = "event" /\ j < wire'[k].id => Quiet(k)' \/ Before(k, j)'
               /\ wire'[k].type = "replay_complete" /\ wire'[k].covers /\ j <= wire'[k].cursor => Before(k, j)'
    <3>1. CASE k \in 1 .. Len(wire)
      BY <1>7, <1>12, <3>1 DEF RealtimeInv, WireInOrder
    <3>2. CASE k = Len(wire) + 1 /\ wire'[k] = f
      <4>1. ASSUME j < i PROVE Before(k, j)'
        <5>1. \A p \in 1 .. 1 - 1 : FALSE
          OBVIOUS
        <5>2. OnWire(j)
          BY <1>2, <1>3, <1>12, <4>1, <5>1 DEF QueueInOrder
        <5>3. k \in Len(wire) + 1 .. Len(wire')
          BY <1>7, <3>2
        <5> QED BY <1>12, <5>2, <5>3
      <4>2. f.type # "replay_complete"
        BY <1>4
      <4> QED BY <1>4, <3>2, <4>1, <4>2
    <3> QED BY <1>7, <3>1, <3>2
  <2> QED BY <1>12, <2>1 DEF WireInOrder
<1>15. QueueInOrder'
  <2>1. ASSUME NEW j \in Outstanding, NEW q \in 1 .. Len(conn'.queue), j < conn'.queue[q]
        PROVE  OnWire(j)' \/ \E p \in 1 .. q - 1 : conn'.queue[p] = j
    <3>1. q + 1 \in 1 .. Len(conn.queue) /\ j < conn.queue[q + 1]
      BY <1>3, <1>5, <2>1
    <3>2. OnWire(j) \/ \E p \in 1 .. (q + 1) - 1 : conn.queue[p] = j
      BY <1>2, <1>12, <3>1 DEF QueueInOrder
    <3>3. ASSUME NEW p \in 1 .. (q + 1) - 1, conn.queue[p] = j, p # 1 PROVE \E x \in 1 .. q - 1 : conn'.queue[x] = j
      <4>1. p \in 2 .. Len(conn.queue) /\ p - 1 \in 1 .. q - 1
        BY <1>3, <3>1, <3>3
      <4> QED BY <1>3, <1>5, <3>3, <4>1
    <3> QED BY <1>3, <1>12, <1>13, <3>2, <3>3
  <2> QED BY <1>12, <2>1 DEF QueueInOrder
<1>16. OnItsWay'
  <2>1. ASSUME NEW j \in Outstanding
        PROVE  OnWire(j)' \/ announcing = j \/ \E q \in 1 .. Len(conn'.queue) : conn'.queue[q] = j
    <3>1. OnWire(j) \/ announcing = j \/ \E q \in 1 .. Len(conn.queue) : conn.queue[q] = j
      BY <1>6, <1>12 DEF RealtimeInv, OnItsWay
    <3>2. ASSUME NEW q \in 1 .. Len(conn.queue), conn.queue[q] = j, q # 1 PROVE \E x \in 1 .. Len(conn'.queue) : conn'.queue[x] = j
      <4>1. q \in 2 .. Len(conn.queue)
        BY <1>3, <3>2
      <4> QED BY <1>3, <1>5, <3>2, <4>1
    <3> QED BY <1>3, <1>12, <1>13, <3>1, <3>2
  <2> QED BY <1>1, <1>12, <2>1 DEF OnItsWay
<1>17. DeliveredIsSent' /\ AsksBegin'
  <2>1. DeliveredIsSent'
    BY <1>5, <1>12 DEF RealtimeInv, DeliveredIsSent
  <2> QED BY <1>1, <1>6, <1>12, <2>1 DEF RealtimeInv, AsksBegin
<1> QED BY <1>8, <1>9, <1>10, <1>11, <1>14, <1>15, <1>16, <1>17 DEF RealtimeInv

\* A frame arrives: what the tab makes of it does not touch what is on its way behind it.
LEMMA ReceiveFacts ==
    ASSUME RealtimeInv, receive, NEW f, f = Head(wire),
           client' \in [topics: SUBSET Topics, acked: SUBSET Topics, ref: [Topics -> 0 .. MaxMoves],
                        cursor: 0 .. MaxEvents, applied: SUBSET Ids, retires: BOOLEAN, up: BOOLEAN],
           client'.topics = client.topics, client'.ref = client.ref, client'.up = client.up,
           client.acked \subseteq client'.acked,
           client'.acked \subseteq client.acked \cup (IF f.type = "ack" THEN Current(f) ELSE {}),
           client'.cursor <= Len(log),
           client'.cursor = 0 => client.cursor = 0 /\ (f.type = "ack" => ~f.covers),
           \A i \in Outstanding' : i \in Outstanding /\ ~Brings(1, i) /\ client'.cursor < i,
           \A i \in Outstanding' : \A k \in 1 .. Len(wire') :
               wire'[k].type = "event" /\ Quiet(k + 1) => Quiet(k)' \/ Before(k, i)'
    PROVE  RealtimeInv'
<1>1. /\ UNCHANGED <<log, floor, announcing, conn, asks, moves, elsewhere, raced>>
      /\ wire # << >> /\ wire' = Tail(wire) /\ owed' \subseteq owed
  BY DEF receive
<1>2. RealtimeTyped /\ NobodyIsAhead /\ Connected /\ TopicsAreHeld /\ NewIsUnowed
  BY DEF RealtimeInv
<1>3. /\ wire \in Seq(AllFrames) /\ wire' \in Seq(AllFrames) /\ f = wire[1] /\ f \in AllFrames /\ 1 \in 1 .. Len(wire)
      /\ \A k \in 1 .. Len(wire') : k + 1 \in 1 .. Len(wire) /\ wire'[k] = wire[k + 1]
  <2>1. wire \in Seq(AllFrames)
    BY <1>2 DEF RealtimeTyped
  <2>2. /\ Len(wire) \in Nat /\ Len(wire) >= 1 /\ \A n \in 2 .. Len(wire) : n \in 1 .. Len(wire)
    BY <1>1, <2>1, TailFacts
  <2> QED BY <1>1, <2>1, <2>2, TailFacts
<1>4. client.up /\ ~Opening
  BY <1>1, <1>2 DEF Connected, Opening
<1>5. RealtimeTyped'
  BY <1>1, <1>2, <1>3 DEF RealtimeTyped
<1>6. NobodyIsAhead' /\ Connected'
  <2>1. \A k \in 1 .. Len(wire') :
          /\ wire'[k].type = "event" => wire'[k].id <= Len(log)
          /\ wire'[k].type # "event" => wire'[k].cursor <= Len(log)
          /\ wire'[k].type = "ack" => wire'[k].ref <= moves
    BY <1>2, <1>3 DEF NobodyIsAhead
  <2>2. Reading' <=> Reading
    BY <1>1 DEF Reading
  <2>3. NobodyIsAhead'
    BY <1>1, <1>2, <2>1, <2>2 DEF NobodyIsAhead, Committed
  <2> QED BY <1>1, <1>2, <1>4, <2>3 DEF Connected
<1>7. TopicsAreHeld'
  <2>1. /\ \A k : Current(wire[k])' = Current(wire'[k])
        /\ \A n : Current(asks[n])' = Current(asks[n])
        /\ Current(conn.replaying)' = Current(conn.replaying)
        /\ \A t, n : Unleft(t, n)' <=> Unleft(t, n)
    BY <1>1 DEF Current, Unleft
  <2>2. \A k \in 1 .. Len(wire') : wire'[k].type = "ack" => \A t \in Current(wire'[k]) : Unleft(t, 1) /\ t \in conn.held
    BY <1>2, <1>3 DEF TopicsAreHeld
  <2>3. \A t \in client'.acked : Unleft(t, 1) /\ t \in conn.held /\ t \in client.topics
    <3>1. \A t \in client.acked : Unleft(t, 1) /\ t \in conn.held /\ t \in client.topics
      BY <1>2, <1>4 DEF TopicsAreHeld
    <3>2. f.type = "ack" => \A t \in Current(f) : Unleft(t, 1) /\ t \in conn.held /\ t \in client.topics
      BY <1>2, <1>3 DEF TopicsAreHeld, Current
    <3> QED BY <3>1, <3>2
  <2>4. \A i \in owed' : log[i] \in client'.acked
    BY <1>1, <1>2 DEF TopicsAreHeld
  <2>5. Reading' <=> Reading
    BY <1>1 DEF Reading
  <2>6. client'.up => \A t \in client'.acked : Unleft(t, 1)' /\ t \in conn'.held
    BY <1>1, <2>1, <2>3
  <2>7. /\ Reading' => \A t \in Current(conn.replaying)' : Unleft(t, 1)' /\ t \in conn'.held
        /\ Reading' /\ conn'.replaying.covers => conn'.replaying.topics = conn'.held
        /\ \A n \in 1 .. Len(asks') : asks'[n].type = "subscribe" => \A t \in Current(asks[n])' : Unleft(t, n + 1)'
    BY <1>1, <1>2, <2>1, <2>5 DEF TopicsAreHeld
  <2>8. \A k \in 1 .. Len(wire') : wire'[k].type = "ack" => \A t \in Current(wire[k])' : Unleft(t, 1)' /\ t \in conn'.held
    BY <1>1, <2>1, <2>2
  <2>9. client'.acked \subseteq client'.topics /\ \A i \in owed' : log'[i] \in client'.acked
    BY <1>1, <2>3, <2>4
  <2> QED BY <2>6, <2>7, <2>8, <2>9 DEF TopicsAreHeld
<1>8. NewIsUnowed'
  <2>1. ASSUME client'.cursor = 0 PROVE FALSE
    <3>1. client.cursor = 0 /\ (f.type = "ack" => ~f.covers)
      BY <2>1
    <3>2. FirstFrame(f)
      BY <1>1, <1>2, <1>4, <3>1 DEF NewIsUnowed
    <3> QED BY <3>1, <3>2 DEF FirstFrame
  <2> QED BY <2>1 DEF NewIsUnowed
<1>9. ASSUME NEW i \in Outstanding'
      PROVE  /\ i \in Outstanding /\ (OnWire(i) => OnWire(i)') /\ (Caught(i)' <=> Caught(i))
             /\ \A k \in 1 .. Len(wire') : Before(k + 1, i) => Before(k, i)'
  <2>1. i \in Outstanding /\ ~Brings(1, i)
    OBVIOUS
  <2>2. (OnWire(i) => OnWire(i)') /\ \A k \in 1 .. Len(wire') : Before(k + 1, i) => Before(k, i)'
    BY <1>1, <1>3, <2>1, WireMoves
  <2>3. Caught(i)' <=> Caught(i)
    BY <1>1 DEF Caught, Reading
  <2> QED BY <2>1, <2>2, <2>3
<1>10. WireInOrder'
  <2>1. ASSUME NEW i \in Outstanding', NEW k \in 1 .. Len(wire')
        PROVE  /\ wire'[k].type = "event" /\ i < wire'[k].id => Quiet(k)' \/ Before(k, i)'
               /\ wire'[k].type = "replay_complete" /\ wire'[k].covers /\ i <= wire'[k].cursor => Before(k, i)'
    <3>1. k + 1 \in 1 .. Len(wire) /\ wire'[k] = wire[k + 1] /\ i \in Outstanding
      BY <1>3, <1>9
    <3>2. /\ wire[k + 1].type = "event" /\ i < wire[k + 1].id => Quiet(k + 1) \/ Before(k + 1, i)
          /\ wire[k + 1].type = "replay_complete" /\ wire[k + 1].covers /\ i <= wire[k + 1].cursor => Before(k + 1, i)
      BY <3>1 DEF RealtimeInv, WireInOrder
    <3>3. Before(k + 1, i) => Before(k, i)'
      BY <1>9
    <3> QED BY <3>1, <3>2, <3>3
  <2> QED BY <2>1 DEF WireInOrder
<1>11. QueueInOrder' /\ OnItsWay'
  <2>1. QueueInOrder'
    BY <1>1, <1>9 DEF RealtimeInv, QueueInOrder
  <2> QED BY <1>1, <1>4, <1>9, <2>1 DEF RealtimeInv, OnItsWay
<1>12. DeliveredIsSent' /\ AsksBegin'
  <2>1. DeliveredIsSent'
    BY <1>1, <1>9 DEF RealtimeInv, DeliveredIsSent
  <2>2. Reading' <=> Reading
    BY <1>1 DEF Reading
  <2> QED BY <1>1, <1>9, <2>1, <2>2 DEF RealtimeInv, AsksBegin
<1> QED BY <1>5, <1>6, <1>7, <1>8, <1>10, <1>11, <1>12 DEF RealtimeInv

\* The batch a frame belongs to is the same when the frames before it have arrived.
LEMMA QuietMoves ==
    ASSUME wire \in Seq(AllFrames), wire # << >>, wire' = Tail(wire), NEW k \in 1 .. Len(wire'), Quiet(k + 1),
           \/ wire[1].type \in {"event", "reset"} /\ client'.retires = client.retires
           \/ wire[1].type = "ack" /\ client'.retires = wire[1].covers
           \/ wire[1].type = "replay_complete"
    PROVE  Quiet(k)'
<1>1. /\ Len(wire) \in Nat /\ k \in Nat /\ k >= 1 /\ k + 1 <= Len(wire) /\ Len(wire') = Len(wire) - 1
      /\ \A n \in 1 .. Len(wire') : wire'[n] = wire[n + 1]
      /\ \A n \in 2 .. Len(wire) : n - 1 \in 1 .. Len(wire') /\ wire'[n - 1] = wire[n]
  BY TailFacts
<1>2. wire'[k] = wire[k + 1] /\ wire'[k].replayed /\ (k + 1) - 1 = k /\ 1 \in 1 .. k
  BY <1>1 DEF Quiet
<1>3. wire[1].type = "replay_complete" => wire[1].type \notin {"event", "reset"} /\ wire[1].type # "ack"
  OBVIOUS
<1>4. ASSUME \A n \in 2 .. k : wire[n].type \in {"event", "reset"}
      PROVE  \A n \in 1 .. k - 1 : wire'[n].type \in {"event", "reset"}
  <2>1. \A n \in 1 .. k - 1 : n + 1 \in 2 .. k /\ n \in 1 .. Len(wire')
    BY <1>1
  <2> QED BY <1>1, <1>4, <2>1
<1>5. CASE ~client.retires /\ \A n \in 1 .. (k + 1) - 1 : wire[n].type \in {"event", "reset"}
  <2>1. wire[1].type \in {"event", "reset"} /\ \A n \in 2 .. k : wire[n].type \in {"event", "reset"}
    BY <1>1, <1>2, <1>5
  <2>2. ~client'.retires
    BY <1>3, <1>5, <2>1
  <2> QED BY <1>2, <1>4, <2>1, <2>2 DEF Quiet
<1>6. CASE \E m \in 1 .. (k + 1) - 1 : /\ wire[m].type = "ack" /\ ~wire[m].covers
                                       /\ \A n \in m + 1 .. (k + 1) - 1 : wire[n].type \in {"event", "reset"}
  <2>1. PICK m \in 1 .. k : /\ wire[m].type = "ack" /\ ~wire[m].covers
                            /\ \A n \in m + 1 .. k : wire[n].type \in {"event", "reset"}
    BY <1>2, <1>6
  <2>2. CASE m = 1
    <3>1. ~client'.retires
      BY <2>1, <2>2
    <3>2. \A n \in 2 .. k : wire[n].type \in {"event", "reset"}
      BY <2>1, <2>2
    <3> QED BY <1>2, <1>4, <3>1, <3>2 DEF Quiet
  <2>3. CASE m # 1
    <3>1. m \in 2 .. Len(wire) /\ m - 1 \in 1 .. k - 1
      BY <1>1, <2>1, <2>3
    <3>2. wire'[m - 1].type = "ack" /\ ~wire'[m - 1].covers
      BY <1>1, <2>1, <3>1
    <3>3. ASSUME NEW n \in (m - 1) + 1 .. k - 1 PROVE wire'[n].type \in {"event", "reset"}
      <4>1. n + 1 \in m + 1 .. k /\ n \in 1 .. Len(wire')
        BY <1>1, <2>1, <2>3
      <4> QED BY <1>1, <2>1, <4>1
    <3> QED BY <1>2, <3>1, <3>2, <3>3 DEF Quiet
  <2> QED BY <2>2, <2>3
<1> QED BY <1>5, <1>6 DEF Quiet

LEMMA ReceiveKeeps ==
    ASSUME RealtimeInv, receive
    PROVE  RealtimeInv'
<1>0. PICK f : f = Head(wire)
  OBVIOUS
<1>1. /\ UNCHANGED <<log, floor, announcing, conn, asks, moves, elsewhere, raced>>
      /\ wire # << >> /\ wire' = Tail(wire) /\ owed' = IF f.type = "reset" THEN {} ELSE owed
      /\ f.type = "ack" => client' = applyAck(client, f)
      /\ f.type = "replay_complete" => client' = applyReplayComplete(client, f)
      /\ f.type = "reset" => client' = applyReset(client, f)
      /\ f.type = "event" => client' = accept(client, f)
  BY <1>0 DEF receive
<1>2. RealtimeTyped /\ NobodyIsAhead /\ Connected /\ TopicsAreHeld /\ NewIsUnowed /\ WireInOrder /\ AsksBegin
  BY DEF RealtimeInv
<1>3. /\ wire \in Seq(AllFrames) /\ f = wire[1] /\ f \in AllFrames /\ 1 \in 1 .. Len(wire) /\ client.up /\ ~Opening /\ Len(wire) \in Nat
  <2>1. wire \in Seq(AllFrames)
    BY <1>2 DEF RealtimeTyped
  <2>2. Len(wire) \in Nat /\ Len(wire) >= 1 /\ f = wire[1] /\ f \in AllFrames
    BY <1>0, <1>1, <2>1, TailFacts
  <2> QED BY <1>1, <1>2, <2>1, <2>2 DEF Connected, Opening
<1>4. /\ f.type \in {"ack", "reset", "event", "replay_complete"}
      /\ f.type = "event" => f.id \in Ids /\ f.replayed \in BOOLEAN /\ f.id <= Len(log) /\ f.id \in Nat
      /\ f.type = "ack" => f.cursor \in Cursors /\ f.covers \in BOOLEAN /\ f.topics \in Topical /\ f.ref \in 0 .. MaxMoves
      /\ f.type = "reset" => f.cursor \in Ids
      /\ f.type = "replay_complete" => f.cursor \in Cursors /\ f.covers \in BOOLEAN
      /\ f.type # "event" => f.cursor <= Len(log) /\ f.cursor \in Nat /\ f.cursor \in 0 .. MaxEvents
  <2>1. /\ f.type = "event" => f.id <= Len(log)
        /\ f.type # "event" => f.cursor <= Len(log)
    BY <1>2, <1>3 DEF NobodyIsAhead
  <2>2. Ids \subseteq Nat /\ Cursors = 0 .. MaxEvents /\ Ids \subseteq Cursors /\ Cursors \subseteq Nat
    BY InvFacts DEF Ids, Cursors
  <2> QED BY <1>3, <2>1, <2>2, FrameFacts
<1>5. /\ client \in [topics: SUBSET Topics, acked: SUBSET Topics, ref: [Topics -> 0 .. MaxMoves],
                     cursor: 0 .. MaxEvents, applied: SUBSET Ids, retires: BOOLEAN, up: BOOLEAN]
      /\ client.cursor \in Nat /\ client.cursor <= Len(log)
  BY <1>2, InvFacts DEF RealtimeTyped, NobodyIsAhead
<1>6. client.cursor = 0 => f.type = "ack" /\ f.covers /\ f.cursor # 0 /\ Outstanding = {}
  <2>1. client.cursor = 0 => client.acked = {} /\ FirstFrame(f)
    BY <1>0, <1>1, <1>2, <1>3 DEF NewIsUnowed
  <2> QED BY <1>2, <2>1 DEF FirstFrame, TopicsAreHeld, Outstanding
<1>7. ASSUME NEW k \in 1 .. Len(wire'), Quiet(k + 1),
             \/ f.type \in {"event", "reset"} /\ client'.retires = client.retires
             \/ f.type = "ack" /\ client'.retires = f.covers
             \/ f.type = "replay_complete"
      PROVE  Quiet(k)'
  BY <1>1, <1>3, <1>7, QuietMoves
<1>8. \A i \in Outstanding : client.cursor < i /\ i \in Nat
  BY <1>2, InvFacts DEF AsksBegin
<1>9. CASE f.type = "ack"
  <2>1. client' = [client EXCEPT !.retires = f.covers, !.cursor = IF f.covers /\ @ = 0 THEN f.cursor ELSE @,
                                 !.acked = @ \cup Current(f)]
    BY <1>1, <1>9 DEF applyAck, Current
  <2>2. Current(f) \in SUBSET Topics
    BY <1>5 DEF Current
  <2>3. /\ client' \in [topics: SUBSET Topics, acked: SUBSET Topics, ref: [Topics -> 0 .. MaxMoves],
                        cursor: 0 .. MaxEvents, applied: SUBSET Ids, retires: BOOLEAN, up: BOOLEAN]
        /\ client'.topics = client.topics /\ client'.ref = client.ref /\ client'.up = client.up
        /\ client'.acked = client.acked \cup Current(f) /\ client'.applied = client.applied /\ client'.retires = f.covers
        /\ client'.cursor = IF f.covers /\ client.cursor = 0 THEN f.cursor ELSE client.cursor
    BY <1>4, <1>5, <1>9, <2>1, <2>2
  <2>4. client'.cursor <= Len(log) /\ client'.cursor # 0
    BY <1>4, <1>5, <1>6, <1>9, <2>3
  <2>5. Outstanding' = Outstanding
    BY <1>1, <1>9, <2>3 DEF Outstanding
  <2>6. \A i \in Outstanding' : i \in Outstanding /\ ~Brings(1, i) /\ client'.cursor < i
    BY <1>3, <1>6, <1>8, <1>9, <2>3, <2>5 DEF Brings
  <2>7. \A k \in 1 .. Len(wire') : Quiet(k + 1) => Quiet(k)'
    BY <1>7, <1>9, <2>3
  <2> QED BY <1>0, <1>9, <2>3, <2>4, <2>6, <2>7, ReceiveFacts
<1>10. CASE f.type = "replay_complete"
  <2>1. client' = [client EXCEPT !.retires = TRUE, !.cursor = IF f.covers /\ f.cursor > @ THEN f.cursor ELSE @]
    BY <1>1, <1>10 DEF applyReplayComplete
  <2>3. /\ client' \in [topics: SUBSET Topics, acked: SUBSET Topics, ref: [Topics -> 0 .. MaxMoves],
                        cursor: 0 .. MaxEvents, applied: SUBSET Ids, retires: BOOLEAN, up: BOOLEAN]
        /\ client'.topics = client.topics /\ client'.ref = client.ref /\ client'.up = client.up
        /\ client'.acked = client.acked /\ client'.applied = client.applied
        /\ client'.cursor = IF f.covers /\ f.cursor > client.cursor THEN f.cursor ELSE client.cursor
    BY <1>4, <1>5, <1>10, <2>1
  <2>4. client'.cursor <= Len(log) /\ client'.cursor # 0
    <3>1. client.cursor # 0
      BY <1>6, <1>10
    <3> QED BY <1>4, <1>5, <1>10, <2>3, <3>1
  <2>5. Outstanding' = Outstanding
    BY <1>1, <1>10, <2>3 DEF Outstanding
  <2>6. ASSUME NEW i \in Outstanding' PROVE i \in Outstanding /\ ~Brings(1, i) /\ client'.cursor < i
    <3>1. ~Before(1, i)
      BY DEF Before
    <3>2. ~(f.covers /\ i <= f.cursor)
      BY <1>2, <1>3, <1>10, <2>5, <3>1 DEF WireInOrder
    <3>3. client'.cursor < i
      BY <1>4, <1>8, <1>10, <2>3, <2>5, <3>2
    <3> QED BY <1>3, <1>10, <2>5, <3>3 DEF Brings
  <2>7. \A k \in 1 .. Len(wire') : Quiet(k + 1) => Quiet(k)'
    BY <1>7, <1>10
  <2> QED BY <1>0, <1>10, <2>3, <2>4, <2>6, <2>7, ReceiveFacts
<1>11. CASE f.type = "reset"
  <2>1. client' = [client EXCEPT !.applied = {}, !.cursor = f.cursor]
    BY <1>1, <1>11 DEF applyReset
  <2>3. /\ client' \in [topics: SUBSET Topics, acked: SUBSET Topics, ref: [Topics -> 0 .. MaxMoves],
                        cursor: 0 .. MaxEvents, applied: SUBSET Ids, retires: BOOLEAN, up: BOOLEAN]
        /\ client'.topics = client.topics /\ client'.ref = client.ref /\ client'.up = client.up
        /\ client'.acked = client.acked /\ client'.cursor = f.cursor /\ client'.retires = client.retires
    <3>1. f.cursor \in 0 .. MaxEvents
      BY <1>4, <1>11
    <3> QED BY <1>5, <2>1, <3>1
  <2>4. client'.cursor <= Len(log) /\ client'.cursor # 0
    <3>1. 0 \notin Ids
      BY DEF Ids
    <3> QED BY <1>4, <1>11, <2>3, <3>1
  <2>5. Outstanding' = {}
    BY <1>1, <1>11 DEF Outstanding
  <2> QED BY <1>0, <1>11, <2>3, <2>4, <2>5, ReceiveFacts
<1>12. CASE f.type = "event"
  <2>1. client' = IF f.id \in client.applied THEN client
                  ELSE [client EXCEPT !.applied = @ \cup {f.id},
                                      !.cursor = IF (client.retires \/ ~f.replayed) /\ f.id > @ THEN f.id ELSE @]
    BY <1>1, <1>12 DEF accept
  <2>2. f.id \in Ids /\ f.id \in 0 .. MaxEvents
    <3>1. Ids \subseteq 0 .. MaxEvents
      BY DEF Ids
    <3> QED BY <1>4, <1>12, <3>1
  <2>3. /\ client' \in [topics: SUBSET Topics, acked: SUBSET Topics, ref: [Topics -> 0 .. MaxMoves],
                        cursor: 0 .. MaxEvents, applied: SUBSET Ids, retires: BOOLEAN, up: BOOLEAN]
        /\ client'.topics = client.topics /\ client'.ref = client.ref /\ client'.up = client.up
        /\ client'.acked = client.acked /\ client'.retires = client.retires
        /\ f.id \in client'.applied /\ client.applied \subseteq client'.applied
        /\ \/ client'.cursor = client.cursor
           \/ client'.cursor = f.id /\ (client.retires \/ ~f.replayed)
    <3>1. CASE f.id \in client.applied
      BY <1>5, <2>1, <3>1
    <3>2. CASE f.id \notin client.applied
      BY <1>5, <2>1, <2>2, <3>2
    <3> QED BY <3>1, <3>2
  <2>4. client'.cursor <= Len(log) /\ client'.cursor # 0
    <3>1. client.cursor # 0
      BY <1>6, <1>12
    <3>2. f.id # 0
      BY <2>2 DEF Ids
    <3> QED BY <1>4, <1>5, <1>12, <2>3, <3>1, <3>2
  <2>5. \A i \in Outstanding' : i \in Outstanding /\ i # f.id
    BY <1>1, <1>12, <2>3 DEF Outstanding
  <2>6. ASSUME NEW i \in Outstanding' PROVE i \in Outstanding /\ ~Brings(1, i) /\ client'.cursor < i
    <3>1. ~Before(1, i)
      BY DEF Before
    <3>2. i < f.id => Quiet(1)
      BY <1>2, <1>3, <1>12, <2>5, <3>1 DEF WireInOrder
    <3>3. Quiet(1) => f.replayed /\ ~client.retires
      BY <1>3 DEF Quiet
    <3>4. client'.cursor < i
      BY <1>4, <1>8, <1>12, <2>3, <2>5, <3>2, <3>3
    <3> QED BY <1>3, <1>12, <2>5, <3>4 DEF Brings
  <2>7. \A k \in 1 .. Len(wire') : Quiet(k + 1) => Quiet(k)'
    BY <1>7, <1>12, <2>3
  <2> QED BY <1>0, <1>12, <2>3, <2>4, <2>6, <2>7, ReceiveFacts
<1> QED BY <1>4, <1>9, <1>10, <1>11, <1>12

\* A reference that the tab has just taken is one that nothing on its way carries.
LEMMA SubscribeKeeps ==
    ASSUME RealtimeInv, NEW t \in Topics, subscribe(t)
    PROVE  RealtimeInv'
<1> DEFINE a == [type |-> "subscribe", topics |-> {t}, cursor |-> client.cursor, ref |-> moves + 1]
<1>1. /\ UNCHANGED <<log, floor, announcing, conn, wire, owed, elsewhere, raced>>
      /\ moves < MaxMoves /\ moves' = moves + 1 /\ t \notin client.topics
      /\ client' = [client EXCEPT !.topics = @ \cup {t}, !.ref[t] = moves + 1]
      /\ asks' = IF client.up THEN Append(asks, a) ELSE asks
  BY DEF subscribe
<1>2. RealtimeTyped /\ NobodyIsAhead /\ Connected /\ TopicsAreHeld /\ NewIsUnowed /\ AsksBegin
  BY DEF RealtimeInv
<1>3. moves \in Nat /\ moves + 1 \in 0 .. MaxMoves /\ MaxMoves \in Nat
  BY <1>1, InvFacts
<1>4. /\ client' \in [topics: SUBSET Topics, acked: SUBSET Topics, ref: [Topics -> 0 .. MaxMoves],
                      cursor: 0 .. MaxEvents, applied: SUBSET Ids, retires: BOOLEAN, up: BOOLEAN]
      /\ client'.topics = client.topics \cup {t} /\ client'.acked = client.acked /\ client'.cursor = client.cursor
      /\ client'.applied = client.applied /\ client'.retires = client.retires /\ client'.up = client.up
      /\ \A s \in Topics : client'.ref[s] = IF s = t THEN moves + 1 ELSE client.ref[s]
      /\ client.cursor \in Cursors
  BY <1>1, <1>2, <1>3 DEF RealtimeTyped, Cursors
<1>5. a \in Asking /\ a.type = "subscribe" /\ a.cursor = client.cursor /\ a.ref = moves + 1 /\ a.topics = {t}
  BY <1>3, <1>4 DEF Asking, Topical
<1> HIDE DEF a
<1>6. /\ asks' \in Seq(Asking \cup Leaving) /\ Len(asks) \in Nat /\ Len(asks') \in Nat /\ Len(asks) <= Len(asks')
      /\ \A n \in 1 .. Len(asks) : asks'[n] = asks[n]
      /\ \A n \in 1 .. Len(asks') : n \in 1 .. Len(asks) \/ (n = Len(asks) + 1 /\ Len(asks') = Len(asks) + 1 /\ asks'[n] = a)
      /\ ~client.up => asks' = asks
      /\ asks # << >> => asks' # << >> /\ Head(asks') = Head(asks)
  <2>1. asks \in Seq(Asking \cup Leaving) /\ a \in Asking \cup Leaving
    BY <1>2, <1>5 DEF RealtimeTyped
  <2> QED BY <1>1, <2>1, AsksGrow
<1>7. Opening => Opening'
  BY <1>1, <1>4, <1>6 DEF Opening
<1>8. Reading' <=> Reading
  BY <1>1 DEF Reading
<1>9. RealtimeTyped'
  BY <1>1, <1>2, <1>3, <1>4, <1>6 DEF RealtimeTyped
<1>10. \A x \in Nat : x <= moves => x <= moves' /\ x # moves + 1
  BY <1>1, <1>3
<1>11. 0 .. MaxMoves \subseteq Nat
  BY <1>3
<1>12. NobodyIsAhead'
  <2>1. \A n \in 1 .. Len(asks') : asks'[n].type = "subscribe" => asks'[n].cursor <= Len(log) /\ asks'[n].ref <= moves'
    <3>1. \A n \in 1 .. Len(asks) : asks[n].type = "subscribe" => asks[n].cursor <= Len(log) /\ asks[n].ref <= moves'
      BY <1>2, <1>10, <1>11, InvFacts, AskFacts DEF NobodyIsAhead
    <3>2. a.cursor <= Len(log) /\ a.ref <= moves'
      BY <1>1, <1>2, <1>3, <1>5 DEF NobodyIsAhead
    <3> QED BY <1>6, <3>1, <3>2
  <2>2. \A k \in 1 .. Len(wire) : wire[k].type = "ack" => wire[k].ref <= moves'
    BY <1>2, <1>10, <1>11, InvFacts, FrameFacts DEF NobodyIsAhead
  <2>3. Reading => conn.replaying.ref <= moves'
    BY <1>2, <1>10, <1>11, ConnFacts DEF NobodyIsAhead
  <2>4. \A s \in Topics : client'.ref[s] <= moves'
    <3>1. \A s \in Topics : client.ref[s] \in Nat /\ client.ref[s] <= moves
      BY <1>2, <1>11 DEF RealtimeTyped, NobodyIsAhead
    <3> QED BY <1>1, <1>3, <1>4, <1>10, <3>1
  <2> QED BY <1>1, <1>2, <1>4, <1>8, <2>1, <2>2, <2>3, <2>4 DEF NobodyIsAhead, Committed
<1>13. Connected'
  BY <1>1, <1>2, <1>4, <1>6 DEF Connected
<1>14. ASSUME NEW s, NEW n \in Nat \ {0}, Unleft(s, n) PROVE Unleft(s, n)'
  <2>1. ASSUME NEW m \in n .. Len(asks'), asks'[m].type = "unsubscribe" PROVE s \notin asks'[m].topics
    <3>1. m \in 1 .. Len(asks') /\ (m \in 1 .. Len(asks) => m \in n .. Len(asks))
      BY <1>6
    <3>2. a.type # "unsubscribe"
      BY <1>5
    <3> QED BY <1>6, <1>14, <2>1, <3>1, <3>2 DEF Unleft
  <2> QED BY <2>1 DEF Unleft
<1>15. ASSUME NEW g, g.ref \in Nat, g.ref <= moves, g.topics \in Topical
       PROVE  {s \in g.topics \cap client'.topics : client'.ref[s] = g.ref} = Current(g)
  <2>1. g.ref # moves + 1
    BY <1>10, <1>15
  <2>2. \A s \in g.topics : s \in Topics
    BY <1>15 DEF Topical
  <2> QED BY <1>1, <1>4, <2>1, <2>2 DEF Current
<1>16. TopicsAreHeld'
  <2>1. 1 \in Nat \ {0} /\ \A n \in 1 .. Len(asks) : n + 1 \in Nat \ {0}
    OBVIOUS
  <2>2. \A k \in 1 .. Len(wire) : wire[k].type = "ack" => \A s \in Current(wire[k])' : Unleft(s, 1)' /\ s \in conn.held
    <3>1. \A k \in 1 .. Len(wire) : wire[k].type = "ack" => wire[k].ref \in Nat /\ wire[k].ref <= moves /\ wire[k].topics \in Topical
      BY <1>2, <1>11, InvFacts, FrameFacts DEF NobodyIsAhead
    <3>2. \A k \in 1 .. Len(wire) : wire[k].type = "ack" => Current(wire[k])' = Current(wire[k])
      BY <1>1, <1>15, <3>1 DEF Current
    <3> QED BY <1>2, <1>14, <2>1, <3>2 DEF TopicsAreHeld
  <2>3. Reading => \A s \in Current(conn.replaying)' : Unleft(s, 1)' /\ s \in conn.held
    <3>1. Reading => conn.replaying.ref \in Nat /\ conn.replaying.ref <= moves /\ conn.replaying.topics \in Topical
      BY <1>2, <1>11, ConnFacts DEF NobodyIsAhead
    <3>2. Reading => Current(conn.replaying)' = Current(conn.replaying)
      BY <1>1, <1>15, <3>1 DEF Current
    <3> QED BY <1>2, <1>14, <2>1, <3>2 DEF TopicsAreHeld
  <2>4. \A n \in 1 .. Len(asks') : asks'[n].type = "subscribe" => \A s \in Current(asks[n])' : Unleft(s, n + 1)'
    <3>1. \A n \in 1 .. Len(asks) : asks[n].type = "subscribe" => asks[n].ref \in Nat /\ asks[n].ref <= moves /\ asks[n].topics \in Topical
      BY <1>2, <1>11, InvFacts, AskFacts DEF NobodyIsAhead
    <3>2. \A n \in 1 .. Len(asks) : asks[n].type = "subscribe" => Current(asks[n])' = Current(asks[n])
      BY <1>6, <1>15, <3>1 DEF Current
    <3>3. ASSUME NEW n \in 1 .. Len(asks') PROVE n \in 1 .. Len(asks) \/ \A s : Unleft(s, n + 1)'
      <4>1. n \in 1 .. Len(asks) \/ n + 1 > Len(asks')
        BY <1>6
      <4>2. n + 1 > Len(asks') => \A m \in n + 1 .. Len(asks') : FALSE
        BY <1>6
      <4> QED BY <4>1, <4>2 DEF Unleft
    <3>4. \A n \in 1 .. Len(asks) : asks[n].type = "subscribe" => \A s \in Current(asks[n]) : Unleft(s, n + 1)'
      BY <1>2, <1>14, <2>1 DEF TopicsAreHeld
    <3> QED BY <1>6, <3>2, <3>3, <3>4
  <2>5. client.up => \A s \in client.acked : Unleft(s, 1)' /\ (Opening' \/ s \in conn.held)
    BY <1>2, <1>7, <1>14, <2>1 DEF TopicsAreHeld
  <2>6. client'.acked \subseteq client'.topics /\ \A i \in owed' : log'[i] \in client'.acked
    BY <1>1, <1>2, <1>4 DEF TopicsAreHeld
  <2> QED BY <1>1, <1>2, <1>4, <1>8, <2>2, <2>3, <2>4, <2>5, <2>6 DEF TopicsAreHeld
<1>17. NewIsUnowed'
  BY <1>1, <1>2, <1>4, <1>7, <1>8 DEF NewIsUnowed, FirstFrame
<1>18. /\ Outstanding' = Outstanding
       /\ \A i : OnWire(i)' <=> OnWire(i)
       /\ \A i, k : Before(k, i)' <=> Before(k, i)
       /\ \A k : Quiet(k)' <=> Quiet(k)
       /\ \A i : Caught(i)' <=> Caught(i)
  BY <1>1, <1>4, <1>8 DEF Outstanding, OnWire, Before, Quiet, Caught, Brings
<1>19. WireInOrder' /\ QueueInOrder' /\ OnItsWay' /\ DeliveredIsSent'
  <2>1. WireInOrder'
    BY <1>1, <1>18 DEF RealtimeInv, WireInOrder
  <2>2. QueueInOrder' /\ DeliveredIsSent'
    BY <1>1, <1>18 DEF RealtimeInv, QueueInOrder, DeliveredIsSent
  <2>3. OnItsWay'
    BY <1>1, <1>4, <1>7, <1>18 DEF RealtimeInv, OnItsWay
  <2> QED BY <2>1, <2>2, <2>3
<1>20. AsksBegin'
  <2>1. \A i \in Outstanding : \A n \in 1 .. Len(asks') : asks'[n].type = "subscribe" => asks'[n].cursor < i
    BY <1>2, <1>5, <1>6 DEF AsksBegin
  <2> QED BY <1>1, <1>2, <1>4, <1>8, <1>18, <2>1 DEF AsksBegin
<1> QED BY <1>9, <1>12, <1>13, <1>16, <1>17, <1>19, <1>20 DEF RealtimeInv

\* What the tab leaves it is owed no more.
LEMMA UnsubscribeKeeps ==
    ASSUME RealtimeInv, NEW t \in Topics, unsubscribe(t)
    PROVE  RealtimeInv'
<1> DEFINE a == [type |-> "unsubscribe", topics |-> {t}]
<1>1. /\ UNCHANGED <<log, floor, announcing, conn, wire, elsewhere, raced>>
      /\ moves < MaxMoves /\ moves' = moves + 1 /\ t \in client.topics
      /\ client' = [client EXCEPT !.topics = @ \ {t}, !.acked = @ \ {t}]
      /\ asks' = IF client.up THEN Append(asks, a) ELSE asks
      /\ owed' = {i \in owed : log[i] # t}
  BY DEF unsubscribe
<1>2. RealtimeTyped /\ NobodyIsAhead /\ Connected /\ TopicsAreHeld /\ NewIsUnowed /\ AsksBegin
  BY DEF RealtimeInv
<1>3. moves \in Nat /\ moves + 1 \in 0 .. MaxMoves /\ MaxMoves \in Nat
  BY <1>1, InvFacts
<1>4. /\ client' \in [topics: SUBSET Topics, acked: SUBSET Topics, ref: [Topics -> 0 .. MaxMoves],
                      cursor: 0 .. MaxEvents, applied: SUBSET Ids, retires: BOOLEAN, up: BOOLEAN]
      /\ client'.topics = client.topics \ {t} /\ client'.acked = client.acked \ {t} /\ client'.cursor = client.cursor
      /\ client'.applied = client.applied /\ client'.retires = client.retires /\ client'.up = client.up
      /\ client'.ref = client.ref
  BY <1>1, <1>2, <1>3 DEF RealtimeTyped
<1>5. a \in Leaving /\ a.type = "unsubscribe" /\ a.topics = {t}
  BY DEF Leaving, Topical
<1> HIDE DEF a
<1>6. /\ asks' \in Seq(Asking \cup Leaving) /\ Len(asks) \in Nat /\ Len(asks') \in Nat /\ Len(asks) <= Len(asks')
      /\ \A n \in 1 .. Len(asks) : asks'[n] = asks[n]
      /\ \A n \in 1 .. Len(asks') : n \in 1 .. Len(asks) \/ (n = Len(asks) + 1 /\ Len(asks') = Len(asks) + 1 /\ asks'[n] = a)
      /\ ~client.up => asks' = asks
      /\ asks # << >> => asks' # << >> /\ Head(asks') = Head(asks)
  <2>1. asks \in Seq(Asking \cup Leaving) /\ a \in Asking \cup Leaving
    BY <1>2, <1>5 DEF RealtimeTyped
  <2> QED BY <1>1, <2>1, AsksGrow
<1>7. Opening => Opening'
  BY <1>1, <1>4, <1>6 DEF Opening
<1>8. Reading' <=> Reading
  BY <1>1 DEF Reading
<1>9. RealtimeTyped'
  BY <1>1, <1>2, <1>3, <1>4, <1>6 DEF RealtimeTyped
<1>10. \A x \in Nat : x <= moves => x <= moves'
  BY <1>1, <1>3
<1>11. 0 .. MaxMoves \subseteq Nat
  BY <1>3
<1>12. NobodyIsAhead'
  <2>1. \A n \in 1 .. Len(asks') : asks'[n].type = "subscribe" => asks'[n].cursor <= Len(log) /\ asks'[n].ref <= moves'
    <3>1. \A n \in 1 .. Len(asks) : asks[n].type = "subscribe" => asks[n].cursor <= Len(log) /\ asks[n].ref <= moves'
      BY <1>2, <1>10, <1>11, InvFacts, AskFacts DEF NobodyIsAhead
    <3>2. a.type # "subscribe"
      BY <1>5
    <3> QED BY <1>6, <3>1, <3>2
  <2>2. \A k \in 1 .. Len(wire) : wire[k].type = "ack" => wire[k].ref <= moves'
    BY <1>2, <1>10, <1>11, InvFacts, FrameFacts DEF NobodyIsAhead
  <2>3. Reading => conn.replaying.ref <= moves'
    BY <1>2, <1>10, <1>11, ConnFacts DEF NobodyIsAhead
  <2>4. \A s \in Topics : client'.ref[s] <= moves'
    <3>1. \A s \in Topics : client.ref[s] \in Nat /\ client.ref[s] <= moves
      BY <1>2, <1>11 DEF RealtimeTyped, NobodyIsAhead
    <3> QED BY <1>4, <1>10, <3>1
  <2>5. owed' \subseteq Committed
    BY <1>1, InvFacts
  <2> QED BY <1>1, <1>2, <1>4, <1>8, <2>1, <2>2, <2>3, <2>4, <2>5 DEF NobodyIsAhead, Committed
<1>13. Connected'
  BY <1>1, <1>2, <1>4, <1>6 DEF Connected
<1>14. ASSUME NEW s, s # t, NEW n \in Nat \ {0}, Unleft(s, n) PROVE Unleft(s, n)'
  <2>1. ASSUME NEW m \in n .. Len(asks'), asks'[m].type = "unsubscribe" PROVE s \notin asks'[m].topics
    <3>1. m \in 1 .. Len(asks') /\ (m \in 1 .. Len(asks) => m \in n .. Len(asks))
      BY <1>6
    <3> QED BY <1>5, <1>6, <1>14, <2>1, <3>1 DEF Unleft
  <2> QED BY <2>1 DEF Unleft
<1>15. /\ \A k : Current(wire[k])' = Current(wire[k]) \ {t}
       /\ Current(conn.replaying)' = Current(conn.replaying) \ {t}
       /\ \A n \in 1 .. Len(asks) : Current(asks[n])' = Current(asks[n]) \ {t}
  BY <1>1, <1>4, <1>6 DEF Current
<1>16. TopicsAreHeld'
  <2>1. 1 \in Nat \ {0} /\ \A n \in 1 .. Len(asks) : n + 1 \in Nat \ {0}
    OBVIOUS
  <2>2. \A k \in 1 .. Len(wire) : wire[k].type = "ack" => \A s \in Current(wire[k])' : Unleft(s, 1)' /\ s \in conn.held
    BY <1>2, <1>14, <1>15, <2>1 DEF TopicsAreHeld
  <2>3. Reading => \A s \in Current(conn.replaying)' : Unleft(s, 1)' /\ s \in conn.held
    BY <1>2, <1>14, <1>15, <2>1 DEF TopicsAreHeld
  <2>4. \A n \in 1 .. Len(asks') : asks'[n].type = "subscribe" => \A s \in Current(asks[n])' : Unleft(s, n + 1)'
    <3>1. \A n \in 1 .. Len(asks) : asks[n].type = "subscribe" => \A s \in Current(asks[n]) \ {t} : Unleft(s, n + 1)'
      BY <1>2, <1>14, <2>1 DEF TopicsAreHeld
    <3>2. a.type # "subscribe"
      BY <1>5
    <3> QED BY <1>6, <1>15, <3>1, <3>2
  <2>5. client.up => \A s \in client'.acked : Unleft(s, 1)' /\ (Opening' \/ s \in conn.held)
    BY <1>2, <1>4, <1>7, <1>14, <2>1 DEF TopicsAreHeld
  <2>6. client'.acked \subseteq client'.topics /\ \A i \in owed' : log'[i] \in client'.acked
    BY <1>1, <1>2, <1>4 DEF TopicsAreHeld
  <2> QED BY <1>1, <1>2, <1>4, <1>8, <2>2, <2>3, <2>4, <2>5, <2>6 DEF TopicsAreHeld
<1>17. NewIsUnowed'
  BY <1>1, <1>2, <1>4, <1>7, <1>8 DEF NewIsUnowed, FirstFrame
<1>18. /\ Outstanding' \subseteq Outstanding
       /\ \A i : OnWire(i)' <=> OnWire(i)
       /\ \A i, k : Before(k, i)' <=> Before(k, i)
       /\ \A k : Quiet(k)' <=> Quiet(k)
       /\ \A i : Caught(i)' <=> Caught(i)
  <2>1. Outstanding' \subseteq Outstanding
    BY <1>1, <1>4 DEF Outstanding
  <2> QED BY <1>1, <1>4, <1>8, <2>1 DEF OnWire, Before, Quiet, Caught, Brings
<1>19. WireInOrder' /\ QueueInOrder' /\ OnItsWay' /\ DeliveredIsSent'
  <2>1. WireInOrder'
    BY <1>1, <1>18 DEF RealtimeInv, WireInOrder
  <2>2. QueueInOrder' /\ DeliveredIsSent'
    BY <1>1, <1>18 DEF RealtimeInv, QueueInOrder, DeliveredIsSent
  <2>3. OnItsWay'
    BY <1>1, <1>4, <1>7, <1>18 DEF RealtimeInv, OnItsWay
  <2> QED BY <2>1, <2>2, <2>3
<1>20. AsksBegin'
  <2>1. \A i \in Outstanding : \A n \in 1 .. Len(asks') : asks'[n].type = "subscribe" => asks'[n].cursor < i
    <3>1. a.type # "subscribe"
      BY <1>5
    <3> QED BY <1>2, <1>6, <3>1 DEF AsksBegin
  <2> QED BY <1>1, <1>2, <1>4, <1>8, <1>18, <2>1 DEF AsksBegin
<1> QED BY <1>9, <1>12, <1>13, <1>16, <1>17, <1>19, <1>20 DEF RealtimeInv

\* The batch is behind everything that was sent before it; whatever it was read to catch it
\* brings, or a reset does, unless the row was pruned between the two reads.
LEMMA ReplayRowsKeeps ==
    ASSUME RealtimeInv, ReplayRows
    PROVE  RealtimeInv'
<1>0. PICK r, F : r = conn.replaying /\ F = Frames(r)
  OBVIOUS
<1> DEFINE B == Batch(r)
<1>1. /\ UNCHANGED <<log, floor, announcing, asks, client, moves, owed, elsewhere>>
      /\ r.at = "bounded" /\ wire' = wire \o F
      /\ conn' = [conn EXCEPT !.delivered = covered(r), !.replaying = Live]
      /\ raced' = IF r.cursor = 0 \/ r.gap THEN raced ELSE raced \cup {i \in Committed : r.cursor < i /\ i <= floor}
  BY <1>0 DEF ReplayRows
<1>2. RealtimeTyped /\ NobodyIsAhead /\ Connected /\ TopicsAreHeld /\ NewIsUnowed /\ AsksBegin
  BY DEF RealtimeInv
<1>3. /\ r \in Bounded /\ Reading /\ r.cursor <= Len(log) /\ r.newest <= Len(log) /\ r.ref <= moves /\ client.up /\ ~Opening
      /\ r.covers \in BOOLEAN
  <2>1. r \in Bounded /\ Reading
    BY <1>0, <1>1, <1>2, ConnFacts DEF Reading
  <2>2. client.up /\ ~Opening
    BY <1>0, <1>1, <1>2 DEF Connected, NoConn, Opening, Live
  <2> QED BY <1>0, <1>1, <1>2, <2>1, <2>2, ConnFacts DEF NobodyIsAhead
<1>4. /\ Rows(r) \subseteq Committed /\ Committed \subseteq Ids /\ B \subseteq Rows(r) /\ (~Gap(r) => B = Rows(r))
      /\ \A i \in Rows(r) : r.cursor # 0 /\ r.cursor < i /\ log[i] \in r.topics
      /\ _pre_replay_cursor(r) \in Ids /\ _pre_replay_cursor(r) <= Len(log)
  BY <1>0, <1>2, <1>3, BatchFacts
<1>5. /\ F \in Seq(AllFrames) /\ Len(F) \in Nat /\ Len(F) >= 1
      /\ F[1] = [type |-> "ack", cursor |-> _pre_replay_cursor(r), covers |-> r.covers, topics |-> r.topics, ref |-> r.ref]
      /\ Gap(r) => Len(F) >= 2 /\ F[2].type = "reset"
      /\ \A k \in 2 .. Len(F) :
            /\ F[k].type # "ack"
            /\ F[k].type # "event" => F[k].cursor <= Len(log)
            /\ F[k].type = "event" =>
                  /\ F[k].replayed /\ F[k].id \in B
                  /\ \A m \in 2 .. k - 1 : F[m].type \in {"event", "reset"}
                  /\ \A i \in B : i < F[k].id => \E m \in 2 .. k - 1 : F[m].type = "event" /\ F[m].id = i
            /\ F[k].type = "replay_complete" =>
                  /\ \A i \in B : \E m \in 2 .. k - 1 : F[m].type = "event" /\ F[m].id = i
                  /\ F[k].covers => r.covers /\ ~Gap(r) /\ B # {} /\ F[k].cursor = Max(B)
      /\ \A i \in B : \E m \in 2 .. Len(F) : F[m].type = "event" /\ F[m].id = i
  <2>1. RealtimeTyped /\ r \in Bounded /\ r.cursor <= Len(log) /\ r.newest <= Len(log) /\ F = Frames(r)
    BY <1>0, <1>2, <1>3
  <2>2. Carries(F, r, B)
    BY <2>1, FramesFacts
  <2> QED BY <2>2 DEF Carries, IsOfBatch
<1> HIDE DEF B
<1>6. PICK w : w = Len(wire)
  OBVIOUS
<1>7. /\ w \in Nat /\ wire' \in Seq(AllFrames) /\ Len(wire') = w + Len(F) /\ Len(wire') \in Nat
      /\ \A n \in 1 .. w : wire'[n] = wire[n]
      /\ \A k \in 1 .. Len(F) : w + k \in 1 .. Len(wire') /\ wire'[w + k] = F[k]
      /\ \A n \in 1 .. Len(wire') : n \in 1 .. w \/ \E k \in 1 .. Len(F) : n = w + k
  <2>1. wire \in Seq(AllFrames) /\ w \in Nat
    BY <1>2, <1>6, InvFacts DEF RealtimeTyped
  <2>2. /\ wire \o F \in Seq(AllFrames) /\ Len(wire \o F) = w + Len(F)
        /\ \A n \in 1 .. w + Len(F) : (wire \o F)[n] = IF n <= w THEN wire[n] ELSE F[n - w]
    BY <1>5, <1>6, <2>1, ConcatProperties
  <2>3. \A n \in 1 .. w : n \in 1 .. w + Len(F) /\ n <= w
    BY <1>5, <2>1
  <2>4. \A k \in 1 .. Len(F) : w + k \in 1 .. w + Len(F) /\ ~(w + k <= w) /\ (w + k) - w = k
    BY <1>5, <2>1
  <2>5. ASSUME NEW n \in 1 .. w + Len(F), n \notin 1 .. w PROVE \E k \in 1 .. Len(F) : n = w + k
    <3>1. n - w \in 1 .. Len(F) /\ n = w + (n - w)
      BY <1>5, <2>1, <2>5
    <3> QED BY <3>1
  <2>6. w + Len(F) \in Nat
    BY <1>5, <2>1
  <2> QED BY <1>1, <2>1, <2>2, <2>3, <2>4, <2>5, <2>6
<1>8. covered(r) \in [Topics -> SUBSET Ids] /\ \A t \in Topics : covered(r)[t] \subseteq conn.delivered[t] \cup B
  <2>1. conn.delivered \in [Topics -> SUBSET Ids] /\ B \subseteq Ids
    BY <1>2, <1>4, ConnFacts
  <2>2. \A t \in Topics : covered(r)[t] \subseteq conn.delivered[t] \cup B
    BY DEF covered, B
  <2>3. covered(r) = [t \in Topics |-> covered(r)[t]]
    BY DEF covered
  <2> QED BY <2>1, <2>2, <2>3
<1>9. /\ conn' \in Conns /\ conn'.held = conn.held /\ conn'.delivered = covered(r) /\ conn'.queue = conn.queue
      /\ conn'.replaying = Live
  <2>1. conn \in Conns
    BY <1>2 DEF RealtimeTyped
  <2> QED BY <1>1, <1>8, <2>1 DEF Conns
<1>10. ~Reading' /\ ~Opening'
  <2>1. Len(wire') # 0
    BY <1>5, <1>7
  <2>2. wire' # << >>
    BY <2>1
  <2> QED BY <1>9, <2>2 DEF Reading, Live, Opening
<1>11. RealtimeTyped' /\ Connected'
  <2>1. raced' \subseteq Ids
    BY <1>1, <1>2, <1>4 DEF RealtimeTyped
  <2>2. Live.at # "closed"
    BY DEF Live
  <2> QED BY <1>1, <1>2, <1>3, <1>7, <1>9, <2>1, <2>2 DEF RealtimeTyped, Connected
<1>12. /\ F[1].type = "ack" /\ F[1].cursor = _pre_replay_cursor(r) /\ F[1].covers = r.covers
       /\ F[1].topics = r.topics /\ F[1].ref = r.ref /\ 1 \in 1 .. Len(F)
       /\ \A k \in 1 .. Len(F) : k = 1 \/ k \in 2 .. Len(F)
  BY <1>5
<1>13. NobodyIsAhead'
  <2>1. \A k \in 1 .. Len(wire') :
          /\ wire'[k].type = "event" => wire'[k].id <= Len(log)
          /\ wire'[k].type # "event" => wire'[k].cursor <= Len(log)
          /\ wire'[k].type = "ack" => wire'[k].ref <= moves
    <3>1. ASSUME NEW k \in 1 .. Len(F)
          PROVE  /\ F[k].type = "event" => F[k].id <= Len(log)
                 /\ F[k].type # "event" => F[k].cursor <= Len(log)
                 /\ F[k].type = "ack" => F[k].ref <= moves
      <4>1. CASE k = 1
        BY <1>3, <1>4, <1>12, <4>1
      <4>2. CASE k \in 2 .. Len(F)
        <5>1. \A i \in Committed : i <= Len(log)
          BY DEF Committed
        <5> QED BY <1>4, <1>5, <4>2, <5>1
      <4> QED BY <1>12, <4>1, <4>2
    <3>2. \A k \in 1 .. w :
            /\ wire[k].type = "event" => wire[k].id <= Len(log)
            /\ wire[k].type # "event" => wire[k].cursor <= Len(log)
            /\ wire[k].type = "ack" => wire[k].ref <= moves
      BY <1>2, <1>6 DEF NobodyIsAhead
    <3>3. ASSUME NEW n \in 1 .. Len(wire')
          PROVE  (\E k \in 1 .. w : wire'[n] = wire[k]) \/ \E k \in 1 .. Len(F) : wire'[n] = F[k]
      BY <1>7
    <3> QED BY <3>1, <3>2, <3>3
  <2>2. \A t \in Topics : conn'.delivered[t] \subseteq Committed
    BY <1>2, <1>4, <1>8, <1>9 DEF NobodyIsAhead
  <2>3. conn'.replaying.at # "bounded"
    BY <1>9 DEF Live
  <2> QED BY <1>1, <1>2, <1>9, <1>10, <2>1, <2>2, <2>3 DEF NobodyIsAhead, Committed
<1>14. TopicsAreHeld'
  <2>1. \A k \in 1 .. Len(wire') : wire'[k].type = "ack" => \A t \in Current(wire'[k]) : Unleft(t, 1) /\ t \in conn.held
    <3>1. \A t \in Current(F[1]) : Unleft(t, 1) /\ t \in conn.held
      <4>1. Current(F[1]) = Current(r)
        BY <1>12 DEF Current
      <4> QED BY <1>0, <1>2, <1>3, <4>1 DEF TopicsAreHeld
    <3>2. \A k \in 2 .. Len(F) : F[k].type # "ack"
      BY <1>5
    <3>3. \A k \in 1 .. w : wire[k].type = "ack" => \A t \in Current(wire[k]) : Unleft(t, 1) /\ t \in conn.held
      BY <1>2, <1>6 DEF TopicsAreHeld
    <3>4. ASSUME NEW n \in 1 .. Len(wire')
          PROVE  (\E k \in 1 .. w : wire'[n] = wire[k]) \/ wire'[n] = F[1] \/ \E k \in 2 .. Len(F) : wire'[n] = F[k]
      <4>1. (\E k \in 1 .. w : wire'[n] = wire[k]) \/ \E k \in 1 .. Len(F) : wire'[n] = F[k]
        BY <1>7
      <4> QED BY <1>12, <4>1
    <3> QED BY <3>1, <3>2, <3>3, <3>4
  <2>2. /\ \A k : Current(wire[k])' = Current(wire'[k])
        /\ \A n : Current(asks[n])' = Current(asks[n])
        /\ \A t, n : Unleft(t, n)' <=> Unleft(t, n)
    BY <1>1 DEF Current, Unleft
  <2>3. client.up => \A t \in client.acked : Unleft(t, 1) /\ t \in conn.held
    BY <1>2, <1>3 DEF TopicsAreHeld
  <2> QED BY <1>1, <1>2, <1>9, <1>10, <2>1, <2>2, <2>3 DEF TopicsAreHeld
<1>15. NewIsUnowed'
  <2>1. ASSUME client.cursor = 0 PROVE client.acked = {} /\ wire' # << >> /\ FirstFrame(Head(wire'))
    <3>1. client.acked = {} /\ ((r.covers /\ wire = << >>) \/ (wire # << >> /\ FirstFrame(Head(wire))))
      BY <1>0, <1>2, <1>3, <2>1 DEF NewIsUnowed
    <3>2. wire' # << >> /\ Head(wire') = wire'[1]
      <4>1. Len(wire') # 0
        BY <1>5, <1>7
      <4>2. wire' # << >>
        BY <4>1
      <4> QED BY <1>7, <4>2, HeadTailProperties
    <3>3. CASE r.covers /\ wire = << >>
      <4>1. w = 0 /\ w + 1 = 1
        BY <1>6, <3>3
      <4>2. wire'[1] = F[1]
        BY <1>7, <1>12, <4>1
      <4>3. _pre_replay_cursor(r) # 0
        BY <1>4 DEF Ids
      <4> QED BY <1>12, <3>1, <3>2, <3>3, <4>2, <4>3 DEF FirstFrame
    <3>4. CASE wire # << >> /\ FirstFrame(Head(wire))
      <4>1. wire \in Seq(AllFrames) /\ w <= Len(wire')
        BY <1>2, <1>5, <1>7 DEF RealtimeTyped
      <4>2. Head(wire') = Head(wire)
        BY <1>6, <1>7, <3>4, <4>1, HeadStays
      <4> QED BY <3>1, <3>2, <3>4, <4>2
    <3> QED BY <3>1, <3>3, <3>4
  <2> QED BY <1>1, <1>10, <2>1 DEF NewIsUnowed, FirstFrame
<1>16. Outstanding' \subseteq Outstanding /\ \A i \in Outstanding' : i \in Outstanding /\ i \notin raced'
  BY <1>1 DEF Outstanding
<1>17. ASSUME NEW i \in Outstanding', r.covers, r.cursor # 0 PROVE i \in B \/ Gap(r)
  <2>1. i \in Outstanding /\ i \notin raced' /\ i \in owed /\ i \in Committed
    BY <1>16, InvFacts
  <2>2. log[i] \in r.topics
    BY <1>0, <1>2, <1>3, <1>17, <2>1 DEF TopicsAreHeld
  <2>3. r.cursor < i
    BY <1>0, <1>2, <1>3, <2>1 DEF AsksBegin
  <2>4. CASE r.gap
    BY <2>4 DEF Gap
  <2>5. CASE ~r.gap
    <3>1. ~(i <= floor)
      BY <1>1, <1>17, <2>1, <2>3, <2>5
    <3>2. i > floor
      <4>1. i \in Nat /\ floor \in Int
        BY <1>2, <2>1, InvFacts DEF RealtimeTyped
      <4> QED BY <3>1, <4>1
    <3>3. i > r.cursor
      BY <2>3
    <3>4. i \in Rows(r)
      BY <1>17, <2>1, <2>2, <3>2, <3>3 DEF Rows
    <3> QED BY <1>4, <3>4
  <2> QED BY <2>4, <2>5
<1>18. /\ \A i : OnWire(i) => OnWire(i)'
       /\ \A i : \A k \in 1 .. w : Before(k, i) <=> Before(k, i)'
       /\ \A k \in 1 .. w : Quiet(k) <=> Quiet(k)'
  <2>1. w <= Len(wire') /\ client'.retires = client.retires
    BY <1>1, <1>5, <1>7
  <2>2. \A k \in 1 .. w : k \in 1 .. w + 1
    BY <1>7
  <2>3. /\ \A i : OnWire(i) => OnWire(i)'
        /\ \A i : \A k \in 1 .. w + 1 : Before(k, i) <=> Before(k, i)'
        /\ \A k \in 1 .. w : Quiet(k) <=> Quiet(k)'
    BY <1>6, <1>7, <2>1, WireGrows
  <2> QED BY <2>2, <2>3
<1>19. ASSUME NEW i, NEW m \in 1 .. Len(F), F[m].type = "reset" \/ (F[m].type = "event" /\ F[m].id = i)
       PROVE  OnWire(i)' /\ \A k \in m + 1 .. Len(F) : Before(w + k, i)'
  <2>1. Brings(w + m, i)' /\ w + m \in 1 .. Len(wire')
    <3>1. wire'[w + m] = F[m] /\ w + m \in 1 .. Len(wire')
      BY <1>7
    <3> QED BY <1>19, <3>1 DEF Brings
  <2>2. \A k \in m + 1 .. Len(F) : w + m \in 1 .. (w + k) - 1
    BY <1>5, <1>7
  <2> QED BY <2>1, <2>2 DEF OnWire, Before
<1>20. \A i \in B : OnWire(i)'
  <2>1. ASSUME NEW i \in B PROVE OnWire(i)'
    <3>1. PICK m \in 2 .. Len(F) : F[m].type = "event" /\ F[m].id = i
      BY <1>5
    <3>2. m \in 1 .. Len(F)
      BY <1>5
    <3> QED BY <1>19, <3>1, <3>2
  <2> QED BY <2>1
<1>21. Gap(r) => 2 \in 1 .. Len(F) /\ F[2].type = "reset"
  BY <1>5
<1>22. \A i \in Outstanding' : Caught(i) => OnWire(i)'
  <2>1. ASSUME NEW i \in Outstanding', Caught(i) PROVE OnWire(i)'
    <3>1. r.covers /\ r.cursor # 0
      BY <1>0, <2>1 DEF Caught
    <3>2. i \in B \/ Gap(r)
      BY <1>17, <3>1
    <3> QED BY <1>19, <1>20, <1>21, <3>2
  <2> QED BY <2>1
<1>23. WireInOrder'
  <2>1. ASSUME NEW i \in Outstanding', NEW k \in 1 .. w
        PROVE  /\ wire'[k].type = "event" /\ i < wire'[k].id => Quiet(k)' \/ Before(k, i)'
               /\ wire'[k].type = "replay_complete" /\ wire'[k].covers /\ i <= wire'[k].cursor => Before(k, i)'
    BY <1>6, <1>7, <1>16, <1>18 DEF RealtimeInv, WireInOrder
  <2>2. ASSUME NEW i \in Outstanding', NEW k \in 2 .. Len(F), F[k].type = "event", i < F[k].id
        PROVE  Quiet(w + k)' \/ Before(w + k, i)'
    <3>1. /\ F[k].replayed /\ F[k].id \in B /\ k \in 1 .. Len(F)
          /\ \A m \in 2 .. k - 1 : F[m].type \in {"event", "reset"}
          /\ \A j \in B : j < F[k].id => \E m \in 2 .. k - 1 : F[m].type = "event" /\ F[m].id = j
      BY <1>5, <2>2
    <3>2. CASE r.covers
      <4>1. r.cursor # 0
        BY <1>4, <3>1
      <4>2. CASE i \in B
        <5>1. PICK m \in 2 .. k - 1 : F[m].type = "event" /\ F[m].id = i
          BY <2>2, <3>1, <4>2
        <5>2. m \in 1 .. Len(F) /\ k \in m + 1 .. Len(F)
          BY <1>5
        <5> QED BY <1>19, <5>1, <5>2
      <4>3. CASE Gap(r)
        <5>1. k # 2 /\ k \in 2 + 1 .. Len(F)
          <6>1. k # 2
            BY <1>21, <2>2, <4>3
          <6> QED BY <1>5, <6>1
        <5> QED BY <1>19, <1>21, <4>3, <5>1
      <4> QED BY <1>17, <3>2, <4>1, <4>2, <4>3
    <3>3. CASE ~r.covers
      <4>1. w + 1 \in 1 .. (w + k) - 1 /\ wire'[w + 1].type = "ack" /\ ~wire'[w + 1].covers
        <5>1. w + 1 \in 1 .. (w + k) - 1
          BY <1>5, <1>7
        <5> QED BY <1>7, <1>12, <3>3, <5>1
      <4>2. ASSUME NEW n \in (w + 1) + 1 .. (w + k) - 1 PROVE wire'[n].type \in {"event", "reset"}
        <5>1. n - w \in 2 .. k - 1 /\ n - w \in 1 .. Len(F) /\ w + (n - w) = n
          BY <1>5, <1>7
        <5> QED BY <1>7, <3>1, <5>1
      <4>3. wire'[w + k].replayed
        BY <1>7, <3>1
      <4> QED BY <4>1, <4>2, <4>3 DEF Quiet
    <3> QED BY <3>2, <3>3
  <2>3. ASSUME NEW i \in Outstanding', NEW k \in 2 .. Len(F), F[k].type = "replay_complete", F[k].covers
        PROVE  Before(w + k, i)'
    <3>1. /\ r.covers /\ ~Gap(r) /\ B # {}
          /\ \A j \in B : \E m \in 2 .. k - 1 : F[m].type = "event" /\ F[m].id = j
      BY <1>5, <2>3
    <3>2. i \in B
      BY <1>4, <1>17, <3>1
    <3>3. PICK m \in 2 .. k - 1 : F[m].type = "event" /\ F[m].id = i
      BY <3>1, <3>2
    <3>4. m \in 1 .. Len(F) /\ k \in m + 1 .. Len(F)
      BY <1>5
    <3> QED BY <1>19, <3>3, <3>4
  <2>4. ASSUME NEW i \in Outstanding', NEW k \in 1 .. Len(F), NEW n, n = w + k
        PROVE  /\ wire'[n].type = "event" /\ i < wire'[n].id => Quiet(n)' \/ Before(n, i)'
               /\ wire'[n].type = "replay_complete" /\ wire'[n].covers /\ i <= wire'[n].cursor => Before(n, i)'
    <3>1. wire'[n] = F[k]
      BY <1>7, <2>4
    <3>2. k = 1 => F[k].type = "ack"
      BY <1>12
    <3> QED BY <1>12, <2>2, <2>3, <2>4, <3>1, <3>2
  <2> QED BY <1>7, <2>1, <2>4 DEF WireInOrder
<1>24. QueueInOrder' /\ OnItsWay'
  <2>1. QueueInOrder'
    BY <1>9, <1>16, <1>18, <1>22 DEF RealtimeInv, QueueInOrder
  <2>2. OnItsWay'
    BY <1>1, <1>3, <1>9, <1>16, <1>18, <1>22 DEF RealtimeInv, OnItsWay
  <2> QED BY <2>1, <2>2
<1>25. DeliveredIsSent' /\ AsksBegin'
  <2>1. DeliveredIsSent'
    BY <1>8, <1>9, <1>16, <1>18, <1>20 DEF RealtimeInv, DeliveredIsSent
  <2> QED BY <1>1, <1>2, <1>10, <1>16, <2>1 DEF AsksBegin
<1> QED BY <1>11, <1>13, <1>14, <1>15, <1>23, <1>24, <1>25 DEF RealtimeInv

LEMMA NoConnIsTyped ==
    /\ NoConn \in Conns /\ [NoConn EXCEPT !.replaying = Live] \in Conns
    /\ \A c \in {NoConn, [NoConn EXCEPT !.replaying = Live]} :
          /\ c.held = {} /\ c.queue = << >> /\ \A t \in Topics : c.delivered[t] = {}
          /\ c.replaying = IF c = NoConn THEN [at |-> "closed"] ELSE Live
    /\ NoConn.replaying.at = "closed" /\ Live.at = "live"
<1>1. << >> \in Seq(Ids)
  BY EmptySeq
<1>2. NoConn \in Conns
  BY <1>1 DEF NoConn, Conns, Topical
<1>3. /\ NoConn.held = {} /\ NoConn.queue = << >> /\ (\A t \in Topics : NoConn.delivered[t] = {})
      /\ NoConn.replaying = [at |-> "closed"] /\ NoConn.replaying.at = "closed" /\ Live.at = "live"
  BY DEF NoConn, Live
<1>4. /\ [NoConn EXCEPT !.replaying = Live] \in Conns /\ [NoConn EXCEPT !.replaying = Live].replaying = Live
      /\ [NoConn EXCEPT !.replaying = Live].held = NoConn.held
      /\ [NoConn EXCEPT !.replaying = Live].queue = NoConn.queue
      /\ [NoConn EXCEPT !.replaying = Live].delivered = NoConn.delivered
  <2>1. Live \in {[at |-> "closed"], Live} \cup Asked \cup Bounded
    OBVIOUS
  <2> HIDE DEF NoConn, Live
  <2> QED BY <1>2, <2>1 DEF Conns
<1>5. [NoConn EXCEPT !.replaying = Live] # NoConn
  BY <1>3, <1>4
<1> QED BY <1>2, <1>3, <1>4, <1>5

\* A new connection begins with the cursor of the tab and all its topics.
LEMMA ConnectKeeps ==
    ASSUME RealtimeInv, connect
    PROVE  RealtimeInv'
<1> DEFINE a == [type |-> "subscribe", topics |-> client.topics, cursor |-> client.cursor, ref |-> moves]
<1>1. /\ UNCHANGED <<log, floor, announcing, wire, moves, owed, elsewhere, raced>>
      /\ ~client.up /\ conn' = [NoConn EXCEPT !.replaying = Live]
      /\ client' = [client EXCEPT !.up = TRUE, !.ref = [t \in Topics |-> moves]]
      /\ asks' = <<a>>
  BY DEF connect
<1>2. RealtimeTyped /\ NobodyIsAhead /\ Connected /\ TopicsAreHeld /\ NewIsUnowed /\ AsksBegin
  BY DEF RealtimeInv
<1>3. wire = << >> /\ Len(wire) = 0
  BY <1>1, <1>2 DEF Connected
<1>4. /\ client' \in [topics: SUBSET Topics, acked: SUBSET Topics, ref: [Topics -> 0 .. MaxMoves],
                      cursor: 0 .. MaxEvents, applied: SUBSET Ids, retires: BOOLEAN, up: BOOLEAN]
      /\ client'.topics = client.topics /\ client'.acked = client.acked /\ client'.cursor = client.cursor
      /\ client'.applied = client.applied /\ client'.retires = client.retires /\ client'.up
      /\ client'.ref = [t \in Topics |-> moves]
      /\ client.cursor \in Cursors /\ client.topics \in Topical /\ moves \in 0 .. MaxMoves
  BY <1>1, <1>2 DEF RealtimeTyped, Cursors, Topical
<1>5. a \in Asking /\ a.type = "subscribe" /\ a.cursor = client.cursor /\ a.ref = moves /\ a.topics = client.topics
  BY <1>4 DEF Asking
<1> HIDE DEF a
<1>6. asks' \in Seq(Asking \cup Leaving) /\ Len(asks') = 1 /\ asks'[1] = a /\ Head(asks') = a /\ asks' # << >>
  BY <1>1, <1>5
<1>7. /\ conn' \in Conns /\ conn'.held = {} /\ conn'.queue = << >> /\ (\A t \in Topics : conn'.delivered[t] = {})
      /\ conn'.replaying = Live /\ conn'.replaying.at = "live"
  <2>1. conn' \in {NoConn, [NoConn EXCEPT !.replaying = Live]} /\ conn' # NoConn
    BY <1>1 DEF NoConn, Live
  <2> QED BY <1>1, <2>1, NoConnIsTyped
<1>8. ~Reading' /\ Len(conn'.queue) = 0
  BY <1>7 DEF Reading
<1>9. RealtimeTyped' /\ Connected'
  BY <1>1, <1>2, <1>4, <1>6, <1>7 DEF RealtimeTyped, Connected
<1>10. NobodyIsAhead'
  <2>1. \A n \in 1 .. Len(asks') : asks'[n].type = "subscribe" => asks'[n].cursor <= Len(log) /\ asks'[n].ref <= moves
    <3>1. moves <= moves /\ client.cursor <= Len(log)
      BY <1>2, InvFacts DEF NobodyIsAhead
    <3>2. \A n \in 1 .. Len(asks') : n = 1
      BY <1>6
    <3> QED BY <1>5, <1>6, <3>1, <3>2
  <2>2. \A t \in Topics : client'.ref[t] <= moves
    <3>1. moves <= moves
      BY InvFacts
    <3> QED BY <1>4, <3>1
  <2>3. \A q \in 1 .. Len(conn'.queue) : FALSE
    BY <1>8
  <2>4. conn'.replaying.at # "bounded"
    BY <1>7
  <2> QED BY <1>1, <1>2, <1>4, <1>7, <1>8, <2>1, <2>2, <2>3, <2>4 DEF NobodyIsAhead, Committed
<1>11. Opening'
  BY <1>1, <1>2, <1>3, <1>4, <1>5, <1>6, <1>7 DEF Opening, TopicsAreHeld
<1>12. TopicsAreHeld'
  <2>1. \A n \in Nat : n >= 1 => \A t : Unleft(t, n)'
    <3>1. ASSUME NEW n \in Nat, n >= 1, NEW t PROVE Unleft(t, n)'
      <4>1. \A m \in n .. Len(asks') : m = 1
        BY <1>6, <3>1
      <4> QED BY <1>5, <1>6, <4>1 DEF Unleft
    <3> QED BY <3>1
  <2>2. \A n \in 1 .. Len(asks') : n + 1 \in Nat /\ n + 1 >= 1
    OBVIOUS
  <2>3. \A k \in 1 .. Len(wire') : FALSE
    BY <1>1, <1>3
  <2> QED BY <1>1, <1>2, <1>4, <1>8, <1>11, <2>1, <2>2, <2>3 DEF TopicsAreHeld
<1>13. NewIsUnowed'
  BY <1>2, <1>4, <1>11 DEF NewIsUnowed
<1>14. Outstanding' = Outstanding
  BY <1>1, <1>4 DEF Outstanding
<1>15. WireInOrder' /\ QueueInOrder' /\ OnItsWay' /\ DeliveredIsSent'
  <2>1. WireInOrder'
    <3>1. \A k \in 1 .. Len(wire') : FALSE
      BY <1>1, <1>3
    <3> QED BY <3>1 DEF WireInOrder
  <2>2. QueueInOrder'
    <3>1. \A q \in 1 .. Len(conn'.queue) : FALSE
      BY <1>8
    <3> QED BY <3>1 DEF QueueInOrder
  <2> QED BY <1>7, <1>11, <2>1, <2>2 DEF OnItsWay, DeliveredIsSent
<1>16. AsksBegin'
  <2>1. \A n \in 1 .. Len(asks') : asks'[n] = a
    <3>1. \A n \in 1 .. Len(asks') : n = 1
      BY <1>6
    <3> QED BY <1>6, <3>1
  <2> QED BY <1>2, <1>4, <1>5, <1>8, <1>14, <2>1 DEF AsksBegin
<1> QED BY <1>9, <1>10, <1>12, <1>13, <1>15, <1>16 DEF RealtimeInv

\* A lost connection takes along what was on its way.
LEMMA DropKeeps ==
    ASSUME RealtimeInv, Drop
    PROVE  RealtimeInv'
<1>1. /\ UNCHANGED <<log, floor, announcing, owed, elsewhere, raced>>
      /\ client.up /\ moves < MaxMoves /\ moves' = moves + 1
      /\ client' = [client EXCEPT !.up = FALSE]
      /\ conn' = NoConn /\ asks' = << >> /\ wire' = << >>
  BY DEF Drop
<1>2. RealtimeTyped /\ NobodyIsAhead /\ TopicsAreHeld /\ NewIsUnowed /\ AsksBegin
  BY DEF RealtimeInv
<1>3. /\ client' \in [topics: SUBSET Topics, acked: SUBSET Topics, ref: [Topics -> 0 .. MaxMoves],
                      cursor: 0 .. MaxEvents, applied: SUBSET Ids, retires: BOOLEAN, up: BOOLEAN]
      /\ client'.topics = client.topics /\ client'.acked = client.acked /\ client'.cursor = client.cursor
      /\ client'.applied = client.applied /\ client'.retires = client.retires /\ ~client'.up
      /\ client'.ref = client.ref
  BY <1>1, <1>2 DEF RealtimeTyped
<1>4. /\ conn' \in Conns /\ conn'.held = {} /\ conn'.queue = << >> /\ (\A t \in Topics : conn'.delivered[t] = {})
      /\ conn'.replaying.at = "closed"
  BY <1>1, NoConnIsTyped
<1>5. moves \in Nat /\ moves' \in 0 .. MaxMoves /\ MaxMoves \in Nat /\ \A x \in Nat : x <= moves => x <= moves'
  BY <1>1, InvFacts
<1>6. Len(asks') = 0 /\ Len(wire') = 0 /\ Len(conn'.queue) = 0 /\ (\A n \in 1 .. 0 : FALSE) /\ ~Reading' /\ ~Opening'
  BY <1>1, <1>3, <1>4 DEF Reading, Opening
<1>7. RealtimeTyped' /\ Connected'
  <2>1. << >> \in Seq(Asking \cup Leaving) /\ << >> \in Seq(AllFrames)
    BY EmptySeq
  <2> QED BY <1>1, <1>2, <1>3, <1>4, <1>5, <2>1 DEF RealtimeTyped, Connected
<1>8. NobodyIsAhead'
  <2>1. \A t \in Topics : client'.ref[t] <= moves'
    <3>1. \A t \in Topics : client.ref[t] \in Nat /\ client.ref[t] <= moves
      BY <1>2, <1>5 DEF RealtimeTyped, NobodyIsAhead
    <3> QED BY <1>3, <1>5, <3>1
  <2> QED BY <1>1, <1>2, <1>3, <1>4, <1>6, <2>1 DEF NobodyIsAhead, Committed
<1>9. TopicsAreHeld' /\ NewIsUnowed'
  BY <1>1, <1>2, <1>3, <1>6 DEF TopicsAreHeld, NewIsUnowed
<1>10. Outstanding' = Outstanding
  BY <1>1, <1>3 DEF Outstanding
<1>11. WireInOrder' /\ QueueInOrder' /\ OnItsWay' /\ DeliveredIsSent'
  BY <1>3, <1>4, <1>6 DEF WireInOrder, QueueInOrder, OnItsWay, DeliveredIsSent
<1>12. AsksBegin'
  BY <1>2, <1>3, <1>6, <1>10 DEF AsksBegin
<1> QED BY <1>7, <1>8, <1>9, <1>11, <1>12 DEF RealtimeInv

LEMMA RealtimeSteps ==
    ASSUME RealtimeInv, [RealtimeNext]_realtimeVars
    PROVE  RealtimeInv'
<1>1. CASE \E t \in Topics : record_event(t) \/ PublishElsewhere(t)
  <2>1. PICK t \in Topics : record_event(t) \/ PublishElsewhere(t)
    BY <1>1
  <2>2. CASE record_event(t)
    BY <2>2, CommitKeeps DEF record_event
  <2>3. CASE PublishElsewhere(t)
    BY <2>3, CommitKeeps DEF PublishElsewhere
  <2> QED BY <2>1, <2>2, <2>3
<1>2. CASE \E t \in Topics : subscribe(t) \/ unsubscribe(t)
  BY <1>2, SubscribeKeeps, UnsubscribeKeeps
<1>3. CASE deliver \/ prune \/ Serve \/ send_live
  BY <1>3, DeliverKeeps, PruneKeeps, HandleSubscribeKeeps, ReplayBoundsKeeps, ReplayRowsKeeps,
     HandleUnsubscribeKeeps, SendLiveKeeps DEF Serve
<1>4. CASE receive \/ connect \/ Drop
  BY <1>4, ReceiveKeeps, ConnectKeeps, DropKeeps
<1>5. CASE UNCHANGED realtimeVars
  <2>1. UNCHANGED <<log, floor, announcing, conn, asks, wire, client, moves, owed, elsewhere, raced>>
    BY <1>5 DEF realtimeVars
  <2>2. floor' \in 0 .. Len(log)
    BY <1>5 DEF realtimeVars, RealtimeInv, RealtimeTyped
  <2> QED BY <2>1, <2>2, LogIsTrimmed
<1> QED BY <1>1, <1>2, <1>3, <1>4, <1>5 DEF RealtimeNext

LEMMA RealtimeBegins == RealtimeInit => RealtimeInv
<1> SUFFICES ASSUME RealtimeInit PROVE RealtimeInv
  OBVIOUS
<1>1. PICK t \in Topics : log = <<t>>
  BY RealtimeAssumption DEF RealtimeInit
<1>2. log \in Seq(Topics) /\ Len(log) = 1 /\ log # << >>
  BY <1>1
<1>3. /\ floor = 0 /\ announcing = 0 /\ moves = 0 /\ conn = NoConn /\ asks = << >> /\ wire = << >>
      /\ client = [topics |-> {}, acked |-> {}, ref |-> [s \in Topics |-> 0], cursor |-> 0, applied |-> {},
                   retires |-> TRUE, up |-> FALSE]
      /\ owed = {} /\ elsewhere = {} /\ raced = {}
  BY DEF RealtimeInit
<1>4. /\ conn \in Conns /\ conn.held = {} /\ conn.queue = << >> /\ (\A s \in Topics : conn.delivered[s] = {})
      /\ conn.replaying.at = "closed"
  BY <1>3, NoConnIsTyped
<1>5. MaxEvents \in Nat /\ 1 <= MaxEvents /\ MaxMoves \in Nat
  BY RealtimeAssumption
<1>6. Len(asks) = 0 /\ Len(wire) = 0 /\ Len(conn.queue) = 0 /\ (\A n \in 1 .. 0 : FALSE) /\ ~Reading /\ ~Opening /\ Outstanding = {}
  BY <1>3, <1>4 DEF Reading, Opening, Outstanding
<1>7. RealtimeTyped
  <2>1. asks \in Seq(Asking \cup Leaving) /\ wire \in Seq(AllFrames)
    BY <1>3, EmptySeq
  <2>2. floor \in 0 .. Len(log) /\ announcing \in 0 .. Len(log) /\ moves \in 0 .. MaxMoves /\ Len(log) <= MaxEvents
    BY <1>2, <1>3, <1>5
  <2>3. client \in [topics: SUBSET Topics, acked: SUBSET Topics, ref: [Topics -> 0 .. MaxMoves],
                    cursor: 0 .. MaxEvents, applied: SUBSET Ids, retires: BOOLEAN, up: BOOLEAN]
    BY <1>3, <1>5
  <2> QED BY <1>2, <1>3, <1>4, <2>1, <2>2, <2>3 DEF RealtimeTyped
<1>8. NobodyIsAhead
  BY <1>2, <1>3, <1>4, <1>6 DEF NobodyIsAhead
<1>9. Connected /\ TopicsAreHeld /\ NewIsUnowed
  BY <1>3, <1>6 DEF Connected, TopicsAreHeld, NewIsUnowed
<1>10. WireInOrder /\ QueueInOrder /\ OnItsWay /\ DeliveredIsSent /\ AsksBegin
  BY <1>6 DEF WireInOrder, QueueInOrder, OnItsWay, DeliveredIsSent, AsksBegin
<1> QED BY <1>7, <1>8, <1>9, <1>10 DEF RealtimeInv

LEMMA RealtimeFollows ==
    ASSUME RealtimeInv
    PROVE  CursorIsSafe
<1>1. RealtimeTyped /\ AsksBegin
  BY DEF RealtimeInv
<1>2. RealtimeTypeOK
  <2>1. floor \in 0 .. MaxEvents /\ announcing \in 0 .. MaxEvents
    <3>1. floor \in 0 .. Len(log) /\ announcing \in 0 .. Len(log)
      BY <1>1 DEF RealtimeTyped
    <3> QED BY <3>1, InvFacts
  <2>2. \A k \in DOMAIN wire : wire[k].type \in {"ack", "reset", "event", "replay_complete"}
    <3>1. DOMAIN wire = 1 .. Len(wire)
      BY <1>1, LenProperties DEF RealtimeTyped
    <3> QED BY <3>1, InvFacts, FrameFacts
  <2>3. /\ conn.held \subseteq Topics /\ conn.queue \in Seq(Ids) /\ conn.delivered \in [Topics -> SUBSET Ids]
        /\ conn.replaying.at \in {"closed", "live", "asked", "bounded"}
    BY <1>1, ConnFacts DEF Topical
  <2> QED BY <1>1, <2>1, <2>2, <2>3 DEF RealtimeTypeOK, RealtimeTyped
<1>3. NothingIsSkipped
  <2>1. ASSUME NEW i \in owed PROVE Kept(i) \/ i \in elsewhere \cup raced
    <3>1. CASE i \in Outstanding
      <4>1. client.cursor < i
        BY <1>1, <3>1 DEF AsksBegin
      <4>2. i > client.cursor
        BY <4>1
      <4> QED BY <4>2 DEF Kept
    <3>2. CASE i \notin Outstanding
      BY <3>2 DEF Outstanding, Kept
    <3> QED BY <3>1, <3>2
  <2> QED BY <2>1 DEF NothingIsSkipped
<1> QED BY <1>2, <1>3 DEF CursorIsSafe

\* events/store.py, events/bus.py, api/ws.py and frontend/src/realtime: whatever publishers, prune,
\* subscriptions, batches, live frames and lost connections race, a tab resumes before every event
\* it is owed; the exceptions are an event of another process and one pruned between two reads.
THEOREM CursorHolds == RealtimeInit /\ [][RealtimeNext]_realtimeVars => []CursorIsSafe
<1>1. RealtimeInv /\ [RealtimeNext]_realtimeVars => RealtimeInv'
  BY RealtimeSteps
<1> QED BY <1>1, RealtimeBegins, RealtimeFollows, PTL
-----------------------------------------------------------------------------
(* All of it.                                                              *)

LEMMA FleetSteps ==
    ASSUME MachineInv, QueueInv, RowInv, HookInv, [FleetNext]_FleetVars
    PROVE  /\ [MachineNext]_machineVars /\ [QueueNext]_queueVars /\ [DeliveryNext]_deliveryVars
           /\ MachineInv' /\ QueueInv' /\ RowInv' /\ HookInv'
<1>1. [MachineNext]_machineVars /\ [QueueNext]_queueVars /\ [DeliveryNext]_deliveryVars
  BY DEF FleetNext, FleetVars
<1> QED BY <1>1, MachineSteps, QueueSteps, DeliverySteps

LEMMA FleetBegins == FleetInit => MachineInv /\ QueueInv /\ RowInv /\ HookInv
BY MachineBegins, QueueBegins, DeliveryBegins DEF FleetInit

\* A machine, the Issue it works on and what reaches it from outside, beside each other.
THEOREM FleetIsSound == FleetSpec => [](MachinesAreSound /\ QueueIsSound /\ DeliveriesAreSound)
<1>1. MachineInv /\ QueueInv /\ RowInv /\ HookInv /\ [FleetNext]_FleetVars => MachineInv' /\ QueueInv' /\ RowInv' /\ HookInv'
  BY FleetSteps
<1> QED BY <1>1, FleetBegins, MachineFollows, QueueFollows, DeliveriesFollow, PTL DEF FleetSpec

\* Who decided on an older read changes nothing that is settled or that came since: a sweep of
\* control/runtimes.py no Runtime that spoke, a reconciliation no ended or newer Session, a late
\* handler no key that is final.
THEOREM LateWritesAreHarmless == FleetSpec => LateWritesDoNoHarm
<1>1. MachineInv /\ QueueInv /\ RowInv /\ HookInv /\ [FleetNext]_FleetVars => MachineInv' /\ QueueInv' /\ RowInv' /\ HookInv'
  BY FleetSteps
<1>2. MachineInv /\ QueueInv /\ RowInv /\ HookInv /\ [FleetNext]_FleetVars => SweptIsSilent /\ SettledOnce /\ AgentKeepsSession /\ FinalKeyStands
  BY FleetSteps, MachineSteps, LateSettlements, DeliverySteps
<1> QED BY <1>1, <1>2, FleetBegins, PTL DEF FleetSpec, LateWritesDoNoHarm
-----------------------------------------------------------------------------
(* What the console shows.                                                 *)

LEMMA ConsoleSteps ==
    ASSUME RealtimeInv, QueueInv, [ConsoleNext]_ConsoleVars
    PROVE  RealtimeInv' /\ QueueInv'
<1>1. [RealtimeNext]_realtimeVars /\ [QueueNext]_queueVars
  BY DEF ConsoleNext, ConsoleVars
<1> QED BY <1>1, RealtimeSteps, QueueSteps

\* A tab of the console follows the events of api/ws.py while daemons of control/assignments.py
\* work: no event is skipped, and one agent is at work on an Issue.
THEOREM ConsoleIsSound == ConsoleSpec => [](CursorIsSafe /\ QueueIsSound)
<1>1. RealtimeInv /\ QueueInv /\ [ConsoleNext]_ConsoleVars => RealtimeInv' /\ QueueInv'
  BY ConsoleSteps
<1>2. ConsoleInit => RealtimeInv /\ QueueInv
  BY RealtimeBegins, QueueBegins DEF ConsoleInit
<1> QED BY <1>1, <1>2, RealtimeFollows, QueueFollows, PTL DEF ConsoleSpec
=============================================================================
