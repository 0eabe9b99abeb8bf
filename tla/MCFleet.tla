------------------------------ MODULE MCFleet ------------------------------
(* Machines and what reaches them: enrolment and Runtimes, an Issue handed *)
(* to one of two daemons, and deliveries from outside.  They share no      *)
(* state, so one of them moves at a time.                                  *)
EXTENDS Machines, SpawnQueue, Deliveries, TLC

\* A component at rest while another moves.
MachineStart == MachineInit /\ \A t \in Tools : runtime[t] = NoRuntime
DeliveryStart == DeliveryInit /\ kind = "other"

FleetVars == <<machineVars, queueVars, deliveryVars>>
FleetNext ==
    \/ QueueInit /\ DeliveryStart /\ MachineNext /\ UNCHANGED <<queueVars, deliveryVars>>
    \/ MachineStart /\ DeliveryStart /\ QueueNext /\ UNCHANGED <<machineVars, deliveryVars>>
    \/ MachineStart /\ QueueInit /\ DeliveryNext /\ UNCHANGED <<machineVars, queueVars>>
FleetInit == MachineInit /\ QueueInit /\ DeliveryInit
FleetSpec == FleetInit /\ [][FleetNext]_FleetVars

\* Who decided on an older read changes nothing that is settled or that came since: a sweep
\* no Runtime that spoke, a reconciliation no ended or newer Session, a late handler no key.
LateWritesDoNoHarm ==
    [][SweptIsSilent /\ SettledOnce /\ AgentKeepsSession /\ FinalKeyStands]_FleetVars

InCalls == {w \in Writers : writer[w] # AtRest}
Enrolled == \E k \in Tokens : token[k].status # "none"

\* Bound: where a token was minted, every Runtime is heard of at most once and neither sweeps
\* nor drains happen; otherwise, and beside an expired token, one caller at a time.
MachinesApart ==
    /\ Enrolled => /\ \A t \in Tools : ~runtime[t].silent /\ runtime[t].beat <= 1
                                       /\ runtime[t].status \in {"absent", "online"}
                   /\ \A w \in Writers : writer[w].at # "status"
                   /\ sweeping = NoSweep
    /\ (~Enrolled \/ \E k \in Tokens : token[k].expired) => Cardinality(InCalls) <= 1
    /\ (\E k \in Tokens : credential[k].status = "revoked") => \A k \in Tokens : ~token[k].expired

\* Bound: the hub serves one request at a time, and nobody dispatches meanwhile; one daemon is
\* down at a time, and none while somebody dispatches.
QueueApart ==
    /\ Cardinality({r \in Requests : settling[r] # NoRequest}) <= 1
    /\ Cardinality({d \in Daemons : daemon[d].at = "down"}) <= 1
    /\ (\E r \in Requests : settling[r] # NoRequest) => \A c \in Dispatchers : caller[c] = NoCall
    /\ (\E c \in Dispatchers : caller[c] # NoCall) => \A d \in Daemons : daemon[d].at # "down"

\* Bound: the webhook fires where the delivery key is not used.
DeliveriesApart ==
    \/ hookVars = <<TRUE, <<>>, 0, 0, [h \in Handlers |-> HookRest], FALSE>>
    \/ kind = "other" /\ delivery = NoDelivery /\ \A h \in Handlers : handler[h] = Resting

Apart == MachinesApart /\ QueueApart /\ DeliveriesApart

\* The components share model values: a permutation of them is one of each component.
FleetSymmetry == Permutations(Orgs) \cup Permutations(Tools) \cup Permutations(Writers)
=============================================================================
