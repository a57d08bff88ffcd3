----------------------------- MODULE EntityRegistry -----------------------------
(***************************************************************************)
(* Institutions: their rows, the proposals that register and toggle them,   *)
(* and what the indexer and the sweep make of the execution of a proposal.  *)
(* How a proposal is signed and sent is SafeGovernance's; here it is        *)
(* executed or ends. Names, keys, staff and e-mails are left out.           *)
(***************************************************************************)
EXTENDS Integers, FiniteSets

CONSTANTS
    Entities,     \* the codes an administrator may create
    KindOf,       \* the type of each: its contract numbers that type from one
    Requests,     \* requests of administrators that may run at once
    MaxProposals, \* bound: proposals made
    MaxMissed     \* bound: events the indexer never handles

ASSUME RegistryAssumption ==
    IsFiniteSet(Entities) /\ MaxProposals \in Nat /\ MaxMissed \in Nat /\ DOMAIN KindOf = Entities

VARIABLES
    entity,    \* B2BEntity rows
    enrolled,  \* the contracts: id, 0 if none, and whether active
    request,   \* requests that have read the database, without a proposal yet
    proposal,  \* SafeProposal rows, their execution and its transaction row
    heard,     \* events not handled yet
    missed

registryVars == <<entity, enrolled, request, proposal, heard, missed>>

Motions == 1 .. MaxProposals
OnChainIds == 0 .. Cardinality(Entities)

NoEntity == [made |-> FALSE, onChainId |-> 0, active |-> FALSE]
NoRequest == [kind |-> "none", of |-> {}, fresh |-> FALSE]
NoMotion == [kind |-> "none", of |-> {}, status |-> "absent", row |-> "absent", says |-> FALSE]

RegistryInit ==
    /\ entity = [e \in Entities |-> NoEntity]
    /\ enrolled = [e \in Entities |-> [id |-> 0, active |-> FALSE]]
    /\ request = [r \in Requests |-> NoRequest]
    /\ proposal = [p \in Motions |-> NoMotion]
    /\ heard = {} /\ missed = 0

One(S) == {{e} : e \in S} \cup {{}}

RegistryTypeOK ==
    /\ entity \in [Entities -> [made : BOOLEAN, onChainId : OnChainIds, active : BOOLEAN]]
    /\ enrolled \in [Entities -> [id : OnChainIds, active : BOOLEAN]]
    /\ request \in [Requests -> [kind : {"none", "register", "toggle"}, of : One(Entities),
                                 fresh : BOOLEAN]]
    /\ proposal \in [Motions -> [kind : {"none", "register", "toggle"}, of : One(Entities),
                                 status : {"absent", "PENDING", "ended", "EXECUTED"},
                                 row : {"absent", "PENDING", "MINED"}, says : BOOLEAN]]
    /\ heard \subseteq {"event", "success"} \X Motions
    /\ missed \in 0 .. MaxMissed

-----------------------------------------------------------------------------
(* The service: read, then createProposal, which awaits the Safe's nonce.   *)

Asks(r, kind, e, fresh) ==
    /\ request[r] = NoRequest
    /\ request' = [request EXCEPT ![r] = [kind |-> kind, of |-> {e}, fresh |-> fresh]]
    /\ UNCHANGED <<enrolled, proposal, heard, missed>>

CreateEntity(r, e) ==
    /\ ~entity[e].made /\ Asks(r, "register", e, TRUE)
    /\ entity' = [entity EXCEPT ![e] = [NoEntity EXCEPT !.made = TRUE, !.active = TRUE]]

ActiveProposal(e) ==
    \E p \in Motions : proposal[p].kind = "register" /\ proposal[p].of = {e}
                         /\ proposal[p].status = "PENDING"

RetryEntityRegistration(r, e) ==
    /\ entity[e].made /\ entity[e].onChainId = 0 /\ ~ActiveProposal(e)
    /\ Asks(r, "register", e, FALSE) /\ UNCHANGED entity

(* The proposal flips the contract's flag, whatever was asked for.          *)
ToggleEntityStatus(r, e, wanted) ==
    /\ entity[e].onChainId # 0 /\ entity[e].active # wanted
    /\ Asks(r, "toggle", e, FALSE) /\ UNCHANGED entity

CreateProposal(r, p) ==
    /\ request[r].kind # "none"
    /\ proposal[p] = NoMotion /\ \A q \in 1 .. p - 1 : proposal[q] # NoMotion
    /\ proposal' = [proposal EXCEPT ![p] = [NoMotion EXCEPT !.kind = request[r].kind,
                                              !.of = request[r].of, !.status = "PENDING"]]
    /\ request' = [request EXCEPT ![r] = NoRequest]
    /\ UNCHANGED <<entity, enrolled, heard, missed>>

(* Without a proposal a new entity is deleted again, and its staff with it. *)
ProposalRefused(r) ==
    /\ request[r].kind # "none"
    /\ request' = [request EXCEPT ![r] = NoRequest]
    /\ entity' = [e \in Entities |-> IF request[r].fresh /\ e \in request[r].of THEN NoEntity
                                     ELSE entity[e]]
    /\ UNCHANGED <<enrolled, proposal, heard, missed>>

-----------------------------------------------------------------------------
(* The Safe and the contracts (external)                                    *)

EndProposal(p) ==
    /\ proposal[p].status = "PENDING" /\ proposal' = [proposal EXCEPT ![p].status = "ended"]
    /\ UNCHANGED <<entity, enrolled, request, heard, missed>>

NextId(k) == Cardinality({e \in Entities : KindOf[e] = k /\ enrolled[e].id # 0}) + 1

(* The worker stores the transaction's row unless the process stops first.  *)
Executes(p, e, says) ==
    /\ proposal[p].status = "PENDING" /\ proposal[p].row = "absent" /\ proposal[p].of = {e}
    /\ \E row \in {"absent", "PENDING"} :
         proposal' = [proposal EXCEPT ![p].status = "ended", ![p].row = row, ![p].says = says]
    /\ heard' = heard \cup {<<"event", p>>, <<"success", p>>}
    /\ UNCHANGED <<entity, request, missed>>

ExecuteRegister(p, e) ==
    /\ proposal[p].kind = "register" /\ enrolled[e].id = 0
    /\ enrolled' = [enrolled EXCEPT ![e] = [id |-> NextId(KindOf[e]), active |-> TRUE]]
    /\ Executes(p, e, TRUE)

ExecuteToggle(p, e) ==
    /\ proposal[p].kind = "toggle" /\ enrolled[e].id # 0
    /\ enrolled' = [enrolled EXCEPT ![e].active = ~@]
    /\ Executes(p, e, ~enrolled[e].active)

-----------------------------------------------------------------------------
(* The indexer                                                              *)

Handles(p, ev, kind) ==
    /\ <<ev, p>> \in heard /\ proposal[p].kind = kind
    /\ heard' = heard \ {<<ev, p>>}
    /\ UNCHANGED <<enrolled, request, missed>>

(* Fault: the row is taken by what it lacks, not by its code.               *)
HandleRegistrationAnyRow(p, e) ==
    /\ Handles(p, "event", "register") /\ proposal[p].of = {e}
    /\ \E f \in Entities :
         /\ entity[f].made /\ entity[f].onChainId = 0
         /\ entity' = [entity EXCEPT ![f].onChainId = enrolled[e].id]
    /\ UNCHANGED proposal

(* By code; an entity deleted meanwhile is passed over.                     *)
HandleRegistration(p, e) ==
    /\ Handles(p, "event", "register") /\ proposal[p].of = {e}
    /\ entity' = [entity EXCEPT ![e].onChainId = IF entity[e].made THEN enrolled[e].id ELSE @]
    /\ UNCHANGED proposal

(* By on-chain id, of which the entities of other types have the like       *)
HandleToggle(p, e, f) ==
    /\ Handles(p, "event", "toggle") /\ proposal[p].of = {e}
    /\ entity[f].onChainId = enrolled[e].id
    /\ entity' = [entity EXCEPT ![f].active = proposal[p].says]
    /\ UNCHANGED proposal

HandleExecutionSuccess(p) ==
    /\ Handles(p, "success", proposal[p].kind)
    /\ proposal' = [proposal EXCEPT ![p].status = "EXECUTED", ![p].row = "MINED"]
    /\ UNCHANGED entity

MissEvent(h) ==
    /\ h \in heard /\ missed < MaxMissed
    /\ heard' = heard \ {h} /\ missed' = missed + 1
    /\ UNCHANGED <<entity, enrolled, request, proposal>>

-----------------------------------------------------------------------------
(* Fault: the side effects of the execution are not replayed.               *)
SweepProposalOnly(p) ==
    /\ proposal[p].row = "PENDING"
    /\ proposal' = [proposal EXCEPT ![p].status = "EXECUTED", ![p].row = "MINED"]
    /\ UNCHANGED <<entity, enrolled, request, heard, missed>>

(* The sweep: the proposal is EXECUTED and its entity back-filled, but for   *)
(* a row it finds PENDING only.                                             *)
SweepExecution(p) ==
    /\ proposal[p].row = "PENDING"
    /\ proposal' = [proposal EXCEPT ![p].status = "EXECUTED", ![p].row = "MINED"]
    /\ entity' = [e \in Entities |->
                    IF e \notin proposal[p].of \/ ~entity[e].made THEN entity[e]
                    ELSE IF proposal[p].kind = "toggle"
                         THEN [entity[e] EXCEPT !.active = proposal[p].says]
                         ELSE [entity[e] EXCEPT !.onChainId = IF @ = 0 THEN enrolled[e].id ELSE @]]
    /\ UNCHANGED <<enrolled, request, heard, missed>>

-----------------------------------------------------------------------------
RegistryNext ==
    \/ \E r \in Requests :
         \/ \E e \in Entities : CreateEntity(r, e) \/ RetryEntityRegistration(r, e)
         \/ \E e \in Entities, wanted \in BOOLEAN : ToggleEntityStatus(r, e, wanted)
         \/ \E p \in Motions : CreateProposal(r, p)
         \/ ProposalRefused(r)
    \/ \E p \in Motions :
         \/ EndProposal(p) \/ HandleExecutionSuccess(p) \/ SweepExecution(p)
         \/ \E e \in Entities :
              \/ ExecuteRegister(p, e) \/ ExecuteToggle(p, e) \/ HandleRegistration(p, e)
              \/ \E f \in Entities : HandleToggle(p, e, f)
    \/ \E h \in heard : MissEvent(h)

RegistrySpec == RegistryInit /\ [][RegistryNext]_registryVars

-----------------------------------------------------------------------------
(* Properties                                                               *)

(* An entity is known by the id its own contract gave it, whichever of the  *)
(* indexer and the sweep wrote it, in whatever order, and though several    *)
(* proposals to register it were made.                                      *)
OnChainIdRight ==
    \A e \in Entities : entity[e].onChainId # 0 => entity[e].onChainId = enrolled[e].id

(* reconciliation.worker.ts:180: an entity whose registration is executed   *)
(* and stored does not stay without its id, though both events are missed.  *)
RegistrationBackFilled ==
    \A p \in Motions :
        (/\ proposal[p].row = "PENDING" /\ proposal[p].kind = "register"
         /\ {<<"event", p>>, <<"success", p>>} \cap heard = {})
        ~> (\A e \in proposal[p].of : entity[e].made => entity[e].onChainId # 0)
=============================================================================
