-------------------------- MODULE DispatchPolicies --------------------------
(***************************************************************************)
(* Dispatch policies and the idempotency keys of the calls that change     *)
(* them (services/api/src/cp2/domains/fulfillment/service.ts and           *)
(* transaction.ts): createDispatchPolicy, reviseDispatchPolicy and         *)
(* setDefaultDispatchPolicy, lock by lock, several calls at once.          *)
(*                                                                         *)
(* A call is one transaction.  Its locks follow from how far it is: the    *)
(* record of its key (an uncommitted insert holds the key), the first      *)
(* version of its lineage, and the settings row with the default pointer.  *)
(*                                                                         *)
(* Abstracted: what a policy says; a key stands for operation and key; an  *)
(* answer is the lineage and the version it shows.                         *)
(***************************************************************************)
EXTENDS Naturals, FiniteSets

CONSTANTS Callers, Keys, Requests,
          NoKey, Any, None,  \* no idempotency key; no expectation; no default
          MaxLineages,       \* bound: policies ever created
          MaxVersion,        \* bound: versions of one policy
          MaxPurges          \* bound: records deleted after their retention

VARIABLES
    versions,   \* fulfillment_dispatch_policies: the versions of a lineage
    active,     \* the ones with the active flag
    default,    \* default_policy_id
    records,    \* committed idempotency records
    calls,      \* the calls in flight
    mutations,  \* history: changes committed under a key since its record was last purged
    answers,    \* history: answers given under it since then
    purges

policyVars == <<versions, active, default, records, calls, mutations, answers, purges>>

Lineages == 1..MaxLineages
Versions == 1..MaxVersion

\* lineage is None when the policy is created; version and expects are the
\* version and the default the caller saw, if they say so.
Request == [op : {"create", "revise", "setDefault"}, key : Keys \cup {NoKey},
            lineage : Lineages \cup {None}, version : Versions \cup {Any},
            expects : Lineages \cup {None, Any}, makeDefault : BOOLEAN]
ASSUME PolicyAssumption ==
    /\ Requests \subseteq Request
    /\ \A r \in Requests : (r.lineage = None) <=> (r.op = "create")
    /\ NoKey \notin Keys /\ None \notin Requests
    /\ {None, Any} \cap (Lineages \cup Versions) = {} /\ None # Any
    /\ MaxLineages \in Nat /\ MaxVersion \in Nat /\ MaxPurges \in Nat

NoRecord == [request |-> None]
NoCall == [phase |-> "idle"]
Answer == [lineage : Lineages, version : Versions]
Record == {NoRecord} \cup [request : Requests, answer : Answer]
Call == {NoCall} \cup
    [phase : {"asked", "lookup", "claimed", "lineage", "settings"}, request : Requests,
     seen : Versions \cup {0}]

PoliciesInit ==
    /\ versions = [l \in Lineages |-> {}]
    /\ active = [l \in Lineages |-> {}]
    /\ default = None
    /\ records = [k \in Keys |-> NoRecord]
    /\ calls = [p \in Callers |-> NoCall]
    /\ mutations = [k \in Keys |-> 0]
    /\ answers = [k \in Keys |-> {}]
    /\ purges = 0

----------------------------------------------------------------------------
(* What a call holds, and the steps up to its commit.                      *)

Active(p) == calls[p].phase # "idle"
HoldsKey(p, k) ==
    Active(p) /\ calls[p].request.key = k /\ calls[p].phase \in {"claimed", "lineage", "settings"}
HoldsLineage(p, l) ==
    Active(p) /\ calls[p].request.lineage = l /\ calls[p].phase \in {"lineage", "settings"}
HoldsSettings(p) == calls[p].phase = "settings"

\* assertDefaultPointer and setDefaultPointer both keep the row to the end.
NeedsSettings(r) == r.expects # Any \/ r.makeDefault \/ r.op = "setDefault"

At(p, phase) == Active(p) /\ calls[p].phase = phase
Go(p, phase) == calls' = [calls EXCEPT ![p].phase = phase]
End(p) == calls' = [calls EXCEPT ![p] = NoCall]

Ask(p, r) ==
    /\ ~Active(p)
    /\ calls' = [calls EXCEPT ![p] = [phase |-> "asked", request |-> r, seen |-> 0]]
    /\ UNCHANGED <<versions, active, default, records, mutations, answers, purges>>

\* Mutant: the key is looked up without waiting for the twin.
ClaimKeyAtOnce(p) ==
    LET k == calls[p].request.key IN
    /\ At(p, "asked")
    /\ Go(p, IF k = NoKey \/ records[k] = NoRecord THEN "claimed" ELSE "lookup")
    /\ UNCHANGED <<versions, active, default, records, mutations, answers, purges>>

\* insert ... on conflict do nothing: waits for a twin that has not ended.
ClaimKey(p) ==
    LET k == calls[p].request.key IN
    /\ At(p, "asked")
    /\ k # NoKey => \A q \in Callers \ {p} : ~HoldsKey(q, k)
    /\ Go(p, IF k = NoKey \/ records[k] = NoRecord THEN "claimed" ELSE "lookup")
    /\ UNCHANGED <<versions, active, default, records, mutations, answers, purges>>

\* The stored answer; another request with the key is refused.
Replay(p) ==
    LET r == calls[p].request IN
    /\ At(p, "lookup") /\ records[r.key].request = r
    /\ answers' = [answers EXCEPT ![r.key] = @ \cup {records[r.key].answer}]
    /\ End(p)
    /\ UNCHANGED <<versions, active, default, records, mutations, purges>>

\* Purged between the conflict and the lookup: the transaction starts again.
LookAgain(p) ==
    /\ At(p, "lookup") /\ records[calls[p].request.key] = NoRecord
    /\ Go(p, "asked")
    /\ UNCHANGED <<versions, active, default, records, mutations, answers, purges>>

\* Mutant: the lineage is read without its lock.
ReadLineage(p) ==
    LET l == calls[p].request.lineage IN
    /\ At(p, "claimed") /\ l # None
    /\ \E v \in active[l] :
          calls' = [calls EXCEPT ![p].phase = "lineage", ![p].seen = v]
    /\ UNCHANGED <<versions, active, default, records, mutations, answers, purges>>

\* lockPolicyLineage and activePolicyVersion; none is 404.
LockLineage(p) ==
    LET l == calls[p].request.lineage IN
    /\ At(p, "claimed") /\ l # None
    /\ \A q \in Callers \ {p} : ~HoldsLineage(q, l)
    /\ \E v \in active[l] :
          calls' = [calls EXCEPT ![p].phase = "lineage", ![p].seen = v]
    /\ UNCHANGED <<versions, active, default, records, mutations, answers, purges>>

\* Nothing but the settings row is left to lock.
LineageDone(p) == At(p, IF calls[p].request.op = "create" THEN "claimed" ELSE "lineage")

\* Mutant: the pointer is compared without its lock.
ReadSettings(p) ==
    /\ Active(p) /\ LineageDone(p) /\ NeedsSettings(calls[p].request)
    /\ calls[p].request.expects \in {Any, default}
    /\ Go(p, "settings")
    /\ UNCHANGED <<versions, active, default, records, mutations, answers, purges>>

LockSettings(p) ==
    /\ Active(p) /\ LineageDone(p) /\ NeedsSettings(calls[p].request)
    /\ \A q \in Callers \ {p} : ~HoldsSettings(q)
    /\ calls[p].request.expects \in {Any, default}
    /\ Go(p, "settings")
    /\ UNCHANGED <<versions, active, default, records, mutations, answers, purges>>

Ready(p) ==
    /\ Active(p)
    /\ IF NeedsSettings(calls[p].request) THEN HoldsSettings(p) ELSE LineageDone(p)
    /\ calls[p].request.version \in {Any, calls[p].seen}

----------------------------------------------------------------------------
(* The commit of each operation.                                           *)

\* randomUUID: the identifiers are used in order.
Fresh == Cardinality({l \in Lineages : versions[l] # {}}) + 1

\* insertPolicyVersion under the unique (policy_id, version).
InsertVersion(l, v, old) ==
    /\ l \in Lineages /\ v \in Versions \ versions[l]
    /\ versions' = [versions EXCEPT ![l] = @ \cup {v}]
    /\ active' = [active EXCEPT ![l] = (@ \ old) \cup {v}]

CreateDispatchPolicy(r) ==
    /\ InsertVersion(Fresh, 1, {})
    /\ default' = IF r.makeDefault THEN Fresh ELSE default

ReviseDispatchPolicy(r, seen) ==
    /\ InsertVersion(r.lineage, seen + 1, {seen})
    /\ UNCHANGED default

SetDefaultDispatchPolicy(r) ==
    /\ default' = r.lineage
    /\ UNCHANGED <<versions, active>>

Mutate(r, seen) ==
    CASE r.op = "create" -> CreateDispatchPolicy(r)
      [] r.op = "revise" -> ReviseDispatchPolicy(r, seen)
      [] OTHER -> SetDefaultDispatchPolicy(r)

\* Mutant: the version read before the change.
AnswerBefore(r, seen) ==
    [lineage |-> IF r.op = "create" THEN Fresh ELSE r.lineage, version |-> seen]

AnswerTo(r, seen) ==
    [lineage |-> IF r.op = "create" THEN Fresh ELSE r.lineage,
     version |-> CASE r.op = "create" -> 1 [] r.op = "revise" -> seen + 1 [] OTHER -> seen]

\* The record commits with the change; the answer may not reach the caller.
Commit(p) ==
    LET r == calls[p].request  a == AnswerTo(r, calls[p].seen) IN
    /\ Ready(p)
    /\ Mutate(r, calls[p].seen)
    /\ IF r.key = NoKey THEN UNCHANGED <<records, mutations, answers>> ELSE
       /\ records' = [records EXCEPT ![r.key] = [request |-> r, answer |-> a]]
       /\ mutations' = [mutations EXCEPT ![r.key] = @ + 1]
       /\ \E heard \in {{}, {a}} : answers' = [answers EXCEPT ![r.key] = @ \cup heard]
    /\ End(p)
    /\ UNCHANGED purges

\* A refusal, an error, a lock time-out or a lost connection.
Abort(p) ==
    /\ Active(p) /\ End(p)
    /\ UNCHANGED <<versions, active, default, records, mutations, answers, purges>>

\* purgeExpiredIdempotencyRecords
Purge(k) ==
    /\ records[k] # NoRecord /\ purges < MaxPurges
    /\ records' = [records EXCEPT ![k] = NoRecord]
    /\ mutations' = [mutations EXCEPT ![k] = 0]
    /\ answers' = [answers EXCEPT ![k] = {}]
    /\ purges' = purges + 1
    /\ UNCHANGED <<versions, active, default, calls>>

Calling(p) ==
    \/ ClaimKey(p) \/ Replay(p) \/ LookAgain(p) \/ LockLineage(p) \/ LockSettings(p)
    \/ Commit(p) \/ Abort(p)

PoliciesNext ==
    \/ \E p \in Callers, r \in Requests : Ask(p, r)
    \/ \E p \in Callers : Calling(p)
    \/ \E k \in Keys : Purge(k)

----------------------------------------------------------------------------
(* Properties.                                                             *)

PoliciesTypeOK ==
    /\ versions \in [Lineages -> SUBSET Versions]
    /\ active \in [Lineages -> SUBSET Versions]
    /\ default \in Lineages \cup {None}
    /\ records \in [Keys -> Record]
    /\ calls \in [Callers -> Call]
    /\ mutations \in [Keys -> Nat]
    /\ answers \in [Keys -> SUBSET Answer]
    /\ purges \in 0..MaxPurges

\* runIdempotent: "at most once per (businessId, operation, key)".  While a
\* record is kept, its key has changed something once and was answered with
\* what that change returned, whoever asked, retried or was cut off; without
\* one, nothing was changed and nobody was answered.
KeyedOnce ==
    \A k \in Keys :
        IF records[k] = NoRecord THEN mutations[k] = 0 /\ answers[k] = {}
        ELSE mutations[k] = 1 /\ answers[k] \subseteq {records[k].answer}

\* The versions of a lineage are a chain whose last one is active, and a
\* revision about to commit follows the one that is active now, so the unique
\* constraint never has to refuse it.
RevisionsChain ==
    /\ \A l \in Lineages :
          LET n == Cardinality(versions[l]) IN
          versions[l] = 1..n /\ active[l] = {n} \ {0}
    /\ \A p \in Callers :
          Active(p) /\ LineageDone(p) /\ calls[p].request.op = "revise"
          => active[calls[p].request.lineage] = {calls[p].seen}

\* The locks make every call act at one instant: to its callers the service is the
\* PolicyBook, in which a change is made over the default and the version that the
\* request names, and once under a key.
Book == INSTANCE PolicyBook WITH
           asked <- [p \in Callers |-> IF Active(p) THEN calls[p].request ELSE None],
           latest <- [l \in Lineages |-> Cardinality(versions[l])]
CallsAreAtomic == Book!Spec

=============================================================================
