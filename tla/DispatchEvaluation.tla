------------------------- MODULE DispatchEvaluation -------------------------
(***************************************************************************)
(* The daily evaluation of a corridor's pool against its policy, the       *)
(* approvals it asks for and the outbox worker that tells of both          *)
(* (services/api/src/cp2/domains/fulfillment/dispatch.ts and service.ts),  *)
(* while the policy is being revised (DispatchPolicies).                   *)
(*                                                                         *)
(* An evaluation locks its corridor, reads the policy and the pool, and    *)
(* stores what it found in a later statement: the policy may be revised    *)
(* and an approval decided in between.  The day is the one the request or  *)
(* the scheduled sweep began on.                                           *)
(*                                                                         *)
(* Abstracted: the pool, of which only the outcome is chosen (a FALLBACK   *)
(* leaves the same trace as a WAIT); the cutoff, which a policy may or may *)
(* not have reached; one worker, since the runner is single-flight.        *)
(***************************************************************************)
EXTENDS DispatchPolicies

CONSTANTS Corridors,
          OverrideOf,   \* policy_override_id, or None
          Decisions,    \* how an approval may be decided
          Asked,        \* who asks what of a business with and without a time zone
          MaxDay        \* bound: business days

VARIABLES
    timezone,    \* whether the business has one
    today,
    sweep,       \* the day evaluateDueDispatches began on, NoDay when it is not running
    evaluating,  \* evaluations in flight, under the lock of their corridor
    evaluations, \* fulfillment_dispatch_evaluations
    approvals,   \* fulfillment_dispatch_approvals, by evaluation
    events,      \* fulfillment_outbox_events
    delivered,   \* the ones with delivered_at
    heard        \* history: what deliverOutboxEvent was called with and took

dayVars == <<timezone, today, sweep, evaluating, evaluations, approvals, events, delivered, heard>>
vars == <<policyVars, dayVars>>

ASSUME EvaluationAssumption ==
    /\ OverrideOf \in [Corridors -> Lineages \cup {None}]
    /\ Asked \in [BOOLEAN \X Callers -> SUBSET Requests]
    /\ {"OPEN", "none"} \cap Decisions = {}
    /\ MaxDay \in Nat \ {0}

Days == 1..MaxDay
NoDay == 0
Outcomes == {"READY", "WAIT", "APPROVAL_REQUIRED"}
Policy == [lineage : Lineages, version : Versions]
NoEvaluation == [outcome |-> "none"]
Evaluation == {NoEvaluation} \cup [outcome : Outcomes, policy : Policy]
NoApproval == [status |-> "none"]
Approval == {NoApproval} \cup [status : {"OPEN"} \cup Decisions, policy : Policy]
NotEvaluating == [day |-> NoDay]
Run == {NotEvaluating} \cup [day : Days, outcome : Outcomes, policy : Policy]
Event == [type : {"dispatch.approval_required", "corridor.threshold_reached"},
          corridor : Corridors, day : Days]

Init ==
    /\ PoliciesInit
    /\ timezone \in BOOLEAN
    /\ today = 1 /\ sweep = NoDay
    /\ evaluating = [c \in Corridors |-> NotEvaluating]
    /\ evaluations = [e \in Corridors \X Days |-> NoEvaluation]
    /\ approvals = [e \in Corridors \X Days |-> NoApproval]
    /\ events = {} /\ delivered = {} /\ heard = {}

----------------------------------------------------------------------------
EffectivePolicies(c) ==
    LET l == IF OverrideOf[c] = None THEN default ELSE OverrideOf[c] IN
    IF l = None THEN {} ELSE [lineage : {l}, version : active[l]]

NextDay ==
    /\ timezone /\ today < MaxDay /\ today' = today + 1
    /\ UNCHANGED <<policyVars, timezone, sweep, evaluating, evaluations, approvals, events,
                   delivered, heard>>

\* evaluateDueDispatches: one instant for every corridor it goes through.
BeginSweep ==
    /\ timezone /\ sweep = NoDay /\ sweep' = today
    /\ UNCHANGED <<policyVars, timezone, today, evaluating, evaluations, approvals, events,
                   delivered, heard>>
EndSweep ==
    /\ sweep # NoDay /\ sweep' = NoDay
    /\ UNCHANGED <<policyVars, timezone, today, evaluating, evaluations, approvals, events,
                   delivered, heard>>

\* evaluateDispatch as far as the pool, by the sweep or by a dispatcher.
Evaluate(c, day, outcome) ==
    /\ timezone /\ day \in {today, sweep} \ {NoDay}
    /\ evaluating[c] = NotEvaluating
    /\ \E policy \in EffectivePolicies(c) :
          evaluating' = [evaluating EXCEPT ![c] =
              [day |-> day, outcome |-> outcome, policy |-> policy]]
    /\ UNCHANGED <<policyVars, timezone, today, sweep, evaluations, approvals, events,
                   delivered, heard>>

Abandon(c) ==
    /\ evaluating[c] # NotEvaluating
    /\ evaluating' = [evaluating EXCEPT ![c] = NotEvaluating]
    /\ UNCHANGED <<policyVars, timezone, today, sweep, evaluations, approvals, events,
                   delivered, heard>>

\* The row of the day, stored now or found.
Persisted(c) ==
    LET run == evaluating[c] IN
    IF evaluations[c, run.day] # NoEvaluation THEN evaluations[c, run.day]
    ELSE [outcome |-> run.outcome, policy |-> run.policy]

\* Mutant: a second open one is stored.
MayOpenAnother(c, day) == approvals[c, day] = NoApproval

\* Mutant: an approval that was decided is opened again.
MayReopen(c, day) == ~\E d \in Days : approvals[c, d].status = "OPEN"

\* One row per evaluation, and one open one per corridor: on conflict do nothing.
MayOpen(c, day) ==
    /\ approvals[c, day] = NoApproval
    /\ ~\E d \in Days : approvals[c, d].status = "OPEN"

\* Mutant: under the policy read now.
OpenUnderCurrent(c) ==
    LET day == evaluating[c].day IN
    approvals' =
        IF Persisted(c).outcome = "APPROVAL_REQUIRED" /\ MayOpen(c, day)
        THEN [approvals EXCEPT ![<<c, day>>] = [status |-> "OPEN", policy |-> evaluating[c].policy]]
        ELSE approvals

OpenApproval(c) ==
    LET day == evaluating[c].day IN
    approvals' =
        IF Persisted(c).outcome = "APPROVAL_REQUIRED" /\ MayOpen(c, day)
        THEN [approvals EXCEPT ![<<c, day>>] = [status |-> "OPEN", policy |-> Persisted(c).policy]]
        ELSE approvals

\* The outcome of the latest day evaluated before this one is stored.
PreviousWasReady(c) ==
    \E d \in Days :
        /\ evaluations[c, d].outcome = "READY"
        /\ \A x \in Days : evaluations[c, x] # NoEvaluation => x <= d

\* corridor.threshold_reached, for a row stored now.
Crosses(c) ==
    /\ evaluations[c, evaluating[c].day] = NoEvaluation
    /\ evaluating[c].outcome = "READY" /\ ~PreviousWasReady(c)

\* appendOutbox, keyed by the evaluation.
EventsOf(c) ==
    {e \in Event :
        /\ e.corridor = c /\ e.day = evaluating[c].day
        /\ IF e.type = "corridor.threshold_reached" THEN Crosses(c)
           ELSE Persisted(c).outcome = "APPROVAL_REQUIRED"}

StoreEvaluation(c) ==
    /\ evaluating[c] # NotEvaluating
    /\ evaluations' = [evaluations EXCEPT ![<<c, evaluating[c].day>>] = Persisted(c)]
    /\ OpenApproval(c)
    /\ events' = events \cup EventsOf(c)
    /\ evaluating' = [evaluating EXCEPT ![c] = NotEvaluating]
    /\ UNCHANGED <<policyVars, timezone, today, sweep, delivered, heard>>

DecideDispatchApproval(e, decision) ==
    /\ approvals[e].status = "OPEN"
    /\ approvals' = [approvals EXCEPT ![e].status = decision]
    /\ UNCHANGED <<policyVars, timezone, today, sweep, evaluating, evaluations, events,
                   delivered, heard>>

----------------------------------------------------------------------------
(* deliverPendingOutboxEvents, event by event.                             *)

\* order by occurred_at, id limit 1: of one day's, any.
Oldest(e) ==
    /\ e \in events \ delivered
    /\ \A x \in events \ delivered : e.day <= x.day

Deliver(e) ==
    /\ Oldest(e)
    /\ delivered' = delivered \cup {e} /\ heard' = heard \cup {e}
    /\ UNCHANGED <<policyVars, timezone, today, sweep, evaluating, evaluations, approvals, events>>

\* Mutant: an event whose delivery failed is marked as well.
GiveUp(e) ==
    /\ Oldest(e)
    /\ delivered' = delivered \cup {e}
    /\ UNCHANGED <<policyVars, timezone, today, sweep, evaluating, evaluations, approvals, events,
                   heard>>

\* The delivery throws and last_error is written, or the worker is cut off
\* after the delivery: the event stays for the next batch.
FailToDeliver(e) ==
    /\ Oldest(e)
    /\ heard' \in {heard, heard \cup {e}}
    /\ UNCHANGED <<policyVars, timezone, today, sweep, evaluating, evaluations, approvals, events,
                   delivered>>

----------------------------------------------------------------------------
Asking == \E p \in Callers : \E r \in Asked[timezone, p] : Ask(p, r) /\ UNCHANGED dayVars
Policies ==
    /\ (\E p \in Callers : Calling(p)) \/ (\E k \in Keys : Purge(k))
    /\ UNCHANGED dayVars
Evaluating(c) ==
    \/ \E day \in Days, outcome \in Outcomes : Evaluate(c, day, outcome)
    \/ StoreEvaluation(c) \/ Abandon(c)
Deciding == \E e \in Corridors \X Days, decision \in Decisions : DecideDispatchApproval(e, decision)
Worker == \E e \in Event : Deliver(e) \/ FailToDeliver(e)

Next ==
    \/ Asking \/ Policies
    \/ NextDay \/ BeginSweep \/ EndSweep
    \/ \E c \in Corridors : Evaluating(c)
    \/ Deciding \/ Worker

Spec == Init /\ [][Next]_vars

\* The worker runs every interval for as long as the process lives, and a
\* consumer that can be reached again and again takes the event in the end.
FairSpec == Spec /\ SF_vars(\E e \in Event : Deliver(e))

----------------------------------------------------------------------------
(* Properties.                                                             *)

TypeOK ==
    /\ PoliciesTypeOK
    /\ timezone \in BOOLEAN /\ today \in Days /\ sweep \in Days \cup {NoDay}
    /\ evaluating \in [Corridors -> Run]
    /\ evaluations \in [Corridors \X Days -> Evaluation]
    /\ approvals \in [Corridors \X Days -> Approval]
    /\ events \subseteq Event /\ delivered \subseteq events /\ heard \subseteq events

\* An approval is asked for by one evaluation and keeps the policy version
\* that evaluation was made under, however the policy and the day went on;
\* a corridor has one open approval, and an evaluation that has none of its
\* own found another.  Each one that needs approval is announced once, and a
\* corridor found ready has been announced.
ApprovalsCoherent ==
    /\ \A e \in Corridors \X Days :
          LET found == evaluations[e] IN
          /\ approvals[e] # NoApproval =>
                found.outcome = "APPROVAL_REQUIRED" /\ approvals[e].policy = found.policy
          /\ found.outcome = "APPROVAL_REQUIRED" => \E d \in Days : approvals[e[1], d] # NoApproval
          /\ found.outcome = "APPROVAL_REQUIRED" <=>
                [type |-> "dispatch.approval_required", corridor |-> e[1], day |-> e[2]] \in events
          /\ found.outcome = "READY" =>
                \E d \in Days : [type |-> "corridor.threshold_reached", corridor |-> e[1],
                                 day |-> d] \in events
    /\ \A c \in Corridors : Cardinality({d \in Days : approvals[c, d].status = "OPEN"}) <= 1

\* No evaluation of the same or of a later day takes back a decision.
DecisionsStand ==
    [][\A e \in Corridors \X Days :
          approvals[e].status \in Decisions => approvals'[e] = approvals[e]]_vars

\* Every event is heard in the end, if no event fails for ever.
EveryEventHeard == \A e \in Event : e \in events ~> e \in heard

=============================================================================
