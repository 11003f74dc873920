------------------------ MODULE DispatchEvaluationProofs --------------------
(***************************************************************************)
(* Evaluations, approvals and events of DispatchEvaluation, proved for any *)
(* number of corridors, days, callers and requests: an approval belongs to *)
(* the evaluation that asked for it and to the policy version that one was *)
(* made under, every finding is announced, and a decision stands.          *)
(***************************************************************************)
EXTENDS DispatchPoliciesProofs

----------------------------------------------------------------------------
(* Types.                                                                  *)

DayTypeOK ==
    /\ timezone \in BOOLEAN /\ today \in Days /\ sweep \in Days \cup {NoDay}
    /\ evaluating \in [Corridors -> Run]
    /\ evaluations \in [Corridors \X Days -> Evaluation]
    /\ approvals \in [Corridors \X Days -> Approval]
    /\ events \subseteq Event /\ delivered \subseteq events /\ heard \subseteq events

\* What an evaluation that is running is about to store.
LEMMA RunFacts ==
    ASSUME DayTypeOK, NEW c \in Corridors, evaluating[c] # NotEvaluating
    PROVE  /\ evaluating[c].day \in Days /\ evaluating[c].outcome \in Outcomes
           /\ <<c, evaluating[c].day>> \in Corridors \X Days
           /\ Persisted(c) \in [outcome : Outcomes, policy : Policy]
           /\ Persisted(c) # NoEvaluation
<1>1. evaluating[c] \in [day : Days, outcome : Outcomes, policy : Policy]
  BY DEF DayTypeOK, Run
<1>2. evaluating[c].day \in Days /\ <<c, evaluating[c].day>> \in Corridors \X Days BY <1>1
<1>3. evaluations[c, evaluating[c].day] \in Evaluation BY <1>2 DEF DayTypeOK
<1>4. Persisted(c) \in [outcome : Outcomes, policy : Policy]
  BY <1>1, <1>3 DEF Persisted, Evaluation
<1>5. Persisted(c) # NoEvaluation BY <1>4 DEF Outcomes, NoEvaluation
<1>6. QED BY <1>1, <1>2, <1>4, <1>5

LEMMA PolicyReadable ==
    ASSUME PoliciesTypeOK, NEW c \in Corridors
    PROVE  EffectivePolicies(c) \subseteq Policy
<1> DEFINE l == IF OverrideOf[c] = None THEN default ELSE OverrideOf[c]
<1>1. l \in Lineages \cup {None} BY EvaluationAssumption DEF PoliciesTypeOK
<1>2. CASE l = None BY <1>2 DEF EffectivePolicies
<1>3. CASE l \in Lineages
  <2>1. active[l] \subseteq Versions BY <1>3 DEF PoliciesTypeOK
  <2>2. l # None BY <1>3, PolicyAssumption
  <2>3. QED BY <1>3, <2>1, <2>2 DEF EffectivePolicies, Policy
<1>4. QED BY <1>1, <1>2, <1>3

\* What a step that stores an evaluation does to approvals.
LEMMA OpenedOrKept ==
    ASSUME DayTypeOK, NEW c \in Corridors, StoreEvaluation(c)
    PROVE  LET e == <<c, evaluating[c].day>>
               opened == [status |-> "OPEN", policy |-> Persisted(c).policy] IN
           \/ /\ Persisted(c).outcome = "APPROVAL_REQUIRED" /\ MayOpen(c, evaluating[c].day)
              /\ approvals' = [approvals EXCEPT ![e] = opened] /\ opened \in Approval
           \/ /\ Persisted(c).outcome = "APPROVAL_REQUIRED" => ~MayOpen(c, evaluating[c].day)
              /\ approvals' = approvals
<1>1. Persisted(c) \in [outcome : Outcomes, policy : Policy]
  BY RunFacts DEF StoreEvaluation
<1>2. Persisted(c).policy \in Policy BY <1>1
<1>3. [status |-> "OPEN", policy |-> Persisted(c).policy] \in Approval BY <1>2 DEF Approval
<1>4. QED BY <1>3 DEF StoreEvaluation, OpenApproval

LEMMA DayTypeStep ==
    ASSUME DayTypeOK, PoliciesTypeOK, [Next]_vars
    PROVE  DayTypeOK'
<1>1. CASE UNCHANGED dayVars BY <1>1 DEF dayVars, DayTypeOK
<1>2. CASE NextDay
  <2>1. today' \in Days BY <1>2, EvaluationAssumption DEF NextDay, DayTypeOK, Days
  <2>2. QED BY <1>2, <2>1 DEF NextDay, DayTypeOK
<1>3. CASE BeginSweep \/ EndSweep BY <1>3 DEF BeginSweep, EndSweep, DayTypeOK
<1>4. ASSUME NEW c \in Corridors, NEW day \in Days, NEW outcome \in Outcomes,
             Evaluate(c, day, outcome)
      PROVE  DayTypeOK'
  <2>1. PICK policy \in EffectivePolicies(c) :
           evaluating' = [evaluating EXCEPT ![c] =
               [day |-> day, outcome |-> outcome, policy |-> policy]]
    BY <1>4 DEF Evaluate
  <2>2. policy \in Policy BY PolicyReadable
  <2>3. evaluating' \in [Corridors -> Run] BY <2>1, <2>2 DEF DayTypeOK, Run
  <2>4. QED BY <1>4, <2>3 DEF Evaluate, DayTypeOK
<1>5. ASSUME NEW c \in Corridors, Abandon(c) PROVE DayTypeOK'
  <2>1. evaluating' \in [Corridors -> Run] BY <1>5 DEF Abandon, DayTypeOK, Run
  <2>2. QED BY <1>5, <2>1 DEF Abandon, DayTypeOK
<1>6. ASSUME NEW c \in Corridors, StoreEvaluation(c) PROVE DayTypeOK'
  <2>1. evaluating[c] # NotEvaluating BY <1>6 DEF StoreEvaluation
  <2>2. Persisted(c) \in Evaluation BY <2>1, RunFacts DEF Evaluation
  <2>3. evaluations' \in [Corridors \X Days -> Evaluation]
    BY <1>6, <2>2 DEF StoreEvaluation, DayTypeOK
  <2>4. approvals' \in [Corridors \X Days -> Approval] BY <1>6, OpenedOrKept DEF DayTypeOK
  <2>5. evaluating' \in [Corridors -> Run] BY <1>6 DEF StoreEvaluation, DayTypeOK, Run
  <2>6. EventsOf(c) \subseteq Event BY DEF EventsOf
  <2>7. QED BY <1>6, <2>3, <2>4, <2>5, <2>6 DEF StoreEvaluation, DayTypeOK
<1>7. ASSUME NEW e \in Corridors \X Days, NEW decision \in Decisions,
             DecideDispatchApproval(e, decision)
      PROVE  DayTypeOK'
  <2>1. approvals[e] \in [status : {"OPEN"} \cup Decisions, policy : Policy]
    BY <1>7 DEF DecideDispatchApproval, DayTypeOK, Approval, NoApproval
  <2>2. [approvals[e] EXCEPT !.status = decision] \in Approval BY <2>1 DEF Approval
  <2>3. approvals' = [approvals EXCEPT ![e] = [approvals[e] EXCEPT !.status = decision]]
    BY <1>7 DEF DecideDispatchApproval, DayTypeOK
  <2>4. approvals' \in [Corridors \X Days -> Approval] BY <2>2, <2>3 DEF DayTypeOK
  <2>5. QED BY <1>7, <2>4 DEF DecideDispatchApproval, DayTypeOK
<1>8. CASE Worker BY <1>8 DEF Worker, Deliver, FailToDeliver, Oldest, DayTypeOK
<1>9. CASE Asking \/ Policies BY <1>1, <1>9 DEF Asking, Policies
<1>10. CASE UNCHANGED vars BY <1>1, <1>10 DEF vars
<1>11. QED
  BY <1>2, <1>3, <1>4, <1>5, <1>6, <1>7, <1>8, <1>9, <1>10 DEF Next, Evaluating, Deciding

----------------------------------------------------------------------------
(* What was found and what was asked for it.                               *)

Needing(e) == [type |-> "dispatch.approval_required", corridor |-> e[1], day |-> e[2]]
Reached(c, d) == [type |-> "corridor.threshold_reached", corridor |-> c, day |-> d]

ApprovalsOfTheirEvaluation ==
    \A e \in Corridors \X Days : approvals[e] # NoApproval =>
        /\ evaluations[e].outcome = "APPROVAL_REQUIRED"
        /\ approvals[e].policy = evaluations[e].policy

NeedsAsked ==
    \A c \in Corridors, day \in Days :
        evaluations[c, day].outcome = "APPROVAL_REQUIRED"
        => \E d \in Days : approvals[c, d] # NoApproval

NeedsAnnounced ==
    \A e \in Corridors \X Days :
        evaluations[e].outcome = "APPROVAL_REQUIRED" <=> Needing(e) \in events

ReadyAnnounced ==
    \A c \in Corridors, day \in Days :
        evaluations[c, day].outcome = "READY" => \E d \in Days : Reached(c, d) \in events

OneOpen ==
    \A c \in Corridors : \A d1, d2 \in Days :
        approvals[c, d1].status = "OPEN" /\ approvals[c, d2].status = "OPEN" => d1 = d2

EvaluationInv ==
    /\ DayTypeOK
    /\ ApprovalsOfTheirEvaluation
    /\ NeedsAsked
    /\ NeedsAnnounced
    /\ ReadyAnnounced
    /\ OneOpen

\* A stored evaluation is never replaced.
LEMMA FoundStays ==
    ASSUME DayTypeOK, NEW c \in Corridors, StoreEvaluation(c)
    PROVE  LET e == <<c, evaluating[c].day>> IN
           /\ e \in Corridors \X Days
           /\ evaluations'[e] = Persisted(c)
           /\ evaluations[e] # NoEvaluation => Persisted(c) = evaluations[e]
           /\ \A x \in Corridors \X Days : x # e => evaluations'[x] = evaluations[x]
           /\ \A x \in Corridors \X Days :
                 evaluations[x] # NoEvaluation => evaluations'[x] = evaluations[x]
<1> DEFINE e == <<c, evaluating[c].day>>
<1>1. evaluating[c] # NotEvaluating BY DEF StoreEvaluation
<1>2. e \in Corridors \X Days BY <1>1, RunFacts
<1>3. evaluations' = [evaluations EXCEPT ![e] = Persisted(c)] BY DEF StoreEvaluation
<1>4. evaluations[e] # NoEvaluation => Persisted(c) = evaluations[e] BY DEF Persisted
<1>5. evaluations'[e] = Persisted(c) BY <1>2, <1>3 DEF DayTypeOK
<1>6. \A x \in Corridors \X Days : x # e => evaluations'[x] = evaluations[x]
  BY <1>3 DEF DayTypeOK
<1>7. \A x \in Corridors \X Days : evaluations[x] # NoEvaluation => evaluations'[x] = evaluations[x]
  BY <1>4, <1>5, <1>6
<1>8. QED BY <1>2, <1>4, <1>5, <1>6, <1>7

LEMMA NothingThere ==
    /\ NoApproval.status = "none" /\ NoApproval.status # "OPEN"
    /\ NoEvaluation.outcome \notin Outcomes
BY DEF NoApproval, NoEvaluation, Outcomes

\* What has an outcome is an evaluation.
LEMMA OutcomeIsFound ==
    ASSUME DayTypeOK, NEW e \in Corridors \X Days, evaluations[e].outcome \in Outcomes
    PROVE  evaluations[e] # NoEvaluation
BY DEF Outcomes, NoEvaluation

\* Approvals stay where they are.
LEMMA AskedStays ==
    ASSUME DayTypeOK, NEW c \in Corridors, StoreEvaluation(c),
           NEW x \in Corridors \X Days, approvals[x] # NoApproval
    PROVE  approvals'[x] = approvals[x]
<1> DEFINE e == <<c, evaluating[c].day>>
<1>1. approvals \in [Corridors \X Days -> Approval] BY DEF DayTypeOK
<1>2. CASE x = e /\ MayOpen(c, evaluating[c].day) BY <1>2 DEF MayOpen
<1>3. CASE ~MayOpen(c, evaluating[c].day) BY <1>3, OpenedOrKept
<1>4. CASE x # e BY <1>1, <1>4, OpenedOrKept
<1>5. QED BY <1>2, <1>3, <1>4

LEMMA StoreKeeps ==
    ASSUME EvaluationInv, DayTypeOK', NEW c \in Corridors, StoreEvaluation(c)
    PROVE  EvaluationInv'
<1> DEFINE day == evaluating[c].day
           e == <<c, day>>
           opened == [status |-> "OPEN", policy |-> Persisted(c).policy]
<1>0. DayTypeOK BY DEF EvaluationInv
<1>1. /\ e \in Corridors \X Days /\ evaluations'[e] = Persisted(c)
      /\ evaluations[e] # NoEvaluation => Persisted(c) = evaluations[e]
      /\ \A x \in Corridors \X Days : x # e => evaluations'[x] = evaluations[x]
      /\ \A x \in Corridors \X Days : evaluations[x] # NoEvaluation => evaluations'[x] = evaluations[x]
  BY <1>0, FoundStays
<1>2. \/ /\ Persisted(c).outcome = "APPROVAL_REQUIRED" /\ MayOpen(c, day)
         /\ approvals' = [approvals EXCEPT ![e] = opened]
      \/ /\ Persisted(c).outcome = "APPROVAL_REQUIRED" => ~MayOpen(c, day)
         /\ approvals' = approvals
  BY <1>0, OpenedOrKept
<1>3. approvals \in [Corridors \X Days -> Approval] BY <1>0 DEF DayTypeOK
<1>4. events' = events \cup EventsOf(c) BY DEF StoreEvaluation
<1>5. evaluating[c] # NotEvaluating /\ day \in Days /\ evaluating[c].outcome \in Outcomes
      /\ Persisted(c).outcome \in Outcomes
  BY <1>0, RunFacts DEF StoreEvaluation
<1>6. \A x \in Corridors \X Days : evaluations[x].outcome \in Outcomes => evaluations[x] # NoEvaluation
  BY <1>0, OutcomeIsFound
<1>7. ApprovalsOfTheirEvaluation'
  <2>1. ASSUME NEW x \in Corridors \X Days, approvals'[x] # NoApproval
        PROVE  /\ evaluations'[x].outcome = "APPROVAL_REQUIRED"
               /\ approvals'[x].policy = evaluations'[x].policy
    <3>1. CASE approvals[x] # NoApproval
      <4>1. approvals'[x] = approvals[x] BY <1>0, <3>1, AskedStays
      <4>2. /\ evaluations[x].outcome = "APPROVAL_REQUIRED"
            /\ approvals[x].policy = evaluations[x].policy
        BY <3>1 DEF EvaluationInv, ApprovalsOfTheirEvaluation
      <4>3. evaluations[x] # NoEvaluation BY <1>6, <4>2 DEF Outcomes
      <4>4. QED BY <1>1, <4>1, <4>2, <4>3
    <3>2. CASE approvals[x] = NoApproval
      <4>1. /\ x = e /\ Persisted(c).outcome = "APPROVAL_REQUIRED"
            /\ approvals' = [approvals EXCEPT ![e] = opened]
        BY <1>2, <1>3, <2>1, <3>2
      <4>2. approvals'[x] = opened BY <1>1, <1>3, <4>1
      <4>3. QED BY <1>1, <4>1, <4>2
    <3>3. QED BY <3>1, <3>2
  <2>2. QED BY <2>1 DEF ApprovalsOfTheirEvaluation
<1>8. NeedsAsked'
  <2>1. ASSUME NEW x \in Corridors, NEW d \in Days,
               evaluations'[x, d].outcome = "APPROVAL_REQUIRED"
        PROVE  \E y \in Days : approvals'[x, y] # NoApproval
    <3>1. CASE <<x, d>> = e
      <4>1. Persisted(c).outcome = "APPROVAL_REQUIRED" BY <1>1, <2>1, <3>1
      <4>2. CASE MayOpen(c, day)
        <5>1. approvals'[e] = opened BY <1>1, <1>2, <1>3, <4>1, <4>2
        <5>2. opened # NoApproval BY DEF NoApproval
        <5>3. QED BY <3>1, <5>1, <5>2
      <4>3. CASE ~MayOpen(c, day)
        <5>1. approvals' = approvals BY <1>2, <4>3
        <5>2. \E y \in Days : approvals[c, y] # NoApproval
          <6>1. CASE approvals[c, day] # NoApproval BY <1>5, <6>1
          <6>2. ASSUME NEW y \in Days, approvals[c, y].status = "OPEN"
                PROVE  approvals[c, y] # NoApproval
            BY <6>2, NothingThere
          <6>3. QED BY <4>3, <6>1, <6>2 DEF MayOpen
        <5>3. QED BY <3>1, <5>1, <5>2
      <4>4. QED BY <4>2, <4>3
    <3>2. CASE <<x, d>> # e
      <4>1. evaluations[x, d].outcome = "APPROVAL_REQUIRED" BY <1>1, <2>1, <3>2
      <4>2. PICK y \in Days : approvals[x, y] # NoApproval
        BY <4>1 DEF EvaluationInv, NeedsAsked
      <4>3. approvals'[<<x, y>>] = approvals[<<x, y>>] BY <1>0, <4>2, AskedStays
      <4>4. QED BY <4>2, <4>3
    <3>3. QED BY <3>1, <3>2
  <2>2. QED BY <2>1 DEF NeedsAsked
<1>9. NeedsAnnounced'
  <2>1. ASSUME NEW x \in Corridors \X Days
        PROVE  evaluations'[x].outcome = "APPROVAL_REQUIRED" <=> Needing(x) \in events'
    <3>1. Needing(x) \in Event BY DEF Needing, Event
    <3>2. CASE x = e
      <4>1. Needing(e) \in EventsOf(c) <=> Persisted(c).outcome = "APPROVAL_REQUIRED"
        BY <3>1, <3>2 DEF EventsOf, Needing
      <4>2. Needing(e) \in events => Persisted(c).outcome = "APPROVAL_REQUIRED"
        <5>1. ASSUME Needing(e) \in events PROVE evaluations[e].outcome = "APPROVAL_REQUIRED"
          BY <1>1, <5>1 DEF EvaluationInv, NeedsAnnounced
        <5>2. QED BY <1>1, <1>6, <5>1 DEF Outcomes
      <4>3. QED BY <1>1, <1>4, <3>2, <4>1, <4>2
    <3>3. CASE x # e
      <4>1. Needing(x) \notin EventsOf(c)
        <5>1. x = <<x[1], x[2]>> OBVIOUS
        <5>2. QED BY <3>3, <5>1 DEF EventsOf, Needing
      <4>2. QED BY <1>1, <1>4, <3>3, <4>1 DEF EvaluationInv, NeedsAnnounced
    <3>4. QED BY <3>2, <3>3
  <2>2. QED BY <2>1 DEF NeedsAnnounced
<1>10. ReadyAnnounced'
  <2>1. ASSUME NEW x \in Corridors, NEW d \in Days, evaluations'[x, d].outcome = "READY"
        PROVE  \E y \in Days : Reached(x, y) \in events'
    <3>1. CASE \E z \in Days : evaluations[x, z].outcome = "READY"
      BY <1>4, <3>1 DEF EvaluationInv, ReadyAnnounced
    <3>2. CASE ~\E z \in Days : evaluations[x, z].outcome = "READY"
      <4>1. <<x, d>> = e BY <1>1, <2>1, <3>2
      <4>2. Persisted(c).outcome = "READY" BY <1>1, <2>1, <4>1
      <4>3. evaluations[e] = NoEvaluation BY <1>1, <3>2, <4>1, <4>2
      <4>4. evaluating[c].outcome = "READY" BY <4>2, <4>3 DEF Persisted
      <4>5. ~PreviousWasReady(c) BY <3>2, <4>1 DEF PreviousWasReady
      <4>6. Crosses(c) BY <4>3, <4>4, <4>5 DEF Crosses
      <4>7. Reached(c, day) \in EventsOf(c) BY <1>5, <4>6 DEF EventsOf, Reached, Event
      <4>8. QED BY <1>4, <1>5, <4>1, <4>7
    <3>3. QED BY <3>1, <3>2
  <2>2. QED BY <2>1 DEF ReadyAnnounced
<1>11. OneOpen'
  <2>1. CASE approvals' = approvals BY <2>1 DEF EvaluationInv, OneOpen
  <2>2. CASE MayOpen(c, day) /\ approvals' = [approvals EXCEPT ![e] = opened]
    <3>1. \A d \in Days : approvals[c, d].status # "OPEN" BY <2>2 DEF MayOpen
    <3>2. \A x \in Corridors, d \in Days : <<x, d>> # e => approvals'[x, d] = approvals[x, d]
      BY <1>3, <2>2
    <3>3. ASSUME NEW x \in Corridors, NEW d1 \in Days, NEW d2 \in Days,
                 approvals'[x, d1].status = "OPEN", approvals'[x, d2].status = "OPEN"
          PROVE  d1 = d2
      <4>1. CASE x = c
        <5>1. \A d \in Days : approvals'[x, d].status = "OPEN" => d = day
          BY <3>1, <3>2, <4>1
        <5>2. QED BY <3>3, <5>1
      <4>2. CASE x # c
        <5>1. approvals'[x, d1] = approvals[x, d1] /\ approvals'[x, d2] = approvals[x, d2]
          BY <3>2, <4>2
        <5>2. QED BY <3>3, <5>1 DEF EvaluationInv, OneOpen
      <4>3. QED BY <4>1, <4>2
    <3>4. QED BY <3>3 DEF OneOpen
  <2>3. QED BY <1>2, <2>1, <2>2
<1>12. QED BY <1>7, <1>8, <1>9, <1>10, <1>11 DEF EvaluationInv

LEMMA DecideKeeps ==
    ASSUME EvaluationInv, DayTypeOK', NEW e \in Corridors \X Days, NEW decision \in Decisions,
           DecideDispatchApproval(e, decision)
    PROVE  EvaluationInv'
<1>1. /\ approvals[e].status = "OPEN"
      /\ approvals' = [approvals EXCEPT ![e].status = decision]
      /\ UNCHANGED <<evaluations, events>>
  BY DEF DecideDispatchApproval
<1>2. approvals \in [Corridors \X Days -> Approval] BY DEF EvaluationInv, DayTypeOK
<1>3. approvals[e] \in [status : {"OPEN"} \cup Decisions, policy : Policy]
  BY <1>1, <1>2 DEF Approval, NoApproval
<1>4. /\ approvals'[e].status = decision /\ approvals'[e].policy = approvals[e].policy
      /\ \A x \in Corridors \X Days : x # e => approvals'[x] = approvals[x]
  BY <1>1, <1>2, <1>3
<1>5. approvals[e] # NoApproval BY <1>3 DEF NoApproval
<1>6. approvals'[e] # NoApproval
  <2>1. approvals'[e] = [approvals[e] EXCEPT !.status = decision] BY <1>1, <1>2
  <2>2. QED BY <1>3, <2>1 DEF NoApproval
<1>7. ApprovalsOfTheirEvaluation'
  BY <1>1, <1>4, <1>5 DEF EvaluationInv, ApprovalsOfTheirEvaluation
<1>8. NeedsAsked'
  <2>1. \A x \in Corridors \X Days : approvals[x] # NoApproval => approvals'[x] # NoApproval
    BY <1>4, <1>6
  <2>2. ASSUME NEW c \in Corridors, NEW day \in Days,
               evaluations'[c, day].outcome = "APPROVAL_REQUIRED"
        PROVE  \E d \in Days : approvals'[c, d] # NoApproval
    <3>1. PICK d \in Days : approvals[c, d] # NoApproval
      BY <1>1, <2>2 DEF EvaluationInv, NeedsAsked
    <3>2. approvals'[<<c, d>>] # NoApproval BY <2>1, <3>1
    <3>3. QED BY <3>2
  <2>3. QED BY <2>2 DEF NeedsAsked
<1>9. NeedsAnnounced' /\ ReadyAnnounced'
  BY <1>1 DEF EvaluationInv, NeedsAnnounced, ReadyAnnounced, Needing, Reached
<1>10. OneOpen'
  <2>1. decision # "OPEN" BY EvaluationAssumption
  <2>2. \A x \in Corridors \X Days : approvals'[x].status = "OPEN" => approvals[x].status = "OPEN"
    BY <1>4, <2>1
  <2>3. ASSUME NEW c \in Corridors, NEW d1 \in Days, NEW d2 \in Days,
               approvals'[c, d1].status = "OPEN", approvals'[c, d2].status = "OPEN"
        PROVE  d1 = d2
    <3>1. approvals[<<c, d1>>].status = "OPEN" /\ approvals[<<c, d2>>].status = "OPEN"
      BY <2>2, <2>3
    <3>2. QED BY <3>1 DEF EvaluationInv, OneOpen
  <2>4. QED BY <2>3 DEF OneOpen
<1>11. QED BY <1>7, <1>8, <1>9, <1>10 DEF EvaluationInv

LEMMA EvaluationStep ==
    ASSUME EvaluationInv, PoliciesTypeOK, [Next]_vars
    PROVE  EvaluationInv'
<1>1. DayTypeOK' BY DayTypeStep DEF EvaluationInv
<1>2. CASE UNCHANGED <<evaluations, approvals, events>>
  BY <1>1, <1>2 DEF EvaluationInv, ApprovalsOfTheirEvaluation, NeedsAsked, NeedsAnnounced,
     ReadyAnnounced, OneOpen, Needing, Reached
<1>3. CASE Asking \/ Policies \/ NextDay \/ BeginSweep \/ EndSweep \/ Worker \/ UNCHANGED vars
  BY <1>2, <1>3 DEF Asking, Policies, NextDay, BeginSweep, EndSweep, Worker, Deliver,
     FailToDeliver, dayVars, vars
<1>4. ASSUME NEW c \in Corridors, Evaluating(c) PROVE EvaluationInv'
  <2>1. CASE StoreEvaluation(c) BY <1>1, <2>1, StoreKeeps
  <2>2. CASE Abandon(c) BY <1>2, <2>2 DEF Abandon
  <2>3. ASSUME NEW day \in Days, NEW outcome \in Outcomes, Evaluate(c, day, outcome)
        PROVE  EvaluationInv'
    BY <1>2, <2>3 DEF Evaluate
  <2>4. QED BY <1>4, <2>1, <2>2, <2>3 DEF Evaluating
<1>5. CASE Deciding BY <1>1, <1>5, DecideKeeps DEF Deciding
<1>6. QED BY <1>3, <1>4, <1>5 DEF Next

LEMMA EvaluationStart ==
    ASSUME Init
    PROVE  EvaluationInv
<1>1. DayTypeOK
  <2>1. timezone \in BOOLEAN /\ today \in Days /\ sweep \in Days \cup {NoDay}
    BY EvaluationAssumption DEF Init, Days, NoDay
  <2>2. /\ evaluating \in [Corridors -> Run]
        /\ evaluations \in [Corridors \X Days -> Evaluation]
        /\ approvals \in [Corridors \X Days -> Approval]
    BY DEF Init, Run, Evaluation, Approval
  <2>3. events = {} /\ delivered = {} /\ heard = {} BY DEF Init
  <2>4. QED BY <2>1, <2>2, <2>3 DEF DayTypeOK
<1>2. /\ \A e \in Corridors \X Days : evaluations[e] = NoEvaluation /\ approvals[e] = NoApproval
      /\ events = {}
  BY DEF Init
<1>3. /\ \A e \in Corridors \X Days :
            evaluations[e].outcome \notin Outcomes /\ approvals[e].status # "OPEN"
      /\ \A c \in Corridors, d \in Days :
            evaluations[c, d].outcome \notin Outcomes /\ approvals[c, d].status # "OPEN"
  BY <1>2, NothingThere
<1>4. QED
  BY <1>1, <1>2, <1>3 DEF EvaluationInv, ApprovalsOfTheirEvaluation, NeedsAsked, NeedsAnnounced,
     ReadyAnnounced, OneOpen, Outcomes

LEMMA EvaluationSafety == Spec => []EvaluationInv
<1>1. Init => EvaluationInv BY EvaluationStart
<1>2. PoliciesInv => PoliciesTypeOK BY DEF PoliciesInv
<1>3. EvaluationInv /\ PoliciesTypeOK /\ [Next]_vars => EvaluationInv' BY EvaluationStep
<1>4. QED BY <1>1, <1>2, <1>3, PoliciesSafety, PTL DEF Spec

----------------------------------------------------------------------------
(* The theorems.                                                           *)

\* Policies, keys, calls, evaluations, approvals and events keep their types.
THEOREM EvaluationTypeCorrect == Spec => []TypeOK
<1>1. PoliciesInv /\ EvaluationInv => TypeOK
  BY DEF PoliciesInv, EvaluationInv, DayTypeOK, TypeOK
<1>2. QED BY <1>1, PoliciesSafety, EvaluationSafety, PTL

\* An approval belongs to the evaluation that asked for it and keeps its
\* policy version, a corridor has one open approval, what needs approval is
\* announced and a corridor found ready has been announced.
THEOREM ApprovalsStayCoherent == Spec => []ApprovalsCoherent
<1>1. EvaluationInv => ApprovalsCoherent
  <2> SUFFICES ASSUME EvaluationInv PROVE ApprovalsCoherent OBVIOUS
  <2>1. ASSUME NEW e \in Corridors \X Days
        PROVE  LET found == evaluations[e] IN
               /\ approvals[e] # NoApproval =>
                     found.outcome = "APPROVAL_REQUIRED" /\ approvals[e].policy = found.policy
               /\ found.outcome = "APPROVAL_REQUIRED" =>
                     \E d \in Days : approvals[e[1], d] # NoApproval
               /\ found.outcome = "APPROVAL_REQUIRED" <=>
                     [type |-> "dispatch.approval_required", corridor |-> e[1], day |-> e[2]]
                     \in events
               /\ found.outcome = "READY" =>
                     \E d \in Days : [type |-> "corridor.threshold_reached", corridor |-> e[1],
                                      day |-> d] \in events
    <3>1. PICK c \in Corridors, day \in Days : e = <<c, day>> OBVIOUS
    <3>2. /\ approvals[e] # NoApproval =>
                evaluations[e].outcome = "APPROVAL_REQUIRED"
                /\ approvals[e].policy = evaluations[e].policy
          /\ evaluations[e].outcome = "APPROVAL_REQUIRED" <=> Needing(e) \in events
      BY DEF EvaluationInv, ApprovalsOfTheirEvaluation, NeedsAnnounced
    <3>3. /\ evaluations[e].outcome = "APPROVAL_REQUIRED" =>
                \E d \in Days : approvals[c, d] # NoApproval
          /\ evaluations[e].outcome = "READY" => \E d \in Days : Reached(c, d) \in events
      BY <3>1 DEF EvaluationInv, NeedsAsked, ReadyAnnounced
    <3>4. QED BY <3>1, <3>2, <3>3 DEF Needing, Reached
  <2>2. ASSUME NEW c \in Corridors
        PROVE  Cardinality({d \in Days : approvals[c, d].status = "OPEN"}) <= 1
    <3> DEFINE open == {d \in Days : approvals[c, d].status = "OPEN"}
    <3>1. \A d1, d2 \in open : d1 = d2 BY DEF EvaluationInv, OneOpen
    <3>2. CASE open = {}
      <4>1. Cardinality({}) = 0 BY FS_EmptySet
      <4> HIDE DEF open
      <4>2. Cardinality(open) <= 1 BY <3>2, <4>1
      <4>3. QED BY <4>2 DEF open
    <3>3. ASSUME NEW d \in open PROVE Cardinality(open) <= 1
      <4>1. open = {d} BY <3>1
      <4>2. Cardinality({d}) = 1 BY FS_Singleton
      <4> HIDE DEF open
      <4>3. QED BY <4>1, <4>2
    <3>4. open = {} \/ \E d \in open : TRUE OBVIOUS
    <3> HIDE DEF open
    <3>5. Cardinality(open) <= 1 BY <3>2, <3>3, <3>4 DEF open
    <3>6. QED BY <3>5 DEF open
  <2>3. QED BY <2>1, <2>2 DEF ApprovalsCoherent
<1>2. QED BY <1>1, EvaluationSafety, PTL

\* No later evaluation, of the day or of another, takes back a decision.
THEOREM DecisionsAreFinal == Spec => DecisionsStand
<1>1. ASSUME EvaluationInv, [Next]_vars, NEW e \in Corridors \X Days,
             approvals[e].status \in Decisions
      PROVE  approvals'[e] = approvals[e]
  <2>1. DayTypeOK BY <1>1 DEF EvaluationInv
  <2>2. approvals \in [Corridors \X Days -> Approval] BY <2>1 DEF DayTypeOK
  <2>3. CASE UNCHANGED approvals BY <2>3
  <2>4. CASE Asking \/ Policies \/ NextDay \/ BeginSweep \/ EndSweep \/ Worker \/ UNCHANGED vars
    BY <2>3, <2>4 DEF Asking, Policies, NextDay, BeginSweep, EndSweep, Worker, Deliver,
       FailToDeliver, dayVars, vars
  <2>5. ASSUME NEW c \in Corridors, Evaluating(c) PROVE approvals'[e] = approvals[e]
    <3>1. CASE StoreEvaluation(c)
      <4>1. approvals[e] # NoApproval BY <1>1, NothingThere, EvaluationAssumption
      <4>2. QED BY <2>1, <3>1, <4>1, AskedStays
    <3>2. CASE ~StoreEvaluation(c) BY <2>3, <2>5, <3>2 DEF Evaluating, Evaluate, Abandon
    <3>3. QED BY <3>1, <3>2
  <2>6. CASE Deciding
    <3>1. PICK x \in Corridors \X Days, decision \in Decisions : DecideDispatchApproval(x, decision)
      BY <2>6 DEF Deciding
    <3>2. x # e BY <1>1, <3>1, EvaluationAssumption DEF DecideDispatchApproval
    <3>3. QED BY <2>2, <3>1, <3>2 DEF DecideDispatchApproval
  <2>7. QED BY <1>1, <2>4, <2>5, <2>6 DEF Next
<1>2. EvaluationInv /\ [Next]_vars =>
      [\A e \in Corridors \X Days :
          approvals[e].status \in Decisions => approvals'[e] = approvals[e]]_vars
  BY <1>1
<1>3. QED BY <1>2, EvaluationSafety, PTL DEF Spec, DecisionsStand

=============================================================================
