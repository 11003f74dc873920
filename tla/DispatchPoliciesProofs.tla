------------------------ MODULE DispatchPoliciesProofs -----------------------
(***************************************************************************)
(* What keys and locks give the calls on dispatch policies, proved for any *)
(* number of callers, keys, requests, policies and versions: a key changes *)
(* something once, versions form a chain, and a change is committed over   *)
(* what its caller expected.                                               *)
(***************************************************************************)
EXTENDS DispatchEvaluation, FiniteSetTheorems, TLAPS

----------------------------------------------------------------------------
(* The invariant.                                                          *)

\* A key, a lineage and the settings row are held by one call at a time.
HeldByOne ==
    \A p, q \in Callers : p # q =>
        /\ \A k \in Keys : ~(HoldsKey(p, k) /\ HoldsKey(q, k))
        /\ \A l \in Lineages : ~(HoldsLineage(p, l) /\ HoldsLineage(q, l))
        /\ ~(HoldsSettings(p) /\ HoldsSettings(q))

\* A key is claimed only while it has no record.
ClaimedIsNew == \A p \in Callers, k \in Keys : HoldsKey(p, k) => records[k] = NoRecord

\* The versions of a lineage as a chain, without counting them.
Chained(l) ==
    \E n \in Nat : versions[l] = 1..n /\ active[l] = {n} \ {0}

\* What a call read under its locks still holds.
ReadIsCurrent ==
    \A p \in Callers :
        /\ \A l \in Lineages : HoldsLineage(p, l) => active[l] = {calls[p].seen}
        /\ Active(p) /\ calls[p].request.op = "create" => calls[p].seen = 0
        /\ HoldsSettings(p) => calls[p].request.expects \in {Any, default}

PoliciesInv ==
    /\ PoliciesTypeOK /\ timezone \in BOOLEAN
    /\ KeyedOnce
    /\ HeldByOne
    /\ ClaimedIsNew
    /\ \A l \in Lineages : Chained(l)
    /\ ReadIsCurrent

LEMMA RequestFacts ==
    ASSUME NEW r \in Requests
    PROVE  /\ r \in Request
           /\ r # None
           /\ (r.lineage = None) <=> (r.op = "create")
           /\ r.op # "create" => r.lineage \in Lineages
           /\ r.version # Any => r.version \in Versions /\ r.version # 0
<1>1. r \in Request /\ r # None /\ ((r.lineage = None) <=> (r.op = "create"))
  BY PolicyAssumption
<1>2. QED BY <1>1 DEF Request, Versions

LEMMA InCall ==
    ASSUME PoliciesTypeOK, NEW p \in Callers, Active(p)
    PROVE  /\ calls[p] \in [phase : {"asked", "lookup", "claimed", "lineage", "settings"},
                            request : Requests, seen : Versions \cup {0}]
           /\ calls[p].request \in Requests
           /\ calls[p].request.key \in Keys \cup {NoKey}
<1>1. calls[p] \in Call BY DEF PoliciesTypeOK
<1>2. calls[p] # NoCall BY DEF Active, NoCall
<1>3. calls[p].request \in Requests BY <1>1, <1>2 DEF Call
<1>4. calls[p].request \in Request BY <1>3, RequestFacts
<1>5. QED BY <1>1, <1>2, <1>3, <1>4 DEF Call, Request

----------------------------------------------------------------------------
(* Steps.                                                                  *)

LEMMA StepCases ==
    ASSUME timezone \in BOOLEAN, [Next]_vars
    PROVE  \/ UNCHANGED policyVars
           \/ \E p \in Callers :
                 \/ \E r \in Requests : Ask(p, r)
                 \/ ClaimKey(p) \/ LookAgain(p) \/ LockLineage(p) \/ LockSettings(p)
                 \/ Replay(p) \/ Commit(p) \/ Abort(p)
           \/ \E k \in Keys : Purge(k)
<1>1. CASE UNCHANGED vars BY <1>1 DEF vars
<1>2. CASE Asking
  <2>1. PICK p \in Callers : \E r \in Asked[timezone, p] : Ask(p, r) BY <1>2 DEF Asking
  <2>2. Asked[timezone, p] \subseteq Requests BY EvaluationAssumption
  <2>3. QED BY <2>1, <2>2
<1>3. CASE Policies BY <1>3 DEF Policies, Calling
<1>4. CASE NextDay \/ BeginSweep \/ EndSweep BY <1>4 DEF NextDay, BeginSweep, EndSweep
<1>5. ASSUME NEW c \in Corridors, Evaluating(c) PROVE UNCHANGED policyVars
  BY <1>5 DEF Evaluating, Evaluate, StoreEvaluation, Abandon
<1>6. CASE Deciding BY <1>6 DEF Deciding, DecideDispatchApproval
<1>7. CASE Worker BY <1>7 DEF Worker, Deliver, FailToDeliver
<1>8. QED BY <1>1, <1>2, <1>3, <1>4, <1>5, <1>6, <1>7 DEF Next

\* Nothing that is stored changes.
DataStays == UNCHANGED <<versions, active, default, records, mutations, purges>>

\* What a call that has got as far as c holds.
KeyOf(c, k) == c.phase \in {"claimed", "lineage", "settings"} /\ c.request.key = k
LineageOf(c, l) == c.phase \in {"lineage", "settings"} /\ c.request.lineage = l

\* A call that moves on to c takes what nobody holds and has read what holds.
Sound(p, c) ==
    /\ \A k \in Keys : KeyOf(c, k) =>
          records[k] = NoRecord /\ \A q \in Callers \ {p} : ~HoldsKey(q, k)
    /\ \A l \in Lineages : LineageOf(c, l) =>
          active[l] = {c.seen} /\ \A q \in Callers \ {p} : ~HoldsLineage(q, l)
    /\ c.phase # "idle" /\ c.request.op = "create" => c.seen = 0
    /\ c.phase = "settings" =>
          c.request.expects \in {Any, default} /\ \A q \in Callers \ {p} : ~HoldsSettings(q)

LEMMA CallMoves ==
    ASSUME PoliciesInv, NEW p \in Callers, NEW c \in Call, Sound(p, c),
           calls' = [calls EXCEPT ![p] = c], DataStays, UNCHANGED <<answers, timezone>>
    PROVE  PoliciesInv'
<1>1. calls \in [Callers -> Call] BY DEF PoliciesInv, PoliciesTypeOK
<1>2. calls'[p] = c /\ \A q \in Callers \ {p} : calls'[q] = calls[q] BY <1>1
<1>3. PoliciesTypeOK' /\ timezone' \in BOOLEAN
  BY <1>1 DEF PoliciesInv, PoliciesTypeOK, DataStays
<1>4. KeyedOnce' BY DEF PoliciesInv, KeyedOnce, DataStays
<1>5. /\ \A k \in Keys : HoldsKey(p, k)' <=> KeyOf(c, k)
      /\ \A l \in Lineages : HoldsLineage(p, l)' <=> LineageOf(c, l)
      /\ HoldsSettings(p)' <=> c.phase = "settings"
  BY <1>2 DEF HoldsKey, KeyOf, HoldsLineage, LineageOf, HoldsSettings, Active
<1>6. ASSUME NEW q \in Callers \ {p}
      PROVE  /\ \A k \in Keys : HoldsKey(q, k)' <=> HoldsKey(q, k)
             /\ \A l \in Lineages : HoldsLineage(q, l)' <=> HoldsLineage(q, l)
             /\ HoldsSettings(q)' <=> HoldsSettings(q)
             /\ Active(q)' <=> Active(q)
  BY <1>2 DEF HoldsKey, HoldsLineage, HoldsSettings, Active
<1>7. HeldByOne' BY <1>5, <1>6 DEF PoliciesInv, HeldByOne, Sound
<1>8. ClaimedIsNew' BY <1>5, <1>6 DEF PoliciesInv, ClaimedIsNew, Sound, DataStays
<1>9. \A l \in Lineages : Chained(l)' BY DEF PoliciesInv, Chained, DataStays
<1>10. ReadIsCurrent'
  <2>1. ASSUME NEW q \in Callers \ {p}
        PROVE  /\ \A l \in Lineages : HoldsLineage(q, l)' => active'[l] = {calls'[q].seen}
               /\ Active(q)' /\ calls'[q].request.op = "create" => calls'[q].seen = 0
               /\ HoldsSettings(q)' => calls'[q].request.expects \in {Any, default'}
    BY <1>2, <1>6 DEF PoliciesInv, ReadIsCurrent, DataStays
  <2>2. /\ \A l \in Lineages : HoldsLineage(p, l)' => active'[l] = {calls'[p].seen}
        /\ Active(p)' /\ calls'[p].request.op = "create" => calls'[p].seen = 0
        /\ HoldsSettings(p)' => calls'[p].request.expects \in {Any, default'}
    BY <1>2, <1>5 DEF Sound, DataStays, Active
  <2>3. QED BY <2>1, <2>2 DEF ReadIsCurrent
<1>11. QED BY <1>3, <1>4, <1>7, <1>8, <1>9, <1>10 DEF PoliciesInv

\* A call that ends without a commit lets go of what it held.
LEMMA CallEnds ==
    ASSUME PoliciesInv, NEW p \in Callers, End(p), DataStays, UNCHANGED <<answers, timezone>>
    PROVE  PoliciesInv'
<1>1. NoCall \in Call BY DEF Call
<1>2. Sound(p, NoCall) BY DEF Sound, NoCall, KeyOf, LineageOf
<1>3. QED BY <1>1, <1>2, CallMoves DEF End

LEMMA AskKeeps ==
    ASSUME PoliciesInv, NEW p \in Callers, NEW r \in Requests, Ask(p, r), UNCHANGED timezone
    PROVE  PoliciesInv'
<1> DEFINE c == [phase |-> "asked", request |-> r, seen |-> 0]
<1>1. c \in Call BY DEF Call
<1>2. Sound(p, c) BY DEF Sound, KeyOf, LineageOf
<1>3. calls' = [calls EXCEPT ![p] = c] /\ DataStays /\ UNCHANGED answers BY DEF Ask, DataStays
<1>4. QED BY <1>1, <1>2, <1>3, CallMoves

\* Every step but the commit keeps the request.
LEMMA GoesTo ==
    ASSUME PoliciesInv, NEW p \in Callers, Active(p),
           NEW phase \in {"asked", "lookup", "claimed", "lineage", "settings"}, Go(p, phase)
    PROVE  \E c \in Call :
              /\ c.phase = phase /\ c.request = calls[p].request /\ c.seen = calls[p].seen
              /\ calls' = [calls EXCEPT ![p] = c]
<1>1. calls[p] \in [phase : {"asked", "lookup", "claimed", "lineage", "settings"},
                    request : Requests, seen : Versions \cup {0}]
  BY InCall DEF PoliciesInv
<1> DEFINE c == [calls[p] EXCEPT !.phase = phase]
<1>2. c \in Call /\ c.phase = phase /\ c.request = calls[p].request /\ c.seen = calls[p].seen
  BY <1>1 DEF Call
<1>3. calls' = [calls EXCEPT ![p] = c] BY DEF Go
<1>4. QED BY <1>2, <1>3

LEMMA ClaimKeeps ==
    ASSUME PoliciesInv, NEW p \in Callers, ClaimKey(p), UNCHANGED timezone
    PROVE  PoliciesInv'
<1> DEFINE k == calls[p].request.key
           phase == IF k = NoKey \/ records[k] = NoRecord THEN "claimed" ELSE "lookup"
<1>1. Active(p) /\ Go(p, phase) /\ DataStays /\ UNCHANGED answers
  BY DEF ClaimKey, At, DataStays
<1>2. PICK c \in Call :
         /\ c.phase = phase /\ c.request = calls[p].request /\ c.seen = calls[p].seen
         /\ calls' = [calls EXCEPT ![p] = c]
  BY <1>1, GoesTo
<1>3. \A q \in Callers \ {p} : k # NoKey => ~HoldsKey(q, k) BY DEF ClaimKey
<1>4. Sound(p, c)
  <2>1. ASSUME NEW x \in Keys, KeyOf(c, x)
        PROVE  records[x] = NoRecord /\ \A q \in Callers \ {p} : ~HoldsKey(q, x)
    BY <1>2, <1>3, <2>1, PolicyAssumption DEF KeyOf
  <2>2. c.request.op = "create" => c.seen = 0 BY <1>1, <1>2 DEF PoliciesInv, ReadIsCurrent
  <2>3. c.phase \notin {"lineage", "settings"} BY <1>2
  <2>4. QED BY <2>1, <2>2, <2>3 DEF Sound, LineageOf
<1>5. QED BY <1>1, <1>2, <1>4, CallMoves

LEMMA LookAgainKeeps ==
    ASSUME PoliciesInv, NEW p \in Callers, LookAgain(p), UNCHANGED timezone
    PROVE  PoliciesInv'
<1>1. Active(p) /\ Go(p, "asked") /\ DataStays /\ UNCHANGED answers
  BY DEF LookAgain, At, DataStays
<1>2. PICK c \in Call :
         /\ c.phase = "asked" /\ c.request = calls[p].request /\ c.seen = calls[p].seen
         /\ calls' = [calls EXCEPT ![p] = c]
  BY <1>1, GoesTo
<1>3. Sound(p, c) BY <1>1, <1>2 DEF Sound, KeyOf, LineageOf, PoliciesInv, ReadIsCurrent
<1>4. QED BY <1>1, <1>2, <1>3, CallMoves

\* What a call has locked stays its own as it locks more.
LEMMA KeepsKey ==
    ASSUME PoliciesInv, NEW p \in Callers, NEW k \in Keys, HoldsKey(p, k)
    PROVE  records[k] = NoRecord /\ \A q \in Callers \ {p} : ~HoldsKey(q, k)
BY DEF PoliciesInv, ClaimedIsNew, HeldByOne

LEMMA LockLineageKeeps ==
    ASSUME PoliciesInv, NEW p \in Callers, LockLineage(p), UNCHANGED timezone
    PROVE  PoliciesInv'
<1> DEFINE l == calls[p].request.lineage
<1>1. PICK v \in active[l] : calls' = [calls EXCEPT ![p].phase = "lineage", ![p].seen = v]
  BY DEF LockLineage
<1>2. /\ Active(p) /\ calls[p].phase = "claimed" /\ l # None /\ DataStays /\ UNCHANGED answers
      /\ \A q \in Callers \ {p} : ~HoldsLineage(q, l)
  BY DEF LockLineage, At, DataStays
<1>3. calls[p].request \in Requests BY <1>2, InCall DEF PoliciesInv
<1>4. l \in Lineages /\ calls[p].request.op # "create" BY <1>2, <1>3, RequestFacts
<1>5. v \in Versions /\ active[l] = {v}
  <2>1. active[l] \subseteq Versions BY <1>4 DEF PoliciesInv, PoliciesTypeOK
  <2>2. PICK n \in Nat : active[l] = {n} \ {0} BY <1>4 DEF PoliciesInv, Chained
  <2>3. QED BY <1>1, <2>1, <2>2
<1> DEFINE c == [calls[p] EXCEPT !.phase = "lineage", !.seen = v]
<1>6. /\ c \in Call /\ c.phase = "lineage" /\ c.request = calls[p].request /\ c.seen = v
  <2>1. calls[p] \in [phase : {"asked", "lookup", "claimed", "lineage", "settings"},
                      request : Requests, seen : Versions \cup {0}]
    BY <1>2, InCall DEF PoliciesInv
  <2>2. QED BY <1>5, <2>1 DEF Call
<1>7. calls' = [calls EXCEPT ![p] = c]
  <2>1. calls \in [Callers -> Call] BY DEF PoliciesInv, PoliciesTypeOK
  <2>2. QED BY <1>1, <2>1
<1>8. Sound(p, c)
  <2>1. ASSUME NEW x \in Keys, KeyOf(c, x)
        PROVE  records[x] = NoRecord /\ \A q \in Callers \ {p} : ~HoldsKey(q, x)
    <3>1. HoldsKey(p, x) BY <1>2, <1>6, <2>1 DEF HoldsKey, KeyOf
    <3>2. QED BY <3>1, KeepsKey
  <2>2. QED BY <1>2, <1>4, <1>5, <1>6, <2>1 DEF Sound, LineageOf
<1>9. QED BY <1>2, <1>6, <1>7, <1>8, CallMoves

LEMMA LockSettingsKeeps ==
    ASSUME PoliciesInv, NEW p \in Callers, LockSettings(p), UNCHANGED timezone
    PROVE  PoliciesInv'
<1>1. /\ Active(p) /\ LineageDone(p) /\ Go(p, "settings") /\ DataStays /\ UNCHANGED answers
      /\ calls[p].request.expects \in {Any, default}
      /\ \A q \in Callers \ {p} : ~HoldsSettings(q)
  BY DEF LockSettings, DataStays
<1>2. PICK c \in Call :
         /\ c.phase = "settings" /\ c.request = calls[p].request /\ c.seen = calls[p].seen
         /\ calls' = [calls EXCEPT ![p] = c]
  BY <1>1, GoesTo
<1>3. calls[p].request \in Requests BY <1>1, InCall DEF PoliciesInv
<1>4. calls[p].phase = IF calls[p].request.op = "create" THEN "claimed" ELSE "lineage"
  BY <1>1 DEF LineageDone, At
<1>5. Sound(p, c)
  <2>1. ASSUME NEW x \in Keys, KeyOf(c, x)
        PROVE  records[x] = NoRecord /\ \A q \in Callers \ {p} : ~HoldsKey(q, x)
    <3>1. HoldsKey(p, x) BY <1>1, <1>2, <1>4, <2>1 DEF HoldsKey, KeyOf
    <3>2. QED BY <3>1, KeepsKey
  <2>2. ASSUME NEW l \in Lineages, LineageOf(c, l)
        PROVE  active[l] = {c.seen} /\ \A q \in Callers \ {p} : ~HoldsLineage(q, l)
    <3>1. l # None BY PolicyAssumption
    <3>2. calls[p].request.op # "create"
      BY <1>2, <1>3, <2>2, <3>1, RequestFacts DEF LineageOf
    <3>3. HoldsLineage(p, l) BY <1>1, <1>2, <1>4, <2>2, <3>2 DEF HoldsLineage, LineageOf
    <3>4. active[l] = {calls[p].seen} BY <3>3 DEF PoliciesInv, ReadIsCurrent
    <3>5. QED BY <1>2, <3>3, <3>4 DEF PoliciesInv, HeldByOne
  <2>3. c.request.op = "create" => c.seen = 0 BY <1>1, <1>2 DEF PoliciesInv, ReadIsCurrent
  <2>4. QED BY <1>1, <1>2, <2>1, <2>2, <2>3 DEF Sound
<1>6. QED BY <1>1, <1>2, <1>5, CallMoves

LEMMA ReplayKeeps ==
    ASSUME PoliciesInv, NEW p \in Callers, Replay(p), UNCHANGED timezone
    PROVE  PoliciesInv'
<1> DEFINE k == calls[p].request.key
           a == records[k].answer
<1>1. /\ Active(p) /\ End(p) /\ DataStays /\ records[k].request = calls[p].request
      /\ answers' = [answers EXCEPT ![k] = @ \cup {a}]
  BY DEF Replay, At, DataStays
<1>2. calls[p].request \in Requests BY <1>1, InCall DEF PoliciesInv
<1>3. k \in Keys => records[k] # NoRecord /\ a \in Answer
  <2>1. calls[p].request # None BY <1>2, RequestFacts
  <2>2. k \in Keys => records[k] \in Record BY DEF PoliciesInv, PoliciesTypeOK
  <2>3. QED BY <1>1, <2>1, <2>2 DEF Record, NoRecord
<1>4. PoliciesTypeOK' /\ KeyedOnce'
  <2>1. answers \in [Keys -> SUBSET Answer] BY DEF PoliciesInv, PoliciesTypeOK
  <2>2. answers' \in [Keys -> SUBSET Answer] BY <1>1, <1>3, <2>1
  <2>3. calls' \in [Callers -> Call] BY <1>1 DEF PoliciesInv, PoliciesTypeOK, End, Call
  <2>4. PoliciesTypeOK' BY <1>1, <2>2, <2>3 DEF PoliciesInv, PoliciesTypeOK, DataStays
  <2>5. ASSUME NEW x \in Keys
        PROVE  IF records'[x] = NoRecord THEN mutations'[x] = 0 /\ answers'[x] = {}
               ELSE mutations'[x] = 1 /\ answers'[x] \subseteq {records'[x].answer}
    <3>1. CASE x = k BY <1>1, <1>3, <2>1, <3>1 DEF PoliciesInv, KeyedOnce, DataStays
    <3>2. CASE x # k
      <4>1. answers'[x] = answers[x] BY <1>1, <2>1, <3>2
      <4>2. QED BY <1>1, <4>1 DEF PoliciesInv, KeyedOnce, DataStays
    <3>3. QED BY <3>1, <3>2
  <2>6. KeyedOnce' BY <2>5 DEF KeyedOnce
  <2>7. QED BY <2>4, <2>6
<1>5. \A q \in Callers : calls'[q] = calls[q] \/ calls'[q] = NoCall
  BY <1>1 DEF End, PoliciesInv, PoliciesTypeOK
<1>6. \A q \in Callers :
         /\ \A x \in Keys : HoldsKey(q, x)' => HoldsKey(q, x)
         /\ \A l \in Lineages : HoldsLineage(q, l)' => HoldsLineage(q, l) /\ calls'[q] = calls[q]
         /\ HoldsSettings(q)' => HoldsSettings(q) /\ calls'[q] = calls[q]
         /\ Active(q)' => Active(q) /\ calls'[q] = calls[q]
  BY <1>5 DEF HoldsKey, HoldsLineage, HoldsSettings, Active, NoCall
<1>7. HeldByOne' BY <1>6 DEF PoliciesInv, HeldByOne
<1>8. ClaimedIsNew' BY <1>1, <1>6 DEF PoliciesInv, ClaimedIsNew, DataStays
<1>9. \A l \in Lineages : Chained(l)' BY <1>1 DEF PoliciesInv, Chained, DataStays
<1>10. ReadIsCurrent' BY <1>1, <1>6 DEF PoliciesInv, ReadIsCurrent, DataStays
<1>11. QED BY <1>4, <1>7, <1>8, <1>9, <1>10 DEF PoliciesInv

LEMMA PurgeKeeps ==
    ASSUME PoliciesInv, NEW k \in Keys, Purge(k), UNCHANGED timezone
    PROVE  PoliciesInv'
<1>1. /\ records' = [records EXCEPT ![k] = NoRecord] /\ mutations' = [mutations EXCEPT ![k] = 0]
      /\ answers' = [answers EXCEPT ![k] = {}] /\ UNCHANGED <<versions, active, default, calls>>
      /\ purges < MaxPurges /\ purges' = purges + 1
  BY DEF Purge
<1>2. PoliciesTypeOK'
  <2>1. purges' \in 0..MaxPurges BY <1>1, PolicyAssumption DEF PoliciesInv, PoliciesTypeOK
  <2>2. /\ records' \in [Keys -> Record] /\ mutations' \in [Keys -> Nat]
        /\ answers' \in [Keys -> SUBSET Answer]
    BY <1>1 DEF PoliciesInv, PoliciesTypeOK, Record
  <2>3. QED BY <1>1, <2>1, <2>2 DEF PoliciesInv, PoliciesTypeOK
<1>3. KeyedOnce'
  BY <1>1 DEF PoliciesInv, PoliciesTypeOK, KeyedOnce
<1>4. HeldByOne' BY <1>1 DEF PoliciesInv, HeldByOne, HoldsKey, HoldsLineage, HoldsSettings, Active
<1>5. ClaimedIsNew'
  BY <1>1 DEF PoliciesInv, PoliciesTypeOK, ClaimedIsNew, HoldsKey, Active
<1>6. \A l \in Lineages : Chained(l)' BY <1>1 DEF PoliciesInv, Chained
<1>7. ReadIsCurrent'
  BY <1>1 DEF PoliciesInv, ReadIsCurrent, HoldsLineage, HoldsSettings, Active
<1>8. QED BY <1>2, <1>3, <1>4, <1>5, <1>6, <1>7 DEF PoliciesInv

----------------------------------------------------------------------------
(* The commit.                                                             *)

\* A call about to commit holds its key, its lineage, and the settings row if it
\* writes the default.
LEMMA ReadyHolds ==
    ASSUME PoliciesInv, NEW p \in Callers, Ready(p)
    PROVE  /\ Active(p) /\ calls[p].request \in Requests
           /\ \A k \in Keys : calls[p].request.key = k => HoldsKey(p, k)
           /\ calls[p].request.op # "create" =>
                 /\ calls[p].request.lineage \in Lineages
                 /\ HoldsLineage(p, calls[p].request.lineage)
                 /\ active[calls[p].request.lineage] = {calls[p].seen}
                 /\ calls[p].seen \in Versions
           /\ NeedsSettings(calls[p].request) => HoldsSettings(p)
<1> DEFINE r == calls[p].request
<1>1. Active(p) /\ r \in Requests BY InCall DEF Ready, PoliciesInv
<1>2. calls[p].phase \in {IF r.op = "create" THEN "claimed" ELSE "lineage", "settings"}
  BY DEF Ready, HoldsSettings, LineageDone, At
<1>3. \A k \in Keys : r.key = k => HoldsKey(p, k) BY <1>1, <1>2 DEF HoldsKey
<1>4. ASSUME r.op # "create"
      PROVE  /\ r.lineage \in Lineages /\ HoldsLineage(p, r.lineage)
             /\ active[r.lineage] = {calls[p].seen} /\ calls[p].seen \in Versions
  <2>1. r.lineage \in Lineages BY <1>1, <1>4, RequestFacts
  <2>2. HoldsLineage(p, r.lineage) BY <1>1, <1>2, <1>4 DEF HoldsLineage
  <2>3. active[r.lineage] = {calls[p].seen} BY <2>1, <2>2 DEF PoliciesInv, ReadIsCurrent
  <2>4. active[r.lineage] \subseteq Versions BY <2>1 DEF PoliciesInv, PoliciesTypeOK
  <2>5. QED BY <2>1, <2>2, <2>3, <2>4
<1>5. NeedsSettings(r) => HoldsSettings(p) BY DEF Ready
<1>6. QED BY <1>1, <1>3, <1>4, <1>5

\* The version inserted is the next one of its lineage.
LEMMA NextVersion ==
    ASSUME PoliciesInv, NEW l \in Lineages, NEW v, NEW old, InsertVersion(l, v, old),
           \/ v = 1 /\ old = {}
           \/ \E seen \in Versions : v = seen + 1 /\ old = {seen} /\ active[l] = {seen}
    PROVE  /\ \E n \in Nat : versions'[l] = 1..n /\ active'[l] = {n} \ {0}
           /\ v \in Versions
           /\ versions' \in [Lineages -> SUBSET Versions] /\ active' \in [Lineages -> SUBSET Versions]
           /\ \A m \in Lineages \ {l} : versions'[m] = versions[m] /\ active'[m] = active[m]
           /\ v = 1 => active[l] = {}
<1>1. /\ versions \in [Lineages -> SUBSET Versions] /\ active \in [Lineages -> SUBSET Versions]
      /\ v \in Versions /\ v \notin versions[l]
      /\ versions' = [versions EXCEPT ![l] = @ \cup {v}]
      /\ active' = [active EXCEPT ![l] = (@ \ old) \cup {v}]
  BY DEF PoliciesInv, PoliciesTypeOK, InsertVersion
<1>2. PICK n \in Nat : versions[l] = 1..n /\ active[l] = {n} \ {0} BY DEF PoliciesInv, Chained
<1>3. Versions \subseteq Nat \ {0} BY PolicyAssumption DEF Versions
<1>4. v = n + 1 /\ active[l] = old
  <2>1. CASE v = 1 /\ old = {} BY <1>1, <1>2, <2>1
  <2>2. ASSUME NEW seen \in Versions, v = seen + 1, old = {seen}, active[l] = {seen}
        PROVE  v = n + 1 /\ active[l] = old
    BY <1>2, <1>3, <2>2
  <2>3. QED BY <2>1, <2>2
<1>5. versions'[l] = 1..(n + 1) /\ active'[l] = {n + 1} \ {0} BY <1>1, <1>2, <1>4
<1>6. \E x \in Nat : versions'[l] = 1..x /\ active'[l] = {x} \ {0} BY <1>2, <1>5
<1>7. v = 1 => active[l] = {} BY <1>2, <1>4
<1>8. /\ versions' \in [Lineages -> SUBSET Versions] /\ active' \in [Lineages -> SUBSET Versions]
      /\ \A m \in Lineages \ {l} : versions'[m] = versions[m] /\ active'[m] = active[m]
  BY <1>1
<1>9. QED BY <1>1, <1>6, <1>7, <1>8

\* What a commit does to policies and to the default.
LEMMA MutateKeeps ==
    ASSUME PoliciesInv, NEW p \in Callers, Commit(p)
    PROVE  /\ versions' \in [Lineages -> SUBSET Versions] /\ active' \in [Lineages -> SUBSET Versions]
           /\ default' \in Lineages \cup {None}
           /\ AnswerTo(calls[p].request, calls[p].seen) \in Answer
           /\ \A l \in Lineages :
                 \E n \in Nat : versions'[l] = 1..n /\ active'[l] = {n} \ {0}
           /\ \A q \in Callers \ {p}, l \in Lineages : HoldsLineage(q, l) => active'[l] = active[l]
           /\ ~HoldsSettings(p) => default' = default
<1> DEFINE r == calls[p].request
           seen == calls[p].seen
<1>1. Ready(p) /\ Mutate(r, seen) BY DEF Commit
<1>2. /\ r \in Requests
      /\ r.op # "create" => /\ r.lineage \in Lineages /\ HoldsLineage(p, r.lineage)
                            /\ active[r.lineage] = {seen} /\ seen \in Versions
      /\ NeedsSettings(r) => HoldsSettings(p)
  BY <1>1, ReadyHolds
<1>3. r.op \in {"create", "revise", "setDefault"} BY <1>2, RequestFacts DEF Request
<1>4. \A m \in Lineages :
         versions'[m] = versions[m] /\ active'[m] = active[m]
         => \E n \in Nat : versions'[m] = 1..n /\ active'[m] = {n} \ {0}
  BY DEF PoliciesInv, Chained
<1>5. CASE r.op = "create"
  <2>1. InsertVersion(Fresh, 1, {}) /\ default' = IF r.makeDefault THEN Fresh ELSE default
    BY <1>1, <1>5 DEF Mutate, CreateDispatchPolicy
  <2>2. Fresh \in Lineages BY <2>1 DEF InsertVersion
  <2>3. /\ \E n \in Nat : versions'[Fresh] = 1..n /\ active'[Fresh] = {n} \ {0}
        /\ 1 \in Versions
        /\ versions' \in [Lineages -> SUBSET Versions] /\ active' \in [Lineages -> SUBSET Versions]
        /\ \A m \in Lineages \ {Fresh} : versions'[m] = versions[m] /\ active'[m] = active[m]
        /\ active[Fresh] = {}
    <3> DEFINE l == Fresh  v == 1  old == {}
    <3>1. l \in Lineages /\ InsertVersion(l, v, old) BY <2>1, <2>2
    <3>2. v = 1 /\ old = {} OBVIOUS
    <3> HIDE DEF l, v, old
    <3>3. /\ \E n \in Nat : versions'[l] = 1..n /\ active'[l] = {n} \ {0}
          /\ v \in Versions
          /\ versions' \in [Lineages -> SUBSET Versions] /\ active' \in [Lineages -> SUBSET Versions]
          /\ \A m \in Lineages \ {l} : versions'[m] = versions[m] /\ active'[m] = active[m]
          /\ v = 1 => active[l] = {}
      BY <3>1, <3>2, NextVersion
    <3>4. QED BY <3>2, <3>3 DEF l, v
  <2>4. \A q \in Callers : ~HoldsLineage(q, Fresh)
    <3>1. active[Fresh] = {} BY <2>3
    <3>2. \A q \in Callers : HoldsLineage(q, Fresh) => active[Fresh] = {calls[q].seen}
      BY <2>2 DEF PoliciesInv, ReadIsCurrent
    <3> HIDE DEF Fresh
    <3>3. QED BY <3>1, <3>2
  <2>5. AnswerTo(r, seen) \in Answer BY <1>5, <2>2, <2>3 DEF AnswerTo, Answer
  <2>6. ~HoldsSettings(p) => default' = default BY <1>2, <2>1 DEF NeedsSettings
  <2>7. default' \in Lineages \cup {None} BY <2>1, <2>2 DEF PoliciesInv, PoliciesTypeOK
  <2>8. \A m \in Lineages : \E n \in Nat : versions'[m] = 1..n /\ active'[m] = {n} \ {0}
    <3>1. ASSUME NEW m \in Lineages, m # Fresh PROVE \E n \in Nat : versions'[m] = 1..n /\ active'[m] = {n} \ {0}
      BY <1>4, <2>3, <3>1
    <3> HIDE DEF Fresh
    <3>2. QED BY <2>3, <3>1
  <2>9. \A q \in Callers \ {p}, m \in Lineages : HoldsLineage(q, m) => active'[m] = active[m]
    BY <2>3, <2>4
  <2>10. QED BY <2>3, <2>5, <2>6, <2>7, <2>8, <2>9
<1>6. CASE r.op = "revise"
  <2>1. InsertVersion(r.lineage, seen + 1, {seen}) /\ default' = default
    BY <1>1, <1>6 DEF Mutate, ReviseDispatchPolicy
  <2>2. r.lineage \in Lineages /\ active[r.lineage] = {seen} /\ seen \in Versions
        /\ HoldsLineage(p, r.lineage)
    BY <1>2, <1>6
  <2>3. /\ \E n \in Nat : versions'[r.lineage] = 1..n /\ active'[r.lineage] = {n} \ {0}
        /\ seen + 1 \in Versions
        /\ versions' \in [Lineages -> SUBSET Versions] /\ active' \in [Lineages -> SUBSET Versions]
        /\ \A m \in Lineages \ {r.lineage} : versions'[m] = versions[m] /\ active'[m] = active[m]
    <3> DEFINE l == r.lineage  v == seen + 1  old == {seen}
    <3>1. l \in Lineages /\ InsertVersion(l, v, old) BY <2>1, <2>2
    <3>2. \E s \in Versions : v = s + 1 /\ old = {s} /\ active[l] = {s} BY <2>2
    <3> HIDE DEF l, v, old
    <3>3. /\ \E n \in Nat : versions'[l] = 1..n /\ active'[l] = {n} \ {0}
          /\ v \in Versions
          /\ versions' \in [Lineages -> SUBSET Versions] /\ active' \in [Lineages -> SUBSET Versions]
          /\ \A m \in Lineages \ {l} : versions'[m] = versions[m] /\ active'[m] = active[m]
      BY <3>1, <3>2, NextVersion
    <3>4. QED BY <3>3 DEF l, v
  <2>4. \A q \in Callers \ {p} : ~HoldsLineage(q, r.lineage)
    BY <2>2 DEF PoliciesInv, HeldByOne
  <2>5. AnswerTo(r, seen) \in Answer BY <1>6, <2>2, <2>3 DEF AnswerTo, Answer
  <2>6. default' \in Lineages \cup {None} BY <2>1 DEF PoliciesInv, PoliciesTypeOK
  <2>7. \A m \in Lineages : \E n \in Nat : versions'[m] = 1..n /\ active'[m] = {n} \ {0}
    <3>1. ASSUME NEW m \in Lineages, m # r.lineage PROVE \E n \in Nat : versions'[m] = 1..n /\ active'[m] = {n} \ {0}
      BY <1>4, <2>3, <3>1
    <3>2. QED BY <2>3, <3>1
  <2>8. \A q \in Callers \ {p}, m \in Lineages : HoldsLineage(q, m) => active'[m] = active[m]
    BY <2>3, <2>4
  <2>9. QED BY <2>1, <2>3, <2>5, <2>6, <2>7, <2>8
<1>7. CASE r.op = "setDefault"
  <2>1. default' = r.lineage /\ UNCHANGED <<versions, active>>
    BY <1>1, <1>7 DEF Mutate, SetDefaultDispatchPolicy
  <2>2. r.lineage \in Lineages /\ seen \in Versions /\ HoldsSettings(p)
    BY <1>2, <1>7 DEF NeedsSettings
  <2>3. AnswerTo(r, seen) \in Answer BY <1>7, <2>2 DEF AnswerTo, Answer
  <2>4. QED BY <1>4, <2>1, <2>2, <2>3 DEF PoliciesInv, PoliciesTypeOK
<1>8. QED BY <1>3, <1>5, <1>6, <1>7

LEMMA CommitKeeps ==
    ASSUME PoliciesInv, NEW p \in Callers, Commit(p), UNCHANGED timezone
    PROVE  PoliciesInv'
<1> DEFINE r == calls[p].request
           a == AnswerTo(r, calls[p].seen)
           k == r.key
<1>1. /\ versions' \in [Lineages -> SUBSET Versions] /\ active' \in [Lineages -> SUBSET Versions]
      /\ default' \in Lineages \cup {None} /\ a \in Answer
      /\ \A l \in Lineages : \E n \in Nat : versions'[l] = 1..n /\ active'[l] = {n} \ {0}
      /\ \A q \in Callers \ {p}, l \in Lineages : HoldsLineage(q, l) => active'[l] = active[l]
      /\ ~HoldsSettings(p) => default' = default
  BY MutateKeeps
<1>2. /\ r \in Requests /\ (k \in Keys => HoldsKey(p, k)) BY ReadyHolds DEF Commit
<1>3. k \in Keys \cup {NoKey} BY <1>2, RequestFacts DEF Request
<1>4. k \in Keys => records[k] = NoRecord /\ \A q \in Callers \ {p} : ~HoldsKey(q, k)
  BY <1>2, KeepsKey
<1>5. /\ records' \in [Keys -> Record] /\ mutations' \in [Keys -> Nat]
      /\ answers' \in [Keys -> SUBSET Answer] /\ KeyedOnce'
      /\ \A x \in Keys : x # k => records'[x] = records[x]
  <2>1. /\ records \in [Keys -> Record] /\ mutations \in [Keys -> Nat]
        /\ answers \in [Keys -> SUBSET Answer] /\ KeyedOnce
    BY DEF PoliciesInv, PoliciesTypeOK
  <2>2. CASE k = NoKey
    <3>1. UNCHANGED <<records, mutations, answers>> BY <2>2 DEF Commit
    <3>2. QED BY <2>1, <3>1 DEF KeyedOnce
  <2>3. CASE k \in Keys
    <3>1. k # NoKey BY <2>3, PolicyAssumption
    <3>2. PICK shown \in {{}, {a}} :
             /\ records' = [records EXCEPT ![k] = [request |-> r, answer |-> a]]
             /\ mutations' = [mutations EXCEPT ![k] = @ + 1]
             /\ answers' = [answers EXCEPT ![k] = @ \cup shown]
      BY <3>1 DEF Commit
    <3>3. [request |-> r, answer |-> a] \in Record BY <1>1, <1>2 DEF Record
    <3>4. /\ records' \in [Keys -> Record] /\ mutations' \in [Keys -> Nat]
          /\ answers' \in [Keys -> SUBSET Answer]
      <4>1. records' \in [Keys -> Record] BY <2>1, <3>2, <3>3
      <4>2. mutations' \in [Keys -> Nat]
        <5>1. mutations[k] + 1 \in Nat BY <2>1, <2>3
        <5>2. QED BY <2>1, <3>2, <5>1
      <4>3. shown \subseteq Answer BY <1>1
      <4>4. answers' \in [Keys -> SUBSET Answer] BY <2>1, <3>2, <4>3
      <4>5. QED BY <4>1, <4>2, <4>4
    <3>5. records'[k] = [request |-> r, answer |-> a] /\ records'[k] # NoRecord
      BY <1>2, <2>1, <2>3, <3>2, RequestFacts DEF NoRecord
    <3>6. mutations[k] = 0 /\ answers[k] = {} BY <1>4, <2>1, <2>3 DEF KeyedOnce
    <3>7. mutations'[k] = 1 /\ answers'[k] \subseteq {records'[k].answer}
      BY <2>1, <2>3, <3>2, <3>5, <3>6
    <3>8. \A x \in Keys \ {k} :
             records'[x] = records[x] /\ mutations'[x] = mutations[x] /\ answers'[x] = answers[x]
      BY <2>1, <3>2
    <3>9. KeyedOnce' BY <2>1, <3>5, <3>7, <3>8 DEF KeyedOnce
    <3>10. QED BY <3>4, <3>8, <3>9
  <2>4. QED BY <1>3, <2>2, <2>3
<1>6. calls' = [calls EXCEPT ![p] = NoCall] /\ purges' = purges BY DEF Commit, End
<1>7. PoliciesTypeOK'
  <2>1. calls' \in [Callers -> Call] BY <1>6 DEF PoliciesInv, PoliciesTypeOK, Call
  <2>2. QED BY <1>1, <1>5, <1>6, <2>1 DEF PoliciesInv, PoliciesTypeOK
<1>8. /\ calls'[p] = NoCall /\ \A q \in Callers \ {p} : calls'[q] = calls[q]
  BY <1>6 DEF PoliciesInv, PoliciesTypeOK
<1>9. /\ ~Active(p)' /\ ~HoldsSettings(p)'
      /\ \A x \in Keys : ~HoldsKey(p, x)' /\ \A l \in Lineages : ~HoldsLineage(p, l)'
  BY <1>8 DEF HoldsKey, HoldsLineage, HoldsSettings, Active, NoCall
<1>10. ASSUME NEW q \in Callers \ {p}
       PROVE  /\ \A x \in Keys : HoldsKey(q, x)' <=> HoldsKey(q, x)
              /\ \A l \in Lineages : HoldsLineage(q, l)' <=> HoldsLineage(q, l)
              /\ HoldsSettings(q)' <=> HoldsSettings(q)
              /\ Active(q)' <=> Active(q)
  BY <1>8 DEF HoldsKey, HoldsLineage, HoldsSettings, Active
<1>11. HeldByOne'
  <2>1. ASSUME NEW x \in Callers, NEW y \in Callers, x # y
        PROVE  /\ \A i \in Keys : ~(HoldsKey(x, i)' /\ HoldsKey(y, i)')
               /\ \A l \in Lineages : ~(HoldsLineage(x, l)' /\ HoldsLineage(y, l)')
               /\ ~(HoldsSettings(x)' /\ HoldsSettings(y)')
    <3>1. CASE x = p BY <1>8, <3>1 DEF HoldsKey, HoldsLineage, HoldsSettings, Active, NoCall
    <3>2. CASE y = p BY <1>8, <3>2 DEF HoldsKey, HoldsLineage, HoldsSettings, Active, NoCall
    <3>3. CASE x # p /\ y # p BY <1>10, <2>1, <3>3 DEF PoliciesInv, HeldByOne
    <3>4. QED BY <3>1, <3>2, <3>3
  <2>2. QED BY <2>1 DEF HeldByOne
<1>12. ClaimedIsNew'
  <2>1. ASSUME NEW q \in Callers, NEW x \in Keys, HoldsKey(q, x)' PROVE records'[x] = NoRecord
    <3>1. q # p /\ HoldsKey(q, x) BY <1>9, <1>10, <2>1
    <3>2. x # k BY <1>4, <3>1
    <3>3. QED BY <1>5, <3>1, <3>2 DEF PoliciesInv, ClaimedIsNew
  <2>2. QED BY <2>1 DEF ClaimedIsNew
<1>13. ReadIsCurrent'
  <2>1. ASSUME NEW q \in Callers \ {p}
        PROVE  /\ \A l \in Lineages : HoldsLineage(q, l)' => active'[l] = {calls'[q].seen}
               /\ Active(q)' /\ calls'[q].request.op = "create" => calls'[q].seen = 0
    BY <1>1, <1>8, <1>10 DEF PoliciesInv, ReadIsCurrent
  <2>2. ASSUME NEW q \in Callers \ {p}, HoldsSettings(q)'
        PROVE  calls'[q].request.expects \in {Any, default'}
    <3>1. HoldsSettings(q) /\ ~HoldsSettings(p)
      BY <1>10, <2>2 DEF PoliciesInv, HeldByOne
    <3>2. QED BY <1>1, <1>8, <3>1 DEF PoliciesInv, ReadIsCurrent
  <2>3. ASSUME NEW q \in Callers
        PROVE  /\ \A l \in Lineages : HoldsLineage(q, l)' => active'[l] = {calls'[q].seen}
               /\ Active(q)' /\ calls'[q].request.op = "create" => calls'[q].seen = 0
               /\ HoldsSettings(q)' => calls'[q].request.expects \in {Any, default'}
    <3>1. CASE q = p BY <1>8, <3>1 DEF HoldsLineage, HoldsSettings, Active, NoCall
    <3>2. CASE q # p BY <2>1, <2>2, <3>2
    <3>3. QED BY <3>1, <3>2
  <2>4. QED BY <2>3 DEF ReadIsCurrent
<1>14. \A l \in Lineages : Chained(l)' BY <1>1 DEF Chained
<1>15. QED BY <1>5, <1>7, <1>11, <1>12, <1>13, <1>14 DEF PoliciesInv

----------------------------------------------------------------------------
(* The theorems.                                                           *)

LEMMA PoliciesStart ==
    ASSUME Init
    PROVE  PoliciesInv
<1>1. PoliciesInit /\ timezone \in BOOLEAN BY DEF Init
<1>2. PoliciesTypeOK
  <2>1. 0 \in 0..MaxPurges BY PolicyAssumption
  <2>2. QED BY <1>1, <2>1 DEF PoliciesInit, PoliciesTypeOK, Record, Call
<1>3. \A p \in Callers : calls[p] = NoCall BY <1>1 DEF PoliciesInit
<1>4. \A p \in Callers :
         /\ ~Active(p) /\ ~HoldsSettings(p)
         /\ \A k \in Keys : ~HoldsKey(p, k)
         /\ \A l \in Lineages : ~HoldsLineage(p, l)
  BY <1>3 DEF Active, NoCall, HoldsKey, HoldsLineage, HoldsSettings
<1>5. HeldByOne /\ ClaimedIsNew /\ ReadIsCurrent BY <1>4 DEF HeldByOne, ClaimedIsNew, ReadIsCurrent
<1>6. KeyedOnce BY <1>1 DEF PoliciesInit, KeyedOnce
<1>7. \A l \in Lineages : Chained(l)
  <2>1. ASSUME NEW l \in Lineages PROVE versions[l] = 1..0 /\ active[l] = {0} \ {0}
    BY <1>1 DEF PoliciesInit
  <2>2. QED BY <2>1 DEF Chained
<1>8. QED BY <1>1, <1>2, <1>5, <1>6, <1>7 DEF PoliciesInv

LEMMA PoliciesStep ==
    ASSUME PoliciesInv, [Next]_vars
    PROVE  PoliciesInv'
<1>1. UNCHANGED timezone
  BY DEF Next, vars, dayVars, Asking, Policies, NextDay, BeginSweep, EndSweep, Evaluating, Evaluate,
         StoreEvaluation, Abandon, Deciding, DecideDispatchApproval, Worker, Deliver, FailToDeliver
<1>2. timezone \in BOOLEAN BY DEF PoliciesInv
<1>3. CASE UNCHANGED policyVars
  BY <1>1, <1>3 DEF policyVars, PoliciesInv, PoliciesTypeOK, KeyedOnce, HeldByOne, ClaimedIsNew,
     Chained, ReadIsCurrent, Active, HoldsKey, HoldsLineage, HoldsSettings
<1>4. ASSUME NEW p \in Callers,
             \/ \E r \in Requests : Ask(p, r)
             \/ ClaimKey(p) \/ LookAgain(p) \/ LockLineage(p) \/ LockSettings(p)
             \/ Replay(p) \/ Commit(p) \/ Abort(p)
      PROVE  PoliciesInv'
  <2>1. CASE \E r \in Requests : Ask(p, r) BY <1>1, <2>1, AskKeeps
  <2>2. CASE ClaimKey(p) BY <1>1, <2>2, ClaimKeeps
  <2>3. CASE LookAgain(p) BY <1>1, <2>3, LookAgainKeeps
  <2>4. CASE LockLineage(p) BY <1>1, <2>4, LockLineageKeeps
  <2>5. CASE LockSettings(p) BY <1>1, <2>5, LockSettingsKeeps
  <2>6. CASE Replay(p) BY <1>1, <2>6, ReplayKeeps
  <2>7. CASE Commit(p) BY <1>1, <2>7, CommitKeeps
  <2>8. CASE Abort(p)
    <3>1. End(p) /\ DataStays /\ UNCHANGED answers BY <2>8 DEF Abort, DataStays
    <3>2. QED BY <1>1, <3>1, CallEnds
  <2>9. QED BY <1>4, <2>1, <2>2, <2>3, <2>4, <2>5, <2>6, <2>7, <2>8
<1>5. ASSUME NEW k \in Keys, Purge(k) PROVE PoliciesInv' BY <1>1, <1>5, PurgeKeeps
<1>6. QED BY <1>2, <1>3, <1>4, <1>5, StepCases

\* In every reachable state the calls on policies hold what they hold alone,
\* what they read under their locks is current, keys ran once and versions
\* are chained.
THEOREM PoliciesSafety == Spec => []PoliciesInv
<1>1. Init => PoliciesInv BY PoliciesStart
<1>2. PoliciesInv /\ [Next]_vars => PoliciesInv' BY PoliciesStep
<1>3. QED BY <1>1, <1>2, PTL DEF Spec

\* runIdempotent: a key changes something at most once while its record is
\* kept, and whoever is answered under it hears what that change returned.
THEOREM KeysRunOnce == Spec => []KeyedOnce
<1>1. PoliciesInv => KeyedOnce BY DEF PoliciesInv
<1>2. QED BY <1>1, PoliciesSafety, PTL

LEMMA ChainCounted ==
    ASSUME NEW n \in Nat
    PROVE  Cardinality(1..n) = n
<1>1. Cardinality(1..n) = IF 1 > n THEN 0 ELSE n - 1 + 1 BY FS_Interval
<1>2. QED BY <1>1

\* The versions of a policy are a chain whose last one is active, and a
\* revision follows the active one, so the unique constraint on a policy's
\* versions never refuses a revision.
THEOREM RevisionsFormChains == Spec => []RevisionsChain
<1>1. PoliciesInv => RevisionsChain
  <2> SUFFICES ASSUME PoliciesInv PROVE RevisionsChain OBVIOUS
  <2>1. ASSUME NEW l \in Lineages
        PROVE  LET n == Cardinality(versions[l]) IN versions[l] = 1..n /\ active[l] = {n} \ {0}
    <3>1. PICK n \in Nat : versions[l] = 1..n /\ active[l] = {n} \ {0}
      BY DEF PoliciesInv, Chained
    <3>2. Cardinality(versions[l]) = n BY <3>1, ChainCounted
    <3>3. QED BY <3>1, <3>2
  <2>2. ASSUME NEW p \in Callers, Active(p), LineageDone(p), calls[p].request.op = "revise"
        PROVE  active[calls[p].request.lineage] = {calls[p].seen}
    <3>1. calls[p].request \in Requests BY <2>2, InCall DEF PoliciesInv
    <3>2. calls[p].request.lineage \in Lineages BY <2>2, <3>1, RequestFacts
    <3>3. HoldsLineage(p, calls[p].request.lineage)
      BY <2>2 DEF LineageDone, At, HoldsLineage
    <3>4. QED BY <3>2, <3>3 DEF PoliciesInv, ReadIsCurrent
  <2>3. QED BY <2>1, <2>2 DEF RevisionsChain
<1>2. QED BY <1>1, PoliciesSafety, PTL

----------------------------------------------------------------------------
(* The calls as the atomic ones of PolicyBook.                             *)

Latest(l) == Cardinality(versions[l])
AskedBy(p) == IF Active(p) THEN calls[p].request ELSE None

LEMMA LatestIs ==
    ASSUME PoliciesInv, NEW l \in Lineages
    PROVE  /\ Latest(l) \in Nat
           /\ versions[l] = 1..Latest(l) /\ active[l] = {Latest(l)} \ {0}
<1>1. PICK n \in Nat : versions[l] = 1..n /\ active[l] = {n} \ {0} BY DEF PoliciesInv, Chained
<1>2. Latest(l) = n BY <1>1, ChainCounted DEF Latest
<1>3. QED BY <1>1, <1>2

\* While a call only moves from lock to lock, the book stands still.
LEMMA LockingIsSilent ==
    ASSUME PoliciesInv, NEW p \in Callers, NEW c \in Call, Active(p),
           calls' = [calls EXCEPT ![p] = c], c.phase # "idle", c.request = calls[p].request,
           UNCHANGED <<versions, default, records, answers>>
    PROVE  UNCHANGED Book!book
<1>1. calls \in [Callers -> Call] BY DEF PoliciesInv, PoliciesTypeOK
<1>2. \A q \in Callers : AskedBy(q)' = AskedBy(q) BY <1>1 DEF AskedBy, Active
<1>3. QED BY <1>2 DEF Book!book, AskedBy

LEMMA BookLeave ==
    ASSUME PoliciesInv, NEW p \in Callers, Active(p), End(p)
    PROVE  Book!Leave(p)
<1>1. calls \in [Callers -> Call] BY DEF PoliciesInv, PoliciesTypeOK
<1>2. calls[p].request # None BY InCall, RequestFacts DEF PoliciesInv
<1>3. \A q \in Callers : AskedBy(q)' = IF q = p THEN None ELSE AskedBy(q)
  BY <1>1 DEF End, AskedBy, Active, NoCall
<1>4. QED BY <1>2, <1>3 DEF Book!Leave, AskedBy

\* A commit is one change of the book, over what the request expected.
LEMMA CommitIsChange ==
    ASSUME PoliciesInv, NEW p \in Callers, Commit(p)
    PROVE  Book!Next
<1> DEFINE r == calls[p].request
           seen == calls[p].seen
<1>1. /\ Ready(p) /\ Mutate(r, seen) /\ End(p)
      /\ IF r.key = NoKey THEN UNCHANGED <<records, answers>>
         ELSE /\ records' = [records EXCEPT
                                ![r.key] = [request |-> r, answer |-> AnswerTo(r, seen)]]
              /\ \E told \in {{}, {AnswerTo(r, seen)}} :
                    answers' = [answers EXCEPT ![r.key] = @ \cup told]
  BY DEF Commit
<1>2. /\ Active(p) /\ r \in Requests
      /\ r.op # "create" => /\ r.lineage \in Lineages /\ active[r.lineage] = {seen}
                            /\ seen \in Versions
      /\ NeedsSettings(r) => HoldsSettings(p)
      /\ \A k \in Keys : r.key = k => HoldsKey(p, k)
  BY <1>1, ReadyHolds
<1>3. r \in Request /\ r # None /\ r.op \in {"create", "revise", "setDefault"}
      /\ r.key \in Keys \cup {NoKey}
  BY <1>2, RequestFacts DEF Request
<1>4. AskedBy(p) = r BY <1>2 DEF AskedBy
<1>5. Book!Leave(p) BY <1>1, <1>2, BookLeave
<1>6. r.expects \in {Any, default}
  BY <1>2 DEF NeedsSettings, PoliciesInv, ReadIsCurrent
<1>7. ASSUME NEW l, NEW v, AnswerTo(r, seen) = [lineage |-> l, version |-> v]
      PROVE  Book!Record(r, [lineage |-> l, version |-> v])
  <2>1. r.key # NoKey => records[r.key] = NoRecord
    BY <1>2, <1>3 DEF PoliciesInv, ClaimedIsNew
  <2>2. QED BY <1>1, <1>7, <2>1 DEF Book!Record, Book!NoRecord, NoRecord
<1>8. ASSUME NEW l \in Lineages, NEW v \in Nat, NEW d,
             AnswerTo(r, seen) = [lineage |-> l, version |-> v],
             \A m \in Lineages : Latest(m)' = IF m = l THEN v ELSE Latest(m),
             default' = d
      PROVE  Book!Change(p, l, v, d)
  <2>1. Book!Record(r, [lineage |-> l, version |-> v]) BY <1>7, <1>8
  <2>2. QED BY <1>2, <1>5, <1>6, <1>8, <2>1 DEF Book!Change, Latest
<1>9. CASE r.op = "create"
  <2>0. Fresh \in Lineages BY <1>1, <1>9 DEF Mutate, CreateDispatchPolicy, InsertVersion
  <2> PICK l \in Lineages : l = Fresh BY <2>0
  <2>1. /\ InsertVersion(l, 1, {}) /\ default' = IF r.makeDefault THEN l ELSE default
        /\ AnswerTo(r, seen) = [lineage |-> l, version |-> 1]
    BY <1>1, <1>9 DEF Mutate, CreateDispatchPolicy, AnswerTo
  <2>2. l \in Lineages /\ 1 \notin versions[l] /\ versions' = [versions EXCEPT ![l] = @ \cup {1}]
    BY <2>1 DEF InsertVersion
  <2>3. Latest(l) = 0
    <3>1. Latest(l) \in Nat /\ versions[l] = 1..Latest(l) BY <2>2, LatestIs
    <3>2. QED BY <2>2, <3>1
  <2>4. ASSUME NEW m \in Lineages PROVE Latest(m)' = IF m = l THEN 1 ELSE Latest(m)
    <3>1. versions \in [Lineages -> SUBSET Versions] BY DEF PoliciesInv, PoliciesTypeOK
    <3>2. CASE m = l
      <4>1. versions[l] = 1..0 BY <2>2, <2>3, LatestIs
      <4>2. versions'[l] = 1..1 BY <2>2, <3>1, <4>1
      <4>3. QED BY <3>2, <4>2, ChainCounted DEF Latest
    <3>3. CASE m # l BY <2>2, <3>1, <3>3 DEF Latest
    <3>4. QED BY <3>2, <3>3
  <2>5. Book!Change(p, l, 1, IF r.makeDefault THEN l ELSE default) BY <1>8, <2>1, <2>2, <2>4
  <2>6. Book!Create(p, l)
    BY <1>2, <1>3, <1>9, <2>2, <2>3, <2>5 DEF Book!Create, Book!Asks, Latest
  <2>7. QED BY <2>2, <2>6 DEF Book!Next
<1>10. CASE r.op \in {"revise", "setDefault"}
  <2>0. r.lineage \in Lineages BY <1>2, <1>10
  <2> PICK l \in Lineages : l = r.lineage BY <2>0
  <2>1. l \in Lineages /\ seen \in Nat /\ seen # 0 /\ active[l] = {seen}
    BY <1>2, <1>10, PolicyAssumption DEF Versions
  <2>2. Latest(l) = seen /\ versions[l] = 1..seen
    <3>1. /\ Latest(l) \in Nat /\ versions[l] = 1..Latest(l)
          /\ active[l] = {Latest(l)} \ {0}
      BY <2>1, LatestIs
    <3>2. Latest(l) = seen BY <2>1, <3>1
    <3>3. QED BY <3>1, <3>2
  <2>3. r.version \in {Any, Latest(l)} BY <1>1, <2>2 DEF Ready
  <2>4. versions \in [Lineages -> SUBSET Versions] BY DEF PoliciesInv, PoliciesTypeOK
  <2>5. CASE r.op = "revise"
    <3>1. /\ versions' = [versions EXCEPT ![l] = @ \cup {seen + 1}] /\ default' = default
          /\ AnswerTo(r, seen) = [lineage |-> l, version |-> seen + 1]
      BY <1>1, <2>5 DEF Mutate, ReviseDispatchPolicy, InsertVersion, AnswerTo
    <3>2. ASSUME NEW m \in Lineages PROVE Latest(m)' = IF m = l THEN seen + 1 ELSE Latest(m)
      <4>1. CASE m = l
        <5>1. versions'[l] = versions[l] \cup {seen + 1} BY <2>1, <2>4, <3>1
        <5>2. versions[l] = 1..seen BY <2>2
        <5>3. (1..seen) \cup {seen + 1} = 1..(seen + 1) BY <2>1
        <5>4. versions'[l] = 1..(seen + 1) BY <5>1, <5>2, <5>3
        <5>5. seen + 1 \in Nat BY <2>1
        <5>6. QED BY <4>1, <5>4, <5>5, ChainCounted DEF Latest
      <4>2. CASE m # l BY <2>4, <3>1, <4>2 DEF Latest
      <4>3. QED BY <4>1, <4>2
    <3>3. seen + 1 \in Nat BY <2>1
    <3>4. Book!Change(p, l, seen + 1, default) BY <1>8, <2>1, <3>1, <3>2, <3>3
    <3>5. Book!Revise(p, l)
      BY <1>2, <1>3, <2>1, <2>2, <2>3, <2>5, <3>4 DEF Book!Revise, Book!Asks, Latest
    <3>6. QED BY <2>1, <3>5 DEF Book!Next
  <2>6. CASE r.op = "setDefault"
    <3>1. /\ UNCHANGED versions /\ default' = l
          /\ AnswerTo(r, seen) = [lineage |-> l, version |-> seen]
      BY <1>1, <2>6 DEF Mutate, SetDefaultDispatchPolicy, AnswerTo
    <3>2. \A m \in Lineages : Latest(m)' = IF m = l THEN seen ELSE Latest(m)
      BY <2>2, <3>1 DEF Latest
    <3>3. Book!Change(p, l, seen, l) BY <1>8, <2>1, <3>1, <3>2
    <3>4. Book!SetDefault(p, l)
      BY <1>2, <1>3, <2>1, <2>2, <2>3, <2>6, <3>3 DEF Book!SetDefault, Book!Asks, Latest
    <3>5. QED BY <2>1, <3>4 DEF Book!Next
  <2>7. QED BY <1>10, <2>5, <2>6
<1>11. QED BY <1>3, <1>9, <1>10

LEMMA StepIsBookStep ==
    ASSUME PoliciesInv, [Next]_vars
    PROVE  [Book!Next]_Book!book
<1>1. timezone \in BOOLEAN BY DEF PoliciesInv
<1>2. calls \in [Callers -> Call] BY DEF PoliciesInv, PoliciesTypeOK
<1>3. CASE UNCHANGED policyVars BY <1>3 DEF policyVars, Book!book, Active
<1>4. ASSUME NEW p \in Callers, NEW r \in Requests, Ask(p, r) PROVE Book!Next
  <2>1. \A q \in Callers : AskedBy(q)' = IF q = p THEN r ELSE AskedBy(q)
    BY <1>2, <1>4 DEF Ask, AskedBy, Active
  <2>2. Book!Ask(p, r) BY <1>4, <2>1 DEF Ask, Book!Ask, AskedBy
  <2>3. QED BY <2>2 DEF Book!Next
<1>5. ASSUME NEW p \in Callers, ClaimKey(p) \/ LookAgain(p) \/ LockSettings(p)
      PROVE  UNCHANGED Book!book
  <2>1. /\ Active(p) /\ UNCHANGED <<versions, default, records, answers>>
        /\ \E phase \in {"asked", "lookup", "claimed", "lineage", "settings"} : Go(p, phase)
    BY <1>5 DEF ClaimKey, LookAgain, LockSettings, At
  <2>2. PICK phase \in {"asked", "lookup", "claimed", "lineage", "settings"} : Go(p, phase)
    BY <2>1
  <2>3. PICK c \in Call : /\ c.phase = phase /\ c.request = calls[p].request
                          /\ calls' = [calls EXCEPT ![p] = c]
    BY <2>1, <2>2, GoesTo
  <2>4. QED BY <2>1, <2>3, LockingIsSilent
<1>6. ASSUME NEW p \in Callers, LockLineage(p) PROVE UNCHANGED Book!book
  <2>1. Active(p) /\ calls[p].request.lineage # None BY <1>6 DEF LockLineage, At
  <2>2. PICK v \in active[calls[p].request.lineage] :
           calls' = [calls EXCEPT ![p].phase = "lineage", ![p].seen = v]
    BY <1>6 DEF LockLineage
  <2>3. calls[p] \in [phase : {"asked", "lookup", "claimed", "lineage", "settings"},
                      request : Requests, seen : Versions \cup {0}]
    BY <2>1, InCall DEF PoliciesInv
  <2>4. v \in Versions
    <3>1. calls[p].request.lineage \in Lineages BY <2>1, <2>3, RequestFacts
    <3>2. QED BY <3>1 DEF PoliciesInv, PoliciesTypeOK
  <2> DEFINE c == [calls[p] EXCEPT !.phase = "lineage", !.seen = v]
  <2>5. c \in Call /\ c.phase # "idle" /\ c.request = calls[p].request BY <2>3, <2>4 DEF Call
  <2>6. calls' = [calls EXCEPT ![p] = c] BY <1>2, <2>2
  <2>7. UNCHANGED <<versions, default, records, answers>> BY <1>6 DEF LockLineage
  <2>8. QED BY <2>1, <2>5, <2>6, <2>7, LockingIsSilent
<1>7. ASSUME NEW p \in Callers, Replay(p) PROVE Book!Next
  <2>1. Active(p) /\ End(p) /\ records[calls[p].request.key].request = calls[p].request
        /\ answers' = [answers EXCEPT ![calls[p].request.key] =
                          @ \cup {records[calls[p].request.key].answer}]
        /\ UNCHANGED <<versions, default, records>>
    BY <1>7 DEF Replay, At
  <2>2. Book!Leave(p) BY <2>1, BookLeave
  <2>3. CASE calls[p].request.key # NoKey
    <3>1. Book!Answer(p) BY <2>1, <2>2, <2>3 DEF Book!Answer
    <3>2. QED BY <3>1 DEF Book!Next
  \* A call without a key looks nothing up; if it did, nothing would change.
  <2>4. CASE calls[p].request.key = NoKey
    <3>1. answers' = answers BY <2>1, <2>4, PolicyAssumption DEF PoliciesInv, PoliciesTypeOK
    <3>2. Book!Fail(p) BY <2>1, <2>2, <3>1 DEF Book!Fail
    <3>3. QED BY <3>2 DEF Book!Next
  <2>5. QED BY <2>3, <2>4
<1>8. ASSUME NEW p \in Callers, Abort(p) PROVE Book!Next
  <2>1. Book!Leave(p) BY <1>8, BookLeave DEF Abort
  <2>2. Book!Fail(p) BY <1>8, <2>1 DEF Abort, Book!Fail
  <2>3. QED BY <2>2 DEF Book!Next
<1>9. ASSUME NEW p \in Callers, Commit(p) PROVE Book!Next
  BY <1>9, CommitIsChange
<1>10. ASSUME NEW k \in Keys, Purge(k) PROVE Book!Next
  <2>1. Book!Forget(k) BY <1>10 DEF Purge, Book!Forget, Book!NoRecord, NoRecord, Active
  <2>2. QED BY <2>1 DEF Book!Next
<1>11. QED BY <1>1, <1>3, <1>4, <1>5, <1>6, <1>7, <1>8, <1>9, <1>10, StepCases

\* Refinement: the key, lineage and settings locks of the calls on policies make the
\* service the PolicyBook, where every call is one step.
THEOREM CallsActAtomically == Spec => CallsAreAtomic
<1>1. Init => Book!Init
  <2> SUFFICES ASSUME Init PROVE Book!Init OBVIOUS
  <2>1. PoliciesInit BY DEF Init
  <2>2. \A p \in Callers : AskedBy(p) = None BY <2>1 DEF PoliciesInit, AskedBy, Active, NoCall
  <2>3. \A l \in Lineages : Latest(l) = 0 BY <2>1, FS_EmptySet DEF PoliciesInit, Latest
  <2>4. QED BY <2>1, <2>2, <2>3
        DEF PoliciesInit, Book!Init, Book!NoRecord, NoRecord, AskedBy, Latest
<1>2. PoliciesInv /\ [Next]_vars => [Book!Next]_Book!book BY StepIsBookStep
<1>3. QED BY <1>1, <1>2, PoliciesSafety, PTL DEF Spec, CallsAreAtomic, Book!Spec

=============================================================================
