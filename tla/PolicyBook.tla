------------------------------ MODULE PolicyBook ------------------------------
(***************************************************************************)
(* What the calls on dispatch policies promise their callers: each acts at *)
(* one instant between its request and its answer, on what it expected to  *)
(* find at that instant, under a key that has no record yet, or not at     *)
(* all; and a key that has a record answers with it.  There are no locks.  *)
(***************************************************************************)
EXTENDS Naturals

CONSTANTS Callers, Keys, Requests, Lineages, NoKey, Any, None

VARIABLES
    asked,     \* [Callers -> the request being served, or None]
    latest,    \* [Lineages -> its active version, 0 when there is none]
    default,   \* a lineage, or None
    records,   \* [Keys -> the request served under the key and its answer]
    answers    \* [Keys -> the answers given under the key]

book == <<asked, latest, default, records, answers>>

NoRecord == [request |-> None]

Init ==
    /\ asked = [p \in Callers |-> None]
    /\ latest = [l \in Lineages |-> 0]
    /\ default = None
    /\ records = [k \in Keys |-> NoRecord]
    /\ answers = [k \in Keys |-> {}]

Ask(p, r) ==
    /\ asked[p] = None
    /\ asked' = [asked EXCEPT ![p] = r]
    /\ UNCHANGED <<latest, default, records, answers>>

Asks(p, op) == asked[p] # None /\ asked[p].op = op
Leave(p) == asked[p] # None /\ asked' = [asked EXCEPT ![p] = None]

\* Refused or cut off.
Fail(p) == Leave(p) /\ UNCHANGED <<latest, default, records, answers>>

Answer(p) ==
    LET k == asked[p].key IN
    /\ Leave(p)
    /\ k # NoKey /\ records[k].request = asked[p]
    /\ answers' = [answers EXCEPT ![k] = @ \cup {records[k].answer}]
    /\ UNCHANGED <<latest, default, records>>

\* The answer is recorded with the change, and may be lost on its way.
Record(r, a) ==
    IF r.key = NoKey THEN UNCHANGED <<records, answers>>
    ELSE /\ records[r.key] = NoRecord
         /\ records' = [records EXCEPT ![r.key] = [request |-> r, answer |-> a]]
         /\ \E heard \in {{}, {a}} : answers' = [answers EXCEPT ![r.key] = @ \cup heard]

Change(p, l, v, d) ==
    /\ Leave(p)
    /\ asked[p].expects \in {Any, default}
    /\ latest' = [latest EXCEPT ![l] = v]
    /\ default' = d
    /\ Record(asked[p], [lineage |-> l, version |-> v])

Create(p, l) ==
    /\ Asks(p, "create")
    /\ latest[l] = 0
    /\ Change(p, l, 1, IF asked[p].makeDefault THEN l ELSE default)

Revise(p, l) ==
    /\ Asks(p, "revise") /\ asked[p].lineage = l
    /\ latest[l] # 0 /\ asked[p].version \in {Any, latest[l]}
    /\ Change(p, l, latest[l] + 1, default)

SetDefault(p, l) ==
    /\ Asks(p, "setDefault") /\ asked[p].lineage = l
    /\ latest[l] # 0 /\ asked[p].version \in {Any, latest[l]}
    /\ Change(p, l, latest[l], l)

\* After its retention.
Forget(k) ==
    /\ records' = [records EXCEPT ![k] = NoRecord]
    /\ answers' = [answers EXCEPT ![k] = {}]
    /\ UNCHANGED <<asked, latest, default>>

Next ==
    \/ \E p \in Callers, r \in Requests : Ask(p, r)
    \/ \E p \in Callers : Fail(p) \/ Answer(p)
    \/ \E p \in Callers, l \in Lineages : Create(p, l) \/ Revise(p, l) \/ SetDefault(p, l)
    \/ \E k \in Keys : Forget(k)

Spec == Init /\ [][Next]_book
=============================================================================
