------------------------- MODULE MCDispatchEvaluation ------------------------
(***************************************************************************)
(* A business for TLC.  One without a time zone evaluates nothing, so its  *)
(* two dispatchers show the calls in every order; one with a time zone is  *)
(* evaluated while one dispatcher creates and revises its policy.          *)
(***************************************************************************)
EXTENDS DispatchEvaluation

CONSTANTS p1, p2, k1, k2, k3, c1

Creating(key, expects, makeDefault) ==
    [op |-> "create", key |-> key, lineage |-> None, version |-> Any, expects |-> expects,
     makeDefault |-> makeDefault]
Revising(key, version, expects) ==
    [op |-> "revise", key |-> key, lineage |-> 1, version |-> version, expects |-> expects,
     makeDefault |-> FALSE]
SettingDefault ==
    [op |-> "setDefault", key |-> NoKey, lineage |-> 2, version |-> Any, expects |-> Any,
     makeDefault |-> FALSE]

\* Two race for the first default, two use one key for different policies, and
\* a revision, a retry of it or another one follow the default as it moves.
Competing ==
    {Creating(k1, None, TRUE), Creating(k2, None, TRUE), Creating(k2, Any, FALSE),
     Revising(k3, 1, Any), Revising(NoKey, Any, 1), SettingDefault}
Founding == {Creating(NoKey, None, TRUE), Revising(NoKey, 1, 1)}
AllRequests == Competing \cup Founding
WhoAsks == [a \in BOOLEAN \X Callers |->
    IF ~a[1] THEN Competing ELSE IF a[2] = p1 THEN Founding ELSE {}]
NoOverride == [c \in Corridors |-> None]
=============================================================================
