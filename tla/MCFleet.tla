------------------------------- MODULE MCFleet -------------------------------
(***************************************************************************)
(* Fleet for TLC: two stack names, two workers, pairs of requests that meet.*)
(***************************************************************************)
EXTENDS Fleet

CONSTANTS s1, s2, w1, w2

MCStacks == {s1, s2}
MCWorkers == {w1, w2}

Pair(a, b) == [w \in MCWorkers |-> IF w = w1 THEN a ELSE b]

Two(a, b) == [s \in MCStacks |-> IF s = s1 THEN a ELSE b]

Meet(ports, a, b, changes, faults) ==
    [ports |-> ports, asks |-> Pair(a, b), changes |-> changes, faults |-> faults]

Save == {<<"save", s1>>}
Destroy == {<<"destroy", s1>>}
Create(s) == {<<"create", s>>}

MCScenarios == {
    Meet(Two(1, 0), Save, Save, {"edit"}, 0),
    Meet(Two(1, 0), Save, Destroy, {"start", "up"}, 0),
    Meet(Two(1, 0), {<<"forget", s1>>}, Destroy, {"gone"}, 1),
    Meet(Two(0, 0), Create(s1), Create(s1), {}, 1),
    Meet(Two(0, 0), Create(s1), {}, {"up"}, 0),
    Meet(Two(1, 0), Create(s1), Destroy, {"gone"}, 0),
    Meet(Two(1, 0), {<<"forget", s1>>}, {<<"import", s1>>}, {"gone", "back"}, 0),
    Meet(Two(1, 2), {}, {}, {"gone", "back", "edit"}, 1)}
=============================================================================
