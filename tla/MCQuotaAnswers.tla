---------------------------- MODULE MCQuotaAnswers ----------------------------
(* What the two quota endpoints may say of two families: fractions in permille *)
(* and distances to the reset, 0 when it is not stated.                        *)
EXTENDS Naturals, Sequences

CONSTANTS gemini, claude

R(left, within) == [left |-> left, within |-> within]
B(names, id, window, left, within) ==
  [names |-> names, id |-> id, window |-> window, left |-> left, within |-> within]
G(label, buckets) == [label |-> label, buckets |-> buckets]

Models(g, c) == [f \in {gemini, claude} |-> IF f = gemini THEN g ELSE c]

SomeModels == {Models({R(900, 2), R(120, 2)}, {}), Models({}, {R(400, 0)})}

SomeSummaries ==
  { {},
    {G({gemini}, <<B({gemini}, "5h", "5h", 900, 2), B({gemini}, "weekly", "weekly", 5, 5)>>),
     G({claude}, <<B({claude}, "weekly", "weekly", 0, 1)>>)},
    \* a week declared as a rolling window, and a bucket no id names
    {G({gemini}, <<B({gemini}, "weekly", "5h", 5, 5), B({}, "unnamed", "daily", 0, 1)>>),
     G({claude}, <<B({}, "unnamed", "weekly", 0, 3), B({}, "unnamed", "weekly", 900, 3)>>)} }
=============================================================================
