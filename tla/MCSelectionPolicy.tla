-------------------------- MODULE MCSelectionPolicy --------------------------
(* Small instances of SelectionPolicy: a LOW job, and a stream of jobs of    *)
(* higher priority, with users whose priority may be another.                *)
EXTENDS SelectionPolicy

CONSTANTS low, high1, high2

Three == {low, high1, high2}

Priorities == [j \in Jobs |-> IF j = low THEN 1 ELSE 3]

(* The LOW job comes from a user registered by the request, so MEDIUM; one   *)
(* of the HIGH jobs from a LOW user.                                         *)
MixedUsers == [j \in Jobs |-> CASE j = low -> 2 [] j = high1 -> 3 [] j = high2 -> 1]

(* A LOW job of a HIGH user against a CRITICAL job of a MEDIUM user.         *)
Two == {low, high1}
UrgentJob == [j \in Jobs |-> IF j = low THEN 1 ELSE 4]
CrossedUsers == [j \in Jobs |-> IF j = low THEN 3 ELSE 2]
OneShort == [j \in Jobs |-> IF j = low THEN 20 ELSE 60]

OneEach == [j \in Jobs |-> 1]
LowNeedsTwo == [j \in Jobs |-> IF j = low THEN 2 ELSE 1]

(* The stream's jobs are short or long.                                      *)
ShortStream == [j \in Jobs |-> IF j = low THEN 100 ELSE 20]
LongStream == [j \in Jobs |-> IF j = low THEN 120 ELSE 60]
=============================================================================
