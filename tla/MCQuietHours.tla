---------------------------- MODULE MCQuietHours ----------------------------
(* Half-hours of two days, around the days the clocks change.              *)
EXTENDS QuietHours

HalfHours == {30 * k : k \in 0..83}
SomeHours == {0, 1, 2, 3, 8, 21}

\* Berlin in winter; New York's changes at 02:00; Havana's, at midnight.
SomeZones ==
    { [before |-> 60, after |-> 60, change |-> 0],
      [before |-> -300, after |-> -240, change |-> 26 * 60 + 300],
      [before |-> -240, after |-> -300, change |-> 26 * 60 + 240],
      [before |-> -300, after |-> -240, change |-> 24 * 60 + 300],
      [before |-> -240, after |-> -300, change |-> 25 * 60 + 240] }
=============================================================================
