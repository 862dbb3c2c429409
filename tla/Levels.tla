------------------------------- MODULE Levels -------------------------------
(* What the advisors and the decisions measure by: the levels of severity  *)
(* (advisors/base.py) and, in percent of the rivals' median, what counts   *)
(* as behind (advisors/economy.py) and on pace (decisions/yields.py).      *)
Info == 0
Advise == 1
Warn == 2
Critical == 3

BehindRatio == 75
FarBehindRatio == 50
OnPace == 100
=============================================================================
