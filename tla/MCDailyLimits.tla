--------------------------- MODULE MCDailyLimits ---------------------------
(* The two ways the limits are configured, for TLC: the constants of the   *)
(* configuration file are those of a Blue Guardian account; the growth     *)
(* plan, with fast mode placing orders, is a second instance on the same   *)
(* documents. A behaviour is one of the one or of the other.               *)
EXTENDS DailyLimits

CONSTANTS GrowthBuffer, GrowthTrail  \* the growth account's own limits

VARIABLE plan  \* "guardian" or "growth", fixed from the start

Plan == INSTANCE DailyLimits WITH
          GuardEnabled <- FALSE, LockOnTarget <- TRUE, FastLive <- TRUE,
          PracticeReset <- TRUE, LockOnProfit <- FALSE,
          LossBuffer <- GrowthBuffer, TrailPct <- GrowthTrail

MCInit ==
  \/ plan = "guardian" /\ Init
  \/ plan = "growth" /\ Plan!Init

MCNext ==
  /\ \/ plan = "guardian" /\ Next
     \/ plan = "growth" /\ Plan!Next
  /\ UNCHANGED plan

MCSpec == MCInit /\ [][MCNext]_<<vars, plan>>
=============================================================================
