---------------------------- MODULE MCKillSwitch ----------------------------
(* The two configurations of the switch for TLC: the constants of the      *)
(* configuration file are those of an agent whose switch is only flipped   *)
(* by its own rules; an agent whose configuration holds the switch, with a *)
(* trading plan, is a second instance on the same documents. A behaviour   *)
(* is one of the one or of the other.                                      *)
EXTENDS KillSwitch

VARIABLE config  \* "free" or "held", fixed from the start

Held == INSTANCE KillSwitch WITH
          RiskHold <- TRUE, PlanActive <- TRUE, FastLive <- FALSE, MaxHolds <- 0

MCInit ==
  \/ config = "free" /\ Init
  \/ config = "held" /\ Held!Init

MCNext ==
  /\ \/ config = "free" /\ Next
     \/ config = "held" /\ Held!Next
  /\ UNCHANGED config

MCFairness ==
  /\ WF_vars(config = "free" /\ Pipeline)
  /\ WF_vars(config = "held" /\ Held!Pipeline)

MCSpec == MCInit /\ [][MCNext]_<<vars, config>> /\ MCFairness

\* Of an agent whose switch the configuration does not hold: once the market
\* stays calm the gate opens again.
TradesAgainUnheld == config = "free" => TradesAgain
=============================================================================
