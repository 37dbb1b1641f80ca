------------------------------ MODULE MCTrades ------------------------------
(* execution.mode, for TLC: paper_trades.json is written by the simulated  *)
(* book of PaperLedger or by the merges and loops of TradeHistory. A       *)
(* behaviour is one of the one or of the other.                            *)
EXTENDS PaperLedger

CONSTANTS Deals, FastLive, MaxFaults  \* of TradeHistory

ASSUME HistoryAssumption == FastLive \in BOOLEAN /\ MaxFaults \in Nat

VARIABLES
  mode,  \* "paper" or "mt5", fixed from the start
  dealt, window, closed, memory, scored, edges, points, logged, newer, rewritten,
  at, own, fresh, unread, shaken, faults

live == <<dealt, window, closed, memory, scored, edges, points, logged, newer,
          rewritten, at, own, fresh, unread, shaken, faults>>

Live == INSTANCE TradeHistory

MCInit == mode \in {"paper", "mt5"} /\ Init /\ Live!Init

MCNext ==
  /\ \/ mode = "paper" /\ Next /\ UNCHANGED live
     \/ mode = "mt5" /\ Live!Next /\ UNCHANGED vars
  /\ UNCHANGED mode

MCFairness ==
  /\ WF_vars(mode = "paper" /\ RunGoesOn)
  /\ WF_live(mode = "mt5" /\ Live!PipelineGoesOn)
  /\ WF_live(mode = "mt5" /\ Live!OrderGoesOn("fast"))

MCSpec == MCInit /\ [][MCNext]_<<vars, mode, live>> /\ MCFairness

\* Every deal of a live account is recorded for good and learned from once.
DealsLearnedOnce == Live!DealsLearnedOnce
=============================================================================
