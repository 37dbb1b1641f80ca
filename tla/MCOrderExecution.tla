------------------------- MODULE MCOrderExecution -------------------------
(* Small instances of OrderExecution for TLC. *)
EXTENDS OrderExecution

CONSTANTS s1, s2, xau

\* Two signals on one symbol, same side: what pyramiding and caps are about.
MCSignals == {s1, s2}
MCSymbolOf == [s \in MCSignals |-> xau]
MCSameSide == [s \in MCSignals |-> "BUY"]
\* Two signals on one symbol, opposite sides: reversals and regime flips.
MCOpposite == [s \in MCSignals |-> IF s = s1 THEN "BUY" ELSE "SELL"]
MCOne == {s1}
MCOneSymbol == [s \in MCOne |-> xau]
MCOneSide == [s \in MCOne |-> "BUY"]
=============================================================================
