-------------------------- MODULE PaperLedger_proofs --------------------------
(***************************************************************************)
(* Theorems about the paper book, for any number of signals and fills, any *)
(* distances, lots and prices, and crashes between any two of its files.   *)
(***************************************************************************)
EXTENDS PaperLedger, TLAPS

-----------------------------------------------------------------------------
(* One position in one step of the broker or of the position manager       *)

LEMMA MaxOfTwo ==
  ASSUME NEW a \in Int, NEW b \in Int
  PROVE  Max({a, b}) \in {a, b} /\ Max({a, b}) >= a /\ Max({a, b}) >= b
<1>1. \E x \in {a, b} : \A y \in {a, b} : x >= y
  OBVIOUS
<1> QED
  BY <1>1 DEF Max

\* Half of the lots, rounded down, is less than all of them.
LEMMA HalfIsLess ==
  ASSUME NEW n \in Nat
  PROVE  PartialVolume(n) \in 0 .. n /\ (PartialVolume(n) > 0 => PartialVolume(n) < n)
BY DEF PartialVolume

\* Moving peak and stop leaves the lots alone.
LEMMA MovesTyped ==
  ASSUME seen \in Price, NEW p \in Position
  PROVE  /\ Peaked(p) \in Position /\ Peaked(p).size = p.size
         /\ BrokenEven(p) \in Position /\ BrokenEven(p).size = p.size
         /\ Trailed(p) \in Position /\ Trailed(p).size = p.size
<1> USE ConfigAssumption DEF Position, Price, Level
<1>1. Peaked(p) \in Position /\ Peaked(p).size = p.size
  <2>1. Max({p.peak, seen}) \in Price
    <3>1. p.peak \in Price /\ p.peak \in Int /\ seen \in Int
      OBVIOUS
    <3> QED
      BY <3>1, MaxOfTwo
  <2> QED
    BY <2>1 DEF Peaked
<1>2. BrokenEven(p) \in Position /\ BrokenEven(p).size = p.size
  <2>1. p.entry + Lock > p.stop => p.entry + Lock \in Level
    OBVIOUS
  <2> QED
    BY <2>1 DEF BrokenEven
<1>3. Trailed(p) \in Position /\ Trailed(p).size = p.size
  <2>1. p.peak - Trail \in Level
    OBVIOUS
  <2> QED
    BY <2>1 DEF Trailed
<1> QED
  BY <1>1, <1>2, <1>3

\* A partial profit takes its lots off the position, whoever takes it.
LEMMA SplitsTyped ==
  ASSUME NEW p \in Position
  PROVE  /\ Halved(p) \in Position /\ Halved(p).size = p.size - PartialVolume(p.size)
         /\ \A whole \in BOOLEAN : /\ ManagerSplits(p, whole) \in Position
                                  /\ ManagerSplits(p, whole).size <= p.size
<1> USE ConfigAssumption DEF Position, Price, Level
<1>1. /\ p.size - PartialVolume(p.size) \in 0 .. Size
      /\ p.size - PartialVolume(p.size) <= p.size
      /\ p.entry + RunnerLock \in Level /\ p.entry + TP2 \in Level
  BY HalfIsLess
<1>2. Halved(p) \in Position /\ Halved(p).size = p.size - PartialVolume(p.size)
  <2>1. PartialVolume(p.size) \in Int
    BY HalfIsLess
  <2> QED
    BY <1>1, <2>1 DEF Halved
<1>3. ASSUME NEW whole \in BOOLEAN
      PROVE  ManagerSplits(p, whole) \in Position /\ ManagerSplits(p, whole).size <= p.size
  <2> DEFINE lots == IF whole THEN 0 ELSE p.size - PartialVolume(p.size)
  <2>1. lots \in 0 .. Size /\ lots <= p.size
    BY <1>1
  <2>2. ManagerSplits(p, whole) = [p EXCEPT !.size = lots, !.stop = p.entry + RunnerLock,
                                            !.tp = p.entry + TP2, !.be = TRUE]
    BY DEF ManagerSplits
  <2> HIDE DEF lots
  <2> QED
    BY <1>1, <2>1, <2>2
<1> QED
  BY <1>2, <1>3

\* A stop is lifted to a level there is, and the lots stay.
LEMMA LiftedTyped ==
  ASSUME NEW p \in Position, price \in Price, NEW d \in Lifts \cup {None}
  PROVE  Lifted(p, d) \in Position /\ Lifted(p, d).size = p.size
<1>1. CASE d = None
  BY <1>1 DEF Lifted
<1>2. CASE d # None
  <2> DEFINE x == p.stop
             y == price - Trail + d
  <2>1. x \in Level /\ d \in 0 .. TP2 + Lock /\ price \in 0 .. MaxPrice
    BY <1>2, ConfigAssumption DEF Position, Price
  <2>2. y \in Int /\ x \in Int /\ y <= MaxPrice + TP2 + Lock
    BY <2>1, ConfigAssumption DEF Level
  <2> HIDE DEF x, y
  <2>3. Max({x, y}) \in {x, y} /\ Max({x, y}) >= x
    BY <2>2, MaxOfTwo
  <2>4. Max({x, y}) \in Level
    BY <2>1, <2>2, <2>3, ConfigAssumption DEF Level
  <2>5. Lifted(p, d) = [p EXCEPT !.stop = Max({x, y})]
    BY <1>2 DEF Lifted, x, y
  <2> QED
    BY <2>4, <2>5 DEF Position
<1> QED
  BY <1>1, <1>2

\* Lots of id i in the book b.
Lots(b, i) == IF b[i] = None THEN 0 ELSE b[i].size

\* What CheckExits makes of one id: it stays, is split, is closed, or was not open.
LEMMA ExitsEffect ==
  ASSUME TypeOK, CheckExits, NEW i \in Ids
  PROVE  /\ work'.book[i] \in Position \cup {None}
         /\ work'.balance[i] \in Nat /\ work'.trades[i] \in Nat /\ parts'[i] \in Nat
         /\ work.book[i] = None => work'.book[i] = None
         /\ \/ /\ work'.balance[i] = work.balance[i]
               /\ work'.trades[i] = work.trades[i]
               /\ Lots(work'.book, i) = Lots(work.book, i)
            \/ /\ work'.balance[i] > work.balance[i]
               /\ work'.balance[i] < work.balance[i] + Lots(work.book, i)
               /\ work'.trades[i] = work.trades[i]
               /\ work'.balance[i] + Lots(work'.book, i)
                    = work.balance[i] + Lots(work.book, i)
            \/ /\ work'.balance[i] = work.balance[i] + Lots(work.book, i)
               /\ work'.trades[i] > 0
               /\ work'.book[i] = None
<1> DEFINE begun == work.book[i]
           moved == BrokenEven(Peaked(begun))
           splits == /\ begun # None /\ seen > begun.stop /\ TakesPartial(moved)
           end == IF seen <= begun.stop THEN begun ELSE Trailed(moved)
           gone == begun # None /\ ~splits /\ Exits(begun, end)
<1>1. /\ work'.book[i] = IF gone THEN None
                         ELSE IF splits THEN Halved(moved)
                         ELSE IF begun # None THEN end ELSE None
      /\ work'.balance[i] = work.balance[i]
                            + (IF splits THEN PartialVolume(begun.size) ELSE 0)
                            + (IF gone THEN begun.size ELSE 0)
      /\ work'.trades[i] = work.trades[i] + (IF gone THEN 1 ELSE 0)
      /\ parts'[i] = parts[i] + (IF splits THEN 1 ELSE 0)
  BY DEF CheckExits, Exited, Open
<1>2. begun # None => /\ begun \in Position /\ moved \in Position /\ end \in Position
                      /\ moved.size = begun.size /\ end.size = begun.size
                      /\ begun.size \in Nat
  <2> SUFFICES ASSUME begun # None PROVE /\ begun \in Position /\ moved \in Position
                      /\ end \in Position
                      /\ moved.size = begun.size /\ end.size = begun.size
                      /\ begun.size \in Nat
    OBVIOUS
  <2>1. begun \in Position /\ seen \in Price
    BY DEF TypeOK
  <2>2. Peaked(begun) \in Position /\ Peaked(begun).size = begun.size
    BY <2>1, MovesTyped
  <2>3. moved \in Position /\ moved.size = begun.size
    BY <2>1, <2>2, MovesTyped
  <2>4. Trailed(moved) \in Position /\ Trailed(moved).size = begun.size
    BY <2>1, <2>3, MovesTyped
  <2>5. begun.size \in Nat
    BY <2>1 DEF Position
  <2> QED
    BY <2>1, <2>3, <2>4, <2>5
<1>3. splits => /\ PartialVolume(begun.size) \in Nat /\ 0 < PartialVolume(begun.size)
                /\ PartialVolume(begun.size) < begun.size
                /\ Halved(moved) \in Position
                /\ Halved(moved).size = begun.size - PartialVolume(begun.size)
  BY <1>2, HalfIsLess, SplitsTyped DEF TakesPartial
<1>4. work.balance[i] \in Nat /\ work.trades[i] \in Nat /\ parts[i] \in Nat
  BY DEF TypeOK
<1> HIDE DEF begun, moved, splits, end, gone
<1>5. Lots(work.book, i) = IF begun = None THEN 0 ELSE begun.size
  BY DEF Lots, begun
<1>6. CASE splits
  <2>1. ~gone /\ begun # None
    BY <1>6 DEF gone, splits
  <2> QED BY <1>1, <1>2, <1>3, <1>4, <1>5, <1>6, <2>1, NoneAssumption DEF Lots, begun
<1>7. CASE gone
  <2>1. ~splits /\ begun # None
    BY <1>7 DEF gone
  <2> QED BY <1>1, <1>2, <1>4, <1>5, <1>7, <2>1 DEF Lots, begun
<1>8. CASE ~splits /\ ~gone
  BY <1>1, <1>2, <1>4, <1>5, <1>8, NoneAssumption DEF Lots, begun
<1> QED
  BY <1>6, <1>7, <1>8

-----------------------------------------------------------------------------
(* Types *)

\* What a fill puts into the book is a position; nothing else of the book moves.
LEMMA FillEffect ==
  ASSUME TypeOK, NEW s \in Signals, Fills(s)
  PROVE  /\ opened + 1 \in Ids /\ opened' = opened + 1
         /\ work'.book[opened + 1] \in Position
         /\ work'.book[opened + 1].size = Size
         /\ \A i \in Ids \ {opened + 1} : work'.book[i] = work.book[i]
         /\ work' \in [book : [Ids -> Position \cup {None}], balance : [Ids -> Nat],
                       trades : [Ids -> Nat]]
         /\ work'.balance = work.balance /\ work'.trades = work.trades
<1> DEFINE p == [entry |-> seen, stop |-> seen - Risk, tp |-> seen + TP1, size |-> Size,
                 peak |-> seen, be |-> FALSE, trail |-> FALSE, partial |-> FALSE]
<1>1. p \in Position
  BY ConfigAssumption DEF TypeOK, Position, Price, Level
<1>2. opened + 1 \in Ids
  BY ConfigAssumption DEF Fills, TypeOK, Ids
<1>3. work' = [work EXCEPT !.book[opened + 1] = p]
  BY DEF Fills
<1>4. p.size = Size
  OBVIOUS
<1> HIDE DEF p
<1> QED
  BY <1>1, <1>2, <1>3, <1>4 DEF TypeOK, Fills

\* What the position manager makes of one id of the book: never more lots.
LEMMA ManagesEffect ==
  ASSUME TypeOK, NEW R, Manages(R), NEW i \in Ids
  PROVE  /\ work'.book[i] \in Position \cup {None}
         /\ book[i] = None => work'.book[i] = None
         /\ Lots(work'.book, i) <= Lots(book, i)
<1> DEFINE splits == {k \in Open(book) \ rows : price >= book[k].tp /\ book[k].size > 0}
           whole(n) == \/ ~PartialEnabled
                       \/ \E k \in splits : k <= n /\ PartialVolume(book[k].size) = 0
           split(n) == IF n \in splits THEN ManagerSplits(book[n], whole(n)) ELSE book[n]
<1>1. PICK lift \in [Open(book) -> Lifts \cup {None}] :
        work' = [book    |-> [n \in Ids |-> IF n \in Open(book) \ R
                                            THEN Lifted(split(n), lift[n]) ELSE None],
                 balance |-> balance, trades |-> trades]
  BY DEF Manages
<1> HIDE DEF split
<1>2. work'.book[i] = IF i \in Open(book) \ R THEN Lifted(split(i), lift[i]) ELSE None
  BY <1>1
<1>3. CASE i \notin Open(book) \ R
  <2>1. work'.book[i] = None
    BY <1>2, <1>3
  <2>2. Lots(book, i) \in Nat /\ Lots(work'.book, i) = 0
    BY <2>1 DEF Lots, TypeOK, Position
  <2>3. Lots(work'.book, i) <= Lots(book, i)
    BY <2>2
  <2> QED
    BY <2>1, <2>3
<1>4. CASE i \in Open(book) \ R
  <2>1. book[i] \in Position /\ book[i] # None
    BY <1>4 DEF Open, TypeOK
  <2>2. whole(i) \in BOOLEAN
    OBVIOUS
  <2> HIDE DEF whole, splits
  <2>3. split(i) \in Position /\ split(i).size <= book[i].size
    BY <2>1, <2>2, SplitsTyped DEF Position, split
  <2>4. price \in Price /\ lift[i] \in Lifts \cup {None}
    BY <1>4 DEF TypeOK
  <2>5. Lifted(split(i), lift[i]) \in Position /\ Lifted(split(i), lift[i]).size = split(i).size
    BY <2>3, <2>4, LiftedTyped
  <2> QED
    BY <1>2, <1>4, <2>1, <2>3, <2>5, NoneAssumption DEF Lots
<1> QED
  BY <1>3, <1>4

\* A manager pass in full, for the variables other than the book.
LEMMA ManagesTyped ==
  ASSUME TypeOK, NEW R \in SUBSET Open(book), Manages(R)
  PROVE  TypeOK'
<1>1. work' \in [book : [Ids -> Position \cup {None}], balance : [Ids -> Nat],
                 trades : [Ids -> Nat]]
  <2> DEFINE b == work'.book
  <2>1. b = [i \in Ids |-> b[i]] /\ work' = [book |-> b, balance |-> balance, trades |-> trades]
    BY DEF Manages
  <2>2. \A i \in Ids : b[i] \in Position \cup {None}
    BY ManagesEffect
  <2> HIDE DEF b
  <2>3. b \in [Ids -> Position \cup {None}]
    BY <2>1, <2>2
  <2> QED
    BY <2>1, <2>3 DEF TypeOK
<1>2. rows' \subseteq Ids
  BY DEF Manages, Open, TypeOK
<1>3. parts' \in [Ids -> Nat]
  BY DEF Manages, TypeOK
<1>4. torn' \in BOOLEAN /\ pc' = "manage"
  BY DEF Manages, TypeOK
<1> QED
  BY <1>1, <1>2, <1>3, <1>4 DEF Manages, TypeOK

\* The signal of every open position is known. TypeOK needs it: it is what the
\* executed ids of a batch are made of.
Named == \A i \in Ids : book[i] # None \/ work.book[i] # None => signal[i] \in Signals

LEMMA NoWorkTyped ==
  NoWork \in [book : [Ids -> Position \cup {None}], balance : [Ids -> Nat],
              trades : [Ids -> Nat]]
BY DEF NoWork

LEMMA StepTyped ==
  ASSUME TypeOK, Named, [Next]_vars
  PROVE  TypeOK'
<1> USE DEF files, run, history
<1>1. CASE ExecutionBegins
  <2>1. known' \subseteq Signals /\ batch' \subseteq Signals /\ prior' \subseteq Ids
    BY <1>1 DEF ExecutionBegins, Named, Open
  <2>2. work' \in [book : [Ids -> Position \cup {None}], balance : [Ids -> Nat],
                   trades : [Ids -> Nat]]
    BY <1>1 DEF ExecutionBegins, TypeOK
  <2> QED
    BY <1>1, <2>1, <2>2 DEF ExecutionBegins, TypeOK
<1>2. ASSUME NEW s \in Signals, Skips(s) PROVE TypeOK'
  BY <1>2 DEF Skips, TypeOK
<1>3. ASSUME NEW s \in Signals, Fills(s) PROVE TypeOK'
  <2>1. opened' \in 0 .. MaxFills /\ signal' \in [Ids -> Signals \cup {None}]
    <3>1. opened + 1 \in Ids /\ opened' = opened + 1
      BY <1>3, FillEffect
    <3>2. opened' \in 0 .. MaxFills
      BY <3>1, ConfigAssumption DEF TypeOK, Ids
    <3>3. signal' \in [Ids -> Signals \cup {None}]
      BY <1>3, <3>1 DEF Fills, TypeOK
    <3> QED
      BY <3>2, <3>3
  <2>2. batch' \subseteq Signals /\ torn' \in BOOLEAN
    BY <1>3 DEF Fills, TypeOK
  <2> QED
    BY <1>3, <2>1, <2>2, FillEffect DEF Fills, TypeOK
<1>4. CASE CheckExits
  <2>1. work' \in [book : [Ids -> Position \cup {None}], balance : [Ids -> Nat],
                   trades : [Ids -> Nat]]
    <3>1. work' = [book |-> work'.book, balance |-> work'.balance, trades |-> work'.trades]
      BY <1>4 DEF CheckExits
    <3>2. /\ work'.book = [i \in Ids |-> work'.book[i]]
          /\ work'.balance = [i \in Ids |-> work'.balance[i]]
          /\ work'.trades = [i \in Ids |-> work'.trades[i]]
      BY <1>4 DEF CheckExits, Exited
    <3>3. \A i \in Ids : /\ work'.book[i] \in Position \cup {None}
                         /\ work'.balance[i] \in Nat /\ work'.trades[i] \in Nat
      BY <1>4, ExitsEffect
    <3> DEFINE b == work'.book
               c == work'.balance
               t == work'.trades
    <3> HIDE DEF b, c, t
    <3>4. b \in [Ids -> Position \cup {None}] /\ c \in [Ids -> Nat] /\ t \in [Ids -> Nat]
      BY <3>2, <3>3 DEF b, c, t
    <3>5. work' = [book |-> b, balance |-> c, trades |-> t]
      BY <3>1 DEF b, c, t
    <3> QED
      BY <3>4, <3>5
  <2>2. parts' \in [Ids -> Nat]
    <3>1. parts' = [i \in Ids |-> parts'[i]]
      BY <1>4 DEF CheckExits
    <3>2. \A i \in Ids : parts'[i] \in Nat
      BY <1>4, ExitsEffect
    <3> QED
      BY <3>1, <3>2
  <2>3. /\ pc' = "detect"
        /\ UNCHANGED <<price, files, batch, known, seen, prior, opened, signal, dropped,
                       torn, crashes>>
    BY <1>4 DEF CheckExits
  <2> QED
    BY <2>1, <2>2, <2>3 DEF TypeOK
<1>5. CASE DetectClosed
  BY <1>5 DEF DetectClosed, TypeOK
<1>6. CASE WriteOrders
  BY <1>6 DEF WriteOrders, TypeOK
<1>7. CASE WritePositions
  BY <1>7 DEF WritePositions, TypeOK
<1>8. CASE WriteTrades
  BY <1>8, NoWorkTyped, ConfigAssumption DEF WriteTrades, Rest, TypeOK, Price
<1>9. CASE PositionManagerRuns
  BY <1>9, ManagesTyped DEF PositionManagerRuns
<1>10. CASE ReversalCloses
  BY <1>10, ManagesTyped DEF ReversalCloses
<1>11. CASE PriceMoves
  BY <1>11 DEF PriceMoves, TypeOK
<1>12. CASE Crash
  <2>1. torn' \in BOOLEAN
    BY <1>12 DEF Crash, TypeOK
  <2> QED
    BY <1>12, <2>1, NoWorkTyped, ConfigAssumption DEF Crash, Rest, TypeOK, Price
<1>13. CASE UNCHANGED vars
  BY <1>13 DEF vars, TypeOK
<1>14. CASE ManagerWrites
  <2>1. dropped' \subseteq Ids /\ torn' \in BOOLEAN
    BY <1>14 DEF ManagerWrites, Open, TypeOK
  <2> QED
    BY <1>14, <2>1, NoWorkTyped, ConfigAssumption DEF ManagerWrites, Rest, TypeOK, Price
<1> QED
  BY <1>1, <1>2, <1>3, <1>4, <1>5, <1>6, <1>7, <1>8, <1>9, <1>10, <1>11, <1>12, <1>13, <1>14
     DEF Next, RunGoesOn

LEMMA StepNamed ==
  ASSUME TypeOK, Named, [Next]_vars
  PROVE  Named'
<1> USE DEF files, run, history, Named
<1>1. CASE ExecutionBegins
  BY <1>1 DEF ExecutionBegins
<1>2. ASSUME NEW s \in Signals, Skips(s) PROVE Named'
  BY <1>2 DEF Skips
<1>3. ASSUME NEW s \in Signals, Fills(s) PROVE Named'
  BY <1>3, FillEffect DEF Fills, TypeOK
<1>4. CASE CheckExits
  <2>1. book' = book /\ signal' = signal
    BY <1>4 DEF CheckExits
  <2> QED
    BY <1>4, <2>1, ExitsEffect
<1>5. CASE DetectClosed
  BY <1>5 DEF DetectClosed, TypeOK
<1>6. CASE WriteOrders \/ WritePositions
  BY <1>6 DEF WriteOrders, WritePositions
<1>7. CASE WriteTrades \/ Crash \/ ManagerWrites
  BY <1>7 DEF WriteTrades, ManagerWrites, Crash, Rest, NoWork
<1>8. ASSUME NEW R, Manages(R) PROVE Named'
  <2>1. book' = book /\ signal' = signal
    BY <1>8 DEF Manages
  <2> QED
    BY <1>8, <2>1, ManagesEffect
<1>9. CASE PriceMoves \/ UNCHANGED vars
  BY <1>9 DEF PriceMoves, vars
<1> QED
  BY <1>1, <1>2, <1>3, <1>4, <1>5, <1>6, <1>7, <1>8, <1>9
     DEF Next, RunGoesOn, PositionManagerRuns, ReversalCloses

LEMMA InitTyped == Init => TypeOK /\ Named
<1> SUFFICES ASSUME Init PROVE TypeOK /\ Named
  OBVIOUS
<1>1. price \in Price /\ seen \in Price
  BY ConfigAssumption DEF Init, Price
<1>2. torn \in BOOLEAN
  BY DEF Init
<1> QED
  BY <1>1, <1>2, NoWorkTyped, ConfigAssumption DEF Init, TypeOK, Named, Ids, NoWork

\* The paper documents keep their types, and every stop stays between the widest
\* risk and the highest target, for any sequence of prices and any crash.
THEOREM TypeCorrect == Spec => []TypeOK
<1>1. Spec => [](TypeOK /\ Named)
  BY InitTyped, StepTyped, StepNamed, PTL DEF Spec
<1> QED
  BY <1>1, PTL

-----------------------------------------------------------------------------
(* The ids of the history. An id that has not been given out is in no book *)
(* and in no cash; the open positions of the file, and those of a run, are *)
(* of different signals. Two books at a time matter because the run works  *)
(* on a copy, which it writes back later or loses in a crash.              *)

Unused ==
  \A i \in Ids : i > opened =>
    /\ book[i] = None /\ balance[i] = 0
    /\ work.book[i] = None /\ work.balance[i] = 0

Distinct(b) == \A i, j \in Open(b) : signal[i] = signal[j] => i = j

\* Every step keeps unused ids unused.
LEMMA StepUnused ==
  ASSUME TypeOK, Unused, [Next]_vars
  PROVE  Unused'
<1> USE DEF files, run, history, Unused
<1>1. CASE ExecutionBegins
  BY <1>1 DEF ExecutionBegins
<1>2. ASSUME NEW s \in Signals, Skips(s) PROVE Unused'
  BY <1>2 DEF Skips
<1>3. ASSUME NEW s \in Signals, Fills(s) PROVE Unused'
  <2>1. UNCHANGED <<book, balance>>
    BY <1>3 DEF Fills
  <2>2. \A i \in Ids : i > opened' => i > opened /\ i # opened + 1
    BY <1>3, FillEffect DEF TypeOK, Ids
  <2> QED
    BY <1>3, <2>1, <2>2, FillEffect
<1>4. CASE CheckExits
  <2>1. UNCHANGED <<book, balance, opened>>
    BY <1>4 DEF CheckExits
  <2>2. ASSUME NEW i \in Ids, i > opened
        PROVE  work'.book[i] = None /\ work'.balance[i] = 0
    BY <1>4, <2>2, ExitsEffect DEF Lots, TypeOK
  <2> QED
    BY <2>1, <2>2
<1>5. CASE DetectClosed
  BY <1>5 DEF DetectClosed, TypeOK
<1>6. CASE WriteOrders \/ WritePositions
  BY <1>6 DEF WriteOrders, WritePositions
<1>7. CASE WriteTrades \/ Crash \/ ManagerWrites
  BY <1>7 DEF WriteTrades, ManagerWrites, Crash, Rest, NoWork
<1>8. ASSUME NEW R, Manages(R) PROVE Unused'
  <2>1. UNCHANGED <<book, balance, opened>> /\ work'.balance = balance
    BY <1>8 DEF Manages
  <2> QED
    BY <1>8, <2>1, ManagesEffect
<1>9. CASE PriceMoves \/ UNCHANGED vars
  BY <1>9 DEF PriceMoves, vars
<1> QED
  BY <1>1, <1>2, <1>3, <1>4, <1>5, <1>6, <1>7, <1>8, <1>9
     DEF Next, RunGoesOn, PositionManagerRuns, ReversalCloses

\* Closing positions keeps the rest of different signals.
LEMMA DistinctShrinks ==
  ASSUME NEW a, NEW b, Distinct(a), \A i \in Ids : a[i] = None => b[i] = None
  PROVE  Distinct(b)
BY DEF Distinct, Open

\* Every step keeps both books to one position per signal.
LEMMA StepDistinct ==
  ASSUME TypeOK, Unused, Distinct(book), Distinct(work.book), [Next]_vars
  PROVE  Distinct(book)' /\ Distinct(work.book)'
<1> USE DEF files, run, history
<1>1. CASE ExecutionBegins
  BY <1>1 DEF ExecutionBegins, Distinct, Open
<1>2. ASSUME NEW s \in Signals, Skips(s) PROVE Distinct(book)' /\ Distinct(work.book)'
  BY <1>2 DEF Skips, Distinct, Open
<1>3. ASSUME NEW s \in Signals, Fills(s) PROVE Distinct(book)' /\ Distinct(work.book)'
  <2>1. /\ book' = book
        /\ signal' = [signal EXCEPT ![opened + 1] = s]
        /\ \A i \in Open(work.book) : signal[i] # s
    BY <1>3 DEF Fills, IsDuplicate
  <2>2. /\ opened + 1 \in Ids /\ opened \in Nat
        /\ \A i \in Ids \ {opened + 1} : work'.book[i] = work.book[i]
    BY <1>3, FillEffect DEF TypeOK
  <2>3. opened + 1 > opened
    BY <2>2
  <2>4. book[opened + 1] = None /\ work.book[opened + 1] = None
    BY <2>2, <2>3 DEF Unused
  <2>5. /\ signal'[opened + 1] = s
        /\ \A i \in Ids \ {opened + 1} : signal'[i] = signal[i]
    BY <2>1, <2>2 DEF TypeOK
  <2>6. Distinct(book)'
    BY <2>1, <2>4, <2>5 DEF Distinct, Open
  <2>7. Distinct(work.book)'
    BY <2>1, <2>2, <2>4, <2>5 DEF Distinct, Open
  <2> QED
    BY <2>6, <2>7
<1>4. CASE CheckExits
  <2>1. book' = book /\ signal' = signal
    BY <1>4 DEF CheckExits
  <2>2. \A i \in Ids : work.book[i] = None => work'.book[i] = None
    BY <1>4, ExitsEffect
  <2> QED
    BY <2>1, <2>2 DEF Distinct, Open
<1>5. CASE DetectClosed
  BY <1>5 DEF DetectClosed, TypeOK, Distinct, Open
<1>6. CASE WriteOrders \/ WritePositions
  BY <1>6 DEF WriteOrders, WritePositions, Distinct, Open
<1>7. CASE WriteTrades \/ Crash \/ ManagerWrites
  BY <1>7 DEF WriteTrades, ManagerWrites, Crash, Rest, NoWork, Distinct, Open
<1>8. ASSUME NEW R, Manages(R) PROVE Distinct(book)' /\ Distinct(work.book)'
  <2>1. UNCHANGED <<book, signal>>
    BY <1>8 DEF Manages
  <2>2. \A i \in Ids : book[i] = None => work'.book[i] = None
    BY <1>8, ManagesEffect
  <2> QED
    BY <2>1, <2>2 DEF Distinct, Open
<1>9. CASE PriceMoves \/ UNCHANGED vars
  BY <1>9 DEF PriceMoves, vars, Distinct, Open
<1> QED
  BY <1>1, <1>2, <1>3, <1>4, <1>5, <1>6, <1>7, <1>8, <1>9
     DEF Next, RunGoesOn, PositionManagerRuns, ReversalCloses

-----------------------------------------------------------------------------
(* The accounts. What an id has in cash and what it has open is at most    *)
(* what was bought, and when all of it is in cash, the trades know. That   *)
(* holds of the three files between two runs, and of the run's own three   *)
(* documents, which become the files one after the other: from the second  *)
(* write on, what is on disk is known only by what the run still has.      *)

AccountedFor(lots, cash, closes) == cash + lots <= Size /\ (cash = Size => closes > 0)

Accounted(b, cash, closes) == \A i \in Ids : AccountedFor(Lots(b, i), cash[i], closes[i])

Written ==
  /\ pc \in {"positions", "trades"} => balance = work.balance
  /\ pc = "trades" => book = work.book
  /\ pc = "manage" => balance = work.balance /\ trades = work.trades

Accounts ==
  ~torn => /\ Accounted(work.book, work.balance, work.trades)
           /\ pc \notin {"positions", "trades"} => Accounted(book, balance, trades)

\* Every step keeps what has been written of a run equal to the run's own.
LEMMA StepWritten ==
  ASSUME TypeOK, Written, [Next]_vars
  PROVE  Written'
<1> USE DEF files, run, history, Written
<1>1. CASE RunGoesOn
  BY <1>1 DEF RunGoesOn, CheckExits, DetectClosed, WriteOrders, WritePositions, WriteTrades,
     ManagerWrites, Rest, Skips, Fills
<1>2. CASE ExecutionBegins \/ PriceMoves \/ Crash
  BY <1>2 DEF ExecutionBegins, PriceMoves, Crash, Rest
<1>3. ASSUME NEW R, Manages(R) PROVE Written'
  <2>1. /\ pc' = "manage" /\ balance' = balance /\ trades' = trades
        /\ work'.balance = balance /\ work'.trades = trades
    BY <1>3 DEF Manages
  <2> QED
    BY <2>1
<1>4. CASE UNCHANGED vars
  BY <1>4 DEF vars
<1> QED
  BY <1>1, <1>2, <1>3, <1>4 DEF Next, PositionManagerRuns, ReversalCloses

\* A step of the exits keeps the account of an id: a partial leaves some lots open,
\* and the lots of a close come with a trade.
LEMMA ExitsAccounted ==
  ASSUME TypeOK, CheckExits, NEW i \in Ids,
         AccountedFor(Lots(work.book, i), work.balance[i], work.trades[i])
  PROVE  AccountedFor(Lots(work'.book, i), work'.balance[i], work'.trades[i])
<1>1. /\ Lots(work.book, i) \in Nat /\ work.balance[i] \in Nat /\ work.trades[i] \in Nat
      /\ Lots(work'.book, i) \in Nat /\ work'.balance[i] \in Nat /\ work'.trades[i] \in Nat
  BY ExitsEffect DEF Lots, TypeOK, Position
<1>2. work'.book[i] = None => Lots(work'.book, i) = 0
  BY DEF Lots
<1> QED
  BY <1>1, <1>2, ExitsEffect, ConfigAssumption DEF AccountedFor

\* Every step keeps the accounts.
LEMMA StepAccounts ==
  ASSUME TypeOK, Unused, Written, Accounts, [Next]_vars
  PROVE  Accounts'
<1> USE DEF files, run, history, Accounts
<1>1. CASE ExecutionBegins
  BY <1>1 DEF ExecutionBegins, Accounted, Lots
<1>2. ASSUME NEW s \in Signals, Skips(s) PROVE Accounts'
  BY <1>2 DEF Skips, Accounted, Lots
<1>3. ASSUME NEW s \in Signals, Fills(s) PROVE Accounts'
  <2>1. /\ UNCHANGED <<book, balance, trades, torn, pc>>
        /\ work'.balance = work.balance /\ work'.trades = work.trades
        /\ opened + 1 \in Ids /\ opened \in Nat
        /\ \A i \in Ids \ {opened + 1} : work'.book[i] = work.book[i]
        /\ work'.book[opened + 1] \in Position /\ work'.book[opened + 1].size = Size
    <3>1. UNCHANGED <<book, balance, trades, torn, pc>>
      BY <1>3 DEF Fills
    <3>2. opened \in Nat
      BY DEF TypeOK
    <3> QED
      BY <1>3, <3>1, <3>2, FillEffect
  <2>2. opened + 1 > opened
    BY <2>1
  <2>3. work.balance[opened + 1] = 0
    BY <2>1, <2>2 DEF Unused
  <2>4. AccountedFor(Lots(work'.book, opened + 1), work'.balance[opened + 1],
                     work'.trades[opened + 1])
    BY <2>1, <2>3, NoneAssumption, ConfigAssumption DEF AccountedFor, Lots
  <2>5. ~torn => Accounted(work'.book, work'.balance, work'.trades)
    BY <2>1, <2>4 DEF Accounted, Lots
  <2> QED
    BY <2>1, <2>5 DEF Accounted, Lots
<1>4. CASE CheckExits
  <2>1. /\ UNCHANGED <<book, balance, trades, torn>> /\ pc = "batch"
    BY <1>4 DEF CheckExits
  <2>2. ~torn => Accounted(work'.book, work'.balance, work'.trades)
    BY <1>4, ExitsAccounted DEF Accounted
  <2> QED
    BY <2>1, <2>2 DEF Accounted, Lots
<1>5. CASE DetectClosed
  <2>1. /\ UNCHANGED <<book, balance, trades, torn>> /\ pc = "detect"
        /\ work'.book = work.book /\ work'.balance = work.balance
        /\ \A i \in Ids : work'.trades[i] \in {work.trades[i], work.trades[i] + 1}
    BY <1>5 DEF DetectClosed, TypeOK
  <2>2. ASSUME NEW i \in Ids,
               AccountedFor(Lots(work.book, i), work.balance[i], work.trades[i])
        PROVE  AccountedFor(Lots(work'.book, i), work'.balance[i], work'.trades[i])
    <3>1. work.trades[i] \in Nat
      BY DEF TypeOK
    <3> QED
      BY <2>1, <2>2, <3>1 DEF AccountedFor, Lots
  <2>3. ~torn => Accounted(work'.book, work'.balance, work'.trades)
    BY <2>2 DEF Accounted
  <2> QED
    BY <2>1, <2>3 DEF Accounted, Lots
<1>6. CASE WriteOrders \/ WritePositions
  BY <1>6 DEF WriteOrders, WritePositions, Accounted, Lots
<1>7. CASE WriteTrades \/ Crash \/ ManagerWrites
  <2>1. Accounted(NoWork.book, NoWork.balance, NoWork.trades)
    BY ConfigAssumption DEF NoWork, Accounted, AccountedFor, Lots
  <2>2. work' = NoWork /\ pc' = "idle"
    BY <1>7 DEF WriteTrades, ManagerWrites, Crash, Rest
  <2>3. CASE WriteTrades
    <3>1. /\ torn' = torn /\ book' = work.book /\ balance' = work.balance
          /\ trades' = work.trades
      BY <2>3 DEF WriteTrades, Written
    <3> QED
      BY <2>1, <2>2, <3>1 DEF Accounted, Lots
  <2>4. CASE Crash
    <3>1. /\ UNCHANGED <<book, balance, trades>>
          /\ ~torn' => ~torn /\ pc \notin {"positions", "trades"}
      BY <2>4 DEF Crash
    <3> QED
      BY <2>1, <2>2, <3>1 DEF Accounted, Lots
  <2>5. CASE ManagerWrites
    <3>1. /\ UNCHANGED <<balance, trades, torn>> /\ book' = work.book
          /\ balance = work.balance /\ trades = work.trades
      BY <2>5 DEF ManagerWrites, Written
    <3> QED
      BY <2>1, <2>2, <3>1 DEF Accounted, Lots
  <2> QED
    BY <1>7, <2>3, <2>4, <2>5
<1>8. ASSUME NEW R, Manages(R) PROVE Accounts'
  <2>1. /\ UNCHANGED <<book, balance, trades, torn>> /\ pc = "idle" /\ pc' = "manage"
        /\ work'.balance = balance /\ work'.trades = trades
    BY <1>8 DEF Manages
  <2>2. ASSUME NEW i \in Ids, AccountedFor(Lots(book, i), balance[i], trades[i])
        PROVE  AccountedFor(Lots(work'.book, i), work'.balance[i], work'.trades[i])
    <3>1. Lots(work'.book, i) <= Lots(book, i)
      BY <1>8, ManagesEffect
    <3>2. Lots(book, i) \in Nat /\ Lots(work'.book, i) \in Nat /\ balance[i] \in Nat
      BY <1>8, ManagesEffect DEF Lots, TypeOK, Position
    <3> QED
      BY <2>1, <2>2, <3>1, <3>2, ConfigAssumption DEF AccountedFor
  <2> QED
    BY <2>1, <2>2 DEF Accounted, Lots
<1>9. CASE PriceMoves \/ UNCHANGED vars
  BY <1>9 DEF PriceMoves, vars, Accounted, Lots
<1> QED
  BY <1>1, <1>2, <1>3, <1>4, <1>5, <1>6, <1>7, <1>8, <1>9
     DEF Next, RunGoesOn, PositionManagerRuns, ReversalCloses

-----------------------------------------------------------------------------

PaperInv ==
  /\ TypeOK /\ Named /\ Unused /\ Written /\ Accounts
  /\ Distinct(book) /\ Distinct(work.book)

LEMMA PaperCorrect == Spec => []PaperInv
<1>1. Init => PaperInv
  <2> SUFFICES ASSUME Init PROVE PaperInv
    OBVIOUS
  <2>1. Unused /\ Written /\ Distinct(book) /\ Distinct(work.book)
    BY DEF Init, NoWork, Unused, Written, Distinct, Open
  <2>2. Accounts
    BY ConfigAssumption DEF Init, NoWork, Accounts, Accounted, AccountedFor, Lots
  <2> QED
    BY <2>1, <2>2, InitTyped DEF PaperInv
<1>2. PaperInv /\ [Next]_vars => PaperInv'
  BY StepTyped, StepNamed, StepUnused, StepWritten, StepAccounts, StepDistinct DEF PaperInv
<1> QED
  BY <1>1, <1>2, PTL DEF Spec

\* A signal never has two open positions in paper_positions.json, however often
\* its approval is read again and whatever runs are cut off: a batch looks for the
\* signal in the positions it holds, not only among the executed ids of before it
\* (paper_broker.py, is_duplicate_position).
THEOREM OneEach == Spec => []OnePositionPerSignal
<1>1. PaperInv => OnePositionPerSignal
  BY DEF PaperInv, Distinct, OnePositionPerSignal
<1> QED
  BY <1>1, PaperCorrect, PTL

\* As long as no crash comes between two files of a run, what is in cash and what
\* is still open of a position never exceed what was bought: broker exits, the
\* broker's partials and the manager's passes do not bank a lot twice.
THEOREM LotsBankedOnce == Spec => []BankedOnce
<1>1. PaperInv => BankedOnce
  BY DEF PaperInv, Accounts, Accounted, AccountedFor, Lots, BankedOnce, BankedEver
<1> QED
  BY <1>1, PaperCorrect, PTL

\* As long as no crash comes between two files of a run, a position whose lots are
\* all in cash is in paper_trades.json.
THEOREM ClosesKept == Spec => []ClosesRecorded
<1>1. PaperInv => ClosesRecorded
  <2>1. TypeOK => 1 .. opened \subseteq Ids
    BY ConfigAssumption DEF TypeOK, Ids
  <2> QED
    BY <2>1 DEF PaperInv, Accounts, Accounted, AccountedFor, ClosesRecorded
<1> QED
  BY <1>1, PaperCorrect, PTL
=============================================================================
