----------------------------- MODULE OrderGate -----------------------------
(***************************************************************************)
(* What live order execution promises the account, with the threads, the   *)
(* two locks, the queue and the documents left out: one owner at a time    *)
(* may open positions, and a position is opened only if the account, as it *)
(* is at that very moment, has room for it.  Anybody may close, one        *)
(* position at a time.  OrderExecution is shown to implement this.         *)
(***************************************************************************)
EXTENDS Integers, FiniteSets

CONSTANTS
  Owners,             \* the threads that place orders
  Signals, SymbolOf, SideOf,
  MaxOpenPerSymbol, AllowPyramiding,
  None

VARIABLES
  holder,   \* who may open positions, or None
  book,     \* the open positions
  next      \* the ticket of the next order

vars == <<holder, book, next>>

OnSymbol(ps, s) == {p \in ps : SymbolOf[p.sig] = SymbolOf[s]}

\* symbol_capacity_available and is_duplicate_position, of the account itself
Room(ps, s) ==
  /\ Cardinality(OnSymbol(ps, s)) < MaxOpenPerSymbol
  /\ ~AllowPyramiding => \A p \in OnSymbol(ps, s) : SideOf[p.sig] # SideOf[s]

Init == holder = None /\ book = {} /\ next = 1

Take(o) == holder = None /\ holder' = o /\ UNCHANGED <<book, next>>

Release == holder # None /\ holder' = None /\ UNCHANGED <<book, next>>

Open(s) ==
  /\ holder # None
  /\ Room(book, s)
  /\ book' = book \cup {[ticket |-> next, sig |-> s]}
  /\ next' = next + 1
  /\ UNCHANGED holder

Close(p) == book' = book \ {p} /\ UNCHANGED <<holder, next>>

Next ==
  \/ \E o \in Owners : Take(o)
  \/ Release
  \/ \E s \in Signals : Open(s)
  \/ \E p \in book : Close(p)

Spec == Init /\ [][Next]_vars
=============================================================================
