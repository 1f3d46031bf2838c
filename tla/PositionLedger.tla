--------------------------- MODULE PositionLedger ---------------------------
(***************************************************************************)
(* The paper ledger of one process and the rows its fills leave behind.    *)
(* The request threads share one PositionLedger without a lock.  A thread  *)
(* about to ask the risk engine marks the position; approved, it reads it  *)
(* and adds to the account totals, writes the position back, and           *)
(* afterwards stores the order, the fill and the position it computed.     *)
(* The database shows the position row with the latest timestamp.          *)
(*                                                                         *)
(* Fees, slippage and funding of paper orders are zero.  Of the rows       *)
(* stored for a fill only the position is looked at by others: they are    *)
(* one step.  X_F is X with the fault F.                                   *)
(***************************************************************************)
EXTENDS LedgerAccounting, FiniteSets, FiniteSetsExt

CONSTANTS Market,       \* markets, of one venue
          Trader,       \* request threads
          FillSize,     \* signed sizes of orders, sales negative
          FillPrice,    \* prices orders fill at
          NoOrder,      \* not a fill
          MaxFills,     \* bound: paper orders
          MaxMishaps    \* bound: failing statements and restarts

ASSUME LedgerAssumption ==
    /\ IsFiniteSet(Market) /\ FillSize \subseteq Int \ {0} /\ FillPrice \subseteq Nat \ {0}
    /\ MaxFills \in Nat /\ MaxMishaps \in Nat

VARIABLES
    position,   \* position[m]: the ledger's entry, Flat when there is none
    gross,      \* _gross_realized_pnl
    latest,     \* latest[m]: size and entry of the newest positions row
    step,       \* step[t]: where thread t is
    order,      \* order[t]: market, signed size and price of its order
    held,       \* held[t]: the entry its fill has made
    \* history and bounds
    traded,     \* traded[m]: net size bought and cash received
    raced,      \* markets in which two fills have overlapped
    last,       \* last[m]: the thread that wrote the entry of m last
    behind,     \* markets whose newest row is not of the last fill
    sent, mishaps

ledgerVars == <<position, gross, latest, step, order, held, traded,
                raced, last, behind, sent, mishaps>>

Steps == {"idle", "fill", "write", "store"}
Nothing == [market |-> NoOrder, size |-> 0, price |-> 0]
Orders == [market : Market, size : FillSize, price : FillPrice]
NoRow == [size |-> 0, entry |-> 0]
Entries == [size : Int, entry : Nat, mark : Nat]

LedgerTypeOK ==
    /\ position \in [Market -> Entries]
    /\ \A m \in Market : position[m].size = 0 => position[m] = Flat
    /\ gross \in Int
    /\ latest \in [Market -> [size : Int, entry : Nat]]
    /\ step \in [Trader -> Steps] /\ order \in [Trader -> Orders \cup {Nothing}]
    /\ held \in [Trader -> Entries]
    /\ \A t \in Trader : /\ step[t] = "idle" <=> order[t] = Nothing
                         /\ held[t].size = 0 => held[t] = Flat
    /\ traded \in [Market -> [size : Int, cash : Int]]
    /\ raced \subseteq Market /\ behind \subseteq Market
    /\ last \in [Market -> Trader \cup {NoOrder}]
    /\ sent \in 0..MaxFills /\ mishaps \in 0..MaxMishaps

LedgerInit ==
    /\ position = [m \in Market |-> Flat]
    /\ gross = 0
    /\ latest = [m \in Market |-> NoRow]
    /\ step = [t \in Trader |-> "idle"]
    /\ order = [t \in Trader |-> Nothing]
    /\ held = [t \in Trader |-> Flat]
    /\ traded = [m \in Market |-> [size |-> 0, cash |-> 0]]
    /\ last = [m \in Market |-> NoOrder]
    /\ raced = {} /\ behind = {} /\ sent = 0 /\ mishaps = 0

Mishap(ok) ==
    /\ ~ok => mishaps < MaxMishaps
    /\ mishaps' = IF ok THEN mishaps ELSE mishaps + 1

\* Threads between their read of the entry of m and their write of it.
Filling(m) == {t \in Trader : order[t].market = m /\ step[t] = "write"}

\* The router marks the position before it asks the risk engine.
MarkPosition(t, o) ==
    /\ step[t] = "idle" /\ sent < MaxFills
    /\ sent' = sent + 1
    /\ position' = [position EXCEPT ![o.market] = Marked(@, o.price)]
    /\ order' = [order EXCEPT ![t] = o]
    /\ step' = [step EXCEPT ![t] = "fill"]
    /\ UNCHANGED <<gross, latest, held, traded, raced, last, behind,
                   mishaps>>

Finish(t) ==
    /\ step' = [step EXCEPT ![t] = "idle"]
    /\ order' = [order EXCEPT ![t] = Nothing]
    /\ held' = [held EXCEPT ![t] = Flat]

\* An order refused by the risk engine or the final decision goes no further.
RefuseOrder(t) ==
    /\ step[t] = "fill"
    /\ Finish(t)
    /\ UNCHANGED <<position, gross, latest, traded, raced, last, behind, sent,
                   mishaps>>

\* apply_fill up to its write of the position.
BookFill(t) ==
    /\ step[t] = "fill"
    /\ LET o == order[t]
           e == position[o.market]
       IN /\ gross' = gross + GrossRealized(e, o.size, o.price)
          /\ held' = [held EXCEPT ![t] = Filled(e, o.size, o.price)]
          /\ raced' = IF Filling(o.market) = {} THEN raced ELSE raced \cup {o.market}
    /\ step' = [step EXCEPT ![t] = "write"]
    /\ UNCHANGED <<position, latest, order, traded, last, behind, sent, mishaps>>

WritePosition(t) ==
    /\ step[t] = "write"
    /\ LET o == order[t]
       IN /\ position' = [position EXCEPT ![o.market] = held[t]]
          /\ traded' = [traded EXCEPT ![o.market] =
                [size |-> @.size + o.size, cash |-> @.cash - o.size * o.price]]
          /\ last' = [last EXCEPT ![o.market] = t]
          /\ behind' = behind \cup {o.market}
    /\ step' = [step EXCEPT ![t] = "store"]
    /\ UNCHANGED <<gross, latest, order, held, raced, sent, mishaps>>

\* The row holds what the fill made of the position, not what it added.
RowOf_Delta(e, o) == [size |-> o.size, entry |-> IF e.size = 0 THEN o.price ELSE e.entry]
RowOf(e, o) == [size |-> e.size, entry |-> IF e.size = 0 THEN o.price ELSE e.entry]

\* A failing order row leaves the fill, the paper order and the position
\* unrecorded; a failing fill row leaves the rest.  "behind" goes
\* when the row stored is of the last fill of the market, and comes back when
\* the row of an earlier fill is stored after it.
StoreFill(t, ok) ==
    /\ step[t] = "store"
    /\ Mishap(ok)
    /\ LET m == order[t].market
       IN /\ latest' = IF ok THEN [latest EXCEPT ![m] = RowOf(held[t], order[t])] ELSE latest
          /\ behind' = IF ~ok THEN behind
                       ELSE IF last[m] = t THEN behind \ {m} ELSE behind \cup {m}
    /\ Finish(t)
    /\ UNCHANGED <<position, gross, traded, raced, last, sent>>

\* The ledger is not read back from the database: a new process starts flat.
RestartLedger ==
    /\ mishaps < MaxMishaps /\ mishaps' = mishaps + 1
    /\ position' = [m \in Market |-> Flat]
    /\ gross' = 0
    /\ step' = [t \in Trader |-> "idle"]
    /\ order' = [t \in Trader |-> Nothing]
    /\ held' = [t \in Trader |-> Flat]
    /\ traded' = [m \in Market |-> [size |-> 0, cash |-> 0]]
    /\ last' = [m \in Market |-> NoOrder]
    /\ raced' = {} /\ behind' = {m \in Market : latest[m].size # 0}
    /\ UNCHANGED <<latest, sent>>

LedgerNext ==
    \/ \E t \in Trader :
        \/ \E o \in Orders : MarkPosition(t, o)
        \/ RefuseOrder(t) \/ BookFill(t) \/ WritePosition(t)
        \/ \E ok \in BOOLEAN : StoreFill(t, ok)
    \/ RestartLedger

LedgerSpec == LedgerInit /\ [][LedgerNext]_ledgerVars

-----------------------------------------------------------------------------
Total(f) == MapThenSumSet(LAMBDA m : f[m], Market)

\* The books balance while no two fills of a market have overlapped: the
\* sizes are the sums of the fills, and realised plus unrealised profit is
\* the cash received plus the positions at their marks -- also for fills
\* that flip a position, and whatever other markets and marks do meanwhile.
BooksBalance ==
    raced = {} /\ (\A m \in Market : Filling(m) = {}) =>
        /\ \A m \in Market : position[m].size = traded[m].size
        /\ gross + Total([m \in Market |-> Unrealized(position[m])])
             = Total([m \in Market |-> traded[m].cash + position[m].size * position[m].mark])

\* The newest position row is the ledger's position once the last fill of the
\* market has stored one and no earlier fill stores its own afterwards: the
\* rows are absolute, so that a missing row is made good by the next, and a
\* fill lost in a race is lost in both.
DurablePositionCatchesUp ==
    \A m \in Market :
        m \notin behind => latest[m].size = position[m].size
=============================================================================
