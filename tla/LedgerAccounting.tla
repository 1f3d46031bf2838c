-------------------------- MODULE LedgerAccounting --------------------------
(***************************************************************************)
(* apply_fill, mark_to_market and apply_funding of PositionLedger: what a  *)
(* signed fill s at price p, or a mark, makes of the ledger's entry e of a *)
(* market.  The paper executor and the backtester share them.              *)
(*                                                                         *)
(* Money is in integers: an instance chooses prices for which the average  *)
(* entries are exact.                                                      *)
(***************************************************************************)
EXTENDS Integers

Magnitude(n) == IF n < 0 THEN -n ELSE n
Smaller(a, b) == IF a < b THEN a ELSE b
SameSign(a, b) == (a > 0) = (b > 0)        \* of numbers other than zero

Flat == [size |-> 0, entry |-> 0, mark |-> 0]

ClosingQuantity(e, s) ==
    IF e.size = 0 \/ SameSign(e.size, s) THEN 0
                                         ELSE Smaller(Magnitude(e.size), Magnitude(s))

GrossRealized(e, s, p) ==
    IF e.size > 0 THEN ClosingQuantity(e, s) * (p - e.entry)
                  ELSE ClosingQuantity(e, s) * (e.entry - p)

NetRealized(e, s, p, fee, slippage, funding) ==
    GrossRealized(e, s, p) - fee - slippage + funding

\* A flip keeps the old entry price.
NewEntry_KeepOnFlip(e, s, p) ==
    IF e.size = 0 THEN p
    ELSE IF SameSign(e.size, s)
      THEN (Magnitude(e.size) * e.entry + Magnitude(s) * p) \div Magnitude(e.size + s)
      ELSE e.entry

NewEntry(e, s, p) ==
    IF e.size = 0 THEN p
    ELSE IF SameSign(e.size, s)
      THEN (Magnitude(e.size) * e.entry + Magnitude(s) * p) \div Magnitude(e.size + s)
      ELSE IF Magnitude(s) > Magnitude(e.size) THEN p ELSE e.entry

Filled(e, s, p) ==
    IF e.size + s = 0 THEN Flat
    ELSE [size |-> e.size + s, entry |-> NewEntry(e, s, p), mark |-> p]

Marked(e, p) == IF e.size = 0 THEN e ELSE [e EXCEPT !.mark = p]

Unrealized(e) == e.size * (e.mark - e.entry)

\* The average entry of a fill is exact, as it is in the code's arithmetic.
ExactAverage(e, s, p) ==
    e.size # 0 /\ SameSign(e.size, s) =>
        Magnitude(e.size + s) * NewEntry(e, s, p) = Magnitude(e.size) * e.entry + Magnitude(s) * p
=============================================================================
