------------------------ MODULE MCConditionalBooks ------------------------
(* Two books in one run: a bracket, or a trailing stop.  The book is chosen *)
(* at the start.                                                            *)
EXTENDS MCConditionalOrders

VARIABLE book

bookVars == <<vars, book>>

BookInit == Init /\ book \in {"bracket", "trailing"}

BookNext ==
    /\ Next
    /\ IF book = "bracket" THEN \A s \in Single : status'[s] = "absent"
                           ELSE UNCHANGED creating
    /\ UNCHANGED book

BookSpec ==
    /\ BookInit /\ [][BookNext]_bookVars
    /\ \A w \in Worker : WF_bookVars(Busy(w) /\ UNCHANGED book)
===========================================================================
