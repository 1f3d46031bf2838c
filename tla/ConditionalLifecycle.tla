------------------------ MODULE ConditionalLifecycle ------------------------
(***************************************************************************)
(* What the conditional-order table promises, without workers, stores or   *)
(* requests: an order is offered, somebody takes hold of it, at most one   *)
(* placement follows, and nothing is placed for an order nobody holds.     *)
(*                                                                         *)
(*     none -> open -> held -> done          (placed, settled)             *)
(*               |  <-  |                    (given back, not placed)      *)
(*               |      +--> dying -> dead   (cancelled under the holder)  *)
(*               +---------> dead            (cancelled, never held)       *)
(***************************************************************************)
CONSTANT Order

VARIABLES phase,    \* phase[o]: where order o is in the picture above
          executed  \* executed[o]: a placement was made for o

absVars == <<phase, executed>>

Phase == {"none", "open", "held", "dying", "done", "dead"}

AbsTypeOK ==
    /\ phase \in [Order -> Phase]
    /\ executed \in [Order -> BOOLEAN]

AbsInit ==
    /\ phase = [o \in Order |-> "none"]
    /\ executed = [o \in Order |-> FALSE]

Move(o, from, to) ==
    /\ phase[o] = from
    /\ phase' = [phase EXCEPT ![o] = to]
    /\ UNCHANGED executed

Offer(o)  == Move(o, "none", "open")
Take(o)   == ~executed[o] /\ Move(o, "open", "held")
Return(o) == ~executed[o] /\ Move(o, "held", "open")
Settle(o) == executed[o] /\ Move(o, "held", "done")

\* Withdrawn while open, or while held: by then the holder may be at work
\* ("dying") or may have stopped for good ("dead").
Withdraw(o) ==
    \/ Move(o, "open", "dead")
    \/ Move(o, "held", "dying")
    \/ Move(o, "held", "dead")

\* The holder of a withdrawn order stops.
Abandon(o) == Move(o, "dying", "dead")

Place(o) ==
    /\ phase[o] \in {"held", "dying"}
    /\ ~executed[o]
    /\ executed' = [executed EXCEPT ![o] = TRUE]
    /\ UNCHANGED phase

AbsNext ==
    /\ absVars # absVars'
    /\ \E o \in Order :
        \/ Offer(o) \/ Take(o) \/ Return(o) \/ Settle(o)
        \/ Withdraw(o) \/ Abandon(o) \/ Place(o)

AbsSpec == AbsInit /\ [][AbsNext]_absVars
=============================================================================
