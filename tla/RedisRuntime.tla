---------------------------- MODULE RedisRuntime ----------------------------
(***************************************************************************)
(* A process's connection to Redis as the other components meet it: a link *)
(* record, and the calls as operators from a link and the truth about      *)
(* Redis ("up") to a new link.  The runtime pings at most once in its      *)
(* health check interval: between pings a client is handed out unchecked,  *)
(* and only a failure found with reset makes the next caller ping again.   *)
(* Time is abstract: "fresh" says that the last ping was within the        *)
(* interval, and Lapsed makes it old.                                      *)
(***************************************************************************)
EXTENDS Naturals

NewLink == [fresh |-> FALSE, degraded |-> FALSE, everOk |-> FALSE]

LinkType == [fresh : BOOLEAN, degraded : BOOLEAN, everOk : BOOLEAN]

\* _record_success
Succeeded(l) == [fresh |-> TRUE, degraded |-> FALSE, everOk |-> TRUE]

\* reset_sync: the pool is dropped, the next caller must ping.
ResetLink(l) == [l EXCEPT !.fresh = FALSE]

\* mark_failure, without and with reset
Noted(l) == [l EXCEPT !.degraded = TRUE]
Failed(l) == ResetLink(Noted(l))

Lapsed(l) == [l EXCEPT !.fresh = FALSE]

\* ping()
Pinged(l, up) == IF up THEN Succeeded(l) ELSE Failed(l)

\* get_client(): whether there is a client, and the link after it.
GetsClient(l, up) == l.fresh \/ up
AfterGetClient(l, up) == IF l.fresh THEN l ELSE Pinged(l, up)

\* StateStore.get_snapshot and set_snapshot: whether they reach Redis.
Reaches(l, up) == GetsClient(l, up) /\ up
AfterCall(l, up) ==
    IF GetsClient(l, up) /\ ~up THEN Noted(l) ELSE AfterGetClient(l, up)

\* publish()
AfterPublish(l, up) ==
    IF GetsClient(l, up) /\ ~up THEN Failed(l) ELSE AfterGetClient(l, up)

\* health_snapshot()
LooksConnected(l) == ~l.degraded /\ l.everOk
=============================================================================
