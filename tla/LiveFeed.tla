------------------------------ MODULE LiveFeed ------------------------------
(***************************************************************************)
(* From an event to the timeline of one browser tab.  emit publishes the   *)
(* event through Redis and then inserts it into the events table, each     *)
(* failing quietly.  The server answers a tab's socket with a snapshot,    *)
(* then a listener task subscribes and forwards what is published; the tab *)
(* buffers messages and flushes them to its timeline.  Every few seconds   *)
(* and when it becomes visible the tab also fetches the stored events and  *)
(* redraws the timeline from them.  Redis, the socket and the server fail  *)
(* at any moment, and the tab is hidden and shown.                         *)
(*                                                                         *)
(* An event is its number, in the order of its timestamp.                  *)
(***************************************************************************)
EXTENDS RedisRuntime, Sequences, FiniteSets, SequencesExt, FiniteSetsExt

CONSTANTS Emitter,        \* threads that emit events
          MaxEvents,      \* bound
          MaxTroubles,    \* bound on failures and on hiding the tab
          MaxReconnect,   \* maxReconnect of ws.js, 10 in the code
          TimelineCap     \* 50 in the code

VARIABLES
    feedRedis,  \* whether Redis is up
    feedLink,   \* the server's Redis runtime
    emitting,   \* emitting[e]: the event a thread is emitting, and its next step
    emitted,    \* how many events there are
    eventRows,  \* the events table
    conn,       \* the server's side of the tab's socket
    tab,        \* the tab
    poll,       \* the stored events on their way to the tab
    troubles,
    \* history
    owed,       \* published since the listener subscribed
    live        \* added live to the timeline

liveFeedVars == <<feedRedis, feedLink, emitting, emitted, eventRows, conn, tab, poll,
               troubles, owed, live>>
serverVars == <<feedRedis, feedLink, emitting, emitted, eventRows>>

ASSUME FeedAssumption == MaxEvents \in Nat

Event == 1..MaxEvents
Connected == 0               \* the timeline's entry for the snapshot
Heartbeat == MaxEvents + 1

\* The events among messages.
EventsOf(messages) ==
    LET kept[i \in 0..Len(messages)] ==
            IF i = 0 THEN <<>>
            ELSE IF messages[i] \in Event THEN Append(kept[i-1], messages[i]) ELSE kept[i-1]
    IN kept[Len(messages)]

NoConn == [open |-> FALSE, greeted |-> FALSE, listener |-> "none",
           inbox |-> <<>>, wire |-> <<>>]
NoPoll == [at |-> "none", events |-> <<>>]

LiveFeedInit ==
    /\ feedRedis \in BOOLEAN /\ feedLink = NewLink
    /\ emitting = [e \in Emitter |-> [event |-> 0, next |-> "none"]]
    /\ emitted = 0 /\ eventRows = {}
    /\ conn = NoConn
    /\ tab = [hidden |-> FALSE, socket |-> "none", timer |-> FALSE, attempts |-> 0,
              buffer |-> <<>>, timeline |-> <<>>]
    /\ poll = NoPoll /\ troubles = 0 /\ owed = <<>> /\ live = <<>>

-----------------------------------------------------------------------------
(* Emitting.                                                               *)

StartEmit(e) ==
    /\ emitting[e].next = "none" /\ emitted < MaxEvents
    /\ emitted' = emitted + 1
    /\ emitting' = [emitting EXCEPT ![e] = [event |-> emitted + 1, next |-> "publish"]]
    /\ UNCHANGED <<feedRedis, feedLink, eventRows, conn, tab, poll, troubles, owed, live>>

Hears == conn.open /\ conn.listener = "subscribed"

Publishes_WhenHealthy(l, up) == Reaches(l, up) /\ ~l.degraded
Publishes(l, up) == Reaches(l, up)

Publish(e) ==
    /\ emitting[e].next = "publish"
    /\ emitting' = [emitting EXCEPT ![e].next = "insert"]
    /\ feedLink' = AfterPublish(feedLink, feedRedis)
    /\ conn' = IF Publishes(feedLink, feedRedis) /\ Hears
               THEN [conn EXCEPT !.inbox = Append(@, emitting[e].event)] ELSE conn
    /\ owed' = IF feedRedis /\ Hears THEN Append(owed, emitting[e].event) ELSE owed
    /\ UNCHANGED <<feedRedis, emitted, eventRows, tab, poll, troubles, live>>

\* The insert that closes an emit; a failure is logged.
Insert(e, ok) ==
    /\ emitting[e].next = "insert" /\ (~ok => troubles < MaxTroubles)
    /\ eventRows' = IF ok THEN eventRows \cup {emitting[e].event} ELSE eventRows
    /\ emitting' = [emitting EXCEPT ![e] = [event |-> 0, next |-> "none"]]
    /\ troubles' = IF ok THEN troubles ELSE troubles + 1
    /\ UNCHANGED <<feedRedis, feedLink, emitted, conn, tab, poll, owed, live>>

-----------------------------------------------------------------------------
(* The server's side of the socket.                                        *)

\* websocket_live: the snapshot reads the state store, then the tasks start.
Greet ==
    /\ conn.open /\ ~conn.greeted
    /\ conn' = [conn EXCEPT !.greeted = TRUE, !.listener = "starting",
                            !.wire = Append(@, Connected)]
    /\ feedLink' = AfterCall(feedLink, feedRedis)
    /\ UNCHANGED <<feedRedis, emitting, emitted, eventRows, tab, poll, troubles, owed, live>>

\* _redis_listener
Subscribe ==
    /\ conn.listener = "starting"
    /\ conn' = [conn EXCEPT !.listener = IF feedRedis THEN "subscribed" ELSE "sleeping"]
    /\ feedLink' = IF feedRedis THEN feedLink ELSE Noted(feedLink)
    /\ owed' = <<>>
    /\ UNCHANGED <<feedRedis, emitting, emitted, eventRows, tab, poll, troubles, live>>

Forward ==
    /\ conn.listener \in {"subscribed", "broken"} /\ conn.inbox # <<>>
    /\ conn' = [conn EXCEPT !.inbox = Tail(@), !.wire = Append(@, Head(conn.inbox))]
    /\ UNCHANGED <<serverVars, tab, poll, troubles, owed, live>>

\* The subscription's connection is gone: close it, sleep, and begin anew.
ListenerFails ==
    /\ conn.listener = "broken"
    /\ conn' = [conn EXCEPT !.listener = "sleeping", !.inbox = <<>>]
    /\ feedLink' = Noted(feedLink)
    /\ UNCHANGED <<feedRedis, emitting, emitted, eventRows, tab, poll, troubles, owed, live>>

ListenerWakes ==
    /\ conn.listener = "sleeping"
    /\ conn' = [conn EXCEPT !.listener = "starting"]
    /\ UNCHANGED <<serverVars, tab, poll, troubles, owed, live>>

Beat ==
    /\ conn.greeted /\ troubles < MaxTroubles
    /\ conn' = [conn EXCEPT !.wire = Append(@, Heartbeat)]
    /\ troubles' = troubles + 1
    /\ UNCHANGED <<serverVars, tab, poll, owed, live>>

-----------------------------------------------------------------------------
(* The tab.                                                                *)

Capped(s) == IF Len(s) > TimelineCap THEN SubSeq(s, 1, TimelineCap) ELSE s

\* addEventToTimeline puts an entry on top.
OnTop(timeline, m) == Capped(<<m>> \o timeline)

\* renderTimeline: the stored events, newest first, each put on top.
Rendered(events) == FoldLeft(OnTop, <<>>, events)

\* scheduleReconnect, which the tab calls when its socket closes.
Closed(t) ==
    IF t.attempts >= MaxReconnect \/ t.hidden THEN [t EXCEPT !.socket = "closed"]
    ELSE [t EXCEPT !.socket = "closed", !.timer = TRUE, !.attempts = @ + 1]

\* connect, at start-up and when the timer fires.
Connect ==
    /\ tab.socket = "none" \/ tab.timer
    /\ tab' = [tab EXCEPT !.timer = FALSE,
                          !.socket = IF @ \in {"connecting", "open"} THEN @ ELSE "connecting"]
    /\ UNCHANGED <<serverVars, conn, poll, troubles, owed, live>>

OnOpen ==
    /\ tab.socket = "connecting"
    /\ tab' = [tab EXCEPT !.socket = "open", !.attempts = 0]
    /\ conn' = [NoConn EXCEPT !.open = TRUE]
    /\ UNCHANGED <<serverVars, poll, troubles, owed, live>>

\* The socket closes: the server restarts, or the network fails.  The server
\* cancels the connection's tasks.
OnClose ==
    /\ tab.socket \in {"connecting", "open"} /\ troubles < MaxTroubles
    /\ tab' = Closed(tab) /\ conn' = NoConn
    /\ troubles' = troubles + 1
    /\ UNCHANGED <<serverVars, poll, owed, live>>

OnMessage ==
    /\ tab.socket = "open" /\ conn.wire # <<>>
    /\ LET m == Head(conn.wire)
       IN tab' = IF m = Connected THEN [tab EXCEPT !.timeline = OnTop(@, m)]
                 ELSE [tab EXCEPT !.buffer = Append(@, m)]
    /\ conn' = [conn EXCEPT !.wire = Tail(@)]
    /\ UNCHANGED <<serverVars, poll, troubles, owed, live>>

FlushWsMessages ==
    /\ tab.buffer # <<>>
    /\ tab' = [tab EXCEPT !.timeline = FoldLeft(OnTop, @, tab.buffer), !.buffer = <<>>]
    /\ live' = live \o EventsOf(tab.buffer)
    /\ UNCHANGED <<serverVars, conn, poll, troubles, owed>>

Hide ==
    /\ ~tab.hidden /\ troubles < MaxTroubles
    /\ tab' = [tab EXCEPT !.hidden = TRUE]
    /\ troubles' = troubles + 1
    /\ UNCHANGED <<serverVars, conn, poll, owed, live>>

\* initVisibilityListener: coming into view refreshes, and nothing else.
Show ==
    /\ tab.hidden
    /\ tab' = [tab EXCEPT !.hidden = FALSE]
    /\ poll' = IF poll.at = "none" THEN [NoPoll EXCEPT !.at = "asked"] ELSE poll
    /\ UNCHANGED <<serverVars, conn, troubles, owed, live>>

\* refresh: the request, its answer, the timeline drawn from it.  A failed
\* query is answered with no events.
Refresh ==
    /\ poll.at = "none" /\ ~tab.hidden
    /\ poll' = [NoPoll EXCEPT !.at = "asked"]
    /\ UNCHANGED <<serverVars, conn, tab, troubles, owed, live>>

Newest(rows) ==
    LET s == SetToSortSeq(rows, >) IN IF Len(s) > TimelineCap THEN SubSeq(s, 1, TimelineCap) ELSE s

GetRecent(ok) ==
    /\ poll.at = "asked" /\ (~ok => troubles < MaxTroubles)
    /\ poll' = [at |-> "answered", events |-> IF ok THEN Newest(eventRows) ELSE <<>>]
    /\ troubles' = IF ok THEN troubles ELSE troubles + 1
    /\ UNCHANGED <<serverVars, conn, tab, owed, live>>

RenderTimeline ==
    /\ poll.at = "answered"
    /\ tab' = [tab EXCEPT !.timeline = Rendered(poll.events)]
    /\ poll' = NoPoll
    /\ UNCHANGED <<serverVars, conn, troubles, owed, live>>

-----------------------------------------------------------------------------
(* Redis, and the other callers of the process's runtime.                  *)

RedisFalls ==
    /\ feedRedis /\ troubles < MaxTroubles
    /\ feedRedis' = FALSE /\ troubles' = troubles + 1
    /\ conn' = IF conn.listener = "subscribed" THEN [conn EXCEPT !.listener = "broken"]
               ELSE conn
    /\ UNCHANGED <<feedLink, emitting, emitted, eventRows, tab, poll, owed, live>>

RedisReturns ==
    /\ ~feedRedis /\ feedRedis' = TRUE
    /\ UNCHANGED <<feedLink, emitting, emitted, eventRows, conn, tab, poll, troubles, owed, live>>

\* A snapshot read or written elsewhere in the process.
OtherCall ==
    /\ feedLink' = AfterCall(feedLink, feedRedis) /\ feedLink' # feedLink
    /\ UNCHANGED <<feedRedis, emitting, emitted, eventRows, conn, tab, poll, troubles, owed, live>>

PingDue ==
    /\ feedLink.fresh /\ feedLink' = Lapsed(feedLink)
    /\ UNCHANGED <<feedRedis, emitting, emitted, eventRows, conn, tab, poll, troubles, owed, live>>

LiveFeedNext ==
    \/ \E e \in Emitter : StartEmit(e) \/ Publish(e)
    \/ \E e \in Emitter, ok \in BOOLEAN : Insert(e, ok)
    \/ Greet
    \/ Subscribe
    \/ Forward
    \/ ListenerFails
    \/ ListenerWakes
    \/ Beat
    \/ Connect
    \/ OnOpen
    \/ OnClose
    \/ OnMessage
    \/ FlushWsMessages
    \/ Hide
    \/ Show
    \/ Refresh
    \/ \E ok \in BOOLEAN : GetRecent(ok)
    \/ RenderTimeline
    \/ RedisFalls
    \/ RedisReturns
    \/ OtherCall
    \/ PingDue

-----------------------------------------------------------------------------
(* Properties.                                                             *)

Pending == EventsOf(tab.buffer \o conn.wire) \o conn.inbox

\* While the listener is subscribed, every event published meanwhile has been
\* shown or is on its way, once and in the order of publication, whatever the
\* runtime thought of its link to Redis when the event was emitted.
SubscribedTabMissesNothing ==
    Hears => IsSuffix(owed, live \o Pending) /\ IsInjective(live \o Pending)
=============================================================================
