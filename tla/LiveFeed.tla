------------------------------ MODULE LiveFeed ------------------------------
(***************************************************************************)
(* The live feed of the socket server (src/scripts/socket-server.ts):      *)
(* archive events are recorded in Postgres and published on a channel, the *)
(* server listens, and on every event, on every new connection and at      *)
(* every heartbeat it sends a snapshot to the browsers.  Snapshots come    *)
(* from the process's cache (TtlSwrCache), whose callers are here the      *)
(* broadcasts under way.                                                   *)
(*                                                                         *)
(* A snapshot is the version of the database it shows, which is the number *)
(* of events recorded.                                                     *)
(***************************************************************************)
EXTENDS TtlSwrCache

CONSTANTS
    Clients,            \* browsers on the live pages
    MaxLosses,          \* bound: lost LISTEN connections
    MaxStartFailures,   \* bound: attempts to LISTEN that fail
    MaxDisconnects,     \* bound: socket connections that end
    MaxRestarts         \* bound: restarts of the socket server

ASSUME FeedAssumption ==
    /\ MaxLosses \in Nat /\ MaxStartFailures \in Nat
    /\ MaxDisconnects \in Nat /\ MaxRestarts \in Nat

VARIABLES
    unpublished,    \* events recorded whose pg_notify has not happened
    listener,       \* the locals of startArchiveEventListener
    target,         \* whom each broadcast under way is for
    connected,      \* the browsers with an open socket
    shown,          \* the snapshot each browser got last
    count           \* events counted against the bounds

feedVars == <<cacheVars, unpublished, listener, target, connected, shown, count>>

-----------------------------------------------------------------------------
\* stopListening is set, connect is running, or reconnectTimer is.
Listener == [listening : BOOLEAN, connecting : BOOLEAN, timer : BOOLEAN]
Started == [listening |-> FALSE, connecting |-> TRUE, timer |-> FALSE]

\* A process listens on one connection at most, and neither connects nor
\* waits to connect beside it: events are not broadcast twice.
OneListener ==
    LET on(b) == IF b THEN 1 ELSE 0
    IN  on(listener.listening) + on(listener.connecting) + on(listener.timer) <= 1

FeedTypeOK ==
    /\ CacheTypeOK
    /\ unpublished \subseteq 1..source
    /\ listener \in Listener /\ OneListener
    /\ target \in [Callers -> {"nobody", "everyone"} \cup Clients]
    /\ connected \subseteq Clients
    /\ shown \in [Clients -> 0..source]
    /\ count \in [losses : 0..MaxLosses, failures : 0..MaxStartFailures,
                  disconnects : 0..MaxDisconnects, restarts : 0..MaxRestarts]

\* Nothing is recorded, and no browser is there.
NobodyThere ==
    /\ unpublished = {}
    /\ target = [k \in Callers |-> "nobody"]
    /\ connected = {}
    /\ shown = [c \in Clients |-> 0]
    /\ count = [losses |-> 0, failures |-> 0, disconnects |-> 0, restarts |-> 0]

FeedInit ==
    /\ CacheInit
    /\ listener = Started /\ NobodyThere

-----------------------------------------------------------------------------
(* Broadcasts.                                                             *)

\* Whoever this step of the cache answers sends its snapshot off at once.
Emit(aim) ==
    /\ shown' = [c \in Clients |->
          IF c \in connected' /\ \E k \in answer'.to : aim[k] \in {"everyone", c}
          THEN answer'.data ELSE shown[c]]
    /\ target' = [k \in Callers |-> IF k \in Waiting' THEN aim[k] ELSE "nobody"]

\* getArchiveLiveSnapshot, then emit: Callers bounds how many may wait.
Broadcast(to) ==
    \E k \in Callers : Get(k) /\ Emit([target EXCEPT ![k] = to])

\* The fetches of the cache and its clock.
CacheStep ==
    /\ Age \/ \E f \in Fetches : FetchStep(f) \/ Reject(f)
    /\ UNCHANGED connected /\ Emit(target)
    /\ UNCHANGED <<unpublished, listener, count>>

\* createArchiveEvent, in any process.
RecordEvent ==
    /\ Change
    /\ unpublished' = unpublished \cup {source'}
    /\ UNCHANGED <<listener, target, connected, shown, count>>

\* pg_notify reaches the listener, if there is one: broadcastArchiveUpdate.
PublishEvent(e) ==
    /\ e \in unpublished
    /\ unpublished' = unpublished \ {e}
    /\ UNCHANGED <<listener, connected, count>>
    /\ IF listener.listening THEN Broadcast("everyone")
       ELSE UNCHANGED <<cacheVars, target, shown>>

\* The process dies, or its query fails, between the two.
LoseEvent(e) ==
    /\ e \in unpublished
    /\ unpublished' = unpublished \ {e}
    /\ UNCHANGED <<cacheVars, listener, target, connected, shown, count>>

\* Mutant: heartbeats rest while the listener is down.
HeartbeatWhileListening ==
    /\ connected # {}
    /\ UNCHANGED <<unpublished, listener, connected, count>>
    /\ IF listener.listening THEN Broadcast("everyone")
                             ELSE UNCHANGED <<cacheVars, target, shown>>

\* broadcastSnapshotHeartbeat.
Heartbeat ==
    /\ connected # {}
    /\ UNCHANGED <<unpublished, listener, connected, count>>
    /\ Broadcast("everyone")

\* io.on("connection"): emitSnapshotToClient.
Connect(c) ==
    /\ c \notin connected
    /\ connected' = connected \cup {c}
    /\ UNCHANGED <<unpublished, listener, count>>
    /\ Broadcast(c)

\* A hidden tab, a rate limit, the network; the socket of c is gone, and with
\* it the snapshot that was on its way to it.
Disconnect(c) ==
    /\ c \in connected /\ count.disconnects < MaxDisconnects
    /\ count' = [count EXCEPT !.disconnects = @ + 1]
    /\ connected' = connected \ {c}
    /\ target' = [k \in Callers |-> IF target[k] = c THEN "nobody" ELSE target[k]]
    /\ UNCHANGED <<cacheVars, unpublished, listener, shown>>

-----------------------------------------------------------------------------
(* startArchiveEventListener.                                              *)

scheduleReconnect(l) ==
    IF l.timer \/ l.connecting THEN l ELSE [l EXCEPT !.timer = TRUE]

ListenerStep(l) ==
    /\ listener' = l
    /\ UNCHANGED <<cacheVars, unpublished, target, connected, shown>>

StartListening ==
    /\ listener.connecting
    /\ ListenerStep([listener EXCEPT !.listening = TRUE, !.connecting = FALSE])
    /\ UNCHANGED count

\* The catch block runs before the finally block resets connecting.
FailToStart ==
    /\ listener.connecting /\ count.failures < MaxStartFailures
    /\ ListenerStep([scheduleReconnect(listener) EXCEPT !.connecting = FALSE])
    /\ count' = [count EXCEPT !.failures = @ + 1]

\* onDisconnect.
LoseConnection ==
    /\ listener.listening /\ count.losses < MaxLosses
    /\ ListenerStep(scheduleReconnect([listener EXCEPT !.listening = FALSE]))
    /\ count' = [count EXCEPT !.losses = @ + 1]

Retry ==
    /\ listener.timer
    /\ ListenerStep([listener EXCEPT !.timer = FALSE, !.connecting = TRUE])
    /\ UNCHANGED count

\* The socket server is stopped and started: its cache is cold again.
RestartServer ==
    /\ count.restarts < MaxRestarts
    /\ count' = [count EXCEPT !.restarts = @ + 1]
    /\ entry' = [age |-> "absent", data |-> 0, refreshing |-> FALSE]
    /\ fetch' = [f \in Fetches |-> IdleFetch]
    /\ inflight' = {}
    /\ Silent
    /\ listener' = Started
    /\ target' = [k \in Callers |-> "nobody"]
    /\ connected' = {}
    /\ UNCHANGED <<source, rejections, unpublished, shown>>

-----------------------------------------------------------------------------
FeedNext ==
    \/ CacheStep \/ RecordEvent \/ Heartbeat \/ RestartServer
    \/ \E e \in unpublished : PublishEvent(e) \/ LoseEvent(e)
    \/ \E c \in Clients : Connect(c) \/ Disconnect(c)
    \/ StartListening \/ FailToStart \/ LoseConnection \/ Retry

FeedSpec == FeedInit /\ [][FeedNext]_feedVars

\* Timers fire, fetches and connection attempts end.
FeedFairness ==
    /\ WF_feedVars(CacheStep /\ Age)
    /\ WF_feedVars(CacheStep /\ \E f \in Fetches : FetchStep(f))
    /\ WF_feedVars(Heartbeat) /\ WF_feedVars(Retry)
    /\ WF_feedVars(StartListening \/ FailToStart)

FeedFairSpec == FeedSpec /\ FeedFairness

-----------------------------------------------------------------------------
\* A browser never goes back to an older snapshot: broadcasts overtake one
\* another, connections break and the server restarts, but snapshots reach
\* it in the order of the database.
SnapshotsNeverGoBack == [][\A c \in Clients : shown'[c] >= shown[c]]_feedVars

\* Every browser that stays connected ends up with the last version, even if
\* its events were lost or nobody listens to them any more.
BrowsersCatchUp == <>[](\A c \in connected : shown[c] = source)

\* What the server logs of a failed attempt, "Archive event listener failed
\* to start; retrying.": the listener never gives up.
FailedStartIsRetried == []<>(listener.listening \/ listener.connecting)
=============================================================================
