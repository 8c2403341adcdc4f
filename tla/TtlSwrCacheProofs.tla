-------------------------- MODULE TtlSwrCacheProofs --------------------------
(***************************************************************************)
(* A single flight per key, refreshes that end, and answers in the order   *)
(* of the source, for any number of callers, fetches and failures; and the *)
(* snapshots that browsers get of them (LiveFeed), for any number of       *)
(* browsers, lost connections and restarts; and the refreshes of the page  *)
(* of an artist (LiveBoard), for any number of events.                     *)
(*                                                                         *)
(* The argument: with one fetch at a time, a fetch reads its source after  *)
(* the entry it will replace was read, so the entry, the value read and    *)
(* the source are always in this order, and answers come from the entry.   *)
(* A restarted server has no entry, but its first fetch begins after all   *)
(* that was ever shown.  A refresh of a page likewise reads after the      *)
(* page that it will replace, so what it read is no older.                 *)
(***************************************************************************)
EXTENDS LiveFeed, LiveBoard, TLAPS

\* entry <= value read <= source.
Ordered ==
    /\ entry.data <= source
    /\ \A f \in Fetches : fetch[f].step = "read" =>
          entry.data <= fetch[f].data /\ fetch[f].data <= source

CacheInv == CacheTypeOK /\ SingleFlight /\ RefreshPending /\ Ordered

\* Of a step: whom it answers gets the entry, which never gets older; what
\* is new comes from a value that was read, and that from the source.
Advances ==
    /\ entry.data <= entry'.data
    /\ \/ answer'.to = {} /\ answer'.data = answer.data
       \/ answer'.data = entry'.data /\ entry'.age # "absent"
    /\ entry'.age # "absent" =>
           \/ entry.age # "absent"
           \/ \E f \in Fetches : fetch[f].step = "read" /\ entry'.data = fetch[f].data
    /\ source <= source'
    /\ \A f \in Fetches : fetch'[f].step = "read" =>
           \/ fetch'[f].data = source
           \/ fetch[f].step = "read" /\ fetch'[f].data = fetch[f].data

-----------------------------------------------------------------------------
LEMMA InitHolds == CacheInit => CacheInv
BY DEF CacheInit, CacheInv, CacheTypeOK, SingleFlight, RefreshPending, Ordered,
       Entry, Fetch, IdleFetch, Running

\* Joining or starting a fetch keeps everything but the entry's mark.
LEMMA DoFetchKeeps ==
    ASSUME CacheTypeOK, SingleFlight, Ordered,
           NEW waiters \in SUBSET Callers, NEW background \in BOOLEAN,
           doFetch(waiters, background), UNCHANGED source,
           entry'.data = entry.data
    PROVE  /\ fetch' \in [Fetches -> Fetch] /\ inflight' \subseteq Fetches
           /\ SingleFlight'
           /\ \A f \in Fetches : fetch'[f].step = "read" =>
                 entry'.data <= fetch'[f].data /\ fetch'[f].data <= source'
           /\ background => \E f \in inflight' : fetch'[f].background
           /\ \A f \in inflight : f \in inflight' /\
                 (fetch[f].background => fetch'[f].background)
           /\ \A f \in Fetches : fetch'[f].step = "read" =>
                 fetch[f].step = "read" /\ fetch'[f].data = fetch[f].data
<1>1. CASE inflight = {}
  <2>1. PICK f \in Fetches \ Running :
          /\ fetch' = [fetch EXCEPT ![f] = [step |-> "reading", data |-> 0,
                          waiters |-> waiters, background |-> background]]
          /\ inflight' = {f}
    BY <1>1 DEF doFetch
  <2>2. \A g \in Fetches : fetch[g].step = "idle"
    BY <1>1 DEF SingleFlight, Running
  <2>3. fetch' \in [Fetches -> Fetch]
    BY <2>1 DEF CacheTypeOK, Fetch
  <2>4. \A g \in Fetches : fetch'[g] = IF g = f
          THEN [step |-> "reading", data |-> 0, waiters |-> waiters,
                background |-> background]
          ELSE fetch[g]
    BY <2>1 DEF CacheTypeOK
  <2>5. SingleFlight'
    BY <2>1, <2>2, <2>4 DEF SingleFlight, Running
  <2> QED BY <1>1, <2>1, <2>2, <2>3, <2>4, <2>5
<1>2. CASE inflight # {}
  <2>1. /\ inflight' = inflight
        /\ fetch' = [f \in Fetches |->
              IF f \in inflight
              THEN [fetch[f] EXCEPT !.waiters = @ \cup waiters,
                                    !.background = @ \/ background]
              ELSE fetch[f]]
    BY <1>2 DEF doFetch
  <2>2. ASSUME NEW f \in Fetches
        PROVE  /\ fetch'[f] \in Fetch
               /\ fetch'[f].step = fetch[f].step
               /\ fetch'[f].data = fetch[f].data
               /\ f \in inflight =>
                     fetch'[f].background = (fetch[f].background \/ background)
    <3>1. fetch[f] \in Fetch
      BY DEF CacheTypeOK
    <3>2. CASE f \in inflight
      <4> DEFINE w == fetch[f].waiters \cup waiters
      <4>1. PICK b \in BOOLEAN : b = (fetch[f].background \/ background)
        BY Zenon
      <4>2. fetch'[f] = [fetch[f] EXCEPT
                !.waiters = w, !.background = b]
        BY <2>1, <3>2, <4>1, Zenon
      <4>3. w \in SUBSET Callers
        BY <3>1 DEF Fetch, w
      <4> HIDE DEF w
      <4>4. /\ fetch'[f] \in Fetch /\ fetch'[f].background = b
            /\ fetch'[f].step = fetch[f].step /\ fetch'[f].data = fetch[f].data
        BY <3>1, <4>2, <4>3 DEF Fetch
      <4> QED BY <4>1, <4>4, Zenon
    <3>3. CASE f \notin inflight
      BY <2>1, <3>1, <3>3
    <3> QED BY <3>2, <3>3
  <2>3. \A f \in inflight :
           /\ fetch[f].background => fetch'[f].background
           /\ background => fetch'[f].background
    BY <2>2, Zenon DEF CacheTypeOK
  <2>4. SingleFlight'
    BY <2>1, <2>2 DEF SingleFlight, Running
  <2>5. fetch' \in [Fetches -> Fetch]
    BY <2>1, <2>2
  <2>6. background => \E f \in inflight' : fetch'[f].background
    BY <1>2, <2>1, <2>3, Zenon
  <2>7. \A f \in Fetches : fetch'[f].step = "read" =>
           entry'.data <= fetch'[f].data /\ fetch'[f].data <= source'
    BY <2>2 DEF Ordered
  <2>8. \A f \in Fetches : fetch'[f].step = "read" =>
           fetch[f].step = "read" /\ fetch'[f].data = fetch[f].data
    BY <2>2
  <2> QED BY <2>1, <2>3, <2>4, <2>5, <2>6, <2>7, <2>8, Zenon DEF CacheTypeOK
<1> QED BY <1>1, <1>2

LEMMA GetStep ==
    ASSUME CacheInv, NEW c \in Callers, Get(c)
    PROVE  CacheInv' /\ Advances
<1> USE DEF CacheInv
<1>1. UNCHANGED <<source, rejections>>
  BY DEF Get
<1>2. CASE Hit(c)
  <2>1. UNCHANGED <<entry, fetch, inflight>> /\ answer' = [to |-> {c}, data |-> entry.data]
    BY <1>2 DEF Hit, Answered
  <2>2. entry.age # "absent" /\ entry.data \in Nat
    BY <1>2 DEF Hit, CacheTypeOK, Entry
  <2> QED BY <1>1, <2>1, <2>2 DEF CacheTypeOK, SingleFlight, RefreshPending, Ordered,
                                  Running, Entry, Advances
<1>3. CASE StaleHit(c)
  <2>1. /\ answer' = [to |-> {c}, data |-> entry.data]
        /\ entry' = [entry EXCEPT !.refreshing = TRUE]
        /\ doFetch({}, TRUE)
    BY <1>3 DEF StaleHit, Answered
  <2>2. entry' \in Entry /\ entry'.data = entry.data /\ entry.data \in Nat
        /\ entry'.age = entry.age /\ entry.age # "absent"
    BY <1>3, <2>1 DEF CacheTypeOK, Entry, StaleHit
  <2>3. /\ fetch' \in [Fetches -> Fetch] /\ inflight' \subseteq Fetches
        /\ SingleFlight'
        /\ \A f \in Fetches : fetch'[f].step = "read" =>
              entry'.data <= fetch'[f].data /\ fetch'[f].data <= source'
        /\ \E f \in inflight' : fetch'[f].background
        /\ \A f \in Fetches : fetch'[f].step = "read" =>
              fetch[f].step = "read" /\ fetch'[f].data = fetch[f].data
    BY <1>1, <2>1, <2>2, DoFetchKeeps
  <2> QED BY <1>1, <2>1, <2>2, <2>3 DEF CacheTypeOK, RefreshPending, Ordered, Advances
<1>4. CASE Miss(c)
  <2>1. answer' = [answer EXCEPT !.to = {}] /\ entry' = entry /\ doFetch({c}, FALSE)
    BY <1>4 DEF Miss, Silent
  <2>2. /\ fetch' \in [Fetches -> Fetch] /\ inflight' \subseteq Fetches
        /\ SingleFlight'
        /\ \A f \in Fetches : fetch'[f].step = "read" =>
              entry'.data <= fetch'[f].data /\ fetch'[f].data <= source'
        /\ \A f \in inflight : f \in inflight' /\
              (fetch[f].background => fetch'[f].background)
        /\ \A f \in Fetches : fetch'[f].step = "read" =>
              fetch[f].step = "read" /\ fetch'[f].data = fetch[f].data
    BY <1>1, <2>1, DoFetchKeeps
  <2>3. entry.data \in Nat
    BY DEF CacheTypeOK, Entry
  <2> QED BY <1>1, <2>1, <2>2, <2>3 DEF CacheTypeOK, RefreshPending, Ordered, Advances
<1> QED BY <1>2, <1>3, <1>4 DEF Get

LEMMA ReadSourceStep ==
    ASSUME CacheInv, NEW f \in Fetches, ReadSource(f)
    PROVE  CacheInv' /\ Advances
<1>1. /\ UNCHANGED <<source, entry, inflight, rejections>>
      /\ fetch[f].step = "reading"
      /\ fetch' = [fetch EXCEPT ![f].step = "read", ![f].data = source]
      /\ answer' = [answer EXCEPT !.to = {}]
  BY DEF ReadSource, Silent
<1>2. \A g \in Fetches :
         /\ fetch'[g] \in Fetch
         /\ fetch'[g].background = fetch[g].background
         /\ (fetch'[g].step = "idle") = (fetch[g].step = "idle")
         /\ fetch'[g].data = IF g = f THEN source ELSE fetch[g].data
         /\ g # f => fetch'[g].step = fetch[g].step
  BY <1>1 DEF CacheInv, CacheTypeOK, Fetch
<1>3. CacheTypeOK'
  BY <1>1, <1>2 DEF CacheInv, CacheTypeOK
<1>4. SingleFlight' /\ RefreshPending'
  BY <1>1, <1>2 DEF CacheInv, SingleFlight, RefreshPending, Running, CacheTypeOK
<1>5. Ordered' /\ Advances
  BY <1>1, <1>2 DEF CacheInv, Ordered, CacheTypeOK, Entry, Advances
<1> QED BY <1>3, <1>4, <1>5 DEF CacheInv

LEMMA EndStep ==
    ASSUME CacheInv, NEW f \in Fetches, Resolve(f) \/ Reject(f)
    PROVE  CacheInv' /\ Advances
<1>1. /\ fetch' = [fetch EXCEPT ![f] = IdleFetch] /\ inflight' = {}
      /\ UNCHANGED source /\ fetch[f].step # "idle"
  BY DEF Resolve, Reject
<1>2. f \in inflight /\ \A g \in inflight : g = f
  BY <1>1 DEF CacheInv, SingleFlight, Running
<1>3. \A g \in Fetches : fetch'[g].step = "idle"
  BY <1>1, <1>2 DEF CacheInv, CacheTypeOK, SingleFlight, Running, IdleFetch
<1>4. fetch' \in [Fetches -> Fetch] /\ SingleFlight'
  BY <1>1, <1>3 DEF CacheInv, CacheTypeOK, SingleFlight, Running, IdleFetch, Fetch
<1>5. CASE Resolve(f)
  <2>1. /\ entry' = [age |-> "fresh", data |-> fetch[f].data, refreshing |-> FALSE]
        /\ fetch[f].step = "read" /\ UNCHANGED rejections
        /\ \/ answer' = [answer EXCEPT !.to = {}]
           \/ answer' = [to |-> fetch[f].waiters, data |-> fetch[f].data]
    BY <1>5 DEF Resolve, Silent, Answered
  <2>2. /\ entry.data <= fetch[f].data /\ fetch[f].data <= source
        /\ entry.data \in Nat /\ fetch[f].data \in Nat /\ answer.data \in Nat
        /\ fetch[f].waiters \subseteq Callers
    BY <2>1 DEF CacheInv, Ordered, CacheTypeOK, Entry, Fetch
  <2>3. answer' \in [to : SUBSET Callers, data : Nat] /\ entry' \in Entry
        /\ \/ answer'.to = {} /\ answer'.data = answer.data
           \/ answer'.data = fetch[f].data
    BY <2>1, <2>2 DEF CacheInv, CacheTypeOK, Entry
  <2> QED BY <1>1, <1>3, <1>4, <2>1, <2>2, <2>3
          DEF CacheInv, CacheTypeOK, RefreshPending, Ordered, Advances
<1>6. CASE Reject(f)
  <2>1. /\ entry' = [entry EXCEPT !.refreshing = @ /\ ~fetch[f].background]
        /\ answer' = [answer EXCEPT !.to = {}] /\ rejections' = rejections + 1
    BY <1>6 DEF Reject, Silent
  <2>2. ~entry'.refreshing
    <3>1. entry.refreshing => fetch[f].background
      BY <1>2 DEF CacheInv, RefreshPending
    <3> QED BY <2>1, <3>1 DEF CacheInv, CacheTypeOK, Entry
  <2>3. entry'.data = entry.data /\ entry'.age = entry.age /\ entry' \in Entry
        /\ entry.data \in Nat
    BY <2>1, <2>2 DEF CacheInv, CacheTypeOK, Entry
  <2>4. answer'.data = answer.data /\ answer'.to = {}
        /\ answer' \in [to : SUBSET Callers, data : Nat]
    BY <2>1 DEF CacheInv, CacheTypeOK
  <2> QED BY <1>1, <1>3, <1>4, <2>1, <2>2, <2>3, <2>4
          DEF CacheInv, CacheTypeOK, RefreshPending, Ordered, Advances
<1> QED BY <1>5, <1>6

LEMMA ClockStep ==
    ASSUME CacheInv, Age \/ Change
    PROVE  CacheInv' /\ Advances
<1>1. /\ answer' = [answer EXCEPT !.to = {}]
      /\ UNCHANGED <<fetch, inflight, rejections>>
  BY DEF Age, Change, Silent
<1>2. answer'.data = answer.data /\ answer'.to = {}
      /\ answer' \in [to : SUBSET Callers, data : Nat]
  BY <1>1 DEF CacheInv, CacheTypeOK
<1>3. /\ entry'.data = entry.data /\ entry'.refreshing = entry.refreshing
      /\ entry' \in Entry
      /\ source' \in Nat /\ source <= source'
      /\ entry.data \in Nat /\ (entry'.age # "absent" => entry.age # "absent")
  <2>1. CASE Age
    BY <2>1 DEF Age, CacheInv, CacheTypeOK, Entry
  <2>2. CASE Change
    BY <2>2 DEF Change, CacheInv, CacheTypeOK, Entry
  <2> QED BY <2>1, <2>2
<1>4. \A f \in Fetches : fetch[f].data \in Nat
  BY DEF CacheInv, CacheTypeOK, Fetch
<1>5. Ordered'
  BY <1>1, <1>2, <1>3, <1>4 DEF CacheInv, Ordered, CacheTypeOK, Entry
<1>6. Advances
  BY <1>1, <1>2, <1>3 DEF Advances
<1> QED BY <1>1, <1>2, <1>3, <1>5, <1>6
        DEF CacheInv, CacheTypeOK, SingleFlight, RefreshPending, Running

LEMMA NothingChanges ==
    ASSUME CacheInv, UNCHANGED cacheVars
    PROVE  CacheInv' /\ entry'.data = entry.data /\ answer' = answer
BY DEF cacheVars, CacheInv, CacheTypeOK, SingleFlight, RefreshPending, Ordered, Running

LEMMA StepHolds == CacheInv /\ CacheNext => CacheInv' /\ Advances
BY GetStep, ReadSourceStep, EndStep, ClockStep DEF CacheNext, FetchStep

-----------------------------------------------------------------------------
LEMMA CacheInvHolds == CacheSpec => []CacheInv
<1>1. CacheInv /\ [CacheNext]_cacheVars => CacheInv'
  BY StepHolds, NothingChanges
<1> QED BY <1>1, InitHolds, PTL DEF CacheSpec

\* At most one fetch of a key runs, the one that callers join.
THEOREM SingleFlightHolds == CacheSpec => []SingleFlight
<1>1. CacheInv => SingleFlight
  BY DEF CacheInv
<1> QED BY <1>1, CacheInvHolds, PTL

\* A refresh mark always has a fetch that will take it away.
THEOREM RefreshPendingHolds == CacheSpec => []RefreshPending
<1>1. CacheInv => RefreshPending
  BY DEF CacheInv
<1> QED BY <1>1, CacheInvHolds, PTL

\* What the cache has once answered it never takes back.
THEOREM AnswersInOrderHolds == CacheSpec => AnswersInOrder
<1> DEFINE Shown == answer.data <= entry.data
<1>1. CacheInit => Shown
  BY DEF CacheInit
<1>2. CacheInv /\ Shown /\ [CacheNext]_cacheVars =>
          Shown' /\ [answer'.data >= answer.data]_cacheVars
  <2> SUFFICES ASSUME CacheInv, Shown, CacheNext \/ UNCHANGED cacheVars
               PROVE  Shown' /\ [answer'.data >= answer.data]_cacheVars
    OBVIOUS
  <2>1. CASE CacheNext
    <3>1. CacheInv' /\ Advances
      BY <2>1, StepHolds
    <3>2. answer.data \in Nat /\ entry.data \in Nat /\ entry'.data \in Nat
      BY <3>1 DEF CacheInv, CacheTypeOK, Entry
    <3> QED BY <3>1, <3>2 DEF Advances
  <2>2. CASE UNCHANGED cacheVars
    BY <2>2, NothingChanges
  <2> QED BY <2>1, <2>2
<1> HIDE DEF Shown
<1> QED BY <1>1, <1>2, CacheInvHolds, PTL DEF CacheSpec, AnswersInOrder

-----------------------------------------------------------------------------
(* The live feed.                                                          *)

\* Nothing that a browser may get is older than what it has.
Behind(c) ==
    /\ shown[c] \in Nat /\ shown[c] <= source
    /\ entry.age # "absent" => shown[c] <= entry.data
    /\ \A f \in Fetches : fetch[f].step = "read" => shown[c] <= fetch[f].data

BrowsersBehind == shown \in [Clients -> Nat] /\ \A c \in Clients : Behind(c)

FeedInv == CacheInv /\ BrowsersBehind

\* A step of the cache that sends its answer to some browsers.
LEMMA EmitKeeps ==
    ASSUME FeedInv, CacheNext, NEW aim, Emit(aim)
    PROVE  FeedInv' /\ \A c \in Clients : shown'[c] >= shown[c]
<1>1. CacheInv' /\ Advances
  BY StepHolds DEF FeedInv
<1>2. /\ entry.data \in Nat /\ entry'.data \in Nat /\ source \in Nat /\ source' \in Nat
      /\ \A f \in Fetches : fetch[f].data \in Nat /\ fetch'[f].data \in Nat
  BY <1>1 DEF FeedInv, CacheInv, CacheTypeOK, Entry, Fetch
<1>3. ASSUME NEW c \in Clients
      PROVE  shown'[c] = shown[c] \/ (shown'[c] = entry'.data /\ entry'.age # "absent")
  BY <1>1 DEF Emit, Advances
<1>4. ASSUME NEW c \in Clients PROVE Behind(c)' /\ shown'[c] >= shown[c]
  <2>1. Behind(c)
    BY DEF FeedInv, BrowsersBehind
  <2>2. entry'.age # "absent" => shown[c] <= entry'.data
    BY <1>1, <1>2, <2>1 DEF Advances, Behind
  <2>3. CASE shown'[c] = shown[c]
    BY <1>1, <1>2, <2>1, <2>2, <2>3 DEF Advances, Behind
  <2>4. CASE shown'[c] = entry'.data /\ entry'.age # "absent"
    BY <1>1, <1>2, <2>1, <2>2, <2>4 DEF Behind, CacheInv, Ordered
  <2> QED BY <1>3, <2>3, <2>4
<1>5. shown' \in [Clients -> Nat]
  BY <1>4 DEF Emit, Behind
<1> QED BY <1>1, <1>4, <1>5 DEF FeedInv, BrowsersBehind

\* The cache of a restarted server is cold.
LEMMA RestartKeeps ==
    ASSUME FeedInv, RestartServer
    PROVE  FeedInv' /\ shown' = shown
<1>1. /\ entry' = [age |-> "absent", data |-> 0, refreshing |-> FALSE]
      /\ fetch' = [f \in Fetches |-> IdleFetch] /\ inflight' = {}
      /\ answer' = [answer EXCEPT !.to = {}]
      /\ UNCHANGED <<source, rejections, shown>>
  BY DEF RestartServer, Silent
<1>2. CacheInv'
  BY <1>1 DEF FeedInv, CacheInv, CacheTypeOK, SingleFlight, RefreshPending, Ordered,
              Entry, Fetch, IdleFetch, Running
<1>3. BrowsersBehind'
  BY <1>1 DEF FeedInv, BrowsersBehind, Behind, IdleFetch
<1> QED BY <1>1, <1>2, <1>3 DEF FeedInv

LEMMA FeedStepHolds ==
    FeedInv /\ [FeedNext]_feedVars => FeedInv' /\ \A c \in Clients : shown'[c] >= shown[c]
<1> SUFFICES ASSUME FeedInv, [FeedNext]_feedVars
             PROVE  FeedInv' /\ \A c \in Clients : shown'[c] >= shown[c]
  OBVIOUS
<1>1. \A c \in Clients : shown[c] \in Nat
  BY DEF FeedInv, BrowsersBehind
<1>2. ASSUME UNCHANGED <<cacheVars, shown>> PROVE FeedInv'
  <2>1. CacheInv'
    BY <1>2, NothingChanges DEF FeedInv
  <2> QED BY <1>2, <2>1 DEF FeedInv, BrowsersBehind, Behind, cacheVars
<1>3. ASSUME NEW to, Broadcast(to)
      PROVE  FeedInv' /\ \A c \in Clients : shown'[c] >= shown[c]
  BY <1>3, EmitKeeps DEF Broadcast, CacheNext
<1>4. CASE CacheStep
  BY <1>4, EmitKeeps DEF CacheStep, CacheNext
<1>5. CASE RecordEvent
  <2>1. CacheNext /\ UNCHANGED shown
    BY <1>5 DEF RecordEvent, CacheNext
  <2>2. CacheInv' /\ Advances
    BY <2>1, StepHolds DEF FeedInv
  <2>3. UNCHANGED <<entry, fetch>>
    BY <1>5 DEF RecordEvent, Change
  <2>4. source \in Nat /\ source' \in Nat
    BY <2>2 DEF FeedInv, CacheInv, CacheTypeOK
  <2> QED BY <1>1, <2>1, <2>2, <2>3, <2>4 DEF FeedInv, BrowsersBehind, Behind, Advances
<1>6. CASE Heartbeat
  BY <1>3, <1>6 DEF Heartbeat
<1>7. CASE RestartServer
  BY <1>1, <1>7, RestartKeeps
<1>8. CASE \E e \in unpublished : PublishEvent(e) \/ LoseEvent(e)
  BY <1>1, <1>2, <1>3, <1>8 DEF PublishEvent, LoseEvent
<1>9. CASE \E c \in Clients : Connect(c) \/ Disconnect(c)
  BY <1>1, <1>2, <1>3, <1>9 DEF Connect, Disconnect
<1>10. CASE StartListening \/ FailToStart \/ LoseConnection \/ Retry
  BY <1>1, <1>2, <1>10
     DEF StartListening, FailToStart, LoseConnection, Retry, ListenerStep
<1>11. CASE UNCHANGED feedVars
  BY <1>1, <1>2, <1>11 DEF feedVars
<1> QED BY <1>4, <1>5, <1>6, <1>7, <1>8, <1>9, <1>10, <1>11 DEF FeedNext

\* Broadcasts overtake one another, connections break and the server starts
\* anew: no browser is ever shown an older snapshot than it had.
THEOREM SnapshotsNeverGoBackHolds == FeedSpec => SnapshotsNeverGoBack
<1>1. FeedInit => FeedInv
  <2> SUFFICES ASSUME FeedInit PROVE FeedInv
    OBVIOUS
  <2>1. CacheInv
    BY InitHolds DEF FeedInit
  <2> QED BY <2>1 DEF FeedInit, CacheInit, NobodyThere, FeedInv, BrowsersBehind, Behind,
                      IdleFetch
<1>2. FeedInv /\ [FeedNext]_feedVars =>
          FeedInv' /\ [\A c \in Clients : shown'[c] >= shown[c]]_feedVars
  BY FeedStepHolds
<1> QED BY <1>1, <1>2, PTL DEF FeedSpec, SnapshotsNeverGoBack

-----------------------------------------------------------------------------
(* The page of an artist, which refreshes on news.                         *)

ShellState ==
    [mounted : BOOLEAN, isConnected : BOOLEAN, timer : BOOLEAN, refreshes : Nat,
     read : Nat \cup {None}, heard : Nat, rendered : Nat]

\* What a refresh has read is no older than the page it will replace, and
\* news that the page does not have are those of NewsIsRefreshed.
ShellSound(q, now) ==
    /\ q \in ShellState
    /\ q.heard <= now /\ q.rendered <= now
    /\ q.read # None => q.refreshes > 0 /\ q.rendered <= q.read /\ q.read <= now
    /\ q.rendered < q.heard =>
          \/ q.timer \/ q.refreshes > 1
          \/ q.refreshes = 1 /\ (q.read = None \/ q.read >= q.heard)

Message == [event : Nat, snapshot : Nat]

NewsInv ==
    /\ happened \in Nat
    /\ cached \in [socket : Nat, web : Nat]
    /\ wire \in Seq(Message)
    /\ \A i \in 1..Len(wire) : wire[i].event <= happened
    /\ ShellSound(shell, happened)

\* The steps of a shell.
LEMMA ShellConnects ==
    ASSUME NEW q, NEW now, ShellSound(q, now), NEW up \in BOOLEAN,
           NEW p, p = [q EXCEPT !.isConnected = up]
    PROVE  ShellSound(p, now)
<1>1. /\ p \in ShellState /\ p.timer = q.timer /\ p.refreshes = q.refreshes
      /\ p.read = q.read /\ p.heard = q.heard /\ p.rendered = q.rendered
  BY DEF ShellSound, ShellState
<1> QED BY <1>1 DEF ShellSound

LEMMA NoShellIsSome ==
    /\ NoShell \in ShellState /\ ~NoShell.mounted /\ ~NoShell.isConnected
    /\ ~NoShell.timer /\ NoShell.refreshes = 0 /\ NoShell.read = None
    /\ NoShell.heard = 0 /\ NoShell.rendered = 0
<1>1. 0 \in Nat /\ FALSE \in BOOLEAN /\ None \in Nat \cup {None}
  OBVIOUS
<1> HIDE DEF None
<1> QED BY <1>1 DEF NoShell, ShellState

\* A shell that has just been put there, or none, has heard of nothing.
LEMMA ShellBegins ==
    ASSUME NEW now \in Nat, NEW p \in ShellState, p.rendered <= now,
           ~p.timer, p.refreshes = 0, p.read = None, p.heard = 0
    PROVE  ShellSound(p, now)
BY DEF ShellSound, ShellState

LEMMA ShellHears ==
    ASSUME NEW q, NEW now \in Nat, ShellSound(q, now), NEW e \in 0..now,
           NEW p, p = [q EXCEPT !.heard = e, !.timer = TRUE]
    PROVE  ShellSound(p, now)
<1>1. /\ p \in ShellState /\ p.timer /\ p.refreshes = q.refreshes
      /\ p.read = q.read /\ p.heard = e /\ p.rendered = q.rendered
  <2>1. e \in Nat /\ q \in ShellState
    BY DEF ShellSound
  <2> QED BY <2>1 DEF ShellState
<1> QED BY <1>1 DEF ShellSound

LEMMA ShellAsks ==
    ASSUME NEW q, NEW now, ShellSound(q, now), q.timer,
           NEW p, p = [q EXCEPT !.timer = FALSE, !.refreshes = @ + 1]
    PROVE  ShellSound(p, now)
<1>1. /\ p \in ShellState /\ p.refreshes = q.refreshes + 1 /\ q.refreshes \in Nat
      /\ p.read = q.read /\ p.heard = q.heard /\ p.rendered = q.rendered
  <2>1. q \in ShellState
    BY DEF ShellSound
  <2>2. q.refreshes \in Nat /\ q.refreshes + 1 \in Nat
    BY <2>1 DEF ShellState
  <2> QED BY <2>1, <2>2 DEF ShellState
<1> QED BY <1>1 DEF ShellSound

LEMMA ShellReads ==
    ASSUME NEW q, NEW now \in Nat, ShellSound(q, now), q.refreshes > 0,
           NEW p, p = [q EXCEPT !.read = now]
    PROVE  ShellSound(p, now)
<1>1. /\ p \in ShellState /\ p.refreshes = q.refreshes /\ p.timer = q.timer
      /\ p.read = now /\ p.heard = q.heard /\ p.rendered = q.rendered
      /\ q.refreshes \in Nat /\ q.heard \in Nat /\ q.rendered \in Nat
  BY DEF ShellSound, ShellState
<1> QED BY <1>1 DEF ShellSound

LEMMA ShellRenders ==
    ASSUME NEW q, NEW now \in Nat, ShellSound(q, now), q.read # None,
           NEW p, p = [q EXCEPT !.rendered = q.read, !.read = None, !.refreshes = @ - 1]
    PROVE  ShellSound(p, now)
<1>1. /\ q.refreshes \in Nat /\ q.heard \in Nat /\ q.rendered \in Nat /\ q.read \in Nat
      /\ q.refreshes - 1 \in Nat
  BY DEF ShellSound, ShellState
<1>2. /\ p \in ShellState /\ p.refreshes = q.refreshes - 1 /\ p.timer = q.timer
      /\ p.read = None /\ p.heard = q.heard /\ p.rendered = q.read
  BY <1>1 DEF ShellSound, ShellState
<1> QED BY <1>1, <1>2 DEF ShellSound

\* Time passes.
LEMMA ShellLater ==
    ASSUME NEW q, NEW now \in Nat, NEW later \in Nat, now <= later, ShellSound(q, now)
    PROVE  ShellSound(q, later)
<1>1. /\ q \in ShellState /\ q.heard \in Nat /\ q.rendered \in Nat
      /\ q.read # None => q.read \in Nat
  BY DEF ShellSound, ShellState
<1> QED BY <1>1 DEF ShellSound

\* Nothing else gets to the tab.
LEMMA BoardAside ==
    ASSUME NewsInv, UNCHANGED <<happened, cached>>, wire' = wire \/ wire' = <<>>,
           ShellSound(shell', happened)
    PROVE  NewsInv'
<1>1. CASE wire' = wire
  BY <1>1 DEF NewsInv
<1>2. CASE wire' = <<>>
  BY <1>2 DEF NewsInv
<1> QED BY <1>1, <1>2

LEMMA NotifyShell ==
    ASSUME NewsInv, NEW up \in BOOLEAN, Notify(up)
    PROVE  ShellSound(shell', happened)
<1>1. PICK now : now = (up /\ shell.mounted)
  OBVIOUS
<1>2. shell' = [shell EXCEPT !.isConnected = now] /\ now \in BOOLEAN
  BY <1>1 DEF Notify
<1> QED BY <1>2, ShellConnects DEF NewsInv

LEMMA HearStep == NewsInv /\ Hear => NewsInv'
<1> SUFFICES ASSUME NewsInv, Hear PROVE NewsInv'
  OBVIOUS
<1>1. /\ wire # <<>> /\ wire' = Tail(wire) /\ UNCHANGED <<happened, cached>>
      /\ \/ shell' = [shell EXCEPT !.heard = Head(wire).event, !.timer = TRUE]
         \/ shell' = shell
  BY DEF Hear, serverUnchanged
<1>2. Head(wire) = wire[1] /\ 1 \in 1..Len(wire) /\ Head(wire) \in Message
  BY <1>1 DEF NewsInv
<1>3. Head(wire).event \in 0..happened
  BY <1>2 DEF NewsInv, Message
<1>4. ShellSound(shell', happened)
  BY <1>1, <1>3, ShellHears DEF NewsInv
<1>5. /\ wire' \in Seq(Message)
      /\ \A i \in 1..Len(wire') : i + 1 \in 1..Len(wire) /\ wire'[i] = wire[i + 1]
  BY <1>1 DEF NewsInv
<1>6. \A i \in 1..Len(wire') : wire'[i].event <= happened'
  BY <1>1, <1>5 DEF NewsInv
<1> QED BY <1>1, <1>4, <1>5, <1>6 DEF NewsInv

\* Another message is on its way, of an event that has happened.
LEMMA SendStep ==
    ASSUME NewsInv, happened' \in Nat, happened <= happened', UNCHANGED <<cached, shell>>,
           NEW e \in 0..happened', NEW m, m = [event |-> e, snapshot |-> cached.socket],
           wire' = wire \/ wire' = Append(wire, m)
    PROVE  NewsInv'
<1>1. m \in Message /\ m.event <= happened' /\ m.event \in Nat
  BY DEF NewsInv, Message
<1>2. wire' \in Seq(Message)
  BY <1>1 DEF NewsInv
<1>3. \A i \in 1..Len(wire') : wire'[i] = m \/ (i \in 1..Len(wire) /\ wire'[i] = wire[i])
  BY <1>1 DEF NewsInv
<1>4. ASSUME NEW i \in 1..Len(wire') PROVE wire'[i].event <= happened'
  <2>1. CASE i \in 1..Len(wire) /\ wire'[i] = wire[i]
    <3>1. wire[i] \in Message /\ wire[i].event <= happened
      BY <2>1 DEF NewsInv
    <3>2. wire[i].event \in Nat /\ happened \in Nat
      BY <3>1 DEF Message, NewsInv
    <3> QED BY <2>1, <3>1, <3>2
  <2> QED BY <1>1, <1>3, <2>1
<1>5. ShellSound(shell', happened')
  BY ShellLater DEF NewsInv
<1> QED BY <1>2, <1>4, <1>5 DEF NewsInv

LEMMA BoardStep == NewsInv /\ [LiveBoardNext]_boardVars => NewsInv'
<1> SUFFICES ASSUME NewsInv, [LiveBoardNext]_boardVars PROVE NewsInv'
  OBVIOUS
<1> USE DEF serverUnchanged
<1>0. happened \in Nat /\ ShellSound(shell, happened)
  BY DEF NewsInv
<1>1. CASE Occur
  <2>1. /\ happened' = happened + 1 /\ happened' \in Nat /\ happened' \in 0..happened'
        /\ happened <= happened' /\ UNCHANGED <<cached, shell>>
    BY <1>0, <1>1 DEF Occur
  <2>2. PICK m : m = [event |-> happened', snapshot |-> cached.socket]
    OBVIOUS
  <2>3. wire' = wire \/ wire' = Append(wire, m)
    BY <1>1, <2>2 DEF Occur, Update, Send
  <2> QED BY <2>1, <2>2, <2>3, SendStep
<1>2. CASE Beat
  <2>1. PICK m : m = Snapshot
    OBVIOUS
  <2>2. wire' = Append(wire, m) /\ UNCHANGED <<happened, cached, shell>>
    BY <1>2, <2>1 DEF Beat, Send
  <2>4. m = [event |-> 0, snapshot |-> cached.socket]
    BY <2>1 DEF Snapshot
  <2>3. 0 \in 0..happened' /\ happened' \in Nat /\ happened <= happened'
    BY <1>0, <2>2
  <2> QED BY <2>2, <2>3, <2>4, SendStep
<1>3. CASE RefreshCache("socket") \/ RefreshCache("web")
  <2>1. cached' \in [socket : Nat, web : Nat] /\ UNCHANGED <<happened, wire, shell>>
    BY <1>3 DEF RefreshCache, NewsInv
  <2> QED BY <2>1 DEF NewsInv
<1>4. CASE MountShell
  <2>1. PICK up : up = (client.socket = "open")
    OBVIOUS
  <2>2. shell' = [NoShell EXCEPT !.mounted = TRUE, !.rendered = happened, !.isConnected = up]
    BY <1>4, <2>1 DEF MountShell
  <2>4. /\ shell' \in ShellState /\ shell'.rendered = happened /\ ~shell'.timer
        /\ shell'.refreshes = 0 /\ shell'.read = None /\ shell'.heard = 0
    BY <1>0, <2>1, <2>2, NoShellIsSome DEF ShellState
  <2>3. ShellSound(shell', happened)
    BY <1>0, <2>4, ShellBegins
  <2> QED BY <1>4, <2>3, BoardAside DEF MountShell
<1>5. CASE UnmountShell
  <2>1. ShellSound(NoShell, happened)
    BY <1>0, NoShellIsSome, ShellBegins
  <2> QED BY <1>5, <2>1, BoardAside DEF UnmountShell
<1>6. CASE ComeOnline
  BY <1>6, NotifyShell, BoardAside DEF ComeOnline
<1>7. CASE BreakOff \/ RateLimit
  BY <1>7, NotifyShell, BoardAside DEF BreakOff, RateLimit
<1>8. CASE Flip
  BY <1>0, <1>8, NotifyShell, BoardAside DEF Flip
<1>9. CASE MountBoard \/ UnmountBoard \/ EndCooldown \/ Redial \/ Watchdog
  BY <1>0, <1>9, BoardAside DEF MountBoard, UnmountBoard, EndCooldown, Redial, Watchdog
<1>10. CASE Surface \/ WriteRef \/ AskRecovery \/ AnswerPoll \/ ApplyPoll
  BY <1>0, <1>10, BoardAside DEF Surface, WriteRef, AskRecovery, AnswerPoll, ApplyPoll
<1>11. CASE UNCHANGED boardVars
  BY <1>0, <1>11, BoardAside DEF boardVars
<1>12. CASE ShellStep
  <2>1. UNCHANGED <<happened, cached, wire>>
    BY <1>12 DEF ShellStep, AskRefresh, ReadRefresh, RenderRefresh, shellUnchanged
  <2>2. ShellSound(shell', happened)
    BY <1>0, <1>12, ShellAsks, ShellReads, ShellRenders
       DEF ShellStep, AskRefresh, ReadRefresh, RenderRefresh
  <2> QED BY <2>1, <2>2, BoardAside
<1> QED BY <1>1, <1>2, <1>3, <1>4, <1>5, <1>6, <1>7, <1>8, <1>9, <1>10, <1>11, <1>12,
           HearStep DEF LiveBoardNext

\* However news and refreshes overlap and connections come and go, a profile
\* page that has heard of news of its artist has a refresh before it that will
\* read the page after them (scheduleRefresh of ProfileLiveShell).
THEOREM NewsIsRefreshedHolds == LiveBoardSpec => []NewsIsRefreshed
<1>1. LiveBoardInit => NewsInv
  <2> SUFFICES ASSUME LiveBoardInit PROVE NewsInv
    OBVIOUS
  <2>1. ShellSound(NoShell, 0)
    BY NoShellIsSome, ShellBegins
  <2> QED BY <2>1 DEF LiveBoardInit, NewsInv
<1>2. NewsInv => NewsIsRefreshed
  BY DEF NewsInv, ShellSound, NewsIsRefreshed
<1> QED BY <1>1, <1>2, BoardStep, PTL DEF LiveBoardSpec
=============================================================================
