------------------------------ MODULE LiveBoard ------------------------------
(***************************************************************************)
(* A browser tab with the live pages of the archive: the board             *)
(* (src/src/app/_components/archive-live-board) with its counters and feed, *)
(* and the shell of a profile, which refreshes its page on news of its      *)
(* artist.  Both use one socket, kept for the whole tab                     *)
(* (archive-socket-client.ts); without it the board may poll the recovery   *)
(* route.  What the server sends, and in what order, is LiveFeed's matter:  *)
(* here its snapshots never go back.                                        *)
(*                                                                         *)
(* An event is its number, a snapshot the number of events it knows of.     *)
(***************************************************************************)
EXTENDS Integers, Sequences, FiniteSets, SequencesExt

CONSTANTS
    MaxSurfacedEvents,  \* events a snapshot lists, and a board shows
    MaxStagedEvents,    \* events a board keeps back
    MaxWire,            \* bound: messages under way
    Tabs                \* the worlds to consider, each with its own bounds

\* events is how many there will be, ours those of the profile's artist.
\* backlog has the snapshots that tell of jobs and of no worker at work.
\* The other numbers bound what users, networks and servers do.
Tab == [events : Nat, ours : SUBSET Nat, backlog : SUBSET Nat, flips : Nat,
        mounts : Nat, breaks : Nat, limits : Nat, overlaps : Nat]

ASSUME LiveBoardAssumption ==
    /\ MaxSurfacedEvents \in Nat \ {0} /\ MaxStagedEvents \in Nat \ {0}
    /\ MaxWire \in Nat \ {0}
    /\ Tabs \subseteq Tab

VARIABLES
    browser,    \* the world: it never changes
    happened,   \* events so far
    cached,     \* the snapshot in the cache of each server process
    client,     \* the locals of archive-socket-client.ts and its socket
    hidden,     \* document.hidden
    wire,       \* messages on their way to the tab
    board,      \* the state of useArchiveLiveSnapshot
    polls,      \* requests for recovery under way
    shell,      \* the state of ProfileLiveShell
    counts      \* events counted against the bounds

boardVars == <<browser, happened, cached, client, hidden, wire, board, polls,
               shell, counts>>

-----------------------------------------------------------------------------
\* readRecentArchiveEvents for a snapshot.
RecentEvents(snapshot) ==
    LET n == IF snapshot < MaxSurfacedEvents THEN snapshot ELSE MaxSurfacedEvents
    IN  [i \in 1..n |-> snapshot + 1 - i]

NoSocket == [exists |-> FALSE, subscribers |-> 0, reconnection |-> TRUE,
             socket |-> "closed", retries |-> FALSE, cooling |-> FALSE]

Board(snapshot) ==
    [mounted |-> TRUE, snapshot |-> snapshot, isConnected |-> FALSE,
     latestEvent |-> snapshot, latestRef |-> snapshot,
     visible |-> RecentEvents(snapshot), staged |-> <<>>]
NoBoard == [Board(0) EXCEPT !.mounted = FALSE]

\* heard is the last event of the artist the shell was told of, rendered the
\* number of events its page knows of; read is what the server has read for
\* the refresh at the head of the router's queue, None before.
None == -1
NoShell == [mounted |-> FALSE, isConnected |-> FALSE, timer |-> FALSE,
            refreshes |-> 0, read |-> None, heard |-> 0, rendered |-> 0]

LiveBoardInit ==
    /\ browser \in Tabs
    /\ happened = 0
    /\ cached = [socket |-> 0, web |-> 0]
    /\ client = NoSocket
    /\ hidden \in BOOLEAN
    /\ wire = <<>> /\ polls = {}
    /\ board = NoBoard /\ shell = NoShell
    /\ counts = [flips |-> 0, mounts |-> 0, breaks |-> 0, limits |-> 0]

Spend(what) == /\ counts[what] < browser[what]
               /\ counts' = [counts EXCEPT ![what] = @ + 1]

serverUnchanged == <<browser, happened, cached>>

-----------------------------------------------------------------------------
(* The feed of the board.                                                  *)

Shortened(s) == SubSeq(s, 1, IF Len(s) < MaxSurfacedEvents THEN Len(s)
                                                           ELSE MaxSurfacedEvents)

mergeVisibleEvents(current, next) ==
    Shortened(next \o SelectSeq(current, LAMBDA e : ~Contains(next, e)))

\* An event is staged unless it is the latest already, as far as the ref
\* says, or waits; the oldest make room.
Staged(b, e) ==
    IF b.latestRef = e \/ Contains(b.staged, e) THEN b.staged
    ELSE LET s == Append(b.staged, e)
         IN  IF Len(s) > MaxStagedEvents THEN Tail(s) ELSE s

\* surfaceNextEvent, every 6.5 seconds.
Surface ==
    /\ board.staged # <<>>
    /\ LET e == Head(board.staged)
       IN  board' = [board EXCEPT !.staged = Tail(@), !.latestEvent = e,
                                  !.visible = mergeVisibleEvents(@, <<e>>)]
    /\ UNCHANGED <<serverUnchanged, client, hidden, wire, polls, shell, counts>>

\* The effect that writes the ref runs after the event has been rendered.
WriteRef ==
    /\ board.latestRef # board.latestEvent
    /\ board' = [board EXCEPT !.latestRef = board.latestEvent]
    /\ UNCHANGED <<serverUnchanged, client, hidden, wire, polls, shell, counts>>

-----------------------------------------------------------------------------
(* The recovery route.  A request waits for the head of the answer, then for *)
(* its body.                                                               *)

Wanted == [step |-> "asked", snapshot |-> 0]
Parsing == {r \in polls : r.step = "parsing"}

shouldPollRecoveryRoute(b) == b.mounted /\ ~b.isConnected /\ b.snapshot \in browser.backlog

\* What the effect of useRecoveryFallback depends on.
Depends(b) == <<b.mounted, b.isConnected, b.snapshot>>

\* The board becomes b, with these requests under way.  If that runs the
\* effect again, its cleanup lets go of the request that has no answer yet,
\* and a poll is sent at once.
Becomes(b, requests) ==
    /\ board' = b
    /\ polls' = IF Depends(b) = Depends(board) THEN requests
                ELSE (requests \ {Wanted})
                       \cup IF shouldPollRecoveryRoute(b) /\ ~hidden' THEN {Wanted} ELSE {}

\* The interval.
AskRecovery ==
    /\ shouldPollRecoveryRoute(board) /\ ~hidden /\ Wanted \notin polls
    /\ polls' = polls \cup {Wanted}
    /\ UNCHANGED <<serverUnchanged, client, hidden, wire, board, shell, counts>>

AnswerPoll ==
    /\ Wanted \in polls
    /\ \/ /\ Cardinality(Parsing) < browser.overlaps
          /\ polls' = Parsing \cup {[step |-> "parsing", snapshot |-> cached.web]}
          /\ UNCHANGED counts
       \/ Spend("breaks") /\ polls' = Parsing
    /\ UNCHANGED <<serverUnchanged, client, hidden, wire, board, shell>>

\* Whether the effect is still there was asked before the body was awaited.
ApplyPoll ==
    /\ UNCHANGED hidden
    /\ \E r \in Parsing :
          Becomes([board EXCEPT !.snapshot = r.snapshot, !.latestEvent = r.snapshot,
                      !.visible = mergeVisibleEvents(@, RecentEvents(r.snapshot))],
                  polls \ {r})
    /\ UNCHANGED <<serverUnchanged, client, wire, shell, counts>>

-----------------------------------------------------------------------------
(* The socket of the tab.                                                  *)

\* connect and disconnect reach whoever listens.
Notify(open) ==
    /\ Becomes([board EXCEPT !.isConnected = open /\ board.mounted], polls)
    /\ shell' = [shell EXCEPT !.isConnected = open /\ shell.mounted]

Dialing(c) == IF c.socket = "closed" THEN [c EXCEPT !.socket = "dialing", !.retries = FALSE]
                                     ELSE c
resumeReconnects(c) == Dialing([c EXCEPT !.reconnection = TRUE])
paused(c) == [c EXCEPT !.reconnection = FALSE, !.socket = "closed", !.retries = FALSE]

\* A connection that has failed is tried again by the manager if it may, and
\* unless it is stuck.
Ended == {[client EXCEPT !.socket = "closed", !.retries = again] :
             again \in {FALSE, client.reconnection}}

\* acquireArchiveSocket and ensureSocket.
Acquired ==
    IF client.exists THEN [client EXCEPT !.subscribers = @ + 1]
    ELSE [NoSocket EXCEPT !.exists = TRUE, !.subscribers = 1,
                          !.socket = IF hidden THEN "closed" ELSE "dialing"]

\* release: the last one closes it.
released == IF client.subscribers > 1 THEN [client EXCEPT !.subscribers = @ - 1]
                                      ELSE NoSocket

MountBoard ==
    /\ UNCHANGED hidden
    /\ ~board.mounted /\ Spend("mounts")
    /\ client' = Acquired
    /\ Becomes([Board(cached.web) EXCEPT !.isConnected = client.socket = "open"], {})
    /\ UNCHANGED <<serverUnchanged, wire, shell>>

UnmountBoard ==
    /\ board.mounted
    /\ client' = released
    /\ wire' = IF released.exists THEN wire ELSE <<>>
    /\ board' = NoBoard /\ polls' = {}
    /\ UNCHANGED <<serverUnchanged, hidden, shell, counts>>

MountShell ==
    /\ ~shell.mounted /\ Spend("mounts")
    /\ client' = Acquired
    /\ shell' = [NoShell EXCEPT !.mounted = TRUE, !.rendered = happened,
                                !.isConnected = client.socket = "open"]
    /\ UNCHANGED <<serverUnchanged, hidden, wire, board, polls>>

UnmountShell ==
    /\ shell.mounted
    /\ client' = released
    /\ wire' = IF released.exists THEN wire ELSE <<>>
    /\ shell' = NoShell
    /\ UNCHANGED <<serverUnchanged, hidden, board, polls, counts>>

ComeOnline ==
    /\ UNCHANGED hidden
    /\ client.socket = "dialing"
    /\ client' = [client EXCEPT !.socket = "open"]
    /\ Notify(TRUE)
    /\ UNCHANGED <<serverUnchanged, wire, counts>>

\* A failed dial, or the end of a connection with all that is under way.
BreakOff ==
    /\ UNCHANGED hidden
    /\ client.socket \in {"dialing", "open"} /\ Spend("breaks")
    /\ client' \in Ended
    /\ wire' = <<>> /\ Notify(FALSE)
    /\ UNCHANGED <<serverUnchanged>>

\* armRateLimitCooldown.
RateLimit ==
    /\ UNCHANGED hidden
    /\ client.socket = "dialing" /\ Spend("limits")
    /\ client' = [paused(client) EXCEPT !.cooling = TRUE]
    /\ Notify(FALSE)
    /\ UNCHANGED <<serverUnchanged, wire>>

EndCooldown ==
    /\ client.cooling
    /\ LET c == [client EXCEPT !.cooling = FALSE]
       IN  client' = IF hidden THEN c ELSE resumeReconnects(c)
    /\ UNCHANGED <<serverUnchanged, hidden, wire, board, polls, shell, counts>>

Redial ==
    /\ client.retries /\ client' = Dialing(client)
    /\ UNCHANGED <<serverUnchanged, hidden, wire, board, polls, shell, counts>>

\* Mutant: it leaves a client alone that does not reconnect by itself.
WatchdogIfReconnecting ==
    /\ client.exists /\ ~hidden /\ ~client.cooling /\ client.socket = "closed"
    /\ client.reconnection /\ client.retries
    /\ client' = resumeReconnects(client)
    /\ UNCHANGED <<serverUnchanged, hidden, wire, board, polls, shell, counts>>

\* The watchdog of ensureSocket, every 10 seconds.
Watchdog ==
    /\ client.exists /\ ~hidden /\ ~client.cooling /\ client.socket = "closed"
    /\ client' = resumeReconnects(client)
    /\ UNCHANGED <<serverUnchanged, hidden, wire, board, polls, shell, counts>>

\* visibilitychange: a hidden tab keeps no connection.
Flip ==
    /\ Spend("flips") /\ hidden' = ~hidden
    /\ IF ~client.exists THEN UNCHANGED <<client, wire, board, polls, shell>>
       ELSE IF hidden'
            THEN /\ client' = paused(client)
                 /\ wire' = <<>> /\ Notify(FALSE)
            ELSE /\ client' = IF client.cooling THEN client ELSE resumeReconnects(client)
                 /\ UNCHANGED <<wire, board, polls, shell>>
    /\ UNCHANGED serverUnchanged

-----------------------------------------------------------------------------
(* What comes from the server.                                             *)

Update(e) == [event |-> e, snapshot |-> cached.socket]
Snapshot == [event |-> 0, snapshot |-> cached.socket]
Send(message) == Append(wire, message)
Room == client.socket = "open" /\ Len(wire) < MaxWire

\* The news of an event may get lost on its way to the server.
Occur ==
    /\ happened < browser.events
    /\ happened' = happened + 1
    /\ wire' \in {wire} \cup (IF Room THEN {Send(Update(happened'))} ELSE {})
    /\ UNCHANGED <<browser, cached, client, hidden, board, polls, shell, counts>>

RefreshCache(process) ==
    /\ cached[process] # happened
    /\ cached' = [cached EXCEPT ![process] = happened]
    /\ UNCHANGED <<browser, happened, client, hidden, wire, board, polls, shell, counts>>

Beat ==
    /\ Room /\ wire' = Send(Snapshot)
    /\ UNCHANGED <<serverUnchanged, client, hidden, board, polls, shell, counts>>

\* handleArchiveSnapshot and handleArchiveUpdate of the board; the shell's
\* handleArchiveUpdate, with scheduleRefresh.
Hear ==
    /\ UNCHANGED hidden
    /\ wire # <<>> /\ wire' = Tail(wire)
    /\ LET m == Head(wire)
           b == [board EXCEPT !.snapshot = m.snapshot]
       IN  /\ IF ~board.mounted THEN UNCHANGED <<board, polls>>
              ELSE Becomes(IF m.event = 0
                           THEN [b EXCEPT !.visible =
                                    mergeVisibleEvents(@, RecentEvents(m.snapshot))]
                           ELSE [b EXCEPT !.staged = Staged(b, m.event)], polls)
           /\ shell' = IF shell.mounted /\ m.event \in browser.ours
                       THEN [shell EXCEPT !.heard = m.event, !.timer = TRUE]
                       ELSE shell
    /\ UNCHANGED <<serverUnchanged, client, counts>>

-----------------------------------------------------------------------------
(* The refreshes of the profile's page, one after the other.               *)

shellUnchanged == <<serverUnchanged, client, hidden, wire, board, polls, counts>>

\* Mutant: none is asked for while one is under way.
AskRefreshUnlessRefreshing ==
    /\ shell.timer
    /\ shell' = [shell EXCEPT !.timer = FALSE, !.refreshes = 1]
    /\ UNCHANGED shellUnchanged

\* The timeout of scheduleRefresh.
AskRefresh ==
    /\ shell.timer
    /\ shell' = [shell EXCEPT !.timer = FALSE, !.refreshes = @ + 1]
    /\ UNCHANGED shellUnchanged

ReadRefresh ==
    /\ shell.refreshes > 0 /\ shell.read = None
    /\ shell' = [shell EXCEPT !.read = happened]
    /\ UNCHANGED shellUnchanged

RenderRefresh ==
    /\ shell.read # None
    /\ shell' = [shell EXCEPT !.rendered = shell.read, !.read = None, !.refreshes = @ - 1]
    /\ UNCHANGED shellUnchanged

ShellStep == AskRefresh \/ ReadRefresh \/ RenderRefresh
-----------------------------------------------------------------------------
LiveBoardNext ==
    \/ Occur \/ RefreshCache("socket") \/ RefreshCache("web") \/ Beat \/ Hear
    \/ MountBoard \/ UnmountBoard \/ MountShell \/ UnmountShell
    \/ ComeOnline \/ BreakOff \/ RateLimit \/ EndCooldown \/ Redial \/ Watchdog \/ Flip
    \/ Surface \/ WriteRef \/ AskRecovery \/ AnswerPoll \/ ApplyPoll
    \/ ShellStep

\* Servers answer and beat, timers fire, the network delivers.
LiveBoardFairness ==
    /\ WF_boardVars(RefreshCache("socket")) /\ WF_boardVars(Beat)
    /\ WF_boardVars(Hear) /\ WF_boardVars(ComeOnline)
    /\ WF_boardVars(EndCooldown) /\ WF_boardVars(Watchdog)
    /\ WF_boardVars(Surface) /\ WF_boardVars(ApplyPoll)

LiveBoardSpec == LiveBoardInit /\ [][LiveBoardNext]_boardVars /\ LiveBoardFairness

-----------------------------------------------------------------------------
Watched == board.mounted /\ ~hidden
UpToDate ==
    /\ board.isConnected /\ board.snapshot = happened /\ board.staged = <<>>
    /\ \A e \in ToSet(RecentEvents(happened)) : Contains(board.visible, e)

\* A board that is watched ends up with the truth, whatever became of its
\* connection before: a tab hidden and shown, refused by the server for a
\* while, stuck between two connections, or a page left by the other user of
\* the socket.  Counters of an answer that came too late do not stay.
BoardCatchesUp == <>[]Watched => <>[]UpToDate

\* A profile page that has heard of news of its artist knows of it, or will: a
\* refresh that reads the page after the news is due, although one refresh may
\* serve many and another be under way.
NewsIsRefreshed ==
    shell.rendered < shell.heard =>
        \/ shell.timer \/ shell.refreshes > 1
        \/ shell.refreshes = 1 /\ (shell.read = None \/ shell.read >= shell.heard)
=============================================================================
