--------------------------- MODULE MCSocketServer ---------------------------
(***************************************************************************)
(* Instances for TLC of what browsers get through the socket server, in    *)
(* two parts: the live feed of the archive (LiveFeed) and the tab that     *)
(* shows it (LiveBoard).  They share no state, so every behaviour is about *)
(* one of them while the other rests.                                      *)
(***************************************************************************)
EXTENDS LiveFeed, LiveBoard

VARIABLE part   \* which of the two the behaviour is about

socketVars == <<feedVars, boardVars, part>>

-----------------------------------------------------------------------------
(* The worlds of a tab: a busy feed, a tab that is hidden or refused, one   *)
(* that polls, and the page of an artist.                                   *)

ATab(n, ours, backlog, flips, mounts, breaks, limits, overlaps) ==
    [events |-> n, ours |-> ours, backlog |-> backlog, flips |-> flips,
     mounts |-> mounts, breaks |-> breaks, limits |-> limits, overlaps |-> overlaps]
NoTab == ATab(0, {}, {}, 0, 0, 0, 0, 0)
MCTabs ==
    {NoTab, ATab(3, {}, {}, 0, 1, 0, 0, 0), ATab(1, {}, {1}, 1, 2, 0, 1, 1),
     ATab(1, {}, {0, 1}, 0, 1, 2, 0, 2), ATab(2, {1, 2}, {}, 0, 1, 1, 0, 0),
     ATab(1, {1}, {}, 0, 2, 1, 0, 0)}

BoardRests == LiveBoardInit /\ browser = NoTab /\ ~hidden

-----------------------------------------------------------------------------
FeedRests ==
    /\ CacheInit /\ NobodyThere
    /\ listener = [Started EXCEPT !.listening = TRUE, !.connecting = FALSE]

\* Bound: a connection is lost and its renewal fails, or there is one other
\* fault, in a behaviour of the feed.
FaultsInFeed ==
    count.losses + count.failures + 2 * (rejections + count.disconnects + count.restarts)

SocketInit ==
    \/ part = "feed" /\ FeedInit /\ BoardRests
    \/ part = "board" /\ FeedRests /\ LiveBoardInit /\ browser # NoTab

SocketNext ==
    /\ UNCHANGED part
    /\ \/ /\ part = "feed" /\ FeedNext /\ FaultsInFeed' <= 2
          /\ UNCHANGED boardVars
       \/ part = "board" /\ LiveBoardNext /\ UNCHANGED feedVars

\* A feed or a tab that rests has nothing to do.
SocketSpec ==
    /\ SocketInit /\ [][SocketNext]_socketVars
    /\ FeedFairness /\ LiveBoardFairness
=============================================================================
