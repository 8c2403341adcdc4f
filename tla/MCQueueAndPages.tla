--------------------------- MODULE MCQueueAndPages ---------------------------
(***************************************************************************)
(* Instances for TLC, in three parts: callers and workers that race for a  *)
(* job of the backup queue (ArchiveQueue), the queue with its rebalancer   *)
(* (QueueRebalancer), and the pages that readers scroll through while the  *)
(* works are saved (ArchiveBrowsing).  Queue and pages share no state, so  *)
(* every behaviour is about one of them while the other rests.             *)
(***************************************************************************)
EXTENDS QueueRebalancer, ArchiveBrowsing, TLC

\* Keys, workers and clients are never compared but for equality.
Symmetry ==
    Permutations(Keys) \cup Permutations(Workers) \cup Permutations(Clients \ Rebalancers)

-----------------------------------------------------------------------------
(* Up to three works: with equal times or titles, saved, lost or losing a   *)
(* root while the reader scrolls, with failing requests and a new filter.   *)

AReading(kind, sort, filters, rows, titles, becomes, writes, moves, mishaps) ==
    [kind |-> kind, sort |-> sort, filters |-> filters, rows |-> rows,
     titles |-> titles, becomes |-> becomes, writes |-> writes, moves |-> moves,
     mishaps |-> mishaps]
Saved == <<Linked("PINNED"), Linked("PINNED")>>
Rootless == <<Unlinked, Unlinked>>
NoReading == AReading("none", "newest", {"all"}, <<1>>, <<1>>, {Saved}, 0, 0, 0)
MCReadings ==
    {NoReading,
     AReading("archive", "newest", {"all"}, <<1, 1, 2>>, <<1, 1, 1>>, {Saved}, 1, 0, 2),
     AReading("archive", "oldest", {"pending", "preserved"},
              <<1, 1, 1>>, <<1, 1, 1>>, {Saved}, 2, 1, 1),
     AReading("archive", "title", {"pending"}, <<1, 2, 3>>, <<1, 2, 1>>, {Saved}, 1, 0, 1),
     AReading("profile", "newest", {"saved", "syncing"},
              <<1, 1, 1>>, <<1, 1, 1>>, {Saved}, 1, 1, 1),
     AReading("profile", "newest", {"all"},
              <<1, 1, 2>>, <<1, 1, 1>>, {Saved, Rootless}, 2, 1, 1),
     AReading("archive", "newest", {"all"}, <<1>>, <<1>>, Halves, 1, 0, 0)}

-----------------------------------------------------------------------------
VARIABLE part   \* which of the three the behaviour is about

\* Bound: callers and workers race for one artwork, without a rebalance.
OneArtwork ==
    Cardinality({k \in Keys : \/ row[k] # NoRow
                              \/ \E c \in Clients : \E q \in call[c] : q.key = k}) <= 1

\* Bound: beside a rebalance there is one caller and one worker, which does not
\* stall and does not try a job again.
OneOfEach ==
    /\ spent.stalls = 0 /\ \A k \in Keys : row[k].status = "PENDING" => row[k].attempts = 0
    /\ Cardinality({c \in Clients \ Rebalancers : call[c] # {}}) <= 1
    /\ Cardinality({w \in Workers : pc[w] # "up" \/ Busy(w)}) <= 1

PartsInit ==
    /\ part \in {"races", "queue", "pages"}
    /\ RInit
    /\ BrowsingInit /\ (reading = NoReading <=> part # "pages")

PartsNext ==
    /\ UNCHANGED part
    /\ \/ part = "races" /\ QueueStep /\ OneArtwork' /\ UNCHANGED <<plan, browsingVars>>
       \/ part = "queue" /\ RNext /\ OneOfEach' /\ UNCHANGED browsingVars
       \/ part = "pages" /\ BrowsingNext /\ UNCHANGED rvars

PartsSpec == PartsInit /\ [][PartsNext]_<<rvars, browsingVars, part>>
=============================================================================
