----------------------------- MODULE MCIngress -----------------------------
(***************************************************************************)
(* Instances for TLC of what workers do, in three parts: the cycle of the  *)
(* workers (WorkerCycle), discovery and the crawler, which run inside the  *)
(* ingress cycle (ContractCrawler), and the ingest of a work they find     *)
(* (ArtworkIngest).  They share no state, so every behaviour is about one  *)
(* of them while the others rest.                                          *)
(***************************************************************************)
EXTENDS WorkerCycle, ContractCrawler, ArtworkIngest

CONSTANTS d1, d2, p1, p2, j1, j2, w1, w2, x, y, s

-----------------------------------------------------------------------------
(* Two worker daemons, one with or without a browser, and one or two        *)
(* browsers; with or without a death and a fault; with a job that a user    *)
(* has asked for, an automatic one, or two of them.                         *)

ACast(procs, asked, automatic, deaths, faults) ==
    [procs |-> procs, asked |-> asked, automatic |-> automatic,
     deaths |-> deaths, faults |-> faults]

QuietCast == ACast({}, {}, {}, 0, 0)
MCCasts == {QuietCast,
            ACast({d1, d2}, {j1}, {}, 0, 0),
            ACast({d1, p1}, {j1}, {}, 1, 0),
            ACast({d1}, {}, {j1}, 1, 1),
            ACast({p1}, {j1}, {j2}, 1, 1),
            ACast({p1}, {j1, j2}, {}, 0, 0),
            ACast({p1, p2}, {j1}, {}, 0, 1)}

-----------------------------------------------------------------------------
(* Contracts that are listed and crawled.                                   *)

Lists(editions, collections) ==
    [drops |-> <<>>, editions |-> editions, collections |-> collections]

\* Of the three pages of x the second has a work that is not on IPFS, so that
\* the third is out of reach; y is on the second page of its list.
Usual == [workers |-> {w1}, live |-> TRUE, slots |-> 2, window |-> 2,
          listing |-> Lists(<<{x}>>, <<{}, {y}>>),
          full |-> [c \in Contracts |->
                       IF c = x THEN <<TRUE, FALSE, TRUE>> ELSE <<FALSE>>],
          rank |-> [c \in Contracts |-> 0], blocks |-> 2, mishaps |-> 1]

\* A seed that discovery finds as well changes its mode for ever.  A pass of
\* discovery takes three ticks here, so that the fourth block is never scanned.
ListedSeed == [Usual EXCEPT !.window = 1, !.listing = Lists(<<>>, <<{s}>>),
                            !.full = [c \in Contracts |-> <<TRUE>>],
                            !.blocks = 4, !.mishaps = 0]
NoLookups == [Usual EXCEPT !.workers = Workers, !.live = FALSE,
                           !.blocks = 3, !.mishaps = 2]
Quiet == [Usual EXCEPT !.workers = {}, !.live = FALSE, !.blocks = 0,
                       !.mishaps = 0]
MCLedgers == <<Quiet, Usual, ListedSeed, NoLookups>>

-----------------------------------------------------------------------------
(* A work that discovery finds with one or both roots, while the ingest of  *)
(* its token or page, or a request for it, overlaps or fails.               *)

ACatalogue(discovered, token, page, legacy, tokens, pages, requests, n) ==
    [names |-> [p \in Paths |-> CASE p = "discovery" -> discovered
                                  [] p = "token" -> token [] p = "page" -> page],
     live |-> TRUE, legacy |-> legacy,
     runs |-> [q \in Requestable |-> CASE q = "token" -> tokens
                                       [] q = "page" -> pages [] OTHER -> requests],
     mishaps |-> n]
Media == {"media"}
NoCatalogue == [ACatalogue({}, {}, {}, FALSE, 0, 0, 0, 0) EXCEPT !.live = FALSE]
MCCatalogues ==
    {NoCatalogue,
     ACatalogue(Media, Media, {}, TRUE, 1, 0, 0, 1),
     ACatalogue(Media, {}, Media, TRUE, 0, 1, 0, 0),
     ACatalogue(Kinds, Media, {}, FALSE, 1, 0, 0, 0),
     ACatalogue(Media, Media, {}, FALSE, 0, 0, 1, 0)}

-----------------------------------------------------------------------------
VARIABLE part   \* which of the three the behaviour is about

IngressInit ==
    /\ part \in {"cycle", "crawl", "ingest"}
    /\ CycleInit /\ (cast = QuietCast <=> part # "cycle")
    /\ CrawlInit /\ (ledger = Quiet <=> part # "crawl")
    /\ IngestInit /\ (catalogue = NoCatalogue <=> part # "ingest")

IngressNext ==
    /\ UNCHANGED part
    /\ \/ part = "cycle" /\ CycleNext /\ UNCHANGED <<crawlVars, ingestVars>>
       \/ part = "crawl" /\ CrawlNext /\ UNCHANGED <<cycleVars, ingestVars>>
       \/ part = "ingest" /\ IngestNext /\ UNCHANGED <<cycleVars, crawlVars>>

\* A part that rests has nothing to do.
IngressSpec ==
    /\ IngressInit /\ [][IngressNext]_<<cycleVars, crawlVars, ingestVars, part>>
    /\ CycleFairness /\ CrawlFairness /\ IngestFairness
=============================================================================
