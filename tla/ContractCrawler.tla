-------------------------- MODULE ContractCrawler --------------------------
(***************************************************************************)
(* The discovery tick (src/src/server/archive/automation/                  *)
(* contract-discovery.ts), which walks through Foundation's lists of       *)
(* contracts, and the crawler tick (contract-crawler.ts), which walks      *)
(* through the works of each contract, page by page of the API or window   *)
(* by window of the chain.  Both run in the ingress cycle of a worker, and *)
(* in two at once after the ingress lock has timed out.                    *)
(*                                                                         *)
(* A crawler is read when it is selected and written when its scan is      *)
(* over, by id; discovery and the seeding of known contracts change its    *)
(* mode in between.                                                        *)
(***************************************************************************)
EXTENDS Integers, Sequences, FiniteSets

CONSTANTS
    Contracts,
    Seeds,          \* KNOWN_CONTRACTS with seedCrawler
    Workers,        \* processes that run ingress cycles
    NoOne,          \* the holder of a free lock
    Batch,          \* DISCOVERY_PAGES_PER_TICK
    Ledgers         \* the worlds to consider, each with its own bounds

Sources == {"drops", "editions", "collections"}

\* The processes that take part; live: FOUNDATION_LIVE_LOOKUPS_ENABLED.
\* listing has the pages of each source; full says of each page of works of a
\* contract whether as many are left as were asked for once those that are not
\* on IPFS are taken out; rank is crawlerTypePriority.
Ledger == [workers : SUBSET Workers, live : BOOLEAN,
           slots : Nat \ {0}, window : Nat \ {0},
           listing : [Sources -> Seq(SUBSET Contracts)],
           full : [Contracts -> Seq(BOOLEAN)], rank : [Contracts -> 0..2],
           blocks : Nat, mishaps : Nat]

ASSUME CrawlerAssumption ==
    /\ Seeds \subseteq Contracts
    /\ Batch \in Nat \ {0}
    /\ NoOne \notin Workers
    /\ Ledgers \in Seq(Ledger)

VARIABLES
    world,      \* the position of the world in Ledgers: it never changes
    crawler,    \* the ContractCrawlerState table
    ran,        \* contracts with a lastRunFinishedAt, the oldest first
    cursor,     \* archivePolicyState: discoverySource and discoveryPage
    head,       \* the latest block of the chain
    found,      \* pages and blocks whose works have been persisted or queued
    lockHolder, \* who holds the ingress lock
    cycle,      \* where each process is, and what it has read
    strikes     \* events counted against the bound

crawlVars == <<world, crawler, ran, cursor, head, found, lockHolder, cycle,
               strikes>>

-----------------------------------------------------------------------------
\* next is nextFromBlock, a page in API mode; due says whether the last run is
\* six hours old.  sound is history: no save of another mode's scan went in.
Crawler == [mode : {"none", "api", "blocks"}, next : Nat, done : BOOLEAN,
            due : BOOLEAN, sound : BOOLEAN]
NewCrawler(mode, from) == [mode |-> mode, next |-> from, done |-> FALSE,
                           due |-> FALSE, sound |-> TRUE]
NoCrawler == NewCrawler("none", 0)

NoScan == [contract |-> NoOne]
Idle == [step |-> "idle", cursor |-> [source |-> "editions", page |-> 0],
         todo |-> <<>>, scan |-> NoScan]

ledger == Ledgers[world]

CrawlInit ==
    /\ world \in DOMAIN Ledgers
    /\ crawler = [c \in Contracts |-> NoCrawler]
    /\ ran = <<>> /\ head = 0 /\ found = {}
    /\ cursor = [source |-> "editions", page |-> 0]
    /\ lockHolder = NoOne /\ cycle = [w \in Workers |-> Idle] /\ strikes = 0

Doing(w, step) == cycle[w].step = step
GoTo(w, step) == cycle' = [cycle EXCEPT ![w].step = step]
Strike == strikes < ledger.mishaps /\ strikes' = strikes + 1
database == <<crawler, ran, cursor>>
outside == <<world, head>>

\* lastRunFinishedAt is set to now, or to null.
Finished(c) == ran' = Append(SelectSeq(ran, LAMBDA d : d # c), c)
Forgotten(S) == ran' = SelectSeq(ran, LAMBDA d : d \notin S)

-----------------------------------------------------------------------------
(* The life of a cycle.                                                    *)

\* ensureAutoCrawlerContracts; the block scan of a seed starts all over when
\* its crawler was in API mode.
EnsureSeeds ==
    LET switching == {c \in Seeds : crawler[c].mode # "blocks"} IN
    /\ crawler' = [c \in Contracts |->
           IF c \in switching THEN NewCrawler("blocks", 1) ELSE crawler[c]]
    /\ Forgotten(switching)

\* Without live lookups the discovery tick returns at once.
StartCycle(w) ==
    /\ w \in ledger.workers /\ Doing(w, "idle") /\ lockHolder = NoOne
    /\ lockHolder' = w
    /\ cycle' = [cycle EXCEPT ![w].step = IF ledger.live THEN "fetch" ELSE "seed",
                            ![w].cursor = cursor]
    /\ IF ledger.live THEN EnsureSeeds ELSE UNCHANGED <<crawler, ran>>
    /\ UNCHANGED <<cursor, found, strikes, outside>>

FinishCycle(w) ==
    /\ Doing(w, "crawl") /\ DOMAIN cycle[w].todo = {}
    /\ cycle' = [cycle EXCEPT ![w] = Idle]
    /\ lockHolder' = IF lockHolder = w THEN NoOne ELSE lockHolder
    /\ UNCHANGED <<database, found, strikes, outside>>

LockExpires(w) ==
    /\ lockHolder = w /\ Strike
    /\ lockHolder' = NoOne
    /\ UNCHANGED <<database, found, cycle, outside>>

\* The process dies, or an error outside of a single scan ends the cycle.
BreakOff(w) ==
    /\ ~Doing(w, "idle") /\ Strike
    /\ cycle' = [cycle EXCEPT ![w] = Idle]
    /\ lockHolder' = IF lockHolder = w THEN NoOne ELSE lockHolder
    /\ UNCHANGED <<database, found, outside>>

-----------------------------------------------------------------------------
(* runAutomaticContractDiscoveryTick.                                      *)

\* Batch pages are fetched at once, and those after the end left out.
Fetched(cur) ==
    LET pages == ledger.listing[cur.source]
        ended(i) == cur.page + i + 1 >= Len(pages)
        kept == {i \in 0..(Batch - 1) : i = 0 \/ ~ended(i - 1)}
    IN [items |-> UNION {pages[cur.page + i + 1] :
                             i \in {i \in kept : cur.page + i < Len(pages)}},
        count |-> Cardinality(kept),
        reachedEnd |-> \E i \in kept : ended(i)]

\* Mutant: the source that has ended is begun again.
SameSourceAgain(cur, reachedEnd, count) ==
    [cur EXCEPT !.page = IF reachedEnd THEN 0 ELSE @ + count]

\* There is one search term, so that every pass goes through the collections
\* once.
nextDiscoveryCursor(cur, reachedEnd, count) ==
    IF reachedEnd
    THEN [source |-> CASE cur.source = "drops" -> "editions"
                       [] cur.source = "editions" -> "collections"
                       [] cur.source = "collections" -> "drops",
          page |-> 0]
    ELSE [cur EXCEPT !.page = @ + count]

FetchPages(w) ==
    /\ Doing(w, "fetch") /\ GoTo(w, "register")
    /\ UNCHANGED <<database, found, lockHolder, strikes, outside>>

\* An entry that fails is skipped.  A contract that is new, or whose crawler
\* was in block mode, is scanned from the first page on.
Register(w) ==
    LET items == Fetched(cycle[w].cursor).items IN
    /\ Doing(w, "register") /\ GoTo(w, "advance")
    /\ \E skipped \in SUBSET items :
           /\ crawler' = [c \in Contracts |->
                  IF c \in items \ skipped /\ crawler[c].mode # "api"
                  THEN NewCrawler("api", 0) ELSE crawler[c]]
           /\ IF skipped = {} THEN UNCHANGED strikes ELSE Strike
    /\ UNCHANGED <<ran, cursor, found, lockHolder, outside>>

\* It moves on from what was read, not from what is there.
persistDiscoveryProgress(w) ==
    LET cur == cycle[w].cursor
        batch == Fetched(cur) IN
    /\ Doing(w, "advance") /\ GoTo(w, "seed")
    /\ cursor' = nextDiscoveryCursor(cur, batch.reachedEnd, batch.count)
    /\ UNCHANGED <<crawler, ran, found, lockHolder, strikes, outside>>

\* One page that cannot be fetched ends the source for this pass.
handleDiscoveryError(w) ==
    /\ cycle[w].step \in {"fetch", "register", "advance"} /\ Strike
    /\ GoTo(w, "seed")
    /\ cursor' = nextDiscoveryCursor(cycle[w].cursor, TRUE, 0)
    /\ UNCHANGED <<crawler, ran, found, lockHolder, outside>>

-----------------------------------------------------------------------------
(* runAutomaticContractCrawlerTick.                                        *)

SeedAgain(w) ==
    /\ Doing(w, "seed") /\ GoTo(w, "select")
    /\ EnsureSeeds
    /\ UNCHANGED <<cursor, found, lockHolder, strikes, outside>>

Position(c) == CHOOSE i \in DOMAIN ran : ran[i] = c
HasRun(c) == \E i \in DOMAIN ran : ran[i] = c
Older(c, d) == HasRun(d) /\ (~HasRun(c) \/ Position(c) < Position(d))
Before(c, d) == \/ ledger.rank[c] < ledger.rank[d]
                \/ ledger.rank[c] = ledger.rank[d] /\ Older(c, d)

\* Choices of n contracts of S that no other contract of S comes before.
Firsts(S, n) == {U \in SUBSET S :
    /\ Cardinality(U) = IF Cardinality(S) < n THEN Cardinality(S) ELSE n
    /\ \A c \in U, d \in S \ U : ~Before(d, c)}

\* One contract that is due again, then unfinished
\* ones, then others that are due, in any order.
Selections ==
    LET open == {c \in Contracts : crawler[c].mode # "none" /\ ~crawler[c].done}
        due == {c \in Contracts : crawler[c].done /\ crawler[c].due}
        firsts == IF due = {} THEN {{}} ELSE {{c} : c \in due}
        rest(n) == IF n < 0 THEN 0 ELSE n
    IN UNION {UNION {{R \cup U \cup V : V \in
           {V \in SUBSET (due \ R) : Cardinality(V) =
               LET left == rest(ledger.slots - Cardinality(R \cup U)) IN
               IF Cardinality(due \ R) < left THEN Cardinality(due \ R) ELSE left}}
              : U \in Firsts(open, ledger.slots - Cardinality(R))} : R \in firsts}

selectCrawlerCandidates(w) ==
    /\ Doing(w, "select")
    /\ \E S \in Selections :
           cycle' = [cycle EXCEPT ![w].step = "crawl",
                                ![w].todo = [c \in S |-> crawler[c]]]
    /\ UNCHANGED <<database, found, lockHolder, strikes, outside>>

Left(w, c) == [d \in DOMAIN cycle[w].todo \ {c} |-> cycle[w].todo[d]]
Scanned(w, c, next, done) ==
    cycle' = [cycle EXCEPT ![w].step = "save", ![w].todo = Left(w, c),
                ![w].scan = [contract |-> c, next |-> next, done |-> done,
                             read |-> cycle[w].todo[c]]]

\* A page that has lost works to filterIpfsWorks is short as well, and pages
\* behind the end are empty.
Short(c, page) == page >= Len(ledger.full[c]) \/ ~ledger.full[c][page + 1]

\* runApiCrawlerForContract up to the update: a page with fewer works than
\* were asked for is taken for the last one.
ScanPage(w, c) ==
    LET read == cycle[w].todo[c]
        page == IF read.done THEN 0 ELSE read.next
        completed == Short(c, page)
    IN /\ read.mode = "api" /\ ledger.live
       /\ found' = found \cup {<<c, "page", page>>}
       /\ Scanned(w, c, IF completed THEN 0 ELSE page + 1, completed)
       /\ UNCHANGED <<database, lockHolder, strikes, outside>>

\* Mutant: the window is not cut at the head of the chain.
RangeEndUncut(from) == from + ledger.window - 1

RangeEnd(from) ==
    IF from + ledger.window - 1 < head THEN from + ledger.window - 1 ELSE head

\* A checkpoint of 0, which a scan of the API may leave behind, is no
\* checkpoint: the scan begins at scanFromBlock.
FirstBlockOf(row) == IF row.next = 0 THEN 1 ELSE row.next

\* runBlockCrawlerForContract up to the update: the scan has no upper bound
\* and never completes.
ScanBlocks(w, c) ==
    LET read == cycle[w].todo[c]
        from == FirstBlockOf(read)
        to == RangeEnd(from)
    IN /\ read.mode = "blocks" /\ from <= head
       /\ found' = found \cup
              {<<c, "block", b>> : b \in {b \in from..to : b <= head}}
       /\ Scanned(w, c, to + 1, FALSE)
       /\ UNCHANGED <<database, lockHolder, strikes, outside>>

\* handleEmptyBlockRange.
ScanNothing(w, c) ==
    /\ cycle[w].todo[c].mode = "blocks" /\ FirstBlockOf(cycle[w].todo[c]) > head
    /\ crawler' = [crawler EXCEPT ![c].done = FALSE, ![c].due = FALSE]
    /\ Finished(c)
    /\ cycle' = [cycle EXCEPT ![w].todo = Left(w, c)]
    /\ UNCHANGED <<cursor, found, lockHolder, strikes, outside>>

\* recordCrawlerFailure: the checkpoint stays where it is.
FailScan(w, c) ==
    /\ Strike
    /\ crawler' = [crawler EXCEPT ![c].due = FALSE]
    /\ Finished(c)
    /\ cycle' = [cycle EXCEPT ![w].todo = Left(w, c)]
    /\ UNCHANGED <<cursor, found, lockHolder, outside>>

\* The update by id, whatever the row has become.
SaveProgress(w) ==
    LET scan == cycle[w].scan
        row == crawler[scan.contract] IN
    /\ Doing(w, "save")
    /\ crawler' = [crawler EXCEPT ![scan.contract] =
           [mode |-> row.mode, next |-> scan.next, done |-> scan.done,
            due |-> FALSE,
            sound |-> scan.read.sound /\ scan.read.mode = row.mode]]
    /\ Finished(scan.contract)
    /\ cycle' = [cycle EXCEPT ![w].step = "crawl", ![w].scan = NoScan]
    /\ UNCHANGED <<cursor, found, lockHolder, strikes, outside>>

\* The contracts of a tick are scanned one after the other, in any order here.
Crawl(w) == Doing(w, "crawl") /\ \E c \in DOMAIN cycle[w].todo :
    ScanPage(w, c) \/ ScanBlocks(w, c) \/ ScanNothing(w, c)

-----------------------------------------------------------------------------
\* Six hours have gone by since the last run.
ComeDue(c) ==
    /\ crawler[c].done /\ ~crawler[c].due
    /\ crawler' = [crawler EXCEPT ![c].due = TRUE]
    /\ UNCHANGED <<world, ran, cursor, head, found, lockHolder, cycle, strikes>>

MineBlock ==
    /\ head < ledger.blocks /\ head' = head + 1
    /\ UNCHANGED <<world, database, found, lockHolder, cycle, strikes>>

CrawlStep(w) ==
    \/ FetchPages(w) \/ Register(w) \/ persistDiscoveryProgress(w) \/ SeedAgain(w)
    \/ selectCrawlerCandidates(w) \/ Crawl(w) \/ SaveProgress(w) \/ FinishCycle(w)

CrawlNext ==
    \/ \E w \in Workers :
           \/ StartCycle(w) \/ CrawlStep(w)
           \/ LockExpires(w) \/ BreakOff(w) \/ handleDiscoveryError(w)
           \/ Doing(w, "crawl") /\ \E c \in DOMAIN cycle[w].todo : FailScan(w, c)
    \/ \E c \in Contracts : ComeDue(c)
    \/ MineBlock

CrawlSpec == CrawlInit /\ [][CrawlNext]_crawlVars

\* A cycle that has begun goes on, and worker cycles never stop coming.
CrawlFairness ==
    /\ \A w \in Workers : WF_crawlVars(CrawlStep(w))
    /\ WF_crawlVars(\E w \in Workers : StartCycle(w))

-----------------------------------------------------------------------------
\* The pages up to the first short one: no scan goes behind it.
PagesInReach(c) == {n \in 0..Len(ledger.full[c]) : \A m \in 0..(n - 1) : ~Short(c, m)}

Covers(c, row) ==
    /\ row.mode = "blocks" =>
           \A b \in 1..(row.next - 1) : <<c, "block", b>> \in found
    /\ row.mode = "api" =>
           \A n \in IF row.done THEN PagesInReach(c) ELSE 0..(row.next - 1) :
               <<c, "page", n>> \in found

\* Safety of the checkpoints (persistBlockScanResult, the update of
\* runApiCrawlerForContract): whatever failed, timed out, overlapped or was
\* reset, everything before the checkpoint of a crawler has been scanned, and a
\* completed one has been scanned up to the first page that came back short,
\* unless a scan of one mode was saved into the row of the other.
CheckpointsAreTrue ==
    \A c \in Contracts : crawler[c].sound => Covers(c, crawler[c])

Listed == {c \in Contracts : \E s \in Sources :
               \E i \in DOMAIN ledger.listing[s] : c \in ledger.listing[s][i]}

\* A seed that is listed too goes back to its first block whenever discovery
\* comes by, so that only its first window is certain to be scanned.
BlocksInReach(c) ==
    {b \in 1..head : ledger.live /\ c \in Listed => b <= ledger.window}

WorksInReach ==
    UNION {{<<c, "block", b>> : b \in BlocksInReach(c)} : c \in Seeds} \cup
    UNION {{<<c, "page", n>> : n \in PagesInReach(c)} :
               c \in IF ledger.live THEN Listed \ Seeds ELSE {}}

\* Liveness of discovery and crawling: with more slots than one and contracts
\* of one rank, every page of a listed contract up to the first short one,
\* every block of a seed that no list names and the first window of one that is
\* listed are scanned in the end, although contracts that are due again and a
\* seed that never completes compete for the slots.
WorksInReachAreFound == []<>(WorksInReach \subseteq found)
=============================================================================
