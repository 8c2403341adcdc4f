----------------------- MODULE ContractCrawlerProofs -----------------------
(***************************************************************************)
(* Everything before a checkpoint has been scanned, for any number of      *)
(* contracts, workers, pages and blocks.                                   *)
(*                                                                         *)
(* A checkpoint is read when its crawler is selected and written when the  *)
(* scan is over, so the claim has to hold of the copies that the ticks     *)
(* carry along as well: what a tick has read, and what it is about to      *)
(* save.  Nothing that has been found is ever lost, so a copy stays good   *)
(* however old it gets.                                                    *)
(***************************************************************************)
EXTENDS ContractCrawler, FiniteSetTheorems, TLAPS

Cursor == [source : Sources, page : Nat]
Todo == UNION {[S -> Crawler] : S \in SUBSET Contracts}
Scan == [contract : Contracts, next : Nat, done : BOOLEAN, read : Crawler]
Steps == {"idle", "fetch", "register", "advance", "seed", "select", "crawl", "save"}
Tick == [step : Steps, cursor : Cursor, todo : Todo, scan : {NoScan} \cup Scan]

CrawlTypes ==
    /\ world \in DOMAIN Ledgers /\ head \in Nat
    /\ crawler \in [Contracts -> Crawler]
    /\ cursor \in Cursor
    /\ cycle \in [Workers -> Tick]

\* A completed crawler has its checkpoint at 0.
GoodRow(c, row) == /\ row.done => row.next = 0
                   /\ row.sound => Covers(c, row)

\* The row that a tick is about to write over one of the mode it has read.
Saved(scan) == [mode |-> scan.read.mode, next |-> scan.next, done |-> scan.done,
                due |-> FALSE, sound |-> scan.read.sound]

GoodTick(tick) ==
    /\ \A c \in DOMAIN tick.todo : GoodRow(c, tick.todo[c])
    /\ tick.step = "save" => /\ tick.scan \in Scan
                             /\ GoodRow(tick.scan.contract, Saved(tick.scan))

CrawlInv ==
    /\ CrawlTypes
    /\ \A c \in Contracts : GoodRow(c, crawler[c])
    /\ \A w \in Workers : GoodTick(cycle[w])

-----------------------------------------------------------------------------
LEMMA LedgerType ==
    ASSUME CrawlTypes
    PROVE  /\ \A c \in Contracts : ledger.full[c] \in Seq(BOOLEAN)
           /\ ledger.window \in Nat \ {0}
<1>1. ledger \in Ledger
  BY CrawlerAssumption DEF CrawlTypes, ledger
<1> QED BY <1>1 DEF Ledger

LEMMA TodoType ==
    ASSUME NEW todo \in Todo
    PROVE  /\ DOMAIN todo \subseteq Contracts
           /\ \A c \in DOMAIN todo : todo[c] \in Crawler
           /\ \A c : [d \in DOMAIN todo \ {c} |-> todo[d]] \in Todo
<1>1. PICK S \in SUBSET Contracts : todo \in [S -> Crawler]
  BY DEF Todo
<1>2. ASSUME NEW c PROVE [d \in DOMAIN todo \ {c} |-> todo[d]] \in [S \ {c} -> Crawler]
  BY <1>1
<1> QED BY <1>1, <1>2 DEF Todo

\* Nothing that was found is lost.
LEMMA StillGood ==
    ASSUME NEW c, NEW row, GoodRow(c, row), UNCHANGED world, found \subseteq found'
    PROVE  GoodRow(c, row)'
BY DEF GoodRow, Covers, PagesInReach, Short, ledger

LEMMA TickStillGood ==
    ASSUME NEW tick, GoodTick(tick), UNCHANGED world, found \subseteq found'
    PROVE  GoodTick(tick)'
<1>1. \A c, row : GoodRow(c, row) => GoodRow(c, row)'
  BY StillGood
<1> QED BY <1>1 DEF GoodTick

LEMMA FreshType ==
    ASSUME NEW mode \in {"none", "api", "blocks"}, NEW from \in Nat
    PROVE  NewCrawler(mode, from) \in Crawler
BY DEF NewCrawler, Crawler

LEMMA FreshIsGood ==
    ASSUME NEW c, NEW mode \in {"none", "api", "blocks"}, NEW from \in {0, 1},
           mode = "api" => from = 0
    PROVE  GoodRow(c, NewCrawler(mode, from))
BY DEF GoodRow, Covers, NewCrawler

\* A row whose due or done is reset; a completed one begins anew.
LEMMA ResetIsGood ==
    ASSUME NEW c, NEW row \in Crawler, GoodRow(c, row)
    PROVE  /\ \A b \in BOOLEAN : /\ GoodRow(c, [row EXCEPT !.due = b])
                                 /\ [row EXCEPT !.due = b] \in Crawler
           /\ GoodRow(c, [row EXCEPT !.done = FALSE, !.due = FALSE])
           /\ [row EXCEPT !.done = FALSE, !.due = FALSE] \in Crawler
<1>1. ASSUME NEW b \in BOOLEAN
      PROVE  GoodRow(c, [row EXCEPT !.due = b]) /\ [row EXCEPT !.due = b] \in Crawler
  BY DEF GoodRow, Crawler, Covers
<1> DEFINE reset(b, d) == [[row EXCEPT !.done = b] EXCEPT !.due = d]
<1>2. ASSUME NEW b \in BOOLEAN, NEW d \in BOOLEAN, ~b
      PROVE  GoodRow(c, reset(b, d)) /\ reset(b, d) \in Crawler
  <2>1. [row EXCEPT !.done = b] \in Crawler
    BY DEF Crawler
  <2>2. reset(b, d) \in Crawler
    BY <2>1 DEF Crawler
  <2>3. /\ ~reset(b, d).done /\ reset(b, d).sound = row.sound
        /\ reset(b, d).mode = row.mode /\ reset(b, d).next = row.next
    BY <1>2 DEF Crawler
  <2>4. row.next \in Nat
    BY DEF Crawler
  <2> HIDE DEF reset
  <2>5. CASE row.done
    BY <2>2, <2>3, <2>5 DEF GoodRow, Covers
  <2>6. CASE ~row.done
    BY <2>2, <2>3, <2>6 DEF GoodRow, Covers
  <2> QED BY <2>5, <2>6
<1>3. GoodRow(c, reset(FALSE, FALSE)) /\ reset(FALSE, FALSE) \in Crawler
  BY <1>2, Zenon
<1>4. reset(FALSE, FALSE) = [row EXCEPT !.done = FALSE, !.due = FALSE]
  OBVIOUS
<1> QED BY <1>1, <1>3, <1>4, Zenon

LEMMA InitHolds == CrawlInit => CrawlInv
<1> SUFFICES ASSUME CrawlInit PROVE CrawlInv
  OBVIOUS
<1>1. NoCrawler \in Crawler /\ \A c \in Contracts : GoodRow(c, NoCrawler)
  BY FreshType, FreshIsGood DEF NoCrawler
<1>2. Idle \in Tick /\ DOMAIN Idle.todo = {} /\ Idle.step = "idle"
  <2>1. <<>> \in Todo
    BY DEF Todo
  <2> QED BY <2>1 DEF Idle, Tick, Steps, Cursor, Sources
<1>3. CrawlTypes
  BY <1>1, <1>2 DEF CrawlInit, CrawlTypes, Cursor, Sources
<1>4. \A w \in Workers : GoodTick(cycle[w])
  BY <1>2 DEF CrawlInit, GoodTick
<1> QED BY <1>1, <1>3, <1>4 DEF CrawlInit, CrawlInv

-----------------------------------------------------------------------------
\* What the steps of a worker have in common: it moves its own tick and
\* leaves rows that were there or that are good.
LEMMA StepOf ==
    ASSUME CrawlInv, NEW w \in Workers, NEW tick \in Tick,
           cycle' = [cycle EXCEPT ![w] = tick], GoodTick(cycle[w])',
           UNCHANGED <<world, head>>, found \subseteq found', cursor' \in Cursor,
           crawler' \in [Contracts -> Crawler],
           \A c \in Contracts : crawler'[c] = crawler[c] \/ GoodRow(c, crawler[c])'
    PROVE  CrawlInv'
<1>1. CrawlTypes'
  BY DEF CrawlInv, CrawlTypes
<1>2. ASSUME NEW c \in Contracts, crawler'[c] = crawler[c] PROVE GoodRow(c, crawler[c])'
  BY <1>2, StillGood DEF CrawlInv
<1>3. ASSUME NEW v \in Workers PROVE GoodTick(cycle[v])'
  <2>1. CASE v = w
    BY <2>1
  <2>2. CASE v # w
    <3>1. cycle'[v] = cycle[v] /\ GoodTick(cycle[v])
      BY <2>2 DEF CrawlInv, CrawlTypes
    <3> QED BY <3>1, TickStillGood
  <2> QED BY <2>1, <2>2
<1> QED BY <1>1, <1>2, <1>3 DEF CrawlInv

\* The steps of a cycle that scan and save nothing.
LEMMA WalkStep ==
    ASSUME CrawlInv, NEW w \in Workers, NEW to \in Steps \ {"save"},
           cycle' = [cycle EXCEPT ![w].step = to],
           UNCHANGED <<world, head>>, found \subseteq found', cursor' \in Cursor,
           crawler' \in [Contracts -> Crawler],
           \A c \in Contracts : crawler'[c] = crawler[c] \/ GoodRow(c, crawler[c])'
    PROVE  CrawlInv'
<1> DEFINE tick == [cycle[w] EXCEPT !.step = to]
<1>1. cycle[w] \in Tick /\ GoodTick(cycle[w])
  BY DEF CrawlInv, CrawlTypes
<1>2. tick \in Tick /\ tick.todo = cycle[w].todo /\ tick.step # "save"
  BY <1>1 DEF Tick
<1>3. cycle' = [cycle EXCEPT ![w] = tick]
  OBVIOUS
<1> HIDE DEF tick
<1>4. GoodTick(tick)
  BY <1>1, <1>2 DEF GoodTick
<1>5. cycle'[w] = tick
  BY <1>3 DEF CrawlInv, CrawlTypes
<1>6. GoodTick(cycle[w])'
  BY <1>4, <1>5, TickStillGood
<1> QED BY <1>2, <1>3, <1>6, StepOf

-----------------------------------------------------------------------------
LEMMA TickFields ==
    ASSUME NEW t \in Tick, NEW step \in Steps, NEW cur \in Cursor, NEW todo \in Todo,
           NEW scan \in {NoScan} \cup Scan
    PROVE  /\ [t EXCEPT !.step = step, !.cursor = cur] \in Tick
           /\ [t EXCEPT !.step = step, !.todo = todo] \in Tick
           /\ [t EXCEPT !.step = step, !.scan = scan] \in Tick
           /\ [t EXCEPT !.todo = todo] \in Tick
           /\ [t EXCEPT !.step = step, !.todo = todo, !.scan = scan] \in Tick
<1>1. \A q \in Tick : /\ [q EXCEPT !.step = step] \in Tick
                      /\ [q EXCEPT !.cursor = cur] \in Tick
                      /\ [q EXCEPT !.todo = todo] \in Tick
                      /\ [q EXCEPT !.scan = scan] \in Tick
  BY DEF Tick
<1>2. /\ [t EXCEPT !.step = step, !.cursor = cur] = [[t EXCEPT !.step = step] EXCEPT !.cursor = cur]
      /\ [t EXCEPT !.step = step, !.todo = todo] = [[t EXCEPT !.step = step] EXCEPT !.todo = todo]
      /\ [t EXCEPT !.step = step, !.scan = scan] = [[t EXCEPT !.step = step] EXCEPT !.scan = scan]
      /\ [t EXCEPT !.step = step, !.todo = todo, !.scan = scan]
           = [[[t EXCEPT !.step = step] EXCEPT !.todo = todo] EXCEPT !.scan = scan]
  OBVIOUS
<1> QED BY <1>1, <1>2

LEMMA SeedsStep ==
    ASSUME CrawlInv, EnsureSeeds, UNCHANGED world, found \subseteq found'
    PROVE  /\ crawler' \in [Contracts -> Crawler]
           /\ \A c \in Contracts : crawler'[c] = crawler[c] \/ GoodRow(c, crawler[c])'
<1>1. crawler' = [c \in Contracts |->
         IF c \in {d \in Seeds : crawler[d].mode # "blocks"}
         THEN NewCrawler("blocks", 1) ELSE crawler[c]]
  BY DEF EnsureSeeds
<1>2. /\ \A c \in Contracts : GoodRow(c, NewCrawler("blocks", 1))
      /\ NewCrawler("blocks", 1) \in Crawler
  BY FreshIsGood, FreshType
<1>3. \A c \in Contracts : GoodRow(c, NewCrawler("blocks", 1))'
  BY <1>2, StillGood
<1>4. crawler' \in [Contracts -> Crawler]
  BY <1>1, <1>2 DEF CrawlInv, CrawlTypes
<1>5. ASSUME NEW c \in Contracts PROVE crawler'[c] = crawler[c] \/ GoodRow(c, crawler[c])'
  <2>1. CASE crawler'[c] = NewCrawler("blocks", 1)
    BY <1>3, <2>1
  <2> QED BY <1>1, <2>1
<1> QED BY <1>4, <1>5

LEMMA StartStep ==
    ASSUME CrawlInv, NEW w \in Workers, StartCycle(w)
    PROVE  CrawlInv'
<1> DEFINE to == IF ledger.live THEN "fetch" ELSE "seed"
           tick == [cycle[w] EXCEPT !.step = to, !.cursor = cursor]
<1>1. to \in Steps /\ to # "save"
  BY DEF Steps
<1>2. cycle[w] \in Tick /\ GoodTick(cycle[w]) /\ cursor \in Cursor
  BY DEF CrawlInv, CrawlTypes
<1>3. cycle' = [cycle EXCEPT ![w].step = to, ![w].cursor = cursor]
      /\ UNCHANGED <<world, head, found, cursor>>
  BY DEF StartCycle, outside
<1> HIDE DEF to
<1>5. tick \in Tick
  <2>1. cycle[w].todo \in Todo /\ NoScan \in {NoScan} \cup Scan
    BY <1>2 DEF Tick
  <2> QED BY <1>1, <1>2, <2>1, TickFields
<1>6. tick.todo = cycle[w].todo /\ tick.step = to
  BY <1>2 DEF Tick
<1>7. cycle' = [cycle EXCEPT ![w] = tick]
  BY <1>2, <1>3 DEF CrawlInv, CrawlTypes, Tick
<1> HIDE DEF tick
<1>8. cycle'[w] = tick
  BY <1>7 DEF CrawlInv, CrawlTypes
<1>9. GoodTick(tick)
  BY <1>1, <1>2, <1>6 DEF GoodTick
<1>10. GoodTick(cycle[w])'
  BY <1>3, <1>8, <1>9, TickStillGood
<1>11. /\ crawler' \in [Contracts -> Crawler]
       /\ \A c \in Contracts : crawler'[c] = crawler[c] \/ GoodRow(c, crawler[c])'
  <2>1. CASE ledger.live
    BY <1>3, <2>1, SeedsStep DEF StartCycle
  <2>2. CASE ~ledger.live
    BY <2>2 DEF StartCycle, CrawlInv, CrawlTypes
  <2> QED BY <2>1, <2>2
<1> QED BY <1>2, <1>3, <1>5, <1>7, <1>10, <1>11, StepOf

LEMMA IdleStep ==
    ASSUME CrawlInv, NEW w \in Workers, FinishCycle(w) \/ BreakOff(w)
    PROVE  CrawlInv'
<1>1. cycle' = [cycle EXCEPT ![w] = Idle] /\ UNCHANGED <<world, head, found, crawler, cursor>>
  BY DEF FinishCycle, BreakOff, outside, database
<1>2. cycle'[w] = Idle
  BY <1>1 DEF CrawlInv, CrawlTypes
<1>3. Idle \in Tick /\ DOMAIN Idle.todo = {} /\ Idle.step = "idle"
  <2>1. <<>> \in Todo
    BY DEF Todo
  <2> QED BY <2>1 DEF Idle, Tick, Steps, Cursor, Sources
<1>4. GoodTick(cycle[w])'
  BY <1>2, <1>3 DEF GoodTick
<1>5. crawler' \in [Contracts -> Crawler] /\ cursor' \in Cursor
  BY <1>1 DEF CrawlInv, CrawlTypes
<1> QED BY <1>1, <1>3, <1>4, <1>5, StepOf

LEMMA RegisterStep ==
    ASSUME CrawlInv, NEW w \in Workers, Register(w)
    PROVE  CrawlInv'
<1>1. /\ cycle' = [cycle EXCEPT ![w].step = "advance"]
      /\ UNCHANGED <<world, head, found, cursor>>
  BY DEF Register, GoTo, outside
<1>2. PICK kept : crawler' = [c \in Contracts |->
          IF c \in kept /\ crawler[c].mode # "api" THEN NewCrawler("api", 0)
          ELSE crawler[c]]
  BY DEF Register
<1>3. /\ \A c \in Contracts : GoodRow(c, NewCrawler("api", 0))
      /\ NewCrawler("api", 0) \in Crawler
  BY FreshIsGood, FreshType
<1>4. \A c \in Contracts : GoodRow(c, NewCrawler("api", 0))'
  BY <1>1, <1>3, StillGood
<1>5. crawler' \in [Contracts -> Crawler] /\ cursor' \in Cursor
  BY <1>1, <1>2, <1>3 DEF CrawlInv, CrawlTypes
<1>6. ASSUME NEW c \in Contracts PROVE crawler'[c] = crawler[c] \/ GoodRow(c, crawler[c])'
  <2>1. CASE crawler'[c] = NewCrawler("api", 0)
    BY <1>4, <2>1
  <2> QED BY <1>2, <2>1
<1> QED BY <1>1, <1>5, <1>6, WalkStep DEF Steps

LEMMA NextCursorType ==
    ASSUME NEW cur \in Cursor, NEW reachedEnd, NEW count \in Nat
    PROVE  nextDiscoveryCursor(cur, reachedEnd, count) \in Cursor
BY DEF nextDiscoveryCursor, Cursor, Sources

LEMMA FetchedCount ==
    ASSUME NEW cur PROVE Fetched(cur).count \in Nat
<1> DEFINE kept == {i \in 0..(Batch - 1) : i = 0 \/ ~(cur.page + (i - 1) + 1
                      >= Len(ledger.listing[cur.source]))}
<1>1. kept \subseteq 0..(Batch - 1) /\ IsFiniteSet(0..(Batch - 1))
  BY CrawlerAssumption, FS_Interval
<1>2. Cardinality(kept) \in Nat
  BY <1>1, FS_Subset, FS_CardinalityType
<1>3. Fetched(cur).count = Cardinality(kept)
  BY DEF Fetched
<1> QED BY <1>2, <1>3

LEMMA DiscoveryStep ==
    ASSUME CrawlInv, NEW w \in Workers,
           FetchPages(w) \/ persistDiscoveryProgress(w) \/ handleDiscoveryError(w)
    PROVE  CrawlInv'
<1>1. /\ UNCHANGED <<world, head, found, crawler>>
      /\ \/ cycle' = [cycle EXCEPT ![w].step = "register"]
         \/ cycle' = [cycle EXCEPT ![w].step = "seed"]
  BY DEF FetchPages, persistDiscoveryProgress, handleDiscoveryError, GoTo, outside, database
<1>2. crawler' \in [Contracts -> Crawler] /\ cursor \in Cursor /\ cycle[w].cursor \in Cursor
  BY <1>1 DEF CrawlInv, CrawlTypes, Tick
<1>3. cursor' \in Cursor
  <2>1. CASE FetchPages(w)
    BY <1>2, <2>1 DEF FetchPages, database
  <2>2. CASE persistDiscoveryProgress(w)
    BY <1>2, <2>2, NextCursorType, FetchedCount DEF persistDiscoveryProgress
  <2>3. CASE handleDiscoveryError(w)
    BY <1>2, <2>3, NextCursorType DEF handleDiscoveryError
  <2> QED BY <2>1, <2>2, <2>3
<1> QED BY <1>1, <1>2, <1>3, WalkStep DEF Steps

LEMMA SeedAgainStep ==
    ASSUME CrawlInv, NEW w \in Workers, SeedAgain(w)
    PROVE  CrawlInv'
<1>1. /\ cycle' = [cycle EXCEPT ![w].step = "select"]
      /\ UNCHANGED <<world, head, found, cursor>> /\ EnsureSeeds
  BY DEF SeedAgain, GoTo, outside
<1>2. cursor' \in Cursor
  BY <1>1 DEF CrawlInv, CrawlTypes
<1> QED BY <1>1, <1>2, SeedsStep, WalkStep DEF Steps

LEMMA OnlyContracts == \A S \in Selections : S \subseteq Contracts
<1> DEFINE open == {c \in Contracts : crawler[c].mode # "none" /\ ~crawler[c].done}
           due == {c \in Contracts : crawler[c].done /\ crawler[c].due}
           firsts == IF due = {} THEN {{}} ELSE {{c} : c \in due}
           rest(n) == IF n < 0 THEN 0 ELSE n
           size(R, U) == LET left == rest(ledger.slots - Cardinality(R \cup U)) IN
               IF Cardinality(due \ R) < left THEN Cardinality(due \ R) ELSE left
           with(R, U) == {R \cup U \cup V :
                             V \in {V \in SUBSET (due \ R) : Cardinality(V) = size(R, U)}}
           from(R) == UNION {with(R, U) : U \in Firsts(open, ledger.slots - Cardinality(R))}
<1>1. ASSUME NEW S \in Selections PROVE S \subseteq Contracts
  <2>1. PICK R \in firsts : \E n : \E U \in Firsts(open, n) : \E V \in SUBSET due :
            S = R \cup U \cup V
    <3>1. Selections = UNION {from(R) : R \in firsts}
      BY Zenon DEF Selections
    <3> HIDE DEF from, firsts
    <3>2. PICK R \in firsts : S \in from(R)
      BY <1>1, <3>1
    <3> HIDE DEF with
    <3>3. PICK U \in Firsts(open, ledger.slots - Cardinality(R)) : S \in with(R, U)
      BY <3>2 DEF from
    <3> HIDE DEF size
    <3>4. PICK V \in SUBSET (due \ R) : S = R \cup U \cup V
      BY <3>3 DEF with
    <3> QED BY <3>2, <3>3, <3>4
  <2>2. R \subseteq Contracts
    BY <2>1
  <2>3. \A n : \A U \in Firsts(open, n) : U \subseteq Contracts
    BY DEF Firsts
  <2> QED BY <2>1, <2>2, <2>3
<1> QED BY <1>1

LEMMA SelectStep ==
    ASSUME CrawlInv, NEW w \in Workers, selectCrawlerCandidates(w)
    PROVE  CrawlInv'
<1>1. PICK S \in Selections :
        cycle' = [cycle EXCEPT ![w].step = "crawl", ![w].todo = [c \in S |-> crawler[c]]]
  BY DEF selectCrawlerCandidates
<1> DEFINE todo == [c \in S |-> crawler[c]]
           tick == [cycle[w] EXCEPT !.step = "crawl", !.todo = todo]
<1>2. S \subseteq Contracts
  BY OnlyContracts
<1>3. UNCHANGED <<world, head, found, crawler, cursor>>
  BY DEF selectCrawlerCandidates, outside, database
<1>4. crawler \in [Contracts -> Crawler] /\ cycle[w] \in Tick /\ cursor' \in Cursor
  BY <1>3 DEF CrawlInv, CrawlTypes
<1>5. todo \in Todo /\ DOMAIN todo = S /\ \A c \in S : todo[c] = crawler[c]
  BY <1>2, <1>4 DEF Todo
<1> HIDE DEF todo
<1>6. tick \in Tick
  <2>1. cycle[w].cursor \in Cursor /\ NoScan \in {NoScan} \cup Scan /\ "crawl" \in Steps
    BY <1>4 DEF Tick, Steps
  <2> QED BY <1>4, <1>5, <2>1, TickFields
<1>7. tick.todo = todo /\ tick.step = "crawl"
  BY <1>4 DEF Tick
<1>8. cycle' = [cycle EXCEPT ![w] = tick]
  BY <1>1, <1>4 DEF CrawlInv, CrawlTypes, Tick, todo
<1> HIDE DEF tick
<1>9. cycle'[w] = tick
  BY <1>8 DEF CrawlInv, CrawlTypes
<1>10. GoodTick(tick)
  BY <1>2, <1>5, <1>7 DEF GoodTick, CrawlInv
<1>11. GoodTick(cycle[w])'
  BY <1>3, <1>9, <1>10, TickStillGood
<1> QED BY <1>3, <1>4, <1>6, <1>8, <1>11, StepOf

-----------------------------------------------------------------------------
\* A scan that ends with a row that is good beside what has been found.
LEMMA ScannedStep ==
    ASSUME CrawlInv, NEW w \in Workers, NEW c \in DOMAIN cycle[w].todo,
           NEW next \in Nat, NEW done \in BOOLEAN, Scanned(w, c, next, done),
           UNCHANGED <<world, head, crawler, cursor>>, found \subseteq found',
           \A row : row = [mode |-> cycle[w].todo[c].mode, next |-> next, done |-> done,
                           due |-> FALSE, sound |-> cycle[w].todo[c].sound]
                      => GoodRow(c, row)'
    PROVE  CrawlInv'
<1> DEFINE read == cycle[w].todo[c]
           scan == [contract |-> c, next |-> next, done |-> done, read |-> read]
           todo == Left(w, c)
           tick == [cycle[w] EXCEPT !.step = "save", !.todo = todo, !.scan = scan]
<1>1. cycle[w] \in Tick /\ GoodTick(cycle[w]) /\ cursor \in Cursor
      /\ cycle[w].todo \in Todo /\ cycle[w].cursor \in Cursor
  BY DEF CrawlInv, CrawlTypes, Tick
<1>2. c \in Contracts /\ read \in Crawler
  BY <1>1, TodoType
<1>3. scan \in Scan /\ scan.contract = c
  BY <1>2 DEF Scan
<1>4. todo \in Todo /\ DOMAIN todo \subseteq DOMAIN cycle[w].todo
      /\ \A d \in DOMAIN todo : todo[d] = cycle[w].todo[d]
  BY <1>1, TodoType DEF Left
<1>5. Saved(scan) = [mode |-> read.mode, next |-> next, done |-> done,
                     due |-> FALSE, sound |-> read.sound]
  BY DEF Saved
<1>6. cycle' = [cycle EXCEPT ![w].step = "save", ![w].todo = todo, ![w].scan = scan]
  BY DEF Scanned
<1> HIDE DEF scan, todo
<1>7. tick \in Tick
  BY <1>1, <1>3, <1>4, TickFields DEF Steps
<1>8. tick.step = "save" /\ tick.todo = todo /\ tick.scan = scan
  BY <1>1 DEF Tick
<1>9. cycle' = [cycle EXCEPT ![w] = tick]
  BY <1>1, <1>6 DEF CrawlInv, CrawlTypes, Tick
<1> HIDE DEF tick
<1>10. cycle'[w] = tick
  BY <1>9 DEF CrawlInv, CrawlTypes
<1>11. \A d \in DOMAIN todo : GoodRow(d, todo[d])
  BY <1>1, <1>4 DEF GoodTick
<1>12. \A d, row : GoodRow(d, row) => GoodRow(d, row)'
  BY StillGood
<1>13. \A t : /\ \A d \in DOMAIN t.todo : GoodRow(d, t.todo[d])'
              /\ t.scan \in Scan /\ GoodRow(t.scan.contract, Saved(t.scan))'
              => GoodTick(t)'
  BY DEF GoodTick
<1>14. \A d \in DOMAIN tick.todo : GoodRow(d, tick.todo[d])
  BY <1>8, <1>11
<1>15. \A t, d : GoodRow(d, t.todo[d]) => GoodRow(d, t.todo[d])'
  BY <1>12
<1>16. \A x : x \in Scan /\ x.contract = c /\
              Saved(x) = [mode |-> read.mode, next |-> next, done |-> done,
                          due |-> FALSE, sound |-> read.sound]
                => GoodRow(x.contract, Saved(x))'
  OBVIOUS
<1>17. GoodTick(cycle[w])'
  BY <1>3, <1>5, <1>8, <1>10, <1>13, <1>14, <1>15, <1>16
<1>18. crawler' \in [Contracts -> Crawler] /\ cursor' \in Cursor
  BY <1>1 DEF CrawlInv, CrawlTypes
<1> QED BY <1>7, <1>9, <1>17, <1>18, StepOf

LEMMA ScanPageStep ==
    ASSUME CrawlInv, NEW w \in Workers, NEW c \in DOMAIN cycle[w].todo, ScanPage(w, c)
    PROVE  CrawlInv'
<1> DEFINE read == cycle[w].todo[c]
           page == IF read.done THEN 0 ELSE read.next
           done == Short(c, page)
           next == IF done THEN 0 ELSE page + 1
<1>1. /\ c \in Contracts /\ read \in Crawler /\ GoodRow(c, read)
      /\ page \in Nat /\ next \in Nat /\ done \in BOOLEAN
  <2>1. cycle[w].todo \in Todo /\ GoodTick(cycle[w])
    BY DEF CrawlInv, CrawlTypes, Tick
  <2>2. c \in Contracts /\ read \in Crawler /\ GoodRow(c, read)
    BY <2>1, TodoType DEF GoodTick
  <2>3. done \in BOOLEAN
    BY <2>2, LedgerType DEF CrawlInv, Short
  <2> QED BY <2>2, <2>3 DEF Crawler
<1>2. /\ found' = found \cup {<<c, "page", page>>} /\ Scanned(w, c, next, done)
      /\ read.mode = "api" /\ UNCHANGED <<world, head, crawler, cursor>>
  BY DEF ScanPage, outside, database
<1>4. Len(ledger.full[c]) \in Nat
  BY <1>1, LedgerType DEF CrawlInv
<1> HIDE DEF next, read, page, done
<1>3. ASSUME NEW row,
             row = [mode |-> read.mode, next |-> next, done |-> done,
                    due |-> FALSE, sound |-> read.sound]
      PROVE  GoodRow(c, row)'
  <2>1. row.mode = "api" /\ row.next = next /\ row.done = done /\ row.sound = read.sound
    BY <1>2, <1>3
  <2>2. CASE ~read.sound
    BY <2>1, <2>2, <1>1 DEF GoodRow, next
  <2>3. CASE read.sound
    <3>1. ~read.done => \A n \in 0..(read.next - 1) : <<c, "page", n>> \in found
      BY <1>1, <1>2, <2>3 DEF GoodRow, Covers
    <3>2. \A n \in 0..page : <<c, "page", n>> \in found'
      <4>1. CASE read.done
        BY <1>2, <4>1 DEF page
      <4>2. CASE ~read.done
        BY <1>1, <1>2, <3>1, <4>2 DEF page
      <4> QED BY <4>1, <4>2
    <3>3. CASE done
      <4>1. ASSUME NEW n \in PagesInReach(c) PROVE <<c, "page", n>> \in found'
        <5>1. n \in Nat /\ \A m \in 0..(n - 1) : ~Short(c, m)
          BY <1>4 DEF PagesInReach
        <5>2. n <= page
          BY <1>1, <3>3, <5>1 DEF done
        <5> QED BY <1>1, <3>2, <5>1, <5>2
      <4>2. PagesInReach(c)' = PagesInReach(c)
        BY <1>2 DEF PagesInReach, Short, ledger
      <4>3. next = 0
        BY <3>3 DEF next
      <4> QED BY <2>1, <3>3, <4>1, <4>2, <4>3 DEF GoodRow, Covers
    <3>4. CASE ~done
      <4>1. next - 1 = page
        BY <1>1, <3>4 DEF next
      <4> QED BY <2>1, <3>2, <3>4, <4>1 DEF GoodRow, Covers
    <3> QED BY <3>3, <3>4
  <2> QED BY <2>2, <2>3
<1> QED BY <1>1, <1>2, <1>3, ScannedStep DEF read

LEMMA ScanBlocksStep ==
    ASSUME CrawlInv, NEW w \in Workers, NEW c \in DOMAIN cycle[w].todo, ScanBlocks(w, c)
    PROVE  CrawlInv'
<1> DEFINE read == cycle[w].todo[c]
           from == FirstBlockOf(read)
           to == RangeEnd(from)
<1>1. /\ c \in Contracts /\ read \in Crawler /\ GoodRow(c, read) /\ head \in Nat
      /\ from \in Nat \ {0} /\ to \in Int /\ to <= head
      /\ read.next <= from /\ (read.next # 0 => from = read.next)
  <2>1. cycle[w].todo \in Todo /\ GoodTick(cycle[w]) /\ head \in Nat
    BY DEF CrawlInv, CrawlTypes, Tick
  <2>2. c \in Contracts /\ read \in Crawler /\ GoodRow(c, read)
    BY <2>1, TodoType DEF GoodTick
  <2>3. ledger.window \in Nat \ {0}
    BY LedgerType DEF CrawlInv
  <2>4. from \in Nat \ {0} /\ read.next <= from /\ (read.next # 0 => from = read.next)
    BY <2>2 DEF FirstBlockOf, Crawler
  <2> QED BY <2>1, <2>2, <2>3, <2>4 DEF RangeEnd
<1>2. /\ found' = found \cup {<<c, "block", b>> : b \in {b \in from..to : b <= head}}
      /\ Scanned(w, c, to + 1, FALSE) /\ from <= head
      /\ read.mode = "blocks" /\ UNCHANGED <<world, head, crawler, cursor>>
  BY DEF ScanBlocks, outside, database
<1>3. to + 1 \in Nat
  <2>1. ledger.window \in Nat \ {0}
    BY LedgerType DEF CrawlInv
  <2> QED BY <1>1, <1>2, <2>1 DEF RangeEnd
<1> HIDE DEF read, from, to
<1>4. ASSUME NEW row,
             row = [mode |-> read.mode, next |-> to + 1, done |-> FALSE,
                    due |-> FALSE, sound |-> read.sound]
      PROVE  GoodRow(c, row)'
  <2>1. row.mode = "blocks" /\ row.next = to + 1 /\ ~row.done /\ row.sound = read.sound
    BY <1>2, <1>4
  <2>2. CASE ~read.sound
    BY <2>1, <2>2 DEF GoodRow
  <2>3. CASE read.sound
    <3>1. \A b \in 1..(read.next - 1) : <<c, "block", b>> \in found
      BY <1>2, <2>3, <1>1 DEF GoodRow, Covers
    <3>2. \A b \in 1..to : <<c, "block", b>> \in found'
      <4>1. ASSUME NEW b \in 1..to, b < from PROVE <<c, "block", b>> \in found'
        <5>1. read.next \in Nat
          BY <1>1 DEF Crawler
        <5>2. b \in 1..(read.next - 1)
          <6>1. from = read.next \/ from = 1
            BY DEF from, FirstBlockOf
          <6> QED BY <1>1, <4>1, <5>1, <6>1
        <5> QED BY <1>2, <3>1, <5>2
      <4>2. ASSUME NEW b \in 1..to, b >= from PROVE <<c, "block", b>> \in found'
        BY <1>1, <1>2, <4>2
      <4> QED BY <1>1, <4>1, <4>2
    <3> QED BY <1>1, <2>1, <3>2 DEF GoodRow, Covers
  <2> QED BY <2>2, <2>3
<1> QED
  <2>1. FALSE \in BOOLEAN
    OBVIOUS
  <2> QED BY <1>2, <1>3, <1>4, <2>1, ScannedStep DEF read

\* A scan that finds nothing to do, or fails, resets the row that is there.
LEMMA ResetStep ==
    ASSUME CrawlInv, NEW w \in Workers, NEW c \in DOMAIN cycle[w].todo,
           ScanNothing(w, c) \/ FailScan(w, c)
    PROVE  CrawlInv'
<1> DEFINE todo == Left(w, c)
           tick == [cycle[w] EXCEPT !.todo = todo]
<1>1. cycle[w] \in Tick /\ GoodTick(cycle[w]) /\ cursor \in Cursor
      /\ cycle[w].todo \in Todo /\ cycle[w].cursor \in Cursor /\ cycle[w].step \in Steps
      /\ cycle[w].scan \in {NoScan} \cup Scan
  BY DEF CrawlInv, CrawlTypes, Tick
<1>2. c \in Contracts
  BY <1>1, TodoType
<1>3. todo \in Todo /\ DOMAIN todo \subseteq DOMAIN cycle[w].todo
      /\ \A d \in DOMAIN todo : todo[d] = cycle[w].todo[d]
  BY <1>1, TodoType DEF Left
<1>4. /\ cycle' = [cycle EXCEPT ![w].todo = todo] /\ UNCHANGED <<world, head, found, cursor>>
      /\ \E row \in Crawler : GoodRow(c, row) /\ crawler' = [crawler EXCEPT ![c] = row]
  <2>1. crawler[c] \in Crawler /\ GoodRow(c, crawler[c])
    BY <1>2 DEF CrawlInv, CrawlTypes
  <2>2. CASE ScanNothing(w, c)
    <3>1. crawler' = [crawler EXCEPT ![c] = [crawler[c] EXCEPT !.done = FALSE, !.due = FALSE]]
      BY <2>1, <2>2 DEF ScanNothing, CrawlInv, CrawlTypes, Crawler
    <3>2. cycle' = [cycle EXCEPT ![w].todo = todo] /\ UNCHANGED <<world, head, found, cursor>>
      BY <2>2 DEF ScanNothing, outside
    <3> HIDE DEF todo
    <3>3. LET row == [crawler[c] EXCEPT !.done = FALSE, !.due = FALSE]
          IN  row \in Crawler /\ GoodRow(c, row)
      BY <2>1, ResetIsGood, Zenon
    <3> QED BY <3>1, <3>2, <3>3
  <2>3. CASE FailScan(w, c)
    <3>1. crawler' = [crawler EXCEPT ![c] = [crawler[c] EXCEPT !.due = FALSE]]
      BY <2>3 DEF FailScan
    <3>2. cycle' = [cycle EXCEPT ![w].todo = todo] /\ UNCHANGED <<world, head, found, cursor>>
      BY <2>3 DEF FailScan, outside
    <3> HIDE DEF todo
    <3>3. [crawler[c] EXCEPT !.due = FALSE] \in Crawler
          /\ GoodRow(c, [crawler[c] EXCEPT !.due = FALSE])
      BY <2>1, ResetIsGood, Zenon
    <3> QED BY <3>1, <3>2, <3>3
  <2> QED BY <2>2, <2>3
<1> HIDE DEF todo
<1>5. tick \in Tick
  BY <1>1, <1>3, TickFields
<1>6. tick.step = cycle[w].step /\ tick.todo = todo /\ tick.scan = cycle[w].scan
  BY <1>1 DEF Tick
<1>7. cycle' = [cycle EXCEPT ![w] = tick]
  BY <1>4
<1> HIDE DEF tick
<1>8. cycle'[w] = tick
  BY <1>7 DEF CrawlInv, CrawlTypes
<1>9. GoodTick(tick)
  BY <1>1, <1>3, <1>6 DEF GoodTick
<1>10. GoodTick(cycle[w])'
  BY <1>4, <1>8, <1>9, TickStillGood
<1>11. PICK row \in Crawler : GoodRow(c, row) /\ crawler' = [crawler EXCEPT ![c] = row]
  BY <1>4
<1>12. GoodRow(c, row)'
  BY <1>4, <1>11, StillGood
<1>13. crawler' \in [Contracts -> Crawler]
       /\ \A d \in Contracts : crawler'[d] = crawler[d] \/ (d = c /\ crawler'[d] = row)
  BY <1>11 DEF CrawlInv, CrawlTypes
<1>14. \A d \in Contracts : crawler'[d] = crawler[d] \/ GoodRow(d, crawler[d])'
  BY <1>12, <1>13
<1> QED BY <1>1, <1>4, <1>5, <1>7, <1>10, <1>13, <1>14, StepOf

LEMMA SaveStep ==
    ASSUME CrawlInv, NEW w \in Workers, SaveProgress(w)
    PROVE  CrawlInv'
<1> DEFINE scan == cycle[w].scan
           c == scan.contract
           same == scan.read.mode = crawler[c].mode
           sound == scan.read.sound /\ same
           row == [mode |-> crawler[c].mode, next |-> scan.next, done |-> scan.done,
                   due |-> FALSE, sound |-> sound]
           tick == [cycle[w] EXCEPT !.step = "crawl", !.scan = NoScan]
<1>1. cycle[w] \in Tick /\ GoodTick(cycle[w]) /\ cursor \in Cursor
      /\ cycle[w].todo \in Todo /\ cycle[w].cursor \in Cursor /\ cycle[w].step = "save"
  BY DEF CrawlInv, CrawlTypes, Tick, SaveProgress, Doing
<1>2. scan \in Scan /\ GoodRow(c, Saved(scan)) /\ c \in Contracts
  BY <1>1 DEF GoodTick, Scan
<1>3. /\ crawler' = [crawler EXCEPT ![c] = row]
      /\ cycle' = [cycle EXCEPT ![w].step = "crawl", ![w].scan = NoScan]
      /\ UNCHANGED <<world, head, found, cursor>>
  BY DEF SaveProgress, outside
<1>4. row \in Crawler
  <2>1. crawler[c].mode \in {"none", "api", "blocks"} /\ scan.next \in Nat
        /\ scan.done \in BOOLEAN
    BY <1>2 DEF CrawlInv, CrawlTypes, Crawler, Scan
  <2>2. sound \in BOOLEAN /\ FALSE \in BOOLEAN
    OBVIOUS
  <2>3. \A m \in {"none", "api", "blocks"}, n \in Nat, x, y, z \in BOOLEAN :
          [mode |-> m, next |-> n, done |-> x, due |-> y, sound |-> z] \in Crawler
    BY DEF Crawler
  <2> HIDE DEF sound
  <2> QED BY <2>1, <2>2, <2>3, Zenon
<1>5. GoodRow(c, row)
  <2>1. /\ Saved(scan).mode = scan.read.mode /\ Saved(scan).next = scan.next
        /\ Saved(scan).done = scan.done /\ Saved(scan).sound = scan.read.sound
    BY DEF Saved
  <2>2. /\ row.mode = crawler[c].mode /\ row.next = scan.next /\ row.done = scan.done
        /\ row.sound => scan.read.sound /\ same
    OBVIOUS
  <2>3. scan.done => scan.next = 0
    BY <1>2, <2>1 DEF GoodRow
  <2> HIDE DEF row
  <2>4. ASSUME row.sound PROVE Covers(c, row)
    <3>1. Covers(c, Saved(scan)) /\ row.mode = scan.read.mode
      BY <1>2, <2>1, <2>2, <2>4 DEF GoodRow
    <3> QED BY <2>1, <2>2, <3>1 DEF Covers
  <2> QED BY <2>2, <2>3, <2>4 DEF GoodRow
<1>6. tick \in Tick
  BY <1>1, TickFields DEF Steps
<1>7. tick.step = "crawl" /\ tick.todo = cycle[w].todo
  BY <1>1 DEF Tick
<1>8. cycle' = [cycle EXCEPT ![w] = tick]
  BY <1>1, <1>3 DEF CrawlInv, CrawlTypes, Tick
<1> HIDE DEF tick, row
<1>9. cycle'[w] = tick
  BY <1>8 DEF CrawlInv, CrawlTypes
<1>10. GoodTick(tick)
  BY <1>1, <1>7 DEF GoodTick
<1>11. GoodTick(cycle[w])'
  BY <1>3, <1>9, <1>10, TickStillGood
<1> HIDE DEF c
<1>12. \A d, r : GoodRow(d, r) => GoodRow(d, r)'
  BY <1>3, StillGood
<1>13. crawler' \in [Contracts -> Crawler]
       /\ \A d \in Contracts : crawler'[d] = crawler[d] \/ (d = c /\ crawler'[d] = row)
  BY <1>2, <1>3, <1>4 DEF CrawlInv, CrawlTypes
<1>14. \A d \in Contracts : crawler'[d] = crawler[d] \/ GoodRow(d, crawler[d])'
  BY <1>5, <1>12, <1>13
<1> QED BY <1>1, <1>3, <1>6, <1>8, <1>11, <1>13, <1>14, StepOf

LEMMA OutsideStep ==
    ASSUME CrawlInv,
           \/ \E w \in Workers : LockExpires(w)
           \/ \E c \in Contracts : ComeDue(c)
           \/ MineBlock
           \/ UNCHANGED crawlVars
    PROVE  CrawlInv'
<1>1. /\ UNCHANGED <<world, found, cursor, cycle>> /\ head' \in Nat
  BY DEF LockExpires, ComeDue, MineBlock, crawlVars, database, outside, CrawlInv, CrawlTypes
<1>2. \A w \in Workers : GoodTick(cycle[w])'
  BY <1>1, TickStillGood DEF CrawlInv
<1>3. \A c, row : GoodRow(c, row) => GoodRow(c, row)'
  BY <1>1, StillGood
<1>4. CASE UNCHANGED crawler
  BY <1>1, <1>2, <1>3, <1>4 DEF CrawlInv, CrawlTypes
<1>5. ASSUME NEW c \in Contracts, ComeDue(c) PROVE CrawlInv'
  <2> DEFINE row == [crawler[c] EXCEPT !.due = TRUE]
  <2>1. crawler[c] \in Crawler /\ GoodRow(c, crawler[c])
    BY DEF CrawlInv, CrawlTypes
  <2>2. row \in Crawler /\ GoodRow(c, row)
    BY <2>1, ResetIsGood, Zenon
  <2>3. crawler' = [crawler EXCEPT ![c] = row]
    BY <1>5 DEF ComeDue
  <2> HIDE DEF row
  <2>4. crawler' \in [Contracts -> Crawler]
        /\ \A d \in Contracts : crawler'[d] = crawler[d] \/ (d = c /\ crawler'[d] = row)
    BY <2>2, <2>3 DEF CrawlInv, CrawlTypes
  <2>5. \A d \in Contracts : GoodRow(d, crawler[d])'
    BY <1>3, <2>2, <2>4 DEF CrawlInv
  <2> QED BY <1>1, <1>2, <2>4, <2>5 DEF CrawlInv, CrawlTypes
<1> QED BY <1>4, <1>5 DEF LockExpires, MineBlock, crawlVars, database

LEMMA StepHolds == CrawlInv /\ [CrawlNext]_crawlVars => CrawlInv'
<1> SUFFICES ASSUME CrawlInv, [CrawlNext]_crawlVars PROVE CrawlInv'
  OBVIOUS
<1>1. ASSUME NEW w \in Workers, CrawlStep(w) PROVE CrawlInv'
  BY <1>1, DiscoveryStep, RegisterStep, SeedAgainStep, SelectStep, ScanPageStep,
     ScanBlocksStep, ResetStep, SaveStep, IdleStep DEF CrawlStep, Crawl
<1>2. ASSUME NEW w \in Workers,
             \/ StartCycle(w) \/ BreakOff(w) \/ handleDiscoveryError(w)
             \/ \E c \in DOMAIN cycle[w].todo : FailScan(w, c)
      PROVE  CrawlInv'
  BY <1>2, StartStep, IdleStep, DiscoveryStep, ResetStep
<1> QED BY <1>1, <1>2, OutsideStep DEF CrawlNext

\* The variables of the crawler keep their types.
THEOREM CrawlTypesHold == CrawlSpec => []CrawlTypes
<1>1. CrawlInv => CrawlTypes
  BY DEF CrawlInv
<1> QED BY <1>1, InitHolds, StepHolds, PTL DEF CrawlSpec

\* persistBlockScanResult and the update of runApiCrawlerForContract: whatever
\* fails, times out, overlaps or is reset, everything before a checkpoint has
\* been scanned, unless a scan of one mode was saved into a row of the other.
THEOREM CheckpointsAreTrueHolds == CrawlSpec => []CheckpointsAreTrue
<1>1. CrawlInv => CheckpointsAreTrue
  BY DEF CrawlInv, CheckpointsAreTrue, GoodRow
<1> QED BY <1>1, InitHolds, StepHolds, PTL DEF CrawlSpec
=============================================================================
