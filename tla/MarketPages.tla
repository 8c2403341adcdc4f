----------------------------- MODULE MarketPages -----------------------------
(***************************************************************************)
(* Selling and buying from the pages of the archive                        *)
(* (src/src/app/_components/web3): the panel of a work, whose buttons send  *)
(* transactions to the market contract, and the panel of a profile that    *)
(* cancels all listings of its artist one after the other.                 *)
(*                                                                         *)
(* Both know the market from the database, which follows the chain in two  *)
(* ways: the market indexer copies event after event (MarketIndexer has it *)
(* in full), and a page of a work without a stored listing reads the       *)
(* contract itself (foundation-market/queries.ts).                         *)
(***************************************************************************)
EXTENDS Naturals, Sequences, FiniteSets

CONSTANTS
    TokenOrder,     \* works of one artist, in the order of the delist route
    MaxAuctions,    \* bound: auctions of one work, one after the other
    Pages,          \* work pages that may be open
    Markets         \* the worlds to consider, each with its own bounds

Pieces == {TokenOrder[i] : i \in DOMAIN TokenOrder}

\* What can be listed, and what has a row of its own: the buy price of a work
\* (foundationBuyPrice) and each of its auctions (foundationReserveAuction).
Items == Pieces \X (0..MaxAuctions)
PriceOf(t) == <<t, 0>>
AuctionsOf(t) == {t} \X (1..MaxAuctions)
ItemsOf(t) == {t} \X (0..MaxAuctions)
Listings == {"none", "active", "open", "bid"}

\* listed has what is on the market at the start, older the listings from
\* before the first block of the index, approves whether the market may take
\* works of the artist.  network has the chain of each work.  work and visitor
\* say what a work page is about and who looks at it.  trades bounds what others
\* do, faults the calls that fail.
Market == [listed : [Items -> Listings], older : SUBSET Items, approves : BOOLEAN,
           network : [Pieces -> {"Ethereum", "Base"}],
           work : [Pages -> Pieces], visitor : [Pages -> {"seller", "other"}],
           visits : Nat, clicks : Nat, trades : Nat, faults : Nat,
           delists : BOOLEAN]

\* A work has one auction at a time, and no price beside an auction with a bid.
Consistent(listed) ==
    \A t \in Pieces : \A i, j \in ItemsOf(t) :
        i # j /\ listed[i] # "none" /\ listed[j] # "none" =>
            {listed[i], listed[j]} = {"active", "open"}

ASSUME MarketPagesAssumption ==
    /\ Markets \subseteq Market /\ MaxAuctions \in Nat
    /\ \A m \in Markets : Consistent(m.listed)

VARIABLES
    market,     \* the world: it never changes
    sale,       \* the market contract: what is listed
    sold,       \* the works that have another owner now
    ended,      \* the auctions that are over but for their settlement
    approved,   \* whether the market may take works of the artist
    news,       \* the events of the contract: item, set, listing
    indexed,    \* how many of them the indexer has copied
    row,        \* the rows of the two tables, "absent" where there is none
    page,       \* the pages of works
    stores,     \* what the servers of the pages have read and will store
    bulk,       \* the panel of the profile
    overtaken,  \* history: items whose row was written from an outdated read
    used        \* events counted against the bounds

chainVars == <<sale, sold, ended, approved, news>>
marketVars == <<market, chainVars, indexed, row, page, stores, bulk, overtaken, used>>

-----------------------------------------------------------------------------
NothingShown == [price |-> FALSE, auction |-> 0, bid |-> FALSE]

Closed == [render |-> "closed", shows |-> NothingShown, rescuable |-> FALSE,
           owns |-> FALSE, approved |-> FALSE, button |-> "idle", action |-> "none",
           number |-> 0]

NoPanel == [loading |-> FALSE, running |-> FALSE, targets |-> <<>>,
            progress |-> <<>>, todo |-> <<>>, network |-> "Ethereum",
            completedAny |-> FALSE]

MarketPagesInit ==
    /\ market \in Markets
    /\ sale = market.listed
    /\ sold = {} /\ ended = {} /\ approved = market.approves
    /\ news = <<>> /\ indexed = 0
    /\ row = [i \in Items |-> IF sale[i] = "none" \/ i \in market.older THEN "absent"
                              ELSE sale[i]]
    /\ page = [p \in Pages |-> Closed]
    /\ stores = {}
    /\ bulk = NoPanel
    /\ overtaken = {}
    /\ used = [visits |-> 0, clicks |-> 0, trades |-> 0, faults |-> 0]

Count(what) == /\ used[what] < market[what]
               /\ used' = [used EXCEPT ![what] = @ + 1]

-----------------------------------------------------------------------------
(* The market contract, as the pages and the indexer know it.  A price and  *)
(* an auction may stand beside each other until one of them finds somebody. *)

Live(t) == {i \in ItemsOf(t) : sale[i] # "none"}
LiveAuctions(t) == Live(t) \cap AuctionsOf(t)
Begun(i) == market.listed[i] # "none" \/ \E k \in DOMAIN news : news[k].item = i
Taken(t) == t \in sold \/ \E i \in Live(t) : sale[i] = "bid"

\* Transactions that are about item i.
Possible(i, action) ==
    CASE action = "sell" -> sale[i] = "none" /\ ~Taken(i[1]) /\ approved
      [] action = "auction" -> /\ LiveAuctions(i[1]) = {} /\ ~Taken(i[1]) /\ approved
                               /\ i[2] = Cardinality({j \in AuctionsOf(i[1]) : Begun(j)}) + 1
      [] action \in {"buy", "cancelBuyPrice", "reprice"} -> sale[i] = "active"
      [] action \in {"bid", "cancelReserveAuction", "updateReserve"} -> sale[i] = "open"
      [] action = "finalize" -> sale[i] = "bid" /\ i \in ended
      [] OTHER -> action = "approve"

Outcome(action) ==
    CASE action \in {"sell", "reprice"} -> "active"
      [] action = "auction" -> "open"
      [] action = "bid" -> "bid"
      [] OTHER -> "none"

\* An event sets a listing or changes one.
SaleEvent == [item : Items, set : BOOLEAN, listing : Listings]
EventOf(i, action) == [item |-> i, set |-> action \in {"sell", "reprice", "auction"},
                       listing |-> Outcome(action)]
Invalidated(i) == [item |-> i, set |-> FALSE, listing |-> "none"]

Happens(e) == /\ sale' = [sale EXCEPT ![e.item] = e.listing]
              /\ news' = Append(news, e)
BothHappen(e, f) == /\ sale' = [sale EXCEPT ![e.item] = e.listing, ![f.item] = f.listing]
                    /\ news' = Append(Append(news, e), f)

\* A purchase ends the work's auction, and the first bid its price.
Execute(i, action) ==
    LET others == IF action \in {"buy", "bid"} THEN Live(i[1]) \ {i} ELSE {}
    IN  CASE action = "approve" -> approved' = TRUE /\ UNCHANGED <<sale, sold, ended, news>>
          [] action = "updateReserve" -> UNCHANGED chainVars
          [] OTHER ->
                /\ IF others = {} THEN Happens(EventOf(i, action))
                   ELSE \E j \in others : BothHappen(EventOf(i, action), Invalidated(j))
                /\ sold' = IF action \in {"buy", "finalize"} THEN sold \cup {i[1]} ELSE sold
                /\ ended' = ended \ {i}
                /\ UNCHANGED approved

\* Somebody else, or the artist from elsewhere.
Trade(i) ==
    /\ Count("trades")
    /\ \E action \in {"bid", "buy", "finalize", "auction"} :
          Possible(i, action) /\ Execute(i, action)
    /\ UNCHANGED <<market, indexed, row, page, stores, bulk, overtaken>>

EndAuction(i) ==
    /\ sale[i] = "bid" /\ ended' = ended \cup {i}
    /\ UNCHANGED <<market, sale, sold, approved, news, indexed, row, page, stores, bulk,
                   overtaken, used>>

\* What the handler of an event makes of its row: BuyPriceSet and
\* ReserveAuctionCreated are upserts; updateMany leaves what is not there.
handleEvent(e) == IF e.set \/ row[e.item] # "absent" THEN e.listing ELSE "absent"

IndexEvent ==
    /\ indexed < Len(news)
    /\ indexed' = indexed + 1
    /\ row' = [row EXCEPT ![news[indexed'].item] = handleEvent(news[indexed'])]
    /\ UNCHANGED <<market, chainVars, page, stores, bulk, overtaken, used>>

-----------------------------------------------------------------------------
(* The page of a work.                                                     *)

rowsUnchanged == <<market, chainVars, indexed, row, bulk, overtaken>>
pageUnchanged == <<rowsUnchanged, stores>>

Isolate(p) == market.work[p]

\* The page is requested; the wallet's queries (ownerOf, isApprovedForAll)
\* are asked once, and not again for as long as it stays open.
OpenPage(p) ==
    /\ page[p].render = "closed" /\ Count("visits")
    /\ LET t == Isolate(p)
           seller == market.visitor[p] = "seller"
       IN  page' = [page EXCEPT ![p] = [Closed EXCEPT !.render = "load",
               !.owns = seller /\ Live(t) = {} /\ t \notin sold,
               !.approved = approved]]
    /\ UNCHANGED pageUnchanged

ClosePage(p) ==
    /\ page[p].render = "shown" /\ page[p].button \in {"idle", "done"}
    /\ page' = [page EXCEPT ![p] = Closed]
    /\ UNCHANGED <<pageUnchanged, used>>

\* loadStoredTokenMarketState: of several auctions, the latest.
Stored(t) ==
    LET auctions == {i \in AuctionsOf(t) : row[i] \in {"open", "bid"}}
        numbers == {i[2] : i \in auctions}
        latest == IF numbers = {} THEN 0 ELSE CHOOSE n \in numbers : \A m \in numbers : m <= n
    IN  [price |-> row[PriceOf(t)] = "active", auction |-> latest,
         bid |-> latest # 0 /\ row[<<t, latest>>] = "bid"]

\* A button that has succeeded stays so until other props give it another key.
Shown(p) ==
    LET stored == Stored(Isolate(p))
    IN  [page[p] EXCEPT !.render = "shown", !.shows = stored,
            !.rescuable = stored.bid /\ <<Isolate(p), stored.auction>> \in ended,
            !.button = IF @ = "done" /\ stored # page[p].shows THEN "idle" ELSE @]

\* getTokenMarketState: with neither listing stored, the contract is read.
LoadStored(p) ==
    /\ page[p].render \in {"load", "load again"}
    /\ page' = [page EXCEPT ![p] =
           IF page[p].render = "load" /\ Stored(Isolate(p)) = NothingShown
           THEN [@ EXCEPT !.render = "read"] ELSE Shown(p)]
    /\ UNCHANGED <<pageUnchanged, used>>

\* refreshTokenMarketStateFromChain reads the price and the number of the auction
\* side by side; what is read first is held until both are there.
Held(p) == {s \in stores : s.page = p /\ s.state = "held"}
Reads(p, what) == page[p].render = "read" /\ \A s \in Held(p) : s.what # what

\* step is "read" if the auction itself is still to be read.
Answered(p, answer) ==
    /\ IF Held(p) = {}
       THEN stores' = stores \cup {answer} /\ UNCHANGED page
       ELSE /\ stores' = (stores \ Held(p)) \cup
                  {[s EXCEPT !.state = "awaited"] : s \in Held(p) \cup {answer}}
            /\ page' = [page EXCEPT ![p].render = "stores"]
    /\ UNCHANGED <<rowsUnchanged, used>>

ReadPrice(p) ==
    /\ Reads(p, "price")
    /\ Answered(p, [page |-> p, what |-> "price", state |-> "held", step |-> "write",
                    items |-> {PriceOf(Isolate(p))}, found |-> sale[PriceOf(Isolate(p))],
                    seen |-> Len(news)])

\* Without an auction, all rows of the work that say otherwise are wrong.
ReadAuctionId(p) ==
    LET live == LiveAuctions(Isolate(p))
    IN  /\ Reads(p, "auction")
        /\ Answered(p, [page |-> p, what |-> "auction", state |-> "held",
                        step |-> IF live = {} THEN "write" ELSE "read",
                        items |-> IF live = {} THEN AuctionsOf(Isolate(p)) ELSE live,
                        found |-> "none", seen |-> Len(news)])

\* A failure of the reads is swallowed.
ReadFails(p) ==
    /\ page[p].render = "read" /\ Count("faults")
    /\ page' = [page EXCEPT ![p].render = "load again"]
    /\ stores' = stores \ Held(p)
    /\ UNCHANGED rowsUnchanged

\* The page goes on when the last of its stores is done, or the first has failed.
Beside(s) == {r \in stores \ {s} : r.page = s.page /\ r.state = "awaited"}
GoOn(s) == page' = IF s.state = "awaited" THEN [page EXCEPT ![s.page].render = "load again"]
                   ELSE page
Finish(s) == /\ stores' = stores \ {s}
             /\ IF Beside(s) = {} THEN GoOn(s) ELSE UNCHANGED page

\* The rest of persistLiveAuction: an auction that is over by now is left alone.
ReadAuction(s) ==
    /\ s.step = "read" /\ s.state # "held"
    /\ LET still == {i \in s.items : sale[i] # "none"}
       IN  IF still = {} THEN Finish(s)
           ELSE \E i \in still :
                   /\ stores' = (stores \ {s}) \cup
                         {[s EXCEPT !.step = "write", !.items = {i}, !.found = sale[i],
                                    !.seen = Len(news)]}
                   /\ UNCHANGED page
    /\ UNCHANGED <<rowsUnchanged, used>>

\* Mutant: an auction is stored as open, with a bid or without.
persistLiveOpen(s, i) == IF i \notin s.items THEN row[i]
                         ELSE IF s.found = "bid" THEN "open"
                         ELSE IF s.found # "none" THEN s.found
                         ELSE IF row[i] = "absent" THEN "absent" ELSE "none"

\* What the statement of persistLiveBuyPrice or persistLiveAuction makes of a
\* row: an upsert of what is listed, an updateMany where nothing is.
persistLive(s, i) == IF i \notin s.items THEN row[i]
                     ELSE IF s.found # "none" THEN s.found
                     ELSE IF row[i] = "absent" THEN "absent" ELSE "none"

WriteLive(s) ==
    /\ s.step = "write" /\ s.state # "held"
    /\ row' = [i \in Items |-> persistLive(s, i)]
    /\ overtaken' = IF indexed > s.seen THEN overtaken \cup {i \in Items : row'[i] # row[i]}
                                        ELSE overtaken
    /\ Finish(s)
    /\ UNCHANGED <<market, chainVars, indexed, bulk, used>>

\* One of the two fails: the page does not wait for the other.
StoreFails(s) ==
    /\ s.state # "held" /\ Count("faults")
    /\ stores' = (stores \ ({s} \cup Beside(s))) \cup {[r EXCEPT !.state = "left"] : r \in Beside(s)}
    /\ GoOn(s)
    /\ UNCHANGED rowsUnchanged

\* ActionsBody and OwnerSurface: a listing in the database is its seller's.
Offered(p) ==
    LET q == page[p]
        listed == q.shows # NothingShown
        manages == q.owns \/ (listed /\ market.visitor[p] = "seller")
        ofPrice == IF q.shows.price THEN {"reprice", "cancelBuyPrice"} ELSE {}
        ofAuction == IF q.shows.auction # 0 /\ ~q.shows.bid
                     THEN {"updateReserve", "cancelReserveAuction"} ELSE {}
    IN  CASE q.rescuable -> {"finalize"}
          [] ~q.rescuable /\ ~manages -> IF q.shows.price THEN {"buy"} ELSE {}
          [] ~q.rescuable /\ manages /\ listed -> ofPrice \cup ofAuction
          [] OTHER -> IF q.approved THEN {"sell", "auction"} ELSE {"approve"}

\* ContractActionButton and its likes: confirmed in the wallet, mined, done.  A
\* transaction names the auction that was shown when it was clicked.
Click(p) ==
    /\ page[p].render # "closed" /\ page[p].button = "idle" /\ Count("clicks")
    /\ \E action \in Offered(p) :
          page' = [page EXCEPT ![p].button = "confirm", ![p].action = action,
                               ![p].number = page[p].shows.auction]
    /\ UNCHANGED pageUnchanged

\* The listings a transaction may be about: a new auction gets its number now.
Meant(p) ==
    CASE page[p].action \in {"finalize", "updateReserve", "cancelReserveAuction"} ->
            {<<Isolate(p), page[p].number>>}
      [] page[p].action = "auction" -> AuctionsOf(Isolate(p))
      [] OTHER -> {PriceOf(Isolate(p))}

Confirm(p) ==
    /\ page[p].button = "confirm"
    /\ \/ page' = [page EXCEPT ![p].button = "mining"] /\ UNCHANGED used
       \/ Count("faults") /\ page' = [page EXCEPT ![p].button = "idle"]
    /\ UNCHANGED pageUnchanged

\* A success of the owner's buttons refreshes the page, the query of the
\* approval excepted; purchases and settlements do not.
MineOfPage(p) ==
    /\ page[p].button = "mining"
    /\ LET action == page[p].action
           refreshes == action \notin {"buy", "finalize"}
           takes == {i \in Items : i \in Meant(p) /\ Possible(i, action)}
       IN  \/ \E i \in takes :
                /\ Execute(i, action)
                /\ page' = [page EXCEPT ![p].button = "done",
                       ![p].render = IF refreshes THEN "load" ELSE @]
           \/ /\ takes = {}
              /\ page' = [page EXCEPT ![p].button = "idle"]
              /\ UNCHANGED chainVars
    /\ UNCHANGED <<market, indexed, row, stores, bulk, overtaken, used>>

PageStep(p) ==
    \/ OpenPage(p) \/ ClosePage(p) \/ LoadStored(p)
    \/ ReadPrice(p) \/ ReadAuctionId(p) \/ ReadFails(p)
    \/ Click(p) \/ Confirm(p) \/ MineOfPage(p)

StoreStep == \E s \in stores : ReadAuction(s) \/ WriteLive(s) \/ StoreFails(s)

-----------------------------------------------------------------------------
(* The panel of a profile.                                                 *)

bulkUnchanged == <<market, indexed, row, page, stores, overtaken>>

\* The order of the answer: by work, the price before the auctions.
ItemOrder == [k \in 1..(Len(TokenOrder) * (MaxAuctions + 1)) |->
                <<TokenOrder[((k - 1) \div (MaxAuctions + 1)) + 1], (k - 1) % (MaxAuctions + 1)>>]

Progress(i) == bulk.progress[i]
Target == Head(bulk.todo)
IsTarget(i) == \E k \in DOMAIN bulk.targets : bulk.targets[k] = i
Told(i, status) == [bulk.progress EXCEPT ![i] = status]

loadTargets ==
    /\ market.delists /\ ~bulk.loading /\ ~bulk.running
    /\ bulk' = [bulk EXCEPT !.loading = TRUE]
    /\ UNCHANGED <<bulkUnchanged, chainVars, used>>

\* findStoredDelistTargets: an auction with a bid cannot be canceled.
cancelable(i) == row[i] \in {"active", "open"}

\* The answer of the route; the progress starts anew, whatever it said.
TargetsArrive ==
    /\ bulk.loading
    /\ \/ /\ bulk' = [bulk EXCEPT !.loading = FALSE,
                 !.targets = SelectSeq(ItemOrder, cancelable),
                 !.progress = [i \in Items |-> "queued"]]
          /\ UNCHANGED used
       \/ Count("faults") /\ bulk' = [bulk EXCEPT !.loading = FALSE]
    /\ UNCHANGED <<bulkUnchanged, chainVars>>

\* The run goes by the progress of the moment it was started at.
runDelistAll ==
    /\ ~bulk.running /\ ~bulk.loading
    /\ \E i \in Items : IsTarget(i) /\ Progress(i) # "done"
    /\ bulk' = [bulk EXCEPT !.running = TRUE, !.completedAny = FALSE,
           !.todo = SelectSeq(bulk.targets, LAMBDA i : Progress(i) # "done")]
    /\ UNCHANGED <<bulkUnchanged, chainVars, used>>

\* The catch and the finally block: targets are loaded again if any is done.
Stop == [bulk EXCEPT !.progress = Told(Target, "error"), !.running = FALSE,
                     !.todo = <<>>, !.loading = bulk.completedAny]

Starting == bulk.todo # <<>> /\ Progress(Target) \in {"queued", "error"}

TakeTarget ==
    /\ Starting
    /\ bulk' = [bulk EXCEPT !.progress = Told(Target,
           IF bulk.network = market.network[Target[1]] THEN "confirming" ELSE "switching")]
    /\ UNCHANGED <<bulkUnchanged, chainVars, used>>

SwitchChain ==
    /\ bulk.todo # <<>> /\ Progress(Target) = "switching"
    /\ \/ /\ bulk' = [bulk EXCEPT !.network = market.network[Target[1]],
                                   !.progress = Told(Target, "confirming")]
          /\ UNCHANGED used
       \/ Count("faults") /\ bulk' = Stop
    /\ UNCHANGED <<bulkUnchanged, chainVars>>

ConfirmDelist ==
    /\ bulk.todo # <<>> /\ Progress(Target) = "confirming"
    /\ \/ bulk' = [bulk EXCEPT !.progress = Told(Target, "mining")] /\ UNCHANGED used
       \/ Count("faults") /\ bulk' = Stop
    /\ UNCHANGED <<bulkUnchanged, chainVars>>

\* The receipt; one that says reverted is an error, and so is the failure to
\* get one for a transaction that has been mined.
MineDelist ==
    /\ bulk.todo # <<>> /\ Progress(Target) = "mining"
    /\ LET action == IF Target[2] = 0 THEN "cancelBuyPrice" ELSE "cancelReserveAuction"
           takes == {i \in Items : i = Target /\ Possible(i, action)}
       IN  \/ /\ \E i \in takes : Execute(i, action)
              /\ \/ /\ bulk' = [bulk EXCEPT !.progress = Told(Target, "done"),
                                  !.todo = Tail(@), !.completedAny = TRUE]
                    /\ UNCHANGED used
                 \/ Count("faults") /\ bulk' = Stop
           \/ /\ takes = {} /\ bulk' = Stop
              /\ UNCHANGED <<chainVars, used>>
    /\ UNCHANGED bulkUnchanged

FinishRun ==
    /\ bulk.running /\ bulk.todo = <<>>
    /\ bulk' = [bulk EXCEPT !.running = FALSE, !.loading = bulk.completedAny]
    /\ UNCHANGED <<bulkUnchanged, chainVars, used>>

BulkStep ==
    \/ TargetsArrive \/ TakeTarget \/ SwitchChain \/ ConfirmDelist \/ MineDelist
    \/ FinishRun

-----------------------------------------------------------------------------
MarketPagesNext ==
    \/ \E i \in Items : Trade(i) \/ EndAuction(i)
    \/ IndexEvent
    \/ \E p \in Pages : PageStep(p)
    \/ StoreStep
    \/ loadTargets \/ runDelistAll \/ BulkStep

MarketPagesSpec ==
    MarketPagesInit /\ [][MarketPagesNext]_marketVars

-----------------------------------------------------------------------------
\* The two writers of the stored listings do not spoil each other's work,
\* although a page reads and stores prices and auctions apart, and may store long
\* after it was shown: once the index has caught up, the row of every price and
\* every auction says what is on the chain, or is missing because the listing is
\* from before the first block of the index.  The exception is a row that a page
\* has changed after the index had passed the block it was read at.
StoredListingsAreTrue ==
    \A i \in Items : indexed = Len(news) /\ i \notin overtaken =>
        \/ row[i] = sale[i]
        \/ row[i] = "absent" /\ (sale[i] = "none" \/ i \in market.older)
=============================================================================
