--------------------------- MODULE CatalogueProofs ---------------------------
(***************************************************************************)
(* What the archive knows of works, beside the index of the market.  The   *)
(* listings it stores are true, for any number of works, pages and trades; *)
(* the backfill of profiles misses nobody, however its runs overlap and    *)
(* end; the list of a reader who scrolls misses none of the works that     *)
(* were left alone; and the files a root depends on are followed and found *)
(* by searches.                                                            *)
(*                                                                         *)
(* For the listings: a row has the listing of its work at some time that   *)
(* the index has not passed, and a page about to write one has what was    *)
(* true when it read.  For the profiles: a script has a checkpoint that is *)
(* sound but for the artists of its batch, and a result that is not to be  *)
(* tried again is a verdict.  For the lists: a page has every work between *)
(* its cursor and the next, because the order of the works is total, and   *)
(* works that have not been written are where they were when it was read.  *)
(* For the files: what a followed file refers to is in the manifest or is  *)
(* awaited by some call of the walk, and rows outlive later deletions.     *)
(***************************************************************************)
EXTENDS MarketIndexerProofs, MarketPages, ProfileAssets, ArchiveBrowsing, Dependencies

-----------------------------------------------------------------------------
(* The stored listings.  Time is the number of events on the chain: a row   *)
(* says what its item was at some time that the index has not passed.       *)

\* The listing of an item after the first n of the events q.
ListedAt(q, i, n, l) ==
    \/ \E k \in 1..n : /\ q[k].item = i /\ q[k].listing = l
                       /\ \A m \in (k + 1)..n : q[m].item # i
    \/ (\A k \in 1..n : q[k].item # i) /\ l = market.listed[i]

\* The events q leave s listed, and change only what was listed.
History(q, s) ==
    /\ q \in Seq(SaleEvent) /\ s \in [Items -> Listings]
    /\ \A i \in Items : ListedAt(q, i, Len(q), s[i])
    /\ \A k \in 1..Len(q) : \/ q[k].set
                            \/ market.listed[q[k].item] # "none"
                            \/ \E m \in 1..(k - 1) : q[m].item = q[k].item

Says(i) == IF row[i] = "absent" THEN "none" ELSE row[i]

RowHolds(i) ==
    \/ i \in overtaken
    \/ \E n \in indexed..Len(news) : ListedAt(news, i, n, Says(i))
    \/ i \in market.older /\ row[i] = "absent"

\* What the index has seen begin has a row.
RowThere(i) ==
    i \notin market.older /\ (market.listed[i] # "none" \/ \E k \in 1..indexed : news[k].item = i)
        => row[i] # "absent"

IsStore(s) ==
    s \in [page : {s.page}, what : {s.what}, state : {s.state}, step : {s.step},
           items : {s.items}, found : {s.found}, seen : {s.seen}]

\* What is about to be written was true when it was read.
StoreHolds(s) ==
    /\ IsStore(s) /\ s.items \subseteq Items
    /\ s.step = "write" =>
        /\ s.seen \in 0..Len(news) /\ s.found \in Listings
        /\ \A i \in s.items : ListedAt(news, i, s.seen, s.found)

StoredInv ==
    /\ market.work \in [Pages -> Pieces] /\ MaxAuctions \in Nat
    /\ History(news, sale)
    /\ indexed \in 0..Len(news)
    /\ row \in [Items -> Listings \cup {"absent"}]
    /\ \A i \in Items : RowHolds(i) /\ RowThere(i)
    /\ \A s \in stores : StoreHolds(s)

\* An item has one listing at a time.
LEMMA ListedOnce ==
    ASSUME NEW q, NEW n \in Nat, NEW i, NEW l, NEW m, ListedAt(q, i, n, l), ListedAt(q, i, n, m)
    PROVE  l = m
<1>1. CASE \A k \in 1..n : q[k].item # i
  BY <1>1 DEF ListedAt
<1>2. CASE \E k \in 1..n : q[k].item = i
  <2>1. PICK k \in 1..n : /\ q[k].item = i /\ q[k].listing = l
                          /\ \A j \in (k + 1)..n : q[j].item # i
    BY <1>2 DEF ListedAt
  <2>2. PICK h \in 1..n : /\ q[h].item = i /\ q[h].listing = m
                          /\ \A j \in (h + 1)..n : q[j].item # i
    BY <1>2 DEF ListedAt
  <2>3. ~(k < h) /\ ~(h < k)
    BY <2>1, <2>2
  <2> QED BY <2>1, <2>2, <2>3
<1> QED BY <1>1, <1>2

\* The next event is about an item, or does not concern it.
LEMMA ListedNext ==
    ASSUME NEW q, NEW n \in Nat, NEW i, NEW l, ListedAt(q, i, n, l), q[n + 1].item # i
    PROVE  ListedAt(q, i, n + 1, l)
<1>1. CASE (\A k \in 1..n : q[k].item # i) /\ l = market.listed[i]
  <2>1. \A k \in 1..(n + 1) : q[k].item # i
    BY <1>1
  <2> QED BY <1>1, <2>1 DEF ListedAt
<1>2. CASE \E k \in 1..n : /\ q[k].item = i /\ q[k].listing = l
                           /\ \A m \in (k + 1)..n : q[m].item # i
  <2>1. PICK k \in 1..n : /\ q[k].item = i /\ q[k].listing = l
                          /\ \A m \in (k + 1)..n : q[m].item # i
    BY <1>2
  <2>2. k \in 1..(n + 1) /\ \A m \in (k + 1)..(n + 1) : m \in (k + 1)..n \/ m = n + 1
    OBVIOUS
  <2> QED BY <2>1, <2>2 DEF ListedAt
<1> QED BY <1>1, <1>2 DEF ListedAt

LEMMA ListedNow ==
    ASSUME NEW q, NEW n \in Nat \ {0}
    PROVE  ListedAt(q, q[n].item, n, q[n].listing)
<1>1. n \in 1..n /\ \A k \in (n + 1)..n : FALSE
  OBVIOUS
<1> QED BY <1>1 DEF ListedAt

\* The past does not change.
LEMMA ListedKept ==
    ASSUME NEW q, NEW r, NEW n \in Nat, \A k \in 1..n : r[k] = q[k],
           NEW i, NEW l, ListedAt(q, i, n, l)
    PROVE  ListedAt(r, i, n, l)
<1>1. \A k \in 1..n : \A m \in (k + 1)..n : m \in 1..n
  OBVIOUS
<1> QED BY <1>1 DEF ListedAt

\* An event that sets a listing, or changes one that is there.
LEMMA HistoryGrows ==
    ASSUME NEW q, NEW s, History(q, s), NEW e \in SaleEvent, e.set \/ s[e.item] # "none"
    PROVE  /\ History(Append(q, e), [s EXCEPT ![e.item] = e.listing])
           /\ Len(Append(q, e)) = Len(q) + 1
           /\ \A k \in 1..Len(q) : Append(q, e)[k] = q[k]
<1> DEFINE r == Append(q, e)
           z == [s EXCEPT ![e.item] = e.listing]
<1>1. /\ r \in Seq(SaleEvent) /\ Len(q) \in Nat /\ Len(r) = Len(q) + 1
      /\ \A k \in 1..Len(q) : r[k] = q[k]
      /\ r[Len(q) + 1] = e
  BY DEF History
<1>2. e.item \in Items /\ e.listing \in Listings
  BY DEF SaleEvent
<1>3. z \in [Items -> Listings] /\ z[e.item] = e.listing
      /\ \A i \in Items \ {e.item} : z[i] = s[i]
  BY <1>2 DEF History
<1> HIDE DEF r, z
<1>4. ASSUME NEW i \in Items PROVE ListedAt(r, i, Len(r), z[i])
  <2>1. CASE i = e.item
    BY <1>1, <1>3, <2>1, ListedNow
  <2>2. CASE i # e.item
    <3>1. ListedAt(q, i, Len(q), s[i])
      BY DEF History
    <3>2. ListedAt(r, i, Len(q), s[i])
      BY <1>1, <3>1, ListedKept
    <3>3. ListedAt(r, i, Len(q) + 1, s[i])
      BY <1>1, <2>2, <3>2, ListedNext
    <3> QED BY <1>1, <1>3, <2>2, <3>3
  <2> QED BY <2>1, <2>2
<1>5. ASSUME NEW k \in 1..Len(r)
      PROVE  \/ r[k].set
             \/ market.listed[r[k].item] # "none"
             \/ \E m \in 1..(k - 1) : r[m].item = r[k].item
  <2>1. CASE k \in 1..Len(q)
    <3>1. r[k] = q[k] /\ \A m \in 1..(k - 1) : m \in 1..Len(q) /\ r[m] = q[m]
      BY <1>1, <2>1
    <3> QED BY <2>1, <3>1 DEF History
  <2>2. CASE k = Len(q) + 1 /\ ~e.set
    <3>1. ListedAt(q, e.item, Len(q), s[e.item]) /\ s[e.item] # "none"
      BY <1>2, <2>2 DEF History
    <3>2. market.listed[e.item] # "none" \/ \E m \in 1..Len(q) : q[m].item = e.item
      BY <3>1 DEF ListedAt
    <3>3. \A m \in 1..Len(q) : m \in 1..(k - 1) /\ r[m] = q[m]
      BY <1>1, <2>2
    <3> QED BY <1>1, <2>2, <3>2, <3>3
  <2> QED BY <1>1, <2>1, <2>2
<1>6. History(r, z)
  BY <1>1, <1>3, <1>4, <1>5 DEF History
<1> QED BY <1>1, <1>6 DEF r, z

\* The market contract takes a transaction, or nothing happens on it.
ChainMoves ==
    \/ UNCHANGED <<sale, news>>
    \/ \E e \in SaleEvent : (e.set \/ sale[e.item] # "none") /\ Happens(e)
    \/ \E e, f \in SaleEvent : /\ e.set \/ sale[e.item] # "none"
                               /\ sale[f.item] # "none" /\ f.item # e.item
                               /\ BothHappen(e, f)

LEMMA ExecuteMoves ==
    ASSUME NEW i \in Items, NEW action, Possible(i, action), Execute(i, action)
    PROVE  ChainMoves
<1>1. CASE action \in {"approve", "updateReserve"}
  BY <1>1 DEF Execute, ChainMoves, chainVars
<1>2. CASE action \notin {"approve", "updateReserve"}
  <2>1. PICK e : e = EventOf(i, action)
    OBVIOUS
  <2>2. e \in SaleEvent /\ e.item = i
    BY <2>1 DEF EventOf, SaleEvent, Outcome, Listings
  <2>3. e.set \/ sale[i] # "none"
    BY <1>2, <2>1 DEF EventOf, Possible
  <2>4. CASE Happens(e)
    BY <2>2, <2>3, <2>4 DEF ChainMoves
  <2>5. ASSUME NEW j \in Live(i[1]) \ {i}, BothHappen(e, Invalidated(j))
        PROVE  ChainMoves
    <3>1. j \in Items /\ sale[j] # "none"
      BY <2>5 DEF Live, ItemsOf, Items
    <3>2. Invalidated(j) \in SaleEvent /\ Invalidated(j).item = j
      BY <3>1 DEF Invalidated, SaleEvent, Listings
    <3>3. j # e.item
      BY <2>2, <2>5
    <3> QED BY <2>2, <2>3, <2>5, <3>1, <3>2, <3>3 DEF ChainMoves
  <2> QED BY <1>2, <2>1, <2>4, <2>5 DEF Execute
<1> QED BY <1>1, <1>2

LEMMA ChainStep ==
    ASSUME History(news, sale), market' = market, ChainMoves
    PROVE  /\ History(news', sale')
           /\ Len(news) \in Nat /\ Len(news') \in Nat /\ Len(news) <= Len(news')
           /\ \A k \in 1..Len(news) : news'[k] = news[k]
<1>0. Len(news) \in Nat
  BY DEF History
<1>1. CASE UNCHANGED <<sale, news>>
  BY <1>0, <1>1
<1>2. ASSUME NEW e \in SaleEvent, e.set \/ sale[e.item] # "none", Happens(e)
      PROVE  /\ History(news', sale')
             /\ Len(news') = Len(news) + 1
             /\ \A k \in 1..Len(news) : news'[k] = news[k]
  <2>1. /\ History(Append(news, e), [sale EXCEPT ![e.item] = e.listing])
        /\ Len(Append(news, e)) = Len(news) + 1
        /\ \A k \in 1..Len(news) : Append(news, e)[k] = news[k]
    BY <1>2, HistoryGrows
  <2>2. sale' = [sale EXCEPT ![e.item] = e.listing] /\ news' = Append(news, e)
    BY <1>2 DEF Happens
  <2> QED BY <2>1, <2>2
<1>3. ASSUME NEW e \in SaleEvent, NEW f \in SaleEvent, e.set \/ sale[e.item] # "none",
             sale[f.item] # "none", f.item # e.item, BothHappen(e, f)
      PROVE  /\ History(news', sale')
             /\ Len(news') = Len(news) + 2
             /\ \A k \in 1..Len(news) : news'[k] = news[k]
  <2> DEFINE q == Append(news, e)
             z == [sale EXCEPT ![e.item] = e.listing]
  <2>1. History(q, z) /\ Len(q) = Len(news) + 1 /\ \A k \in 1..Len(news) : q[k] = news[k]
    BY <1>3, HistoryGrows
  <2>2. z[f.item] # "none"
    <3>1. f.item \in Items /\ e.item \in Items
      BY DEF SaleEvent
    <3>2. sale \in [Items -> Listings] /\ sale[f.item] # "none" /\ f.item # e.item
      BY <1>3 DEF History
    <3> QED BY <3>1, <3>2
  <2>3. sale' = [z EXCEPT ![f.item] = f.listing] /\ news' = Append(q, f)
    BY <1>3 DEF BothHappen
  <2> HIDE DEF q, z
  <2>4. /\ History(news', sale') /\ Len(news') = Len(q) + 1
        /\ \A k \in 1..Len(q) : news'[k] = q[k]
    <3>1. /\ History(Append(q, f), [z EXCEPT ![f.item] = f.listing])
          /\ Len(Append(q, f)) = Len(q) + 1
          /\ \A k \in 1..Len(q) : Append(q, f)[k] = q[k]
      BY <2>1, <2>2, HistoryGrows
    <3> QED BY <2>3, <3>1
  <2>5. \A k \in 1..Len(news) : k \in 1..Len(q)
    BY <1>0, <2>1
  <2> QED BY <1>0, <2>1, <2>4, <2>5
<1> QED BY <1>0, <1>1, <1>2, <1>3 DEF ChainMoves

LEMMA StoredFrame ==
    ASSUME StoredInv, market' = market, ChainMoves, UNCHANGED <<indexed, row, overtaken>>,
           \A s \in stores' : StoreHolds(s)
    PROVE  StoredInv'
<1>1. /\ History(news', sale') /\ Len(news) \in Nat /\ Len(news') \in Nat
      /\ Len(news) <= Len(news') /\ \A k \in 1..Len(news) : news'[k] = news[k]
  BY ChainStep DEF StoredInv
<1>2. indexed \in 0..Len(news) /\ indexed \in 0..Len(news')
  BY <1>1 DEF StoredInv
<1>3. ASSUME NEW i, NEW l, NEW n \in 0..Len(news), ListedAt(news, i, n, l)
      PROVE  ListedAt(news', i, n, l)
  <2>1. n \in Nat /\ \A k \in 1..n : news'[k] = news[k]
    BY <1>1
  <2> QED BY <1>3, <2>1, ListedKept
<1>4. ASSUME NEW i \in Items PROVE RowHolds(i)' /\ RowThere(i)'
  <2>1. RowHolds(i) /\ RowThere(i)
    BY DEF StoredInv
  <2>2. RowThere(i)'
    <3>1. \A k \in 1..indexed : k \in 1..Len(news)
      BY <1>1, <1>2
    <3> QED BY <1>1, <2>1, <3>1 DEF RowThere
  <2>3. CASE \E n \in indexed..Len(news) : ListedAt(news, i, n, Says(i))
    <3>1. PICK n \in indexed..Len(news) : ListedAt(news, i, n, Says(i))
      BY <2>3
    <3>2. n \in indexed'..Len(news') /\ ListedAt(news', i, n, Says(i))
      BY <1>1, <1>2, <1>3, <3>1
    <3> QED BY <2>2, <3>2 DEF RowHolds, Says, ListedAt
  <2> QED BY <2>1, <2>2, <2>3 DEF RowHolds
<1>5. ASSUME NEW s \in stores' PROVE StoreHolds(s)'
  <2>1. StoreHolds(s)
    OBVIOUS
  <2>2. CASE s.step = "write"
    <3>1. /\ s.seen \in 0..Len(news) /\ s.seen \in 0..Len(news')
          /\ \A i \in s.items : ListedAt(news', i, s.seen, s.found)
      BY <1>1, <1>3, <2>1, <2>2 DEF StoreHolds
    <3> QED BY <2>1, <3>1 DEF StoreHolds, ListedAt, IsStore
  <2> QED BY <2>1, <2>2 DEF StoreHolds, IsStore
<1>6. History(news, sale)'
  BY <1>1 DEF History, ListedAt
<1> QED BY <1>2, <1>4, <1>5, <1>6 DEF StoredInv

\* A store that is restated, or goes on to wait for nobody.
LEMMA Restated ==
    ASSUME NEW s, StoreHolds(s), NEW next
    PROVE  StoreHolds([s EXCEPT !.state = next])
BY DEF StoreHolds, IsStore

\* An answer of the contract.
LEMMA AnswerStep ==
    ASSUME StoredInv, NEW p \in Pages, NEW answer, StoreHolds(answer), Answered(p, answer)
    PROVE  StoredInv'
<1>1. UNCHANGED <<market, indexed, row, overtaken>> /\ ChainMoves
  BY DEF Answered, rowsUnchanged, chainVars, ChainMoves
<1>2. \A s \in stores : StoreHolds(s)
  BY DEF StoredInv
<1>3. \A s \in stores' : StoreHolds(s)
  <2>1. \A s \in Held(p) \cup {answer} : StoreHolds([s EXCEPT !.state = "awaited"])
    BY <1>2, Restated DEF Held
  <2> QED BY <1>2, <2>1 DEF Answered
<1> QED BY <1>1, <1>3, StoredFrame

LEMMA ReadsStep ==
    ASSUME StoredInv, NEW p \in Pages, ReadPrice(p) \/ ReadAuctionId(p)
    PROVE  StoredInv'
<1>1. /\ Isolate(p) \in Pieces /\ Len(news) \in 0..Len(news)
      /\ \A i \in Items : ListedAt(news, i, Len(news), sale[i]) /\ sale[i] \in Listings
  BY DEF StoredInv, Isolate, History
<1>2. PriceOf(Isolate(p)) \in Items /\ AuctionsOf(Isolate(p)) \subseteq Items
  BY <1>1 DEF PriceOf, AuctionsOf, Items, StoredInv
<1>3. CASE ReadPrice(p)
  <2>1. PICK answer :
          answer = [page |-> p, what |-> "price", state |-> "held", step |-> "write",
                    items |-> {PriceOf(Isolate(p))}, found |-> sale[PriceOf(Isolate(p))],
                    seen |-> Len(news)]
    OBVIOUS
  <2>2. StoreHolds(answer)
    BY <1>1, <1>2, <2>1 DEF StoreHolds, IsStore
  <2> QED BY <1>3, <2>1, <2>2, AnswerStep DEF ReadPrice
<1>4. CASE ReadAuctionId(p)
  <2> DEFINE live == LiveAuctions(Isolate(p))
  <2>1. PICK answer :
          answer = [page |-> p, what |-> "auction", state |-> "held",
                    step |-> IF live = {} THEN "write" ELSE "read",
                    items |-> IF live = {} THEN AuctionsOf(Isolate(p)) ELSE live,
                    found |-> "none", seen |-> Len(news)]
    OBVIOUS
  <2>2. live \subseteq AuctionsOf(Isolate(p))
    BY DEF LiveAuctions
  <2>3. ASSUME live = {} PROVE StoreHolds(answer)
    <3>1. ASSUME NEW i \in AuctionsOf(Isolate(p)) PROVE sale[i] = "none"
      BY <2>3 DEF LiveAuctions, Live, ItemsOf, AuctionsOf, StoredInv
    <3>2. answer.step = "write" /\ answer.items = AuctionsOf(Isolate(p))
          /\ answer.found = "none" /\ answer.seen = Len(news) /\ IsStore(answer)
      BY <2>1, <2>3 DEF IsStore
    <3>3. "none" \in Listings
      BY DEF Listings
    <3>4. \A i \in answer.items : ListedAt(news, i, answer.seen, answer.found)
      BY <1>1, <1>2, <3>1, <3>2
    <3>5. answer.items \subseteq Items /\ answer.seen \in 0..Len(news)
      BY <1>1, <1>2, <3>2
    <3> HIDE DEF live
    <3> QED BY <3>2, <3>3, <3>4, <3>5 DEF StoreHolds
  <2>4. ASSUME live # {} PROVE StoreHolds(answer)
    <3>1. answer.step = "read" /\ answer.items = live /\ IsStore(answer)
      BY <2>1, <2>4 DEF IsStore
    <3>2. answer.items \subseteq Items
      BY <1>2, <2>2, <3>1
    <3> HIDE DEF live
    <3> QED BY <3>1, <3>2 DEF StoreHolds
  <2> QED BY <1>4, <2>1, <2>3, <2>4, AnswerStep DEF ReadAuctionId
<1> QED BY <1>3, <1>4

LEMMA PageMoves ==
    ASSUME StoredInv, NEW p \in Pages, PageStep(p)
    PROVE  StoredInv'
<1>1. CASE OpenPage(p) \/ ClosePage(p) \/ LoadStored(p) \/ Click(p) \/ Confirm(p)
  <2>1. UNCHANGED <<market, sale, news, indexed, row, overtaken, stores>>
    BY <1>1 DEF OpenPage, ClosePage, LoadStored, Click, Confirm, pageUnchanged,
                rowsUnchanged, chainVars
  <2> QED BY <2>1, StoredFrame DEF ChainMoves, StoredInv
<1>2. CASE ReadFails(p)
  <2>1. UNCHANGED <<market, sale, news, indexed, row, overtaken>> /\ stores' \subseteq stores
    BY <1>2 DEF ReadFails, rowsUnchanged, chainVars
  <2> QED BY <2>1, StoredFrame DEF ChainMoves, StoredInv
<1>3. CASE MineOfPage(p)
  <2>1. UNCHANGED <<market, indexed, row, overtaken, stores>>
    BY <1>3 DEF MineOfPage
  <2>2. ChainMoves
    BY <1>3, ExecuteMoves DEF MineOfPage, ChainMoves, chainVars
  <2> QED BY <2>1, <2>2, StoredFrame DEF StoredInv
<1> QED BY <1>1, <1>2, <1>3, ReadsStep DEF PageStep

\* The auction itself is read, and stores that fail are forgotten.
LEMMA ReadAuctionStep ==
    ASSUME StoredInv, NEW s \in stores, ReadAuction(s) \/ StoreFails(s)
    PROVE  StoredInv'
<1>1. UNCHANGED <<market, sale, news, indexed, row, overtaken>>
  BY DEF ReadAuction, StoreFails, rowsUnchanged, chainVars
<1>2. \A r \in stores : StoreHolds(r)
  BY DEF StoredInv
<1>3. \A r \in stores' : StoreHolds(r)
  <2>1. CASE StoreFails(s)
    <3>1. \A r \in Beside(s) : StoreHolds([r EXCEPT !.state = "left"])
      BY <1>2, Restated DEF Beside
    <3> QED BY <1>2, <2>1, <3>1 DEF StoreFails
  <2>2. CASE ReadAuction(s) /\ stores' \subseteq stores
    BY <1>2, <2>2
  <2>3. ASSUME NEW i \in s.items,
               stores' = (stores \ {s}) \cup
                  {[s EXCEPT !.step = "write", !.items = {i}, !.found = sale[i],
                             !.seen = Len(news)]}
        PROVE  \A r \in stores' : StoreHolds(r)
    <3>1. PICK z : z = [s EXCEPT !.step = "write", !.items = {i}, !.found = sale[i],
                                 !.seen = Len(news)]
      OBVIOUS
    <3>2. IsStore(s) /\ i \in Items
      BY <1>2 DEF StoreHolds
    <3>3. /\ IsStore(z) /\ z.items = {i} /\ z.found = sale[i] /\ z.seen = Len(news)
      BY <3>1, <3>2 DEF IsStore
    <3>4. ListedAt(news, i, Len(news), sale[i]) /\ sale[i] \in Listings /\ Len(news) \in 0..Len(news)
      BY <3>2 DEF StoredInv, History
    <3>5. StoreHolds(z)
      BY <3>2, <3>3, <3>4 DEF StoreHolds
    <3> QED BY <1>2, <2>3, <3>1, <3>5
  <2> QED BY <2>1, <2>2, <2>3 DEF ReadAuction, Finish
<1> QED BY <1>1, <1>3, StoredFrame DEF ChainMoves

LEMMA WriteStep ==
    ASSUME StoredInv, NEW s \in stores, WriteLive(s)
    PROVE  StoredInv'
<1>1. UNCHANGED <<market, sale, news, indexed>> /\ stores' \subseteq stores
  BY DEF WriteLive, Finish, chainVars
<1>2. /\ StoreHolds(s) /\ s.step = "write"
      /\ row \in [Items -> Listings \cup {"absent"}]
      /\ \A i \in Items : RowHolds(i) /\ RowThere(i)
      /\ indexed \in 0..Len(news) /\ Len(news) \in Nat
  BY DEF WriteLive, StoredInv, History
<1>3. /\ row' = [i \in Items |-> persistLive(s, i)]
      /\ overtaken' = IF indexed > s.seen THEN overtaken \cup {i \in Items : row'[i] # row[i]}
                                          ELSE overtaken
  BY DEF WriteLive
<1>4. /\ s.seen \in 0..Len(news) /\ s.found \in Listings /\ s.items \subseteq Items
      /\ \A i \in s.items : ListedAt(news, i, s.seen, s.found)
      /\ "absent" \notin Listings /\ "none" \in Listings
  BY <1>2 DEF StoreHolds, Listings
<1>5. ASSUME NEW i \in Items
      PROVE  /\ row'[i] \in Listings \cup {"absent"}
             /\ row'[i] = "absent" => row[i] = "absent"
             /\ i \notin s.items => row'[i] = row[i]
             /\ i \in s.items => Says(i)' = s.found
  BY <1>2, <1>3, <1>4 DEF persistLive, Says
<1>6. ASSUME NEW i \in Items PROVE RowHolds(i)' /\ RowThere(i)'
  <2>1. RowThere(i)'
    BY <1>1, <1>2, <1>5 DEF RowThere
  <2>2. CASE row'[i] = row[i]
    BY <1>1, <1>2, <1>3, <2>1, <2>2 DEF RowHolds, ListedAt, Says
  <2>3. CASE row'[i] # row[i] /\ indexed > s.seen
    BY <1>3, <2>1, <2>3 DEF RowHolds
  <2>4. CASE row'[i] # row[i] /\ ~(indexed > s.seen)
    <3>1. i \in s.items /\ Says(i)' = s.found /\ ListedAt(news, i, s.seen, s.found)
      BY <1>4, <1>5, <2>4
    <3>2. s.seen \in indexed'..Len(news')
      BY <1>1, <1>2, <1>4, <2>4
    <3>3. ListedAt(news, i, s.seen, Says(i))'
      BY <1>1, <3>1 DEF ListedAt
    <3> QED BY <1>1, <2>1, <3>2, <3>3 DEF RowHolds
  <2> QED BY <2>1, <2>2, <2>3, <2>4
<1>7. \A r \in stores' : StoreHolds(r)'
  BY <1>1 DEF StoredInv, StoreHolds, ListedAt, IsStore
<1>8. row' \in [Items -> Listings \cup {"absent"}]
  BY <1>3, <1>5
<1>9. History(news, sale)'
  BY <1>1 DEF StoredInv, History, ListedAt
<1> QED BY <1>1, <1>6, <1>7, <1>8, <1>9 DEF StoredInv

LEMMA BulkMoves ==
    ASSUME StoredInv, loadTargets \/ runDelistAll \/ BulkStep
    PROVE  StoredInv'
<1>1. UNCHANGED <<market, indexed, row, stores, overtaken>>
  BY DEF loadTargets, runDelistAll, BulkStep, TargetsArrive, TakeTarget, SwitchChain,
         ConfirmDelist, MineDelist, FinishRun, bulkUnchanged
<1>2. CASE UNCHANGED chainVars
  BY <1>1, <1>2, StoredFrame DEF chainVars, ChainMoves, StoredInv
<1>3. CASE MineDelist
  <2>1. ASSUME NEW i \in Items, NEW action, Possible(i, action), Execute(i, action)
        PROVE  StoredInv'
    BY <1>1, <2>1, ExecuteMoves, StoredFrame DEF StoredInv
  <2> QED BY <1>2, <1>3, <2>1 DEF MineDelist
<1> QED BY <1>2, <1>3 DEF loadTargets, runDelistAll, BulkStep, TargetsArrive, TakeTarget,
        SwitchChain, ConfirmDelist, FinishRun

\* An upsert says what its event says, and so does an updateMany of a row that is
\* there; where it is not, the listing is from before the index.
LEMMA IndexStep == StoredInv /\ IndexEvent => StoredInv'
<1> SUFFICES ASSUME StoredInv, IndexEvent PROVE StoredInv'
  OBVIOUS
<1> DEFINE k == indexed + 1
           e == news[k]
<1>1. /\ indexed < Len(news) /\ indexed' = k
      /\ row' = [row EXCEPT ![e.item] = handleEvent(e)]
      /\ UNCHANGED <<market, sale, news, stores, overtaken>>
  BY DEF IndexEvent, chainVars
<1>2. /\ indexed \in Nat /\ Len(news) \in Nat /\ k \in 1..Len(news) /\ k \in Nat \ {0}
      /\ row \in [Items -> Listings \cup {"absent"}]
      /\ e \in SaleEvent /\ e.item \in Items /\ e.listing \in Listings
      /\ "absent" \notin Listings
  <2>1. /\ indexed \in Nat /\ Len(news) \in Nat /\ k \in 1..Len(news) /\ k \in Nat \ {0}
        /\ row \in [Items -> Listings \cup {"absent"}] /\ news \in Seq(SaleEvent)
    BY <1>1 DEF StoredInv, History
  <2>2. e \in SaleEvent
    BY <2>1
  <2> QED BY <2>1, <2>2 DEF SaleEvent, Listings
<1> HIDE DEF k, e
<1>3. ASSUME NEW i \in Items PROVE RowHolds(i)' /\ RowThere(i)'
  <2>1. RowHolds(i) /\ RowThere(i)
    BY DEF StoredInv
  <2>2. CASE i = e.item /\ row'[i] # "absent"
    <3>1. row'[i] = e.listing
      BY <1>1, <1>2, <2>2 DEF handleEvent
    <3>2. ListedAt(news, i, k, e.listing)
      BY <1>2, <2>2, ListedNow DEF e
    <3>3. k \in indexed'..Len(news') /\ Says(i)' = e.listing
      BY <1>1, <1>2, <2>2, <3>1 DEF Says
    <3> QED BY <1>1, <2>2, <3>2, <3>3 DEF RowHolds, RowThere, ListedAt
  <2>3. CASE i = e.item /\ row'[i] = "absent"
    <3>1. row[i] = "absent" /\ ~e.set
      BY <1>1, <1>2, <2>3 DEF handleEvent
    <3>2. market.listed[i] # "none" \/ \E m \in 1..(k - 1) : news[m].item = i
      BY <1>2, <2>3, <3>1 DEF StoredInv, History, e
    <3>3. k - 1 = indexed
      BY <1>2 DEF k
    <3>4. i \in market.older
      BY <2>1, <3>1, <3>2, <3>3 DEF RowThere
    <3> QED BY <1>1, <2>3, <3>4 DEF RowHolds, RowThere
  <2>4. CASE i # e.item
    <3>1. row'[i] = row[i]
      BY <1>1, <1>2, <2>4
    <3>2. ASSUME NEW n \in indexed..Len(news), ListedAt(news, i, n, Says(i))
          PROVE  \E m \in k..Len(news) : ListedAt(news, i, m, Says(i))
      <4>1. CASE n = indexed
        <5>1. news[n + 1].item # i /\ n \in Nat /\ n + 1 = k
          BY <1>2, <2>4, <4>1 DEF k, e
        <5>2. ListedAt(news, i, k, Says(i))
          BY <3>2, <5>1, ListedNext
        <5> QED BY <1>2, <5>2
      <4>2. CASE n # indexed
        <5>1. n \in k..Len(news)
          BY <1>2, <4>2 DEF k
        <5> QED BY <3>2, <5>1
      <4> QED BY <4>1, <4>2
    <3>3. RowThere(i)'
      <4>1. \A m \in 1..k : m \in 1..indexed \/ m = k
        BY <1>2 DEF k
      <4>2. (\E m \in 1..k : news[m].item = i) => \E m \in 1..indexed : news[m].item = i
        BY <2>4, <4>1 DEF e
      <4> QED BY <1>1, <2>1, <3>1, <4>2 DEF RowThere
    <3>4. Says(i)' = Says(i)
      BY <3>1 DEF Says
    <3>5. RowHolds(i)'
      <4>1. CASE \E n \in indexed..Len(news) : ListedAt(news, i, n, Says(i))
        <5>1. PICK m \in k..Len(news) : ListedAt(news, i, m, Says(i))
          BY <3>2, <4>1
        <5>2. ListedAt(news, i, m, Says(i))'
          BY <1>1, <3>4, <5>1 DEF ListedAt
        <5> QED BY <1>1, <5>1, <5>2 DEF RowHolds
      <4> QED BY <1>1, <2>1, <3>1, <4>1 DEF RowHolds
    <3> QED BY <3>3, <3>5
  <2> QED BY <2>2, <2>3, <2>4
<1>4. \A r \in stores' : StoreHolds(r)'
  BY <1>1 DEF StoredInv, StoreHolds, ListedAt, IsStore
<1>5. indexed' \in 0..Len(news') /\ row' \in [Items -> Listings \cup {"absent"}]
  BY <1>1, <1>2 DEF handleEvent
<1>6. History(news, sale)'
  BY <1>1 DEF StoredInv, History, ListedAt
<1> QED BY <1>1, <1>3, <1>4, <1>5, <1>6 DEF StoredInv

LEMMA StoredStep == StoredInv /\ [MarketPagesNext]_marketVars => StoredInv'
<1> SUFFICES ASSUME StoredInv, [MarketPagesNext]_marketVars PROVE StoredInv'
  OBVIOUS
<1>1. ASSUME NEW i \in Items, Trade(i) \/ EndAuction(i) PROVE StoredInv'
  <2>1. UNCHANGED <<market, indexed, row, stores, overtaken>>
    BY <1>1 DEF Trade, EndAuction
  <2>2. ChainMoves
    BY <1>1, ExecuteMoves DEF Trade, EndAuction, ChainMoves
  <2> QED BY <2>1, <2>2, StoredFrame DEF StoredInv
<1>2. CASE \E p \in Pages : PageStep(p)
  BY <1>2, PageMoves
<1>3. CASE StoreStep
  BY <1>3, ReadAuctionStep, WriteStep DEF StoreStep
<1>4. CASE UNCHANGED marketVars
  BY <1>4, StoredFrame DEF marketVars, chainVars, ChainMoves, StoredInv
<1> QED BY <1>1, <1>2, <1>3, <1>4, BulkMoves, IndexStep DEF MarketPagesNext

\* However trades, the index and the pages that read the contract themselves
\* interleave, a row says what is on the chain once the index has caught up,
\* unless a page has changed it to what the index had passed (getTokenMarketState).
THEOREM StoredListingsAreTrueHolds == MarketPagesSpec => []StoredListingsAreTrue
<1>1. MarketPagesInit => StoredInv
  <2> SUFFICES ASSUME MarketPagesInit PROVE StoredInv
    OBVIOUS
  <2>1. /\ market.work \in [Pages -> Pieces] /\ market.listed \in [Items -> Listings]
        /\ MaxAuctions \in Nat
        /\ sale = market.listed /\ news = <<>> /\ indexed = 0 /\ stores = {}
        /\ row = [i \in Items |-> IF sale[i] = "none" \/ i \in market.older THEN "absent"
                                  ELSE sale[i]]
    BY MarketPagesAssumption DEF MarketPagesInit, Market
  <2>2. news \in Seq(SaleEvent) /\ Len(news) = 0 /\ 0 \in 0..0 /\ \A k \in 1..0 : FALSE
    BY <2>1
  <2>3. \A i : ListedAt(news, i, 0, market.listed[i])
    BY <2>2 DEF ListedAt
  <2>4. History(news, sale)
    BY <2>1, <2>2, <2>3 DEF History
  <2>5. row \in [Items -> Listings \cup {"absent"}] /\ "absent" \notin Listings
    BY <2>1 DEF Listings
  <2>6. ASSUME NEW i \in Items PROVE RowHolds(i) /\ RowThere(i)
    <3>1. RowThere(i)
      BY <2>1, <2>2, <2>5 DEF RowThere
    <3>2. (i \in market.older /\ row[i] = "absent") \/ Says(i) = market.listed[i]
      BY <2>1, <2>5 DEF Says
    <3>3. 0 \in indexed..Len(news)
      BY <2>1, <2>2
    <3> QED BY <2>3, <3>1, <3>2, <3>3 DEF RowHolds
  <2> QED BY <2>1, <2>2, <2>4, <2>5, <2>6 DEF StoredInv
<1>2. StoredInv => StoredListingsAreTrue
  <2> SUFFICES ASSUME StoredInv, NEW i \in Items, indexed = Len(news), i \notin overtaken
               PROVE  \/ row[i] = sale[i]
                      \/ row[i] = "absent" /\ (sale[i] = "none" \/ i \in market.older)
    BY DEF StoredListingsAreTrue
  <2>1. Len(news) \in Nat /\ ListedAt(news, i, Len(news), sale[i])
    BY DEF StoredInv, History
  <2>2. CASE \E n \in indexed..Len(news) : ListedAt(news, i, n, Says(i))
    <3>1. ListedAt(news, i, Len(news), Says(i))
      BY <2>1, <2>2
    <3> QED BY <2>1, <3>1, ListedOnce DEF Says
  <2> QED BY <2>2 DEF StoredInv, RowHolds
<1> QED BY <1>1, <1>2, StoredStep, PTL DEF MarketPagesSpec

-----------------------------------------------------------------------------
(* The backfill of profiles.  What a checkpoint claims is that the artists  *)
(* before its cursor are concluded or wait in it.                          *)

Covers(cp) == \A a \in Artists : a <= cp.cursor => Concluded(a) \/ a \in cp.pending

CheckpointSound(cp) ==
    /\ cp \in [cursor : Nat, processed : {cp.processed}, pending : SUBSET Artists,
               torn : BOOLEAN]
    /\ ~cp.torn => Covers(cp)

\* A script has a sound checkpoint but for the artists of its batch, and a
\* result that is not to be tried again is a verdict.
ScriptSound(q) ==
    /\ q \in [step : {q.step}, mem : {q.mem}, due : SUBSET Artists,
              fresh : SUBSET Artists, results : {q.results}, cursorAfterBatch : Nat]
    /\ q.mem \in [cursor : Nat, processed : {q.mem.processed}, pending : SUBSET Artists,
                  torn : BOOLEAN]
    /\ \A r \in q.results : r[1] \in Artists /\ (r[2] # "forbidden" => Concluded(r[1]))
    /\ q.step # "batch" => Covers(q.mem)
    /\ q.step = "batch" => \A a \in Artists : a <= q.cursorAfterBatch =>
          Concluded(a) \/ a \in q.mem.pending \/ a \in q.due

\* A task that may end as missing is in no doubt.
TaskSound(q) ==
    /\ q \in [step : {q.step}, artist : {q.artist}, byUsername : {q.byUsername},
              heard : {q.heard}, existed : {q.existed}]
    /\ q.step # "idle" => q.artist \in Artists
    /\ q.step = "missing" => ~InDoubt(q.heard)
    /\ q.step = "by wallet" => ~InDoubt(q.heard) \/ q.byUsername \in Failure

NobodyInv ==
    /\ circle.artists \in Nat /\ circle.batch \in Nat
    /\ DOMAIN verdict = Artists /\ DOMAIN archiver = Tasks /\ DOMAIN script = Backfills
    /\ CheckpointSound(file)
    /\ \A s \in Backfills : ScriptSound(script[s])
    /\ \A x \in Tasks : TaskSound(archiver[x])
    /\ \A a \in Artists : \A v \in verdict[a] :
          v.outcome = "missing" => ~InDoubt(v.heard)

\* Verdicts are only added.
LEMMA VerdictsStay ==
    ASSUME circle' = circle, \A a \in Artists : Concluded(a) => Concluded(a)'
    PROVE  /\ Artists' = Artists /\ Tasks' = Tasks
           /\ \A cp : CheckpointSound(cp) => CheckpointSound(cp)'
           /\ \A q : ScriptSound(q) => ScriptSound(q)'
           /\ \A q : TaskSound(q) <=> TaskSound(q)'
<1>1. Artists' = Artists
  BY DEF Artists
<1>2. Tasks' = Tasks
  BY <1>1 DEF Tasks
<1>3. \A cp : Covers(cp) => Covers(cp)'
  BY <1>1 DEF Covers
<1>4. \A cp : CheckpointSound(cp) => CheckpointSound(cp)'
  BY <1>1, <1>3 DEF CheckpointSound
<1>5. \A q : ScriptSound(q) => ScriptSound(q)'
  BY <1>1, <1>3 DEF ScriptSound
<1>6. \A q : TaskSound(q) <=> TaskSound(q)'
  BY <1>1 DEF TaskSound
<1> QED BY <1>1, <1>2, <1>4, <1>5, <1>6

\* Nothing was recorded: one task, one script or the file moves on.
LEMMA NobodyFrame ==
    ASSUME NobodyInv, UNCHANGED <<circle, verdict>>,
           CheckpointSound(file'),
           DOMAIN script' = Backfills, \A s \in Backfills : ScriptSound(script'[s]),
           DOMAIN archiver' = Tasks, \A x \in Tasks : TaskSound(archiver'[x])
    PROVE  NobodyInv'
<1>1. /\ Artists' = Artists /\ Tasks' = Tasks
      /\ \A cp : CheckpointSound(cp) => CheckpointSound(cp)'
      /\ \A q : ScriptSound(q) => ScriptSound(q)'
      /\ \A q : TaskSound(q) <=> TaskSound(q)'
  BY VerdictsStay DEF Concluded
<1> QED BY <1>1 DEF NobodyInv

LEMMA OneTaskMoves ==
    ASSUME NobodyInv, UNCHANGED <<circle, file, script, verdict>>, NEW x \in Tasks, NEW q,
           archiver' = [archiver EXCEPT ![x] = q], TaskSound(q)
    PROVE  NobodyInv'
BY NobodyFrame DEF NobodyInv

LEMMA OneScriptMoves ==
    ASSUME NobodyInv, UNCHANGED <<circle, archiver, verdict>>, CheckpointSound(file'),
           NEW s \in Backfills, NEW q,
           script' = [script EXCEPT ![s] = q], ScriptSound(q)
    PROVE  NobodyInv'
BY NobodyFrame DEF NobodyInv

LEMMA NoTaskSound == NoTask.step = "idle" /\ ~InDoubt(NoTask.heard) /\ TaskSound(NoTask)
BY DEF NoTask, TaskSound, InDoubt

LEMMA NoCheckpointSound ==
    circle.artists \in Nat =>
        /\ CheckpointSound(NoCheckpoint) /\ ~NoCheckpoint.torn
        /\ Covers(NoCheckpoint) /\ CheckpointSound(Torn)
<1>1. NoCheckpoint \in [cursor : {0}, processed : {0}, pending : {{}}, torn : {FALSE}]
  BY DEF NoCheckpoint
<1>2. \A a \in Artists : circle.artists \in Nat => ~(a <= 0)
  BY DEF Artists
<1>3. PICK c : c = Torn
  OBVIOUS
<1>4. c = [NoCheckpoint EXCEPT !.torn = TRUE]
  BY <1>3 DEF Torn
<1>5. c \in [cursor : {0}, processed : {0}, pending : {{}}, torn : {TRUE}]
  BY <1>1, <1>4
<1>6. /\ NoCheckpoint.cursor = 0 /\ NoCheckpoint.processed = 0
      /\ NoCheckpoint.pending = {} /\ NoCheckpoint.torn = FALSE
  BY <1>1
<1>7. c.cursor = 0 /\ c.processed = 0 /\ c.pending = {} /\ c.torn = TRUE
  BY <1>5
<1>8. circle.artists \in Nat => Covers(NoCheckpoint)
  BY <1>2, <1>6 DEF Covers
<1>9. {c.processed} = {0} /\ {NoCheckpoint.processed} = {0}
  BY <1>6, <1>7
<1>10. /\ c \in [cursor : Nat, processed : {0}, pending : SUBSET Artists, torn : BOOLEAN]
       /\ NoCheckpoint \in [cursor : Nat, processed : {0}, pending : SUBSET Artists,
                            torn : BOOLEAN]
  <2>1. NoCheckpoint \in [cursor : Nat, processed : {0}, pending : SUBSET Artists,
                          torn : BOOLEAN]
    BY DEF NoCheckpoint
  <2> QED BY <1>4, <2>1
<1>11. CheckpointSound(c)
  BY <1>7, <1>9, <1>10 DEF CheckpointSound
<1>12. circle.artists \in Nat => CheckpointSound(NoCheckpoint)
  BY <1>8, <1>9, <1>10 DEF CheckpointSound
<1> QED BY <1>3, <1>6, <1>8, <1>11, <1>12

LEMMA NoScriptSound ==
    circle.artists \in Nat => ScriptSound(NoScript) /\ NoScript.results = {}
<1>1. NoScript \in [step : {"down"}, mem : {NoCheckpoint}, due : {{}}, fresh : {{}},
                    results : {{}}, cursorAfterBatch : {0}]
  BY DEF NoScript
<1>2. circle.artists \in Nat => Covers(NoCheckpoint)
  BY NoCheckpointSound
<1>3. NoCheckpoint \in [cursor : {0}, processed : {0}, pending : {{}}, torn : {FALSE}]
  BY DEF NoCheckpoint
<1>4. /\ NoScript.step = "down" /\ NoScript.mem = NoCheckpoint /\ NoScript.due = {}
      /\ NoScript.fresh = {} /\ NoScript.results = {} /\ NoScript.cursorAfterBatch = 0
  BY <1>1
<1>5. NoScript \in [step : {NoScript.step}, mem : {NoScript.mem}, due : SUBSET Artists,
                    fresh : SUBSET Artists, results : {NoScript.results},
                    cursorAfterBatch : Nat]
  BY <1>1, <1>4
<1>6. {NoCheckpoint.processed} = {0}
  BY <1>3
<1>7. NoCheckpoint \in [cursor : Nat, processed : {NoCheckpoint.processed},
                        pending : SUBSET Artists, torn : BOOLEAN]
  <2>1. NoCheckpoint \in [cursor : Nat, processed : {0}, pending : SUBSET Artists,
                          torn : BOOLEAN]
    BY DEF NoCheckpoint
  <2> QED BY <1>6, <2>1
<1> QED BY <1>2, <1>4, <1>5, <1>7 DEF ScriptSound

LEMMA MoveKeeps ==
    ASSUME NobodyInv, UNCHANGED <<circle, file, script, verdict>>, NEW x \in Tasks,
           NEW step, Move(x, step), archiver[x].step # "idle",
           step \notin {"missing", "by wallet"}
    PROVE  NobodyInv'
<1>1. TaskSound(archiver[x]) /\ DOMAIN archiver = Tasks
  BY DEF NobodyInv
<1>2. PICK q : q = [archiver[x] EXCEPT !.step = step]
  OBVIOUS
<1>3. archiver' = [archiver EXCEPT ![x] = q]
  BY <1>1, <1>2 DEF Move
<1>4. TaskSound(q)
  BY <1>1, <1>2 DEF TaskSound
<1> QED BY <1>3, <1>4, OneTaskMoves

\* A task ends, with a result for its script.
LEMMA ConcludeKeeps ==
    ASSUME NobodyInv, UNCHANGED <<circle, file>>, NEW x \in Tasks, archiver[x].step # "idle",
           NEW outcome, NEW heard, ConcludeIn(x, outcome, heard),
           outcome = "missing" => ~InDoubt(heard)
    PROVE  NobodyInv'
<1>1. /\ archiver' = [archiver EXCEPT ![x] = NoTask] /\ DOMAIN archiver = Tasks
      /\ Of(x) \in Artists /\ DOMAIN verdict = Artists /\ DOMAIN script = Backfills
  BY DEF NobodyInv, TaskSound, Of, ConcludeIn
<1>2. DOMAIN archiver' = Tasks /\ \A y \in Tasks : TaskSound(archiver'[y])
  BY <1>1, NoTaskSound DEF NobodyInv
<1>3. CASE IsVisit(x)
  BY <1>2, <1>3, NobodyFrame DEF ConcludeIn, NobodyInv
<1>4. CASE ~IsVisit(x)
  <2>1. x[1] \in Backfills
    BY <1>4 DEF IsVisit, Tasks
  <2>2. PICK s : s = x[1]
    OBVIOUS
  <2>3. PICK a : a = Of(x)
    OBVIOUS
  <2>4. s \in Backfills /\ a \in Artists
    BY <1>1, <2>1, <2>2, <2>3
  <2>5. /\ script' = [script EXCEPT ![s].results = @ \cup {<<a, outcome>>}]
        /\ verdict' = [verdict EXCEPT ![a] = IF outcome = "forbidden" THEN @
                                ELSE @ \cup {[outcome |-> outcome, heard |-> heard]}]
    BY <1>4, <2>2, <2>3 DEF ConcludeIn
  <2>6. \A b \in Artists : Concluded(b) => Concluded(b)'
    BY <1>1, <2>4, <2>5 DEF Concluded
  <2>7. outcome # "forbidden" => Concluded(a)'
    BY <1>1, <2>4, <2>5 DEF Concluded
  <2>8. /\ Artists' = Artists /\ Tasks' = Tasks
        /\ \A cp : CheckpointSound(cp) => CheckpointSound(cp)'
        /\ \A q : ScriptSound(q) => ScriptSound(q)'
        /\ \A q : TaskSound(q) <=> TaskSound(q)'
    BY <2>6, VerdictsStay
  <2>9. PICK q : q = [script[s] EXCEPT !.results = @ \cup {<<a, outcome>>}]
    OBVIOUS
  <2>10. /\ script'[s] = q /\ \A o \in Backfills \ {s} : script'[o] = script[o]
         /\ DOMAIN script' = Backfills
    BY <1>1, <2>4, <2>5, <2>9
  <2>11. ScriptSound(script[s])'
    <3>1. PICK p : p = script[s]
      OBVIOUS
    <3>2. ScriptSound(p)'
      BY <2>4, <2>8, <3>1 DEF NobodyInv
    <3>3. PICK r : r = <<a, outcome>>
      OBVIOUS
    <3>4. r[1] \in Artists' /\ (r[2] # "forbidden" => Concluded(r[1])')
      BY <2>4, <2>7, <2>8, <3>3
    <3>5. q = [p EXCEPT !.results = p.results \cup {r}]
      BY <2>9, <3>1, <3>3, <3>2 DEF ScriptSound
    <3>6. ScriptSound(q)'
      BY <3>2, <3>4, <3>5 DEF ScriptSound
    <3> QED BY <2>10, <3>6
  <2>12. \A b \in Artists : \A v \in verdict'[b] :
            v.outcome = "missing" => ~InDoubt(v.heard)
    BY <1>1, <2>4, <2>5 DEF NobodyInv
  <2>13. DOMAIN verdict' = Artists
    BY <1>1, <2>5
  <2> QED BY <1>2, <2>4, <2>8, <2>10, <2>11, <2>12, <2>13 DEF NobodyInv
<1> QED BY <1>3, <1>4

-----------------------------------------------------------------------------
\* A lookup with a source that failed ends in a failure or finds somebody.
LEMMA DoubtIsTold ==
    ASSUME NEW look \in LookUps, look.failing, look.result # "other"
    PROVE  look.result \in Failure \cup {"own"}
<1>1. PICK ans \in Answers :
          look = [result |-> lookupFoundationProfileByUsername(ans),
                  failing |-> Failing(ans) # {}]
  BY DEF LookUps
<1>2. /\ look.result = lookupFoundationProfileByUsername(ans)
      /\ Failing(ans) # {}
  BY <1>1
<1>3. CASE \E x \in Asked(ans) : ans[x] \in Found
  <2>1. lookupFoundationProfileByUsername(ans) \in Found
    <3>1. PICK y : y = CHOOSE x \in Asked(ans) : ans[x] \in Found
      OBVIOUS
    <3>2. ans[y] \in Found
      BY <1>3, <3>1
    <3> QED BY <1>3, <3>1, <3>2 DEF lookupFoundationProfileByUsername
  <2> QED BY <1>2, <2>1 DEF Found
<1>4. CASE ~\E x \in Asked(ans) : ans[x] \in Found
  <2>1. lookupFoundationProfileByUsername(ans) = FirstFailure(ans)
    BY <1>2, <1>4 DEF lookupFoundationProfileByUsername
  <2>2. Failing(ans) \subseteq {"scraped", "direct", "search"}
        /\ \A x \in Failing(ans) : ans[x] \in Failure
    BY DEF Failing, Asked
  <2>3. ans.scraped = ans["scraped"] /\ ans.direct = ans["direct"] /\ ans.search = ans["search"]
    OBVIOUS
  <2> QED BY <1>2, <2>1, <2>2, <2>3 DEF FirstFailure
<1> QED BY <1>3, <1>4

LEMMA UsernameStep ==
    ASSUME NobodyInv, NEW x \in Tasks, LookUpByUsername(x)
    PROVE  NobodyInv'
<1>1. PICK look \in LookUps :
          archiver' = [archiver EXCEPT
             ![x].step = IF look.result = "own" THEN "upsert" ELSE "by wallet",
             ![x].byUsername = look.result, ![x].heard = {look}]
  BY DEF LookUpByUsername
<1>2. UNCHANGED <<circle, file, script, verdict>> /\ archiver[x].step = "by username"
  BY DEF LookUpByUsername, taskUnchanged
<1>3. PICK step : step = IF look.result = "own" THEN "upsert" ELSE "by wallet"
  OBVIOUS
<1>4. PICK q : q = [archiver[x] EXCEPT !.step = step, !.byUsername = look.result,
                                       !.heard = {look}]
  OBVIOUS
<1>5. TaskSound(archiver[x]) /\ DOMAIN archiver = Tasks
  BY DEF NobodyInv
<1>6. archiver' = [archiver EXCEPT ![x] = q]
  BY <1>1, <1>3, <1>4, <1>5
<1>7. step \in {"upsert", "by wallet"}
  BY <1>3
<1>8. step = "by wallet" => ~InDoubt({look}) \/ look.result \in Failure
  BY <1>3, DoubtIsTold DEF InDoubt
<1>9. TaskSound(q)
  BY <1>2, <1>4, <1>5, <1>7, <1>8 DEF TaskSound
<1> QED BY <1>2, <1>6, <1>9, OneTaskMoves

LEMMA WalletStep ==
    ASSUME NobodyInv, NEW x \in Tasks, LookUpByWallet(x)
    PROVE  NobodyInv'
<1>1. /\ UNCHANGED <<circle, file>> /\ archiver[x].step = "by wallet"
      /\ TaskSound(archiver[x])
  BY DEF LookUpByWallet, taskUnchanged, NobodyInv
<1>2. ~InDoubt(archiver[x].heard) \/ archiver[x].byUsername \in Failure
  BY <1>1 DEF TaskSound
<1>3. CASE \E failure \in Failure : Conclude(x, failure)
  <2>1. PICK failure \in Failure : ConcludeIn(x, failure, archiver[x].heard)
    BY <1>3 DEF Conclude
  <2>2. failure # "missing"
    BY DEF Failure
  <2> QED BY <1>1, <1>2, <2>1, <2>2, ConcludeKeeps
<1>4. ASSUME NEW works \in WorksOfWallet, NEW look \in LookUps,
             LET r == lookupFoundationProfileByWallet(works, look)
                 u == archiver[x].byUsername
                 named == "username" \in works
                 outcome == IF r \in Failure THEN r ELSE IF u \in Failure THEN u
                            ELSE "missing"
             IN  CASE r = "own" -> Move(x, "upsert") /\ UNCHANGED <<script, verdict>>
                   [] r = "other" -> Conclude(x, "archived")
                   [] OTHER -> ConcludeIn(x, outcome, archiver[x].heard
                                              \cup (IF named THEN {look} ELSE {}))
      PROVE  NobodyInv'
  <2> DEFINE r == lookupFoundationProfileByWallet(works, look)
             u == archiver[x].byUsername
             named == "username" \in works
             outcome == IF r \in Failure THEN r ELSE IF u \in Failure THEN u ELSE "missing"
             heard == archiver[x].heard \cup (IF named THEN {look} ELSE {})
  <2>1. CASE r = "own"
    <3>1. Move(x, "upsert") /\ UNCHANGED <<script, verdict>>
      BY <1>4, <2>1
    <3> QED BY <1>1, <3>1, MoveKeeps
  <2>2. CASE r = "other"
    <3>1. ConcludeIn(x, "archived", archiver[x].heard)
      BY <1>4, <2>2 DEF Conclude
    <3> QED BY <1>1, <1>2, <3>1, ConcludeKeeps
  <2>3. CASE r # "own" /\ r # "other"
    <3>1. ConcludeIn(x, outcome, heard)
      BY <1>4, <2>3
    <3>2. outcome = "missing" => r \notin Failure /\ u \notin Failure
      BY DEF Failure
    <3>3. ASSUME named, look.failing, look.result # "other" PROVE r \in Failure
      <4>1. look.result \in Failure \cup {"own"}
        BY <3>3, DoubtIsTold
      <4>2. r = look.result
        BY <2>3, <3>3, <4>1 DEF lookupFoundationProfileByWallet, Failure, Found
      <4> QED BY <2>3, <4>1, <4>2
    <3>4. outcome = "missing" => ~InDoubt(heard)
      BY <1>2, <3>2, <3>3 DEF InDoubt
    <3> HIDE DEF outcome, heard
    <3> QED BY <1>1, <3>1, <3>4, ConcludeKeeps
  <2> QED BY <2>1, <2>2, <2>3
<1> QED BY <1>3, <1>4 DEF LookUpByWallet

LEMMA ArchiveStep ==
    ASSUME NobodyInv, NEW x \in Tasks,
           ConcludeMissing(x) \/ UpsertProfile(x) \/ FindAsset(x) \/ MarkAsset(x)
             \/ DownloadAsset(x) \/ RecordAsset(x)
    PROVE  NobodyInv'
<1>1. TaskSound(archiver[x]) /\ DOMAIN archiver = Tasks
  BY DEF NobodyInv
<1>3. UNCHANGED <<circle, file>> /\ archiver[x].step # "idle"
  BY DEF ConcludeMissing, UpsertProfile, FindAsset, MarkAsset, DownloadAsset, RecordAsset,
         taskUnchanged
<1>4. ASSUME NEW outcome, Conclude(x, outcome), outcome # "missing" PROVE NobodyInv'
  BY <1>3, <1>4, ConcludeKeeps DEF Conclude
<1>5. ASSUME NEW step, Move(x, step), UNCHANGED <<script, verdict>>,
             step \in {"find", "download", "downloaded", "failed"}
      PROVE  NobodyInv'
  BY <1>3, <1>5, MoveKeeps
<1>6. CASE ConcludeMissing(x)
  <2>1. ConcludeIn(x, "missing", archiver[x].heard) /\ archiver[x].step = "missing"
    BY <1>6 DEF ConcludeMissing, Conclude
  <2>2. ~InDoubt(archiver[x].heard)
    BY <1>1, <2>1 DEF TaskSound
  <2> QED BY <1>3, <2>1, <2>2, ConcludeKeeps
<1>7. CASE UpsertProfile(x)
  BY <1>4, <1>5, <1>7 DEF UpsertProfile
<1>8. CASE FindAsset(x)
  <2>1. CASE Conclude(x, "archived")
    BY <1>4, <2>1
  <2>2. CASE /\ archiver' = [archiver EXCEPT ![x].step = "mark",
                                             ![x].existed = asset[Of(x)] # "none"]
             /\ UNCHANGED <<script, verdict>>
    <3>1. PICK q : q = [archiver[x] EXCEPT !.step = "mark",
                                           !.existed = asset[Of(x)] # "none"]
      OBVIOUS
    <3>2. archiver' = [archiver EXCEPT ![x] = q]
      BY <1>1, <2>2, <3>1
    <3>3. TaskSound(q)
      BY <1>1, <1>3, <3>1 DEF TaskSound
    <3> QED BY <1>3, <2>2, <3>2, <3>3, OneTaskMoves
  <2> QED BY <1>8, <2>1, <2>2 DEF FindAsset
<1>9. CASE MarkAsset(x)
  BY <1>4, <1>5, <1>9 DEF MarkAsset
<1>10. CASE DownloadAsset(x)
  BY <1>5, <1>10 DEF DownloadAsset
<1>11. CASE RecordAsset(x)
  BY <1>4, <1>11 DEF RecordAsset
<1> QED BY <1>6, <1>7, <1>8, <1>9, <1>10, <1>11

LEMMA VisitStep ==
    ASSUME NobodyInv, NEW x \in Visits, BeginVisit(x)
    PROVE  NobodyInv'
<1>1. PICK a \in Artists : archiver' = [archiver EXCEPT ![x] = [NoTask EXCEPT
              !.step = IF circle.live THEN "upsert" ELSE "idle", !.artist = a]]
  BY DEF BeginVisit
<1>2. PICK step : step = IF circle.live THEN "upsert" ELSE "idle"
  OBVIOUS
<1>3. PICK q : q = [NoTask EXCEPT !.step = step, !.artist = a]
  OBVIOUS
<1>4. archiver' = [archiver EXCEPT ![x] = q] /\ step \in {"upsert", "idle"}
  BY <1>1, <1>2, <1>3
<1>5. TaskSound(q)
  BY <1>3, <1>4, NoTaskSound DEF TaskSound
<1>6. x \in Tasks /\ UNCHANGED <<circle, file, script, verdict>>
  BY DEF Tasks, BeginVisit, taskUnchanged
<1> QED BY <1>4, <1>5, <1>6, OneTaskMoves

-----------------------------------------------------------------------------
\* The next artists of a batch are all those up to its last one.
LEMMA NoGapInBatch ==
    ASSUME NobodyInv, NEW n \in Nat, NEW c \in Nat,
           NEW last \in Smallest(n, {a \in Artists : a > c}),
           NEW a \in Artists, a > c, a <= last
    PROVE  a \in Smallest(n, {b \in Artists : b > c})
<1> DEFINE S == {b \in Artists : b > c}
           Below(e) == {b \in S : b < e}
<1>1. circle.artists \in Nat /\ Artists = 1..circle.artists
  BY DEF NobodyInv, Artists
<1>2. IsFiniteSet(S)
  <2>1. IsFiniteSet(1..circle.artists)
    BY <1>1, FS_Interval
  <2>2. S \in SUBSET (1..circle.artists)
    BY <1>1
  <2> QED BY <2>1, <2>2, FS_Subset
<1>3. last \in S /\ Cardinality(Below(last)) < n
  BY DEF Smallest
<1>4. Below(a) \subseteq Below(last) /\ Below(last) \subseteq S
  BY <1>1, <1>3
<1> HIDE DEF S, Below
<1>5. IsFiniteSet(Below(last)) /\ IsFiniteSet(Below(a))
  BY <1>2, <1>4, FS_Subset
<1>6. /\ Cardinality(Below(a)) <= Cardinality(Below(last))
      /\ Cardinality(Below(a)) \in Nat /\ Cardinality(Below(last)) \in Nat
  BY <1>4, <1>5, FS_Subset, FS_CardinalityType
<1>7. Cardinality(Below(a)) < n
  BY <1>3, <1>6
<1> QED BY <1>7 DEF Smallest, S, Below

LEMMA StartStep ==
    ASSUME NobodyInv, NEW s \in Backfills, StartScript(s)
    PROVE  NobodyInv'
<1>1. PICK mem : mem = IF file.torn THEN NoCheckpoint ELSE file
  OBVIOUS
<1>2. PICK q : q = [NoScript EXCEPT !.step = "choose", !.mem = mem]
  OBVIOUS
<1>3. script' = [script EXCEPT ![s] = q]
  BY <1>1, <1>2 DEF StartScript
<1>4. CheckpointSound(file) /\ circle.artists \in Nat
  BY DEF NobodyInv
<1>5. CheckpointSound(NoCheckpoint) /\ ~NoCheckpoint.torn
  BY <1>4, NoCheckpointSound
<1>6. CheckpointSound(mem) /\ Covers(mem)
  BY <1>1, <1>4, <1>5 DEF CheckpointSound
<1>7. ScriptSound(NoScript) /\ NoScript.results = {}
  BY <1>4, NoScriptSound
<1>8. /\ q.step = "choose" /\ q.mem = mem /\ q.results = {}
      /\ q \in [step : {q.step}, mem : {q.mem}, due : SUBSET Artists,
              fresh : SUBSET Artists, results : {q.results}, cursorAfterBatch : Nat]
  BY <1>2, <1>7 DEF ScriptSound
<1>9. mem \in [cursor : Nat, processed : {mem.processed}, pending : SUBSET Artists,
               torn : BOOLEAN]
  BY <1>6 DEF CheckpointSound
<1>10. ScriptSound(q)
  BY <1>6, <1>8, <1>9 DEF ScriptSound
<1> QED BY <1>3, <1>4, <1>10, OneScriptMoves DEF StartScript, scriptUnchanged

LEMMA ChooseStep ==
    ASSUME NobodyInv, NEW s \in Backfills, ChooseBatch(s)
    PROVE  NobodyInv'
<1> DEFINE mem == script[s].mem
           rest == Smallest(circle.batch, {a \in Artists : a > mem.cursor})
<1>1. /\ ScriptSound(script[s]) /\ DOMAIN script = Backfills /\ CheckpointSound(file)
      /\ script[s].step = "choose" /\ UNCHANGED <<circle, archiver, verdict, file>>
      /\ circle.artists \in Nat /\ circle.batch \in Nat
  BY DEF NobodyInv, ChooseBatch, scriptUnchanged
<1>2. Covers(mem) /\ mem.cursor \in Nat /\ mem.pending \in SUBSET Artists
  BY <1>1 DEF ScriptSound
<1>3. ASSUME NEW due \in SUBSET Artists, NEW pending \in SUBSET mem.pending, NEW last \in Nat,
             script' = [script EXCEPT ![s].step = "batch", ![s].due = due, ![s].fresh = due,
                          ![s].mem.pending = pending, ![s].cursorAfterBatch = last],
             \A a \in Artists : a <= last => Concluded(a) \/ a \in pending \/ a \in due
      PROVE  NobodyInv'
  <2>1. PICK m : m = [script[s].mem EXCEPT !.pending = pending]
    OBVIOUS
  <2>2. PICK q : q = [script[s] EXCEPT !.step = "batch", !.mem = m, !.due = due,
                        !.fresh = due, !.cursorAfterBatch = last]
    OBVIOUS
  <2>3. script' = [script EXCEPT ![s] = q]
    BY <1>1, <1>3, <2>1, <2>2 DEF ScriptSound
  <2>4. m.pending = pending /\ m \in [cursor : Nat, processed : {m.processed},
                                      pending : SUBSET Artists, torn : BOOLEAN]
    BY <1>1, <1>2, <2>1 DEF ScriptSound
  <2>5. ScriptSound(q)
    BY <1>1, <1>3, <2>2, <2>4 DEF ScriptSound
  <2> QED BY <1>1, <2>3, <2>5, OneScriptMoves
<1>4. CASE \E due \in SUBSET mem.pending :
               script' = [script EXCEPT ![s].step = "batch", ![s].due = due,
                       ![s].fresh = due, ![s].mem.pending = @ \ due,
                       ![s].cursorAfterBatch = mem.cursor]
  <2>1. PICK due \in SUBSET mem.pending :
               script' = [script EXCEPT ![s].step = "batch", ![s].due = due,
                       ![s].fresh = due, ![s].mem.pending = @ \ due,
                       ![s].cursorAfterBatch = mem.cursor]
    BY <1>4
  <2>2. script' = [script EXCEPT ![s].step = "batch", ![s].due = due, ![s].fresh = due,
                     ![s].mem.pending = mem.pending \ due, ![s].cursorAfterBatch = mem.cursor]
    BY <1>1, <2>1 DEF ScriptSound
  <2>3. \A a \in Artists : a <= mem.cursor =>
            Concluded(a) \/ a \in mem.pending \ due \/ a \in due
    BY <1>2 DEF Covers
  <2> QED BY <1>2, <1>3, <2>2, <2>3
<1>5. CASE \E last \in rest : script' = [script EXCEPT ![s].step = "batch", ![s].due = rest,
                       ![s].fresh = rest, ![s].cursorAfterBatch = last]
  <2>1. PICK last \in rest : script' = [script EXCEPT ![s].step = "batch", ![s].due = rest,
                       ![s].fresh = rest, ![s].cursorAfterBatch = last]
    BY <1>5
  <2>2. rest \subseteq Artists /\ Artists \subseteq Nat
    BY <1>1 DEF Smallest, Artists
  <2>3. script' = [script EXCEPT ![s].step = "batch", ![s].due = rest, ![s].fresh = rest,
                     ![s].mem.pending = mem.pending, ![s].cursorAfterBatch = last]
    <3>1. mem = [mem EXCEPT !.pending = mem.pending]
      BY <1>1 DEF ScriptSound
    <3>2. PICK r : r = script[s]
      OBVIOUS
    <3>3. /\ r \in [step : {r.step}, mem : {r.mem}, due : SUBSET Artists,
                    fresh : SUBSET Artists, results : {r.results}, cursorAfterBatch : Nat]
          /\ r.mem = mem
      BY <1>1, <3>2 DEF ScriptSound
    <3>4. script' = [script EXCEPT ![s] = [r EXCEPT !.step = "batch", !.due = rest,
                                             !.fresh = rest, !.cursorAfterBatch = last]]
      BY <1>1, <2>1, <3>2
    <3> HIDE DEF mem, rest
    <3>5. [r EXCEPT !.step = "batch", !.due = rest, !.fresh = rest, !.cursorAfterBatch = last]
            = [r EXCEPT !.step = "batch", !.due = rest, !.fresh = rest,
                        !.mem.pending = mem.pending, !.cursorAfterBatch = last]
      BY <3>1, <3>3
    <3> QED BY <1>1, <3>2, <3>4, <3>5
  <2>4. ASSUME NEW a \in Artists, a <= last
        PROVE  Concluded(a) \/ a \in mem.pending \/ a \in rest
    <3>1. CASE a <= mem.cursor
      BY <1>2, <3>1 DEF Covers
    <3>2. CASE ~(a <= mem.cursor)
      <4>1. a > mem.cursor
        BY <1>2, <2>2, <3>2
      <4> QED BY <1>1, <1>2, <2>4, <4>1, NoGapInBatch
    <3> QED BY <3>1, <3>2
  <2> QED BY <1>3, <2>2, <2>3, <2>4
<1>6. CASE script' = [script EXCEPT ![s].step = "truncate last"]
  <2>1. PICK q : q = [script[s] EXCEPT !.step = "truncate last"]
    OBVIOUS
  <2>2. script' = [script EXCEPT ![s] = q]
    BY <1>1, <1>6, <2>1
  <2>3. script[s] \in [step : {"choose"}, mem : {mem}, due : SUBSET Artists,
                       fresh : SUBSET Artists, results : {script[s].results},
                       cursorAfterBatch : Nat]
    BY <1>1 DEF ScriptSound
  <2>4. q \in [step : {"truncate last"}, mem : {mem}, due : SUBSET Artists,
               fresh : SUBSET Artists, results : {script[s].results},
               cursorAfterBatch : Nat]
    BY <2>1, <2>3
  <2>5. /\ \A r \in script[s].results :
              r[1] \in Artists /\ (r[2] # "forbidden" => Concluded(r[1]))
        /\ mem \in [cursor : Nat, processed : {mem.processed}, pending : SUBSET Artists,
                    torn : BOOLEAN]
    BY <1>1 DEF ScriptSound
  <2>6. q.step = "truncate last" /\ q.mem = mem /\ q.results = script[s].results
    BY <2>4
  <2> HIDE DEF mem
  <2>7. ScriptSound(q)
    BY <1>2, <2>4, <2>5, <2>6 DEF ScriptSound
  <2> QED BY <1>1, <2>2, <2>7, OneScriptMoves
<1> QED BY <1>4, <1>5, <1>6 DEF ChooseBatch

LEMMA TakeStep ==
    ASSUME NobodyInv, NEW s \in Backfills, TakeArtist(s)
    PROVE  NobodyInv'
<1>1. PICK a \in script[s].fresh :
          /\ script' = [script EXCEPT ![s].fresh = @ \ {a}]
          /\ archiver' = [archiver EXCEPT ![<<s, a>>] = [NoTask EXCEPT
                 !.step = IF a \in stored THEN "upsert"
                          ELSE IF circle.live THEN "by username" ELSE "missing",
                 !.artist = a]]
  BY DEF TakeArtist
<1>2. /\ ScriptSound(script[s]) /\ DOMAIN script = Backfills /\ CheckpointSound(file)
      /\ DOMAIN archiver = Tasks /\ UNCHANGED <<circle, verdict, file>>
  BY DEF NobodyInv, TakeArtist, taskUnchanged
<1>3. a \in Artists
  BY <1>1, <1>2 DEF ScriptSound
<1>4. PICK step : step = IF a \in stored THEN "upsert"
                         ELSE IF circle.live THEN "by username" ELSE "missing"
  OBVIOUS
<1>5. PICK task : task = [NoTask EXCEPT !.step = step, !.artist = a]
  OBVIOUS
<1>6. step \in {"upsert", "by username", "missing"}
  BY <1>4
<1>7. TaskSound(task)
  BY <1>3, <1>5, <1>6, NoTaskSound DEF TaskSound
<1>8. archiver' = [archiver EXCEPT ![<<s, a>>] = task]
  BY <1>1, <1>4, <1>5
<1>9. DOMAIN archiver' = Tasks /\ \A x \in Tasks : TaskSound(archiver'[x])
  BY <1>2, <1>7, <1>8 DEF NobodyInv
<1>10. PICK q : q = [script[s] EXCEPT !.fresh = @ \ {a}]
  OBVIOUS
<1>11. ScriptSound(q)
  BY <1>2, <1>10 DEF ScriptSound
<1>12. DOMAIN script' = Backfills /\ \A o \in Backfills : ScriptSound(script'[o])
  BY <1>1, <1>2, <1>10, <1>11 DEF NobodyInv
<1> QED BY <1>2, <1>9, <1>12, NobodyFrame

LEMMA ResultsStep ==
    ASSUME NobodyInv, NEW s \in Backfills, ProcessResults(s)
    PROVE  NobodyInv'
<1> DEFINE results == script[s].results
           retried == {r[1] : r \in {q \in results : q[2] = "forbidden"}}
           due == script[s].due
           pending == script[s].mem.pending \cup retried
           processed == script[s].mem.processed + Cardinality(due \ retried)
<1>1. /\ ScriptSound(script[s]) /\ DOMAIN script = Backfills /\ CheckpointSound(file)
      /\ UNCHANGED <<circle, archiver, verdict, file>>
      /\ script[s].step = "batch" /\ {r[1] : r \in results} = due
  BY DEF NobodyInv, ProcessResults, scriptUnchanged
<1>2. PICK m : m = [cursor |-> script[s].cursorAfterBatch, processed |-> processed,
                    pending |-> pending, torn |-> FALSE]
  OBVIOUS
<1>3. PICK q : q = [script[s] EXCEPT !.step = "truncate", !.due = {}, !.results = {},
                                     !.mem = m]
  OBVIOUS
<1>4. script' = [script EXCEPT ![s] = q]
  BY <1>1, <1>2, <1>3 DEF ProcessResults, Rescheduled
<1>5. pending \in SUBSET Artists /\ script[s].cursorAfterBatch \in Nat
  BY <1>1 DEF ScriptSound
<1>6. \A a \in due : a \in retried \/ Concluded(a)
  BY <1>1 DEF ScriptSound
<1>7. \A a \in Artists : a <= script[s].cursorAfterBatch => Concluded(a) \/ a \in pending
  BY <1>1, <1>6 DEF ScriptSound
<1> HIDE DEF pending, processed
<1>8. /\ m \in [cursor : Nat, processed : {m.processed}, pending : SUBSET Artists,
                torn : BOOLEAN]
      /\ m.pending = pending /\ m.cursor = script[s].cursorAfterBatch
  BY <1>2, <1>5
<1>9. Covers(m)
  BY <1>7, <1>8 DEF Covers
<1>10. ScriptSound(q)
  BY <1>1, <1>3, <1>8, <1>9 DEF ScriptSound
<1> QED BY <1>1, <1>4, <1>10, OneScriptMoves

LEMMA FileStep ==
    ASSUME NobodyInv, NEW s \in Backfills, TruncateFile(s) \/ WriteFile(s)
    PROVE  NobodyInv'
<1>1. /\ ScriptSound(script[s]) /\ DOMAIN script = Backfills /\ circle.artists \in Nat
      /\ UNCHANGED <<circle, archiver, verdict>> /\ script[s].step # "batch"
  BY DEF NobodyInv, TruncateFile, WriteFile, scriptUnchanged
<1>2. ASSUME NEW step, step # "batch", script' = [script EXCEPT ![s].step = step],
             CheckpointSound(file')
      PROVE  NobodyInv'
  <2>1. PICK q : q = [script[s] EXCEPT !.step = step]
    OBVIOUS
  <2>2. script' = [script EXCEPT ![s] = q]
    BY <1>1, <1>2, <2>1
  <2>3. ScriptSound(q)
    BY <1>1, <1>2, <2>1 DEF ScriptSound
  <2> QED BY <1>1, <1>2, <2>2, <2>3, OneScriptMoves
<1>3. CASE TruncateFile(s)
  <2>1. CheckpointSound(file')
    BY <1>3, <1>1, NoCheckpointSound DEF TruncateFile
  <2>2. PICK step : step = IF script[s].step = "truncate" THEN "write" ELSE "write last"
    OBVIOUS
  <2>3. script' = [script EXCEPT ![s].step = step] /\ step # "batch"
    BY <1>1, <1>3, <2>2 DEF TruncateFile
  <2> QED BY <1>2, <2>1, <2>3
<1>4. CASE WriteFile(s)
  <2>1. CheckpointSound(file')
    BY <1>1, <1>4 DEF WriteFile, ScriptSound, CheckpointSound
  <2>2. CASE script[s].step = "write"
    <3>1. script' = [script EXCEPT ![s].step = "choose"]
      BY <1>1, <1>4, <2>2 DEF WriteFile
    <3> QED BY <1>2, <2>1, <3>1
  <2>3. CASE script[s].step # "write"
    <3>1. script' = [script EXCEPT ![s] = NoScript]
      BY <1>1, <1>4, <2>3 DEF WriteFile
    <3> QED BY <1>1, <2>1, <3>1, NoScriptSound, OneScriptMoves
  <2> QED BY <2>2, <2>3
<1> QED BY <1>3, <1>4

LEMMA KillStep ==
    ASSUME NobodyInv, NEW s \in Backfills, KillScript(s)
    PROVE  NobodyInv'
<1>1. /\ DOMAIN script = Backfills /\ circle.artists \in Nat /\ CheckpointSound(file)
      /\ UNCHANGED <<circle, verdict, file>>
      /\ script' = [script EXCEPT ![s] = NoScript]
  BY DEF NobodyInv, KillScript, scriptUnchanged
<1>2. DOMAIN archiver' = Tasks /\ \A x \in Tasks : TaskSound(archiver'[x])
  BY NoTaskSound DEF KillScript, NobodyInv
<1>3. DOMAIN script' = Backfills /\ \A o \in Backfills : ScriptSound(script'[o])
  BY <1>1, NoScriptSound DEF NobodyInv
<1> QED BY <1>1, <1>2, <1>3, NobodyFrame

LEMMA NobodyStep == NobodyInv /\ [ProfileNext]_profileVars => NobodyInv'
<1> SUFFICES ASSUME NobodyInv, [ProfileNext]_profileVars PROVE NobodyInv'
  OBVIOUS
<1>1. CASE \E x \in Tasks : TaskStep(x)
  BY <1>1, UsernameStep, WalletStep, ArchiveStep DEF TaskStep
<1>2. CASE \E s \in Backfills : StartScript(s) \/ ScriptStep(s) \/ KillScript(s)
  BY <1>2, StartStep, ChooseStep, TakeStep, ResultsStep, FileStep, KillStep DEF ScriptStep
<1>3. CASE UNCHANGED profileVars
  <2>1. UNCHANGED <<circle, file, script, archiver, verdict>>
    BY <1>3 DEF profileVars
  <2> QED BY <2>1, NobodyFrame DEF NobodyInv
<1> QED BY <1>1, <1>2, <1>3, VisitStep DEF ProfileNext

\* Wherever the backfill of profiles is killed, however runs of it overlap and
\* whatever fails, an artist before the cursor of a readable checkpoint has a
\* verdict or waits to be tried again, and nobody is given up as missing on
\* the word of a source that did not answer (backfill-profile-assets.ts).
THEOREM NobodyIsMissedHolds == ProfileSpec => []NobodyIsMissed
<1>1. ProfileInit => NobodyInv
  <2> SUFFICES ASSUME ProfileInit PROVE NobodyInv
    OBVIOUS
  <2>1. circle.artists \in Nat /\ circle.batch \in Nat
    BY ProfileAssetsAssumption DEF ProfileInit, Circle
  <2>2. CheckpointSound(NoCheckpoint) /\ ScriptSound(NoScript) /\ TaskSound(NoTask)
    BY <2>1, NoCheckpointSound, NoScriptSound, NoTaskSound
  <2> QED BY <2>1, <2>2 DEF ProfileInit, NobodyInv
<1>2. NobodyInv => NobodyIsMissed
  BY DEF NobodyInv, CheckpointSound, Covers, NobodyIsMissed
<1> QED BY <1>1, <1>2, NobodyStep, PTL DEF ProfileSpec

-----------------------------------------------------------------------------
(* A reader who scrolls.  What makes a page whole is that its cursor stands *)
(* at the last of its works and that the order of the works is total.       *)

\* The works and what they are sorted by.
Ranked ==
    /\ IsFiniteSet(Works) /\ Works \subseteq Nat
    /\ table \in [Works -> [at : Nat, halves : Halves]]
    /\ \A w \in Works : reading.titles[w] \in Nat
    /\ reading.becomes \subseteq Halves

LEMMA TotalOrder ==
    ASSUME Ranked
    PROVE  /\ \A w \in Works : ~ Precedes(w, w)
           /\ \A v, w \in Works : v # w => Precedes(v, w) \/ Precedes(w, v)
           /\ \A u, v, w \in Works : Precedes(u, v) /\ Precedes(v, w) => Precedes(u, w)
<1>1. \A w \in Works : Key(w) \in Nat /\ w \in Nat
  BY DEF Ranked, Key
<1> QED BY <1>1 DEF Precedes

LEMMA BeyondWork ==
    \A v, w : Precedes(v, w) => buildCursorWhere(CursorOf(v), w)
BY DEF Precedes, buildCursorWhere, CursorOf, Beyond, IdBeyond

LEMMA BeyondNone ==
    \A w : buildCursorWhere(Start, w) /\ ~ buildCursorWhere(End, w)
BY DEF buildCursorWhere, Start, End

\* A page has every work between its cursor and the next.
LEMMA PageIsWhole ==
    ASSUME Ranked, NEW filter, NEW cursor, NEW w \in Matching(filter),
           buildCursorWhere(cursor, w),
           ~ buildCursorWhere(PageAt(filter, cursor).next, w)
    PROVE  w \in PageAt(filter, cursor).works
<1> DEFINE found == {v \in Matching(filter) : buildCursorWhere(cursor, v)}
           Before(v) == {u \in found : Precedes(u, v)}
           works == {v \in found : Cardinality(Before(v)) < PageSize}
           last == CHOOSE v \in works : \A u \in works \ {v} : Precedes(u, v)
<1>1. /\ PageAt(filter, cursor).works = works
      /\ PageAt(filter, cursor).next
            = IF Cardinality(found) > PageSize THEN CursorOf(last) ELSE End
  BY DEF PageAt
<1>2. found \subseteq Works /\ w \in found
  BY DEF Matching
<1>3. IsFiniteSet(found)
  BY <1>2, FS_Subset DEF Ranked
<1>4. /\ \A v : Before(v) \in SUBSET found
      /\ \A v \in found : v \notin Before(v)
  BY <1>2, TotalOrder
<1>5. works \subseteq found /\ \A v \in found : v \in works <=> Cardinality(Before(v)) < PageSize
  OBVIOUS
<1>6. \A u, v \in found : Precedes(u, v) => Before(u) \subseteq Before(v)
  BY <1>2, TotalOrder
<1>7. \A v : v \in works => v \in found
  OBVIOUS
<1> HIDE DEF found, Before, works
<1>8. \A v : IsFiniteSet(Before(v)) /\ Cardinality(Before(v)) \in Nat
  BY <1>3, <1>4, FS_Subset, FS_CardinalityType
<1>9. PageSize \in Nat \ {0}
  BY BrowsingAssumption
<1>10. CASE Cardinality(found) <= PageSize
  <2>1. Before(w) \in SUBSET (found \ {w})
    BY <1>2, <1>4
  <2>2. /\ IsFiniteSet(found \ {w})
        /\ Cardinality(found \ {w}) = Cardinality(found) - 1
    BY <1>2, <1>3, FS_RemoveElement
  <2>3. Cardinality(Before(w)) <= Cardinality(found) - 1
    BY <2>1, <2>2, FS_Subset
  <2>4. Cardinality(found) \in Nat
    BY <1>3, FS_CardinalityType
  <2>5. Cardinality(Before(w)) < PageSize
    BY <1>8, <1>9, <1>10, <2>3, <2>4
  <2> QED BY <1>1, <1>2, <1>5, <2>5
<1>11. CASE ~ (Cardinality(found) <= PageSize) /\ w \notin works
  <2>1. works # {}
    <3> DEFINE R == {p \in found \X found : Precedes(p[2], p[1])}
    <3>1. \A x, y \in found : <<x, y>> \in R <=> Precedes(y, x)
      OBVIOUS
    <3> HIDE DEF R
    <3>2. /\ \A x, y, z \in found : <<x, y>> \in R /\ <<y, z>> \in R => <<x, z>> \in R
          /\ \A x \in found : <<x, x>> \notin R
      BY <1>2, <3>1, TotalOrder
    <3>3. PICK x \in found : \A y \in found : <<x, y>> \notin R
      BY <1>2, <1>3, <3>2, SomeLast
    <3>4. Before(x) = {}
      BY <3>1, <3>3 DEF Before
    <3>5. Cardinality(Before(x)) < PageSize
      BY <1>9, <3>4, FS_EmptySet
    <3> QED BY <1>5, <3>3, <3>5
  <2>2. \E v \in works : \A u \in works \ {v} : Precedes(u, v)
    <3> DEFINE R == {p \in works \X works : Precedes(p[1], p[2])}
    <3>1. \A x, y \in works : <<x, y>> \in R <=> Precedes(x, y)
      OBVIOUS
    <3> HIDE DEF R
    <3>2. /\ \A x, y, z \in works : <<x, y>> \in R /\ <<y, z>> \in R => <<x, z>> \in R
          /\ \A x \in works : <<x, x>> \notin R
      BY <1>2, <1>5, <3>1, TotalOrder
    <3>3. IsFiniteSet(works)
      BY <1>3, <1>5, FS_Subset
    <3>4. PICK x \in works : \A y \in works : <<x, y>> \notin R
      BY <2>1, <3>2, <3>3, SomeLast
    <3>5. \A u \in works \ {x} : Precedes(u, x)
      BY <1>2, <1>5, <3>1, <3>4, TotalOrder
    <3> QED BY <3>5
  <2>3. last \in works
    BY <2>2
  <2> HIDE DEF last
  <2>4. last \in found /\ last # w
    BY <1>7, <1>11, <2>3
  <2>5. CASE Precedes(last, w)
    BY <1>1, <1>3, <1>9, <1>11, <2>5, BeyondWork, FS_CardinalityType
  <2>6. CASE Precedes(w, last)
    <3>1. Before(w) \in SUBSET Before(last)
      BY <1>2, <1>6, <2>4, <2>6
    <3>2. Cardinality(Before(w)) <= Cardinality(Before(last))
      BY <1>8, <3>1, FS_Subset
    <3>3. Cardinality(Before(last)) < PageSize
      BY <1>5, <2>3, <2>4
    <3> QED BY <1>2, <1>5, <1>8, <1>9, <1>11, <3>2, <3>3
  <2> QED BY <1>2, <2>4, <2>5, <2>6, TotalOrder
<1> QED BY <1>1, <1>10, <1>11

\* What a page that was read for a list has of the works unwritten since.
Whole(filter, cursor, answer, steady) ==
    \A w \in steady : /\ w \in Matching(filter)
                      /\ buildCursorWhere(cursor, w)
                      => buildCursorWhere(answer.next, w) \/ w \in answer.works

\* The list and what is on its way to it.
ListHolds ==
    /\ session.steady \subseteq Matching(session.filter)
    /\ PagesMissNothing
    /\ request.state # "none" => request.cursor = session.cursor
    /\ request.state = "read" =>
          Whole(session.filter, request.cursor, request.page, session.steady)
    /\ moving.state = "rendered" =>
          /\ moving.steady \subseteq Matching(moving.filter)
          /\ Whole(moving.filter, Start, moving.page, moving.steady)

IsSession(q) ==
    q \in [key : {q.key}, filter : {q.filter}, shown : {q.shown}, cursor : {q.cursor},
           loading : {q.loading}, all : {q.all}, error : {q.error}, recent : {q.recent},
           cool : {q.cool}, timer : {q.timer}, due : {q.due}, steady : {q.steady}]
IsRequest(q) == q \in [state : {q.state}, cursor : {q.cursor}, page : {q.page}]
IsMoving(q) ==
    q \in [state : {q.state}, filter : {q.filter}, page : {q.page}, steady : {q.steady}]

BrowsingInv ==
    /\ Ranked /\ IsSession(session) /\ IsRequest(request) /\ IsMoving(moving)
    /\ ListHolds

\* The works are only as they were when this was read.
LEMMA PageHasAll ==
    ASSUME Ranked, NEW filter, NEW cursor, NEW steady
    PROVE  Whole(filter, cursor, PageAt(filter, cursor), steady)
BY PageIsWhole DEF Whole

\* Of what a list holds, a step may change all but this.
SameList(p, q) ==
    /\ IsSession(p) /\ p.filter = q.filter /\ p.shown = q.shown
    /\ p.cursor = q.cursor /\ p.steady = q.steady

\* A request is withdrawn, sent or left alone.
LEMMA ListFrame ==
    ASSUME BrowsingInv, UNCHANGED <<reading, table, moving>>, SameList(session', session),
           \/ request' = request
           \/ IsRequest(request') /\ request'.state = "none"
           \/ /\ IsRequest(request') /\ request'.state = "sent"
              /\ request'.cursor = session.cursor
    PROVE  BrowsingInv'
<1>1. /\ Ranked' /\ Works' = Works
      /\ \A f : Matching(f)' = Matching(f)
      /\ \A c, w : buildCursorWhere(c, w)' <=> buildCursorWhere(c, w)
  BY DEF BrowsingInv, Ranked, Works, Matching, buildCursorWhere, Key, Beyond, IdBeyond
<1>2. \A f, c, p, s : Whole(f, c, p, s)' <=> Whole(f, c, p, s)
  BY <1>1 DEF Whole
<1>3. IsSession(session') /\ IsRequest(request') /\ IsMoving(moving')
  BY DEF BrowsingInv, SameList
<1>4. PagesMissNothing'
  BY <1>1 DEF BrowsingInv, ListHolds, PagesMissNothing, SameList
<1>5. ListHolds'
  BY <1>1, <1>2, <1>4 DEF BrowsingInv, ListHolds, SameList
<1> QED BY <1>1, <1>3, <1>5 DEF BrowsingInv

LEMMA NoRequestIsNone == IsRequest(NoRequest) /\ NoRequest.state = "none"
BY DEF NoRequest, IsRequest

LEMMA AskKeeps ==
    ASSUME BrowsingInv, UNCHANGED <<reading, table, moving>>,
           NEW q, SameList(q, session), AskPage(q)
    PROVE  BrowsingInv'
<1>1. SameList(session', session)
  BY DEF AskPage, SameList, IsSession
<1>2. PICK r : r = NoRequest
  OBVIOUS
<1>3. /\ request' = [r EXCEPT !.state = "sent", !.cursor = q.cursor]
      /\ IsRequest(r)
  BY <1>2, NoRequestIsNone DEF AskPage
<1>4. /\ IsRequest(request') /\ request'.state = "sent" /\ request'.cursor = session.cursor
  BY <1>3 DEF IsRequest, SameList
<1> QED BY <1>1, <1>4, ListFrame

LEMMA LoadKeeps ==
    ASSUME BrowsingInv, UNCHANGED <<reading, table, moving>>,
           NEW q, SameList(q, session),
           LoadMoreOfArchive(q) \/ LoadMoreOfProfile(q) \/ LoadMore(q)
    PROVE  BrowsingInv'
<1>1. CASE AskPage(q)
  BY <1>1, AskKeeps
<1>2. CASE request' = request /\ \E waits : session' \in {q, [q EXCEPT !.timer = waits]}
  <2>1. SameList(session', session)
    BY <1>2 DEF SameList, IsSession
  <2> QED BY <1>2, <2>1, ListFrame
<1> QED BY <1>1, <1>2 DEF LoadMoreOfArchive, LoadMoreOfProfile, LoadMore

-----------------------------------------------------------------------------
LEMMA BrowsingBegins == BrowsingInit => BrowsingInv
<1> SUFFICES ASSUME BrowsingInit PROVE BrowsingInv
  OBVIOUS
<1>1. /\ reading \in Reading /\ DOMAIN reading.rows = DOMAIN reading.titles
      /\ Works = DOMAIN reading.rows
      /\ table = [w \in DOMAIN reading.rows |->
                    [at |-> reading.rows[w], halves |-> <<Linked("PENDING"), Linked("PENDING")>>]]
  BY BrowsingAssumption DEF BrowsingInit, Works
<1>2. reading.rows \in Seq(Nat) /\ reading.titles \in Seq(Nat) /\ reading.becomes \subseteq Halves
  BY <1>1 DEF Reading
<1>3. <<Linked("PENDING"), Linked("PENDING")>> \in Halves
  BY DEF Halves, Half, HalfStatuses
<1>4. Works = 1..Len(reading.rows) /\ Len(reading.rows) \in Nat
  BY <1>1, <1>2
<1>5. /\ IsFiniteSet(Works) /\ Works \subseteq Nat
      /\ \A w \in Works : reading.rows[w] \in Nat /\ reading.titles[w] \in Nat
  <2>1. IsFiniteSet(1..Len(reading.rows))
    BY <1>4, FS_Interval
  <2>2. \A w \in Works : reading.rows[w] \in Nat /\ reading.titles[w] \in Nat
    BY <1>1, <1>2
  <2> QED BY <1>4, <2>1, <2>2
<1>6. Ranked
  BY <1>1, <1>2, <1>3, <1>5 DEF Ranked
<1>7. PICK filter \in reading.filters :
          session = Mounted(filter, PageAt(filter, Start), Matching(filter))
  BY DEF BrowsingInit
<1>8. /\ IsSession(session) /\ session.filter = filter /\ session.steady = Matching(filter)
      /\ session.shown = PageAt(filter, Start).works
      /\ session.cursor = PageAt(filter, Start).next
  BY <1>7 DEF Mounted, SessionOf, IsSession
<1>9. IsRequest(request) /\ request.state = "none"
  BY NoRequestIsNone DEF BrowsingInit
<1>10. IsMoving(moving) /\ moving.state = "none"
  BY DEF BrowsingInit, Staying, IsMoving
<1>11. Whole(filter, Start, PageAt(filter, Start), Matching(filter))
  BY <1>6, PageHasAll
<1>12. ListHolds
  BY <1>8, <1>9, <1>10, <1>11, BeyondNone DEF ListHolds, PagesMissNothing, Whole
<1> QED BY <1>6, <1>8, <1>9, <1>10, <1>12 DEF BrowsingInv

\* A write takes the work out of what has to be there.
LEMMA NowIsNumber ==
    ASSUME Ranked, Works # {}
    PROVE  Now \in Nat
<1> DEFINE R == {p \in Works \X Works : table[p[1]].at < table[p[2]].at}
<1>1. \A w \in Works : table[w].at \in Nat
  BY DEF Ranked
<1>2. \A x, y \in Works : <<x, y>> \in R <=> table[x].at < table[y].at
  OBVIOUS
<1> HIDE DEF R
<1>3. /\ \A x, y, z \in Works : <<x, y>> \in R /\ <<y, z>> \in R => <<x, z>> \in R
      /\ \A x \in Works : <<x, x>> \notin R
  BY <1>1, <1>2
<1>4. IsFiniteSet(Works)
  BY DEF Ranked
<1>5. PICK x \in Works : \A y \in Works : <<x, y>> \notin R
  <2> HIDE DEF Works
  <2> QED BY <1>3, <1>4, SomeLast
<1> DEFINE times == {table[w].at : w \in Works}
<1>6. table[x].at \in times /\ \A t \in times : table[x].at >= t
  <2>1. ASSUME NEW y \in Works
        PROVE  table[x].at >= table[y].at
    <3>1. ~ (table[x].at < table[y].at)
      BY <1>2, <1>5
    <3>2. table[x].at \in Nat /\ table[y].at \in Nat
      BY <1>1, <1>5
    <3> QED BY <3>1, <3>2
  <2> QED BY <2>1
<1>7. times \subseteq Nat
  BY <1>1
<1> HIDE DEF times
<1>8. Max(times) \in times
  BY <1>6 DEF Max
<1> QED BY <1>7, <1>8 DEF Now, times

LEMMA TableWritten ==
    ASSUME BrowsingInv, NEW w \in Works, Write(w)
    PROVE  BrowsingInv'
<1>1. /\ UNCHANGED <<reading, inView, request>>
      /\ session' = [session EXCEPT !.steady = @ \ {w}]
      /\ moving' = [moving EXCEPT !.steady = @ \ {w}]
      /\ Ranked /\ Works # {}
  BY DEF Write, BrowsingInv
<1>2. PICK entry \in [at : Nat, halves : Halves] : table' = [table EXCEPT ![w] = entry]
  <2>1. table[w] \in [at : Nat, halves : Halves] /\ DOMAIN table = Works
    BY <1>1 DEF Ranked
  <2>2. CASE \E halves \in reading.becomes :
                table' = [table EXCEPT ![w] = [at |-> Now + 1, halves |-> halves]]
    <3>1. Now + 1 \in Nat
      BY <1>1, NowIsNumber
    <3> QED BY <1>1, <2>2, <3>1 DEF Ranked
  <2>3. CASE table' = [table EXCEPT ![w].at = 0]
    <3>1. PICK r : r = [table[w] EXCEPT !.at = 0]
      OBVIOUS
    <3>2. r \in [at : Nat, halves : Halves]
      BY <2>1, <3>1
    <3>3. table' = [table EXCEPT ![w] = r]
      BY <2>1, <2>3, <3>1
    <3> QED BY <3>2, <3>3
  <2> QED BY <2>2, <2>3 DEF Write
<1>3. /\ Works' = Works /\ Ranked'
      /\ \A v \in Works \ {w} : table'[v] = table[v]
  BY <1>1, <1>2 DEF Ranked, Works
<1>4. \A v \in Works \ {w} :
          /\ \A f : v \in Matching(f)' <=> v \in Matching(f)
          /\ \A c : buildCursorWhere(c, v)' <=> buildCursorWhere(c, v)
  BY <1>1, <1>3 DEF Matching, buildCursorWhere, Key, Beyond, IdBeyond
<1>5. /\ IsSession(session') /\ session'.filter = session.filter
      /\ session'.shown = session.shown /\ session'.cursor = session.cursor
      /\ session'.steady = session.steady \ {w}
  BY <1>1 DEF BrowsingInv, IsSession
<1>6. /\ IsMoving(moving') /\ moving'.state = moving.state /\ moving'.filter = moving.filter
      /\ moving'.page = moving.page /\ moving'.steady = moving.steady \ {w}
  BY <1>1 DEF BrowsingInv, IsMoving
<1>7. \A f : Matching(f) \subseteq Works
  BY DEF Matching
<1>8. session.steady \subseteq Works /\ session'.steady \subseteq Matching(session.filter)'
  BY <1>4, <1>5, <1>7 DEF BrowsingInv, ListHolds
<1>9. PagesMissNothing'
  BY <1>4, <1>5, <1>8 DEF BrowsingInv, ListHolds, PagesMissNothing
<1>10. (request.state = "read" =>
           Whole(session.filter, request.cursor, request.page, session.steady))'
  BY <1>1, <1>4, <1>5, <1>8 DEF BrowsingInv, ListHolds, Whole
<1>11. (moving.state = "rendered" =>
           /\ moving.steady \subseteq Matching(moving.filter)
           /\ Whole(moving.filter, Start, moving.page, moving.steady))'
  BY <1>4, <1>6, <1>7 DEF BrowsingInv, ListHolds, Whole
<1>12. ListHolds'
  BY <1>1, <1>5, <1>6, <1>8, <1>9, <1>10, <1>11 DEF BrowsingInv, ListHolds
<1> QED BY <1>1, <1>3, <1>5, <1>6, <1>12 DEF BrowsingInv

LEMMA AskingStep ==
    ASSUME BrowsingInv,
           \/ Autoload \/ Observe \/ Scroll \/ ClickMore \/ RetryNow \/ ViewAll
           \/ IntervalEnds \/ PauseEnds \/ TimerFires
    PROVE  BrowsingInv'
<1>1. UNCHANGED <<reading, table, moving>> /\ SameList(session, session)
  BY DEF Autoload, Observe, Scroll, ClickMore, RetryNow, ViewAll, IntervalEnds, PauseEnds,
         TimerFires, Quiet, BrowsingInv, SameList
<1>2. ASSUME NEW all, NEW recent, NEW cool, NEW timer, NEW due
      PROVE  /\ SameList([session EXCEPT !.due = due], session)
             /\ SameList([session EXCEPT !.recent = recent], session)
             /\ SameList([session EXCEPT !.cool = cool], session)
             /\ SameList([session EXCEPT !.all = all], session)
             /\ SameList([session EXCEPT !.cool = cool, !.timer = timer,
                            !.recent = recent, !.due = due], session)
             /\ SameList([session EXCEPT !.timer = timer, !.due = due,
                            !.cool = cool], session)
  BY <1>1 DEF SameList, IsSession
<1>3. CASE Autoload
  BY <1>1, <1>2, <1>3, LoadKeeps, ListFrame DEF Autoload
<1>4. CASE Observe
  BY <1>1, <1>2, <1>4, LoadKeeps, ListFrame DEF Observe
<1>5. CASE Scroll
  BY <1>1, <1>2, <1>5, ListFrame DEF Scroll
<1>6. CASE ClickMore
  BY <1>1, <1>6, LoadKeeps DEF ClickMore
<1>7. CASE RetryNow
  BY <1>1, <1>2, <1>7, LoadKeeps DEF RetryNow
<1>8. CASE ViewAll
  BY <1>1, <1>2, <1>8, AskKeeps DEF ViewAll
<1>9. CASE IntervalEnds \/ PauseEnds
  BY <1>1, <1>2, <1>9, ListFrame DEF IntervalEnds, PauseEnds
<1>10. CASE TimerFires
  <2>1. PICK q : /\ q = [session EXCEPT !.timer = {}, !.due = @ \/ session.cool = "over",
                           !.cool = IF @ = "over" THEN "none" ELSE @]
                 /\ IF inView THEN LoadMoreOfArchive(q)
                    ELSE session' = q /\ UNCHANGED request
    BY <1>10 DEF TimerFires
  <2>2. SameList(q, session)
    BY <1>2, <2>1
  <2>3. CASE inView
    BY <1>1, <2>1, <2>2, <2>3, LoadKeeps
  <2>4. CASE ~ inView
    BY <1>1, <2>1, <2>2, <2>4, ListFrame
  <2> QED BY <2>3, <2>4
<1> QED BY <1>3, <1>4, <1>5, <1>6, <1>7, <1>8, <1>9, <1>10

LEMMA PageRead == BrowsingInv /\ ReadPage => BrowsingInv'
<1> SUFFICES ASSUME BrowsingInv, ReadPage PROVE BrowsingInv'
  OBVIOUS
<1> DEFINE answer == PageAt(session.filter, request.cursor)
<1>1. /\ UNCHANGED <<reading, table, session, moving>> /\ request.state = "sent"
      /\ request' = [request EXCEPT !.state = "read", !.page = answer]
  BY DEF ReadPage, Quiet
<1>2. Whole(session.filter, request.cursor, answer, session.steady)
  BY PageHasAll DEF BrowsingInv
<1> HIDE DEF answer
<1>3. IsRequest(request') /\ request'.cursor = request.cursor /\ request'.page = answer
  BY <1>1 DEF BrowsingInv, IsRequest
<1>4. /\ Ranked' /\ Works' = Works
      /\ \A f : Matching(f)' = Matching(f)
      /\ \A c, w : buildCursorWhere(c, w)' <=> buildCursorWhere(c, w)
  BY <1>1 DEF BrowsingInv, Ranked, Works, Matching, buildCursorWhere, Key, Beyond, IdBeyond
<1>5. \A f, c, p, s : Whole(f, c, p, s)' <=> Whole(f, c, p, s)
  BY <1>4 DEF Whole
<1>6. PagesMissNothing'
  BY <1>1, <1>4 DEF BrowsingInv, ListHolds, PagesMissNothing
<1>7. ListHolds'
  BY <1>1, <1>2, <1>3, <1>4, <1>5, <1>6 DEF BrowsingInv, ListHolds
<1> QED BY <1>1, <1>3, <1>4, <1>7 DEF BrowsingInv

\* A page that arrives moves the cursor on, and the list has what lies before.
LEMMA PageMerged ==
    ASSUME BrowsingInv, UNCHANGED <<reading, table, moving>>, request.state = "read",
           IsSession(session'), session'.filter = session.filter,
           session'.steady = session.steady,
           session'.shown = session.shown \cup request.page.works,
           session'.cursor = request.page.next, IsRequest(request'),
           \/ request'.state = "none"
           \/ request'.state = "sent" /\ request'.cursor = session'.cursor
    PROVE  BrowsingInv'
<1>1. /\ Ranked' /\ Works' = Works
      /\ \A f : Matching(f)' = Matching(f)
      /\ \A c, w : buildCursorWhere(c, w)' <=> buildCursorWhere(c, w)
  BY DEF BrowsingInv, Ranked, Works, Matching, buildCursorWhere, Key, Beyond, IdBeyond
<1>2. \A f, c, p, s : Whole(f, c, p, s)' <=> Whole(f, c, p, s)
  BY <1>1 DEF Whole
<1>3. PagesMissNothing'
  BY <1>1 DEF BrowsingInv, ListHolds, PagesMissNothing, Whole
<1>4. ListHolds'
  BY <1>1, <1>2, <1>3 DEF BrowsingInv, ListHolds
<1> QED BY <1>1, <1>4 DEF BrowsingInv

LEMMA ArrivalStep ==
    ASSUME BrowsingInv, ArchivePageArrives \/ ProfilePageArrives
    PROVE  BrowsingInv'
<1>1. UNCHANGED <<reading, table, moving>> /\ request.state = "read" /\ IsSession(session)
  BY DEF ArchivePageArrives, ProfilePageArrives, Quiet, BrowsingInv
<1>2. PICK q : q = Merged(session)
  OBVIOUS
<1>3. /\ IsSession(q) /\ q.filter = session.filter /\ q.steady = session.steady
      /\ q.shown = session.shown \cup request.page.works /\ q.cursor = request.page.next
  BY <1>1, <1>2 DEF Merged, IsSession
<1>4. PICK d : d = Done(q)
  OBVIOUS
<1>5. SameList(d, q)
  BY <1>3, <1>4 DEF Done, SameList, IsSession
<1>6. CASE request' = NoRequest /\ session' \in {d, [d EXCEPT !.cool = "none", !.timer = {}]}
  <2>1. SameList(session', q)
    BY <1>5, <1>6 DEF SameList, IsSession
  <2> QED BY <1>1, <1>3, <1>6, <2>1, NoRequestIsNone, PageMerged DEF SameList
<1>7. CASE AskPage(q)
  <2>1. SameList(session', q)
    BY <1>3, <1>7 DEF AskPage, SameList, IsSession
  <2>2. PICK r : r = NoRequest
    OBVIOUS
  <2>3. request' = [r EXCEPT !.state = "sent", !.cursor = q.cursor] /\ IsRequest(r)
    BY <1>7, <2>2, NoRequestIsNone DEF AskPage
  <2>4. IsRequest(request') /\ request'.state = "sent" /\ request'.cursor = q.cursor
    BY <2>3 DEF IsRequest
  <2> QED BY <1>1, <1>3, <2>1, <2>4, PageMerged DEF SameList
<1> QED BY <1>2, <1>4, <1>6, <1>7 DEF ArchivePageArrives, ProfilePageArrives

LEMMA MishapStep ==
    ASSUME BrowsingInv, ArchiveRequestFails \/ ProfileRequestFails
    PROVE  BrowsingInv'
<1>1. /\ UNCHANGED <<reading, table, moving>> /\ request' = NoRequest /\ IsSession(session)
  BY DEF ArchiveRequestFails, ProfileRequestFails, Mishap, BrowsingInv
<1>2. PICK d : d = Done(session)
  OBVIOUS
<1>3. SameList(d, session)
  BY <1>1, <1>2 DEF Done, SameList, IsSession
<1>4. PICK s : s = [d EXCEPT !.due = TRUE]
  OBVIOUS
<1>5. SameList(s, session)
  BY <1>3, <1>4 DEF SameList, IsSession
<1>6. \/ session' = [d EXCEPT !.error = TRUE]
      \/ session' = [s EXCEPT !.error = TRUE]
      \/ session' = [s EXCEPT !.error = TRUE, !.recent = TRUE]
      \/ session' = [s EXCEPT !.recent = TRUE, !.cool = "running", !.timer = {"cool"}]
  BY <1>2, <1>4 DEF ArchiveRequestFails, ProfileRequestFails, Mishap
<1>7. SameList(session', session)
  BY <1>3, <1>5, <1>6 DEF SameList, IsSession
<1> QED BY <1>1, <1>7, NoRequestIsNone, ListFrame

\* Another list is rendered from its start, and replaces the one before whole.
LEMMA NavigateStep ==
    ASSUME BrowsingInv, NEW filter, Navigate(filter)
    PROVE  BrowsingInv'
<1> DEFINE answer == PageAt(filter, Start)
<1>1. /\ UNCHANGED <<reading, table, session, request>>
      /\ moving' = [state |-> "rendered", filter |-> filter, page |-> answer,
                    steady |-> Matching(filter)]
  BY DEF Navigate
<1>2. Whole(filter, Start, answer, Matching(filter))
  BY PageHasAll DEF BrowsingInv
<1> HIDE DEF answer
<1>3. /\ IsMoving(moving') /\ moving'.filter = filter /\ moving'.page = answer
      /\ moving'.steady = Matching(filter)
  BY <1>1 DEF IsMoving
<1>4. /\ Ranked' /\ Works' = Works
      /\ \A f : Matching(f)' = Matching(f)
      /\ \A c, w : buildCursorWhere(c, w)' <=> buildCursorWhere(c, w)
  BY <1>1 DEF BrowsingInv, Ranked, Works, Matching, buildCursorWhere, Key, Beyond, IdBeyond
<1>5. \A f, c, p, s : Whole(f, c, p, s)' <=> Whole(f, c, p, s)
  BY <1>4 DEF Whole
<1>6. PagesMissNothing'
  BY <1>1, <1>4 DEF BrowsingInv, ListHolds, PagesMissNothing
<1>7. ListHolds'
  BY <1>1, <1>2, <1>3, <1>4, <1>5, <1>6 DEF BrowsingInv, ListHolds
<1> QED BY <1>1, <1>3, <1>4, <1>7 DEF BrowsingInv

LEMMA CommitStep == BrowsingInv /\ Commit => BrowsingInv'
<1> SUFFICES ASSUME BrowsingInv, Commit PROVE BrowsingInv'
  OBVIOUS
<1> DEFINE new == Mounted(moving.filter, moving.page, moving.steady)
<1>1. /\ UNCHANGED <<reading, table>> /\ moving.state = "rendered" /\ moving' = Staying
      /\ \/ UNCHANGED <<session, request>>
         \/ session' = new /\ request' = NoRequest
  BY DEF Commit
<1>2. /\ Ranked' /\ Works' = Works
      /\ \A f : Matching(f)' = Matching(f)
      /\ \A c, w : buildCursorWhere(c, w)' <=> buildCursorWhere(c, w)
  BY <1>1 DEF BrowsingInv, Ranked, Works, Matching, buildCursorWhere, Key, Beyond, IdBeyond
<1>3. \A f, c, p, s : Whole(f, c, p, s)' <=> Whole(f, c, p, s)
  BY <1>2 DEF Whole
<1>4. IsMoving(moving') /\ moving'.state = "none"
  BY <1>1 DEF Staying, IsMoving
<1>5. CASE UNCHANGED <<session, request>>
  <2>1. PagesMissNothing'
    BY <1>2, <1>5 DEF BrowsingInv, ListHolds, PagesMissNothing
  <2>2. ListHolds'
    BY <1>2, <1>3, <1>4, <1>5, <2>1 DEF BrowsingInv, ListHolds
  <2> QED BY <1>2, <1>4, <1>5, <2>2 DEF BrowsingInv
<1>6. CASE session' = new /\ request' = NoRequest
  <2>1. /\ IsSession(session') /\ session'.filter = moving.filter
        /\ session'.steady = moving.steady /\ session'.shown = moving.page.works
        /\ session'.cursor = moving.page.next
    BY <1>6 DEF Mounted, SessionOf, IsSession
  <2>2. PagesMissNothing'
    BY <1>1, <1>2, <2>1, BeyondNone DEF BrowsingInv, ListHolds, PagesMissNothing, Whole
  <2>3. IsRequest(request') /\ request'.state = "none"
    BY <1>6, NoRequestIsNone
  <2>4. ListHolds'
    BY <1>1, <1>2, <1>4, <2>1, <2>2, <2>3 DEF BrowsingInv, ListHolds
  <2> QED BY <1>2, <1>4, <2>1, <2>3, <2>4 DEF BrowsingInv
<1> QED BY <1>1, <1>5, <1>6

LEMMA BrowsingStep == BrowsingInv /\ [BrowsingNext]_browsingVars => BrowsingInv'
<1> SUFFICES ASSUME BrowsingInv, [BrowsingNext]_browsingVars PROVE BrowsingInv'
  OBVIOUS
<1>1. CASE UNCHANGED browsingVars
  <2>1. SameList(session', session)
    BY <1>1 DEF browsingVars, BrowsingInv, SameList
  <2> QED BY <1>1, <2>1, ListFrame DEF browsingVars
<1>2. CASE BrowsingNext
  BY <1>2, TableWritten, AskingStep, PageRead, ArrivalStep, MishapStep, NavigateStep,
     CommitStep DEF BrowsingNext
<1> QED BY <1>1, <1>2

\* However the works move while a reader scrolls, whatever fails and however
\* lists replace one another (buildCursorWhere, loadMore, loadAll): no work that
\* was left alone is missing before the cursor.
THEOREM PagesMissNothingHolds == BrowsingSpec => []PagesMissNothing
<1>1. BrowsingInit => BrowsingInv
  BY BrowsingBegins
<1>2. BrowsingInv /\ [BrowsingNext]_browsingVars => BrowsingInv'
  BY BrowsingStep
<1>3. BrowsingInv => PagesMissNothing
  BY DEF BrowsingInv, ListHolds
<1> QED BY <1>1, <1>2, <1>3, PTL DEF BrowsingSpec

\* What a half is: the cases that the filters and the card tell apart.
LEMMA HalfCases ==
    ASSUME NEW a \in Half
    PROVE  /\ a.root \in BOOLEAN /\ a.status \in HalfStatuses
           /\ ~ a.root => a.status = "SKIPPED"
           /\ \A s \in HalfStatuses : a = Linked(s) <=> a.root /\ a.status = s
<1>1. CASE a = Unlinked
  <2>1. a.root = FALSE /\ a.status = "SKIPPED" /\ "SKIPPED" \in HalfStatuses
    BY <1>1 DEF Unlinked, HalfStatuses
  <2>2. \A s : Linked(s).root = TRUE
    BY DEF Linked
  <2> QED BY <2>1, <2>2
<1>2. ASSUME NEW s \in HalfStatuses, a = Linked(s)
      PROVE  /\ a.root = TRUE /\ a.status = s
             /\ \A q : a = Linked(q) <=> a.status = q
  <2>1. \A q : Linked(q).root = TRUE /\ Linked(q).status = q
    BY DEF Linked
  <2> QED BY <1>2, <2>1
<1> QED BY <1>1, <1>2 DEF Half

\* The filters of the database (buildStatusWhere) and the status on a card
\* (archiveItemStatus) tell the same of every work the table can hold, but for
\* the works with a linked half that is marked SKIPPED, which no filter finds.
THEOREM FiltersAgreeHolds == BrowsingSpec => []FiltersAgree
<1>1. BrowsingInit => BrowsingInv
  BY BrowsingBegins
<1>2. BrowsingInv /\ [BrowsingNext]_browsingVars => BrowsingInv'
  BY BrowsingStep
<1>3. ASSUME BrowsingInv
      PROVE  FiltersAgree
  <2> DEFINE filters == {"preserved", "partial", "pending", "failed", "missing"}
             found(w) == {f \in filters : w \in Matching(f)}
  <2> SUFFICES ASSUME reading.kind = "archive", NEW w \in Works, table[w].at > 0
               PROVE  /\ found(w) \subseteq {archiveItemStatus(table[w].halves)}
                      /\ found(w) = {} <=> SkippedWhileLinked(table[w].halves)
    BY DEF FiltersAgree
  <2>1. table[w].halves \in Halves
    BY <1>3 DEF BrowsingInv, Ranked
  <2>2. PICK h : h = table[w].halves
    OBVIOUS
  <2>3. \A f \in filters : w \in Matching(f) <=> buildArchivedWhere(f, h)
    BY <2>2 DEF Matching
  <2>4. PICK a, b \in Half : h = <<a, b>>
    BY <2>1, <2>2 DEF Halves
  <2>5. /\ a.root \in BOOLEAN /\ a.status \in HalfStatuses
        /\ ~ a.root => a.status = "SKIPPED"
        /\ \A s \in HalfStatuses : a = Linked(s) <=> a.root /\ a.status = s
    BY HalfCases
  <2>6. /\ b.root \in BOOLEAN /\ b.status \in HalfStatuses
        /\ ~ b.root => b.status = "SKIPPED"
        /\ \A s \in HalfStatuses : b = Linked(s) <=> b.root /\ b.status = s
    BY HalfCases
  <2>7. \A i \in 1..2 : i = 1 \/ i = 2
    OBVIOUS
  <2>8. /\ HasRoots(h) <=> a.root \/ b.root
        /\ FailedWhere(h) <=> a.status = "FAILED" \/ b.status = "FAILED"
        /\ \A S : Both(h, S) <=> (a.root => a.status \in S) /\ (b.root => b.status \in S)
        /\ SkippedWhileLinked(h) <=>
              /\ Linked("SKIPPED") \in {a, b}
              /\ {a.status, b.status} \cap {"PENDING", "FAILED"} = {}
        /\ h[1] = a /\ h[2] = b
    <3>1. h[1] = a /\ h[2] = b /\ 1 \in 1..2 /\ 2 \in 1..2
      BY <2>4
    <3>2. HasRoots(h) <=> a.root \/ b.root
      BY <2>7, <3>1 DEF HasRoots
    <3>3. FailedWhere(h) <=> a.status = "FAILED" \/ b.status = "FAILED"
      BY <2>7, <3>1 DEF FailedWhere
    <3>4. ASSUME NEW S
          PROVE  Both(h, S) <=> (a.root => a.status \in S) /\ (b.root => b.status \in S)
      BY <2>7, <3>1 DEF Both
    <3>5. SkippedWhileLinked(h) <=>
              /\ Linked("SKIPPED") \in {a, b}
              /\ a.status \notin {"PENDING", "FAILED"} /\ b.status \notin {"PENDING", "FAILED"}
      BY <2>7, <3>1 DEF SkippedWhileLinked
    <3> QED BY <3>1, <3>2, <3>3, <3>4, <3>5
  <2> HIDE DEF found
  <2>9. /\ Linked("PENDING") \in {h[1], h[2]}
              <=> (a.root /\ a.status = "PENDING") \/ (b.root /\ b.status = "PENDING")
        /\ Linked("SKIPPED") \in {a, b}
              <=> (a.root /\ a.status = "SKIPPED") \/ (b.root /\ b.status = "SKIPPED")
    BY <2>5, <2>6, <2>8 DEF HalfStatuses
  <2> DEFINE some == a.root \/ b.root
             failed == a.status = "FAILED" \/ b.status = "FAILED"
             pinned == (a.root => a.status = "PINNED") /\ (b.root => b.status = "PINNED")
             kept == /\ a.root => a.status \in {"DOWNLOADED", "PINNED"}
                     /\ b.root => b.status \in {"DOWNLOADED", "PINNED"}
             open == (a.root /\ a.status = "PENDING") \/ (b.root /\ b.status = "PENDING")
  <2>10. /\ HasRoots(h) <=> some
         /\ FailedWhere(h) <=> failed
         /\ PreservedWhere(h) <=> pinned
         /\ Both(h, {"PINNED"}) <=> pinned
         /\ Both(h, {"DOWNLOADED", "PINNED"}) <=> kept
         /\ PartialWhere(h) <=> ~ failed /\ ~ pinned /\ kept
         /\ PendingWhere(h) <=> ~ failed /\ ~ pinned /\ ~ kept /\ open
    <3>1. /\ HasRoots(h) <=> some
          /\ FailedWhere(h) <=> failed
          /\ Both(h, {"PINNED"}) <=> pinned
          /\ Both(h, {"DOWNLOADED", "PINNED"}) <=> kept
      BY <2>8
    <3>2. Linked("PENDING") \in {h[1], h[2]} <=> open
      BY <2>9
    <3> HIDE DEF some, failed, pinned, kept, open
    <3> QED BY <3>1, <3>2 DEF PreservedWhere, PartialWhere, PendingWhere
  <2>11. /\ w \in Matching("preserved") <=> some /\ pinned
         /\ w \in Matching("partial") <=> some /\ ~ failed /\ ~ pinned /\ kept
         /\ w \in Matching("pending") <=> some /\ ~ failed /\ ~ pinned /\ ~ kept /\ open
         /\ w \in Matching("failed") <=> some /\ failed
         /\ w \in Matching("missing") <=> ~ some
    <3> HIDE DEF some, failed, pinned, kept, open
    <3> QED BY <2>3, <2>10 DEF buildArchivedWhere, buildStatusWhere
  <2>12. /\ failed => ~ pinned
         /\ pinned => kept
    BY <2>5, <2>6
  <2>13. SkippedWhileLinked(h) <=> some /\ ~ failed /\ ~ pinned /\ ~ kept /\ ~ open
    BY <2>5, <2>6, <2>8, <2>9 DEF HalfStatuses
  <2>14. archiveItemStatus(h) = IF ~ some THEN "missing"
                                ELSE IF failed THEN "failed"
                                ELSE IF pinned THEN "preserved"
                                ELSE IF kept THEN "partial" ELSE "pending"
    BY <2>10 DEF archiveItemStatus
  <2> HIDE DEF some, failed, pinned, kept, open
  <2>15. \A f \in filters : w \in Matching(f) => archiveItemStatus(h) = f
    BY <2>11, <2>12, <2>14
  <2>16. (\A f \in filters : w \notin Matching(f)) <=> SkippedWhileLinked(h)
    BY <2>11, <2>12, <2>13
  <2> QED BY <2>2, <2>15, <2>16 DEF found
<1> QED BY <1>1, <1>2, <1>3, PTL DEF BrowsingSpec

-----------------------------------------------------------------------------
(* The files that a root depends on: what their walk promises of the       *)
(* manifest, and what later statements leave of the index.                 *)

\* The places of a sequence that are kept, counted in their order.
Rank(places, i) == Cardinality({j \in places : j <= i})

\* Different places have different ranks.
LEMMA RanksDiffer ==
    ASSUME NEW places, IsFiniteSet(places), places \subseteq Nat
    PROVE  \A i, j \in places : Rank(places, i) = Rank(places, j) => i = j
<1>1. \A i, j \in places : /\ i \in Nat /\ j \in Nat
                           /\ i < j \/ j < i \/ i = j
  OBVIOUS
<1>2. SUFFICES ASSUME NEW i \in places, NEW j \in places, i < j,
                      Rank(places, i) = Rank(places, j)
               PROVE  FALSE
  BY <1>1
<1> DEFINE upTo(k) == {l \in places : l <= k}
<1>3. upTo(i) \in SUBSET upTo(j) /\ j \in upTo(j) /\ j \notin upTo(i)
  <2>1. \A l \in places : (l <= i => l <= j) /\ j <= j /\ ~ (j <= i)
    BY <1>1, <1>2
  <2> QED BY <2>1
<1>4. IsFiniteSet(upTo(j))
  BY FS_Subset
<1>5. upTo(i) = upTo(j)
  BY <1>2, <1>3, <1>4, FS_Subset DEF Rank
<1> QED BY <1>3, <1>5

\* Every number up to their count is the rank of one of the places.
LEMMA RanksAreTaken ==
    ASSUME NEW places, IsFiniteSet(places), places \subseteq Nat
    PROVE  /\ \A i \in places : Rank(places, i) \in 1..Cardinality(places)
           /\ \A n \in 1..Cardinality(places) : \E i \in places : Rank(places, i) = n
<1> DEFINE upTo(i) == {j \in places : j <= i}
           ranks == [i \in places |-> Rank(places, i)]
           numbers == 1..Cardinality(places)
<1>1. Cardinality(places) \in Nat
  BY FS_CardinalityType
<1>2. \A i \in places : /\ IsFiniteSet(upTo(i))
                        /\ Rank(places, i) \in 1..Cardinality(places)
  <2>1. SUFFICES ASSUME NEW i \in places
                 PROVE  IsFiniteSet(upTo(i)) /\ Rank(places, i) \in 1..Cardinality(places)
    OBVIOUS
  <2>2. IsFiniteSet(upTo(i)) /\ Cardinality(upTo(i)) <= Cardinality(places)
    BY FS_Subset
  <2>3. Cardinality(upTo(i)) \in Nat /\ upTo(i) # {}
    BY <2>1, <2>2, FS_CardinalityType
  <2>4. Cardinality(upTo(i)) # 0
    BY <2>2, <2>3, FS_EmptySet
  <2> QED BY <1>1, <2>2, <2>3, <2>4 DEF Rank
<1>3. \A i, j \in places : Rank(places, i) = Rank(places, j) => i = j
  BY RanksDiffer
<1>4. ranks \in Injection(places, numbers)
  <2>1. ranks \in [places -> numbers]
    BY <1>2
  <2>2. \A i, j \in places : ranks[i] = ranks[j] => i = j
    BY <1>3
  <2> QED BY <2>1, <2>2 DEF Injection, IsInjective
<1>5. IsFiniteSet(numbers) /\ Cardinality(numbers) = Cardinality(places)
  BY <1>1, FS_Interval
<1>6. ranks \in Surjection(places, numbers)
  <2> HIDE DEF numbers, ranks
  <2> QED BY <1>4, <1>5, FS_Injection
<1>7. \A n \in numbers : \E i \in places : ranks[i] = n
  BY <1>6 DEF Surjection
<1> QED BY <1>2, <1>7

\* What is kept of a sequence is what it has at the places.
LEMMA PlacesAreKept ==
    ASSUME NEW S, NEW s \in Seq(S), NEW places \in SUBSET DOMAIN s
    PROVE  /\ AtPlaces(s, places) \in Seq({s[i] : i \in places})
           /\ \A i \in places : Contains(AtPlaces(s, places), s[i])
<1> DEFINE place(n) == CHOOSE i \in places : Rank(places, i) = n
           kept == AtPlaces(s, places)
<1>1. IsFiniteSet(places) /\ places \subseteq Nat /\ Cardinality(places) \in Nat
  <2>1. DOMAIN s = 1..Len(s) /\ Len(s) \in Nat
    OBVIOUS
  <2>2. IsFiniteSet(1..Len(s))
    BY <2>1, FS_Interval
  <2> QED BY <2>1, <2>2, FS_Subset, FS_CardinalityType
<1>2. /\ \A n \in 1..Cardinality(places) : place(n) \in places /\ Rank(places, place(n)) = n
      /\ \A i \in places : Rank(places, i) \in 1..Cardinality(places)
  BY <1>1, RanksAreTaken
<1>3. kept = [n \in 1..Cardinality(places) |-> s[place(n)]]
  BY DEF AtPlaces, Rank
<1>4. kept \in Seq({s[i] : i \in places}) /\ Len(kept) = Cardinality(places)
  <2> HIDE DEF kept, place
  <2>1. kept \in [1..Cardinality(places) -> {s[i] : i \in places}]
    BY <1>2, <1>3
  <2> QED BY <1>1, <2>1
<1>5. \A i, j \in places : Rank(places, i) = Rank(places, j) => i = j
  BY <1>1, RanksDiffer
<1>6. ASSUME NEW i \in places PROVE Contains(kept, s[i])
  <2>1. Rank(places, i) \in 1..Len(kept) /\ place(Rank(places, i)) = i
    BY <1>2, <1>4, <1>5
  <2>2. kept[Rank(places, i)] = s[i]
    BY <1>2, <1>3, <2>1
  <2> QED BY <2>1, <2>2 DEF Contains
<1> QED BY <1>4, <1>6

\* A file that occurs in a sequence has a first place in it.
LEMMA FirstPlace ==
    ASSUME NEW S, NEW s \in Seq(S), NEW i \in DOMAIN s
    PROVE  \E k \in DOMAIN s : s[k] = s[i] /\ \A j \in 1..(k - 1) : s[j] # s[k]
<1> DEFINE places == {k \in DOMAIN s : s[k] = s[i]}
<1>1. places \in SUBSET Nat /\ places # {} /\ DOMAIN s = 1..Len(s) /\ Len(s) \in Nat
  OBVIOUS
<1>2. PICK k \in places : \A j \in places : <<j, k>> \notin OpToRel(<, Nat)
  BY <1>1, NatLessThanWellFounded, WFMin
<1>3. \A j \in places : ~ (j < k)
  BY <1>1, <1>2 DEF OpToRel
<1> QED BY <1>1, <1>3

\* Nothing is lost by the removal of duplicates.
LEMMA NothingIsDropped ==
    ASSUME NEW S, NEW s \in Seq(S)
    PROVE  /\ dedupeReferences(s) \in Seq(S)
           /\ \A x : Contains(s, x) => Contains(dedupeReferences(s), x)
<1> DEFINE firsts == {i \in DOMAIN s : \A j \in 1..(i - 1) : s[j] # s[i]}
<1>1. firsts \in SUBSET DOMAIN s /\ DOMAIN s = 1..Len(s)
  OBVIOUS
<1>2. /\ AtPlaces(s, firsts) \in Seq({s[i] : i \in firsts})
      /\ \A i \in firsts : Contains(AtPlaces(s, firsts), s[i])
  <2> HIDE DEF firsts
  <2> QED BY <1>1, PlacesAreKept
<1>3. {s[i] : i \in firsts} \subseteq S
  BY <1>1
<1>4. AtPlaces(s, firsts) \in Seq(S)
  <2> HIDE DEF firsts
  <2> QED BY <1>2, <1>3
<1>5. ASSUME NEW x, Contains(s, x) PROVE Contains(AtPlaces(s, firsts), x)
  <2>1. PICK i \in DOMAIN s : s[i] = x
    BY <1>1, <1>5 DEF Contains
  <2>2. PICK k \in firsts : s[k] = x
    BY <2>1, FirstPlace
  <2> HIDE DEF firsts
  <2> QED BY <1>2, <2>2
<1> QED BY <1>4, <1>5 DEF dedupeReferences

LEMMA CandidatesAreAssets ==
    ASSUME NEW s \in Seq(Assets \cup {Elsewhere})
    PROVE  /\ Candidates(s) \in Seq(Assets)
           /\ \A g \in Assets : Contains(s, g) => Contains(Candidates(s), g)
<1> DEFINE here == {i \in DOMAIN s : toReferenceCandidate(s[i])}
<1>1. here \in SUBSET DOMAIN s /\ DOMAIN s = 1..Len(s)
  OBVIOUS
<1>2. /\ AtPlaces(s, here) \in Seq({s[i] : i \in here})
      /\ \A i \in here : Contains(AtPlaces(s, here), s[i])
  <2> HIDE DEF here
  <2> QED BY <1>1, PlacesAreKept
<1>3. {s[i] : i \in here} \subseteq Assets
  BY <1>1 DEF toReferenceCandidate
<1>4. AtPlaces(s, here) \in Seq(Assets)
  <2> HIDE DEF here
  <2> QED BY <1>2, <1>3
<1>5. ASSUME NEW g \in Assets, Contains(s, g) PROVE Contains(AtPlaces(s, here), g)
  <2>1. PICK i \in here : s[i] = g
    BY <1>1, <1>5, DependenciesAssumption DEF Contains, toReferenceCandidate
  <2> HIDE DEF here
  <2> QED BY <1>2, <2>1
<1> QED BY <1>4, <1>5 DEF Candidates

\* What a file refers to is followed in some order, nothing of it left out.
LEMMA ReferencesAreDiscovered ==
    ASSUME web \in Webs, NEW f \in Assets
    PROVE  /\ discoverReferencesFromArchivedAsset(f) \in Seq(Assets)
           /\ \A g \in Assets : RefersTo(f, g)
                => Contains(discoverReferencesFromArchivedAsset(f), g)
<1>1. web.refs[f] \in Seq(Assets \cup {Elsewhere})
  BY DependenciesAssumption DEF Web
<1> DEFINE candidates == Candidates(web.refs[f])
<1>2. /\ candidates \in Seq(Assets)
      /\ \A g \in Assets : RefersTo(f, g) => Contains(candidates, g)
  BY <1>1, CandidatesAreAssets DEF RefersTo
<1>3. /\ dedupeReferences(candidates) \in Seq(Assets)
      /\ \A g : Contains(candidates, g) => Contains(dedupeReferences(candidates), g)
  <2> HIDE DEF candidates
  <2> QED BY <1>2, NothingIsDropped
<1> QED BY <1>2, <1>3 DEF discoverReferencesFromArchivedAsset

LEMMA SeedsAreDiscovered ==
    ASSUME web \in Webs, NEW d \in Depicted
    PROVE  artworkSeedReferences(d) \in Seq(Assets)
<1>1. web.seeds[d] \in Seq(Assets \cup {Elsewhere})
  BY DependenciesAssumption DEF Web
<1>2. Candidates(web.seeds[d]) \in Seq(Assets)
  BY <1>1, CandidatesAreAssets
<1> QED BY <1>2, NothingIsDropped DEF artworkSeedReferences

-----------------------------------------------------------------------------
(* The walk: while it lasts, what a followed file refers to is in the       *)
(* manifest or waits in the loop of some call under way.                    *)

IsWalk(w) == w = [step |-> w.step, stack |-> w.stack, nodes |-> w.nodes,
                  visited |-> w.visited, stands |-> w.stands]
Frame == [depth : 1..MaxDepth, todo : Seq(Assets)]
Awaited(w, g) == \E i \in 1..Len(w.stack) : Contains(w.stack[i].todo, g)

WalkIsTrue(w) ==
    /\ w.stack \in Seq(Frame) /\ RootFile \in DOMAIN w.nodes /\ ~ w.stands
    /\ \A f \in DOMAIN w.nodes :
          w.nodes[f].status = "DOWNLOADED" /\ f \notin web.garbled => f \in DOMAIN w.visited
    /\ \A f \in DOMAIN w.visited : f \notin web.garbled /\ w.visited[f] < MaxDepth =>
          \A g \in Assets : RefersTo(f, g) => g \in DOMAIN w.nodes \/ Awaited(w, g)

\* The index: what a walk has found is in it as long as its rows stand.
Listed(d, f) ==
    IF f = RootFile THEN Row(d, f, "root") \in rows \/ Syncing(d)
    ELSE Row(d, f, "dependency") \in rows
IndexIsTrue(a) == walk[a].stands =>
    /\ walk[a].step \in {"list", "clear dag", "index dag", "done"}
    /\ \A f \in DOMAIN walk[a].nodes : Listed(ArtworkOf(a), f)

DependencyInv ==
    /\ web \in Webs
    /\ walk = [a \in Archivings |-> walk[a]] /\ \A a \in Archivings : IsWalk(walk[a])
    /\ \A a \in Archivings : walk[a].step = "follow" => WalkIsTrue(walk[a])
    /\ \A a \in Archivings : IndexIsTrue(a)
    /\ \A r \in rows : r.artwork \in Depicted

LEMMA ArtworksAreDepicted == web \in Webs => \A a \in Archivings : ArtworkOf(a) \in Depicted
<1> QED BY DependenciesAssumption DEF Web, ArtworkOf

\* A call adds a frame with all that it was given, unless it is too deep.
LEMMA CallAwaits ==
    ASSUME NEW stack \in Seq(Frame), NEW depth \in Nat \ {0}, NEW refs \in Seq(Assets)
    PROVE  /\ Call(stack, depth, refs) \in Seq(Frame)
           /\ \A g : (\E i \in 1..Len(stack) : Contains(stack[i].todo, g))
                => \E i \in 1..Len(Call(stack, depth, refs)) :
                      Contains(Call(stack, depth, refs)[i].todo, g)
           /\ depth <= MaxDepth => \A g : Contains(refs, g)
                => \E i \in 1..Len(Call(stack, depth, refs)) :
                      Contains(Call(stack, depth, refs)[i].todo, g)
<1> DEFINE new == [depth |-> depth, todo |-> dedupeReferences(refs)]
           more == Append(stack, new)
<1>1. dedupeReferences(refs) \in Seq(Assets) /\ MaxDepth \in Nat
  BY NothingIsDropped, DependenciesAssumption
<1>2. CASE depth > MaxDepth
  <2>1. Call(stack, depth, refs) = stack
    BY <1>2 DEF Call
  <2> QED BY <1>1, <1>2, <2>1
<1>3. CASE ~ (depth > MaxDepth)
  <2>1. Call(stack, depth, refs) = more
    BY <1>3 DEF Call
  <2>2. new \in Frame
    BY <1>1, <1>3 DEF Frame
  <2>3. /\ more \in Seq(Frame) /\ Len(more) = Len(stack) + 1 /\ more[Len(stack) + 1] = new
        /\ \A i \in 1..Len(stack) : more[i] = stack[i]
    <3> HIDE DEF new
    <3> QED BY <2>2
  <2>4. \A g : Contains(refs, g) => Contains(new.todo, g)
    BY NothingIsDropped
  <2> HIDE DEF new, more
  <2> QED BY <2>1, <2>3, <2>4
<1> QED BY <1>2, <1>3

\* The turn of a loop takes one file from what is awaited.
LEMMA RestAwaits ==
    ASSUME NEW a \in Archivings, walk[a].stack \in Seq(Frame), walk[a].stack # <<>>,
           Top(a).todo # <<>>
    PROVE  /\ Head(Top(a).todo) \in Assets /\ Top(a).depth \in 1..MaxDepth
           /\ Rest(a) \in Seq(Frame)
           /\ \A g : Awaited(walk[a], g) => g = Head(Top(a).todo)
                \/ \E i \in 1..Len(Rest(a)) : Contains(Rest(a)[i].todo, g)
<1> DEFINE stack == walk[a].stack
           top == stack[Len(stack)]
           front == SubSeq(stack, 1, Len(stack) - 1)
           cut == [top EXCEPT !.todo = Tail(@)]
<1>1. Top(a) = top /\ Popped(a) = front /\ Rest(a) = Append(front, cut)
  BY DEF Top, Popped, Rest, Last, Front
<1>2. stack \in Seq(Frame) /\ Len(stack) \in Nat /\ Len(stack) > 0
  OBVIOUS
<1>3. top \in Frame
  BY <1>2
<1>4. /\ front \in Seq(Frame) /\ Len(front) = Len(stack) - 1
      /\ \A i \in 1..(Len(stack) - 1) : front[i] = stack[i]
  <2> DEFINE n == Len(stack) - 1
  <2>1. n \in Nat /\ n <= Len(stack) /\ n - 1 + 1 = n
    BY <1>2
  <2> HIDE DEF stack, n
  <2>2. SubSeq(stack, 1, n) \in Seq(Frame) /\ Len(SubSeq(stack, 1, n)) = n
    BY <1>2, <2>1
  <2>3. \A i \in 1..n : SubSeq(stack, 1, n)[i] = stack[i]
    BY <1>2, <2>1
  <2> QED BY <2>2, <2>3 DEF n
<1>5. /\ top.todo \in Seq(Assets) /\ top.todo # <<>> /\ top.depth \in 1..MaxDepth
      /\ cut = [depth |-> top.depth, todo |-> Tail(top.todo)]
  <2>1. top.todo # <<>>
    BY <1>1
  <2> HIDE DEF top
  <2>2. top \in [depth : 1..MaxDepth, todo : Seq(Assets)]
    BY <1>3 DEF Frame
  <2> QED BY <2>1, <2>2
<1>6. /\ Head(top.todo) \in Assets /\ Tail(top.todo) \in Seq(Assets)
      /\ \A g : Contains(top.todo, g) => g = Head(top.todo) \/ Contains(Tail(top.todo), g)
  <2> DEFINE todo == top.todo
  <2>1. todo \in Seq(Assets) /\ todo # <<>>
    BY <1>5
  <2> HIDE DEF todo
  <2>2. /\ Head(todo) \in Assets /\ Tail(todo) \in Seq(Assets)
        /\ Len(Tail(todo)) = Len(todo) - 1 /\ Len(todo) \in Nat \ {0}
        /\ \A i \in 1..(Len(todo) - 1) : Tail(todo)[i] = todo[i + 1]
        /\ Head(todo) = todo[1]
    BY <2>1
  <2>3. ASSUME NEW g, Contains(todo, g)
        PROVE  g = Head(todo) \/ Contains(Tail(todo), g)
    <3>1. PICK i \in 1..Len(todo) : todo[i] = g
      BY <2>3 DEF Contains
    <3>2. CASE i = 1
      BY <2>2, <3>1, <3>2
    <3>3. CASE i # 1
      <4>1. i - 1 \in 1..(Len(todo) - 1) /\ Tail(todo)[i - 1] = g
        BY <2>2, <3>1, <3>3
      <4> QED BY <2>2, <4>1 DEF Contains
    <3> QED BY <3>2, <3>3
  <2> QED BY <2>2, <2>3 DEF todo
<1>7. cut \in Frame
  BY <1>5, <1>6 DEF Frame
<1>8. /\ Rest(a) \in Seq(Frame) /\ Len(Rest(a)) = Len(stack)
      /\ \A i \in 1..(Len(stack) - 1) : Rest(a)[i] = stack[i]
      /\ Rest(a)[Len(stack)] = cut
  <2> HIDE DEF front, cut, stack
  <2> QED BY <1>1, <1>2, <1>4, <1>7
<1>9. ASSUME NEW g, Awaited(walk[a], g)
      PROVE  g = Head(top.todo) \/ \E i \in 1..Len(Rest(a)) : Contains(Rest(a)[i].todo, g)
  <2>1. PICK i \in 1..Len(stack) : Contains(stack[i].todo, g)
    BY <1>9 DEF Awaited
  <2>2. CASE i = Len(stack)
    <3>1. Contains(top.todo, g) /\ cut.todo = Tail(top.todo)
      BY <1>5, <2>1, <2>2
    <3>2. g = Head(top.todo) \/ Contains(cut.todo, g)
      BY <1>6, <3>1
    <3> HIDE DEF top, cut, stack
    <3> QED BY <1>2, <1>8, <3>2
  <2>3. CASE i # Len(stack)
    <3> HIDE DEF top, cut, stack
    <3> QED BY <1>2, <1>8, <2>1, <2>3
  <2> QED BY <2>2, <2>3
<1> QED BY <1>1, <1>5, <1>6, <1>8, <1>9

LEMMA DependencyStarts == DependenciesInit => DependencyInv
<1> SUFFICES ASSUME DependenciesInit PROVE DependencyInv
  OBVIOUS
<1>1. ~ NoWalk.stands /\ NoWalk.step = "idle" /\ IsWalk(NoWalk)
  BY DEF NoWalk, IsWalk
<1>2. web \in Webs /\ rows = {} /\ walk = [a \in Archivings |-> NoWalk]
  BY DEF DependenciesInit
<1> QED BY <1>1, <1>2 DEF DependencyInv, IndexIsTrue

\* A file that was downloaded above the limit is followed before it counts.
LEMMA TurnKeepsWalk ==
    ASSUME DependencyInv, NEW a \in Archivings, Follow(a)
    PROVE  /\ walk' = [walk EXCEPT ![a] = walk'[a]] /\ IsWalk(walk'[a])
           /\ walk'[a].step = "follow" /\ WalkIsTrue(walk'[a])
<1> DEFINE w == walk[a]
           taken == Head(Top(a).todo)
           depth == Top(a).depth
           node(status) == With(w.nodes, taken, [depth |-> depth, status |-> status])
           marked == With(w.visited, taken, depth)
           deeper == Call(Rest(a), depth + 1, discoverReferencesFromArchivedAsset(taken))
           next(stack, nodes, visited) ==
               [step |-> w.step, stack |-> stack, nodes |-> nodes, visited |-> visited,
                stands |-> w.stands]
<1>1. /\ walk = [b \in Archivings |-> walk[b]] /\ IsWalk(w) /\ web \in Webs
      /\ w.step = "follow" /\ WalkIsTrue(w) /\ w.stack # <<>> /\ Top(a).todo # <<>>
  BY DEF DependencyInv, Follow
<1>2. /\ taken \in Assets /\ depth \in 1..MaxDepth /\ Rest(a) \in Seq(Frame)
      /\ \A g : Awaited(w, g) => g = taken
            \/ \E i \in 1..Len(Rest(a)) : Contains(Rest(a)[i].todo, g)
  BY <1>1, RestAwaits DEF WalkIsTrue
<1>3. \/ taken = RootFile /\ walk'[a] = next(Rest(a), w.nodes, w.visited)
      \/ walk'[a] = next(Rest(a), node("FAILED"), w.visited)
      \/ /\ taken \in DOMAIN w.visited
         /\ walk'[a] = next(Rest(a), node("DOWNLOADED"), w.visited)
      \/ taken \in web.garbled /\ walk'[a] = next(Rest(a), node("FAILED"), marked)
      \/ walk'[a] = next(deeper, node("DOWNLOADED"), marked)
  <2>1. \A stack, nodes, visited :
          walk' = [walk EXCEPT ![a].stack = stack, ![a].nodes = nodes, ![a].visited = visited]
            => walk'[a] = next(stack, nodes, visited)
    BY <1>1 DEF IsWalk
  <2> DEFINE then(stack, nodes, visited) == walk' = [walk EXCEPT
                 ![a].stack = stack, ![a].nodes = nodes, ![a].visited = visited]
  <2>2. \/ taken = RootFile /\ then(Rest(a), w.nodes, w.visited)
        \/ then(Rest(a), node("FAILED"), w.visited)
        \/ IF taken \in DOMAIN w.visited THEN then(Rest(a), node("DOWNLOADED"), w.visited)
           ELSE IF taken \in web.garbled THEN then(Rest(a), node("FAILED"), marked)
           ELSE then(deeper, node("DOWNLOADED"), marked)
    <3> HIDE DEF next
    <3> QED BY DEF Follow, VisitedAfterFailure
  <2> HIDE DEF next, then, taken, node, marked, deeper, w
  <2>3. \A stack, nodes, visited :
          then(stack, nodes, visited) => walk'[a] = next(stack, nodes, visited)
    BY <2>1 DEF then
  <2> QED BY <2>2, <2>3
<1>4. walk' = [walk EXCEPT ![a] = walk'[a]]
  <2>1. \E x : walk' = [walk EXCEPT ![a] = x]
    BY <1>1 DEF Follow
  <2> QED BY <1>1, <2>1
<1>5. \A status : /\ DOMAIN node(status) = DOMAIN w.nodes \cup {taken}
                  /\ node(status)[taken].status = status
                  /\ \A f \in DOMAIN w.nodes \ {taken} : node(status)[f] = w.nodes[f]
  BY DEF With
<1>6. /\ DOMAIN marked = DOMAIN w.visited \cup {taken} /\ marked[taken] = depth
      /\ \A f \in DOMAIN w.visited \ {taken} : marked[f] = w.visited[f]
  BY DEF With
<1> HIDE DEF node, marked
\* What was promised of w is kept by a stack that awaits what w does, but for
\* the file itself, which is in the manifest now.
<1>7. ASSUME NEW stack \in Seq(Frame), NEW nodes, NEW visited,
             DOMAIN w.nodes \subseteq DOMAIN nodes, taken \in DOMAIN nodes,
             \A g : (\E i \in 1..Len(Rest(a)) : Contains(Rest(a)[i].todo, g))
                => \E i \in 1..Len(stack) : Contains(stack[i].todo, g),
             \A f \in DOMAIN nodes :
                nodes[f].status = "DOWNLOADED" /\ f \notin web.garbled => f \in DOMAIN visited,
             \A f \in DOMAIN visited :
                \/ f \in DOMAIN w.visited /\ visited[f] = w.visited[f]
                \/ f \in web.garbled
                \/ ~ (visited[f] < MaxDepth)
                \/ \A g \in Assets : RefersTo(f, g) =>
                      \E i \in 1..Len(stack) : Contains(stack[i].todo, g)
      PROVE  WalkIsTrue(next(stack, nodes, visited))
  <2>1. \A g : Awaited(w, g) => g \in DOMAIN nodes
                \/ \E i \in 1..Len(stack) : Contains(stack[i].todo, g)
    BY <1>2, <1>7
  <2>2. \A f \in DOMAIN w.visited : f \notin web.garbled /\ w.visited[f] < MaxDepth =>
          \A g \in Assets : RefersTo(f, g) => g \in DOMAIN w.nodes \/ Awaited(w, g)
    BY <1>1 DEF WalkIsTrue
  <2>3. \A f \in DOMAIN visited : f \notin web.garbled /\ visited[f] < MaxDepth =>
          \A g \in Assets : RefersTo(f, g) => g \in DOMAIN nodes
                \/ \E i \in 1..Len(stack) : Contains(stack[i].todo, g)
    BY <1>7, <2>1, <2>2
  <2>4. RootFile \in DOMAIN nodes /\ ~ w.stands
    BY <1>1, <1>7 DEF WalkIsTrue
  <2> QED BY <1>7, <2>3, <2>4 DEF WalkIsTrue, Awaited
<1>8. \A f \in DOMAIN w.nodes :
        w.nodes[f].status = "DOWNLOADED" /\ f \notin web.garbled => f \in DOMAIN w.visited
  BY <1>1 DEF WalkIsTrue
<1>9. RootFile \in DOMAIN w.nodes
  BY <1>1 DEF WalkIsTrue
<1>10. CASE taken = RootFile /\ walk'[a] = next(Rest(a), w.nodes, w.visited)
  BY <1>1, <1>2, <1>4, <1>7, <1>8, <1>9, <1>10 DEF IsWalk
<1>11. CASE walk'[a] = next(Rest(a), node("FAILED"), w.visited)
  <2>1. \A f \in DOMAIN node("FAILED") :
          node("FAILED")[f].status = "DOWNLOADED" /\ f \notin web.garbled
            => f \in DOMAIN w.visited
    BY <1>5, <1>8
  <2>2. WalkIsTrue(next(Rest(a), node("FAILED"), w.visited))
    BY <1>2, <1>5, <1>7, <2>1
  <2> QED BY <1>1, <1>4, <1>11, <2>2 DEF IsWalk
<1>12. CASE /\ taken \in DOMAIN w.visited
            /\ walk'[a] = next(Rest(a), node("DOWNLOADED"), w.visited)
  <2>1. \A f \in DOMAIN node("DOWNLOADED") :
          node("DOWNLOADED")[f].status = "DOWNLOADED" /\ f \notin web.garbled
            => f \in DOMAIN w.visited
    BY <1>5, <1>8, <1>12
  <2>2. WalkIsTrue(next(Rest(a), node("DOWNLOADED"), w.visited))
    BY <1>2, <1>5, <1>7, <2>1
  <2> QED BY <1>1, <1>4, <1>12, <2>2 DEF IsWalk
<1>13. CASE taken \in web.garbled /\ walk'[a] = next(Rest(a), node("FAILED"), marked)
  <2>1. \A f \in DOMAIN node("FAILED") :
          node("FAILED")[f].status = "DOWNLOADED" /\ f \notin web.garbled
            => f \in DOMAIN marked
    BY <1>5, <1>6, <1>8
  <2>2. \A f \in DOMAIN marked :
          f \in web.garbled \/ (f \in DOMAIN w.visited /\ marked[f] = w.visited[f])
    BY <1>6, <1>13
  <2>3. WalkIsTrue(next(Rest(a), node("FAILED"), marked))
    BY <1>2, <1>5, <1>7, <2>1, <2>2
  <2> QED BY <1>1, <1>4, <1>13, <2>3 DEF IsWalk
<1>14. CASE walk'[a] = next(deeper, node("DOWNLOADED"), marked)
  <2>1. /\ discoverReferencesFromArchivedAsset(taken) \in Seq(Assets)
        /\ \A g \in Assets : RefersTo(taken, g)
             => Contains(discoverReferencesFromArchivedAsset(taken), g)
    BY <1>1, <1>2, ReferencesAreDiscovered
  <2>2. depth \in Nat /\ depth + 1 \in Nat \ {0} /\ MaxDepth \in Nat
        /\ (depth < MaxDepth => depth + 1 <= MaxDepth)
    BY <1>2, DependenciesAssumption
  <2>3. /\ deeper \in Seq(Frame)
        /\ \A g : (\E i \in 1..Len(Rest(a)) : Contains(Rest(a)[i].todo, g))
             => \E i \in 1..Len(deeper) : Contains(deeper[i].todo, g)
        /\ depth + 1 <= MaxDepth =>
             \A g : Contains(discoverReferencesFromArchivedAsset(taken), g)
                => \E i \in 1..Len(deeper) : Contains(deeper[i].todo, g)
    BY <1>2, <2>1, <2>2, CallAwaits
  <2> HIDE DEF deeper, taken, depth
  <2>4. \A f \in DOMAIN node("DOWNLOADED") :
          node("DOWNLOADED")[f].status = "DOWNLOADED" /\ f \notin web.garbled
            => f \in DOMAIN marked
    BY <1>5, <1>6, <1>8
  <2>5. \A f \in DOMAIN marked :
          \/ f \in DOMAIN w.visited /\ marked[f] = w.visited[f]
          \/ ~ (marked[f] < MaxDepth)
          \/ \A g \in Assets : RefersTo(f, g) =>
                \E i \in 1..Len(deeper) : Contains(deeper[i].todo, g)
    BY <1>6, <2>1, <2>2, <2>3
  <2>6. WalkIsTrue(next(deeper, node("DOWNLOADED"), marked))
    BY <1>5, <1>7, <2>3, <2>4, <2>5
  <2> QED BY <1>1, <1>4, <1>14, <2>6 DEF IsWalk
<1> QED BY <1>3, <1>10, <1>11, <1>12, <1>13, <1>14

\* The first references are those of the root, at a depth that is allowed.
LEMMA WalkBegins ==
    ASSUME DependencyInv, NEW a \in Archivings, BeginWalk(a)
    PROVE  /\ walk' = [walk EXCEPT ![a] = walk'[a]] /\ IsWalk(walk'[a])
           /\ walk'[a].step = "follow" /\ WalkIsTrue(walk'[a])
<1> DEFINE refs == artworkSeedReferences(ArtworkOf(a)) \o discoverReferencesFromArchivedAsset(RootFile)
           stack == Call(<<>>, 1, refs)
           w == walk'[a]
<1>1. walk = [b \in Archivings |-> walk[b]] /\ web \in Webs
  BY DEF DependencyInv
<1>2. /\ w = [step |-> "follow", stack |-> stack,
              nodes |-> With(<<>>, RootFile, [depth |-> 0, status |-> "DOWNLOADED"]),
              visited |-> With(<<>>, RootFile, 0), stands |-> FALSE]
      /\ walk' = [walk EXCEPT ![a] = w]
  BY <1>1 DEF BeginWalk
<1>3. DOMAIN w.nodes = {RootFile} /\ DOMAIN w.visited = {RootFile} /\ ~ w.stands
  BY <1>2 DEF With
<1>4. RootFile \in Assets /\ MaxDepth \in Nat \ {0}
  BY DependenciesAssumption
<1>5. /\ artworkSeedReferences(ArtworkOf(a)) \in Seq(Assets)
      /\ discoverReferencesFromArchivedAsset(RootFile) \in Seq(Assets)
      /\ \A g \in Assets : RefersTo(RootFile, g)
            => Contains(discoverReferencesFromArchivedAsset(RootFile), g)
  BY <1>1, <1>4, ArtworksAreDepicted, SeedsAreDiscovered, ReferencesAreDiscovered
<1>6. refs \in Seq(Assets) /\ \A g \in Assets : RefersTo(RootFile, g) => Contains(refs, g)
  <2>1. ASSUME NEW s \in Seq(Assets), NEW t \in Seq(Assets), NEW g, Contains(t, g)
        PROVE  Contains(s \o t, g)
    <3>1. PICK i \in 1..Len(t) : t[i] = g
      BY <2>1 DEF Contains
    <3>2. Len(s) + i \in 1..Len(s \o t) /\ (s \o t)[Len(s) + i] = g
      BY <3>1
    <3> QED BY <3>2 DEF Contains
  <2> QED BY <1>5, <2>1
<1>7. <<>> \in Seq(Frame) /\ 1 \in Nat \ {0} /\ 1 <= MaxDepth
  BY <1>4
<1>8. /\ stack \in Seq(Frame)
      /\ \A g : Contains(refs, g) => \E i \in 1..Len(stack) : Contains(stack[i].todo, g)
  <2> HIDE DEF refs
  <2> QED BY <1>6, <1>7, CallAwaits
<1>9. w.stack = stack
  BY <1>2
<1>10. \A g \in Assets : RefersTo(RootFile, g) => Awaited(w, g)
  <2> HIDE DEF refs, stack, w
  <2> QED BY <1>6, <1>8, <1>9 DEF Awaited
<1>11. WalkIsTrue(w)
  <2> HIDE DEF refs, stack, w
  <2> QED BY <1>3, <1>8, <1>9, <1>10 DEF WalkIsTrue
<1> QED BY <1>2, <1>11 DEF IsWalk

\* A call that has nothing left awaits nothing.
LEMMA ReturnKeepsWalk ==
    ASSUME DependencyInv, NEW a \in Archivings, Return(a)
    PROVE  /\ walk' = [walk EXCEPT ![a] = walk'[a]] /\ IsWalk(walk'[a])
           /\ walk'[a].step = "follow" /\ WalkIsTrue(walk'[a])
<1> DEFINE w == walk[a]
           stack == w.stack
           n == Len(stack) - 1
           front == SubSeq(stack, 1, n)
<1>1. /\ walk = [b \in Archivings |-> walk[b]] /\ IsWalk(w) /\ WalkIsTrue(w)
      /\ w.step = "follow" /\ stack # <<>> /\ stack[Len(stack)].todo = <<>>
      /\ walk' = [walk EXCEPT ![a].stack = front]
  BY DEF DependencyInv, Return, Top, Popped, Last, Front
<1>2. walk'[a] = [step |-> w.step, stack |-> front, nodes |-> w.nodes, visited |-> w.visited,
                stands |-> w.stands]
  <2> HIDE DEF front
  <2> QED BY <1>1 DEF IsWalk
<1>3. walk' = [walk EXCEPT ![a] = walk'[a]]
  <2> HIDE DEF front
  <2> QED BY <1>1
<1>4. stack \in Seq(Frame) /\ Len(stack) \in Nat /\ n \in Nat /\ n <= Len(stack)
  BY <1>1 DEF WalkIsTrue
<1>5. front \in Seq(Frame) /\ Len(front) = n /\ \A i \in 1..n : front[i] = stack[i]
  <2> HIDE DEF stack, n
  <2>1. front \in Seq(Frame) /\ Len(front) = n
    BY <1>4
  <2>2. \A i \in 1..n : front[i] = stack[i]
    BY <1>4
  <2> QED BY <2>1, <2>2
<1>6. \A g : ~ Contains(stack[Len(stack)].todo, g)
  BY <1>1 DEF Contains
<1>7. ASSUME NEW g, Awaited(w, g)
      PROVE  \E i \in 1..Len(front) : Contains(front[i].todo, g)
  <2>1. PICK i \in 1..Len(stack) : Contains(stack[i].todo, g)
    BY <1>7 DEF Awaited
  <2>2. i \in 1..n
    BY <1>4, <1>6, <2>1
  <2> HIDE DEF front, n
  <2> QED BY <1>5, <2>1, <2>2
<1>8. WalkIsTrue(walk'[a])
  <2> DEFINE v == walk'[a]
  <2>1. /\ v.stack = front /\ v.nodes = w.nodes /\ v.visited = w.visited
        /\ v.stands = w.stands
    BY <1>2
  <2>2. \A g : Awaited(w, g) => Awaited(v, g)
    BY <1>7, <2>1 DEF Awaited
  <2>3. /\ RootFile \in DOMAIN w.nodes /\ ~ w.stands
        /\ \A f \in DOMAIN w.nodes :
              w.nodes[f].status = "DOWNLOADED" /\ f \notin web.garbled
                => f \in DOMAIN w.visited
        /\ \A f \in DOMAIN w.visited : f \notin web.garbled /\ w.visited[f] < MaxDepth =>
              \A g \in Assets : RefersTo(f, g) => g \in DOMAIN w.nodes \/ Awaited(w, g)
    BY <1>1 DEF WalkIsTrue
  <2>4. v.stack \in Seq(Frame)
    BY <1>5, <2>1
  <2>5. WalkIsTrue(v)
    <3> HIDE DEF front, n, v, w
    <3> QED BY <2>1, <2>2, <2>3, <2>4 DEF WalkIsTrue
  <2> QED BY <2>5
<1> QED BY <1>1, <1>2, <1>3, <1>8 DEF IsWalk

\* What was listed stays so, and then the other archivings are as true as
\* they were: the steps of one leave the walks of the others alone.
LEMMA WalkKeeps ==
    ASSUME DependencyInv, NEW a \in Archivings, web' = web,
           walk' = [walk EXCEPT ![a] = walk'[a]], IsWalk(walk'[a]),
           walk'[a].step = "follow" => WalkIsTrue(walk'[a]),
           IndexIsTrue(a)', \A r \in rows' : r.artwork \in Depicted,
           \A d \in Depicted : \A f : Listed(d, f) => Listed(d, f)'
    PROVE  DependencyInv'
<1>1. /\ web \in Webs /\ walk = [b \in Archivings |-> walk[b]]
      /\ \A b \in Archivings : /\ IsWalk(walk[b]) /\ IndexIsTrue(b)
                               /\ walk[b].step = "follow" => WalkIsTrue(walk[b])
  BY DEF DependencyInv
<1>2. \A b \in Archivings \ {a} : walk'[b] = walk[b]
  BY <1>1
<1>3. walk' = [b \in Archivings |-> walk'[b]]
  BY <1>1
<1>4. \A b \in Archivings : walk'[b].step = "follow" => WalkIsTrue(walk'[b])
  BY <1>1, <1>2
<1>5. \A b \in Archivings : (walk[b].step = "follow" => WalkIsTrue(walk[b]))'
  BY <1>4 DEF WalkIsTrue, Awaited, RefersTo
<1>6. \A b \in Archivings \ {a} : IndexIsTrue(b)'
  <2>1. \A b \in Archivings : ArtworkOf(b)' = ArtworkOf(b) /\ ArtworkOf(b) \in Depicted
    BY <1>1, ArtworksAreDepicted DEF ArtworkOf
  <2> QED BY <1>1, <1>2, <2>1 DEF IndexIsTrue
<1>7. \A b \in Archivings : IsWalk(walk'[b])
  BY <1>1, <1>2
<1> QED BY <1>1, <1>3, <1>5, <1>6, <1>7 DEF DependencyInv

\* Rows are only added, and nobody ends a sync without the row of the root.
LEMMA ListedStays ==
    ASSUME DependencyInv, NEW a \in Archivings, web' = web,
           walk' = [walk EXCEPT ![a] = walk'[a]], walk[a].step # "sync",
           rows \subseteq rows'
    PROVE  \A d \in Depicted : \A f : Listed(d, f) => Listed(d, f)'
<1>1. walk = [b \in Archivings |-> walk[b]]
  BY DEF DependencyInv
<1>2. \A b \in Archivings : walk[b].step = "sync" => walk'[b] = walk[b]
  BY <1>1
<1>3. \A d : Syncing(d) => Syncing(d)'
  BY <1>2 DEF Syncing, ArtworkOf
<1> QED BY <1>3 DEF Listed, Row

\* The next step of an archiving that neither follows references nor writes
\* rows.
LEMMA StepKeepsIndex ==
    ASSUME DependencyInv, NEW a \in Archivings, web' = web, rows' = rows,
           NEW next, walk' = [walk EXCEPT ![a].step = next],
           next \notin {"follow", "sync"}, walk[a].step # "sync",
           walk[a].stands => next \in {"list", "clear dag", "index dag", "done"}
    PROVE  DependencyInv'
<1>1. /\ walk = [b \in Archivings |-> walk[b]] /\ IsWalk(walk[a]) /\ IndexIsTrue(a)
      /\ web \in Webs /\ \A r \in rows : r.artwork \in Depicted
  BY DEF DependencyInv
<1>2. /\ walk' = [walk EXCEPT ![a] = walk'[a]] /\ IsWalk(walk'[a])
      /\ walk'[a].step = next /\ walk'[a].nodes = walk[a].nodes
      /\ walk'[a].stands = walk[a].stands
  BY <1>1 DEF IsWalk
<1>3. \A d \in Depicted : \A f : Listed(d, f) => Listed(d, f)'
  BY <1>2, ListedStays
<1>4. ArtworkOf(a)' = ArtworkOf(a) /\ ArtworkOf(a) \in Depicted
  BY <1>1, ArtworksAreDepicted DEF ArtworkOf
<1>5. IndexIsTrue(a)'
  BY <1>1, <1>2, <1>3, <1>4 DEF IndexIsTrue
<1> QED BY <1>1, <1>2, <1>3, <1>5, WalkKeeps

LEMMA DependencyStep == DependencyInv /\ [DependenciesNext]_dependencyVars => DependencyInv'
<1> SUFFICES ASSUME DependencyInv, [DependenciesNext]_dependencyVars PROVE DependencyInv'
  OBVIOUS
<1>1. CASE UNCHANGED dependencyVars
  BY <1>1 DEF dependencyVars, DependencyInv, IsWalk, WalkIsTrue, Awaited, RefersTo,
              IndexIsTrue, Listed, Syncing, ArtworkOf
<1>2. CASE DependenciesNext
  <2>1. PICK a \in Archivings : WalkStep(a)
    BY <1>2 DEF DependenciesNext
  <2>2. /\ web \in Webs /\ walk = [b \in Archivings |-> walk[b]]
        /\ IsWalk(walk[a]) /\ IndexIsTrue(a) /\ \A r \in rows : r.artwork \in Depicted
    BY DEF DependencyInv
  <2>3. web' = web
    BY <2>1 DEF WalkStep, ClearRoot, IndexRoot, BeginWalk, SkipWalk, Follow, Return,
                SaveManifest, ClearRows, IndexNodes, FailVerification, ListEntries,
                ClearEntries, IndexEntries
  <2> DEFINE d == ArtworkOf(a)
  <2>4. /\ \A e, f, source : /\ Row(e, f, source).artwork = e
                            /\ Row(e, f, source).file = f
                            /\ Row(e, f, source).source = source
                            /\ Row(e, f, source)' = Row(e, f, source)
        /\ d \in Depicted /\ d' = d
    BY <2>2, <2>3, ArtworksAreDepicted DEF Row, ArtworkOf
  <2>5. ASSUME NEW step, walk' = [walk EXCEPT ![a].step = step]
        PROVE  /\ walk' = [walk EXCEPT ![a] = walk'[a]] /\ IsWalk(walk'[a])
               /\ walk'[a].step = step /\ walk'[a].nodes = walk[a].nodes
               /\ walk'[a].stands = walk[a].stands
    BY <2>2, <2>5 DEF IsWalk
  <2> HIDE DEF d
  <2>6. CASE ClearRoot(a)
    <3>1. /\ walk[a].step = "idle" /\ walk' = [walk EXCEPT ![a].step = "sync"]
          /\ rows' = {r \in rows : r.artwork = d => r.source # "root"}
      BY <2>6 DEF ClearRoot, d
    <3>2. /\ walk' = [walk EXCEPT ![a] = walk'[a]] /\ IsWalk(walk'[a])
          /\ walk'[a].step = "sync" /\ ~ walk'[a].stands
      BY <2>2, <2>5, <3>1 DEF IndexIsTrue
    <3>3. Syncing(d)' /\ \A e : Syncing(e) => Syncing(e)'
      <4>1. \A b \in Archivings : walk[b].step = "sync" => walk'[b].step = "sync"
        BY <2>2, <3>1
      <4> QED BY <2>3, <2>4, <3>2, <4>1 DEF Syncing, ArtworkOf, d
    <3>4. \A e \in Depicted : \A f : Listed(e, f) => Listed(e, f)'
      BY <2>4, <3>1, <3>3 DEF Listed
    <3>5. IndexIsTrue(a)'
      BY <3>2 DEF IndexIsTrue
    <3> QED BY <2>2, <2>3, <3>1, <3>2, <3>4, <3>5, WalkKeeps
  <2>7. CASE IndexRoot(a)
    <3>1. /\ walk[a].step = "sync" /\ walk' = [walk EXCEPT ![a].step = "begin"]
          /\ rows' = rows \cup {Row(d, RootFile, "root")}
      BY <2>7 DEF IndexRoot, d
    <3>2. /\ walk' = [walk EXCEPT ![a] = walk'[a]] /\ IsWalk(walk'[a])
          /\ walk'[a].step = "begin" /\ ~ walk'[a].stands
      BY <2>2, <2>5, <3>1 DEF IndexIsTrue
    <3>3. \A e : e # d => (Syncing(e) => Syncing(e)')
      <4>1. \A b \in Archivings : b # a => walk'[b] = walk[b]
        BY <2>2, <3>1
      <4> QED BY <2>3, <4>1 DEF Syncing, ArtworkOf, d
    <3>4. \A e \in Depicted : \A f : Listed(e, f) => Listed(e, f)'
      <4>1. Row(d, RootFile, "root") \in rows'
        BY <3>1
      <4>2. \A e, f, source : Row(e, f, source)' = Row(e, f, source)
        BY DEF Row
      <4> QED BY <3>1, <3>3, <4>1, <4>2 DEF Listed
    <3>5. IndexIsTrue(a)'
      BY <3>2 DEF IndexIsTrue
    <3> QED BY <2>2, <2>3, <2>4, <3>1, <3>2, <3>4, <3>5, WalkKeeps
  <2>8. CASE BeginWalk(a)
    <3>1. /\ IndexIsTrue(a)' /\ rows' = rows /\ walk[a].step # "sync"
      BY <2>8, WalkBegins DEF IndexIsTrue, BeginWalk, WalkIsTrue
    <3>2. \A e \in Depicted : \A f : Listed(e, f) => Listed(e, f)'
      BY <2>3, <2>8, <3>1, WalkBegins, ListedStays
    <3> QED BY <2>2, <2>3, <2>8, <3>1, <3>2, WalkBegins, WalkKeeps
  <2>9. CASE SkipWalk(a)
    <3>1. PICK next \in {"list", "done"} : walk' = [walk EXCEPT ![a].step = next]
      BY <2>9 DEF SkipWalk
    <3>2. rows' = rows /\ walk[a].step = "begin" /\ ~ walk[a].stands
      BY <2>2, <2>9 DEF SkipWalk, IndexIsTrue
    <3> QED BY <2>3, <3>1, <3>2, StepKeepsIndex
  <2>10. CASE Follow(a)
    <3>1. IndexIsTrue(a)' /\ rows' = rows /\ walk[a].step # "sync"
      BY <2>10, TurnKeepsWalk DEF IndexIsTrue, Follow, WalkIsTrue
    <3>2. \A e \in Depicted : \A f : Listed(e, f) => Listed(e, f)'
      BY <2>3, <2>10, <3>1, TurnKeepsWalk, ListedStays
    <3> QED BY <2>2, <2>3, <2>10, <3>1, <3>2, TurnKeepsWalk, WalkKeeps
  <2>11. CASE Return(a)
    <3>1. IndexIsTrue(a)' /\ rows' = rows /\ walk[a].step # "sync"
      BY <2>11, ReturnKeepsWalk DEF IndexIsTrue, Return, WalkIsTrue
    <3>2. \A e \in Depicted : \A f : Listed(e, f) => Listed(e, f)'
      BY <2>3, <2>11, <3>1, ReturnKeepsWalk, ListedStays
    <3> QED BY <2>2, <2>3, <2>11, <3>1, <3>2, ReturnKeepsWalk, WalkKeeps
  <2>12. CASE SaveManifest(a)
    <3>1. PICK next \in {"clear"} : walk' = [walk EXCEPT ![a].step = next]
      BY <2>12 DEF SaveManifest
    <3>2. rows' = rows /\ walk[a].step = "follow" /\ ~ walk[a].stands
      BY <2>2, <2>12 DEF SaveManifest, Walked, IndexIsTrue
    <3> QED BY <2>3, <3>1, <3>2, StepKeepsIndex
  <2>13. CASE FailVerification(a)
    <3>1. PICK next \in {"list"} : walk' = [walk EXCEPT ![a].step = next]
      BY <2>13 DEF FailVerification
    <3>2. rows' = rows /\ walk[a].step # "sync"
      BY <2>13 DEF FailVerification, Walked
    <3> QED BY <2>3, <3>1, <3>2, StepKeepsIndex
  <2>14. CASE ClearRows(a)
    <3>1. /\ walk[a].step = "clear" /\ ~ walk[a].stands
          /\ walk' = [b \in Archivings |->
                 IF b = a THEN [walk[b] EXCEPT !.step = "index"]
                 ELSE IF ArtworkOf(b) = d THEN [walk[b] EXCEPT !.stands = FALSE]
                 ELSE walk[b]]
          /\ rows' = {r \in rows : r.artwork = d => r.source = "root"}
      BY <2>2, <2>14 DEF ClearRows, IndexIsTrue, d
    <3>2. \A b \in Archivings : IsWalk(walk[b]) /\ IndexIsTrue(b)
      BY DEF DependencyInv
    <3>3. \A b \in Archivings :
            /\ IsWalk(walk'[b]) /\ (b = a \/ walk'[b].step = walk[b].step)
            /\ walk'[b].stands => ArtworkOf(b) # d /\ walk'[b] = walk[b]
            /\ ~ walk[b].stands => ~ walk'[b].stands
            /\ walk'[b].stack = walk[b].stack /\ walk'[b].nodes = walk[b].nodes
            /\ walk'[b].visited = walk[b].visited
      <4>1. SUFFICES ASSUME NEW b \in Archivings
              PROVE  /\ IsWalk(walk'[b]) /\ (b = a \/ walk'[b].step = walk[b].step)
                     /\ walk'[b].stands => ArtworkOf(b) # d /\ walk'[b] = walk[b]
                     /\ ~ walk[b].stands => ~ walk'[b].stands
                     /\ walk'[b].stack = walk[b].stack /\ walk'[b].nodes = walk[b].nodes
                     /\ walk'[b].visited = walk[b].visited
        OBVIOUS
      <4>2. IsWalk(walk[b])
        BY <3>2
      <4>3. CASE b = a
        <5>1. walk'[b] = [walk[b] EXCEPT !.step = "index"]
          BY <3>1, <4>3
        <5> QED BY <3>1, <4>2, <4>3, <5>1 DEF IsWalk
      <4>4. CASE b # a /\ ArtworkOf(b) = d
        <5>1. walk'[b] = [walk[b] EXCEPT !.stands = FALSE]
          BY <3>1, <4>4
        <5> QED BY <4>2, <5>1 DEF IsWalk
      <4>5. CASE b # a /\ ArtworkOf(b) # d
        <5>1. walk'[b] = walk[b]
          BY <3>1, <4>5
        <5> QED BY <4>2, <4>5, <5>1
      <4> QED BY <4>3, <4>4, <4>5
    <3>4. walk'[a].step = "index"
      <4>1. walk'[a] = [walk[a] EXCEPT !.step = "index"]
        BY <3>1
      <4> QED BY <2>2, <4>1 DEF IsWalk
    <3>5. \A b \in Archivings : (walk[b].step = "follow" => WalkIsTrue(walk[b]))'
      <4>1. \A b \in Archivings : walk[b].step = "follow" => WalkIsTrue(walk[b])
        BY DEF DependencyInv
      <4> QED BY <2>3, <3>3, <3>4, <4>1 DEF WalkIsTrue, Awaited, RefersTo
    <3>6. \A e \in Depicted : \A f : e # d /\ Listed(e, f) => Listed(e, f)'
      <4>1. \A e : Syncing(e) => Syncing(e)'
        BY <2>3, <3>1, <3>3 DEF Syncing, ArtworkOf
      <4> QED BY <2>4, <3>1, <4>1 DEF Listed
    <3>7. \A b \in Archivings : IndexIsTrue(b)'
      <4>1. \A b \in Archivings : ArtworkOf(b)' = ArtworkOf(b) /\ ArtworkOf(b) \in Depicted
        BY <2>2, <2>3, ArtworksAreDepicted DEF ArtworkOf
      <4> QED BY <3>2, <3>3, <3>6, <4>1 DEF IndexIsTrue
    <3>8. walk' = [b \in Archivings |-> walk'[b]] /\ \A r \in rows' : r.artwork \in Depicted
      BY <2>2, <3>1
    <3> QED BY <2>2, <2>3, <3>3, <3>5, <3>7, <3>8 DEF DependencyInv
  <2>15. CASE IndexNodes(a)
    <3>1. /\ walk' = [walk EXCEPT ![a].step = "list", ![a].stands = TRUE]
          /\ rows' = rows \cup {Row(d, f, IF f = RootFile THEN "root" ELSE "dependency") :
                                    f \in DOMAIN walk[a].nodes}
          /\ walk[a].step = "index"
      BY <2>15 DEF IndexNodes, d
    <3>2. /\ walk' = [walk EXCEPT ![a] = walk'[a]] /\ IsWalk(walk'[a])
          /\ walk'[a].step = "list" /\ walk'[a].nodes = walk[a].nodes
      BY <2>2, <3>1 DEF IsWalk
    <3>3. ASSUME NEW f \in DOMAIN walk[a].nodes PROVE Listed(d, f)'
      <4>1. Row(d, f, IF f = RootFile THEN "root" ELSE "dependency") \in rows'
        BY <3>1
      <4>2. CASE f = RootFile
        BY <2>4, <4>1, <4>2 DEF Listed
      <4>3. CASE f # RootFile
        BY <2>4, <4>1, <4>3 DEF Listed
      <4> QED BY <4>2, <4>3
    <3>4. IndexIsTrue(a)'
      BY <2>4, <3>2, <3>3 DEF IndexIsTrue, d
    <3>5. \A e \in Depicted : \A f : Listed(e, f) => Listed(e, f)'
      BY <2>3, <3>1, <3>2, ListedStays
    <3>6. ASSUME NEW r \in rows' PROVE r.artwork \in Depicted
      <4>1. r \in rows \/ \E f, source : r = Row(d, f, source)
        BY <3>1
      <4> QED BY <2>2, <2>4, <4>1
    <3> QED BY <2>2, <2>3, <3>2, <3>4, <3>5, <3>6, WalkKeeps
  <2>16. CASE ListEntries(a)
    <3>1. PICK next \in {"clear dag", "done"} : walk' = [walk EXCEPT ![a].step = next]
      BY <2>16 DEF ListEntries
    <3>2. walk[a].step = "list" /\ rows' = rows
      BY <2>16 DEF ListEntries
    <3> QED BY <2>3, <3>1, <3>2, StepKeepsIndex
  <2>17. CASE ClearEntries(a)
    <3>1. /\ walk[a].step = "clear dag" /\ walk' = [walk EXCEPT ![a].step = "index dag"]
          /\ rows' = {r \in rows : r.artwork = d => r.source # "dag"}
      BY <2>17 DEF ClearEntries, d
    <3>2. /\ walk' = [walk EXCEPT ![a] = walk'[a]] /\ IsWalk(walk'[a])
          /\ walk'[a].step = "index dag" /\ walk'[a].nodes = walk[a].nodes
          /\ walk'[a].stands = walk[a].stands
      BY <2>5, <3>1
    <3>3. \A e \in Depicted : \A f : Listed(e, f) => Listed(e, f)'
      <4>1. \A e : Syncing(e) => Syncing(e)'
        <5>1. \A b \in Archivings : walk[b].step = "sync" => walk'[b] = walk[b]
          BY <2>2, <3>1
        <5> QED BY <2>3, <5>1 DEF Syncing, ArtworkOf
      <4>2. ASSUME NEW e, NEW f, NEW source \in {"root", "dependency"},
                   Row(e, f, source) \in rows
            PROVE  Row(e, f, source)' \in rows'
        <5>1. Row(e, f, source).source # "dag"
          BY <2>4
        <5> QED BY <2>4, <3>1, <4>2, <5>1
      <4> QED BY <4>1, <4>2 DEF Listed
    <3>4. IndexIsTrue(a)'
      BY <2>2, <2>4, <3>1, <3>2, <3>3 DEF IndexIsTrue, d
    <3> QED BY <2>2, <2>3, <3>1, <3>2, <3>3, <3>4, WalkKeeps
  <2>18. CASE IndexEntries(a)
    <3>1. /\ walk[a].step = "index dag" /\ walk' = [walk EXCEPT ![a].step = "done"]
          /\ rows' = rows \cup {Row(d, f, "dag") : f \in web.entries}
      BY <2>18 DEF IndexEntries, d
    <3>2. /\ walk' = [walk EXCEPT ![a] = walk'[a]] /\ IsWalk(walk'[a])
          /\ walk'[a].step = "done" /\ walk'[a].nodes = walk[a].nodes
          /\ walk'[a].stands = walk[a].stands
      BY <2>5, <3>1
    <3>3. \A e \in Depicted : \A f : Listed(e, f) => Listed(e, f)'
      BY <2>3, <3>1, <3>2, ListedStays
    <3>4. IndexIsTrue(a)'
      BY <2>2, <2>4, <3>1, <3>2, <3>3 DEF IndexIsTrue, d
    <3>5. \A r \in rows' : r.artwork \in Depicted
      <4>1. SUFFICES ASSUME NEW r \in rows', r \notin rows PROVE r.artwork \in Depicted
        BY <2>2
      <4>2. \E f \in web.entries : r = Row(d, f, "dag")
        BY <3>1, <4>1
      <4> QED BY <2>4, <4>2
    <3> QED BY <2>3, <3>1, <3>2, <3>3, <3>4, <3>5, WalkKeeps
  <2> QED BY <2>1, <2>6, <2>7, <2>8, <2>9, <2>10, <2>11, <2>12, <2>13, <2>14, <2>15,
             <2>16, <2>17, <2>18 DEF WalkStep
<1> QED BY <1>1, <1>2

LEMMA DependencyInvHolds == DependenciesSpec => []DependencyInv
<1> QED BY DependencyStarts, DependencyStep, PTL DEF DependenciesSpec

\* archiveDependencyTree: when the walk of a root has ended, whatever files
\* refer to above the limit is in its manifest, however often files failed or
\* were met too deep before.
THEOREM ReferencesFollowedHolds == DependenciesSpec => []ReferencesFollowed
<1>1. DependencyInv => ReferencesFollowed
  <2> SUFFICES ASSUME DependencyInv PROVE ReferencesFollowed
    OBVIOUS
  <2>1. ASSUME NEW a \in Archivings, Walked(a) PROVE \A g : ~ Awaited(walk[a], g)
    BY <2>1 DEF Walked, Awaited
  <2>2. ASSUME NEW a \in Archivings, Walked(a) PROVE WalkIsTrue(walk[a])
    BY <2>2 DEF Walked, DependencyInv
  <2> QED BY <2>1, <2>2 DEF ReferencesFollowed, WalkIsTrue
<1> QED BY <1>1, DependencyInvHolds, PTL

\* cid-index.ts: as long as the rows of a backup stand, a search for any file
\* that it has found finds its artwork, together with others that have found
\* the file, however the archivings of the same artworks overlap.
THEOREM FoundBySearchHolds == DependenciesSpec => []FoundBySearch
<1>1. DependencyInv => FoundBySearch
  <2> SUFFICES ASSUME DependencyInv PROVE FoundBySearch
    OBVIOUS
  <2>1. ASSUME NEW d \in Depicted, NEW f, Indexed(d, f), f = RootFile => ~ Syncing(d)
        PROVE  \E r \in rows : r.artwork = d /\ r.file = f
    <3>1. Listed(d, f)
      BY <2>1 DEF Indexed, DependencyInv, IndexIsTrue
    <3> QED BY <2>1, <3>1 DEF Listed, Row
  <2>2. ASSUME NEW d \in Depicted, NEW f, Indexed(d, f)
        PROVE  d \in loadCidArtworkIdsForQuery(f)
    <3>1. CASE f = RootFile
      BY <3>1 DEF loadCidArtworkIdsForQuery
    <3>2. CASE f # RootFile
      BY <2>1, <2>2, <3>2 DEF loadCidArtworkIdsForQuery
    <3> QED BY <3>1, <3>2
  <2>3. ASSUME NEW d \in Depicted, NEW e \in Depicted, NEW f, NEW g,
               d # e, Indexed(d, f), Indexed(e, f), Indexed(d, g),
               f = RootFile => ~ Syncing(d) /\ ~ Syncing(e)
        PROVE  \E group \in loadCidOverlapGroupsForQuery(g) :
                  group.file = f /\ {d, e} \subseteq group.artworks
    <3> DEFINE artworks == loadCidArtworkIdsForQuery(g)
               cids == {g} \cup loadSeedCidsForArtworks(artworks)
               found == {r \in rows : r.file \in cids}
               sharing == {r.artwork : r \in {x \in found : x.file = f}}
    <3>1. d \in artworks
      BY <2>2, <2>3
    <3>2. PICK r \in rows : r.artwork = d /\ r.file = f
      BY <2>1, <2>3
    <3>3. PICK q \in rows : q.artwork = e /\ q.file = f
      BY <2>1, <2>3
    <3>4. f \in cids
      BY <3>1, <3>2 DEF loadSeedCidsForArtworks
    <3>5. r \in found /\ q \in found /\ {d, e} \subseteq sharing
      BY <3>2, <3>3, <3>4
    <3>6. Cardinality(sharing) > 1
      <4>1. sharing \subseteq Depicted
        BY DEF DependencyInv
      <4>2. IsFiniteSet(sharing)
        BY <4>1, DependenciesAssumption, FS_Subset
      <4>3. Cardinality({d, e}) = 2
        <5>1. IsFiniteSet({d}) /\ Cardinality({d}) = 1 /\ {d, e} = {d} \cup {e}
          BY FS_Singleton
        <5> QED BY <2>3, <5>1, FS_AddElement
      <4>4. Cardinality({d, e}) <= Cardinality(sharing) /\ Cardinality(sharing) \in Nat
        <5> HIDE DEF sharing
        <5> QED BY <3>5, <4>2, FS_Subset, FS_CardinalityType
      <4> QED BY <4>3, <4>4
    <3>7. loadCidOverlapGroupsForQuery(g) = buildCidOverlapGroups(found)
      BY <3>1 DEF loadCidOverlapGroupsForQuery
    <3>8. [file |-> f, artworks |-> sharing] \in buildCidOverlapGroups(found)
      <4> HIDE DEF found
      <4> QED BY <3>2, <3>5, <3>6 DEF buildCidOverlapGroups
    <3> HIDE DEF sharing, found
    <3> QED BY <3>5, <3>7, <3>8
  <2> QED BY <2>2, <2>3 DEF FoundBySearch
<1> QED BY <1>1, DependencyInvHolds, PTL
=============================================================================
