---------------------------- MODULE MarketIndexer ----------------------------
(***************************************************************************)
(* The market indexer (src/src/server/archive/foundation-market): a        *)
(* checkpointed scan that copies the events of one market contract into an *)
(* event log and two tables, the reserve auctions and the buy prices.      *)
(*                                                                         *)
(* Every statement a tick makes against Postgres is an action, so a tick   *)
(* can fail or die between any two of them and the next one replays the    *)
(* window over rows that have already seen its events.  Ticks run under    *)
(* the ingress lock, which is released under a tick that outlasts its      *)
(* transaction.                                                            *)
(*                                                                         *)
(* A block holds at most one event, and every column is reduced to the     *)
(* block of the event that wrote it (0 for a null).                        *)
(***************************************************************************)
EXTENDS Integers, Sequences, FiniteSets, FiniteSetsExt

CONSTANTS
    Auctions,       \* auction ids
    Tokens,         \* (nftContract, tokenId) pairs with a buy price
    Ticks,          \* processes that run ingress cycles
    BlockWindow,    \* blockWindowSize
    MaxBlocks,      \* bound: length of the chain
    MaxFailures,    \* bound: ticks that fail or die under way
    MaxOverruns     \* bound: ticks that outlast the ingress lock

ASSUME IndexerAssumption ==
    /\ BlockWindow \in Nat \ {0} /\ MaxBlocks \in Nat
    /\ MaxFailures \in Nat /\ MaxOverruns \in Nat
    /\ Auctions \cap Tokens = {}

VARIABLES
    chain,          \* the blocks mined so far, by number
    seed,           \* scanFromBlock
    checkpoint,     \* nextFromBlock
    log,            \* foundationMarketEvent
    auction,        \* foundationReserveAuction, by auction id
    price,          \* foundationBuyPrice, by token
    tick,           \* where each process is in runMarketIndexerForState
    lock,           \* holders of the ingress advisory lock
    spent           \* events counted against the bounds

vars == <<chain, seed, checkpoint, log, auction, price, tick, lock, spent>>
state == <<seed, checkpoint>>
tables == <<auction, price>>

-----------------------------------------------------------------------------
AuctionKinds == {"Created", "BidPlaced", "Finalized", "AuctionCanceled",
                 "AuctionInvalidated", "Updated"}
PriceKinds == {"Set", "Accepted", "Canceled", "Invalidated"}

Event == [kind : AuctionKinds, item : Auctions]
           \cup [kind : PriceKinds, item : Tokens]
Silence == [kind |-> "Silence"]

Blocks == 1..MaxBlocks
Mined == 1..Len(chain)
EventBlocks == {b \in Mined : chain[b] # Silence}
Mentions(item, n) == {b \in EventBlocks : b <= n /\ chain[b].item = item}

Auction == [status : {"open", "bidding", "finalized", "canceled", "invalidated"},
            terms : Blocks, reserve : Blocks, bid : Blocks \cup {0},
            final : Blocks \cup {0}]
BuyPrice == [status : {"active", "accepted", "canceled", "invalidated"},
             offer : Blocks, sale : Blocks \cup {0}, updated : Blocks]
NoRow == [status |-> "absent"]

\* todo holds the fetched logs that have not been dispatched.
Tick == [step : {"idle", "starting", "reading", "logging", "handling"},
         from : 0..(MaxBlocks + 1), to : 0..MaxBlocks, todo : SUBSET Blocks]
IdleTick == [step |-> "idle", from |-> 0, to |-> 0, todo |-> {}]

\* -1: the indexer state row does not exist yet.
TypeOK ==
    /\ chain \in Seq(Event \cup {Silence}) /\ Len(chain) <= MaxBlocks
    /\ seed \in Nat \cup {-1} /\ checkpoint \in Nat \cup {-1}
    /\ log \subseteq [block : Blocks, named : BOOLEAN]
    /\ auction \in [Auctions -> Auction \cup {NoRow}]
    /\ price \in [Tokens -> BuyPrice \cup {NoRow}]
    /\ tick \in [Ticks -> Tick]
    /\ lock \subseteq Ticks
    /\ spent \in [failures : 0..MaxFailures, overruns : 0..MaxOverruns]

Init ==
    /\ chain = <<>>
    /\ seed = -1 /\ checkpoint = -1
    /\ log = {}
    /\ auction = [a \in Auctions |-> NoRow]
    /\ price = [t \in Tokens |-> NoRow]
    /\ tick = [p \in Ticks |-> IdleTick]
    /\ lock = {}
    /\ spent = [failures |-> 0, overruns |-> 0]

-----------------------------------------------------------------------------
(* The market contract.                                                    *)

LastKind(item) ==
    LET m == Mentions(item, Len(chain))
    IN  IF m = {} THEN "none" ELSE chain[Max(m)].kind

\* The order in which the contract emits the events of one auction or token.
Permitted(e) ==
    LET last == LastKind(e.item)
    IN  \/ e.kind = "Created" /\ last = "none"
        \/ e.kind = "BidPlaced" /\ last \in {"Created", "Updated", "BidPlaced"}
        \/ e.kind = "Finalized" /\ last = "BidPlaced"
        \/ /\ e.kind \in {"AuctionCanceled", "AuctionInvalidated", "Updated"}
           /\ last \in {"Created", "Updated"}
        \/ e.kind = "Set"
        \/ e.kind \in {"Accepted", "Canceled", "Invalidated"} /\ last = "Set"

Mine(e) ==
    /\ Len(chain) < MaxBlocks
    /\ e = Silence \/ Permitted(e)
    /\ chain' = Append(chain, e)
    /\ UNCHANGED <<state, log, tables, tick, lock, spent>>

-----------------------------------------------------------------------------
(* A tick.                                                                 *)

\* pg_try_advisory_xact_lock.
BeginTick(p) ==
    /\ tick[p].step = "idle" /\ lock = {}
    /\ lock' = {p}
    /\ tick' = [tick EXCEPT ![p].step = "starting"]
    /\ UNCHANGED <<chain, state, log, tables, spent>>

\* ensureFoundationMarketIndexerStates, at the head of the chain or, when
\* the RPC does not answer, at 0; then the state row is read.
ReadState(p) ==
    /\ tick[p].step = "starting"
    /\ IF checkpoint = -1
       THEN \E from \in {0, Len(chain)} : seed' = from /\ checkpoint' = from
       ELSE UNCHANGED state
    /\ tick' = [tick EXCEPT ![p].step = "reading", ![p].from = checkpoint']
    /\ UNCHANGED <<chain, log, tables, lock, spent>>

WindowEnd(from) ==
    LET end == from + BlockWindow - 1
    IN  IF end <= Len(chain) THEN end ELSE Len(chain)

FetchLogs(p) ==
    LET from == tick[p].from
        to == WindowEnd(from)
    IN  /\ tick[p].step = "reading"
        /\ IF from > Len(chain)
           THEN tick' = [tick EXCEPT ![p] = IdleTick] /\ lock' = lock \ {p}
           ELSE /\ tick' = [tick EXCEPT ![p].step = "logging", ![p].to = to,
                              ![p].todo = EventBlocks \cap (from..to)]
                /\ UNCHANGED lock
        /\ UNCHANGED <<chain, state, log, tables, spent>>

\* The logs are sorted by block.
FirstBlock(todo) == Min(todo)

\* enrichWithTokenIfMissing: events of an auction name no token themselves.
Named(e) == e.kind \in PriceKinds \cup {"Created"} \/ auction[e.item] # NoRow

\* Mutant: an event that is in the log already is not handled again.
PersistSkippingKnown(p) ==
    LET b == FirstBlock(tick[p].todo)
        known == \E l \in log : l.block = b
    IN  /\ tick[p].step = "logging" /\ tick[p].todo # {}
        /\ log' = IF known THEN log
                  ELSE log \cup {[block |-> b, named |-> Named(chain[b])]}
        /\ tick' = IF known THEN [tick EXCEPT ![p].todo = @ \ {b}]
                   ELSE [tick EXCEPT ![p].step = "handling"]
        /\ UNCHANGED <<chain, state, tables, lock, spent>>

\* persistMarketEventLog; a row that is there already is kept.
PersistLog(p) ==
    LET b == FirstBlock(tick[p].todo)
    IN  /\ tick[p].step = "logging" /\ tick[p].todo # {}
        /\ log' = IF \E l \in log : l.block = b THEN log
                  ELSE log \cup {[block |-> b, named |-> Named(chain[b])]}
        /\ tick' = [tick EXCEPT ![p].step = "handling"]
        /\ UNCHANGED <<chain, state, tables, lock, spent>>

\* updateMany: nothing happens to an auction that was created before seed.
AuctionAfter(r, kind, b) ==
    IF r = NoRow /\ kind # "Created" THEN NoRow
    ELSE CASE kind = "Created" ->
                [status |-> "open", terms |-> b, reserve |-> b,
                 bid |-> IF r = NoRow THEN 0 ELSE r.bid,
                 final |-> IF r = NoRow THEN 0 ELSE r.final]
           [] kind = "BidPlaced" -> [r EXCEPT !.status = "bidding", !.bid = b]
           [] kind = "Finalized" -> [r EXCEPT !.status = "finalized", !.final = b]
           [] kind = "AuctionCanceled" -> [r EXCEPT !.status = "canceled"]
           [] kind = "AuctionInvalidated" -> [r EXCEPT !.status = "invalidated"]
           [] kind = "Updated" -> [r EXCEPT !.reserve = b]

PriceAfter(r, kind, b) ==
    IF r = NoRow /\ kind # "Set" THEN NoRow
    ELSE CASE kind = "Set" ->
                [status |-> "active", offer |-> b, sale |-> 0, updated |-> b]
           [] kind = "Accepted" ->
                [r EXCEPT !.status = "accepted", !.sale = b, !.updated = b]
           [] kind = "Canceled" -> [r EXCEPT !.status = "canceled", !.updated = b]
           [] kind = "Invalidated" -> [r EXCEPT !.status = "invalidated", !.updated = b]

\* dispatchMarketLog: the handler of the event just logged.
HandleEvent(p) ==
    LET b == FirstBlock(tick[p].todo)
        e == chain[b]
    IN  /\ tick[p].step = "handling"
        /\ \/ /\ e.kind \in AuctionKinds
              /\ auction' = [auction EXCEPT ![e.item] = AuctionAfter(@, e.kind, b)]
              /\ UNCHANGED price
           \/ /\ e.kind \in PriceKinds
              /\ price' = [price EXCEPT ![e.item] = PriceAfter(@, e.kind, b)]
              /\ UNCHANGED auction
        /\ tick' = [tick EXCEPT ![p].step = "logging", ![p].todo = @ \ {b}]
        /\ UNCHANGED <<chain, state, log, lock, spent>>

\* Mutant: the next window leaves a block out.
AdvanceSkippingOne(p) ==
    /\ tick[p].step = "logging" /\ tick[p].todo = {}
    /\ checkpoint' = tick[p].to + 2
    /\ tick' = [tick EXCEPT ![p] = IdleTick]
    /\ lock' = lock \ {p}
    /\ UNCHANGED <<chain, seed, log, tables, spent>>

\* Mutant: the checkpoint is never written.
AdvanceNowhere(p) ==
    /\ tick[p].step = "logging" /\ tick[p].todo = {}
    /\ tick' = [tick EXCEPT ![p] = IdleTick]
    /\ lock' = lock \ {p}
    /\ UNCHANGED <<chain, state, log, tables, spent>>

\* The checkpoint moves when every log of the window has been dispatched.
Advance(p) ==
    /\ tick[p].step = "logging" /\ tick[p].todo = {}
    /\ checkpoint' = tick[p].to + 1
    /\ tick' = [tick EXCEPT ![p] = IdleTick]
    /\ lock' = lock \ {p}
    /\ UNCHANGED <<chain, seed, log, tables, spent>>

\* The RPC or the database fails (recordIndexerFailure), or the process dies.
FailTick(p) ==
    /\ tick[p].step # "idle" /\ spent.failures < MaxFailures
    /\ spent' = [spent EXCEPT !.failures = @ + 1]
    /\ tick' = [tick EXCEPT ![p] = IdleTick]
    /\ lock' = lock \ {p}
    /\ UNCHANGED <<chain, state, log, tables>>

\* The transaction that holds the lock times out; the tick carries on.
LockTimesOut(p) ==
    /\ p \in lock /\ spent.overruns < MaxOverruns
    /\ spent' = [spent EXCEPT !.overruns = @ + 1]
    /\ lock' = lock \ {p}
    /\ UNCHANGED <<chain, state, log, tables, tick>>

-----------------------------------------------------------------------------
TickStep(p) ==
    \/ BeginTick(p) \/ ReadState(p) \/ FetchLogs(p)
    \/ PersistLog(p) \/ HandleEvent(p) \/ Advance(p)

Next ==
    \/ \E e \in Event \cup {Silence} : Mine(e)
    \/ \E p \in Ticks : TickStep(p) \/ FailTick(p) \/ LockTimesOut(p)

Spec == Init /\ [][Next]_vars

\* scripts/worker.ts runs one cycle after the other, each to its end; ticks
\* fail and overrun finitely often and the chain may stop growing.
FairSpec == Spec /\ \A p \in Ticks : WF_vars(TickStep(p))

-----------------------------------------------------------------------------
(* What a single pass over the events from seed to block n, without any    *)
(* failure, would leave behind, said of the events and not of the passes.  *)

AuctionAt(a, n) ==
    LET seen == {b \in Mentions(a, n) : b >= seed}
        Of(kinds) == {b \in seen : chain[b].kind \in kinds}
        LatestOf(kinds) == IF Of(kinds) = {} THEN 0 ELSE Max(Of(kinds))
        decisive == chain[Max(Of(AuctionKinds \ {"Updated"}))].kind
    IN  IF Of({"Created"}) = {} THEN NoRow
        ELSE [status |-> CASE decisive = "Created" -> "open"
                           [] decisive = "BidPlaced" -> "bidding"
                           [] decisive = "Finalized" -> "finalized"
                           [] decisive = "AuctionCanceled" -> "canceled"
                           [] decisive = "AuctionInvalidated" -> "invalidated",
              terms |-> LatestOf({"Created"}),
              reserve |-> LatestOf({"Created", "Updated"}),
              bid |-> LatestOf({"BidPlaced"}),
              final |-> LatestOf({"Finalized"})]

PriceAt(t, n) ==
    LET seen == {b \in Mentions(t, n) : b >= seed}
        offers == {b \in seen : chain[b].kind = "Set"}
        last == Max(seen)
    IN  IF offers = {} THEN NoRow
        ELSE [status |-> CASE chain[last].kind = "Set" -> "active"
                           [] chain[last].kind = "Accepted" -> "accepted"
                           [] chain[last].kind = "Canceled" -> "canceled"
                           [] chain[last].kind = "Invalidated" -> "invalidated",
              offer |-> Max(offers),
              sale |-> IF chain[last].kind = "Accepted" THEN last ELSE 0,
              updated |-> last]

-----------------------------------------------------------------------------
(* Properties.                                                             *)

\* Every time the checkpoint moves, both tables are exactly what one
\* uninterrupted pass would have written, however often the window was
\* begun, broken off and replayed before.  Only a tick that outlasted its
\* lock can spoil this.
CheckpointIsExact ==
    [][checkpoint' # checkpoint /\ checkpoint # -1 /\ spent.overruns = 0 =>
          /\ \A a \in Auctions : auction'[a] = AuctionAt(a, checkpoint' - 1)
          /\ \A t \in Tokens : price'[t] = PriceAt(t, checkpoint' - 1)]_vars

\* The event log has every event from seed up to the checkpoint, each one
\* once, even when ticks overlap and move the checkpoint back.
NoEventSkipped ==
    /\ \A b \in EventBlocks :
          seed <= b /\ b < checkpoint => \E l \in log : l.block = b
    /\ \A k, l \in log : k.block = l.block => k = l

\* Once ticks stop failing the index catches up with the chain, whatever
\* state their failures left it in.
CatchesUp == <>[](checkpoint = Len(chain) + 1)
=============================================================================
