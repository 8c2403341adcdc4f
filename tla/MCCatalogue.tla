----------------------------- MODULE MCCatalogue -----------------------------
(***************************************************************************)
(* Instances for TLC of what the archive knows of works, in four parts:    *)
(* the index of the market (MarketIndexer), the pages that show and end    *)
(* its listings (MarketPages), the files a work depends on (Dependencies)  *)
(* and the profiles of artists (ProfileAssets).  They share no state, so   *)
(* every behaviour is about one of them while the others rest.             *)
(***************************************************************************)
EXTENDS MarketIndexer, MarketPages, Dependencies, ProfileAssets, TLC

-----------------------------------------------------------------------------
(* Pages of the market: what is on sale when the index begins.             *)

CONSTANTS t1, t2, b1
MCTokenOrder == <<t1, t2>>
OnSale(listed) == [i \in {t1, t2} \X (0..MaxAuctions) |-> IF i \in DOMAIN listed THEN listed[i] ELSE "none"]
AMarket(listed, older, who, visits, trades, faults, delists) ==
    [listed |-> OnSale(listed), older |-> older, approves |-> TRUE,
     network |-> (t1 :> "Ethereum" @@ t2 :> "Base"),
     work |-> [b \in {b1} |-> t1], visitor |-> [b \in {b1} |-> who],
     visits |-> visits, clicks |-> IF visits = 0 THEN 0 ELSE 2,
     trades |-> trades, faults |-> faults, delists |-> delists]
price1 == <<t1, 0>>   auction1 == <<t1, 1>>   price2 == <<t2, 0>>   auction2 == <<t2, 1>>
NoMarket == AMarket(<<>>, {}, "other", 0, 0, 0, FALSE)
MCMarkets ==
    {NoMarket,
     AMarket(auction1 :> "open" @@ price1 :> "active", {}, "seller", 0, 1, 1, TRUE),
     AMarket(auction1 :> "bid" @@ price2 :> "active", {}, "other", 0, 1, 0, TRUE),
     AMarket(price1 :> "active" @@ auction2 :> "open", {}, "seller", 0, 1, 1, TRUE),
     AMarket(auction1 :> "bid", {auction1}, "other", 2, 1, 1, FALSE),
     AMarket(auction1 :> "open" @@ price1 :> "active", {auction1, price1}, "seller", 2, 1, 0, FALSE),
     AMarket(auction1 :> "open", {auction1}, "seller", 2, 2, 0, FALSE),
     [AMarket(<<>>, {}, "seller", 2, 1, 0, FALSE) EXCEPT !.approves = FALSE]}

-----------------------------------------------------------------------------
(* Files that refer to each other: a root whose references come in one      *)
(* order or the other, and two artworks with previews of their own, one of  *)
(* them archived twice.                                                     *)

CONSTANTS top, a1st, b2nd, inner, d1, d2, other, w1, w2, w3
InOrder(S) == SelectSeq(<<top, a1st, b2nd, inner>>, LAMBDA f : f \in S)
Refers(ofTop, of1st, of2nd) ==
    [f \in {top, a1st, b2nd, inner} |->
        CASE f = top -> ofTop [] f = a1st -> <<other>> \o of1st
          [] f = b2nd -> of2nd [] f = inner -> <<>>]
WorkOf == w1 :> d1 @@ w2 :> d2 @@ w3 :> d1
AnyButItself(f) == SUBSET ({top, a1st, b2nd, inner} \ {f})
MCWebs ==
    {[refs |-> Refers(ofTop, InOrder(P), InOrder(Q)), seeds |-> [d \in {d1, d2} |-> <<>>],
      garbled |-> {}, entries |-> {inner}, of |-> WorkOf, callers |-> {w1}, outages |-> 1] :
         ofTop \in UNION {{InOrder(S), Reverse(InOrder(S))} : S \in SUBSET {a1st, b2nd, inner}},
         P \in AnyButItself(a1st), Q \in AnyButItself(b2nd)}
    \cup
    {[refs |-> Refers(<<a1st>>, <<b2nd>>, <<a1st, inner>>),
      seeds |-> [d \in {d1, d2} |-> IF d = d1 THEN <<b2nd>> ELSE <<inner, inner>>],
      garbled |-> G, entries |-> {a1st}, of |-> WorkOf, callers |-> C, outages |-> 1] :
         G \in SUBSET {b2nd}, C \in {{w1, w2}, {w1, w3}}}
    \cup
    {[refs |-> Refers(<<>>, <<>>, <<>>), seeds |-> [d \in {d1, d2} |-> <<a1st>>],
      garbled |-> {}, entries |-> {a1st}, of |-> WorkOf, callers |-> {w1, w2, w3},
      outages |-> 1]}
NoWeb == [refs |-> Refers(<<>>, <<>>, <<>>), seeds |-> [d \in {d1, d2} |-> <<>>],
          garbled |-> {}, entries |-> {inner}, of |-> WorkOf, callers |-> {w1}, outages |-> 1]

-----------------------------------------------------------------------------
(* Profiles: one or two runs of the backfill, or the ingests of two works.  *)

CONSTANTS s1, s2, i1, i2
ACircle(artists, batch, scripts, visits, mishaps, kills, starts) ==
    [artists |-> artists, batch |-> batch, scripts |-> scripts, visits |-> visits,
     live |-> TRUE, mishaps |-> mishaps, kills |-> kills, starts |-> starts]
NoCircle == [ACircle(1, 1, {}, {}, 0, 0, 0) EXCEPT !.live = FALSE]
MCCircles ==
    {NoCircle, ACircle(2, 1, {s1}, {}, 1, 1, 2), ACircle(1, 1, {s1}, {}, 3, 0, 1),
     ACircle(2, 1, {s1}, {}, 2, 0, 1), ACircle(2, 2, {s1}, {}, 1, 0, 1),
     ACircle(1, 1, {s1, s2}, {}, 1, 0, 2), ACircle(1, 1, {s1}, {i1, i2}, 1, 0, 3),
     [ACircle(2, 2, {s1}, {i1}, 0, 0, 2) EXCEPT !.live = FALSE]}

-----------------------------------------------------------------------------
VARIABLE part   \* which of the four the behaviour is about

others == <<marketVars, dependencyVars, profileVars>>
catalogueVars == <<vars, others, part>>

\* The index of an empty chain, up to date, with no tick to come: all of them
\* seem to hold the lock.
IndexRests ==
    /\ chain = <<>> /\ seed = 1 /\ checkpoint = 1 /\ log = {} /\ lock = Ticks
    /\ auction = [a \in Auctions |-> NoRow] /\ price = [t \in Tokens |-> NoRow]
    /\ tick = [p \in Ticks |-> IdleTick]
    /\ spent = [failures |-> 0, overruns |-> 0]

CatalogueInit ==
    /\ part \in {"index", "pages", "dependencies", "profiles"}
    /\ IF part = "index" THEN Init ELSE IndexRests
    /\ MarketPagesInit /\ (part # "pages" => market = NoMarket)
    /\ DependenciesInit /\ (part # "dependencies" => web = NoWeb)
    /\ ProfileInit /\ (part # "profiles" => circle = NoCircle)

\* Bound: a tick fails or is overrun, of all the ticks.
OneTrouble == spent.failures + spent.overruns <= 1

CatalogueNext ==
    /\ UNCHANGED part
    /\ \/ part = "index" /\ Next /\ OneTrouble' /\ UNCHANGED others
       \/ /\ part = "pages" /\ MarketPagesNext
          /\ UNCHANGED <<vars, dependencyVars, profileVars>>
       \/ /\ part = "dependencies" /\ DependenciesNext
          /\ UNCHANGED <<vars, marketVars, profileVars>>
       \/ /\ part = "profiles" /\ ProfileNext
          /\ UNCHANGED <<vars, marketVars, dependencyVars>>

\* The index has nothing to do while it rests.
CatalogueSpec ==
    /\ CatalogueInit /\ [][CatalogueNext]_catalogueVars
    /\ \A p \in Ticks : WF_vars(TickStep(p))
=============================================================================
